---------------------------- MODULE MCAttendance ----------------------------
(* Small instances of Attendance for TLC. *)
EXTENDS Attendance, TLC

CONSTANTS ann, bob

\* Two lists in opposite orders, and one that names a user twice.
MCUserLists == {<<ann, bob>>, <<bob, ann>>, <<bob, bob>>}

=============================================================================
