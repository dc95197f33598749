---------------------------- MODULE MCEntryStore ----------------------------
(* Small instances of EntryStore for TLC. *)
EXTENDS EntryStore, TLC

CONSTANTS early, late

\* A shift with details and a meeting, which updates can move to each other's
\* key.
MCForms ==
    {[key |-> early, type |-> "shift", required |-> TRUE],
     [key |-> late, type |-> "meeting", required |-> FALSE]}

=============================================================================
