--------------------------- MODULE MCCalendarAdmin ---------------------------
(* Small instances of CalendarAdmin for TLC. *)
EXTENDS CalendarAdmin, TLC

CONSTANTS fire, club

\* Both units, and one that is named twice.
MCViewerLists == {<<fire, club>>, <<club, club>>}

=============================================================================
