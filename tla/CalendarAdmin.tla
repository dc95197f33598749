---------------------------- MODULE CalendarAdmin ----------------------------
(***************************************************************************)
(* Calendars and their custom viewers: the store functions of              *)
(* internal/store/calendar.go, DeleteUnit, and the tables units, calendars *)
(* and calendar_custom_viewers with their cascades.                        *)
(*                                                                         *)
(* calendars and viewers hold what is committed.  A call's writes take     *)
(* effect when it commits; until then it keeps the rows it has written or  *)
(* deleted (holds), and the units that its inserts refer to (shares), and  *)
(* others wait for them.  A statement that needs several rows takes them   *)
(* one by one, in any order.                                               *)
(***************************************************************************)
EXTENDS Naturals, Sequences, FiniteSets, Functions

CONSTANTS
    Slots,         \* calls in flight at the same time
    Units,         \* ids in table units at the start
    MaxCalendars,  \* bound: how many calendars the runs create
    Visibilities,  \* visibilities that callers set
    ViewerLists,   \* arguments customViewerUnitIDs
    None           \* no row

ASSUME CalendarAssumption ==
    /\ IsFiniteSet(Slots) /\ MaxCalendars \in Nat
    /\ Visibilities \subseteq {"association", "unit", "custom"}
    /\ ViewerLists \subseteq Seq(Units)
    /\ None \notin [unit : Units, visibility : Visibilities]
    /\ None \notin [unit : Units, visibility : Visibilities, viewers : SUBSET Units]

Ids == 1 .. MaxCalendars

VARIABLES
    units,      \* ids in table units
    calendars,  \* table calendars: id -> row
    viewers,    \* table calendar_custom_viewers: <<calendar_id, unit_id>>
    lastId,     \* the sequence behind calendars.id
    born,       \* history: the ids that have ever been committed
    call        \* the calls in flight

tables == <<units, calendars, viewers, lastId, born>>
vars == <<units, calendars, viewers, lastId, born, call>>

-----------------------------------------------------------------------------
(* Rows and locks *)

UnitRow(unit) == [of |-> "units", id |-> unit]
CalendarRow(id) == [of |-> "calendars", id |-> id]
ViewerRow(id, unit) == [of |-> "viewers", id |-> <<id, unit>>]

ViewerRows(pairs) == {ViewerRow(pair[1], pair[2]) : pair \in pairs}

Idle ==
    [at |-> "idle", op |-> "none", id |-> None, unit |-> None, visibility |-> None,
     list |-> <<>>, added |-> 0, holds |-> {}, shares |-> {}]

Exists(id) == calendars[id] # None

\* The unit's calendars, the viewers of calendars, and the unit's places
\* among the viewers: what the cascades reach.
Owned(unit) == {id \in Ids : Exists(id) /\ calendars[id].unit = unit}
ViewersOf(ids) == ViewerRows({pair \in viewers : pair[1] \in ids})
PlacesOf(unit) == ViewerRows({pair \in viewers : pair[2] = unit})

\* Rows that a call needs, of which it must have all of the first kind before
\* it goes on to the rest.
Before(r, first, rest) == IF first \subseteq call[r].holds THEN rest ELSE first

\* The rows that the present statement of r deletes one by one.
Deletes(r) ==
    CASE call[r].at \in {"clear", "cascade"} -> ViewersOf({call[r].id})
      [] call[r].at = "unit_cascade" ->
            LET owned == Owned(call[r].unit)
            IN  Before(r, {CalendarRow(id) : id \in owned},
                Before(r, ViewersOf(owned), PlacesOf(call[r].unit)))
      [] OTHER -> {}

\* The rows that r has to take before its next step.
Needs(r) ==
    CASE call[r].at \in {"update", "delete"} -> {CalendarRow(call[r].id)}
      [] call[r].at = "delete_unit" -> {UnitRow(call[r].unit)}
      [] OTHER -> Deletes(r) \ call[r].holds

Adding(r) == call[r].at = "viewers" /\ call[r].added < Len(call[r].list)
NextViewer(r) == call[r].list[call[r].added + 1]

\* The units that the next insert of r refers to.
Refers(r) ==
    IF call[r].at = "insert" THEN {call[r].unit}
    ELSE IF Adding(r) THEN {NextViewer(r)} ELSE {}

\* Another call keeps the row from r: it has written or deleted it, or has
\* inserted a row that refers to it.
Keeps(q, row) == row \in call[q].holds \/ \E unit \in call[q].shares : row = UnitRow(unit)
Taken(r, row) == \E q \in Slots \ {r} : Keeps(q, row)

WaitsFor(r, q) ==
    /\ r # q
    /\ \/ \E unit \in Refers(r) : UnitRow(unit) \in call[q].holds
       \/ /\ \A row \in Needs(r) : Taken(r, row)
          /\ \E row \in Needs(r) : Keeps(q, row)

Waits(r) == \E q \in Slots : WaitsFor(r, q)

\* Mutant: no detector.
Deadlocked_Undetected == {}

\* The calls that wait for each other in a circle.
Deadlocked ==
    UNION {S \in SUBSET Slots :
              \A r \in S : /\ \E q \in S : WaitsFor(r, q)
                           /\ \E q \in S : WaitsFor(q, r)}

-----------------------------------------------------------------------------
(* Calls *)

Init ==
    /\ units = Units
    /\ calendars = [id \in Ids |-> None]
    /\ viewers = {}
    /\ lastId = 0
    /\ born = {}
    /\ call = [r \in Slots |-> Idle]

\* Mutants: an update clears the viewers before it writes the calendar; it
\* clears them only if it sets new ones.
Then_ClearsFirst(op, visibility, at) ==
    CASE at = "idle" -> IF op = "update" THEN "clear" ELSE op
      [] at = "clear" -> "update"
      [] OTHER -> "viewers"
Then_ClearsCustomOnly(op, visibility, at) ==
    CASE at = "idle" -> op
      [] at = "update" /\ visibility = "custom" -> "clear"
      [] OTHER -> "viewers"

\* The statement that comes after this one.
Then(op, visibility, at) ==
    CASE at = "idle" -> op
      [] at = "update" -> "clear"
      [] OTHER -> "viewers"

Following(r) == Then(call[r].op, call[r].visibility, call[r].at)

\* Only custom calendars get viewers.
Started(op, id, unit, visibility, list) ==
    [Idle EXCEPT !.at = Then(op, visibility, "idle"), !.op = op, !.id = id, !.unit = unit,
                 !.visibility = visibility,
                 !.list = IF visibility = "custom" THEN list ELSE <<>>]

Start(r, started) ==
    /\ call[r].at = "idle"
    /\ call' = [call EXCEPT ![r] = started]
    /\ UNCHANGED tables

Becomes(r, next) == call' = [call EXCEPT ![r] = next] /\ UNCHANGED <<units, calendars, viewers, born>>

\* Bound: the creates in flight never need more than MaxCalendars ids.
IdsLeft == lastId + Cardinality({r \in Slots : call[r].at = "insert"}) < MaxCalendars

CreateCalendarWithViewers(r, unit, visibility, list) ==
    IdsLeft /\ Start(r, Started("insert", None, unit, visibility, list))
UpdateCalendarWithViewers(r, id, visibility, list) ==
    Start(r, Started("update", id, None, visibility, list))
DeleteCalendar(r, id) == Start(r, Started("delete", id, None, None, <<>>))
DeleteUnit(r, unit) == Start(r, Started("delete_unit", None, unit, None, <<>>))

\* INSERT INTO calendars; the foreign key to the unit is checked, and keeps
\* the unit.
CreateCalendar(r) ==
    /\ call[r].at = "insert" /\ ~ Waits(r)
    /\ lastId' = lastId + 1
    /\ Becomes(r, IF call[r].unit \notin units THEN Idle
                  ELSE [call[r] EXCEPT !.at = Following(r), !.id = lastId + 1,
                                       !.shares = @ \cup {call[r].unit}])

\* UPDATE calendars: no row, and the transaction is rolled back.
UpdateCalendar(r) ==
    /\ call[r].at = "update" /\ ~ Waits(r)
    /\ Becomes(r, IF ~ Exists(call[r].id) THEN Idle
                  ELSE [call[r] EXCEPT !.at = Following(r), !.holds = @ \cup Needs(r)])
    /\ UNCHANGED lastId

\* DELETE FROM calendars or units: deleting what is not there does nothing.
DeleteRow(r) ==
    /\ ~ Waits(r)
    /\ \/ /\ call[r].at = "delete"
          /\ Becomes(r, IF ~ Exists(call[r].id) THEN Idle
                        ELSE [call[r] EXCEPT !.at = "cascade", !.holds = Needs(r)])
       \/ /\ call[r].at = "delete_unit"
          /\ Becomes(r, IF call[r].unit \notin units THEN Idle
                        ELSE [call[r] EXCEPT !.at = "unit_cascade", !.holds = Needs(r)])
    /\ UNCHANGED lastId

\* The next row of DeleteCalendarCustomViewers or of a cascade.
DeleteNext(r) ==
    /\ \E row \in Deletes(r) \ call[r].holds :
        /\ ~ Taken(r, row)
        /\ Becomes(r, [call[r] EXCEPT !.holds = @ \cup {row}])
    /\ UNCHANGED lastId

\* DeleteCalendarCustomViewers has deleted every row it sees.
ViewersCleared(r) ==
    /\ call[r].at = "clear" /\ Needs(r) = {}
    /\ Becomes(r, [call[r] EXCEPT !.at = Following(r)])
    /\ UNCHANGED lastId

\* Mutant: the check of the foreign key does not keep the unit.
InsertCalendarCustomViewer_NoLock(r) ==
    /\ Adding(r) /\ ~ Waits(r)
    /\ Becomes(r, IF NextViewer(r) \notin units
                     \/ \E i \in 1 .. call[r].added : call[r].list[i] = NextViewer(r) THEN Idle
                  ELSE [call[r] EXCEPT !.added = @ + 1])
    /\ UNCHANGED lastId

\* INSERT INTO calendar_custom_viewers: fails if the unit is gone or the list
\* has named it before.
InsertCalendarCustomViewer(r) ==
    /\ Adding(r) /\ ~ Waits(r)
    /\ Becomes(r, IF NextViewer(r) \notin units
                     \/ \E i \in 1 .. call[r].added : call[r].list[i] = NextViewer(r) THEN Idle
                  ELSE [call[r] EXCEPT !.added = @ + 1, !.shares = @ \cup {NextViewer(r)}])
    /\ UNCHANGED lastId

\* The transaction's rows go or change, its inserts appear.  The caller may
\* not hear of it.
Commit(r) ==
    /\ \/ call[r].at = "viewers" /\ ~ Adding(r)
       \/ call[r].at \in {"cascade", "unit_cascade"} /\ Needs(r) = {}
    /\ LET c == call[r]
           written == IF c.at = "viewers" THEN {c.id} ELSE {}
       IN  /\ units' = {unit \in units : UnitRow(unit) \notin c.holds}
           /\ calendars' = [id \in Ids |->
                  IF id \in written
                  THEN [unit |-> IF Exists(id) THEN calendars[id].unit ELSE c.unit,
                        visibility |-> c.visibility]
                  ELSE IF CalendarRow(id) \in c.holds THEN None ELSE calendars[id]]
           /\ viewers' = {pair \in viewers : ViewerRow(pair[1], pair[2]) \notin c.holds}
                         \cup (written \X Range(c.list))
           /\ born' = born \cup written
    /\ call' = [call EXCEPT ![r] = Idle]
    /\ UNCHANGED lastId

\* An error (connection, context, slug already taken, a value its CHECK
\* refuses) or the end of the process: rolled back.
Fault(r) ==
    /\ call[r].at # "idle"
    /\ Becomes(r, Idle)
    /\ UNCHANGED lastId

\* PostgreSQL's deadlock detector rolls one call of the circle back.
AbortDeadlocked(r) ==
    /\ r \in Deadlocked
    /\ Becomes(r, Idle)
    /\ UNCHANGED lastId

-----------------------------------------------------------------------------

Proceed(r) ==
    \/ CreateCalendar(r)
    \/ UpdateCalendar(r)
    \/ DeleteRow(r)
    \/ DeleteNext(r)
    \/ ViewersCleared(r)
    \/ InsertCalendarCustomViewer(r)
    \/ Commit(r)

Next ==
    \E r \in Slots :
        \/ \E visibility \in Visibilities, list \in ViewerLists :
            \/ \E unit \in Units : CreateCalendarWithViewers(r, unit, visibility, list)
            \/ \E id \in Ids : UpdateCalendarWithViewers(r, id, visibility, list)
        \/ \E id \in Ids : DeleteCalendar(r, id)
        \/ \E unit \in Units : DeleteUnit(r, unit)
        \/ Proceed(r)
        \/ Fault(r)
        \/ AbortDeadlocked(r)

\* Statements return, a lock queue serves its waiters in the order they came,
\* and the detector runs after a second.
Fairness == \A r \in Slots : SF_vars(Proceed(r)) /\ WF_vars(AbortDeadlocked(r))

Spec == Init /\ [][Next]_vars /\ Fairness

-----------------------------------------------------------------------------
(* Properties *)

\* Rows are well formed and refer to rows that exist, and only custom
\* calendars have viewers.
TypeOK ==
    /\ units \subseteq Units
    /\ calendars \in [Ids -> [unit : units, visibility : Visibilities] \cup {None}]
    /\ \A pair \in viewers :
        /\ pair \in Ids \X units
        /\ Exists(pair[1]) /\ calendars[pair[1]].visibility = "custom"
    /\ lastId \in 0 .. MaxCalendars /\ born \subseteq 1 .. lastId
    /\ \A r \in Slots :
        /\ call[r].added \in 0 .. Len(call[r].list)
        /\ call[r].at # "idle" => \A row \in call[r].holds : ~ Taken(r, row)

Contents ==
    {[visibility |-> visibility,
      viewers |-> IF visibility = "custom" THEN Range(list) ELSE {}] :
        visibility \in Visibilities, list \in ViewerLists}

Registry ==
    INSTANCE CalendarRegistry WITH
        registry <- [id \in Ids |->
                        IF ~ Exists(id) THEN None
                        ELSE [unit |-> calendars[id].unit,
                              visibility |-> calendars[id].visibility,
                              viewers |-> {unit \in Units : <<id, unit>> \in viewers}]]

\* The committed tables implement CalendarRegistry: every calendar has
\* exactly the viewers that the call which set its visibility named, less the
\* units deleted since, whatever ran at the same time or was rolled back.
ImplementsRegistry == Registry!Spec

\* Calls that wait for each other in a circle always include the deletion of
\* a unit: creating, updating and deleting calendars alone never deadlocks.
CirclesNeedUnitDeletion ==
    Deadlocked # {} => \E r \in Deadlocked : call[r].op = "delete_unit"

\* Every call returns: none waits for ever.
EveryCallReturns ==
    \A r \in Slots : call[r].at # "idle" ~> call[r].at = "idle"

=============================================================================
