-------------------------- MODULE CalendarRegistry --------------------------
(***************************************************************************)
(* What calendars promise: every call changes the registry in one step.  A *)
(* calendar belongs to a live unit; its viewers are live units, named by   *)
(* the call that set its visibility, and only a custom calendar has any.   *)
(* A unit takes its calendars along, and its place among the viewers of    *)
(* the others.  CalendarAdmin implements it with several statements.       *)
(***************************************************************************)
EXTENDS Naturals

CONSTANTS
    Units,     \* unit ids
    Ids,       \* calendar ids
    Contents,  \* [visibility, viewers] records: what a call says of a calendar
    None       \* no calendar

VARIABLES
    units,     \* the units that exist
    registry,  \* the calendar under each id
    born       \* ids that a calendar has ever had

vars == <<units, registry, born>>

Live == {id \in Ids : registry[id] # None}

Init ==
    /\ units = Units
    /\ registry = [id \in Ids |-> None]
    /\ born = {}

Calendar(unit, content) ==
    [unit |-> unit, visibility |-> content.visibility, viewers |-> content.viewers]

Create(id, unit, content) ==
    /\ id \notin born /\ unit \in units /\ content.viewers \subseteq units
    /\ registry' = [registry EXCEPT ![id] = Calendar(unit, content)]
    /\ born' = born \cup {id}
    /\ UNCHANGED units

Update(id, content) ==
    /\ id \in Live /\ content.viewers \subseteq units
    /\ registry' = [registry EXCEPT ![id] = Calendar(registry[id].unit, content)]
    /\ UNCHANGED <<units, born>>

Delete(id) ==
    /\ registry' = [registry EXCEPT ![id] = None]
    /\ UNCHANGED <<units, born>>

\* Mutant: the unit's places among the viewers stay.
DeleteUnit_KeepsPlaces(unit) ==
    /\ units' = units \ {unit}
    /\ registry' = [id \in Ids |->
                      IF id \notin Live \/ registry[id].unit = unit THEN None ELSE registry[id]]
    /\ UNCHANGED born

DeleteUnit(unit) ==
    /\ units' = units \ {unit}
    /\ registry' = [id \in Ids |->
                      IF id \notin Live \/ registry[id].unit = unit THEN None
                      ELSE [registry[id] EXCEPT !.viewers = @ \ {unit}]]
    /\ UNCHANGED born

Next ==
    \/ \E id \in Ids :
        \/ \E content \in Contents :
            \/ \E unit \in Units : Create(id, unit, content)
            \/ Update(id, content)
        \/ Delete(id)
    \/ \E unit \in Units : DeleteUnit(unit)

Spec == Init /\ [][Next]_vars

=============================================================================
