------------------------- MODULE CalendarAdminProofs -------------------------
(***************************************************************************)
(* What CalendarAdmin guarantees for any number of calls, units, calendars *)
(* and viewers.                                                            *)
(***************************************************************************)
EXTENDS CalendarAdmin, SequenceTheorems, FiniteSetTheorems, TLAPS

-----------------------------------------------------------------------------
(* The inductive invariant *)

CalendarRows == [unit : Units, visibility : Visibilities]

Calling ==
    [at : {"idle", "insert", "update", "clear", "viewers", "delete", "cascade",
           "delete_unit", "unit_cascade"},
     op : {"none", "insert", "update", "delete", "delete_unit"},
     id : Ids \cup {None}, unit : Units \cup {None}, visibility : Visibilities \cup {None},
     list : Seq(Units), added : Nat,
     holds : SUBSET ({UnitRow(unit) : unit \in Units} \cup {CalendarRow(id) : id \in Ids}
                     \cup {ViewerRow(pair[1], pair[2]) : pair \in Ids \X Units}),
     shares : SUBSET Units]

\* The operations that take a statement.
OpsAt(at) ==
    CASE at = "idle" -> {"none"}
      [] at = "insert" -> {"insert"}
      [] at \in {"update", "clear"} -> {"update"}
      [] at = "viewers" -> {"insert", "update"}
      [] at \in {"delete", "cascade"} -> {"delete"}
      [] at \in {"delete_unit", "unit_cascade"} -> {"delete_unit"}

\* The tables agree with each other.
Tables ==
    /\ units \subseteq Units
    /\ calendars \in [Ids -> CalendarRows \cup {None}]
    /\ \A id \in Ids : Exists(id) => calendars[id].unit \in units /\ id \in born
    /\ viewers \subseteq Ids \X units
    /\ \A pair \in viewers : Exists(pair[1]) /\ calendars[pair[1]].visibility = "custom"
    /\ lastId \in 0 .. MaxCalendars /\ born \subseteq 1 .. lastId

\* What a call was given, and how far it is.
Stage(c) ==
    /\ c.op \in OpsAt(c.at)
    /\ c.op \in {"insert", "update"} =>
        /\ c.visibility \in Visibilities /\ ViewerLists # {}
        /\ IF c.visibility = "custom" THEN c.list \in ViewerLists ELSE c.list = <<>>
    /\ c.op \in {"insert", "delete_unit"} => c.unit \in Units
    /\ c.op \in {"update", "delete"} => c.id \in Ids
    /\ c.at # "viewers" => c.added = 0 /\ c.shares = {}
    /\ c.added \in 0 .. Len(c.list)
    /\ c.at \in {"idle", "insert", "update", "delete", "delete_unit"} => c.holds = {}

\* The units that a call refers to exist; those named so far are among them.
Shares(c) == c.shares \subseteq units /\ \A i \in 1 .. c.added : c.list[i] \in c.shares

Creating(c) == c.at = "viewers" /\ c.op = "insert"
Updating(c) == c.at = "viewers" /\ c.op = "update"

\* A calendar that is being created is nobody's yet.
Creates(c) ==
    Creating(c) => c.id \in 1 .. lastId /\ c.id \notin born /\ c.unit \in c.shares /\ c.holds = {}

\* What a call holds: rows that exist, and which of them.
Locks(c) ==
    /\ c.at \in {"clear", "cascade"} \/ Updating(c) => CalendarRow(c.id) \in c.holds
    /\ Updating(c) => ViewersOf({c.id}) \subseteq c.holds
    /\ c.at = "unit_cascade" => UnitRow(c.unit) \in c.holds
    /\ \A unit \in Units : UnitRow(unit) \in c.holds =>
        unit \in units /\ c.op = "delete_unit" /\ c.unit = unit
    /\ \A id \in Ids : CalendarRow(id) \in c.holds =>
        /\ Exists(id)
        /\ \/ c.op \in {"update", "delete"} /\ c.id = id
           \/ c.op = "delete_unit" /\ calendars[id].unit = c.unit
    /\ \A id \in Ids, unit \in Units : ViewerRow(id, unit) \in c.holds =>
        /\ <<id, unit>> \in viewers
        /\ CalendarRow(id) \in c.holds \/ (c.op = "delete_unit" /\ c.unit = unit)

CallOk(c) == Stage(c) /\ Shares(c) /\ Creates(c) /\ Locks(c)

\* Calls keep each other from their rows and units, and create different
\* calendars.
Apart(c, d) ==
    /\ c.holds \cap d.holds = {}
    /\ \A unit \in c.shares : UnitRow(unit) \notin d.holds
    /\ \A unit \in d.shares : UnitRow(unit) \notin c.holds
    /\ Creating(c) /\ Creating(d) => c.id # d.id

Inserting == {r \in Slots : call[r].at = "insert"}

Room == lastId + Cardinality(Inserting) <= MaxCalendars

CalendarInv ==
    /\ Tables
    /\ call \in [Slots -> Calling]
    /\ \A r \in Slots : CallOk(call[r])
    /\ \A r, q \in Slots : r # q => Apart(call[r], call[q])
    /\ Room

LEMMA SlotFacts ==
    ASSUME CalendarInv, NEW r \in Slots
    PROVE  /\ call[r] \in Calling /\ CallOk(call[r])
           /\ \A q \in Slots \ {r} : Apart(call[r], call[q])
           /\ \A next : [call EXCEPT ![r] = next][r] = next
           /\ \A next : \A q \in Slots \ {r} : [call EXCEPT ![r] = next][q] = call[q]
BY DEF CalendarInv

LEMMA ApartSym == \A c, d : Apart(c, d) <=> Apart(d, c)
BY DEF Apart

-----------------------------------------------------------------------------
(* Rows *)

LEMMA RowsDiffer ==
    /\ \A unit, other : UnitRow(unit) = UnitRow(other) => unit = other
    /\ \A id, other : CalendarRow(id) = CalendarRow(other) => id = other
    /\ \A id, unit, other, place :
        ViewerRow(id, unit) = ViewerRow(other, place) => id = other /\ unit = place
    /\ \A unit, id : UnitRow(unit) # CalendarRow(id)
    /\ \A unit, id, place : UnitRow(unit) # ViewerRow(id, place)
    /\ \A id, other, unit : CalendarRow(id) # ViewerRow(other, unit)
<1>1. \A id, unit, other, place :
        <<id, unit>> = <<other, place>> => id = other /\ unit = place
    OBVIOUS
<1>2. ASSUME NEW id, NEW unit, NEW other, NEW place, ViewerRow(id, unit) = ViewerRow(other, place)
      PROVE  <<id, unit>> = <<other, place>>
    <2>1. ViewerRow(id, unit).id = ViewerRow(other, place).id
        BY <1>2
    <2>2. QED
        BY <2>1 DEF ViewerRow
<1>3. \A unit, id : UnitRow(unit).of # CalendarRow(id).of
    BY DEF UnitRow, CalendarRow
<1>4. \A unit, id, place : UnitRow(unit).of # ViewerRow(id, place).of
    BY DEF UnitRow, ViewerRow
<1>5. \A id, other, unit : CalendarRow(id).of # ViewerRow(other, unit).of
    BY DEF CalendarRow, ViewerRow
<1>6. \A unit : UnitRow(unit).id = unit
    BY DEF UnitRow
<1>7. \A id : CalendarRow(id).id = id
    BY DEF CalendarRow
<1>8. QED
    BY <1>1, <1>2, <1>3, <1>4, <1>5, <1>6, <1>7

LEMMA SameViewer ==
    ASSUME NEW id, NEW unit, NEW other, NEW place, ViewerRow(id, unit) = ViewerRow(other, place)
    PROVE  other = id /\ place = unit
BY RowsDiffer

LEMMA OneRow ==
    /\ \A unit, id : UnitRow(unit) \notin {CalendarRow(id)}
    /\ \A unit, id, place : ViewerRow(id, place) \notin {UnitRow(unit)}
    /\ \A id, other, unit : ViewerRow(other, unit) \notin {CalendarRow(id)}
BY RowsDiffer

LEMMA RowsOfViewers ==
    /\ \A ids, row : row \in ViewersOf(ids)
        <=> \E pair \in viewers : pair[1] \in ids /\ row = ViewerRow(pair[1], pair[2])
    /\ \A unit, row : row \in PlacesOf(unit)
        <=> \E pair \in viewers : pair[2] = unit /\ row = ViewerRow(pair[1], pair[2])
BY DEF ViewersOf, PlacesOf, ViewerRows

LEMMA PairFacts ==
    ASSUME Tables, NEW pair \in viewers
    PROVE  /\ pair = <<pair[1], pair[2]>> /\ pair[1] \in Ids /\ pair[2] \in units
           /\ pair[2] \in Units
BY DEF Tables

-----------------------------------------------------------------------------
(* Room for the creates in flight *)

LEMMA InsertingFinite == IsFiniteSet(Inserting) /\ Cardinality(Inserting) \in Nat
<1>1. IsFiniteSet(Inserting)
    BY CalendarAssumption, FS_Subset DEF Inserting
<1>2. QED
    BY <1>1, FS_CardinalityType

LEMMA RoomKept ==
    ASSUME CalendarInv, UNCHANGED lastId, Inserting' \subseteq Inserting
    PROVE  Room'
<1>1. Cardinality(Inserting') <= Cardinality(Inserting) /\ Cardinality(Inserting') \in Nat
    BY InsertingFinite, FS_Subset, FS_CardinalityType
<1>2. QED
    BY <1>1, InsertingFinite, CalendarAssumption DEF CalendarInv, Room, Tables

LEMMA RoomUsed ==
    ASSUME CalendarInv, NEW r \in Inserting, lastId' = lastId + 1, Inserting' = Inserting \ {r}
    PROVE  Room' /\ lastId' \in 0 .. MaxCalendars
<1>1. Cardinality(Inserting') = Cardinality(Inserting) - 1 /\ Cardinality(Inserting') \in Nat
    BY InsertingFinite, FS_RemoveElement, FS_CardinalityType
<1>2. QED
    BY <1>1, InsertingFinite, CalendarAssumption DEF CalendarInv, Room, Tables

LEMMA RoomTaken ==
    ASSUME CalendarInv, IdsLeft, UNCHANGED lastId, NEW r \in Slots,
           Inserting' \subseteq Inserting \cup {r}
    PROVE  Room'
<1>1. /\ IsFiniteSet(Inserting \cup {r})
      /\ Cardinality(Inserting \cup {r}) <= Cardinality(Inserting) + 1
    <2>1. CASE r \in Inserting
        BY <2>1, InsertingFinite, FS_AddElement
    <2>2. CASE r \notin Inserting
        BY <2>2, InsertingFinite, FS_AddElement
    <2>3. QED
        BY <2>1, <2>2
<1>2. /\ Cardinality(Inserting') <= Cardinality(Inserting \cup {r})
      /\ Cardinality(Inserting') \in Nat /\ Cardinality(Inserting \cup {r}) \in Nat
    BY <1>1, FS_Subset, FS_CardinalityType
<1>3. QED
    BY <1>1, <1>2, InsertingFinite, CalendarAssumption
       DEF CalendarInv, Room, Tables, IdsLeft, Inserting

-----------------------------------------------------------------------------
(* Steps that commit nothing *)

\* The sequence may grow, the tables stay.
Stays ==
    /\ UNCHANGED <<units, calendars, viewers, born>>
    /\ lastId' \in lastId .. MaxCalendars

LEMMA SameCall ==
    ASSUME CalendarInv, Stays, NEW c, CallOk(c)
    PROVE  CallOk(c)'
<1>1. Stage(c)' /\ Shares(c)'
    BY DEF CallOk, Stage, Shares, Stays
<1>2. Creates(c)'
    <2>1. lastId \in Nat /\ lastId' \in Nat /\ lastId <= lastId'
        BY CalendarAssumption DEF Stays, CalendarInv, Tables
    <2>2. 1 .. lastId \subseteq 1 .. lastId'
        BY <2>1
    <2>3. QED
        BY <2>2 DEF CallOk, Creates, Creating, Stays
<1>3. Locks(c)'
    BY DEF CallOk, Locks, Stays, Updating, ViewersOf, Exists
<1>4. QED
    BY <1>1, <1>2, <1>3 DEF CallOk

\* The next state of a slot is as good as the call that it holds.
LEMMA Renamed ==
    ASSUME NEW q \in Slots, NEW c, call'[q] = c, CallOk(c)'
    PROVE  CallOk(call[q])'
<1>1. Stage(c)' => Stage(call[q])'
    BY DEF Stage
<1>2. Shares(c)' => Shares(call[q])'
    BY DEF Shares
<1>3. Creates(c)' => Creates(call[q])'
    BY DEF Creates, Creating
<1>4. Locks(c)' => Locks(call[q])'
    BY DEF Locks, Updating
<1>5. QED
    BY <1>1, <1>2, <1>3, <1>4 DEF CallOk

\* The calls after a step of r that leaves the others as they are.
LEMMA Others ==
    ASSUME CalendarInv, NEW r \in Slots, NEW next \in Calling, call' = [call EXCEPT ![r] = next],
           Tables', Room', CallOk(next)',
           \A q \in Slots \ {r} : Apart(next, call[q]) /\ \A d : d = call[q] => CallOk(d)'
    PROVE  CalendarInv'
<1>1. /\ call' \in [Slots -> Calling] /\ call'[r] = next
      /\ \A q \in Slots \ {r} : call'[q] = call[q]
    BY DEF CalendarInv
<1>2. ASSUME NEW q \in Slots PROVE CallOk(call[q])'
    <2>1. CASE q = r
        BY <1>1, <2>1, Renamed
    <2>2. CASE q # r
        <3>1. PICK d : d = call[q] /\ d = call'[q]
            BY <1>1, <2>2
        <3>2. CallOk(d)'
            BY <2>2, <3>1
        <3>3. QED
            BY <3>1, <3>2, Renamed
    <2>3. QED
        BY <2>1, <2>2
<1>3. ASSUME NEW p \in Slots, NEW q \in Slots, p # q PROVE Apart(call[p], call[q])'
    <2>1. Apart(call'[p], call'[q])
        <3>1. CASE p = r
            BY <1>1, <1>3, <3>1
        <3>2. CASE q = r
            BY <1>1, <1>3, <3>2, ApartSym
        <3>3. CASE p # r /\ q # r
            BY <1>1, <1>3, <3>3 DEF CalendarInv
        <3>4. QED
            BY <3>1, <3>2, <3>3
    <2>2. QED
        BY <2>1 DEF Apart, Creating
<1>4. QED
    BY <1>1, <1>2, <1>3 DEF CalendarInv

LEMMA StaysTables ==
    ASSUME CalendarInv, Stays
    PROVE  Tables'
<1>1. /\ lastId \in Nat /\ lastId' \in Nat /\ lastId <= lastId'
      /\ lastId' \in 0 .. MaxCalendars
    BY CalendarAssumption DEF Stays, CalendarInv, Tables
<1>2. 1 .. lastId \subseteq 1 .. lastId'
    BY <1>1
<1>3. QED
    BY <1>1, <1>2 DEF CalendarInv, Tables, Stays, Exists

\* One call goes on.
LEMMA Becoming ==
    ASSUME CalendarInv, NEW r \in Slots, NEW next \in Calling, call' = [call EXCEPT ![r] = next],
           Stays, Room', CallOk(next), \A q \in Slots \ {r} : Apart(next, call[q])
    PROVE  CalendarInv'
<1>1. CallOk(next)'
    BY SameCall
<1>2. ASSUME NEW q \in Slots \ {r}, NEW d, d = call[q] PROVE CallOk(d)'
    BY <1>2, SlotFacts, SameCall
<1>3. QED
    BY <1>1, <1>2, StaysTables, Others

\* A call that goes on without a new id.
LEMMA GoesOn ==
    ASSUME CalendarInv, NEW r \in Slots, NEW next \in Calling, Becomes(r, next), UNCHANGED lastId,
           next.at # "insert", CallOk(next), \A q \in Slots \ {r} : Apart(next, call[q])
    PROVE  CalendarInv'
<1>1. call' = [call EXCEPT ![r] = next] /\ Stays
    BY CalendarAssumption DEF Becomes, Stays, CalendarInv, Tables
<1>2. Inserting' \subseteq Inserting
    BY <1>1 DEF Inserting, CalendarInv
<1>3. QED
    BY <1>1, <1>2, RoomKept, Becoming

-----------------------------------------------------------------------------
(* Calls begin and are rolled back *)

LEMMA IdleOk ==
    \E c \in Calling : c = Idle /\ c.at = "idle" /\ CallOk(c) /\ \A d : Apart(c, d)
<1>1. PICK c : c = Idle
    OBVIOUS
<1>2. /\ c.at = "idle" /\ c.op = "none" /\ c.list = <<>> /\ c.added = 0
      /\ c.holds = {} /\ c.shares = {} /\ c \in Calling
    BY <1>1 DEF Idle, Calling
<1>3. Stage(c)
    BY <1>2 DEF Stage, OpsAt
<1>4. Shares(c) /\ Creates(c) /\ Locks(c)
    BY <1>2 DEF Shares, Creates, Creating, Locks, Updating
<1>5. \A d : Apart(c, d)
    BY <1>2 DEF Apart, Creating
<1>6. QED
    BY <1>1, <1>2, <1>3, <1>4, <1>5 DEF CallOk

LEMMA BecomesIdle ==
    ASSUME CalendarInv, NEW r \in Slots, Becomes(r, Idle), UNCHANGED lastId
    PROVE  CalendarInv'
<1>1. PICK c \in Calling : c = Idle /\ c.at = "idle" /\ CallOk(c) /\ \A d : Apart(c, d)
    BY IdleOk
<1>2. QED
    BY <1>1, GoesOn

LEMMA FailsInv ==
    ASSUME CalendarInv, NEW r \in Slots, Fault(r) \/ AbortDeadlocked(r)
    PROVE  CalendarInv'
BY BecomesIdle DEF Fault, AbortDeadlocked

\* A call that has executed nothing yet.
Fresh(c) ==
    /\ Stage(c)
    /\ c.at \in {"insert", "update", "delete", "delete_unit"}
    /\ c.added = 0 /\ c.holds = {} /\ c.shares = {}

LEMMA StartInv ==
    ASSUME CalendarInv, NEW r \in Slots, NEW next \in Calling, Fresh(next), Start(r, next),
           next.at = "insert" => IdsLeft
    PROVE  CalendarInv'
<1>1. /\ call' = [call EXCEPT ![r] = next] /\ UNCHANGED lastId
      /\ UNCHANGED <<units, calendars, viewers, born>>
    BY DEF Start, tables
<1>2. Stays
    BY <1>1, CalendarAssumption DEF Stays, CalendarInv, Tables
<1>3. CallOk(next)
    <2>1. Shares(next)
        <3>1. next.shares = {} /\ next.added = 0
            BY DEF Fresh
        <3>2. QED
            BY <3>1 DEF Shares
    <2>2. Creates(next) /\ Locks(next)
        BY DEF Fresh, Creates, Creating, Locks, Updating
    <2>3. QED
        BY <2>1, <2>2 DEF Fresh, CallOk
<1>4. \A q \in Slots \ {r} : Apart(next, call[q])
    BY DEF Fresh, Apart, Creating
<1>5. Room'
    <2>1. CASE next.at = "insert"
        <3>1. Inserting' \subseteq Inserting \cup {r}
            BY <1>1 DEF Inserting, CalendarInv
        <3>2. QED
            BY <1>1, <2>1, <3>1, RoomTaken
    <2>2. CASE next.at # "insert"
        <3>1. Inserting' \subseteq Inserting
            BY <1>1, <2>2 DEF Inserting, CalendarInv
        <3>2. QED
            BY <1>1, <3>1, RoomKept
    <2>3. QED
        BY <2>1, <2>2
<1>6. QED
    BY <1>1, <1>2, <1>3, <1>4, <1>5, Becoming

\* What a caller gives is what Started keeps.
Given(c, op, id, unit, visibility, list) ==
    /\ c.at = op /\ c.op = op /\ c.id = id /\ c.unit = unit /\ c.visibility = visibility
    /\ c.list = list /\ c.added = 0 /\ c.holds = {} /\ c.shares = {}

LEMMA NothingAdded == \A list \in Seq(Units) : 0 \in 0 .. Len(list)
BY LenProperties

LEMMA GivenFresh ==
    ASSUME NEW c \in Calling, NEW op, NEW id, NEW unit, NEW visibility, NEW list \in Seq(Units),
           Given(c, op, id, unit, visibility, list),
           op \in {"insert", "update", "delete", "delete_unit"},
           op \in {"insert", "update"} =>
               /\ visibility \in Visibilities /\ ViewerLists # {}
               /\ IF visibility = "custom" THEN list \in ViewerLists ELSE list = <<>>,
           op \in {"insert", "delete_unit"} => unit \in Units,
           op \in {"update", "delete"} => id \in Ids
    PROVE  Fresh(c)
<1>1. c.added = 0 /\ c.list \in Seq(Units)
    BY DEF Given
<1>2. c.added \in 0 .. Len(c.list)
    BY <1>1, NothingAdded
<1>3. c.op \in OpsAt(c.at)
    BY DEF Given, OpsAt
<1>4. QED
    BY <1>2, <1>3 DEF Given, Fresh, Stage

LEMMA CallsInv ==
    ASSUME CalendarInv, NEW r \in Slots,
           \/ \E visibility \in Visibilities, list \in ViewerLists :
               \/ \E unit \in Units : CreateCalendarWithViewers(r, unit, visibility, list)
               \/ \E id \in Ids : UpdateCalendarWithViewers(r, id, visibility, list)
           \/ \E id \in Ids : DeleteCalendar(r, id)
           \/ \E unit \in Units : DeleteUnit(r, unit)
    PROVE  CalendarInv'
<1>1. <<>> \in Seq(Units) /\ \A list \in ViewerLists : list \in Seq(Units)
    BY CalendarAssumption, EmptySeq
<1>2. ASSUME NEW visibility \in Visibilities, NEW list \in ViewerLists, NEW unit \in Units,
             CreateCalendarWithViewers(r, unit, visibility, list)
      PROVE  CalendarInv'
    <2>1. PICK given \in Seq(Units) : given = IF visibility = "custom" THEN list ELSE <<>>
        BY <1>1
    <2>2. PICK c : c = Started("insert", None, unit, visibility, list)
        OBVIOUS
    <2>3. c \in Calling /\ Given(c, "insert", None, unit, visibility, given)
        BY <2>1, <2>2 DEF Started, Idle, Then, Calling, Given
    <2>4. Fresh(c)
        BY <2>1, <2>3, GivenFresh
    <2>5. Start(r, c) /\ IdsLeft
        BY <1>2, <2>2 DEF CreateCalendarWithViewers
    <2>6. QED
        BY <2>3, <2>4, <2>5, StartInv
<1>3. ASSUME NEW visibility \in Visibilities, NEW list \in ViewerLists, NEW id \in Ids,
             UpdateCalendarWithViewers(r, id, visibility, list)
      PROVE  CalendarInv'
    <2>1. PICK given \in Seq(Units) : given = IF visibility = "custom" THEN list ELSE <<>>
        BY <1>1
    <2>2. PICK c : c = Started("update", id, None, visibility, list)
        OBVIOUS
    <2>3. c \in Calling /\ Given(c, "update", id, None, visibility, given)
        BY <2>1, <2>2 DEF Started, Idle, Then, Calling, Given
    <2>4. Fresh(c) /\ c.at # "insert"
        BY <2>1, <2>3, GivenFresh DEF Given
    <2>5. Start(r, c)
        BY <1>3, <2>2 DEF UpdateCalendarWithViewers
    <2>6. QED
        BY <2>3, <2>4, <2>5, StartInv
<1>4. ASSUME NEW id \in Ids, DeleteCalendar(r, id) PROVE CalendarInv'
    <2>1. PICK given \in Seq(Units) : given = <<>>
        BY <1>1
    <2>2. PICK c : c = Started("delete", id, None, None, <<>>)
        OBVIOUS
    <2>3. c \in Calling /\ Given(c, "delete", id, None, None, given)
        BY <2>1, <2>2 DEF Started, Idle, Then, Calling, Given
    <2>4. Fresh(c) /\ c.at # "insert"
        BY <2>1, <2>3, GivenFresh DEF Given
    <2>5. Start(r, c)
        BY <1>4, <2>2 DEF DeleteCalendar
    <2>6. QED
        BY <2>3, <2>4, <2>5, StartInv
<1>5. ASSUME NEW unit \in Units, DeleteUnit(r, unit) PROVE CalendarInv'
    <2>1. PICK given \in Seq(Units) : given = <<>>
        BY <1>1
    <2>2. PICK c : c = Started("delete_unit", None, unit, None, <<>>)
        OBVIOUS
    <2>3. c \in Calling /\ Given(c, "delete_unit", None, unit, None, given)
        BY <2>1, <2>2 DEF Started, Idle, Then, Calling, Given
    <2>4. Fresh(c) /\ c.at # "insert"
        BY <2>1, <2>3, GivenFresh DEF Given
    <2>5. Start(r, c)
        BY <1>5, <2>2 DEF DeleteUnit
    <2>6. QED
        BY <2>3, <2>4, <2>5, StartInv
<1>6. QED
    BY <1>2, <1>3, <1>4, <1>5

-----------------------------------------------------------------------------
(* Statements that take rows *)

Moved(c, next, at, id, added, holds, shares) ==
    /\ next.at = at /\ next.op = c.op /\ next.id = id /\ next.unit = c.unit
    /\ next.visibility = c.visibility /\ next.list = c.list /\ next.added = added
    /\ next.holds = holds /\ next.shares = shares

LEMMA FreeRow ==
    ASSUME NEW r \in Slots, ~ Waits(r), NEW row, Needs(r) = {row}
    PROVE  ~ Taken(r, row)
BY DEF Waits, WaitsFor, Taken

LEMMA FreeUnit ==
    ASSUME NEW r \in Slots, ~ Waits(r), NEW unit \in Refers(r), NEW q \in Slots \ {r}
    PROVE  UnitRow(unit) \notin call[q].holds
BY DEF Waits, WaitsFor

LEMMA TakesRow ==
    ASSUME CalendarInv, NEW r \in Slots, NEW row, ~ Taken(r, row), NEW next, NEW at, NEW c,
           c = call[r], c.shares = {}, at # "viewers",
           Moved(c, next, at, c.id, c.added, c.holds \cup {row}, c.shares)
    PROVE  \A q \in Slots \ {r} : Apart(next, call[q])
<1>1. ASSUME NEW q \in Slots \ {r} PROVE Apart(next, call[q])
    <2>1. Apart(c, call[q])
        BY SlotFacts
    <2>2. row \notin call[q].holds /\ \A unit \in call[q].shares : row # UnitRow(unit)
        BY DEF Taken, Keeps
    <2>3. next.holds = c.holds \cup {row} /\ next.shares = {} /\ ~ Creating(next)
        BY DEF Moved, Creating
    <2>4. QED
        BY <2>1, <2>2, <2>3 DEF Apart
<1>2. QED
    BY <1>1

\* The rows that a statement deletes: viewers of a calendar that the call
\* holds, calendars of the unit that it deletes, or places of that unit.
Deletable(c, row) ==
    /\ c.at \in {"clear", "cascade", "unit_cascade"}
    /\ \/ \E id \in Ids :
             /\ row = CalendarRow(id) /\ Exists(id)
             /\ c.op = "delete_unit" /\ calendars[id].unit = c.unit
       \/ \E id \in Ids, unit \in Units :
             /\ <<id, unit>> \in viewers /\ row = ViewerRow(id, unit)
             /\ CalendarRow(id) \in c.holds \/ (c.op = "delete_unit" /\ c.unit = unit)

LEMMA DeletesFacts ==
    ASSUME CalendarInv, NEW r \in Slots, NEW c, c = call[r], NEW row \in Deletes(r)
    PROVE  Deletable(c, row)
<1>1. CallOk(c)
    BY SlotFacts
<1> DEFINE Good(id, unit) ==
        CalendarRow(id) \in c.holds \/ (c.op = "delete_unit" /\ c.unit = unit)
<1>0. ASSUME NEW pair \in viewers, row = ViewerRow(pair[1], pair[2]), Good(pair[1], pair[2])
      PROVE  \E id \in Ids, unit \in Units :
                <<id, unit>> \in viewers /\ row = ViewerRow(id, unit) /\ Good(id, unit)
    <2>1. <<pair[1], pair[2]>> \in viewers /\ pair[1] \in Ids /\ pair[2] \in Units
        BY PairFacts DEF CalendarInv
    <2>2. QED
        BY <1>0, <2>1
<1>2. CASE c.at \in {"clear", "cascade"}
    <2>1. row \in ViewersOf({c.id})
        BY <1>2 DEF Deletes
    <2>2. CalendarRow(c.id) \in c.holds
        BY <1>1, <1>2 DEF CallOk, Locks
    <2>3. PICK pair \in viewers : pair[1] \in {c.id} /\ row = ViewerRow(pair[1], pair[2])
        BY <2>1, RowsOfViewers
    <2>4. CalendarRow(pair[1]) \in c.holds
        BY <2>2, <2>3
    <2>5. QED
        BY <1>0, <1>2, <2>3, <2>4 DEF Deletable
<1>3. CASE c.at = "unit_cascade"
    <2>1. c.op = "delete_unit"
        BY <1>1, <1>3 DEF CallOk, Stage, OpsAt
    <2>2. \/ row \in {CalendarRow(id) : id \in Owned(c.unit)}
          \/ /\ {CalendarRow(id) : id \in Owned(c.unit)} \subseteq c.holds
             /\ row \in ViewersOf(Owned(c.unit))
          \/ row \in PlacesOf(c.unit)
        BY <1>3 DEF Deletes, Before
    <2>3. CASE row \in {CalendarRow(id) : id \in Owned(c.unit)}
        BY <1>3, <2>1, <2>3 DEF Owned, Deletable
    <2>4. CASE /\ {CalendarRow(id) : id \in Owned(c.unit)} \subseteq c.holds
               /\ row \in ViewersOf(Owned(c.unit))
        <3>1. PICK pair \in viewers : pair[1] \in Owned(c.unit) /\ row = ViewerRow(pair[1], pair[2])
            BY <2>4, RowsOfViewers
        <3>2. CalendarRow(pair[1]) \in c.holds
            BY <2>4, <3>1
        <3>3. QED
            BY <1>0, <1>3, <3>1, <3>2 DEF Deletable
    <2>5. CASE row \in PlacesOf(c.unit)
        <3>1. PICK pair \in viewers : pair[2] = c.unit /\ row = ViewerRow(pair[1], pair[2])
            BY <2>5, RowsOfViewers
        <3>2. QED
            BY <1>0, <1>3, <2>1, <3>1 DEF Deletable
    <2>6. QED
        BY <2>2, <2>3, <2>4, <2>5
<1>4. QED
    BY <1>2, <1>3 DEF Deletes

\* When a statement needs no more rows, the call holds all that it deletes.
LEMMA DoneFacts ==
    ASSUME NEW r \in Slots, NEW c, c = call[r], Needs(r) = {}
    PROVE  /\ c.at \in {"clear", "cascade"} => ViewersOf({c.id}) \subseteq c.holds
           /\ c.at = "unit_cascade" =>
               /\ \A id \in Owned(c.unit) : CalendarRow(id) \in c.holds
               /\ ViewersOf(Owned(c.unit)) \subseteq c.holds
               /\ PlacesOf(c.unit) \subseteq c.holds
<1>1. CASE c.at \in {"clear", "cascade"}
    BY <1>1 DEF Needs, Deletes
<1>2. CASE c.at = "unit_cascade"
    <2>1. Deletes(r) \subseteq c.holds
        BY <1>2 DEF Needs
    <2>2. Deletes(r) = Before(r, {CalendarRow(id) : id \in Owned(c.unit)},
                       Before(r, ViewersOf(Owned(c.unit)), PlacesOf(c.unit)))
        BY <1>2 DEF Deletes
    <2>3. {CalendarRow(id) : id \in Owned(c.unit)} \subseteq c.holds
        BY <2>1, <2>2 DEF Before
    <2>4. ViewersOf(Owned(c.unit)) \subseteq c.holds /\ PlacesOf(c.unit) \subseteq c.holds
        BY <2>1, <2>2, <2>3 DEF Before
    <2>5. QED
        BY <1>2, <2>3, <2>4
<1>3. QED
    BY <1>1, <1>2

\* The first row of an update or a deletion.
LEMMA FirstRow ==
    ASSUME CalendarInv, NEW r \in Slots, ~ Waits(r), NEW c, c = call[r], NEW row, NEW at,
           NEW next \in Calling, Moved(c, next, at, c.id, c.added, {row}, c.shares),
           Becomes(r, next), UNCHANGED lastId, Needs(r) = {row},
           \/ /\ c.at = "update" /\ at = "clear" /\ row = CalendarRow(c.id) /\ Exists(c.id)
           \/ /\ c.at = "delete" /\ at = "cascade" /\ row = CalendarRow(c.id) /\ Exists(c.id)
           \/ /\ c.at = "delete_unit" /\ at = "unit_cascade" /\ row = UnitRow(c.unit)
              /\ c.unit \in units
    PROVE  CalendarInv'
<1>1. CallOk(c) /\ c.holds = {} /\ c.shares = {} /\ c.added = 0
    <2>1. CallOk(c)
        BY SlotFacts
    <2>2. QED
        BY <2>1 DEF CallOk, Stage
<1>2. at \in {"clear", "cascade", "unit_cascade"} /\ next.at = at /\ next.op = c.op
    BY DEF Moved
<1>3. \A q \in Slots \ {r} : Apart(next, call[q])
    <2>1. Moved(c, next, at, c.id, c.added, c.holds \cup {row}, c.shares)
        BY <1>1
    <2>2. QED
        BY <1>1, <1>2, <2>1, FreeRow, TakesRow
<1>4. Stage(next)
    <2>1. next.op \in OpsAt(next.at) /\ c.op \in {"update", "delete", "delete_unit"}
        BY <1>1, <1>2 DEF CallOk, Stage, OpsAt
    <2>2. /\ c.op \in {"update", "delete"} => c.id \in Ids
          /\ c.op = "delete_unit" => c.unit \in Units
          /\ c.added \in 0 .. Len(c.list)
          /\ c.op \in {"insert", "update"} =>
                /\ c.visibility \in Visibilities /\ ViewerLists # {}
                /\ IF c.visibility = "custom" THEN c.list \in ViewerLists ELSE c.list = <<>>
        BY <1>1, <2>1 DEF CallOk, Stage
    <2>3. QED
        BY <1>1, <1>2, <2>1, <2>2 DEF Stage, Moved
<1>5. Shares(next)
    BY <1>1 DEF CallOk, Shares, Moved
<1>6. Creates(next) /\ ~ Updating(next)
    BY <1>2 DEF Creates, Creating, Updating
<1>7. Locks(next)
    <2>1. next.holds = {row} /\ next.id = c.id /\ next.unit = c.unit
        BY DEF Moved
    <2>2. CASE row = CalendarRow(c.id) /\ Exists(c.id) /\ c.op \in {"update", "delete"}
        <3>1. \A unit \in Units : UnitRow(unit) \notin next.holds
            BY <2>1, <2>2, OneRow
        <3>2. \A id \in Ids, unit \in Units : ViewerRow(id, unit) \notin next.holds
            BY <2>1, <2>2, OneRow
        <3>3. \A id \in Ids : CalendarRow(id) \in next.holds => id = c.id
            BY <2>1, <2>2, RowsDiffer
        <3>4. \A id \in Ids : CalendarRow(id) \in next.holds =>
                Exists(id) /\ next.op \in {"update", "delete"} /\ next.id = id
            BY <1>2, <2>1, <2>2, <3>3
        <3>5. next.at # "unit_cascade"
            BY <1>1, <1>2, <2>2 DEF CallOk, Stage, OpsAt
        <3>6. CalendarRow(next.id) \in next.holds
            BY <2>1, <2>2
        <3>7. QED
            BY <1>6, <3>1, <3>2, <3>4, <3>5, <3>6 DEF Locks
    <2>3. CASE row = UnitRow(c.unit) /\ c.unit \in units /\ c.op = "delete_unit"
        <3>1. \A id \in Ids : CalendarRow(id) \notin next.holds
            BY <2>1, <2>3, RowsDiffer
        <3>2. \A id \in Ids, unit \in Units : ViewerRow(id, unit) \notin next.holds
            BY <2>1, <2>3, OneRow
        <3>3. \A unit \in Units : UnitRow(unit) \in next.holds => unit = c.unit
            BY <2>1, <2>3, RowsDiffer
        <3>4. \A unit \in Units : UnitRow(unit) \in next.holds =>
                unit \in units /\ next.op = "delete_unit" /\ next.unit = unit
            BY <1>2, <2>1, <2>3, <3>3
        <3>5. next.at \notin {"clear", "cascade"}
            BY <1>1, <1>2, <2>3 DEF CallOk, Stage, OpsAt
        <3>6. UnitRow(next.unit) \in next.holds
            BY <2>1, <2>3
        <3>7. QED
            BY <1>6, <3>1, <3>2, <3>4, <3>5, <3>6 DEF Locks
    <2>4. \/ c.op \in {"update", "delete"} /\ row = CalendarRow(c.id) /\ Exists(c.id)
          \/ c.op = "delete_unit" /\ row = UnitRow(c.unit) /\ c.unit \in units
        BY <1>1 DEF CallOk, Stage, OpsAt
    <2>5. QED
        BY <2>2, <2>3, <2>4
<1>8. CallOk(next)
    BY <1>4, <1>5, <1>6, <1>7 DEF CallOk
<1>9. next.at # "insert"
    BY <1>2
<1>10. QED
    BY <1>3, <1>8, <1>9, GoesOn

LEMMA UpdateCalendarInv ==
    ASSUME CalendarInv, NEW r \in Slots, UpdateCalendar(r)
    PROVE  CalendarInv'
<1>1. call[r].at = "update" /\ ~ Waits(r) /\ UNCHANGED lastId
    BY DEF UpdateCalendar
<1>2. PICK c \in Calling : c = call[r] /\ CallOk(c)
    BY SlotFacts
<1>3. c.holds = {} /\ c.shares = {} /\ c.id \in Ids
    BY <1>1, <1>2 DEF CallOk, Stage, OpsAt
<1>4. CASE ~ Exists(c.id)
    BY <1>1, <1>2, <1>4, BecomesIdle DEF UpdateCalendar
<1>5. CASE Exists(c.id)
    <2>1. PICK row : row = CalendarRow(c.id)
        OBVIOUS
    <2>2. Needs(r) = {row}
        BY <1>1, <1>2, <2>1 DEF Needs
    <2>3. PICK next : next = [c EXCEPT !.at = "clear", !.holds = {row}]
        OBVIOUS
    <2>4. next \in Calling /\ Moved(c, next, "clear", c.id, c.added, {row}, c.shares)
        BY <1>3, <2>1, <2>3 DEF Calling, Moved
    <2>5. Following(r) = "clear"
        BY <1>1 DEF Following, Then
    <2>6. Becomes(r, next)
        BY <1>1, <1>2, <1>3, <1>5, <2>2, <2>3, <2>5 DEF UpdateCalendar
    <2>7. QED
        BY <1>1, <1>2, <1>5, <2>1, <2>2, <2>4, <2>6, FirstRow
<1>6. QED
    BY <1>4, <1>5

LEMMA DeleteRowInv ==
    ASSUME CalendarInv, NEW r \in Slots, DeleteRow(r)
    PROVE  CalendarInv'
<1>1. call[r].at \in {"delete", "delete_unit"} /\ ~ Waits(r) /\ UNCHANGED lastId
    BY DEF DeleteRow
<1>2. PICK c \in Calling : c = call[r] /\ CallOk(c)
    BY SlotFacts
<1>3. /\ c.holds = {} /\ c.shares = {}
      /\ c.at = "delete" => c.id \in Ids
      /\ c.at = "delete_unit" => c.unit \in Units
    BY <1>1, <1>2 DEF CallOk, Stage, OpsAt
<1>4. CASE Becomes(r, Idle)
    BY <1>1, <1>4, BecomesIdle
<1>5. CASE c.at = "delete" /\ Exists(c.id)
    <2>1. PICK row : row = CalendarRow(c.id)
        OBVIOUS
    <2>2. Needs(r) = {row}
        BY <1>2, <1>5, <2>1 DEF Needs
    <2>3. PICK next : next = [c EXCEPT !.at = "cascade", !.holds = {row}]
        OBVIOUS
    <2>4. next \in Calling /\ Moved(c, next, "cascade", c.id, c.added, {row}, c.shares)
        BY <1>3, <1>5, <2>1, <2>3 DEF Calling, Moved
    <2>5. Becomes(r, next)
        BY <1>2, <1>5, <2>2, <2>3 DEF DeleteRow
    <2>6. QED
        BY <1>1, <1>2, <1>5, <2>1, <2>2, <2>4, <2>5, FirstRow
<1>6. CASE c.at = "delete_unit" /\ c.unit \in units
    <2>1. PICK row : row = UnitRow(c.unit)
        OBVIOUS
    <2>2. Needs(r) = {row}
        BY <1>2, <1>6, <2>1 DEF Needs
    <2>3. PICK next : next = [c EXCEPT !.at = "unit_cascade", !.holds = {row}]
        OBVIOUS
    <2>4. next \in Calling /\ Moved(c, next, "unit_cascade", c.id, c.added, {row}, c.shares)
        BY <1>3, <1>6, <2>1, <2>3 DEF Calling, Moved
    <2>5. Becomes(r, next)
        BY <1>2, <1>6, <2>2, <2>3 DEF DeleteRow
    <2>6. QED
        BY <1>1, <1>2, <1>6, <2>1, <2>2, <2>4, <2>5, FirstRow
<1>7. QED
    BY <1>1, <1>2, <1>4, <1>5, <1>6 DEF DeleteRow

LEMMA DeleteNextInv ==
    ASSUME CalendarInv, NEW r \in Slots, DeleteNext(r)
    PROVE  CalendarInv'
<1>1. PICK c \in Calling : c = call[r] /\ CallOk(c)
    BY SlotFacts
<1>2. PICK row \in Deletes(r) :
        ~ Taken(r, row) /\ Becomes(r, [c EXCEPT !.holds = c.holds \cup {row}])
    BY <1>1 DEF DeleteNext
<1>3. PICK next : next = [c EXCEPT !.holds = c.holds \cup {row}]
    OBVIOUS
<1>4. Deletable(c, row) /\ c.at \in {"clear", "cascade", "unit_cascade"}
    <2>1. Deletable(c, row)
        BY <1>1, <1>2, DeletesFacts
    <2>2. QED
        BY <2>1 DEF Deletable
<1>5. /\ row \in {UnitRow(unit) : unit \in Units} \cup {CalendarRow(id) : id \in Ids}
                 \cup {ViewerRow(pair[1], pair[2]) : pair \in Ids \X Units}
      /\ \A unit : row # UnitRow(unit)
    <2>1. CASE \E id \in Ids : row = CalendarRow(id)
        BY <2>1, RowsDiffer
    <2>2. CASE \E id \in Ids, unit \in Units : row = ViewerRow(id, unit)
        <3>1. PICK id \in Ids, unit \in Units : row = ViewerRow(id, unit)
            BY <2>2
        <3>2. <<id, unit>> \in Ids \X Units /\ <<id, unit>>[1] = id /\ <<id, unit>>[2] = unit
            OBVIOUS
        <3>3. row \in {ViewerRow(pair[1], pair[2]) : pair \in Ids \X Units}
            BY <3>1, <3>2
        <3>4. QED
            BY <3>1, <3>3, RowsDiffer
    <2>3. QED
        BY <1>4, <2>1, <2>2, Zenon DEF Deletable
<1>6. next \in Calling /\ Moved(c, next, c.at, c.id, c.added, c.holds \cup {row}, c.shares)
    BY <1>3, <1>5 DEF Calling, Moved
<1>7. Becomes(r, next) /\ UNCHANGED lastId
    BY <1>2, <1>3 DEF DeleteNext
<1>8. c.shares = {}
    BY <1>1, <1>4 DEF CallOk, Stage
<1>9. \A q \in Slots \ {r} : Apart(next, call[q])
    BY <1>1, <1>2, <1>4, <1>6, <1>8, TakesRow
<1>10. Stage(next)
    BY <1>1, <1>4, <1>6 DEF CallOk, Stage, Moved
<1>11. Shares(next)
    BY <1>1, <1>6 DEF CallOk, Shares, Moved
<1>12. Creates(next) /\ ~ Updating(next) /\ ~ Updating(c)
    BY <1>4, <1>6 DEF Creates, Creating, Updating, Moved
<1>13. Locks(next)
    <2>1. /\ next.at = c.at /\ next.op = c.op /\ next.id = c.id /\ next.unit = c.unit
          /\ next.holds = c.holds \cup {row}
        BY <1>6 DEF Moved
    <2>2. /\ next.at \in {"clear", "cascade"} => CalendarRow(next.id) \in next.holds
          /\ next.at = "unit_cascade" => UnitRow(next.unit) \in next.holds
        BY <1>1, <2>1 DEF CallOk, Locks
    <2>3. \A unit \in Units : UnitRow(unit) \in next.holds =>
            unit \in units /\ next.op = "delete_unit" /\ next.unit = unit
        BY <1>1, <1>5, <2>1 DEF CallOk, Locks
    <2>4. ASSUME NEW id \in Ids, CalendarRow(id) \in next.holds
          PROVE  /\ Exists(id)
                 /\ \/ next.op \in {"update", "delete"} /\ next.id = id
                    \/ next.op = "delete_unit" /\ calendars[id].unit = next.unit
        <3>1. CASE CalendarRow(id) \in c.holds
            BY <1>1, <2>1, <3>1 DEF CallOk, Locks
        <3>2. CASE CalendarRow(id) = row
            <4>1. \A other, place : row # ViewerRow(other, place)
                BY <3>2, RowsDiffer
            <4>2. PICK other \in Ids :
                    /\ row = CalendarRow(other) /\ Exists(other)
                    /\ c.op = "delete_unit" /\ calendars[other].unit = c.unit
                BY <1>4, <4>1, Zenon DEF Deletable
            <4>3. other = id
                BY <3>2, <4>2, RowsDiffer
            <4>4. QED
                BY <2>1, <4>2, <4>3
        <3>3. QED
            BY <2>1, <2>4, <3>1, <3>2
    <2>5. ASSUME NEW id \in Ids, NEW unit \in Units, ViewerRow(id, unit) \in next.holds
          PROVE  /\ <<id, unit>> \in viewers
                 /\ CalendarRow(id) \in next.holds \/ (next.op = "delete_unit" /\ next.unit = unit)
        <3>1. CASE ViewerRow(id, unit) \in c.holds
            BY <1>1, <2>1, <3>1 DEF CallOk, Locks
        <3>2. CASE ViewerRow(id, unit) = row
            <4>1. \A other : row # CalendarRow(other)
                BY <3>2, RowsDiffer
            <4>2. PICK other \in Ids, place \in Units :
                    /\ <<other, place>> \in viewers /\ row = ViewerRow(other, place)
                    /\ \/ CalendarRow(other) \in c.holds
                       \/ c.op = "delete_unit" /\ c.unit = place
                BY <1>4, <4>1, Zenon DEF Deletable
            <4>3. other = id /\ place = unit
                <5>1. ViewerRow(id, unit) = ViewerRow(other, place)
                    BY <3>2, <4>2
                <5>2. QED
                    BY <5>1, SameViewer
            <4>4. QED
                BY <2>1, <4>2, <4>3
        <3>3. QED
            BY <2>1, <2>5, <3>1, <3>2
    <2>6. QED
        BY <1>12, <2>2, <2>3, <2>4, <2>5 DEF Locks
<1>14. CallOk(next)
    BY <1>10, <1>11, <1>12, <1>13 DEF CallOk
<1>15. next.at # "insert"
    BY <1>4, <1>6 DEF Moved
<1>16. QED
    BY <1>6, <1>7, <1>9, <1>14, <1>15, GoesOn

-----------------------------------------------------------------------------
(* Statements that insert *)

LEMMA ViewersClearedInv ==
    ASSUME CalendarInv, NEW r \in Slots, ViewersCleared(r)
    PROVE  CalendarInv'
<1>1. PICK c \in Calling : c = call[r] /\ CallOk(c)
    BY SlotFacts
<1>2. c.at = "clear" /\ Needs(r) = {} /\ UNCHANGED lastId
    BY <1>1 DEF ViewersCleared
<1>3. c.op = "update" /\ c.shares = {} /\ c.added = 0
    BY <1>1, <1>2 DEF CallOk, Stage, OpsAt
<1>4. PICK next : next = [c EXCEPT !.at = "viewers"]
    OBVIOUS
<1>5. next \in Calling /\ Moved(c, next, "viewers", c.id, c.added, c.holds, c.shares)
    BY <1>4 DEF Calling, Moved
<1>6. Becomes(r, next)
    BY <1>1, <1>2, <1>4 DEF ViewersCleared, Following, Then
<1>7. ViewersOf({c.id}) \subseteq c.holds
    BY <1>1, <1>2, DoneFacts
<1>8. Stage(next)
    <2>1. next.op \in OpsAt(next.at)
        BY <1>3, <1>5 DEF OpsAt, Moved
    <2>2. QED
        BY <1>1, <1>2, <1>3, <1>5, <2>1 DEF CallOk, Stage, Moved
<1>9. Shares(next)
    BY <1>1, <1>5 DEF CallOk, Shares, Moved
<1>10. Creates(next) /\ ~ Creating(next)
    BY <1>3, <1>5 DEF Creates, Creating, Moved
<1>11. Locks(next)
    BY <1>1, <1>2, <1>3, <1>5, <1>7 DEF CallOk, Locks, Updating, Moved
<1>12. CallOk(next)
    BY <1>8, <1>9, <1>10, <1>11 DEF CallOk
<1>13. \A q \in Slots \ {r} : Apart(next, call[q])
    <2>1. \A q \in Slots \ {r} : Apart(c, call[q])
        BY <1>1, SlotFacts
    <2>2. QED
        BY <1>5, <1>10, <2>1 DEF Apart, Moved
<1>14. next.at # "insert"
    BY <1>5 DEF Moved
<1>15. QED
    BY <1>2, <1>5, <1>6, <1>12, <1>13, <1>14, GoesOn

LEMMA InsertCalendarCustomViewerInv ==
    ASSUME CalendarInv, NEW r \in Slots, InsertCalendarCustomViewer(r)
    PROVE  CalendarInv'
<1>1. PICK c \in Calling : c = call[r] /\ CallOk(c)
    BY SlotFacts
<1>2. /\ c.at = "viewers" /\ c.added < Len(c.list) /\ ~ Waits(r) /\ UNCHANGED lastId
      /\ Adding(r) /\ NextViewer(r) = c.list[c.added + 1]
    BY <1>1 DEF InsertCalendarCustomViewer, Adding, NextViewer
<1>3. CASE Becomes(r, Idle)
    BY <1>2, <1>3, BecomesIdle
<1>4. CASE ~ Becomes(r, Idle)
    <2>1. PICK unit : unit = NextViewer(r)
        OBVIOUS
    <2>2. /\ unit \in units
          /\ Becomes(r, [c EXCEPT !.added = c.added + 1, !.shares = c.shares \cup {unit}])
        BY <1>1, <1>4, <2>1 DEF InsertCalendarCustomViewer
    <2>3. PICK next : next = [c EXCEPT !.added = c.added + 1, !.shares = c.shares \cup {unit}]
        OBVIOUS
    <2>4. c.list \in Seq(Units) /\ c.added \in Nat /\ c.shares \subseteq Units
        BY DEF Calling
    <2>5. Len(c.list) \in Nat /\ unit \in Units
        BY <2>2, <2>4, LenProperties DEF CalendarInv, Tables
    <2>6. /\ next \in Calling
          /\ Moved(c, next, "viewers", c.id, c.added + 1, c.holds, c.shares \cup {unit})
        <3>1. PICK added \in Nat : added = c.added + 1
            BY <2>4
        <3>2. PICK shares \in SUBSET Units : shares = c.shares \cup {unit}
            BY <2>4, <2>5
        <3>3. next = [c EXCEPT !.added = added, !.shares = shares]
            BY <2>3, <3>1, <3>2
        <3>4. next \in Calling /\ Moved(c, next, "viewers", c.id, added, c.holds, shares)
            BY <1>2, <3>3 DEF Calling, Moved
        <3>5. QED
            BY <3>1, <3>2, <3>4
    <2>7. \A q \in Slots \ {r} : UnitRow(unit) \notin call[q].holds
        <3>1. unit \in Refers(r)
            BY <1>1, <1>2, <2>1 DEF Refers
        <3>2. QED
            BY <1>2, <3>1, FreeUnit
    <2>8. Stage(next)
        <3>1. c.added + 1 \in 0 .. Len(c.list)
            BY <1>2, <2>4, <2>5
        <3>2. QED
            BY <1>1, <1>2, <2>6, <3>1 DEF CallOk, Stage, Moved
    <2>9. Shares(next)
        <3>1. c.shares \subseteq units /\ \A i \in 1 .. c.added : c.list[i] \in c.shares
            BY <1>1 DEF CallOk, Shares
        <3>2. \A i \in 1 .. c.added + 1 : i \in 1 .. c.added \/ i = c.added + 1
            BY <2>4
        <3>3. \A i \in 1 .. c.added + 1 : c.list[i] \in c.shares \cup {unit}
            BY <1>2, <2>1, <3>1, <3>2
        <3>4. QED
            BY <2>2, <2>6, <3>1, <3>3 DEF Shares, Moved
    <2>10. Creates(next)
        BY <1>1, <1>2, <2>6 DEF CallOk, Creates, Creating, Moved
    <2>11. Locks(next)
        BY <1>1, <1>2, <2>6 DEF CallOk, Locks, Updating, Moved
    <2>12. CallOk(next)
        BY <2>8, <2>9, <2>10, <2>11 DEF CallOk
    <2>13. \A q \in Slots \ {r} : Apart(next, call[q])
        <3>1. \A q \in Slots \ {r} : Apart(c, call[q])
            BY <1>1, SlotFacts
        <3>2. QED
            BY <1>2, <2>6, <2>7, <3>1 DEF Apart, Creating, Moved
    <2>14. next.at # "insert"
        BY <2>6 DEF Moved
    <2>15. QED
        BY <1>2, <2>2, <2>3, <2>6, <2>12, <2>13, <2>14, GoesOn
<1>5. QED
    BY <1>3, <1>4

LEMMA CreateCalendarInv ==
    ASSUME CalendarInv, NEW r \in Slots, CreateCalendar(r)
    PROVE  CalendarInv'
<1>1. PICK c \in Calling : c = call[r] /\ CallOk(c)
    BY SlotFacts
<1>2. c.at = "insert" /\ ~ Waits(r) /\ lastId' = lastId + 1 /\ r \in Inserting
    BY <1>1 DEF CreateCalendar, Inserting
<1>3. /\ c.op = "insert" /\ c.holds = {} /\ c.shares = {} /\ c.added = 0 /\ c.unit \in Units
      /\ Stage(c)
    BY <1>1, <1>2 DEF CallOk, Stage, OpsAt
<1>4. PICK next :
        /\ next = IF c.unit \notin units THEN Idle
                  ELSE [c EXCEPT !.at = "viewers", !.id = lastId + 1, !.shares = {c.unit}]
        /\ Becomes(r, next)
    BY <1>1, <1>2, <1>3 DEF CreateCalendar, Following, Then
<1>5. call' = [call EXCEPT ![r] = next] /\ UNCHANGED <<units, calendars, viewers, born>>
    BY <1>4 DEF Becomes
<1>6. next.at # "insert"
    BY <1>4 DEF Idle
<1>7. Room' /\ lastId' \in 0 .. MaxCalendars
    <2>1. Inserting' = Inserting \ {r}
        BY <1>5, <1>6 DEF Inserting, CalendarInv
    <2>2. QED
        BY <1>2, <2>1, RoomUsed
<1>8. Stays
    <2>1. lastId \in Nat /\ MaxCalendars \in Nat
        BY CalendarAssumption DEF CalendarInv, Tables
    <2>2. lastId' \in lastId .. MaxCalendars
        BY <1>2, <1>7, <2>1
    <2>3. QED
        BY <1>5, <2>2 DEF Stays
<1>9. next \in Calling /\ CallOk(next)' /\ \A q \in Slots \ {r} : Apart(next, call[q])
    <2>1. CASE c.unit \notin units
        <3>1. PICK d \in Calling : d = Idle /\ CallOk(d) /\ \A e : Apart(d, e)
            BY IdleOk
        <3>2. CallOk(d)'
            BY <1>8, <3>1, SameCall
        <3>3. next = d
            BY <1>4, <2>1, <3>1
        <3>4. QED
            BY <3>1, <3>2, <3>3
    <2>2. CASE c.unit \in units
        <3>1. /\ lastId \in Nat /\ lastId + 1 \in Ids /\ lastId + 1 \in 1 .. lastId'
              /\ lastId + 1 \notin 1 .. lastId /\ born \subseteq 1 .. lastId
            BY <1>2, <1>7, CalendarAssumption DEF CalendarInv, Tables, Ids
        <3>2. /\ next \in Calling
              /\ Moved(c, next, "viewers", lastId + 1, c.added, c.holds, {c.unit})
            BY <1>3, <1>4, <2>2, <3>1 DEF Calling, Moved
        <3>3. Stage(next)'
            <4>1. next.op \in OpsAt(next.at)
                BY <1>3, <3>2 DEF OpsAt, Moved
            <4>2. QED
                BY <1>3, <3>2, <4>1 DEF Stage, Moved
        <3>4. Shares(next)'
            <4>1. next.shares = {c.unit} /\ next.added = 0
                BY <1>3, <3>2 DEF Moved
            <4>2. QED
                BY <1>5, <2>2, <4>1 DEF Shares
        <3>5. Creates(next)'
            BY <1>3, <1>5, <3>1, <3>2 DEF Creates, Creating, Moved
        <3>6. Locks(next)'
            BY <1>3, <3>2 DEF Locks, Updating, Moved
        <3>7. ASSUME NEW q \in Slots \ {r} PROVE Apart(next, call[q])
            <4>1. c.unit \in Refers(r)
                BY <1>1, <1>2 DEF Refers
            <4>2. UnitRow(c.unit) \notin call[q].holds
                BY <1>2, <4>1, FreeUnit
            <4>3. Creating(call[q]) => call[q].id # lastId + 1
                BY <3>1, SlotFacts DEF CallOk, Creates
            <4>4. QED
                BY <1>3, <3>2, <4>2, <4>3 DEF Apart, Moved
        <3>8. QED
            BY <3>2, <3>3, <3>4, <3>5, <3>6, <3>7 DEF CallOk
    <2>3. QED
        BY <2>1, <2>2
<1>10. ASSUME NEW q \in Slots \ {r}, NEW d, d = call[q] PROVE CallOk(d)'
    BY <1>8, <1>10, SlotFacts, SameCall
<1>11. QED
    BY <1>5, <1>7, <1>8, <1>9, <1>10, StaysTables, Others

-----------------------------------------------------------------------------
(* What a commit does to the tables *)

Written(c) == IF c.at = "viewers" THEN {c.id} ELSE {}

Applied(c) ==
    /\ units' = {unit \in units : UnitRow(unit) \notin c.holds}
    /\ calendars' = [id \in Ids |->
           IF id \in Written(c)
           THEN [unit |-> IF Exists(id) THEN calendars[id].unit ELSE c.unit,
                 visibility |-> c.visibility]
           ELSE IF CalendarRow(id) \in c.holds THEN None ELSE calendars[id]]
    /\ viewers' = {pair \in viewers : ViewerRow(pair[1], pair[2]) \notin c.holds}
                  \cup (Written(c) \X Range(c.list))
    /\ born' = born \cup Written(c)
    /\ UNCHANGED lastId

\* A calendar of this unit is written, its viewers are those of the list.
Writes(c, unit) ==
    /\ c.id \in Ids /\ c.id <= lastId
    /\ unit \in units /\ Range(c.list) \subseteq units
    /\ c.visibility \in Visibilities /\ ViewerLists # {}
    /\ IF c.visibility = "custom" THEN c.list \in ViewerLists ELSE Range(c.list) = {}
    /\ \/ c.op = "insert" /\ ~ Exists(c.id) /\ c.id \notin born
       \/ c.op = "update" /\ Exists(c.id) /\ unit = calendars[c.id].unit
    /\ units' = units
    /\ calendars' = [calendars EXCEPT ![c.id] = [unit |-> unit, visibility |-> c.visibility]]
    /\ viewers' = {pair \in viewers : pair[1] # c.id} \cup ({c.id} \X Range(c.list))
    /\ born' = born \cup {c.id}

\* A calendar goes, with its viewers.
Removes(c) ==
    /\ c.id \in Ids
    /\ units' = units
    /\ calendars' = [calendars EXCEPT ![c.id] = None]
    /\ viewers' = {pair \in viewers : pair[1] # c.id}
    /\ born' = born

\* A unit goes, with its calendars and its places.
RemovesUnit(c) ==
    /\ c.unit \in Units
    /\ units' = units \ {c.unit}
    /\ calendars' = [id \in Ids |-> IF id \in Owned(c.unit) THEN None ELSE calendars[id]]
    /\ viewers' = {pair \in viewers : pair[1] \notin Owned(c.unit) /\ pair[2] # c.unit}
    /\ born' = born

LEMMA CommitApplies ==
    ASSUME CalendarInv, NEW r \in Slots, Commit(r), NEW c, c = call[r]
    PROVE  /\ Applied(c) /\ CallOk(c) /\ c \in Calling /\ call' = [call EXCEPT ![r] = Idle]
           /\ \/ c.at = "viewers" /\ Range(c.list) \subseteq c.shares
              \/ c.at \in {"cascade", "unit_cascade"} /\ Needs(r) = {}
<1>1. CallOk(c) /\ c \in Calling
    BY SlotFacts
<1>2. Applied(c) /\ call' = [call EXCEPT ![r] = Idle]
    BY DEF Commit, Applied, Written
<1>3. CASE c.at = "viewers"
    <2>1. ~ (c.added < Len(c.list))
        BY <1>3 DEF Commit, Adding
    <2>2. c.added \in 0 .. Len(c.list) /\ c.list \in Seq(Units)
        BY <1>1 DEF CallOk, Stage, Calling
    <2>3. c.added = Len(c.list) /\ DOMAIN c.list = 1 .. Len(c.list)
        <3>1. Len(c.list) \in Nat /\ DOMAIN c.list = 1 .. Len(c.list)
            BY <2>2, LenProperties
        <3>2. QED
            BY <2>1, <2>2, <3>1
    <2>4. \A i \in 1 .. c.added : c.list[i] \in c.shares
        BY <1>1 DEF CallOk, Shares
    <2>5. Range(c.list) \subseteq c.shares
        BY <2>3, <2>4 DEF Range
    <2>6. QED
        BY <1>1, <1>2, <1>3, <2>5
<1>4. QED
    BY <1>1, <1>2, <1>3 DEF Commit

LEMMA EmptyRange == Range(<<>>) = {}
<1>1. <<>> \in Seq(Units) /\ Len(<<>>) = 0
    BY EmptySeq
<1>2. DOMAIN <<>> = 1 .. 0
    BY <1>1, LenProperties
<1>3. QED
    BY <1>2 DEF Range

\* The rows of the calendars and viewers that a committed update or deletion
\* of a calendar holds.
LEMMA OwnRows ==
    ASSUME CalendarInv, NEW c, CallOk(c), c.op \in {"update", "delete"}, c.id \in Ids,
           CalendarRow(c.id) \in c.holds, ViewersOf({c.id}) \subseteq c.holds
    PROVE  /\ \A unit \in units : UnitRow(unit) \notin c.holds
           /\ \A id \in Ids : CalendarRow(id) \in c.holds <=> id = c.id
           /\ \A pair \in viewers : ViewerRow(pair[1], pair[2]) \in c.holds <=> pair[1] = c.id
<1>1. units \subseteq Units
    BY DEF CalendarInv, Tables
<1>2. \A unit \in units : UnitRow(unit) \notin c.holds
    BY <1>1 DEF CallOk, Locks
<1>3. \A id \in Ids : CalendarRow(id) \in c.holds <=> id = c.id
    BY DEF CallOk, Locks
<1>4. ASSUME NEW pair \in viewers
      PROVE  ViewerRow(pair[1], pair[2]) \in c.holds <=> pair[1] = c.id
    <2>1. pair[1] \in Ids /\ pair[2] \in Units
        BY PairFacts DEF CalendarInv
    <2>2. CASE pair[1] = c.id
        <3>1. ViewerRow(pair[1], pair[2]) \in ViewersOf({c.id})
            BY <2>2, RowsOfViewers
        <3>2. QED
            BY <2>2, <3>1
    <2>3. CASE ViewerRow(pair[1], pair[2]) \in c.holds
        <3>1. CalendarRow(pair[1]) \in c.holds
            BY <2>1, <2>3 DEF CallOk, Locks
        <3>2. QED
            BY <1>3, <2>1, <2>3, <3>1
    <2>4. QED
        BY <2>2, <2>3
<1>5. QED
    BY <1>2, <1>3, <1>4

LEMMA CommitRemoves ==
    ASSUME CalendarInv, NEW r \in Slots, Commit(r), NEW c, c = call[r], c.at = "cascade"
    PROVE  Removes(c)
<1>1. Applied(c) /\ CallOk(c) /\ Needs(r) = {} /\ Written(c) = {}
    BY CommitApplies DEF Written
<1>2. ViewersOf({c.id}) \subseteq c.holds
    BY <1>1, DoneFacts
<1>3. c.op = "delete" /\ c.id \in Ids /\ CalendarRow(c.id) \in c.holds
    BY <1>1 DEF CallOk, Stage, OpsAt, Locks
<1>4. /\ \A unit \in units : UnitRow(unit) \notin c.holds
      /\ \A id \in Ids : CalendarRow(id) \in c.holds <=> id = c.id
      /\ \A pair \in viewers : ViewerRow(pair[1], pair[2]) \in c.holds <=> pair[1] = c.id
    BY <1>1, <1>2, <1>3, OwnRows
<1>5. units' = units /\ born' = born
    BY <1>1, <1>4 DEF Applied
<1>6. calendars' = [calendars EXCEPT ![c.id] = None]
    <2>1. calendars' = [id \in Ids |-> IF CalendarRow(id) \in c.holds THEN None ELSE calendars[id]]
        BY <1>1 DEF Applied
    <2>2. calendars = [id \in Ids |-> calendars[id]]
        BY DEF CalendarInv, Tables
    <2>3. QED
        BY <1>3, <1>4, <2>1, <2>2
<1>7. viewers' = {pair \in viewers : pair[1] # c.id}
    <2>1. viewers' = {pair \in viewers : ViewerRow(pair[1], pair[2]) \notin c.holds}
        BY <1>1 DEF Applied
    <2>2. QED
        BY <1>4, <2>1
<1>8. QED
    BY <1>3, <1>5, <1>6, <1>7 DEF Removes

LEMMA CommitRemovesUnit ==
    ASSUME CalendarInv, NEW r \in Slots, Commit(r), NEW c, c = call[r], c.at = "unit_cascade"
    PROVE  RemovesUnit(c)
<1>1. Applied(c) /\ CallOk(c) /\ Needs(r) = {} /\ Written(c) = {}
    BY CommitApplies DEF Written
<1>2. /\ \A id \in Owned(c.unit) : CalendarRow(id) \in c.holds
      /\ ViewersOf(Owned(c.unit)) \subseteq c.holds
      /\ PlacesOf(c.unit) \subseteq c.holds
    BY <1>1, DoneFacts
<1>3. c.op = "delete_unit" /\ c.unit \in Units /\ UnitRow(c.unit) \in c.holds
    BY <1>1 DEF CallOk, Stage, OpsAt, Locks
<1>4. units' = units \ {c.unit} /\ born' = born
    <2>1. \A unit \in units : UnitRow(unit) \in c.holds <=> unit = c.unit
        BY <1>1, <1>3 DEF CallOk, Locks, CalendarInv, Tables
    <2>2. QED
        BY <1>1, <2>1 DEF Applied
<1>5. \A id \in Ids : CalendarRow(id) \in c.holds <=> id \in Owned(c.unit)
    BY <1>1, <1>2, <1>3 DEF CallOk, Locks, Owned
<1>6. calendars' = [id \in Ids |-> IF id \in Owned(c.unit) THEN None ELSE calendars[id]]
    BY <1>1, <1>5 DEF Applied
<1>7. ASSUME NEW pair \in viewers
      PROVE  ViewerRow(pair[1], pair[2]) \in c.holds
             <=> pair[1] \in Owned(c.unit) \/ pair[2] = c.unit
    <2>1. pair[1] \in Ids /\ pair[2] \in Units
        BY PairFacts DEF CalendarInv
    <2>2. CASE pair[1] \in Owned(c.unit)
        <3>1. ViewerRow(pair[1], pair[2]) \in ViewersOf(Owned(c.unit))
            BY <2>2, RowsOfViewers
        <3>2. QED
            BY <1>2, <2>2, <3>1
    <2>3. CASE pair[2] = c.unit
        <3>1. ViewerRow(pair[1], pair[2]) \in PlacesOf(c.unit)
            BY <2>3, RowsOfViewers
        <3>2. QED
            BY <1>2, <2>3, <3>1
    <2>4. CASE ViewerRow(pair[1], pair[2]) \in c.holds
        BY <1>1, <1>5, <2>1, <2>4 DEF CallOk, Locks
    <2>5. QED
        BY <2>2, <2>3, <2>4
<1>8. viewers' = {pair \in viewers : pair[1] \notin Owned(c.unit) /\ pair[2] # c.unit}
    <2>1. viewers' = {pair \in viewers : ViewerRow(pair[1], pair[2]) \notin c.holds}
        BY <1>1 DEF Applied
    <2>2. QED
        BY <1>7, <2>1
<1>9. QED
    BY <1>3, <1>4, <1>6, <1>8 DEF RemovesUnit

LEMMA CommitWrites ==
    ASSUME CalendarInv, NEW r \in Slots, Commit(r), NEW c, c = call[r], c.at = "viewers"
    PROVE  \E unit \in Units : Writes(c, unit) /\ (c.op = "insert" => unit = c.unit)
<1>1. Applied(c) /\ CallOk(c) /\ Range(c.list) \subseteq c.shares /\ Written(c) = {c.id}
    BY CommitApplies DEF Written
<1>2. /\ c.shares \subseteq units /\ units \subseteq Units
      /\ calendars \in [Ids -> CalendarRows \cup {None}]
      /\ \A id \in Ids : Exists(id) => calendars[id].unit \in units /\ id \in born
      /\ lastId \in 0 .. MaxCalendars /\ born \subseteq 1 .. lastId
    BY <1>1 DEF CallOk, Shares, CalendarInv, Tables
<1>3. /\ c.op \in {"insert", "update"} /\ c.visibility \in Visibilities /\ ViewerLists # {}
      /\ IF c.visibility = "custom" THEN c.list \in ViewerLists ELSE Range(c.list) = {}
    BY <1>1, EmptyRange DEF CallOk, Stage, OpsAt
<1>4. /\ viewers' = {pair \in viewers : ViewerRow(pair[1], pair[2]) \notin c.holds}
                    \cup ({c.id} \X Range(c.list))
      /\ born' = born \cup {c.id}
      /\ units' = {unit \in units : UnitRow(unit) \notin c.holds}
    BY <1>1 DEF Applied
<1>5. calendars' = [id \in Ids |->
           IF id = c.id
           THEN [unit |-> IF Exists(id) THEN calendars[id].unit ELSE c.unit,
                 visibility |-> c.visibility]
           ELSE IF CalendarRow(id) \in c.holds THEN None ELSE calendars[id]]
    BY <1>1 DEF Applied
<1>6. CASE c.op = "insert"
    <2>1. c.id \in 1 .. lastId /\ c.id \notin born /\ c.unit \in c.shares /\ c.holds = {}
        BY <1>1, <1>6 DEF CallOk, Creates, Creating
    <2>2. c.id \in Ids /\ c.id <= lastId /\ ~ Exists(c.id)
        <3>1. c.id \in Ids /\ c.id <= lastId
            BY <1>2, <2>1, CalendarAssumption DEF Ids
        <3>2. QED
            BY <1>2, <2>1, <3>1
    <2>3. PICK row : row = [unit |-> c.unit, visibility |-> c.visibility]
        OBVIOUS
    <2>4. calendars' = [calendars EXCEPT ![c.id] = row]
        <3>1. calendars' = [id \in Ids |-> IF id = c.id THEN row ELSE calendars[id]]
            BY <1>5, <2>1, <2>2, <2>3
        <3>2. QED
            BY <1>2, <2>2, <3>1
    <2>5. units' = units
        BY <1>4, <2>1
    <2>6. viewers' = {pair \in viewers : pair[1] # c.id} \cup ({c.id} \X Range(c.list))
        <3>1. \A pair \in viewers : pair[1] # c.id
            BY <2>2 DEF CalendarInv, Tables
        <3>2. QED
            BY <1>4, <2>1, <3>1
    <2>7. Writes(c, c.unit)
        BY <1>1, <1>2, <1>3, <1>4, <1>6, <2>1, <2>2, <2>3, <2>4, <2>5, <2>6 DEF Writes
    <2>8. QED
        BY <1>2, <2>1, <2>7
<1>7. CASE c.op = "update"
    <2>1. c.id \in Ids /\ CalendarRow(c.id) \in c.holds /\ ViewersOf({c.id}) \subseteq c.holds
        BY <1>1, <1>7 DEF CallOk, Stage, Locks, Updating
    <2>2. Exists(c.id)
        BY <1>1, <2>1 DEF CallOk, Locks
    <2>3. /\ \A unit \in units : UnitRow(unit) \notin c.holds
          /\ \A id \in Ids : CalendarRow(id) \in c.holds <=> id = c.id
          /\ \A pair \in viewers : ViewerRow(pair[1], pair[2]) \in c.holds <=> pair[1] = c.id
        BY <1>1, <1>7, <2>1, OwnRows
    <2>4. PICK unit \in units : unit = calendars[c.id].unit
        BY <1>2, <2>1, <2>2
    <2>5. PICK row : row = [unit |-> unit, visibility |-> c.visibility]
        OBVIOUS
    <2>6. calendars' = [calendars EXCEPT ![c.id] = row]
        <3>1. calendars' = [id \in Ids |-> IF id = c.id THEN row ELSE calendars[id]]
            BY <1>5, <2>2, <2>3, <2>4, <2>5
        <3>2. QED
            BY <1>2, <2>1, <3>1
    <2>7. units' = units
        BY <1>4, <2>3
    <2>8. viewers' = {pair \in viewers : pair[1] # c.id} \cup ({c.id} \X Range(c.list))
        <3>1. {pair \in viewers : ViewerRow(pair[1], pair[2]) \notin c.holds}
              = {pair \in viewers : pair[1] # c.id}
            BY <2>3
        <3>2. QED
            BY <1>4, <3>1
    <2>9. c.id <= lastId
        BY <1>2, <2>1, <2>2, CalendarAssumption DEF Ids
    <2>10. Range(c.list) \subseteq units
        BY <1>1, <1>2
    <2>11. Writes(c, unit)
        BY <1>3, <1>4, <1>7, <2>1, <2>2, <2>4, <2>5, <2>6, <2>7, <2>8, <2>9, <2>10 DEF Writes
    <2>12. QED
        BY <1>2, <1>7, <2>4, <2>11
<1>8. QED
    BY <1>3, <1>6, <1>7

LEMMA WritesTables ==
    ASSUME CalendarInv, NEW c, NEW unit, Writes(c, unit), UNCHANGED lastId
    PROVE  Tables'
<1>1. Tables /\ None \notin CalendarRows
    BY CalendarAssumption DEF CalendarInv, CalendarRows
<1>2. PICK row : row = [unit |-> unit, visibility |-> c.visibility]
    OBVIOUS
<1>3. /\ row \in CalendarRows /\ row # None /\ row.unit = unit /\ row.visibility = c.visibility
      /\ c.id \in Ids /\ unit \in units
    BY <1>1, <1>2 DEF Writes, Tables, CalendarRows
<1>4. calendars' = [calendars EXCEPT ![c.id] = row]
    BY <1>2 DEF Writes
<1>5. calendars'[c.id] = row /\ \A id \in Ids \ {c.id} : calendars'[id] = calendars[id]
    BY <1>1, <1>3, <1>4 DEF Tables
<1>6. calendars' \in [Ids -> CalendarRows \cup {None}]
    BY <1>1, <1>3, <1>4 DEF Tables
<1>7. ASSUME NEW id \in Ids, calendars'[id] # None
      PROVE  calendars'[id].unit \in units' /\ id \in born'
    <2>1. CASE id = c.id
        BY <1>3, <1>5, <2>1 DEF Writes
    <2>2. CASE id # c.id
        BY <1>1, <1>5, <1>7, <2>2 DEF Writes, Tables, Exists
    <2>3. QED
        BY <2>1, <2>2
<1>8. ASSUME NEW pair \in viewers'
      PROVE  /\ pair \in Ids \X units' /\ calendars'[pair[1]] # None
             /\ calendars'[pair[1]].visibility = "custom"
    <2>1. CASE pair \in viewers /\ pair[1] # c.id
        <3>1. /\ pair \in Ids \X units /\ Exists(pair[1])
              /\ calendars[pair[1]].visibility = "custom"
            BY <1>1, <2>1 DEF Tables
        <3>2. pair[1] \in Ids \ {c.id}
            BY <2>1, <3>1
        <3>3. QED
            BY <1>5, <3>1, <3>2 DEF Writes, Exists
    <2>2. CASE pair \in {c.id} \X Range(c.list)
        <3>1. pair[1] = c.id /\ pair[2] \in Range(c.list) /\ pair \in Ids \X units
            BY <1>3, <2>2 DEF Writes
        <3>2. c.visibility = "custom"
            BY <3>1 DEF Writes
        <3>3. QED
            BY <1>3, <1>5, <3>1, <3>2 DEF Writes
    <2>3. QED
        BY <1>8, <2>1, <2>2 DEF Writes
<1>9. lastId' \in 0 .. MaxCalendars /\ born' \subseteq 1 .. lastId'
    <2>1. c.id \in 1 .. lastId
        BY <1>1, <1>3, CalendarAssumption DEF Writes, Ids, Tables
    <2>2. QED
        BY <1>1, <2>1 DEF Writes, Tables
<1>10. units' \subseteq Units /\ viewers' \subseteq Ids \X units'
    BY <1>1, <1>8 DEF Writes, Tables
<1>11. QED
    BY <1>6, <1>7, <1>8, <1>9, <1>10 DEF Tables, Exists

LEMMA RemovesTables ==
    ASSUME CalendarInv, NEW c, Removes(c), UNCHANGED lastId
    PROVE  Tables'
<1>1. Tables
    BY DEF CalendarInv
<1>2. /\ c.id \in Ids /\ units' = units /\ born' = born
      /\ calendars' = [calendars EXCEPT ![c.id] = None]
      /\ viewers' = {pair \in viewers : pair[1] # c.id}
    BY DEF Removes
<1>3. calendars'[c.id] = None /\ \A id \in Ids \ {c.id} : calendars'[id] = calendars[id]
    BY <1>1, <1>2 DEF Tables
<1>4. calendars' \in [Ids -> CalendarRows \cup {None}]
    BY <1>1, <1>2 DEF Tables
<1>5. ASSUME NEW id \in Ids, calendars'[id] # None
      PROVE  calendars'[id].unit \in units' /\ id \in born'
    BY <1>1, <1>2, <1>3, <1>5 DEF Tables, Exists
<1>6. ASSUME NEW pair \in viewers'
      PROVE  /\ pair \in Ids \X units' /\ calendars'[pair[1]] # None
             /\ calendars'[pair[1]].visibility = "custom"
    <2>1. pair \in viewers /\ pair[1] # c.id
        BY <1>2, <1>6
    <2>2. /\ pair \in Ids \X units /\ Exists(pair[1])
          /\ calendars[pair[1]].visibility = "custom"
        BY <1>1, <2>1 DEF Tables
    <2>3. pair[1] \in Ids \ {c.id}
        BY <2>1, <2>2
    <2>4. QED
        BY <1>2, <1>3, <2>2, <2>3 DEF Exists
<1>7. QED
    BY <1>1, <1>2, <1>4, <1>5, <1>6 DEF Tables, Exists

LEMMA RemovesUnitTables ==
    ASSUME CalendarInv, NEW c, RemovesUnit(c), UNCHANGED lastId
    PROVE  Tables'
<1>1. Tables
    BY DEF CalendarInv
<1>2. /\ units' = units \ {c.unit} /\ born' = born
      /\ calendars' = [id \in Ids |-> IF id \in Owned(c.unit) THEN None ELSE calendars[id]]
      /\ viewers' = {pair \in viewers : pair[1] \notin Owned(c.unit) /\ pair[2] # c.unit}
    BY DEF RemovesUnit
<1>3. calendars' \in [Ids -> CalendarRows \cup {None}]
    BY <1>1, <1>2 DEF Tables
<1>4. ASSUME NEW id \in Ids, calendars'[id] # None
      PROVE  calendars'[id].unit \in units' /\ id \in born'
    <2>1. id \notin Owned(c.unit) /\ calendars'[id] = calendars[id]
        BY <1>2, <1>4
    <2>2. Exists(id) /\ calendars[id].unit # c.unit
        BY <1>4, <2>1 DEF Exists, Owned
    <2>3. QED
        BY <1>1, <1>2, <2>1, <2>2 DEF Tables
<1>5. ASSUME NEW pair \in viewers'
      PROVE  /\ pair \in Ids \X units' /\ calendars'[pair[1]] # None
             /\ calendars'[pair[1]].visibility = "custom"
    <2>1. pair \in viewers /\ pair[1] \notin Owned(c.unit) /\ pair[2] # c.unit
        BY <1>2, <1>5
    <2>2. /\ pair \in Ids \X units /\ Exists(pair[1])
          /\ calendars[pair[1]].visibility = "custom"
        BY <1>1, <2>1 DEF Tables
    <2>3. calendars'[pair[1]] = calendars[pair[1]]
        BY <1>2, <2>1, <2>2
    <2>4. QED
        BY <1>2, <2>1, <2>2, <2>3 DEF Exists
<1>6. QED
    BY <1>1, <1>2, <1>3, <1>4, <1>5 DEF Tables, Exists

\* What a call relies on is out of reach of another call's commit.
LEMMA OtherCall ==
    ASSUME CalendarInv, NEW c \in Calling, CallOk(c), Applied(c), NEW d \in Calling, CallOk(d),
           Apart(c, d)
    PROVE  CallOk(d)'
<1>1. Stage(d)'
    BY DEF CallOk, Stage
<1>2. Shares(d)'
    <2>1. d.shares \subseteq units'
        BY DEF CallOk, Shares, Applied, Apart
    <2>2. QED
        BY <2>1 DEF CallOk, Shares
<1>3. c.at = "viewers" => \/ Creating(c) /\ c.id \notin born
                          \/ CalendarRow(c.id) \in c.holds /\ c.id \in Ids /\ c.id \in born
    <2>1. ASSUME c.at = "viewers", c.op = "update"
          PROVE  CalendarRow(c.id) \in c.holds /\ c.id \in Ids /\ c.id \in born
        BY <2>1 DEF CallOk, Stage, Locks, Updating, CalendarInv, Tables
    <2>2. QED
        BY <2>1 DEF CallOk, Stage, OpsAt, Creates, Creating
<1>4. Creates(d)'
    <2>1. Creating(d) /\ c.at = "viewers" => c.id # d.id
        <3>1. ASSUME Creating(d), c.at = "viewers", CalendarRow(c.id) \in c.holds, c.id \in born
              PROVE  c.id # d.id
            BY <3>1 DEF CallOk, Creates
        <3>2. QED
            BY <1>3, <3>1 DEF Apart
    <2>2. QED
        BY <2>1 DEF CallOk, Creates, Creating, Applied, Written
<1>5. ASSUME NEW id \in Ids, CalendarRow(id) \in d.holds
      PROVE  calendars'[id] = calendars[id] /\ Exists(id) /\ id \notin Written(c)
    <2>1. Exists(id) /\ id \in born
        BY <1>5 DEF CallOk, Locks, CalendarInv, Tables
    <2>2. CalendarRow(id) \notin c.holds
        BY <1>5 DEF Apart
    <2>3. id \notin Written(c)
        <3>1. CASE c.at = "viewers" /\ id = c.id
            BY <1>3, <2>1, <2>2, <3>1
        <3>2. QED
            BY <3>1 DEF Written
    <2>4. QED
        BY <2>1, <2>2, <2>3 DEF Applied
<1>6. Locks(d)'
    <2>1. d.at \in {"clear", "cascade"} \/ Updating(d) => CalendarRow(d.id) \in d.holds
        BY DEF CallOk, Locks
    <2>2. Updating(d) => (ViewersOf({d.id}) \subseteq d.holds)'
        <3>1. SUFFICES ASSUME Updating(d), NEW row, row \in ViewersOf({d.id})'
                       PROVE  row \in d.holds
            OBVIOUS
        <3>2. PICK pair \in viewers' : pair[1] = d.id /\ row = ViewerRow(pair[1], pair[2])
            BY <3>1 DEF ViewersOf, ViewerRows
        <3>3. d.id \in Ids /\ CalendarRow(d.id) \in d.holds /\ ViewersOf({d.id}) \subseteq d.holds
            BY <3>1 DEF CallOk, Stage, Locks, Updating
        <3>4. d.id \notin Written(c)
            BY <1>5, <3>3
        <3>5. pair \in viewers
            BY <3>2, <3>4 DEF Applied
        <3>6. row \in ViewersOf({d.id})
            BY <3>2, <3>5, RowsOfViewers
        <3>7. QED
            BY <3>3, <3>6
    <2>3. d.at = "unit_cascade" => UnitRow(d.unit) \in d.holds
        BY DEF CallOk, Locks
    <2>4. \A unit \in Units : UnitRow(unit) \in d.holds =>
            unit \in units' /\ d.op = "delete_unit" /\ d.unit = unit
        BY DEF CallOk, Locks, Applied, Apart
    <2>5. \A id \in Ids : CalendarRow(id) \in d.holds =>
            /\ calendars'[id] # None
            /\ \/ d.op \in {"update", "delete"} /\ d.id = id
               \/ d.op = "delete_unit" /\ calendars'[id].unit = d.unit
        BY <1>5 DEF CallOk, Locks, Exists
    <2>6. ASSUME NEW id \in Ids, NEW unit \in Units, ViewerRow(id, unit) \in d.holds
          PROVE  /\ <<id, unit>> \in viewers'
                 /\ CalendarRow(id) \in d.holds \/ (d.op = "delete_unit" /\ d.unit = unit)
        <3>1. PICK pair : pair = <<id, unit>>
            OBVIOUS
        <3>2. pair \in viewers /\ ViewerRow(pair[1], pair[2]) \notin c.holds
            BY <2>6, <3>1 DEF CallOk, Locks, Apart
        <3>3. pair \in viewers'
            BY <3>2 DEF Applied
        <3>4. QED
            BY <2>6, <3>1, <3>3 DEF CallOk, Locks
    <2>7. QED
        BY <2>1, <2>2, <2>3, <2>4, <2>5, <2>6 DEF Locks, Updating, Exists
<1>7. QED
    BY <1>1, <1>2, <1>4, <1>6 DEF CallOk

LEMMA CommitInv ==
    ASSUME CalendarInv, NEW r \in Slots, Commit(r)
    PROVE  CalendarInv'
<1>1. PICK c \in Calling : c = call[r] /\ CallOk(c)
    BY SlotFacts
<1>2. /\ Applied(c) /\ call' = [call EXCEPT ![r] = Idle]
      /\ c.at \in {"viewers", "cascade", "unit_cascade"}
    BY <1>1, CommitApplies
<1>3. UNCHANGED lastId
    BY <1>2 DEF Applied
<1>4. Tables'
    BY <1>1, <1>2, <1>3, CommitWrites, CommitRemoves, CommitRemovesUnit,
       WritesTables, RemovesTables, RemovesUnitTables
<1>5. PICK next \in Calling :
        /\ next = Idle /\ next.at = "idle" /\ CallOk(next) /\ \A d : Apart(next, d)
    BY IdleOk
<1>6. CallOk(next)'
    BY <1>1, <1>2, <1>5, ApartSym, OtherCall
<1>7. Room'
    <2>1. Inserting' \subseteq Inserting
        BY <1>2, <1>5 DEF Inserting, CalendarInv
    <2>2. QED
        BY <1>3, <2>1, RoomKept
<1>8. ASSUME NEW q \in Slots \ {r}, NEW d, d = call[q] PROVE CallOk(d)'
    BY <1>1, <1>2, <1>8, SlotFacts, OtherCall
<1>9. QED
    BY <1>2, <1>4, <1>5, <1>6, <1>7, <1>8, Others

-----------------------------------------------------------------------------
(* The specification *)

LEMMA InitInv == Init => CalendarInv
<1>1. SUFFICES ASSUME Init PROVE CalendarInv
    OBVIOUS
<1>2. PICK c \in Calling : c = Idle /\ c.at = "idle" /\ CallOk(c) /\ \A d : Apart(c, d)
    BY IdleOk
<1>3. call = [r \in Slots |-> c]
    BY <1>1, <1>2 DEF Init
<1>4. Tables
    BY <1>1, CalendarAssumption DEF Init, Tables, Exists
<1>5. Room
    <2>1. Inserting = {}
        BY <1>2, <1>3 DEF Inserting
    <2>2. QED
        BY <1>1, <2>1, FS_EmptySet, CalendarAssumption DEF Init, Room
<1>6. QED
    BY <1>2, <1>3, <1>4, <1>5 DEF CalendarInv

LEMMA StepInv == CalendarInv /\ [Next]_vars => CalendarInv'
<1>1. SUFFICES ASSUME CalendarInv, [Next]_vars PROVE CalendarInv'
    OBVIOUS
<1>2. ASSUME NEW r \in Slots, Proceed(r) PROVE CalendarInv'
    BY <1>1, <1>2, CreateCalendarInv, UpdateCalendarInv, DeleteRowInv, DeleteNextInv,
       ViewersClearedInv, InsertCalendarCustomViewerInv, CommitInv DEF Proceed
<1>3. ASSUME NEW r \in Slots, Fault(r) \/ AbortDeadlocked(r) PROVE CalendarInv'
    BY <1>1, <1>3, FailsInv
<1>4. ASSUME UNCHANGED vars PROVE CalendarInv'
    <2>1. /\ UNCHANGED units /\ UNCHANGED calendars /\ UNCHANGED viewers /\ UNCHANGED lastId
          /\ UNCHANGED born /\ UNCHANGED call
        BY <1>4 DEF vars
    <2>2. Stays
        BY <1>1, <2>1, CalendarAssumption DEF Stays, CalendarInv, Tables
    <2>3. ASSUME NEW r \in Slots PROVE CallOk(call[r])'
        <3>1. PICK c \in Calling : c = call[r] /\ c = call'[r]
            BY <1>1, <2>1, SlotFacts
        <3>2. CallOk(c)'
            BY <1>1, <2>2, <3>1, SlotFacts, SameCall
        <3>3. QED
            BY <3>1, <3>2, Renamed
    <2>4. ASSUME NEW p \in Slots, NEW q \in Slots, p # q PROVE Apart(call[p], call[q])'
        BY <1>1, <2>1, <2>4 DEF CalendarInv, Apart, Creating
    <2>5. Tables'
        BY <1>1, <2>2, StaysTables
    <2>6. Room' /\ call' \in [Slots -> Calling]
        BY <1>1, <2>1 DEF CalendarInv, Room, Inserting
    <2>7. QED
        BY <2>3, <2>4, <2>5, <2>6 DEF CalendarInv
<1>5. QED
    BY <1>1, <1>2, <1>3, <1>4, CallsInv DEF Next

\* The inductive invariant holds in every behaviour: open calls keep each
\* other from the rows and units that their commits rely on.
THEOREM CalendarInvariance == Spec => []CalendarInv
<1>1. QED
    BY InitInv, StepInv, PTL DEF Spec

\* Rows refer to rows that exist, only custom calendars have viewers, and no
\* two calls of the store functions hold one row, for any number of them.
THEOREM CalendarTypeCorrect == Spec => []TypeOK
<1>1. ASSUME CalendarInv PROVE TypeOK
    <2>1. Tables
        BY <1>1 DEF CalendarInv
    <2>2. calendars \in [Ids -> [unit : units, visibility : Visibilities] \cup {None}]
        BY <2>1 DEF Tables, CalendarRows, Exists
    <2>3. \A pair \in viewers :
            /\ pair \in Ids \X units
            /\ Exists(pair[1]) /\ calendars[pair[1]].visibility = "custom"
        BY <2>1 DEF Tables
    <2>4. ASSUME NEW r \in Slots
          PROVE  call[r].added \in 0 .. Len(call[r].list)
        BY <1>1, SlotFacts DEF CallOk, Stage
    <2>5. ASSUME NEW r \in Slots, NEW row \in call[r].holds PROVE ~ Taken(r, row)
        BY <1>1, SlotFacts DEF Taken, Keeps, Apart
    <2>6. QED
        BY <2>1, <2>2, <2>3, <2>4, <2>5 DEF TypeOK, Tables
<1>2. QED
    BY <1>1, CalendarInvariance, PTL

-----------------------------------------------------------------------------
(* CalendarAdmin implements CalendarRegistry *)

Visitors(id) == {unit \in Units : <<id, unit>> \in viewers}

\* What the committed tables say of a calendar, and of all of them.
Kept(id) ==
    IF ~ Exists(id) THEN None
    ELSE [unit |-> calendars[id].unit, visibility |-> calendars[id].visibility,
          viewers |-> Visitors(id)]

Shown == [id \in Ids |-> Kept(id)]

LEMMA KeptFacts ==
    ASSUME CalendarInv, NEW id \in Ids
    PROVE  /\ ~ Exists(id) => Kept(id) = None
           /\ Exists(id) =>
                /\ Kept(id) # None /\ Kept(id).unit = calendars[id].unit
                /\ Kept(id) = [unit |-> calendars[id].unit,
                               visibility |-> calendars[id].visibility, viewers |-> Visitors(id)]
<1>1. CASE Exists(id)
    <2>1. calendars[id] \in CalendarRows
        BY <1>1 DEF CalendarInv, Tables, Exists
    <2>2. PICK unit \in Units, visibility \in Visibilities, visitors \in SUBSET Units :
            /\ unit = calendars[id].unit /\ visibility = calendars[id].visibility
            /\ visitors = Visitors(id)
        BY <2>1 DEF CalendarRows, Visitors
    <2>3. Kept(id) = [unit |-> unit, visibility |-> visibility, viewers |-> visitors]
        BY <1>1, <2>2 DEF Kept
    <2>4. Kept(id) \in [unit : Units, visibility : Visibilities, viewers : SUBSET Units]
        BY <2>3
    <2>5. Kept(id) # None
        BY <2>4, CalendarAssumption
    <2>6. QED
        BY <1>1, <2>2, <2>3, <2>5
<1>2. QED
    BY <1>1 DEF Kept

\* What the tables say of a calendar depends on its row and its viewers only.
LEMMA KeptStays ==
    ASSUME NEW id \in Ids, calendars'[id] = calendars[id], Visitors(id)' = Visitors(id)
    PROVE  Kept(id)' = Kept(id)
BY DEF Kept, Exists

LEMMA ShownChange ==
    ASSUME NEW id \in Ids, NEW content, Kept(id)' = content,
           \A other \in Ids \ {id} : calendars'[other] = calendars[other],
           \A other \in Ids \ {id} : Visitors(other)' = Visitors(other)
    PROVE  Shown' = [Shown EXCEPT ![id] = content]
<1>1. \A other \in Ids \ {id} : Kept(other)' = Kept(other)
    BY KeptStays
<1>2. QED
    BY <1>1 DEF Shown

LEMMA WritesRefines ==
    ASSUME CalendarInv, NEW c, NEW unit \in Units, Writes(c, unit), c.op = "insert" => unit = c.unit
    PROVE  Registry!Next
<1>1. PICK id \in Ids, visibility \in Visibilities :
        id = c.id /\ visibility = c.visibility
    BY DEF Writes
<1>2. PICK named : named = Range(c.list)
    OBVIOUS
<1>3. /\ units' = units /\ unit \in units /\ named \subseteq units /\ named \subseteq Units
      /\ viewers' = {pair \in viewers : pair[1] # id} \cup ({id} \X named)
      /\ born' = born \cup {id}
      /\ \/ c.op = "insert" /\ ~ Exists(id) /\ id \notin born
         \/ Exists(id) /\ unit = calendars[id].unit
    BY <1>1, <1>2 DEF Writes, CalendarInv, Tables
<1>4. PICK row : row = [unit |-> unit, visibility |-> visibility]
    OBVIOUS
<1>5. row \in CalendarRows /\ row # None /\ row.unit = unit /\ row.visibility = visibility
    BY <1>4, CalendarAssumption DEF CalendarRows
<1>6. calendars'[id] = row /\ \A other \in Ids \ {id} : calendars'[other] = calendars[other]
    <2>1. calendars' = [calendars EXCEPT ![id] = row]
        BY <1>1, <1>4 DEF Writes
    <2>2. QED
        BY <2>1 DEF CalendarInv, Tables
<1>7. Visitors(id)' = named
    BY <1>3 DEF Visitors
<1>8. ASSUME NEW other \in Ids \ {id} PROVE Visitors(other)' = Visitors(other)
    <2>1. \A place \in Units : <<other, place>> \in viewers' <=> <<other, place>> \in viewers
        BY <1>3
    <2>2. QED
        BY <2>1 DEF Visitors
<1>9. PICK content : content = [visibility |-> visibility, viewers |-> named]
    OBVIOUS
<1>10. content \in Contents
    <2>1. PICK list \in ViewerLists : named = IF visibility = "custom" THEN Range(list) ELSE {}
        <3>1. CASE visibility = "custom"
            BY <1>1, <1>2, <3>1 DEF Writes
        <3>2. CASE visibility # "custom"
            <4>1. named = {} /\ ViewerLists # {}
                BY <1>1, <1>2, <3>2 DEF Writes
            <4>2. QED
                BY <3>2, <4>1
        <3>3. QED
            BY <3>1, <3>2
    <2>2. content = [visibility |-> visibility,
                     viewers |-> IF visibility = "custom" THEN Range(list) ELSE {}]
        BY <1>9, <2>1
    <2>3. QED
        BY <2>2 DEF Contents
<1>11. PICK new : new = [unit |-> unit, visibility |-> visibility, viewers |-> named]
    OBVIOUS
<1>12. Kept(id)' = new
    BY <1>5, <1>6, <1>7, <1>11 DEF Kept, Exists
<1>13. Shown' = [Shown EXCEPT ![id] = new]
    BY <1>6, <1>8, <1>12, ShownChange
<1>14. new = Registry!Calendar(unit, content) /\ content.viewers = named
    BY <1>9, <1>11 DEF Registry!Calendar
<1>15. CASE ~ Exists(id) /\ id \notin born
    <2>1. Registry!Create(id, unit, content)
        BY <1>3, <1>13, <1>14, <1>15 DEF Registry!Create, Shown, Kept, Visitors
    <2>2. QED
        BY <1>10, <2>1 DEF Registry!Next
<1>16. CASE Exists(id) /\ unit = calendars[id].unit
    <2>1. Shown[id] # None /\ Shown[id].unit = unit
        BY <1>16, KeptFacts DEF Shown
    <2>2. born' = born
        BY <1>3, <1>16 DEF CalendarInv, Tables
    <2>3. Shown' = [Shown EXCEPT ![id] = Registry!Calendar(Shown[id].unit, content)]
        BY <1>13, <1>14, <2>1
    <2>4. Registry!Update(id, content)
        BY <1>3, <1>14, <2>1, <2>2, <2>3
           DEF Registry!Update, Registry!Live, Shown, Kept, Visitors
    <2>5. QED
        BY <1>10, <2>4 DEF Registry!Next
<1>17. QED
    BY <1>3, <1>15, <1>16

LEMMA RemovesRefines ==
    ASSUME CalendarInv, NEW c, Removes(c)
    PROVE  Registry!Next
<1>1. PICK id \in Ids : id = c.id
    BY DEF Removes
<1>2. /\ units' = units /\ born' = born /\ calendars' = [calendars EXCEPT ![id] = None]
      /\ viewers' = {pair \in viewers : pair[1] # id}
    BY <1>1 DEF Removes
<1>3. calendars'[id] = None /\ \A other \in Ids \ {id} : calendars'[other] = calendars[other]
    BY <1>2 DEF CalendarInv, Tables
<1>4. ASSUME NEW other \in Ids \ {id} PROVE Visitors(other)' = Visitors(other)
    <2>1. \A place \in Units : <<other, place>> \in viewers' <=> <<other, place>> \in viewers
        BY <1>2
    <2>2. QED
        BY <2>1 DEF Visitors
<1>5. Kept(id)' = None
    BY <1>3 DEF Kept, Exists
<1>6. Shown' = [Shown EXCEPT ![id] = None]
    BY <1>3, <1>4, <1>5, ShownChange
<1>7. Registry!Delete(id)
    BY <1>2, <1>6 DEF Registry!Delete, Shown, Kept, Visitors
<1>8. QED
    BY <1>7 DEF Registry!Next

LEMMA RemovesUnitRefines ==
    ASSUME CalendarInv, NEW c, RemovesUnit(c)
    PROVE  Registry!Next
<1>1. PICK unit \in Units : unit = c.unit
    BY DEF RemovesUnit
<1>2. /\ units' = units \ {unit} /\ born' = born
      /\ calendars' = [id \in Ids |-> IF id \in Owned(unit) THEN None ELSE calendars[id]]
      /\ viewers' = {pair \in viewers : pair[1] \notin Owned(unit) /\ pair[2] # unit}
    BY <1>1 DEF RemovesUnit
<1>3. ASSUME NEW id \in Ids
      PROVE  Kept(id)' = IF Kept(id) = None \/ Kept(id).unit = unit THEN None
                         ELSE [Kept(id) EXCEPT !.viewers = Kept(id).viewers \ {unit}]
    <2>1. CASE ~ Exists(id)
        <3>1. calendars'[id] = None
            BY <1>2, <2>1 DEF Exists, Owned
        <3>2. QED
            BY <2>1, <3>1, KeptFacts DEF Kept, Exists
    <2>2. CASE Exists(id) /\ calendars[id].unit = unit
        <3>1. calendars'[id] = None
            BY <1>2, <2>2 DEF Owned
        <3>2. QED
            BY <2>2, <3>1, KeptFacts DEF Kept, Exists
    <2>3. CASE Exists(id) /\ calendars[id].unit # unit
        <3>1. id \notin Owned(unit) /\ calendars'[id] = calendars[id]
            BY <1>2, <2>3 DEF Owned
        <3>2. Visitors(id)' = Visitors(id) \ {unit}
            <4>1. \A place \in Units : <<id, place>> \in viewers' <=>
                    <<id, place>> \in viewers /\ place # unit
                BY <1>2, <3>1
            <4>2. QED
                BY <4>1 DEF Visitors
        <3>3. PICK owner, visibility, before, after :
                /\ owner = calendars[id].unit /\ visibility = calendars[id].visibility
                /\ before = Visitors(id) /\ after = before \ {unit}
            OBVIOUS
        <3>4. Kept(id)' = [unit |-> owner, visibility |-> visibility, viewers |-> after]
            BY <2>3, <3>1, <3>2, <3>3 DEF Kept, Exists
        <3>5. Kept(id) = [unit |-> owner, visibility |-> visibility, viewers |-> before]
            BY <2>3, <3>3 DEF Kept
        <3>6. Kept(id)' = [Kept(id) EXCEPT !.viewers = Kept(id).viewers \ {unit}]
            BY <3>3, <3>4, <3>5
        <3>7. QED
            BY <2>3, <3>6, KeptFacts
    <2>4. QED
        BY <2>1, <2>2, <2>3
<1>4. Shown' = [id \in Ids |-> IF Shown[id] = None \/ Shown[id].unit = unit THEN None
                               ELSE [Shown[id] EXCEPT !.viewers = @ \ {unit}]]
    BY <1>3 DEF Shown
<1>5. Registry!DeleteUnit(unit)
    <2>1. Shown' = [id \in Ids |->
                      IF id \notin {other \in Ids : Shown[other] # None} \/ Shown[id].unit = unit
                      THEN None ELSE [Shown[id] EXCEPT !.viewers = @ \ {unit}]]
        BY <1>4
    <2>2. QED
        BY <1>2, <2>1 DEF Registry!DeleteUnit, Registry!Live, Shown, Kept, Visitors
<1>6. QED
    BY <1>5 DEF Registry!Next

LEMMA RegistryStep == CalendarInv /\ [Next]_vars => [Registry!Next]_(Registry!vars)
<1> SUFFICES ASSUME CalendarInv, [Next]_vars PROVE Registry!Next \/ UNCHANGED Registry!vars
    OBVIOUS
<1>1. ASSUME UNCHANGED <<units, calendars, viewers, born>> PROVE UNCHANGED Registry!vars
    BY <1>1 DEF Registry!vars, Exists
<1>2. ASSUME NEW r \in Slots, Commit(r) PROVE Registry!Next
    <2>1. PICK c : c = call[r] /\ c.at \in {"viewers", "cascade", "unit_cascade"}
        BY <1>2, CommitApplies
    <2>2. CASE c.at = "viewers"
        BY <1>2, <2>1, <2>2, CommitWrites, WritesRefines
    <2>3. CASE c.at = "cascade"
        BY <1>2, <2>1, <2>3, CommitRemoves, RemovesRefines
    <2>4. CASE c.at = "unit_cascade"
        BY <1>2, <2>1, <2>4, CommitRemovesUnit, RemovesUnitRefines
    <2>5. QED
        BY <2>1, <2>2, <2>3, <2>4
<1>3. ASSUME NEW r \in Slots,
             \/ \E visibility \in Visibilities, list \in ViewerLists :
                 \/ \E unit \in Units : CreateCalendarWithViewers(r, unit, visibility, list)
                 \/ \E id \in Ids : UpdateCalendarWithViewers(r, id, visibility, list)
             \/ \E id \in Ids : DeleteCalendar(r, id)
             \/ \E unit \in Units : DeleteUnit(r, unit)
             \/ CreateCalendar(r) \/ UpdateCalendar(r) \/ DeleteRow(r) \/ DeleteNext(r)
             \/ ViewersCleared(r) \/ InsertCalendarCustomViewer(r)
             \/ Fault(r) \/ AbortDeadlocked(r)
      PROVE  UNCHANGED <<units, calendars, viewers, born>>
    BY <1>3 DEF CreateCalendarWithViewers, UpdateCalendarWithViewers, DeleteCalendar, DeleteUnit,
                Start, tables, CreateCalendar, UpdateCalendar, DeleteRow, DeleteNext,
                ViewersCleared, InsertCalendarCustomViewer, Fault, AbortDeadlocked, Becomes
<1>4. CASE UNCHANGED vars
    BY <1>1, <1>4 DEF vars
<1>5. QED
    BY <1>1, <1>2, <1>3, <1>4 DEF Next, Proceed

\* The transactions behind the store functions of calendars, and the cascades
\* of a unit's deletion, act as single steps of a registry: a calendar has
\* exactly the viewers that the call which set its visibility named, less the
\* units deleted since.
THEOREM CalendarRefinement == Spec => ImplementsRegistry
<1>1. Init => Registry!Init
    BY DEF Init, Registry!Init, Exists
<1>2. CalendarInv /\ [Next]_vars => [Registry!Next]_(Registry!vars)
    BY RegistryStep
<1>3. QED
    BY <1>1, <1>2, CalendarInvariance, PTL DEF Spec, ImplementsRegistry, Registry!Spec

-----------------------------------------------------------------------------
(* Deadlocks *)

LEMMA NextNamed ==
    ASSUME NEW list \in Seq(Units), NEW added \in Nat, added < Len(list)
    PROVE  list[added + 1] \in Units
BY LenProperties

LEMMA UnitsAreNoViewers ==
    ASSUME NEW id, NEW unit
    PROVE  \A other : UnitRow(other) # ViewerRow(id, unit)
BY RowsDiffer

\* A call that is not the deletion of a unit waits for another such call only
\* for the row of a calendar, which is the first that it needs.
LEMMA FirstWait ==
    ASSUME CalendarInv, NEW r \in Slots, NEW q \in Slots, WaitsFor(r, q),
           call[r].op # "delete_unit", call[q].op # "delete_unit"
    PROVE  /\ call[r].at \in {"update", "delete"}
           /\ call[q].at \notin {"update", "delete"}
<1>1. PICK c \in Calling, d \in Calling :
        /\ c = call[r] /\ d = call[q] /\ CallOk(c) /\ CallOk(d) /\ Apart(c, d) /\ r # q
    BY SlotFacts DEF WaitsFor
<1>2. \A unit \in Units : UnitRow(unit) \notin d.holds
    BY <1>1 DEF CallOk, Locks
<1>3. Refers(r) \subseteq Units
    <2>1. CASE c.at = "insert"
        BY <1>1, <2>1 DEF Refers, CallOk, Stage, OpsAt
    <2>2. CASE c.at # "insert" /\ Adding(r)
        <3>1. c.list \in Seq(Units) /\ c.added \in Nat /\ c.added < Len(c.list)
            BY <1>1, <2>2 DEF Calling, Adding
        <3>2. c.list[c.added + 1] \in Units
            BY <3>1, NextNamed
        <3>3. QED
            BY <1>1, <2>2, <3>2 DEF Refers, NextViewer
    <2>3. CASE c.at # "insert" /\ ~ Adding(r)
        BY <1>1, <2>3 DEF Refers
    <2>4. QED
        BY <2>1, <2>2, <2>3
<1>4. PICK row \in Needs(r) : Keeps(q, row)
    BY <1>1, <1>2, <1>3 DEF WaitsFor
<1>5. c.at \notin {"clear", "cascade"}
    <2>1. SUFFICES ASSUME c.at \in {"clear", "cascade"} PROVE FALSE
        OBVIOUS
    <2>2. row \in ViewersOf({c.id}) /\ CalendarRow(c.id) \in c.holds /\ c.id \in Ids
        BY <1>1, <1>4, <2>1 DEF Needs, Deletes, CallOk, Stage, OpsAt, Locks
    <2>3. PICK pair \in viewers : pair[1] \in {c.id} /\ row = ViewerRow(pair[1], pair[2])
        <3>1. \A ids, w : w \in ViewersOf(ids)
                <=> \E pair \in viewers : pair[1] \in ids /\ w = ViewerRow(pair[1], pair[2])
            BY Zenon, RowsOfViewers
        <3>2. row \in ViewersOf({c.id})
                <=> \E pair \in viewers : pair[1] \in {c.id} /\ row = ViewerRow(pair[1], pair[2])
            BY Zenon, <3>1
        <3>3. QED
            BY Zenon, <2>2, <3>2
    <2>4. pair[1] \in Ids /\ pair[2] \in Units /\ pair[1] = c.id
        BY <2>3, PairFacts DEF CalendarInv
    <2>5. row \in d.holds
        <3>1. \A unit : UnitRow(unit) # ViewerRow(pair[1], pair[2])
            BY UnitsAreNoViewers
        <3>2. \A unit : row # UnitRow(unit)
            BY <2>3, <3>1
        <3>3. QED
            BY <1>1, <1>4, <3>2 DEF Keeps
    <2>6. CalendarRow(c.id) \in d.holds
        <3>1. ViewerRow(pair[1], pair[2]) \in d.holds
            BY <2>3, <2>5
        <3>2. CalendarRow(pair[1]) \in d.holds
            BY <1>1, <2>4, <3>1 DEF CallOk, Locks
        <3>3. QED
            BY <2>4, <3>2
    <2>7. QED
        BY <1>1, <2>2, <2>6 DEF Apart
<1>6. c.at \in {"update", "delete"}
    BY <1>1, <1>4, <1>5 DEF Needs, Deletes, CallOk, Stage, OpsAt, Calling
<1>7. d.at \notin {"update", "delete"}
    <2>1. row = CalendarRow(c.id)
        BY <1>1, <1>4, <1>6 DEF Needs
    <2>2. row \in d.holds
        BY <1>1, <1>4, <2>1, RowsDiffer DEF Keeps
    <2>3. QED
        BY <1>1, <2>2 DEF CallOk, Stage
<1>8. QED
    BY <1>1, <1>6, <1>7

\* Creating, updating and deleting calendars alone never deadlocks, however
\* many calls there are: who waits for a calendar's row holds nothing, and who
\* holds one never waits for it.
THEOREM CalendarCircles == Spec => []CirclesNeedUnitDeletion
<1>1. ASSUME CalendarInv, Deadlocked # {} PROVE \E r \in Deadlocked : call[r].op = "delete_unit"
    <2>1. PICK S \in SUBSET Slots :
            /\ S # {} /\ S \subseteq Deadlocked
            /\ \A r \in S : \E q \in S : WaitsFor(r, q)
        BY <1>1 DEF Deadlocked
    <2>2. SUFFICES ASSUME \A r \in S : call[r].op # "delete_unit" PROVE FALSE
        BY <2>1
    <2>3. PICK r \in S, q \in S, p \in S : WaitsFor(r, q) /\ WaitsFor(q, p)
        BY <2>1
    <2>4. r \in Slots /\ q \in Slots /\ p \in Slots
        BY <2>1, <2>3
    <2>5. call[q].at \notin {"update", "delete"}
        BY <1>1, <2>2, <2>3, <2>4, FirstWait
    <2>6. call[q].at \in {"update", "delete"}
        BY <1>1, <2>2, <2>3, <2>4, FirstWait
    <2>7. QED
        BY <2>5, <2>6
<1>2. CalendarInv => CirclesNeedUnitDeletion
    BY <1>1 DEF CirclesNeedUnitDeletion
<1>3. QED
    BY <1>2, CalendarInvariance, PTL

=============================================================================
