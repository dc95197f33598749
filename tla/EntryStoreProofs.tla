-------------------------- MODULE EntryStoreProofs --------------------------
(***************************************************************************)
(* What EntryStore guarantees for any number of calls, entries, keys and   *)
(* forms.                                                                  *)
(***************************************************************************)
EXTENDS EntryStore, FiniteSetTheorems, TLAPS

-----------------------------------------------------------------------------
(* The inductive invariant *)

EntryRows == [key : Keys, type : {"shift", "meeting"}]
Results == [row : EntryRows, full : BOOLEAN]

Calling ==
    [at : {"idle", "insert", "details", "update", "index", "delete", "lock", "fetch",
           "fetch_details", "return"},
     op : {"none", "create", "update", "delete", "lock", "get"}, on : {"pool", "tx"},
     id : 0 .. MaxEntries, key : Keys \cup {None}, form : Forms \cup {None}, open : BOOLEAN,
     row : EntryRows \cup {None}, full : BOOLEAN, result : Results \cup {None},
     overtaken : BOOLEAN]

\* The operations that take a statement.
OpsAt(at) ==
    CASE at = "idle" -> {"none"}
      [] at \in {"insert", "details"} -> {"create"}
      [] at \in {"update", "index"} -> {"update"}
      [] at = "delete" -> {"delete"}
      [] at = "lock" -> {"lock"}
      [] at \in {"fetch", "fetch_details"} -> {"create", "update", "get"}
      [] at = "return" -> {"create", "update", "get", "delete", "lock"}

Made == [Ids -> {"none", "bare", "pool", "tx"}]

\* The tables agree with each other; a shift that a transaction has made has
\* its details.
Tables ==
    /\ entries \in [Ids -> EntryRows \cup {None}]
    /\ \A id, other \in Ids :
        Exists(id) /\ Exists(other) /\ entries[id].key = entries[other].key => id = other
    /\ lastId \in 0 .. MaxEntries
    /\ made \in Made
    /\ details \subseteq Ids
    /\ \A id \in details : Exists(id) /\ entries[id].type = "shift"
    /\ \A id \in Ids : Exists(id) =>
        /\ id <= lastId /\ made[id] # "none"
        /\ made[id] \in {"pool", "tx"} => entries[id].type = "shift"
        /\ made[id] = "tx" => id \in details

\* What a call has done by the statement that it is at.
Stage(c) ==
    /\ c.op \in OpsAt(c.at)
    /\ c.at \in {"idle", "insert", "update", "delete", "lock"} => ~ c.open
    /\ c.at \in {"idle", "insert", "update", "index", "delete", "lock"} => c.row = None
    /\ c.at = "insert" => c.form \in Forms /\ c.key = c.form.key /\ c.id = 0
    /\ c.op = "update" => c.key \in Keys
    /\ c.op \notin {"none", "create"} => c.id \in Ids
    /\ c.op \in {"delete", "lock", "get"} => c.row = None
    /\ c.op = "get" => ~ c.open
    /\ c.op = "lock" => c.on = "tx"
    /\ c.op # "create" \/ c.at = "insert" => ~ c.full
    /\ c.op = "create" /\ c.at # "insert" => c.row # None
    /\ c.op = "update" /\ c.at \notin {"update", "index"} => c.row # None
    /\ c.at = "index" => c.open
    /\ c.at # "index" /\ c.open => c.on = "tx"
    /\ c.row # None => (c.open <=> c.on = "tx") /\ c.id \in 1 .. lastId
    /\ c.at = "fetch_details" => c.result \in Results
    /\ c.result # None =>
        c.at \in {"fetch_details", "return"} /\ c.op \in {"create", "update", "get"}

\* What an open call can rely on: nobody has committed its entry or taken
\* its key.
Opened(c) ==
    c.open =>
        /\ c.id \in 1 .. lastId
        /\ c.op = "create" =>
            /\ ~ Exists(c.id) /\ made[c.id] # "none"
            /\ made[c.id] = "tx" /\ c.at # "details" => c.full
            /\ made[c.id] \in {"pool", "tx"} => c.row.type = "shift"
            /\ c.full => c.row.type = "shift"
        /\ c.op # "create" => Exists(c.id)
        /\ c.op = "update" /\ c.row # None => c.row.type = entries[c.id].type
        /\ c.row # None => \A id \in Ids : Exists(id) /\ entries[id].key = c.row.key => id = c.id

InDetails(c) == c.at = "details" => made[c.id] = c.on /\ c.row.type = "shift"

Bare(c) ==
    c.at = "return" /\ c.result # None /\ c.result.row.type = "shift" /\ ~ c.result.full
    => made[c.id] \in {"bare", "pool"} \/ ~ Exists(c.id)

\* What a call has written stays until it has fetched it, unless others may
\* overtake it.
Writes(c) ==
    c.row # None =>
        /\ c.at \in {"details", "fetch"} => c.open \/ c.overtaken \/ entries[c.id] = c.row
        /\ c.at \in {"fetch_details", "return"}
            => c.result.row = c.row \/ (c.on = "pool" /\ c.overtaken)

CallOk(c) ==
    /\ Stage(c) /\ Opened(c) /\ InDetails(c) /\ Bare(c) /\ Writes(c)
    /\ c.result # None => c.id \in 1 .. lastId

\* Open calls have different entries and keys, and what has been fetched is
\* not about to appear.
Pair(c, d) ==
    /\ c.open /\ d.open => c.id # d.id
    /\ c.open /\ d.open /\ c.row # None /\ d.row # None => c.row.key # d.row.key
    /\ c.result # None /\ d.open /\ d.op = "create" => c.id # d.id
    /\ d.result # None /\ c.open /\ c.op = "create" => c.id # d.id

Inserting == {r \in Slots : call[r].at = "insert"}

Room == lastId + Cardinality(Inserting) <= MaxEntries

EntryInv ==
    /\ Tables
    /\ call \in [Slots -> Calling]
    /\ \A r \in Slots : CallOk(call[r])
    /\ \A r, q \in Slots : r # q => Pair(call[r], call[q])
    /\ Room

LEMMA SlotFacts ==
    ASSUME EntryInv, NEW r \in Slots
    PROVE  /\ call[r] \in Calling /\ CallOk(call[r])
           /\ \A q \in Slots \ {r} : Pair(call[r], call[q])
           /\ \A next : [call EXCEPT ![r] = next][r] = next
           /\ \A next : \A q \in Slots \ {r} : [call EXCEPT ![r] = next][q] = call[q]
BY DEF EntryInv

LEMMA PairSym == \A c, d : Pair(c, d) <=> Pair(d, c)
BY DEF Pair

-----------------------------------------------------------------------------
(* Room for the creates in flight *)

LEMMA InsertingFinite == IsFiniteSet(Inserting) /\ Cardinality(Inserting) \in Nat
<1>1. IsFiniteSet(Inserting)
    BY EntryAssumption, FS_Subset DEF Inserting
<1>2. QED
    BY <1>1, FS_CardinalityType

LEMMA RoomKept ==
    ASSUME EntryInv, UNCHANGED lastId, Inserting' \subseteq Inserting
    PROVE  Room'
<1>1. Cardinality(Inserting') <= Cardinality(Inserting) /\ Cardinality(Inserting') \in Nat
    BY InsertingFinite, FS_Subset, FS_CardinalityType
<1>2. QED
    BY <1>1, InsertingFinite, EntryAssumption DEF EntryInv, Room, Tables

LEMMA RoomUsed ==
    ASSUME EntryInv, NEW r \in Inserting, lastId' = lastId + 1, Inserting' = Inserting \ {r}
    PROVE  Room' /\ lastId' \in 0 .. MaxEntries
<1>1. Cardinality(Inserting') = Cardinality(Inserting) - 1 /\ Cardinality(Inserting') \in Nat
    BY InsertingFinite, FS_RemoveElement, FS_CardinalityType
<1>2. QED
    BY <1>1, InsertingFinite, EntryAssumption DEF EntryInv, Room, Tables

LEMMA RoomTaken ==
    ASSUME EntryInv, IdsLeft, UNCHANGED lastId, NEW r \in Slots,
           Inserting' \subseteq Inserting \cup {r}
    PROVE  Room'
<1>1. /\ IsFiniteSet(Inserting \cup {r})
      /\ Cardinality(Inserting \cup {r}) <= Cardinality(Inserting) + 1
    <2>1. CASE r \in Inserting
        BY <2>1, InsertingFinite, FS_AddElement
    <2>2. CASE r \notin Inserting
        BY <2>2, InsertingFinite, FS_AddElement
    <2>3. QED
        BY <2>1, <2>2
<1>2. /\ Cardinality(Inserting') <= Cardinality(Inserting \cup {r})
      /\ Cardinality(Inserting') \in Nat /\ Cardinality(Inserting \cup {r}) \in Nat
    BY <1>1, FS_Subset, FS_CardinalityType
<1>3. QED
    BY <1>1, <1>2, InsertingFinite, EntryAssumption DEF EntryInv, Room, Tables, IdsLeft, Inserting

-----------------------------------------------------------------------------
(* Steps that change no entry *)

\* The sequence and the history of how entries were made only grow.
Grows ==
    /\ lastId' \in lastId .. MaxEntries /\ made' \in Made
    /\ \A id \in 1 .. lastId : made'[id] = made[id]

LEMMA SameCall ==
    ASSUME EntryInv, UNCHANGED entries, Grows, NEW c \in Calling, CallOk(c)
    PROVE  CallOk(c)'
<1>1. lastId \in Nat /\ lastId' \in Nat /\ lastId <= lastId' /\ lastId' <= MaxEntries
    BY EntryAssumption DEF Grows, EntryInv, Tables
<1>2. \A id \in 1 .. lastId : id \in 1 .. lastId' /\ made'[id] = made[id]
    BY <1>1 DEF Grows
<1>3. Stage(c)'
    BY <1>2 DEF CallOk, Stage
<1>4. Opened(c)'
    BY <1>2 DEF CallOk, Opened, Exists
<1>5. InDetails(c)'
    BY <1>2 DEF CallOk, Stage, OpsAt, InDetails
<1>6. Bare(c)'
    BY <1>2 DEF CallOk, Bare, Exists
<1>7. Writes(c)'
    BY DEF CallOk, Writes
<1>8. QED
    BY <1>2, <1>3, <1>4, <1>5, <1>6, <1>7 DEF CallOk

\* The next state of a slot is as good as the call that it holds.
LEMMA Renamed ==
    ASSUME NEW q \in Slots, NEW c, call'[q] = c, CallOk(c)'
    PROVE  CallOk(call[q])'
<1>1. Stage(c)' => Stage(call[q])'
    BY DEF Stage
<1>2. Opened(c)' => Opened(call[q])'
    BY DEF Opened
<1>3. InDetails(c)' => InDetails(call[q])'
    BY DEF InDetails
<1>4. Bare(c)' => Bare(call[q])'
    BY DEF Bare
<1>5. Writes(c)' => Writes(call[q])'
    BY DEF Writes
<1>6. QED
    BY <1>1, <1>2, <1>3, <1>4, <1>5 DEF CallOk

\* One call goes on; at most details are added.
LEMMA Stepping ==
    ASSUME EntryInv, NEW r \in Slots, NEW next \in Calling, call' = [call EXCEPT ![r] = next],
           UNCHANGED entries, details \subseteq details', details' \subseteq Ids,
           \A id \in details' : Exists(id) /\ entries[id].type = "shift", Grows, Room',
           CallOk(next)', \A q \in Slots \ {r} : Pair(next, call[q])
    PROVE  EntryInv'
<1>1. /\ call' \in [Slots -> Calling] /\ call'[r] = next
      /\ \A q \in Slots \ {r} : call'[q] = call[q]
    BY DEF EntryInv
<1>2. Tables'
    <2>1. lastId' \in 0 .. MaxEntries /\ made' \in Made
        BY EntryAssumption DEF Grows, EntryInv, Tables
    <2>2. \A id \in Ids : id <= lastId => id <= lastId' /\ made'[id] = made[id]
        BY EntryAssumption DEF Grows, Ids, EntryInv, Tables
    <2>3. QED
        BY <2>1, <2>2 DEF EntryInv, Tables, Exists
<1>3. ASSUME NEW q \in Slots PROVE CallOk(call[q])'
    <2>1. CASE q = r
        BY <1>1, <2>1, Renamed
    <2>2. CASE q # r
        <3>1. PICK c \in Calling : c = call[q] /\ c = call'[q]
            BY <1>1, <2>2, SlotFacts
        <3>2. CallOk(c)'
            BY <3>1, SlotFacts, SameCall
        <3>3. QED
            BY <3>1, <3>2, Renamed
    <2>3. QED
        BY <2>1, <2>2
<1>4. ASSUME NEW p \in Slots, NEW q \in Slots, p # q PROVE Pair(call[p], call[q])'
    <2>1. Pair(call'[p], call'[q])
        <3>1. CASE p = r
            BY <1>1, <1>4, <3>1
        <3>2. CASE q = r
            BY <1>1, <1>4, <3>2, PairSym
        <3>3. CASE p # r /\ q # r
            BY <1>1, <1>4, <3>3 DEF EntryInv
        <3>4. QED
            BY <3>1, <3>2, <3>3
    <2>2. QED
        BY <2>1 DEF Pair
<1>5. QED
    BY <1>1, <1>2, <1>3, <1>4 DEF EntryInv

LEMMA Becoming ==
    ASSUME EntryInv, NEW r \in Slots, NEW next \in Calling, Becomes(r, next), Grows, Room',
           CallOk(next)', \A q \in Slots \ {r} : Pair(next, call[q])
    PROVE  EntryInv'
BY Stepping DEF Becomes, EntryInv, Tables

-----------------------------------------------------------------------------
(* Steps that commit an entry *)

\* e is the call d, which the commit of c may have overtaken.
Overtaken(d, e, c) ==
    /\ e.at = d.at /\ e.op = d.op /\ e.on = d.on /\ e.id = d.id /\ e.key = d.key
    /\ e.form = d.form /\ e.open = d.open /\ e.row = d.row /\ e.full = d.full
    /\ e.result = d.result
    /\ d.overtaken \/ (d.row # None /\ d.id = c.id) => e.overtaken

\* The calls of the other slots are as before, except that a call which has
\* written the entry is overtaken.
LEMMA OthersOvertaken ==
    ASSUME EntryInv, NEW r \in Slots, NEW c, NEW next \in Calling, Commits(r, c, next)
    PROVE  /\ call' \in [Slots -> Calling] /\ call'[r] = next
           /\ \A q \in Slots \ {r} : Overtaken(call[q], call'[q], c)
<1> DEFINE after(q) == [call[q] EXCEPT !.overtaken = call[q].overtaken
                                                \/ (call[q].row # None /\ call[q].id = c.id)]
<1>1. call' = [q \in Slots |-> IF q = r THEN next ELSE after(q)]
    BY DEF Commits
<1>2. ASSUME NEW q \in Slots \ {r}
      PROVE  call'[q] \in Calling /\ Overtaken(call[q], call'[q], c)
    <2>1. PICK d \in Calling : d = call[q]
        BY SlotFacts
    <2>2. PICK flag \in BOOLEAN : flag = (d.overtaken \/ (d.row # None /\ d.id = c.id))
        OBVIOUS
    <2>3. PICK e : e = [d EXCEPT !.overtaken = flag]
        OBVIOUS
    <2>4. /\ e \in Calling /\ e.overtaken = flag
          /\ e.at = d.at /\ e.op = d.op /\ e.on = d.on /\ e.id = d.id /\ e.key = d.key
          /\ e.form = d.form /\ e.open = d.open /\ e.row = d.row /\ e.full = d.full
          /\ e.result = d.result
        BY <2>3 DEF Calling
    <2>5. e = call'[q]
        BY <1>1, <2>1, <2>2, <2>3
    <2>6. Overtaken(d, e, c)
        BY <2>2, <2>4 DEF Overtaken
    <2>7. QED
        BY <2>1, <2>4, <2>5, <2>6
<1>3. call' \in [Slots -> Calling]
    BY <1>1, <1>2
<1>4. QED
    BY <1>1, <1>2, <1>3

\* What another call must not have for c to be committed.
Free(c, q) ==
    /\ call[q].open => call[q].id # c.id
    /\ c.op \in {"create", "update"} /\ call[q].open /\ call[q].row # None
       => call[q].row.key # c.row.key
    /\ c.op = "create" /\ call[q].result # None => call[q].id # c.id

\* What the tables and their history must say for c to be committed.
Committable(c) ==
    /\ c.op \in {"create", "update", "delete"} /\ c.id \in 1 .. lastId'
    /\ c.op \in {"create", "update"} =>
        /\ c.row \in EntryRows
        /\ \A id \in Ids : Exists(id) /\ entries[id].key = c.row.key => id = c.id
    /\ c.op = "create" =>
        /\ ~ Exists(c.id) /\ made'[c.id] # "none"
        /\ made'[c.id] \in {"pool", "tx"} \/ c.full => c.row.type = "shift"
        /\ made'[c.id] = "tx" => c.full
    /\ c.op = "update" => Exists(c.id) /\ ~ c.full /\ c.row.type = entries[c.id].type

LEMMA CommitsTables ==
    ASSUME EntryInv, NEW c, Committable(c), Grows,
           entries' = [entries EXCEPT ![c.id] = IF c.op = "delete" THEN None ELSE c.row],
           details' = IF c.op = "delete" THEN details \ {c.id}
                      ELSE IF c.full THEN details \cup {c.id} ELSE details
    PROVE  Tables' /\ c.id \in Ids
<1>1. /\ lastId \in Nat /\ lastId' \in Nat /\ lastId <= lastId' /\ lastId' <= MaxEntries
      /\ lastId' \in 0 .. MaxEntries /\ made' \in Made
    BY EntryAssumption DEF Grows, EntryInv, Tables
<1>2. Tables /\ None \notin EntryRows
    BY EntryAssumption DEF EntryInv, EntryRows
<1>3. c.id \in Ids /\ c.id <= lastId'
    BY <1>1, EntryAssumption DEF Committable, Ids
<1>4. \A id \in Ids : id # c.id => entries'[id] = entries[id]
    BY <1>2 DEF Tables
<1>5. entries'[c.id] = IF c.op = "delete" THEN None ELSE c.row
    BY <1>2, <1>3 DEF Tables
<1>6. entries'[c.id] \in EntryRows \cup {None}
    BY <1>5 DEF Committable
<1>7. entries' \in [Ids -> EntryRows \cup {None}]
    BY <1>2, <1>6, <1>3, <1>5 DEF Tables
<1>8. ASSUME NEW id \in Ids, NEW other \in Ids, entries'[id] # None, entries'[other] # None,
             entries'[id].key = entries'[other].key
      PROVE  id = other
    <2>1. CASE id # c.id /\ other # c.id
        BY <1>2, <1>4, <1>8, <2>1 DEF Tables, Exists
    <2>2. CASE c.op = "delete"
        BY <1>2, <1>4, <1>5, <1>8, <2>2 DEF Tables, Exists
    <2>3. CASE c.op # "delete" /\ (id = c.id \/ other = c.id)
        BY <1>4, <1>5, <1>8, <2>3 DEF Committable, Exists
    <2>4. QED
        BY <2>1, <2>2, <2>3
<1>9. ASSUME NEW id \in details'
      PROVE  entries'[id] # None /\ entries'[id].type = "shift" /\ id \in Ids
    <2>1. CASE id # c.id
        <3>1. id \in details
            BY <1>9, <2>1
        <3>2. QED
            BY <1>2, <1>4, <2>1, <3>1 DEF Tables, Exists
    <2>2. CASE id = c.id
        <3>1. c.op # "delete"
            BY <1>9, <2>2
        <3>2. CASE c.full
            BY <1>2, <1>3, <1>5, <2>2, <3>1, <3>2 DEF Committable
        <3>3. CASE ~ c.full
            <4>1. id \in details
                BY <1>9, <3>1, <3>3
            <4>2. QED
                BY <1>2, <1>3, <1>5, <2>2, <3>1, <4>1 DEF Committable, Tables, Exists
        <3>4. QED
            BY <3>2, <3>3
    <2>3. QED
        BY <2>1, <2>2
<1>10. ASSUME NEW id \in Ids, entries'[id] # None
       PROVE  /\ id <= lastId' /\ made'[id] # "none"
              /\ made'[id] \in {"pool", "tx"} => entries'[id].type = "shift"
              /\ made'[id] = "tx" => id \in details'
    <2>1. CASE id # c.id
        <3>1. /\ id <= lastId
              /\ made[id] \in {"pool", "tx"} => entries[id].type = "shift"
              /\ made[id] # "none"
              /\ made[id] = "tx" => id \in details
            BY <1>2, <1>4, <1>10, <2>1 DEF Tables, Exists
        <3>2. made'[id] = made[id] /\ id <= lastId'
            BY <1>1, <3>1 DEF Grows, Ids
        <3>3. QED
            BY <1>4, <2>1, <3>1, <3>2
    <2>2. CASE id = c.id /\ c.op = "create"
        BY <1>3, <1>5, <2>2 DEF Committable
    <2>3. CASE id = c.id /\ c.op = "update"
        <3>1. /\ id <= lastId
              /\ made[id] \in {"pool", "tx"} => entries[id].type = "shift"
              /\ made[id] # "none"
              /\ made[id] = "tx" => id \in details
            BY <1>2, <2>3 DEF Tables, Exists, Committable
        <3>2. made'[id] = made[id]
            BY <1>1, <3>1 DEF Grows, Ids
        <3>3. QED
            BY <1>3, <1>5, <2>3, <3>1, <3>2 DEF Committable
    <2>4. QED
        BY <1>5, <1>10, <2>1, <2>2, <2>3 DEF Committable
<1>11. details' \subseteq Ids
    BY <1>9
<1>12. QED
    BY <1>1, <1>3, <1>7, <1>8, <1>9, <1>10, <1>11 DEF Tables, Exists

LEMMA OvertakenCall ==
    ASSUME EntryInv, NEW c, Committable(c), Grows,
           entries' = [entries EXCEPT ![c.id] = IF c.op = "delete" THEN None ELSE c.row],
           NEW q \in Slots, Free(c, q), NEW e \in Calling,
           NEW d \in Calling, d = call[q], Overtaken(d, e, c)
    PROVE  CallOk(e)'
<1>1. lastId \in Nat /\ lastId' \in Nat /\ lastId <= lastId' /\ lastId' <= MaxEntries
    BY EntryAssumption DEF Grows, EntryInv, Tables
<1>2. \A id \in 1 .. lastId : id \in 1 .. lastId' /\ id \in Ids /\ made'[id] = made[id]
    BY <1>1, EntryAssumption DEF Grows, Ids
<1>3. CallOk(d)
    BY SlotFacts
<1>4. /\ e.at = d.at /\ e.op = d.op /\ e.on = d.on /\ e.id = d.id /\ e.key = d.key
      /\ e.form = d.form /\ e.open = d.open /\ e.row = d.row /\ e.full = d.full
      /\ e.result = d.result
    BY DEF Overtaken
<1>5. (d.overtaken => e.overtaken) /\ (d.row # None /\ d.id = c.id => e.overtaken)
    BY DEF Overtaken
<1>6. c.id \in Ids /\ \A id \in Ids : id # c.id => entries'[id] = entries[id]
    BY <1>1, EntryAssumption DEF Committable, Ids, EntryInv, Tables
<1>7. entries'[c.id] = IF c.op = "delete" THEN None ELSE c.row
    BY <1>6 DEF EntryInv, Tables
<1>8. Stage(e)'
    <2>1. Stage(d)
        BY <1>3 DEF CallOk
    <2>2. e.row # None => (e.open <=> e.on = "tx") /\ e.id \in 1 .. lastId'
        BY <1>2, <1>4, <2>1 DEF Stage
    <2>3. e.op \in OpsAt(e.at)
        BY <1>4, <2>1 DEF Stage
    <2>4. /\ e.at \in {"idle", "insert", "update", "delete", "lock"} => ~ e.open
          /\ e.op = "get" => ~ e.open
          /\ e.at = "index" => e.open
          /\ e.at # "index" /\ e.open => e.on = "tx"
          /\ e.op # "create" \/ e.at = "insert" => ~ e.full
        BY <1>4, <2>1 DEF Stage
    <2>5. /\ e.at = "insert" => e.form \in Forms /\ e.key = e.form.key /\ e.id = 0
          /\ e.op = "update" => e.key \in Keys
          /\ e.op \notin {"none", "create"} => e.id \in Ids
          /\ e.op = "lock" => e.on = "tx"
        BY <1>4, <2>1 DEF Stage
    <2>6. /\ e.at \in {"idle", "insert", "update", "index", "delete", "lock"} => e.row = None
          /\ e.op \in {"delete", "lock", "get"} => e.row = None
          /\ e.op = "create" /\ e.at # "insert" => e.row # None
          /\ e.op = "update" /\ e.at \notin {"update", "index"} => e.row # None
        BY <1>4, <2>1 DEF Stage
    <2>7. /\ e.at = "fetch_details" => e.result \in Results
          /\ e.result # None =>
                e.at \in {"fetch_details", "return"} /\ e.op \in {"create", "update", "get"}
        BY <1>4, <2>1 DEF Stage
    <2>8. QED
        BY <2>2, <2>3, <2>4, <2>5, <2>6, <2>7 DEF Stage
<1>9. Opened(e)'
    <2>1. SUFFICES ASSUME d.open PROVE Opened(e)'
        BY <1>4 DEF Opened
    <2>2. Opened(d) /\ d.id # c.id
        BY <1>3, <2>1 DEF CallOk, Free
    <2>3. d.id \in 1 .. lastId
        BY <2>1, <2>2 DEF Opened
    <2>4. entries'[d.id] = entries[d.id] /\ made'[d.id] = made[d.id] /\ d.id \in 1 .. lastId'
        BY <1>2, <1>6, <2>2, <2>3
    <2>5. ASSUME d.row # None, NEW id \in Ids, entries'[id] # None, entries'[id].key = d.row.key
          PROVE  id = d.id
        <3>1. CASE id = c.id
            BY <1>7, <2>1, <2>5, <3>1 DEF Free, Committable
        <3>2. CASE id # c.id
            BY <1>6, <2>1, <2>2, <2>5, <3>2 DEF Opened, Exists
        <3>3. QED
            BY <3>1, <3>2
    <2>6. QED
        BY <1>4, <2>1, <2>2, <2>3, <2>4, <2>5 DEF Opened, Exists
<1>10. InDetails(e)'
    BY <1>2, <1>3, <1>4 DEF CallOk, Stage, OpsAt, InDetails
<1>11. Bare(e)'
    <2>1. SUFFICES ASSUME d.at = "return", d.result # None, d.result.row.type = "shift",
                          ~ d.result.full
                   PROVE  made'[d.id] \in {"bare", "pool"} \/ entries'[d.id] = None
        BY <1>4 DEF Bare, Exists
    <2>2. d.id \in 1 .. lastId /\ (made[d.id] \in {"bare", "pool"} \/ ~ Exists(d.id))
        BY <1>3, <2>1 DEF CallOk, Bare
    <2>3. CASE made[d.id] \in {"bare", "pool"}
        BY <1>2, <2>2, <2>3
    <2>4. CASE ~ Exists(d.id) /\ d.id # c.id
        BY <1>2, <1>6, <2>2, <2>4 DEF Exists
    <2>5. CASE ~ Exists(d.id) /\ d.id = c.id
        BY <1>7, <2>1, <2>5 DEF Committable, Free
    <2>6. QED
        BY <2>2, <2>3, <2>4, <2>5
<1>12. Writes(e)'
    <2>1. SUFFICES ASSUME d.row # None
                   PROVE  /\ d.at \in {"details", "fetch"}
                             => d.open \/ e.overtaken \/ entries'[d.id] = d.row
                          /\ d.at \in {"fetch_details", "return"}
                             => d.result.row = d.row \/ (d.on = "pool" /\ e.overtaken)
        BY <1>4 DEF Writes
    <2>2. Writes(d) /\ d.id \in 1 .. lastId
        BY <1>3, <2>1 DEF CallOk, Stage
    <2>3. d.id = c.id \/ entries'[d.id] = entries[d.id]
        BY <1>2, <1>6, <2>2
    <2>4. QED
        BY <1>5, <2>1, <2>2, <2>3 DEF Writes
<1>13. d.result # None => d.id \in 1 .. lastId'
    BY <1>2, <1>3 DEF CallOk
<1>14. QED
    BY <1>4, <1>8, <1>9, <1>10, <1>11, <1>12, <1>13 DEF CallOk

\* A call commits its entry and goes on.
LEMMA Committing ==
    ASSUME EntryInv, NEW r \in Slots, NEW c, NEW next \in Calling, Commits(r, c, next),
           Committable(c), Grows, Room', \A q \in Slots \ {r} : Free(c, q),
           CallOk(next)', \A q \in Slots \ {r} : Pair(next, call[q])
    PROVE  EntryInv'
<1>1. /\ entries' = [entries EXCEPT ![c.id] = IF c.op = "delete" THEN None ELSE c.row]
      /\ details' = IF c.op = "delete" THEN details \ {c.id}
                    ELSE IF c.full THEN details \cup {c.id} ELSE details
    BY DEF Commits
<1>2. Tables'
    BY <1>1, CommitsTables
<1>3. /\ call' \in [Slots -> Calling] /\ call'[r] = next
      /\ \A q \in Slots \ {r} : Overtaken(call[q], call'[q], c)
    BY OthersOvertaken
<1>4. ASSUME NEW q \in Slots PROVE CallOk(call[q])'
    <2>1. CASE q = r
        BY <1>3, <2>1, Renamed
    <2>2. CASE q # r
        <3>1. PICK d \in Calling, e \in Calling :
                d = call[q] /\ e = call'[q] /\ Overtaken(d, e, c)
            BY <1>3, <2>2, SlotFacts
        <3>2. CallOk(e)'
            BY <1>1, <2>2, <3>1, OvertakenCall
        <3>3. QED
            BY <3>1, <3>2, Renamed
    <2>3. QED
        BY <2>1, <2>2
<1>5. ASSUME NEW q \in Slots \ {r}
      PROVE  /\ call'[q].open = call[q].open /\ call'[q].op = call[q].op
             /\ call'[q].row = call[q].row /\ call'[q].result = call[q].result
             /\ call'[q].id = call[q].id
    BY <1>3 DEF Overtaken
<1>6. ASSUME NEW p \in Slots, NEW q \in Slots, p # q PROVE Pair(call[p], call[q])'
    <2>1. Pair(call'[p], call'[q])
        <3>1. CASE p = r
            BY <1>3, <1>5, <1>6, <3>1 DEF Pair
        <3>2. CASE q = r
            BY <1>3, <1>5, <1>6, <3>2, PairSym DEF Pair
        <3>3. CASE p # r /\ q # r
            BY <1>5, <1>6, <3>3 DEF EntryInv, Pair
        <3>4. QED
            BY <3>1, <3>2, <3>3
    <2>2. QED
        BY <2>1 DEF Pair
<1>7. QED
    BY <1>2, <1>3, <1>4, <1>6 DEF EntryInv

-----------------------------------------------------------------------------
(* Calls that begin, go on within their transaction, or end *)

LEMMA IdleOk ==
    ASSUME NEW c, c = Idle
    PROVE  c \in Calling /\ c.at = "idle" /\ CallOk(c) /\ CallOk(c)' /\ \A d : Pair(c, d)
<1>1. c \in Calling
    BY EntryAssumption DEF Idle, Calling
<1>2. /\ c.at = "idle" /\ c.op = "none" /\ c.open = FALSE /\ c.row = None /\ c.full = FALSE
      /\ c.result = None
    BY DEF Idle
<1>3. CallOk(c)
    BY <1>2 DEF CallOk, Stage, OpsAt, Opened, InDetails, Bare, Writes
<1>4. CallOk(c)'
    BY <1>2 DEF CallOk, Stage, OpsAt, Opened, InDetails, Bare, Writes
<1>5. \A d : Pair(c, d)
    BY <1>2 DEF Pair
<1>6. QED
    BY <1>1, <1>2, <1>3, <1>4, <1>5

\* A call goes on while the tables and the sequence stay as they are.
LEMMA GoesOn ==
    ASSUME EntryInv, NEW r \in Slots, NEW next \in Calling, Becomes(r, next),
           UNCHANGED <<lastId, made>>, next.at # "insert", CallOk(next),
           \A q \in Slots \ {r} : Pair(next, call[q])
    PROVE  EntryInv'
<1>1. Grows
    BY EntryAssumption DEF Grows, EntryInv, Tables
<1>2. UNCHANGED <<entries, details>>
    BY DEF Becomes
<1>3. CallOk(next)'
    BY <1>1, <1>2, SameCall
<1>4. Inserting' \subseteq Inserting
    BY DEF Inserting, Becomes, EntryInv
<1>5. Room'
    BY <1>4, RoomKept
<1>6. QED
    BY <1>1, <1>3, <1>5, Becoming

LEMMA EndsIdle ==
    ASSUME EntryInv, NEW r \in Slots, Becomes(r, Idle), UNCHANGED <<lastId, made>>
    PROVE  EntryInv'
<1>1. PICK next \in Calling :
        /\ next = Idle /\ next.at = "idle" /\ CallOk(next) /\ \A d : Pair(next, d)
    BY IdleOk
<1>2. Becomes(r, next)
    BY <1>1
<1>3. QED
    BY <1>1, <1>2, GoesOn

LEMMA FailsInv ==
    ASSUME EntryInv, NEW r \in Slots, Fault(r) \/ AbortDeadlocked(r)
    PROVE  EntryInv'
BY EndsIdle DEF Fault, AbortDeadlocked

\* A call that begins has written and locked nothing.
Fresh(c, at, op) ==
    /\ c.at = at /\ c.op = op /\ ~ c.open /\ c.row = None /\ ~ c.full /\ c.result = None

LEMMA FreshOk ==
    ASSUME NEW c,
           \/ Fresh(c, "insert", "create") /\ c.form \in Forms /\ c.key = c.form.key /\ c.id = 0
           \/ Fresh(c, "update", "update") /\ c.id \in Ids /\ c.key \in Keys
           \/ Fresh(c, "delete", "delete") /\ c.id \in Ids
           \/ Fresh(c, "lock", "lock") /\ c.id \in Ids /\ c.on = "tx"
           \/ Fresh(c, "fetch", "get") /\ c.id \in Ids
    PROVE  CallOk(c) /\ \A d : Pair(c, d)
<1>1. ~ c.open /\ c.row = None /\ ~ c.full /\ c.result = None
    BY DEF Fresh
<1>2. c.op \in OpsAt(c.at)
    BY DEF OpsAt, Fresh
<1>3. Stage(c)
    BY <1>1, <1>2 DEF Stage, Fresh
<1>4. Opened(c) /\ InDetails(c) /\ Bare(c) /\ Writes(c)
    BY <1>1 DEF Opened, InDetails, Bare, Writes, Fresh
<1>5. \A d : Pair(c, d)
    BY <1>1 DEF Pair
<1>6. QED
    BY <1>1, <1>3, <1>4, <1>5 DEF CallOk

LEMMA StartInv ==
    ASSUME EntryInv, NEW r \in Slots, NEW started \in Calling, Start(r, started), CallOk(started),
           \A d : Pair(started, d), started.at = "insert" => IdsLeft
    PROVE  EntryInv'
<1>1. Grows
    BY EntryAssumption DEF Grows, EntryInv, Tables, Start, tables
<1>2. UNCHANGED <<entries, details, lastId>>
    BY DEF Start, tables
<1>3. CallOk(started)'
    BY <1>1, <1>2, SameCall
<1>4. Becomes(r, started)
    BY <1>2 DEF Start, Becomes
<1>5. Room'
    <2>1. CASE started.at = "insert"
        <3>1. Inserting' \subseteq Inserting \cup {r}
            BY <1>4 DEF Inserting, Becomes, EntryInv
        <3>2. QED
            BY <1>2, <2>1, <3>1, RoomTaken
    <2>2. CASE started.at # "insert"
        <3>1. Inserting' \subseteq Inserting
            BY <1>4, <2>2 DEF Inserting, Becomes, EntryInv
        <3>2. QED
            BY <1>2, <3>1, RoomKept
    <2>3. QED
        BY <2>1, <2>2
<1>6. QED
    BY <1>1, <1>3, <1>4, <1>5, Becoming

LEMMA CallsInv ==
    ASSUME EntryInv, NEW r \in Slots,
           \/ \E on \in {"pool", "tx"} :
                \/ \E form \in Forms : CreateEntry(r, on, form)
                \/ \E id \in Ids :
                    \/ \E key \in Keys : UpdateEntry(r, on, id, key)
                    \/ DeleteEntry(r, on, id)
           \/ \E id \in Ids : GetEntryForUpdate(r, id) \/ GetEntryByID(r, id)
    PROVE  EntryInv'
<1>1. Ids \subseteq 0 .. MaxEntries
    BY EntryAssumption DEF Ids
<1>2. ASSUME NEW on \in {"pool", "tx"}, NEW form \in Forms, CreateEntry(r, on, form)
      PROVE  EntryInv'
    <2>1. PICK c : c = [Idle EXCEPT !.at = "insert", !.op = "create", !.on = on, !.form = form,
                                    !.key = form.key]
        OBVIOUS
    <2>2. form.key \in Keys /\ 0 \in 0 .. MaxEntries
        BY EntryAssumption
    <2>3. /\ c \in Calling /\ Fresh(c, "insert", "create") /\ c.form = form /\ c.key = form.key
          /\ c.id = 0
        BY <2>1, <2>2 DEF Idle, Calling, Fresh
    <2>4. CallOk(c) /\ \A d : Pair(c, d)
        BY <2>3, FreshOk
    <2>5. Start(r, c) /\ IdsLeft
        BY <1>2, <2>1 DEF CreateEntry
    <2>6. QED
        BY <2>3, <2>4, <2>5, StartInv
<1>3. ASSUME NEW on \in {"pool", "tx"}, NEW id \in Ids, NEW key \in Keys,
             UpdateEntry(r, on, id, key)
      PROVE  EntryInv'
    <2>1. PICK c : c = [Idle EXCEPT !.at = "update", !.op = "update", !.on = on, !.id = id,
                                    !.key = key]
        OBVIOUS
    <2>2. c \in Calling /\ Fresh(c, "update", "update") /\ c.id = id /\ c.key = key
        BY <1>1, <2>1, EntryAssumption DEF Idle, Calling, Fresh
    <2>3. CallOk(c) /\ \A d : Pair(c, d)
        BY <2>2, FreshOk
    <2>4. Start(r, c)
        BY <1>3, <2>1 DEF UpdateEntry
    <2>5. QED
        BY <2>2, <2>3, <2>4, StartInv DEF Fresh
<1>4. ASSUME NEW on \in {"pool", "tx"}, NEW id \in Ids, DeleteEntry(r, on, id)
      PROVE  EntryInv'
    <2>1. PICK c : c = [Idle EXCEPT !.at = "delete", !.op = "delete", !.on = on, !.id = id]
        OBVIOUS
    <2>2. c \in Calling /\ Fresh(c, "delete", "delete") /\ c.id = id
        BY <1>1, <2>1, EntryAssumption DEF Idle, Calling, Fresh
    <2>3. CallOk(c) /\ \A d : Pair(c, d)
        BY <2>2, FreshOk
    <2>4. Start(r, c)
        BY <1>4, <2>1 DEF DeleteEntry
    <2>5. QED
        BY <2>2, <2>3, <2>4, StartInv DEF Fresh
<1>5. ASSUME NEW id \in Ids, GetEntryForUpdate(r, id)
      PROVE  EntryInv'
    <2>1. PICK c : c = [Idle EXCEPT !.at = "lock", !.op = "lock", !.on = "tx", !.id = id]
        OBVIOUS
    <2>2. c \in Calling /\ Fresh(c, "lock", "lock") /\ c.id = id /\ c.on = "tx"
        BY <1>1, <2>1, EntryAssumption DEF Idle, Calling, Fresh
    <2>3. CallOk(c) /\ \A d : Pair(c, d)
        BY <2>2, FreshOk
    <2>4. Start(r, c)
        BY <1>5, <2>1 DEF GetEntryForUpdate
    <2>5. QED
        BY <2>2, <2>3, <2>4, StartInv DEF Fresh
<1>6. ASSUME NEW id \in Ids, GetEntryByID(r, id)
      PROVE  EntryInv'
    <2>1. PICK c : c = [Idle EXCEPT !.at = "fetch", !.op = "get", !.id = id]
        OBVIOUS
    <2>2. c \in Calling /\ Fresh(c, "fetch", "get") /\ c.id = id
        BY <1>1, <2>1, EntryAssumption DEF Idle, Calling, Fresh
    <2>3. CallOk(c) /\ \A d : Pair(c, d)
        BY <2>2, FreshOk
    <2>4. Start(r, c)
        BY <1>6, <2>1 DEF GetEntryByID
    <2>5. QED
        BY <2>2, <2>3, <2>4, StartInv DEF Fresh
<1>7. QED
    BY <1>2, <1>3, <1>4, <1>5, <1>6

-----------------------------------------------------------------------------
(* The statements *)

\* What a call knows of the others when it need not wait.
LEMMA NotWaiting ==
    ASSUME NEW r \in Slots, ~ Waits(r), NEW q \in Slots \ {r}
    PROVE  /\ call[r].at \in {"update", "delete", "lock"} => ~ Holds(q, call[r].id)
           /\ call[r].at \in {"insert", "index"} => ~ Puts(q, call[r].key)
BY DEF Waits, WaitsFor

LEMMA LockForUpdateInv ==
    ASSUME EntryInv, NEW r \in Slots, LockForUpdate(r)
    PROVE  EntryInv'
<1>1. CASE ~ Exists(call[r].id)
    BY <1>1, EndsIdle DEF LockForUpdate
<1>2. CASE Exists(call[r].id)
    <2>1. PICK c \in Calling : c = call[r]
        BY SlotFacts
    <2>2. PICK next : next = [c EXCEPT !.at = "index", !.open = TRUE]
        OBVIOUS
    <2>3. /\ c.at = "update" /\ ~ Waits(r) /\ Becomes(r, next) /\ UNCHANGED <<lastId, made>>
        BY <1>2, <2>1, <2>2 DEF LockForUpdate
    <2>4. /\ next \in Calling /\ next.at = "index" /\ next.open /\ next.op = c.op /\ next.on = c.on
          /\ next.id = c.id /\ next.key = c.key /\ next.row = c.row /\ next.full = c.full
          /\ next.result = c.result
        BY <2>2 DEF Calling
    <2>5. Stage(c) /\ c.op = "update"
        BY <2>1, <2>3, SlotFacts DEF CallOk, Stage, OpsAt
    <2>6. c.row = None /\ c.result = None /\ ~ c.full /\ c.key \in Keys /\ c.id \in Ids
        BY <2>3, <2>5 DEF Stage
    <2>7. c.id \in 1 .. lastId
        BY <1>2, <2>1, <2>6, EntryAssumption DEF EntryInv, Tables, Ids
    <2>8. CallOk(next)
        <3>1. next.op \in OpsAt(next.at)
            BY <2>4, <2>5 DEF OpsAt
        <3>2. Stage(next)
            BY <2>4, <2>5, <2>6, <3>1 DEF Stage
        <3>3. Opened(next)
            BY <1>2, <2>1, <2>4, <2>5, <2>6, <2>7 DEF Opened
        <3>4. InDetails(next) /\ Bare(next) /\ Writes(next)
            BY <2>4, <2>6 DEF InDetails, Bare, Writes
        <3>5. QED
            BY <2>4, <2>6, <3>2, <3>3, <3>4 DEF CallOk
    <2>9. ASSUME NEW q \in Slots \ {r} PROVE Pair(next, call[q])
        BY <2>1, <2>3, <2>4, <2>5, <2>6, NotWaiting DEF Holds, Pair
    <2>10. QED
        BY <2>3, <2>4, <2>8, <2>9, GoesOn
<1>3. QED
    BY <1>1, <1>2

\* next is c when it has locked its entry.
Locks(c, next) ==
    /\ next.at = "return" /\ next.open /\ next.op = c.op /\ next.on = c.on /\ next.id = c.id
    /\ next.row = c.row /\ next.full = c.full /\ next.result = c.result

\* A call that has locked its entry, and has deleted it or does no more.
LEMMA LockedOk ==
    ASSUME EntryInv, NEW r \in Slots, NEW c \in Calling, c = call[r], c.at \in {"delete", "lock"},
           Exists(c.id), ~ Waits(r),
           NEW next, Locks(c, next)
    PROVE  /\ next.at = "return" /\ next.open /\ next.op = c.op
           /\ next.on = c.on /\ next.id = c.id /\ next.row = None /\ ~ next.full
           /\ next.result = None /\ c.id \in 1 .. lastId /\ c.op = c.at /\ c.id \in Ids
           /\ c.on = "tx" => CallOk(next)
           /\ \A q \in Slots \ {r} : Pair(next, call[q]) /\ (call[q].open => call[q].id # c.id)
<1>1. Stage(c) /\ c.op = c.at
    BY SlotFacts DEF CallOk, Stage, OpsAt
<1>2. c.row = None /\ c.result = None /\ ~ c.full /\ c.id \in Ids
    BY <1>1 DEF Stage
<1>3. c.id \in 1 .. lastId
    BY <1>2, EntryAssumption DEF EntryInv, Tables, Ids
<1>4. /\ next.at = "return" /\ next.open /\ next.op = c.op /\ next.on = c.on /\ next.id = c.id
      /\ next.row = None /\ ~ next.full /\ next.result = None
    BY <1>2 DEF Locks
<1>5. ASSUME c.on = "tx" PROVE CallOk(next)
    <2>1. next.op \in OpsAt(next.at)
        BY <1>1, <1>4 DEF OpsAt
    <2>2. Stage(next)
        BY <1>1, <1>2, <1>4, <1>5, <2>1 DEF Stage
    <2>3. Opened(next)
        BY <1>1, <1>3, <1>4 DEF Opened
    <2>4. InDetails(next) /\ Bare(next) /\ Writes(next)
        BY <1>4 DEF InDetails, Bare, Writes
    <2>5. QED
        BY <1>4, <2>2, <2>3, <2>4 DEF CallOk
<1>6. ASSUME NEW q \in Slots \ {r}
      PROVE  Pair(next, call[q]) /\ (call[q].open => call[q].id # c.id)
    BY <1>1, <1>4, NotWaiting DEF Holds, Pair
<1>7. QED
    BY <1>1, <1>2, <1>3, <1>4, <1>5, <1>6

LEMMA LockRowInv ==
    ASSUME EntryInv, NEW r \in Slots, LockRow(r)
    PROVE  EntryInv'
<1>1. CASE ~ Exists(call[r].id)
    BY <1>1, EndsIdle DEF LockRow
<1>2. CASE Exists(call[r].id)
    <2>1. PICK c \in Calling : c = call[r]
        BY SlotFacts
    <2>2. PICK next : next = [c EXCEPT !.at = "return", !.open = TRUE]
        OBVIOUS
    <2>3. /\ c.at = "lock" /\ ~ Waits(r) /\ Becomes(r, next) /\ UNCHANGED <<lastId, made>>
          /\ Exists(c.id) /\ c.at \in {"delete", "lock"}
        BY <1>2, <2>1, <2>2 DEF LockRow
    <2>4. next \in Calling /\ Locks(c, next)
        BY <2>2 DEF Calling, Locks
    <2>5. /\ next.at = "return" /\ CallOk(next)
          /\ \A q \in Slots \ {r} : Pair(next, call[q])
        <3>1. c.op = "lock" /\ c.on = "tx"
            BY <2>1, <2>3, SlotFacts DEF CallOk, Stage, OpsAt
        <3>2. QED
            BY <2>1, <2>3, <2>4, <3>1, LockedOk
    <2>6. QED
        BY <2>3, <2>4, <2>5, GoesOn
<1>3. QED
    BY <1>1, <1>2

LEMMA DeleteRowInv ==
    ASSUME EntryInv, NEW r \in Slots, DeleteRow(r)
    PROVE  EntryInv'
<1>1. CASE ~ Exists(call[r].id)
    BY <1>1, EndsIdle DEF DeleteRow
<1>2. CASE Exists(call[r].id)
    <2>1. PICK c \in Calling : c = call[r]
        BY SlotFacts
    <2>2. PICK gone : gone = [c EXCEPT !.at = "return", !.open = TRUE]
        OBVIOUS
    <2>3. /\ c.at = "delete" /\ ~ Waits(r) /\ Ends(r, gone) /\ UNCHANGED <<lastId, made>>
          /\ Exists(c.id) /\ c.at \in {"delete", "lock"}
        BY <1>2, <2>1, <2>2 DEF DeleteRow
    <2>4. gone \in Calling /\ Locks(c, gone)
        BY <2>2 DEF Calling, Locks
    <2>5. /\ gone.at = "return" /\ gone.op = "delete" /\ gone.on = c.on
          /\ gone.id = c.id /\ gone.row = None /\ ~ gone.full /\ gone.result = None
          /\ c.id \in 1 .. lastId /\ c.id \in Ids
          /\ c.on = "tx" => CallOk(gone)
          /\ \A q \in Slots \ {r} : Pair(gone, call[q]) /\ (call[q].open => call[q].id # c.id)
        BY <2>1, <2>3, <2>4, LockedOk
    <2>6. CASE c.on = "tx"
        <3>1. Becomes(r, gone)
            BY <2>1, <2>3, <2>6 DEF Ends
        <3>2. QED
            BY <2>3, <2>4, <2>5, <2>6, <3>1, GoesOn
    <2>7. CASE c.on # "tx"
        <3>1. PICK next : next = [gone EXCEPT !.open = FALSE]
            OBVIOUS
        <3>2. Commits(r, gone, next)
            BY <2>1, <2>3, <2>7, <3>1 DEF Ends, Calling
        <3>3. /\ next \in Calling /\ next.at = "return" /\ next.op = "delete" /\ ~ next.open
              /\ next.id = c.id /\ next.row = None /\ ~ next.full /\ next.result = None
            BY <2>4, <2>5, <3>1 DEF Calling
        <3>4. Committable(gone) /\ Grows
            BY <2>3, <2>5, EntryAssumption DEF Committable, Grows, EntryInv, Tables
        <3>5. \A q \in Slots \ {r} : Free(gone, q) /\ Pair(next, call[q])
            BY <2>5, <3>3 DEF Free, Pair
        <3>6. CallOk(next)'
            <4>1. next.op \in OpsAt(next.at)
                BY <3>3 DEF OpsAt
            <4>2. Stage(next)'
                BY <2>5, <3>3, <4>1 DEF Stage
            <4>3. Opened(next)' /\ InDetails(next)' /\ Bare(next)' /\ Writes(next)'
                BY <3>3 DEF Opened, InDetails, Bare, Writes
            <4>4. QED
                BY <3>3, <4>2, <4>3 DEF CallOk
        <3>7. Room'
            <4>1. Inserting' \subseteq Inserting
                BY <3>2, <3>3, OthersOvertaken DEF Inserting, Overtaken
            <4>2. QED
                BY <2>3, <4>1, RoomKept
        <3>8. QED
            BY <3>2, <3>3, <3>4, <3>5, <3>6, <3>7, Committing
    <2>8. QED
        BY <2>6, <2>7
<1>3. QED
    BY <1>1, <1>2

\* next is c when it has its details.
Detailed(c, next, full) ==
    /\ next.at = "fetch" /\ next.op = c.op /\ next.on = c.on /\ next.id = c.id
    /\ next.open = c.open /\ next.row = c.row /\ next.full = full /\ next.result = c.result
    /\ next.overtaken = c.overtaken

LEMMA InsertDetailsInv ==
    ASSUME EntryInv, NEW r \in Slots, InsertDetails(r)
    PROVE  EntryInv'
<1>1. PICK c \in Calling : c = call[r]
    BY SlotFacts
<1>2. c.at = "details" /\ UNCHANGED <<lastId, made>>
    BY <1>1 DEF InsertDetails
<1>3. CallOk(c) /\ c.op = "create"
    BY <1>1, <1>2, SlotFacts DEF CallOk, Stage, OpsAt
<1>4. /\ c.row # None /\ c.row.type = "shift" /\ made[c.id] = c.on /\ c.result = None
      /\ c.id \in 1 .. lastId /\ (c.open <=> c.on = "tx")
    BY <1>2, <1>3 DEF CallOk, Stage, InDetails
<1>5. ASSUME NEW full \in BOOLEAN, NEW next \in Calling, Detailed(c, next, full),
             c.on = "tx" => full
      PROVE  CallOk(next) /\ \A q \in Slots \ {r} : Pair(next, call[q])
    <2>1. next.op \in OpsAt(next.at)
        BY <1>3, <1>5 DEF OpsAt, Detailed
    <2>2. Stage(next)
        BY <1>3, <1>4, <1>5, <2>1 DEF Stage, Detailed
    <2>3. Opened(next)
        BY <1>3, <1>4, <1>5 DEF CallOk, Opened, Detailed
    <2>4. Writes(next)
        BY <1>2, <1>3, <1>5 DEF CallOk, Writes, Detailed
    <2>5. InDetails(next) /\ Bare(next) /\ next.result = None
        BY <1>4, <1>5 DEF InDetails, Bare, Detailed
    <2>6. \A q \in Slots \ {r} : Pair(c, call[q])
        BY <1>1, SlotFacts
    <2>7. QED
        BY <1>5, <2>2, <2>3, <2>4, <2>5, <2>6 DEF CallOk, Pair, Detailed
<1>6. CASE c.on = "tx"
    <2>1. PICK next : next = [c EXCEPT !.at = "fetch", !.full = TRUE]
        OBVIOUS
    <2>2. Becomes(r, next)
        BY <1>1, <1>6, <2>1 DEF InsertDetails
    <2>3. next \in Calling /\ Detailed(c, next, TRUE)
        BY <2>1 DEF Calling, Detailed
    <2>4. QED
        BY <1>2, <1>5, <2>2, <2>3, GoesOn DEF Detailed
<1>7. CASE c.on # "tx" /\ ~ Exists(c.id)
    BY <1>1, <1>2, <1>7, EndsIdle DEF InsertDetails
<1>8. CASE c.on # "tx" /\ Exists(c.id)
    <2>1. PICK next : next = [c EXCEPT !.at = "fetch"]
        OBVIOUS
    <2>2. /\ call' = [call EXCEPT ![r] = next] /\ details' = details \cup {c.id}
          /\ UNCHANGED entries
        BY <1>1, <1>8, <2>1 DEF InsertDetails
    <2>3. next \in Calling /\ Detailed(c, next, c.full) /\ c.full \in BOOLEAN
        BY <2>1 DEF Calling, Detailed
    <2>4. c.id \in Ids /\ entries[c.id].type = "shift"
        <3>1. c.id \in Ids
            BY <1>4, EntryAssumption DEF EntryInv, Tables, Ids
        <3>2. made[c.id] = "pool"
            BY <1>4, <1>8 DEF Calling
        <3>3. QED
            BY <1>8, <3>1, <3>2 DEF EntryInv, Tables
    <2>5. /\ details \subseteq details' /\ details' \subseteq Ids
          /\ \A id \in details' : Exists(id) /\ entries[id].type = "shift"
        BY <1>8, <2>2, <2>4 DEF EntryInv, Tables
    <2>6. Grows
        BY <1>2, EntryAssumption DEF Grows, EntryInv, Tables
    <2>7. CallOk(next) /\ \A q \in Slots \ {r} : Pair(next, call[q])
        BY <1>5, <1>8, <2>3
    <2>8. CallOk(next)'
        BY <2>2, <2>3, <2>6, <2>7, SameCall
    <2>9. Room'
        <3>1. Inserting' \subseteq Inserting
            BY <2>2, <2>3 DEF Inserting, EntryInv, Detailed
        <3>2. QED
            BY <1>2, <3>1, RoomKept
    <2>10. QED
        BY <2>2, <2>3, <2>5, <2>6, <2>7, <2>8, <2>9, Stepping
<1>9. QED
    BY <1>6, <1>7, <1>8

\* next is c when it has written row under the entry's id.
Wrote(c, next, row) ==
    /\ next.at = "fetch" /\ next.op = c.op /\ next.on = c.on /\ next.id = c.id
    /\ next.key = c.key /\ next.row = row /\ next.full = c.full /\ next.result = c.result

LEMMA UpdateRowInv ==
    ASSUME EntryInv, NEW r \in Slots, UpdateRow(r)
    PROVE  EntryInv'
<1>1. PICK c \in Calling : c = call[r]
    BY SlotFacts
<1>2. c.at = "index" /\ ~ Waits(r) /\ UNCHANGED <<lastId, made>>
    BY <1>1 DEF UpdateRow
<1>3. CallOk(c) /\ c.op = "update" /\ c.open
    BY <1>1, <1>2, SlotFacts DEF CallOk, Stage, OpsAt
<1>4. /\ c.id \in Ids /\ c.id \in 1 .. lastId /\ Exists(c.id) /\ c.key \in Keys /\ ~ c.full
      /\ c.result = None
    BY <1>2, <1>3 DEF CallOk, Stage, Opened
<1>5. CASE KeyTaken(r)
    BY <1>2, <1>5, EndsIdle DEF UpdateRow
<1>6. CASE ~ KeyTaken(r)
    <2>1. PICK row \in EntryRows :
            /\ row = [entries[c.id] EXCEPT !.key = c.key]
            /\ row.key = c.key /\ row.type = entries[c.id].type
        <3>1. PICK old \in EntryRows : old = entries[c.id]
            BY <1>4 DEF EntryInv, Tables, Exists
        <3>2. [old EXCEPT !.key = c.key] \in EntryRows
            BY <1>4, <3>1 DEF EntryRows
        <3>3. QED
            BY <3>1, <3>2 DEF EntryRows
    <2>2. PICK next : next = [c EXCEPT !.at = "fetch", !.row = row]
        OBVIOUS
    <2>3. next \in Calling /\ Wrote(c, next, row) /\ next.open = c.open
        BY <2>1, <2>2 DEF Calling, Wrote
    <2>4. row # None /\ next.open
        BY <1>3, <2>3, EntryAssumption DEF EntryRows
    <2>5. Ends(r, next)
        BY <1>1, <1>6, <2>1, <2>2 DEF UpdateRow
    <2>6. \A id \in Ids : Exists(id) /\ entries[id].key = row.key => id = c.id
        BY <1>1, <1>6, <2>1 DEF KeyTaken, HasKey
    <2>7. ASSUME NEW q \in Slots \ {r}
          PROVE  /\ call[q].open => call[q].id # c.id
                 /\ call[q].open /\ call[q].row # None => call[q].row.key # row.key
        <3>1. Pair(c, call[q]) /\ ~ Puts(q, c.key)
            BY <1>1, <1>2, SlotFacts, NotWaiting
        <3>2. QED
            BY <1>3, <2>1, <3>1 DEF Pair, Puts
    <2>8. next.op \in OpsAt(next.at)
        BY <1>3, <2>3 DEF OpsAt, Wrote
    <2>9. CASE c.on = "tx"
        <3>1. Becomes(r, next)
            BY <1>1, <2>5, <2>9 DEF Ends
        <3>2. Stage(next)
            BY <1>3, <1>4, <2>3, <2>4, <2>8, <2>9 DEF Stage, Wrote
        <3>3. Opened(next)
            BY <1>3, <1>4, <2>1, <2>3, <2>6 DEF Opened, Wrote
        <3>4. InDetails(next) /\ Bare(next) /\ Writes(next)
            BY <2>3, <2>4 DEF InDetails, Bare, Writes, Wrote
        <3>5. CallOk(next)
            BY <1>4, <2>3, <3>2, <3>3, <3>4 DEF CallOk, Wrote
        <3>6. \A q \in Slots \ {r} : Pair(next, call[q])
            BY <1>3, <1>4, <2>3, <2>7 DEF Pair, Wrote
        <3>7. QED
            BY <1>2, <2>3, <3>1, <3>5, <3>6, GoesOn DEF Wrote
    <2>10. CASE c.on # "tx"
        <3>1. PICK done : done = [next EXCEPT !.open = FALSE]
            OBVIOUS
        <3>2. Commits(r, next, done)
            BY <1>1, <2>5, <2>10, <3>1 DEF Ends, Calling
        <3>3. done \in Calling /\ Wrote(c, done, row) /\ ~ done.open
            BY <2>3, <3>1 DEF Calling, Wrote
        <3>4. Committable(next)
            BY <1>2, <1>3, <1>4, <2>1, <2>3, <2>6 DEF Committable, Wrote
        <3>5. Grows
            BY <1>2, EntryAssumption DEF Grows, EntryInv, Tables
        <3>6. \A q \in Slots \ {r} : Free(next, q) /\ Pair(done, call[q])
            BY <1>3, <1>4, <2>3, <2>7, <3>3 DEF Free, Pair, Wrote
        <3>7. entries'[c.id] = row
            BY <1>3, <1>4, <2>3, <3>2 DEF Commits, Wrote, EntryInv, Tables
        <3>8. CallOk(done)'
            <4>1. done.op \in OpsAt(done.at)
                BY <2>3, <2>8, <3>3 DEF Wrote
            <4>2. Stage(done)'
                BY <1>2, <1>3, <1>4, <2>4, <2>10, <3>3, <4>1 DEF Stage, Wrote
            <4>3. Opened(done)' /\ InDetails(done)' /\ Bare(done)'
                BY <3>3 DEF Opened, InDetails, Bare, Wrote
            <4>4. Writes(done)'
                BY <3>3, <3>7 DEF Writes, Wrote
            <4>5. QED
                BY <1>4, <3>3, <4>2, <4>3, <4>4 DEF CallOk, Wrote
        <3>9. Room'
            <4>1. Inserting' \subseteq Inserting
                BY <3>2, <3>3, OthersOvertaken DEF Inserting, Overtaken, Wrote
            <4>2. QED
                BY <1>2, <4>1, RoomKept
        <3>10. QED
            BY <3>2, <3>3, <3>4, <3>5, <3>6, <3>8, <3>9, Committing
    <2>11. QED
        BY <2>9, <2>10
<1>7. QED
    BY <1>5, <1>6

\* next is c when it has read its entry, or its details.
Read(c, next) ==
    /\ next.op = c.op /\ next.on = c.on /\ next.id = c.id /\ next.key = c.key
    /\ next.open = c.open /\ next.row = c.row /\ next.full = c.full
    /\ next.overtaken = c.overtaken

After(c, at, result) == [c EXCEPT !.at = at, !.result = result]

\* A call after a read is still a call.
LEMMA ReadType ==
    ASSUME NEW c \in Calling, NEW at \in {"fetch_details", "return"}, NEW result \in Results
    PROVE  LET next == After(c, at, result)
           IN  next \in Calling /\ Read(c, next) /\ next.at = at /\ next.result = result
<1> DEFINE next == [c EXCEPT !.at = at, !.result = result]
<1>1. next \in Calling
    BY DEF Calling
<1>2. /\ next.op = c.op /\ next.on = c.on /\ next.id = c.id /\ next.key = c.key
      /\ next.open = c.open /\ next.row = c.row /\ next.full = c.full
      /\ next.overtaken = c.overtaken /\ next.at = at /\ next.result = result
    BY DEF Calling
<1> HIDE DEF next
<1>3. next \in Calling /\ Read(c, next) /\ next.at = at /\ next.result = result
    BY <1>1, <1>2 DEF Read
<1>4. QED
    BY <1>3 DEF next, After

LEMMA FetchInv ==
    ASSUME EntryInv, NEW r \in Slots, Fetch(r)
    PROVE  EntryInv'
<1>1. PICK c \in Calling : c = call[r]
    BY SlotFacts
<1>2. c.at = "fetch" /\ UNCHANGED <<lastId, made>>
    BY <1>1 DEF Fetch
<1>3. CallOk(c) /\ c.op \in {"create", "update", "get"}
    BY <1>1, <1>2, SlotFacts DEF CallOk, Stage, OpsAt
<1>4. CASE Seen(r) = None
    BY <1>2, <1>4, EndsIdle DEF Fetch
<1>5. CASE Seen(r) # None
    <2>1. PICK seen : seen = Seen(r)
        OBVIOUS
    <2>2. seen = IF c.open THEN c.row ELSE entries[c.id]
        BY <1>1, <2>1 DEF Seen
    <2>3. /\ c.id \in Ids /\ c.id \in 1 .. lastId /\ seen \in EntryRows
          /\ ~ c.open => Exists(c.id)
        <3>1. CASE c.open
            <4>1. c.id \in 1 .. lastId
                BY <1>3, <3>1 DEF CallOk, Opened
            <4>2. c.id \in Ids
                BY <4>1, EntryAssumption DEF EntryInv, Tables, Ids
            <4>3. QED
                BY <1>5, <2>1, <2>2, <3>1, <4>1, <4>2 DEF Calling
        <3>2. CASE ~ c.open
            <4>1. c.id \in Ids
                <5>1. CASE c.op = "create"
                    <6>1. c.id \in 1 .. lastId
                        BY <1>2, <1>3, <5>1 DEF CallOk, Stage
                    <6>2. QED
                        BY <6>1, EntryAssumption DEF EntryInv, Tables, Ids
                <5>2. CASE c.op # "create"
                    BY <1>3, <5>2 DEF CallOk, Stage
                <5>3. QED
                    BY <5>1, <5>2
            <4>2. Exists(c.id) /\ seen \in EntryRows
                BY <1>5, <2>1, <2>2, <3>2, <4>1 DEF EntryInv, Tables, Exists
            <4>3. c.id \in 1 .. lastId
                BY <4>1, <4>2, EntryAssumption DEF EntryInv, Tables, Ids
            <4>4. QED
                BY <4>1, <4>2, <4>3
        <3>3. QED
            BY <3>1, <3>2
    <2>4. PICK at \in {"fetch_details", "return"} :
            at = IF seen.type = "shift" THEN "fetch_details" ELSE "return"
        OBVIOUS
    <2>5. PICK result \in Results :
            result = [row |-> seen, full |-> FALSE] /\ result.row = seen
        <3>1. PICK full \in BOOLEAN : full = FALSE
            OBVIOUS
        <3>2. [row |-> seen, full |-> full] \in Results
            BY <2>3 DEF Results
        <3>3. QED
            BY <3>1, <3>2
    <2>6. PICK next : next = After(c, at, result)
        OBVIOUS
    <2>7. Becomes(r, next)
        BY <1>1, <1>5, <2>1, <2>4, <2>5, <2>6 DEF Fetch, After
    <2>8. next \in Calling /\ Read(c, next) /\ next.at = at /\ next.result = result
        <3>1. c \in Calling /\ at \in {"fetch_details", "return"} /\ result \in Results
            BY <1>1, <2>4, <2>5
        <3>2. QED
            BY <2>6, <3>1, ReadType
    <2>9. CallOk(next)
        <3>1. next.op \in OpsAt(next.at)
            BY <1>3, <2>4, <2>8 DEF OpsAt, Read
        <3>2. Stage(next)
            BY <1>2, <1>3, <2>3, <2>4, <2>8, <3>1 DEF CallOk, Stage, Read
        <3>3. Opened(next)
            BY <1>2, <1>3, <2>8 DEF CallOk, Opened, Read
        <3>4. InDetails(next) /\ Bare(next)
            BY <2>4, <2>5, <2>8 DEF InDetails, Bare
        <3>5. Writes(next)
            <4>1. c.row # None => (c.open <=> c.on = "tx")
                BY <1>3 DEF CallOk, Stage
            <4>2. c.row # None => c.open \/ c.overtaken \/ entries[c.id] = c.row
                BY <1>2, <1>3 DEF CallOk, Writes
            <4>3. c.on \in {"pool", "tx"}
                BY DEF Calling
            <4>4. QED
                BY <2>2, <2>4, <2>5, <2>8, <4>1, <4>2, <4>3 DEF Writes, Read
        <3>6. QED
            BY <2>3, <2>8, <3>2, <3>3, <3>4, <3>5 DEF CallOk, Read
    <2>10. ASSUME NEW q \in Slots \ {r} PROVE Pair(next, call[q])
        <3>1. Pair(c, call[q]) /\ Opened(call[q])
            BY <1>1, SlotFacts DEF CallOk
        <3>2. call[q].open /\ call[q].op = "create" => call[q].id # c.id
            BY <2>3, <3>1 DEF Pair, Opened
        <3>3. QED
            BY <2>8, <3>1, <3>2 DEF Pair, Read
    <2>11. QED
        BY <1>2, <2>4, <2>7, <2>8, <2>9, <2>10, GoesOn
<1>6. QED
    BY <1>4, <1>5

LEMMA FetchDetailsInv ==
    ASSUME EntryInv, NEW r \in Slots, FetchDetails(r)
    PROVE  EntryInv'
<1>1. PICK c \in Calling : c = call[r]
    BY SlotFacts
<1>2. c.at = "fetch_details" /\ UNCHANGED <<lastId, made>>
    BY <1>1 DEF FetchDetails
<1>3. CallOk(c) /\ c.op \in {"create", "update", "get"} /\ c.result \in Results
    BY <1>1, <1>2, SlotFacts DEF CallOk, Stage, OpsAt
<1>4. c.result # None /\ c.id \in 1 .. lastId /\ c.id \in Ids
    <2>1. c.result # None
        BY <1>3, EntryAssumption DEF Results, EntryRows
    <2>2. c.id \in 1 .. lastId
        BY <1>3, <2>1 DEF CallOk
    <2>3. QED
        BY <2>1, <2>2, EntryAssumption DEF EntryInv, Tables, Ids
<1>5. PICK full \in BOOLEAN : full = DetailsSeen(r)
    BY DEF DetailsSeen
<1>6. PICK result \in Results :
        /\ result = [c.result EXCEPT !.full = full]
        /\ result.row = c.result.row /\ result.full = full
    <2>1. PICK old \in Results : old = c.result
        BY <1>3
    <2>2. [old EXCEPT !.full = full] \in Results
        BY DEF Results
    <2>3. QED
        BY <2>1, <2>2 DEF Results
<1>7. PICK next : next = [c EXCEPT !.at = "return", !.result = result]
    OBVIOUS
<1>8. Becomes(r, next)
    BY <1>1, <1>5, <1>6, <1>7 DEF FetchDetails
<1>9. next \in Calling /\ Read(c, next) /\ next.at = "return" /\ next.result = result
    BY <1>7 DEF Calling, Read
<1>10. CallOk(next)
    <2>1. next.op \in OpsAt(next.at)
        BY <1>3, <1>9 DEF OpsAt, Read
    <2>2. Stage(next)
        BY <1>2, <1>3, <1>4, <1>9, <2>1 DEF CallOk, Stage, Read
    <2>3. Opened(next)
        BY <1>2, <1>3, <1>9 DEF CallOk, Opened, Read
    <2>4. InDetails(next)
        BY <1>9 DEF InDetails
    <2>5. Bare(next)
        <3>1. ASSUME ~ full, Exists(c.id) PROVE made[c.id] \in {"bare", "pool"}
            <4>1. c.id \notin details
                BY <1>1, <1>5, <3>1 DEF DetailsSeen
            <4>2. /\ made[c.id] \in {"none", "bare", "pool", "tx"}
                  /\ made[c.id] # "tx" /\ made[c.id] # "none"
                BY <1>4, <3>1, <4>1 DEF EntryInv, Tables, Made
            <4>3. QED
                BY <4>2
        <3>2. QED
            BY <1>6, <1>9, <3>1 DEF Bare, Read
    <2>6. Writes(next)
        BY <1>2, <1>3, <1>6, <1>9 DEF CallOk, Writes, Read
    <2>7. QED
        BY <1>4, <1>9, <2>2, <2>3, <2>4, <2>5, <2>6 DEF CallOk, Read
<1>11. ASSUME NEW q \in Slots \ {r} PROVE Pair(next, call[q])
    <2>1. Pair(c, call[q])
        BY <1>1, SlotFacts
    <2>2. QED
        BY <1>4, <1>9, <2>1 DEF Pair, Read
<1>12. QED
    BY <1>2, <1>8, <1>9, <1>10, <1>11, GoesOn

LEMMA ReturnInv ==
    ASSUME EntryInv, NEW r \in Slots, Return(r)
    PROVE  EntryInv'
<1>1. PICK c \in Calling : c = call[r]
    BY SlotFacts
<1>2. c.at = "return" /\ UNCHANGED <<lastId, made>>
    BY <1>1 DEF Return
<1>3. CASE ~ (c.open /\ c.op # "lock")
    BY <1>1, <1>2, <1>3, EndsIdle DEF Return
<1>4. CASE c.open /\ c.op # "lock"
    <2>1. PICK next \in Calling : next = Idle /\ next.at = "idle" /\ CallOk(next)'
                                  /\ \A d : Pair(next, d)
        BY IdleOk
    <2>2. Commits(r, c, next)
        BY <1>1, <1>4, <2>1 DEF Return
    <2>3. CallOk(c) /\ c.op \in {"create", "update", "delete"}
        BY <1>1, <1>2, <1>4, SlotFacts DEF CallOk, Stage, OpsAt
    <2>4. Committable(c)
        <3>1. c.op \in {"create", "update"} => c.row # None /\ c.row \in EntryRows
            BY <1>2, <2>3 DEF CallOk, Stage, Calling
        <3>2. c.op = "update" => ~ c.full
            BY <2>3 DEF CallOk, Stage
        <3>3. Opened(c) /\ c.open
            BY <1>4, <2>3 DEF CallOk
        <3>4. QED
            BY <1>2, <2>3, <3>1, <3>2, <3>3 DEF Opened, Committable
    <2>5. Grows
        BY <1>2, EntryAssumption DEF Grows, EntryInv, Tables
    <2>6. ASSUME NEW q \in Slots \ {r} PROVE Free(c, q)
        <3>1. Pair(c, call[q])
            BY <1>1, SlotFacts
        <3>2. c.op \in {"create", "update"} => c.row # None
            BY <1>2, <2>3 DEF CallOk, Stage
        <3>3. QED
            BY <1>4, <3>1, <3>2 DEF Pair, Free
    <2>7. Room'
        <3>1. Inserting' \subseteq Inserting
            BY <2>1, <2>2, OthersOvertaken DEF Inserting, Overtaken
        <3>2. QED
            BY <1>2, <3>1, RoomKept
    <2>8. QED
        BY <2>1, <2>2, <2>4, <2>5, <2>6, <2>7, Committing
<1>5. QED
    BY <1>3, <1>4

LEMMA RoomForOne ==
    ASSUME EntryInv, NEW r \in Inserting
    PROVE  lastId \in Nat /\ lastId + 1 \in 0 .. MaxEntries /\ lastId + 1 \in Ids
<1>1. /\ Cardinality(Inserting \ {r}) = Cardinality(Inserting) - 1
      /\ Cardinality(Inserting \ {r}) \in Nat
    BY InsertingFinite, FS_RemoveElement, FS_CardinalityType
<1>2. QED
    BY <1>1, InsertingFinite, EntryAssumption DEF EntryInv, Room, Tables, Ids

\* c is the call that inserts form when its INSERT has made the row.
MadeRow(form, row, on, c) ==
    /\ c.at = (IF WantsDetails(form) THEN "details" ELSE "fetch")
    /\ c.op = "create" /\ c.on = on /\ c.id = lastId + 1 /\ c.row = row /\ ~ c.full
    /\ c.result = None

LEMMA InsertRowInv ==
    ASSUME EntryInv, NEW r \in Slots, InsertRow(r)
    PROVE  EntryInv'
<1>1. PICK c \in Calling : c = call[r]
    BY SlotFacts
<1>2. c.at = "insert" /\ ~ Waits(r) /\ lastId' = lastId + 1 /\ r \in Inserting
    BY <1>1 DEF InsertRow, Inserting
<1>3. CallOk(c) /\ c.op = "create"
    BY <1>1, <1>2, SlotFacts DEF CallOk, Stage, OpsAt
<1>4. PICK form \in Forms : form = c.form
    BY <1>2, <1>3 DEF CallOk, Stage
<1>5. c.key = form.key /\ c.id = 0 /\ ~ c.full /\ c.result = None
    BY <1>2, <1>3, <1>4 DEF CallOk, Stage
<1>6. lastId \in Nat /\ lastId + 1 \in 0 .. MaxEntries /\ lastId + 1 \in Ids
    BY <1>2, RoomForOne
<1>7. CASE KeyTaken(r)
    <2>1. PICK next \in Calling : next = Idle /\ next.at = "idle" /\ CallOk(next)'
                                  /\ \A d : Pair(next, d)
        BY IdleOk
    <2>2. Becomes(r, next) /\ UNCHANGED made
        BY <1>7, <2>1 DEF InsertRow
    <2>3. Inserting' = Inserting \ {r}
        BY <2>1, <2>2 DEF Inserting, Becomes, EntryInv
    <2>4. Room'
        BY <1>2, <2>3, RoomUsed
    <2>5. Grows
        BY <1>2, <1>6, <2>2 DEF Grows, EntryInv, Tables
    <2>6. QED
        BY <2>1, <2>2, <2>4, <2>5, Becoming
<1>8. CASE ~ KeyTaken(r)
    <2>1. PICK how \in {"pool", "tx", "bare"} : how = IF WantsDetails(form) THEN c.on ELSE "bare"
        BY DEF Calling
    <2>2. made' = [made EXCEPT ![lastId + 1] = how]
        BY <1>1, <1>4, <1>8, <2>1 DEF InsertRow
    <2>3. PICK row \in EntryRows : row = Row(form) /\ row.key = form.key /\ row.type = form.type
        <3>1. form.key \in Keys /\ form.type \in {"shift", "meeting"}
            BY EntryAssumption
        <3>2. [key |-> form.key, type |-> form.type] \in EntryRows
            BY <3>1 DEF EntryRows
        <3>3. QED
            BY <3>2 DEF Row
    <2>4. row # None
        BY EntryAssumption DEF EntryRows
    <2>5. PICK at \in {"details", "fetch"} : at = IF WantsDetails(form) THEN "details" ELSE "fetch"
        OBVIOUS
    <2>6. PICK new : new = [c EXCEPT !.at = at, !.id = lastId + 1, !.open = TRUE, !.row = row,
                                     !.form = None]
        OBVIOUS
    <2>7. Ends(r, new)
        BY <1>1, <1>4, <1>8, <2>3, <2>5, <2>6 DEF InsertRow, Inserted
    <2>8. new \in Calling /\ MadeRow(form, row, c.on, new) /\ new.open /\ new.at = at
        <3>1. PICK id \in 0 .. MaxEntries : id = lastId + 1
            BY <1>6
        <3>2. new = [c EXCEPT !.at = at, !.id = id, !.open = TRUE, !.row = row, !.form = None]
            BY <2>6, <3>1
        <3>3. /\ new \in Calling /\ new.at = at /\ new.op = c.op /\ new.on = c.on /\ new.id = id
              /\ new.open /\ new.row = row /\ new.full = c.full /\ new.result = c.result
            BY <3>2 DEF Calling
        <3>4. QED
            BY <1>3, <1>5, <2>5, <3>1, <3>3 DEF MadeRow
    <2>9. Grows /\ made'[lastId + 1] = how
        <3>1. made' \in Made /\ made'[lastId + 1] = how
            BY <1>6, <2>2 DEF EntryInv, Tables, Made
        <3>2. \A id \in 1 .. lastId : made'[id] = made[id]
            BY <1>6, <2>2, EntryAssumption DEF EntryInv, Tables, Made, Ids
        <3>3. QED
            BY <1>2, <1>6, <3>1, <3>2, EntryAssumption DEF Grows
    <2>10. how \in {"pool", "tx"} => at = "details" /\ row.type = "shift" /\ how = c.on
        BY <2>1, <2>3, <2>5 DEF WantsDetails
    <2>11. at = "details" => how = c.on /\ row.type = "shift"
        BY <2>1, <2>3, <2>5 DEF WantsDetails
    <2>12. ~ Exists(lastId + 1) /\ \A id \in Ids : Exists(id) => entries[id].key # row.key
        <3>1. ~ Exists(lastId + 1)
            BY <1>6 DEF EntryInv, Tables
        <3>2. \A id \in Ids : id # 0
            BY EntryAssumption DEF Ids
        <3>3. QED
            BY <1>1, <1>5, <1>8, <2>3, <3>1, <3>2 DEF KeyTaken, HasKey
    <2>13. ASSUME NEW q \in Slots \ {r}
           PROVE  /\ call[q].open => call[q].id # lastId + 1
                  /\ call[q].result # None => call[q].id # lastId + 1
                  /\ call[q].open /\ call[q].row # None => call[q].row.key # row.key
        <3>1. CallOk(call[q]) /\ ~ Puts(q, c.key)
            BY <1>1, <1>2, SlotFacts, NotWaiting
        <3>2. /\ call[q].open => call[q].id \in 1 .. lastId
              /\ call[q].result # None => call[q].id \in 1 .. lastId
            BY <3>1 DEF CallOk, Opened
        <3>3. QED
            BY <1>5, <1>6, <2>3, <3>1, <3>2 DEF Puts
    <2>14. lastId + 1 \in 1 .. lastId'
        BY <1>2, <1>6
    <2>15. CASE c.on = "tx"
        <3>1. Becomes(r, new)
            BY <1>1, <2>7, <2>15 DEF Ends
        <3>2. Inserting' = Inserting \ {r}
            BY <2>5, <2>8, <3>1 DEF Inserting, Becomes, EntryInv
        <3>3. Room'
            BY <1>2, <3>2, RoomUsed
        <3>4. CallOk(new)'
            <4>1. new.op \in OpsAt(new.at)
                BY <2>5, <2>8 DEF OpsAt, MadeRow
            <4>2. Stage(new)'
                BY <2>4, <2>5, <2>8, <2>14, <2>15, <4>1 DEF Stage, MadeRow
            <4>3. UNCHANGED entries
                BY <3>1 DEF Becomes
            <4>4. Opened(new)'
                BY <2>1, <2>8, <2>9, <2>10, <2>12, <2>14, <4>3 DEF Opened, Exists, MadeRow
            <4>5. InDetails(new)' /\ Bare(new)' /\ Writes(new)'
                BY <2>5, <2>8, <2>9, <2>11 DEF InDetails, Bare, Writes, MadeRow
            <4>6. QED
                BY <2>8, <4>2, <4>4, <4>5 DEF CallOk, MadeRow
        <3>5. \A q \in Slots \ {r} : Pair(new, call[q])
            BY <2>8, <2>13 DEF Pair, MadeRow
        <3>6. QED
            BY <2>8, <2>9, <3>1, <3>3, <3>4, <3>5, Becoming
    <2>16. CASE c.on # "tx"
        <3>1. PICK done : done = [new EXCEPT !.open = FALSE]
            OBVIOUS
        <3>2. Commits(r, new, done)
            BY <1>1, <2>7, <2>16, <3>1 DEF Ends, Calling
        <3>3. done \in Calling /\ MadeRow(form, row, c.on, done) /\ ~ done.open /\ done.at = at
            <4>1. PICK shut \in BOOLEAN : ~ shut
                OBVIOUS
            <4>2. done = [new EXCEPT !.open = shut]
                BY <3>1, <4>1
            <4>3. done \in Calling /\ done.open = shut
                BY <2>8, <4>2 DEF Calling
            <4>4. /\ done.at = new.at /\ done.op = new.op /\ done.on = new.on
                  /\ done.id = new.id /\ done.row = new.row /\ done.result = new.result
                BY <2>8, <4>2 DEF Calling
            <4>5. done.full = new.full
                BY <2>8, <4>2 DEF Calling
            <4>6. QED
                BY <2>8, <4>1, <4>3, <4>4, <4>5 DEF MadeRow
        <3>4. Committable(new)
            BY <2>1, <2>8, <2>9, <2>10, <2>12, <2>14, <2>16 DEF Committable, MadeRow
        <3>5. \A q \in Slots \ {r} : Free(new, q) /\ Pair(done, call[q])
            BY <2>8, <2>13, <3>3 DEF Free, Pair, MadeRow
        <3>6. entries'[lastId + 1] = row
            BY <1>6, <2>8, <3>2 DEF Commits, MadeRow, EntryInv, Tables
        <3>7. CallOk(done)'
            <4>1. done.op \in OpsAt(done.at)
                BY <2>5, <3>3 DEF OpsAt, MadeRow
            <4>2. Stage(done)'
                BY <2>4, <2>5, <2>14, <2>16, <3>3, <4>1 DEF Stage, MadeRow
            <4>3. Opened(done)'
                BY <3>3 DEF Opened
            <4>4. InDetails(done)' /\ Bare(done)' /\ Writes(done)'
                BY <2>5, <2>9, <2>11, <3>3, <3>6 DEF InDetails, Bare, Writes, MadeRow
            <4>5. QED
                BY <3>3, <4>2, <4>3, <4>4 DEF CallOk, MadeRow
        <3>8. Room'
            <4>1. Inserting' = Inserting \ {r}
                BY <2>5, <3>2, <3>3, OthersOvertaken DEF Inserting, Overtaken
            <4>2. QED
                BY <1>2, <4>1, RoomUsed
        <3>9. QED
            BY <2>9, <3>2, <3>3, <3>4, <3>5, <3>7, <3>8, Committing
    <2>17. QED
        BY <2>15, <2>16
<1>9. QED
    BY <1>7, <1>8

-----------------------------------------------------------------------------
(* The specification *)

LEMMA InitInv == Init => EntryInv
<1>1. SUFFICES ASSUME Init PROVE EntryInv
    OBVIOUS
<1>2. PICK c \in Calling : c = Idle /\ c.at = "idle" /\ CallOk(c) /\ \A d : Pair(c, d)
    BY IdleOk
<1>3. call = [r \in Slots |-> c]
    BY <1>1, <1>2 DEF Init
<1>4. Tables
    BY <1>1, EntryAssumption DEF Init, Tables, Exists, Made
<1>5. Room
    <2>1. Inserting = {}
        BY <1>2, <1>3 DEF Inserting
    <2>2. QED
        BY <1>1, <2>1, FS_EmptySet, EntryAssumption DEF Init, Room
<1>6. QED
    BY <1>2, <1>3, <1>4, <1>5 DEF EntryInv

LEMMA StepInv == EntryInv /\ [Next]_vars => EntryInv'
<1>1. SUFFICES ASSUME EntryInv, [Next]_vars PROVE EntryInv'
    OBVIOUS
<1>2. ASSUME NEW r \in Slots, Proceed(r) PROVE EntryInv'
    BY <1>1, <1>2, InsertRowInv, InsertDetailsInv, LockForUpdateInv, UpdateRowInv, DeleteRowInv,
       LockRowInv, FetchInv, FetchDetailsInv, ReturnInv DEF Proceed
<1>3. ASSUME NEW r \in Slots, Fault(r) \/ AbortDeadlocked(r) PROVE EntryInv'
    BY <1>1, <1>3, FailsInv
<1>4. ASSUME UNCHANGED vars PROVE EntryInv'
    <2>1. /\ UNCHANGED entries /\ UNCHANGED details /\ UNCHANGED lastId
          /\ UNCHANGED made /\ UNCHANGED call
        BY <1>4 DEF vars
    <2>2. Grows
        BY <1>1, <2>1, EntryAssumption DEF Grows, EntryInv, Tables
    <2>3. ASSUME NEW r \in Slots PROVE CallOk(call[r])'
        <3>1. PICK c \in Calling : c = call[r] /\ c = call'[r]
            BY <1>1, <2>1, SlotFacts
        <3>2. CallOk(c)'
            BY <1>1, <2>1, <2>2, <3>1, SlotFacts, SameCall
        <3>3. QED
            BY <3>1, <3>2, Renamed
    <2>4. ASSUME NEW p \in Slots, NEW q \in Slots, p # q PROVE Pair(call[p], call[q])'
        BY <1>1, <2>1, <2>4 DEF EntryInv, Pair
    <2>5. Tables' /\ Room' /\ call' \in [Slots -> Calling]
        BY <1>1, <2>1 DEF EntryInv, Tables, Room, Inserting, Exists
    <2>6. QED
        BY <2>3, <2>4, <2>5 DEF EntryInv
<1>5. QED
    BY <1>1, <1>2, <1>3, <1>4, CallsInv DEF Next

\* The inductive invariant holds in every behaviour.
THEOREM EntryInvariance == Spec => []EntryInv
<1>1. QED
    BY InitInv, StepInv, PTL DEF Spec

\* Rows stay well formed and the unique key on calendar, name and start holds,
\* only shifts have details, and an entry that is gone has none, for any
\* number of calls of CreateEntry, UpdateEntry and DeleteEntry, on the pool
\* or in transactions.
THEOREM EntryTypeCorrect == Spec => []TypeOK
<1>1. EntryInv => TypeOK
    BY DEF EntryInv, Tables, TypeOK, EntryRows, Made
<1>2. QED
    BY <1>1, EntryInvariance, PTL

\* A shift that was to have details and is returned without them was created
\* on the pool, against the comment of CreateEntry, or is deleted by the time
\* it is returned.
THEOREM BareShifts == Spec => []BareShiftsAreGone
<1>1. EntryInv => BareShiftsAreGone
    BY DEF EntryInv, CallOk, Bare, BareShiftsAreGone
<1>2. QED
    BY <1>1, EntryInvariance, PTL

\* What CreateEntry and UpdateEntry return is what they have written, unless
\* they ran on the pool and another call has written the entry since.
THEOREM OwnEntries == Spec => []WritersReturnTheirEntry
<1>1. ASSUME EntryInv, NEW r \in Slots, call[r].at = "return", call[r].op \in {"create", "update"}
      PROVE  call[r].result.row = call[r].row \/ (call[r].on = "pool" /\ call[r].overtaken)
    <2>1. CallOk(call[r])
        BY <1>1, SlotFacts
    <2>2. call[r].row # None
        BY <1>1, <2>1 DEF CallOk, Stage
    <2>3. QED
        BY <1>1, <2>1, <2>2 DEF CallOk, Writes
<1>2. EntryInv => WritersReturnTheirEntry
    BY <1>1 DEF WritersReturnTheirEntry
<1>3. QED
    BY <1>2, EntryInvariance, PTL

-----------------------------------------------------------------------------
(* Who waits for whom *)

\* A call that waits and is waited for has locked its row and is about to
\* enter the unique index.
LEMMA BetweenTwo ==
    ASSUME EntryInv, NEW r \in Slots, NEW q \in Slots, NEW p \in Slots,
           WaitsFor(r, q), WaitsFor(q, p)
    PROVE  /\ call[q].at = "index" /\ call[q].op = "update" /\ call[q].open
           /\ call[q].row = None
<1>1. PICK c \in Calling : c = call[q] /\ CallOk(c)
    BY SlotFacts
<1>2. c.open
    BY <1>1 DEF WaitsFor, Holds, Puts, Replaces, Unreferable
<1>3. \/ c.at \in {"update", "delete", "lock", "insert", "index"}
      \/ c.at = "details" /\ ~ c.open
    BY <1>1 DEF WaitsFor
<1>4. c.at = "index"
    BY <1>1, <1>2, <1>3 DEF CallOk, Stage
<1>5. c.op = "update"
    BY <1>1, <1>4 DEF CallOk, Stage, OpsAt
<1>6. c.row = None
    BY <1>1, <1>4 DEF CallOk, Stage
<1>7. QED
    BY <1>1, <1>2, <1>4, <1>5, <1>6

\* The calls of a circle are updates that have locked their entries and wait
\* for keys which others of them are giving up.
CirclesExchangeKeys ==
    \A r \in Deadlocked :
        /\ call[r].op = "update" /\ call[r].at = "index"
        /\ \E q \in Deadlocked \ {r} :
              /\ call[q].op = "update" /\ call[q].at = "index"
              /\ Exists(call[q].id) /\ entries[call[q].id].key = call[r].key

\* Only UpdateEntry can be caught in a deadlock: CreateEntry, DeleteEntry,
\* GetEntryForUpdate and GetEntryByID never are, however many calls there are
\* on the pool or in transactions, and the updates of a circle want each
\* other's calendar, name and start.
THEOREM EntryCircles == Spec => []CirclesExchangeKeys
<1>1. ASSUME EntryInv, NEW r \in Deadlocked
      PROVE  /\ call[r].op = "update" /\ call[r].at = "index"
             /\ \E q \in Deadlocked \ {r} :
                   /\ call[q].op = "update" /\ call[q].at = "index"
                   /\ Exists(call[q].id) /\ entries[call[q].id].key = call[r].key
    <2>1. PICK S \in SUBSET Slots :
            /\ r \in S
            /\ \A s \in S : (\E q \in S : WaitsFor(s, q)) /\ (\E q \in S : WaitsFor(q, s))
        BY DEF Deadlocked
    <2>2. S \subseteq Deadlocked
        BY <2>1 DEF Deadlocked
    <2>3. ASSUME NEW s \in S
          PROVE  /\ call[s].at = "index" /\ call[s].op = "update" /\ call[s].open
                 /\ call[s].row = None
        <3>1. PICK p \in S, q \in S : WaitsFor(s, q) /\ WaitsFor(p, s)
            BY <2>1
        <3>2. QED
            BY <1>1, <3>1, BetweenTwo
    <2>4. PICK q \in S : WaitsFor(r, q)
        BY <2>1
    <2>5. q # r /\ ~ Puts(q, call[r].key)
        BY <2>3, <2>4 DEF WaitsFor, Puts
    <2>6. PICK id \in Ids : HasKey(r, id) /\ Replaces(q, id)
        BY <2>1, <2>3, <2>4, <2>5 DEF WaitsFor
    <2>7. id = call[q].id /\ Exists(id) /\ entries[id].key = call[r].key
        BY <2>6 DEF HasKey, Replaces, Holds
    <2>8. QED
        BY <2>1, <2>2, <2>3, <2>5, <2>7
<1>2. EntryInv => CirclesExchangeKeys
    BY <1>1 DEF CirclesExchangeKeys
<1>3. QED
    BY <1>2, EntryInvariance, PTL

-----------------------------------------------------------------------------
(* What a lock protects *)

\* A commit changes one entry.
LEMMA CommitsOne ==
    ASSUME EntryInv, NEW q \in Slots, NEW c, NEW next, Commits(q, c, next),
           NEW id \in Ids, id # c.id
    PROVE  entries'[id] = entries[id] /\ (id \in details' <=> id \in details)
<1>1. entries'[id] = entries[id]
    BY DEF Commits, EntryInv, Tables
<1>2. id \in details' <=> id \in details
    BY DEF Commits
<1>3. QED
    BY <1>1, <1>2

\* What a call keeps while its row stays locked.
Keeps(r) ==
    call[r].open /\ call'[r].open =>
        /\ entries'[call[r].id] = entries[call[r].id]
        /\ call[r].op \in {"lock", "delete"}
           => (call[r].id \in details' <=> call[r].id \in details)

\* Nobody keeps anything from r when the tables stay.
LEMMA TablesKept ==
    ASSUME NEW r, UNCHANGED <<entries, details>>
    PROVE  Keeps(r)
BY DEF Keeps

\* A commit by another call, of another entry.
LEMMA OthersCommit ==
    ASSUME EntryInv, NEW r \in Slots, NEW q \in Slots \ {r}, NEW c, NEW next,
           Commits(q, c, next), call[r].open => call[r].id # c.id
    PROVE  Keeps(r)
<1>1. call[r].open => call[r].id \in 1 .. lastId
    BY SlotFacts DEF CallOk, Opened
<1>2. 1 .. lastId \subseteq Ids
    BY EntryAssumption DEF EntryInv, Tables, Ids
<1>3. QED
    BY <1>1, <1>2, CommitsOne DEF Keeps

\* The commit ends what r has open.
LEMMA OwnCommit ==
    ASSUME EntryInv, NEW r \in Slots, NEW c, NEW next, Commits(r, c, next), ~ next.open
    PROVE  Keeps(r)
<1>1. call'[r] = next
    BY DEF Commits
<1>2. QED
    BY <1>1 DEF Keeps

\* The end of a statement, of another entry than the one that r keeps.
LEMMA EndsKeep ==
    ASSUME EntryInv, NEW r \in Slots, NEW q \in Slots, NEW next \in Calling, Ends(q, next),
           q # r /\ call[r].open => call[r].id # next.id
    PROVE  Keeps(r)
<1>1. CASE call[q].on = "pool"
    <2>1. PICK shut \in BOOLEAN : ~ shut
        OBVIOUS
    <2>2. PICK done : done = [next EXCEPT !.open = shut]
        OBVIOUS
    <2>3. Commits(q, next, done)
        BY <1>1, <2>1, <2>2 DEF Ends
    <2>4. ~ done.open
        BY <2>1, <2>2 DEF Calling
    <2>5. QED
        BY <2>3, <2>4, OwnCommit, OthersCommit
<1>2. CASE call[q].on # "pool"
    BY <1>2, TablesKept DEF Ends, Becomes
<1>3. QED
    BY <1>1, <1>2

LEMMA InsertRowKeeps ==
    ASSUME EntryInv, NEW r \in Slots, NEW q \in Slots, InsertRow(q)
    PROVE  Keeps(r)
<1>1. CASE KeyTaken(q)
    BY <1>1, TablesKept DEF InsertRow, Becomes
<1>2. CASE ~ KeyTaken(q)
    <2>1. PICK c \in Calling : c = call[q] /\ CallOk(c) /\ c.at = "insert" /\ ~ Waits(q)
        BY SlotFacts DEF InsertRow
    <2>2. PICK form \in Forms : form = c.form
        BY <2>1 DEF CallOk, Stage
    <2>3. PICK at \in {"details", "fetch"} : at = IF WantsDetails(form) THEN "details" ELSE "fetch"
        OBVIOUS
    <2>4. PICK row \in EntryRows : row = Row(form)
        BY EntryAssumption DEF Row, EntryRows
    <2>5. PICK id \in 0 .. MaxEntries : id = lastId + 1
        BY <2>1, RoomForOne DEF InsertRow, Inserting
    <2>6. PICK next : next = [c EXCEPT !.at = at, !.id = id, !.open = TRUE, !.row = row,
                                       !.form = None]
        OBVIOUS
    <2>7. Ends(q, next)
        <3>1. next = Inserted(q)
            BY <2>1, <2>2, <2>3, <2>4, <2>5, <2>6 DEF Inserted
        <3>2. Ends(q, Inserted(q))
            BY <1>2 DEF InsertRow
        <3>3. QED
            BY <3>1, <3>2
    <2>8. next \in Calling /\ next.id = id
        BY <2>6 DEF Calling
    <2>9. call[r].open => call[r].id \in 1 .. lastId
        BY SlotFacts DEF CallOk, Opened
    <2>10. lastId \in Nat
        BY EntryAssumption DEF EntryInv, Tables
    <2>11. call[r].open => call[r].id # id
        BY <2>5, <2>9, <2>10
    <2>12. QED
        BY <2>7, <2>8, <2>11, EndsKeep
<1>3. QED
    BY <1>1, <1>2

LEMMA InsertDetailsKeeps ==
    ASSUME EntryInv, NEW r \in Slots, NEW q \in Slots, InsertDetails(q)
    PROVE  Keeps(r)
<1>1. CASE UNCHANGED <<entries, details>>
    BY <1>1, TablesKept
<1>2. CASE ~ UNCHANGED <<entries, details>>
    <2>1. /\ call[q].at = "details" /\ ~ Waits(q) /\ call[q].on # "tx" /\ Exists(call[q].id)
          /\ details' = details \cup {call[q].id} /\ UNCHANGED entries
        BY <1>2 DEF InsertDetails, Becomes
    <2>2. ~ call[q].open
        BY <2>1, SlotFacts DEF CallOk, Stage
    <2>3. ASSUME call[r].open, call[r].op \in {"lock", "delete"} PROVE call[r].id # call[q].id
        <3>1. ~ WaitsFor(q, r) /\ q # r
            BY <2>1, <2>2, <2>3 DEF Waits
        <3>2. QED
            BY <2>1, <2>2, <2>3, <3>1 DEF WaitsFor, Unreferable, Holds
    <2>4. QED
        BY <2>1, <2>3 DEF Keeps
<1>3. QED
    BY <1>1, <1>2

LEMMA UpdateRowKeeps ==
    ASSUME EntryInv, NEW r \in Slots, NEW q \in Slots, UpdateRow(q)
    PROVE  Keeps(r)
<1>1. CASE KeyTaken(q)
    BY <1>1, TablesKept DEF UpdateRow, Becomes
<1>2. CASE ~ KeyTaken(q)
    <2>1. PICK c \in Calling : c = call[q] /\ CallOk(c) /\ c.at = "index" /\ c.open
        BY SlotFacts DEF UpdateRow, CallOk, Stage
    <2>2. c.op = "update" /\ c.key \in Keys /\ c.id \in Ids /\ Exists(c.id)
        BY <2>1 DEF CallOk, Stage, Opened, OpsAt
    <2>3. PICK row \in EntryRows : row = [entries[c.id] EXCEPT !.key = c.key]
        <3>1. PICK old \in EntryRows : old = entries[c.id]
            BY <2>2 DEF EntryInv, Tables, Exists
        <3>2. [old EXCEPT !.key = c.key] \in EntryRows
            BY <2>2, <3>1 DEF EntryRows
        <3>3. QED
            BY <3>1, <3>2
    <2>4. PICK next : next = [c EXCEPT !.at = "fetch", !.row = row]
        OBVIOUS
    <2>5. Ends(q, next)
        BY <1>2, <2>1, <2>3, <2>4 DEF UpdateRow
    <2>6. next \in Calling /\ next.id = c.id
        BY <2>4 DEF Calling
    <2>7. q # r /\ call[r].open => call[r].id # c.id
        BY <2>1 DEF EntryInv, Pair
    <2>8. QED
        BY <2>5, <2>6, <2>7, EndsKeep
<1>3. QED
    BY <1>1, <1>2

LEMMA DeleteRowKeeps ==
    ASSUME EntryInv, NEW r \in Slots, NEW q \in Slots, DeleteRow(q)
    PROVE  Keeps(r)
<1>1. CASE ~ Exists(call[q].id)
    BY <1>1, TablesKept DEF DeleteRow, Becomes
<1>2. CASE Exists(call[q].id)
    <2>1. PICK c \in Calling : c = call[q] /\ c.at = "delete" /\ ~ Waits(q)
        BY SlotFacts DEF DeleteRow
    <2>2. PICK yes \in BOOLEAN : yes
        OBVIOUS
    <2>3. PICK next : next = [c EXCEPT !.at = "return", !.open = yes]
        OBVIOUS
    <2>4. Ends(q, next)
        BY <1>2, <2>1, <2>2, <2>3 DEF DeleteRow
    <2>5. next \in Calling /\ next.id = c.id
        BY <2>3 DEF Calling
    <2>6. q # r /\ call[r].open => call[r].id # c.id
        BY <2>1, NotWaiting DEF Holds
    <2>7. QED
        BY <2>4, <2>5, <2>6, EndsKeep
<1>3. QED
    BY <1>1, <1>2

LEMMA ReturnKeeps ==
    ASSUME EntryInv, NEW r \in Slots, NEW q \in Slots, Return(q)
    PROVE  Keeps(r)
<1>1. CASE UNCHANGED <<entries, details>>
    BY <1>1, TablesKept
<1>2. CASE ~ UNCHANGED <<entries, details>>
    <2>1. call[q].open /\ Commits(q, call[q], Idle)
        BY <1>2 DEF Return, Becomes
    <2>2. CASE q = r
        BY <2>1, <2>2, OwnCommit DEF Idle
    <2>3. CASE q # r
        <3>1. call[r].open => call[r].id # call[q].id
            BY <2>1, <2>3 DEF EntryInv, Pair
        <3>2. QED
            BY <2>1, <2>3, <3>1, OthersCommit
    <2>4. QED
        BY <2>2, <2>3
<1>3. QED
    BY <1>1, <1>2

\* As long as a call has its row locked, no other call changes the entry, and
\* none deletes it or, if the lock is GetEntryForUpdate's or a deletion, gives
\* it details.
LockedRowsStay == [][\A r \in Slots : Keeps(r)]_vars

\* What GetEntryForUpdate has locked stays as it is until the transaction
\* ends, whatever other calls do on the pool or in transactions: they create,
\* update or delete other entries, or wait.
THEOREM LocksProtect == Spec => LockedRowsStay
<1>1. ASSUME EntryInv, [Next]_vars, NEW r \in Slots PROVE Keeps(r)
    <2>1. CASE UNCHANGED <<entries, details>>
        BY <2>1, TablesKept
    <2>2. CASE ~ UNCHANGED <<entries, details>>
        <3>1. PICK q \in Slots :
                InsertRow(q) \/ InsertDetails(q) \/ UpdateRow(q) \/ DeleteRow(q) \/ Return(q)
            BY <1>1, <2>2
            DEF Next, vars, Proceed, CreateEntry, UpdateEntry, DeleteEntry, GetEntryForUpdate,
                GetEntryByID, Start, tables, LockForUpdate, LockRow, Fetch, FetchDetails, Fault,
                AbortDeadlocked, Becomes
        <3>2. QED
            BY <1>1, <3>1, InsertRowKeeps, InsertDetailsKeeps, UpdateRowKeeps, DeleteRowKeeps,
               ReturnKeeps
    <2>3. QED
        BY <2>1, <2>2
<1>2. ASSUME EntryInv, [Next]_vars PROVE \A r \in Slots : Keeps(r)
    BY <1>1, <1>2
<1>3. QED
    BY <1>2, EntryInvariance, PTL DEF Spec, LockedRowsStay

=============================================================================
