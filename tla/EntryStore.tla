----------------------------- MODULE EntryStore -----------------------------
(***************************************************************************)
(* Calendar entries: the store functions of internal/store/entry.go and    *)
(* the tables entries and entry_shift_details.                             *)
(*                                                                         *)
(* A function runs its statements on the connection it is given: on the    *)
(* pool, where each one commits on its own, or in a transaction of the     *)
(* caller, which ends when the function has returned.  entries and details *)
(* hold what is committed.                                                 *)
(*                                                                         *)
(* A key stands for the columns calendar_id, name and starts_at, which     *)
(* together are unique.                                                    *)
(***************************************************************************)
EXTENDS Naturals, FiniteSets

CONSTANTS
    Slots,       \* calls in flight at the same time
    MaxEntries,  \* bound: how many entries the runs create
    Keys,        \* calendar, name and start of an entry
    Forms,       \* parameters of CreateEntry: key, type, required
    None         \* no row

ASSUME EntryAssumption ==
    /\ MaxEntries \in Nat /\ IsFiniteSet(Slots)
    /\ Forms \subseteq [key : Keys, type : {"shift", "meeting"}, required : BOOLEAN]
    /\ None \notin Keys \cup [key : Keys, type : {"shift", "meeting"}]
    /\ None \notin [row : [key : Keys, type : {"shift", "meeting"}], full : BOOLEAN]

Ids == 1 .. MaxEntries

VARIABLES
    entries,  \* table entries: id -> key and type
    details,  \* ids in table entry_shift_details
    lastId,   \* the sequence behind entries.id
    made,     \* history: how an entry was to get its details
    call      \* the calls in flight

tables == <<entries, details, lastId, made>>
vars == <<entries, details, lastId, made, call>>

-----------------------------------------------------------------------------
(* Calls *)

\* open: the call has written or locked what it has not committed yet.
\* row, full: the row it has written, and whether with details.
Idle ==
    [at |-> "idle", op |-> "none", on |-> "pool", id |-> 0, key |-> None, form |-> None,
     open |-> FALSE, row |-> None, full |-> FALSE, result |-> None, overtaken |-> FALSE]

Exists(id) == entries[id] # None

Row(form) == [key |-> form.key, type |-> form.type]

WantsDetails(form) == form.type = "shift" /\ form.required

\* Call q keeps the row of an entry from others.
Holds(q, id) == call[q].open /\ call[q].id = id

\* Call q has deleted or written the version of the entry that is committed.
Replaces(q, id) == Holds(q, id) /\ call[q].op \in {"update", "delete"}

\* Call q has written a row with this key.
Puts(q, key) == call[q].open /\ call[q].row # None /\ call[q].row.key = key

\* The entry of another call that has this key, as committed.
HasKey(r, id) == Exists(id) /\ id # call[r].id /\ entries[id].key = call[r].key
KeyTaken(r) == \E id \in Ids : HasKey(r, id)

\* FOR UPDATE and changes of unique columns keep references from being made.
Unreferable(q, id) ==
    Holds(q, id) /\ (call[q].op = "update" => call[q].key # entries[id].key)

WaitsFor(r, q) ==
    /\ r # q
    /\ \/ call[r].at \in {"update", "delete", "lock"} /\ Holds(q, call[r].id)
       \/ /\ call[r].at \in {"insert", "index"}
          /\ Puts(q, call[r].key) \/ \E id \in Ids : HasKey(r, id) /\ Replaces(q, id)
       \/ /\ call[r].at = "details" /\ ~ call[r].open
          /\ Exists(call[r].id) /\ Unreferable(q, call[r].id)

Waits(r) == \E q \in Slots : WaitsFor(r, q)

\* Mutant: no detector.
Deadlocked_Undetected == {}

\* The calls that wait for each other in a circle.
Deadlocked ==
    UNION {S \in SUBSET Slots :
              \A r \in S : /\ \E q \in S : WaitsFor(r, q)
                           /\ \E q \in S : WaitsFor(q, r)}

Init ==
    /\ entries = [id \in Ids |-> None]
    /\ details = {}
    /\ lastId = 0
    /\ made = [id \in Ids |-> "none"]
    /\ call = [r \in Slots |-> Idle]

Start(r, started) ==
    /\ call[r].at = "idle"
    /\ call' = [call EXCEPT ![r] = started]
    /\ UNCHANGED tables

\* Bound: the creates in flight never need more than MaxEntries ids.
IdsLeft == lastId + Cardinality({r \in Slots : call[r].at = "insert"}) < MaxEntries

CreateEntry(r, on, form) ==
    /\ IdsLeft
    /\ Start(r, [Idle EXCEPT !.at = "insert", !.op = "create", !.on = on, !.form = form,
                             !.key = form.key])
UpdateEntry(r, on, id, key) ==
    Start(r, [Idle EXCEPT !.at = "update", !.op = "update", !.on = on, !.id = id, !.key = key])
DeleteEntry(r, on, id) ==
    Start(r, [Idle EXCEPT !.at = "delete", !.op = "delete", !.on = on, !.id = id])
GetEntryForUpdate(r, id) ==
    Start(r, [Idle EXCEPT !.at = "lock", !.op = "lock", !.on = "tx", !.id = id])
GetEntryByID(r, id) ==
    Start(r, [Idle EXCEPT !.at = "fetch", !.op = "get", !.id = id])

-----------------------------------------------------------------------------
(* Statements *)

\* The call goes on; the tables stay as they are.
Becomes(r, next) == call' = [call EXCEPT ![r] = next] /\ UNCHANGED <<entries, details>>

\* What c has written or deleted of its entry is committed, and r goes on.
\* History: other calls that have written the entry are overtaken.
Commits(r, c, next) ==
    /\ entries' = [entries EXCEPT ![c.id] = IF c.op = "delete" THEN None ELSE c.row]
    /\ details' = IF c.op = "delete" THEN details \ {c.id}
                  ELSE IF c.full THEN details \cup {c.id} ELSE details
    /\ call' = [q \in Slots |->
                  IF q = r THEN next
                  ELSE [call[q] EXCEPT !.overtaken = @ \/ (call[q].row # None /\ call[q].id = c.id)]]

\* Mutant: every statement commits on its own.
Ends_OnItsOwn(r, next) == Commits(r, next, [next EXCEPT !.open = FALSE])

\* The end of a writing statement.
Ends(r, next) ==
    IF call[r].on = "pool" THEN Commits(r, next, [next EXCEPT !.open = FALSE])
    ELSE Becomes(r, next)

\* The entry that the INSERT of r has made.
Inserted(r) ==
    [call[r] EXCEPT !.at = IF WantsDetails(call[r].form) THEN "details" ELSE "fetch",
                    !.id = lastId + 1, !.open = TRUE, !.row = Row(call[r].form),
                    !.form = None]

\* Mutant: rows that others have not committed yet are ignored.
InsertRow_SeesCommitted(r) ==
    /\ call[r].at = "insert"
    /\ lastId' = lastId + 1
    /\ IF KeyTaken(r) THEN Becomes(r, Idle) /\ UNCHANGED made
       ELSE /\ Ends(r, Inserted(r))
            /\ made' = [made EXCEPT ![lastId + 1] =
                          IF WantsDetails(call[r].form) THEN call[r].on ELSE "bare"]

\* INSERT INTO entries: waits for calls that have written the key or are
\* giving it up, and fails if it is taken.
InsertRow(r) ==
    /\ call[r].at = "insert" /\ ~ Waits(r)
    /\ lastId' = lastId + 1
    /\ IF KeyTaken(r) THEN Becomes(r, Idle) /\ UNCHANGED made
       ELSE /\ Ends(r, Inserted(r))
            /\ made' = [made EXCEPT ![lastId + 1] =
                          IF WantsDetails(call[r].form) THEN call[r].on ELSE "bare"]

\* UpsertEntryShiftDetails: the foreign key fails if the entry is gone.
InsertDetails(r) ==
    /\ call[r].at = "details" /\ ~ Waits(r)
    /\ IF call[r].on = "tx" THEN Becomes(r, [call[r] EXCEPT !.at = "fetch", !.full = TRUE])
       ELSE IF ~ Exists(call[r].id) THEN Becomes(r, Idle)
       ELSE /\ details' = details \cup {call[r].id}
            /\ call' = [call EXCEPT ![r].at = "fetch"]
            /\ UNCHANGED entries
    /\ UNCHANGED <<lastId, made>>

\* UPDATE entries, first half: the row is locked and read again.
LockForUpdate(r) ==
    /\ call[r].at = "update" /\ ~ Waits(r)
    /\ Becomes(r, IF ~ Exists(call[r].id) THEN Idle
                  ELSE [call[r] EXCEPT !.at = "index", !.open = TRUE])
    /\ UNCHANGED <<lastId, made>>

\* Second half: the new row enters the unique index.
UpdateRow(r) ==
    /\ call[r].at = "index" /\ ~ Waits(r)
    /\ IF KeyTaken(r) THEN Becomes(r, Idle)
       ELSE Ends(r, [call[r] EXCEPT !.at = "fetch",
                                    !.row = [entries[call[r].id] EXCEPT !.key = call[r].key]])
    /\ UNCHANGED <<lastId, made>>

\* DELETE FROM entries, with the cascade to the details.
DeleteRow(r) ==
    /\ call[r].at = "delete" /\ ~ Waits(r)
    /\ IF ~ Exists(call[r].id) THEN Becomes(r, Idle)
       ELSE Ends(r, [call[r] EXCEPT !.at = "return", !.open = TRUE])
    /\ UNCHANGED <<lastId, made>>

\* SELECT ... FOR UPDATE OF e.
LockRow(r) ==
    /\ call[r].at = "lock" /\ ~ Waits(r)
    /\ Becomes(r, IF ~ Exists(call[r].id) THEN Idle
                  ELSE [call[r] EXCEPT !.at = "return", !.open = TRUE])
    /\ UNCHANGED <<lastId, made>>

\* Mutant: the entry is fetched from the pool, not on the caller's connection.
Seen_FromPool(r) == entries[call[r].id]

\* The call's entry as its connection sees it.
Seen(r) == IF call[r].open THEN call[r].row ELSE entries[call[r].id]
DetailsSeen(r) == (call[r].open /\ call[r].full) \/ call[r].id \in details

\* GetEntryWithCalendar: ErrNoRows if it is gone.
Fetch(r) ==
    /\ call[r].at = "fetch"
    /\ Becomes(r, IF Seen(r) = None THEN Idle
                  ELSE [call[r] EXCEPT
                          !.at = IF Seen(r).type = "shift" THEN "fetch_details" ELSE "return",
                          !.result = [row |-> Seen(r), full |-> FALSE]])
    /\ UNCHANGED <<lastId, made>>

\* populateShiftDetails: no row is no error.
FetchDetails(r) ==
    /\ call[r].at = "fetch_details"
    /\ Becomes(r, [call[r] EXCEPT !.at = "return", !.result.full = DetailsSeen(r)])
    /\ UNCHANGED <<lastId, made>>

\* The function returns, and the caller's transaction commits.
Return(r) ==
    /\ call[r].at = "return"
    /\ IF call[r].open /\ call[r].op # "lock" THEN Commits(r, call[r], Idle)
       ELSE Becomes(r, Idle)
    /\ UNCHANGED <<lastId, made>>

\* An error (connection, context, slug already taken, a value its CHECK
\* refuses) or the end of the process: what is open is rolled back, what the
\* pool has committed stays.
Fault(r) ==
    /\ call[r].at # "idle"
    /\ Becomes(r, Idle)
    /\ UNCHANGED <<lastId, made>>

\* PostgreSQL's deadlock detector rolls one call of the circle back.
AbortDeadlocked(r) ==
    /\ r \in Deadlocked
    /\ Becomes(r, Idle)
    /\ UNCHANGED <<lastId, made>>

-----------------------------------------------------------------------------

Proceed(r) ==
    \/ InsertRow(r)
    \/ InsertDetails(r)
    \/ LockForUpdate(r)
    \/ UpdateRow(r)
    \/ DeleteRow(r)
    \/ LockRow(r)
    \/ Fetch(r)
    \/ FetchDetails(r)
    \/ Return(r)

Next ==
    \E r \in Slots :
        \/ \E on \in {"pool", "tx"} :
            \/ \E form \in Forms : CreateEntry(r, on, form)
            \/ \E id \in Ids :
                \/ \E key \in Keys : UpdateEntry(r, on, id, key)
                \/ DeleteEntry(r, on, id)
        \/ \E id \in Ids : GetEntryForUpdate(r, id) \/ GetEntryByID(r, id)
        \/ Proceed(r)
        \/ Fault(r)
        \/ AbortDeadlocked(r)

\* Statements return, a lock queue serves its waiters in the order they came,
\* and the detector runs after a second.
Fairness == \A r \in Slots : SF_vars(Proceed(r)) /\ WF_vars(AbortDeadlocked(r))

Spec == Init /\ [][Next]_vars /\ Fairness

-----------------------------------------------------------------------------
(* Properties *)

\* Rows are well formed, no two entries have one key, only shifts have
\* details, and an entry that is gone has none.
TypeOK ==
    /\ entries \in [Ids -> [key : Keys, type : {"shift", "meeting"}] \cup {None}]
    /\ \A id, other \in Ids :
        Exists(id) /\ Exists(other) /\ entries[id].key = entries[other].key => id = other
    /\ \A id \in details : Exists(id) /\ entries[id].type = "shift"
    /\ lastId \in 0 .. MaxEntries
    /\ \A id \in Ids : Exists(id) => id <= lastId
    /\ made \in [Ids -> {"none", "bare", "pool", "tx"}]

\* A shift that was to have details and is returned without them was created
\* on the pool, against the comment of CreateEntry, or is deleted by the time
\* it is returned: a reader of two statements never sees half a transaction.
BareShiftsAreGone ==
    \A r \in Slots :
        LET c == call[r]
        IN  c.at = "return" /\ c.result # None /\ c.result.row.type = "shift" /\ ~ c.result.full
            => made[c.id] \in {"bare", "pool"} \/ ~ Exists(c.id)

\* What CreateEntry and UpdateEntry return is what they have written, unless
\* they ran on the pool and another call has written the entry since.
WritersReturnTheirEntry ==
    \A r \in Slots :
        LET c == call[r]
        IN  c.at = "return" /\ c.op \in {"create", "update"}
            => c.result.row = c.row \/ (c.on = "pool" /\ c.overtaken)

\* Every call returns, even two updates that exchange their entries' keys.
EveryCallReturns ==
    \A r \in Slots : call[r].at # "idle" ~> call[r].at = "idle"

=============================================================================
