----------------------------- MODULE Attendance -----------------------------
(***************************************************************************)
(* Attendance of users at entries: the store function                      *)
(* BulkCreatePendingAttendance (internal/store/attendance.go), the queries *)
(* of internal/db/attendances.sql.go, and the tables attendances and       *)
(* substitution_requests.                                                  *)
(*                                                                         *)
(* No handler calls them yet: any goroutine may call any of them at any    *)
(* time.  A query is one statement and one step.  A batch is a pipeline of *)
(* INSERT statements that PostgreSQL runs as one implicit transaction,     *)
(* which it commits when it reads the pipeline's end.                      *)
(***************************************************************************)
EXTENDS Naturals, Sequences, FiniteSets, Functions

CONSTANTS
    Entries, Users,
    UserLists,  \* arguments userIDs of the batches
    Batches,    \* calls of BulkCreatePendingAttendance in flight
    Statuses,   \* statuses that callers set
    Absentees,  \* bound: users for whom a substitute is asked
    None        \* no row

ASSUME AttendanceAssumption ==
    /\ UserLists \subseteq Seq(Users)
    /\ Absentees \subseteq Users
    /\ Statuses \subseteq {"pending", "accepted", "declined", "needs_substitute", "replaced"}
    /\ "open" \notin Users
    /\ None \notin Users \cup {"open"}
    /\ None \notin [status : Statuses \cup {"pending"},
                    responded_at : {"null", "answered", "other"}]

VARIABLES
    entries,      \* ids in table entries
    attendances,  \* table attendances: (entry, user) -> row
    substitution, \* table substitution_requests, by attendance
    batch         \* the calls in flight and how the last one of each ended

vars == <<entries, attendances, substitution, batch>>

\* What responded_at holds: nothing, the time at which the status last
\* stopped being pending, or another time.
Times == {"null", "answered", "other"}

Rows == [status : Statuses \cup {"pending"}, responded_at : Times]

-----------------------------------------------------------------------------
(* Batches *)

\* A call that has returned: the count and the error it returned.
Returned(inserted, err) ==
    [at |-> "idle", entry |-> None, users |-> <<>>, next |-> 1, mine |-> {}, count |-> 0,
     deleted |-> {}, inserted |-> inserted, err |-> err]

\* A call whose pipeline of INSERTs is under way.
Sent(e, users) ==
    [at |-> "run", entry |-> e, users |-> users, next |-> 1, mine |-> {}, count |-> 0,
     deleted |-> {}, inserted |-> 0, err |-> FALSE]

Running(b) == batch[b].at = "run"

\* The user of the batch's next INSERT, if there is one.
Unsent(b) == Running(b) /\ batch[b].next <= Len(batch[b].users)
NextUser(b) == batch[b].users[batch[b].next]

\* The batch has inserted a row for this attendance and not yet committed.
Holds(b, e, u) == Running(b) /\ batch[b].entry = e /\ u \in batch[b].mine

Held(e, u) == \E b \in Batches : Holds(b, e, u)

\* The INSERT of b waits for c to commit or roll back.
WaitsFor(b, c) ==
    b # c /\ Unsent(b) /\ Holds(c, batch[b].entry, NextUser(b))

\* Mutant: no detector.
Deadlocked_Undetected == {}

\* The batches that wait for each other in a circle.
Deadlocked ==
    UNION {S \in SUBSET Batches :
              \A b \in S : /\ \E c \in S : WaitsFor(b, c)
                           /\ \E c \in S : WaitsFor(c, b)}

Init ==
    /\ entries = Entries
    /\ attendances = [k \in Entries \X Users |-> None]
    /\ substitution = [k \in Entries \X Users |-> None]
    /\ batch = [b \in Batches |-> Returned(0, FALSE)]

Call(b, e, users) ==
    /\ ~ Running(b)
    /\ batch' = [batch EXCEPT ![b] =
                    IF users = <<>> THEN Returned(0, FALSE) ELSE Sent(e, users)]
    /\ UNCHANGED <<entries, attendances, substitution>>

\* The INSERT's effect on the batch and on a row that is already there.
Inserts(b) ==
    batch' = [batch EXCEPT ![b].next = @ + 1, ![b].mine = @ \cup {NextUser(b)},
                           ![b].count = @ + 1]
\* Mutant: every result is counted, whatever its RowsAffected.
Skips_Counted(b) == batch' = [batch EXCEPT ![b].next = @ + 1, ![b].count = @ + 1]

Skips(b) == batch' = [batch EXCEPT ![b].next = @ + 1]

\* Mutant: a row that another transaction has not committed is skipped too.
InsertPending_SkipsUncommitted(b) ==
    /\ Unsent(b) /\ batch[b].entry \in entries
    /\ IF attendances[<<batch[b].entry, NextUser(b)>>] # None \/ Held(batch[b].entry, NextUser(b))
       THEN Skips(b) ELSE Inserts(b)
    /\ UNCHANGED <<entries, attendances, substitution>>

\* Mutant: ON CONFLICT DO UPDATE SET status = EXCLUDED.status.
InsertPending_Overwrites(b) ==
    /\ Unsent(b) /\ batch[b].entry \in entries
    /\ \A c \in Batches : ~ WaitsFor(b, c)
    /\ LET key == <<batch[b].entry, NextUser(b)>>
       IN  IF attendances[key] # None
           THEN Skips(b) /\ attendances' = [attendances EXCEPT ![key].status = "pending"]
           ELSE Inserts(b) /\ UNCHANGED attendances
    /\ UNCHANGED <<entries, substitution>>

\* INSERT ... ON CONFLICT DO NOTHING: waits for a row that another batch has
\* inserted, then skips or inserts.
InsertPending(b) ==
    /\ Unsent(b) /\ batch[b].entry \in entries
    /\ \A c \in Batches : ~ WaitsFor(b, c)
    /\ IF attendances[<<batch[b].entry, NextUser(b)>>] # None \/ NextUser(b) \in batch[b].mine
       THEN Skips(b) ELSE Inserts(b)
    /\ UNCHANGED <<entries, attendances, substitution>>

\* The entry is gone (foreign key), the connection is lost or the context is
\* cancelled: the transaction is rolled back, and the call returns the count
\* so far with the error.
InsertFails(b) ==
    /\ Unsent(b)
    /\ batch' = [batch EXCEPT ![b] = Returned(batch[b].count, TRUE)]
    /\ UNCHANGED <<entries, attendances, substitution>>

\* PostgreSQL's deadlock detector ends a batch of the circle.
AbortDeadlocked(b) ==
    /\ b \in Deadlocked
    /\ batch' = [batch EXCEPT ![b] = Returned(batch[b].count, TRUE)]
    /\ UNCHANGED <<entries, attendances, substitution>>

\* Every result has been read and the transaction commits.
Commit(b) ==
    /\ Running(b) /\ ~ Unsent(b)
    /\ attendances' = [k \in Entries \X Users |->
                          IF Holds(b, k[1], k[2])
                          THEN [status |-> "pending", responded_at |-> "null"]
                          ELSE attendances[k]]
    /\ batch' = [batch EXCEPT ![b] = Returned(batch[b].count, FALSE)]
    /\ UNCHANGED <<entries, substitution>>

\* The connection ends between the last result and the commit: the error is
\* the one of br.Close, which the deferred call drops.
CommitFails(b) ==
    /\ Running(b) /\ ~ Unsent(b)
    /\ batch' = [batch EXCEPT ![b] = Returned(batch[b].count, FALSE)]
    /\ UNCHANGED <<entries, attendances, substitution>>

-----------------------------------------------------------------------------
(* The single queries.  A statement that meets a row of an open batch waits *)
(* for it.                                                                  *)

CreateAttendance(e, u, status) ==
    /\ e \in entries /\ attendances[<<e, u>>] = None /\ ~ Held(e, u)
    /\ attendances' = [attendances EXCEPT ![<<e, u>>] =
                          [status |-> status, responded_at |-> "null"]]
    /\ UNCHANGED <<entries, substitution, batch>>

\* A row after an update to this status: now() unless it is pending.
Updated(row, status) ==
    [status |-> status,
     responded_at |-> IF status = "pending" THEN row.responded_at
                      ELSE IF row.status = "pending" THEN "answered" ELSE "other"]

\* UpdateAttendanceStatus and UpdateAttendanceStatusByEntryAndUser.
UpdateAttendanceStatus(e, u, status) ==
    /\ attendances[<<e, u>>] # None
    /\ attendances' = [attendances EXCEPT ![<<e, u>>] = Updated(@, status)]
    /\ UNCHANGED <<entries, substitution, batch>>

UpsertAttendance(e, u, status) ==
    /\ e \in entries /\ ~ Held(e, u)
    /\ attendances' = [attendances EXCEPT ![<<e, u>>] =
                          IF @ = None THEN [status |-> status, responded_at |-> "null"]
                          ELSE Updated(@, status)]
    /\ UNCHANGED <<entries, substitution, batch>>

\* History: the batches of the entry that have met these users note that
\* their rows are deleted.
Noted(e, us) ==
    batch' = [b \in Batches |->
                IF Running(b) /\ batch[b].entry = e
                THEN [batch[b] EXCEPT !.deleted =
                        @ \cup (us \cap {batch[b].users[i] : i \in 1 .. batch[b].next - 1})]
                ELSE batch[b]]

\* The substitution request goes with its attendance.
DeleteAttendance(e, u) ==
    /\ attendances[<<e, u>>] # None
    /\ attendances' = [attendances EXCEPT ![<<e, u>>] = None]
    /\ substitution' = [substitution EXCEPT ![<<e, u>>] = None]
    /\ Noted(e, {u})
    /\ UNCHANGED entries

CreateSubstitutionRequest(e, u) ==
    /\ u \in Absentees
    /\ attendances[<<e, u>>] # None /\ substitution[<<e, u>>] = None
    /\ substitution' = [substitution EXCEPT ![<<e, u>>] = "open"]
    /\ UNCHANGED <<entries, attendances, batch>>

\* One statement that asks for an open request: of two claims one finds none.
ClaimSubstitutionRequest(e, u, claimant) ==
    /\ substitution[<<e, u>>] = "open"
    /\ substitution' = [substitution EXCEPT ![<<e, u>>] = claimant]
    /\ UNCHANGED <<entries, attendances, batch>>

\* Waits for the batches that have inserted rows of the entry, and takes its
\* attendances and their substitution requests along.
DeleteEntry(e) ==
    /\ \A u \in Users : ~ Held(e, u)
    /\ entries' = entries \ {e}
    /\ attendances' = [k \in Entries \X Users |-> IF k[1] = e THEN None ELSE attendances[k]]
    /\ substitution' = [k \in Entries \X Users |-> IF k[1] = e THEN None ELSE substitution[k]]
    /\ Noted(e, Users)

-----------------------------------------------------------------------------

Proceed(b) ==
    InsertPending(b) \/ InsertFails(b) \/ AbortDeadlocked(b) \/ Commit(b) \/ CommitFails(b)

Query(e, u) ==
    \/ \E status \in Statuses :
        \/ CreateAttendance(e, u, status)
        \/ UpdateAttendanceStatus(e, u, status)
        \/ UpsertAttendance(e, u, status)
    \/ DeleteAttendance(e, u)
    \/ CreateSubstitutionRequest(e, u)
    \/ \E claimant \in Users : ClaimSubstitutionRequest(e, u, claimant)

Next ==
    \/ \E b \in Batches :
        \/ \E e \in Entries, users \in UserLists : Call(b, e, users)
        \/ Proceed(b)
    \/ \E e \in Entries, u \in Users : Query(e, u)
    \/ \E e \in Entries : DeleteEntry(e)

\* Statements that need not wait return, the detector runs after a second,
\* and a statement whose entry is gone fails.  An INSERT that waits for a row
\* is woken whenever the transaction that holds it ends; strong fairness says
\* that it is not overtaken for ever by new batches for the same row.
Fairness ==
    \A b \in Batches :
        /\ SF_vars(InsertPending(b))
        /\ WF_vars(AbortDeadlocked(b))
        /\ WF_vars(Commit(b) \/ CommitFails(b))
        /\ WF_vars(batch[b].entry \notin entries /\ InsertFails(b))

Spec == Init /\ [][Next]_vars /\ Fairness

-----------------------------------------------------------------------------
(* Properties *)

\* Rows are well formed, and a substitution request never outlives its
\* attendance.
TypeOK ==
    /\ entries \subseteq Entries
    /\ attendances \in [Entries \X Users -> Rows \cup {None}]
    /\ substitution \in [Entries \X Users -> Users \cup {"open", None}]
    /\ \A k \in Entries \X Users :
        /\ k[1] \notin entries => attendances[k] = None
        /\ attendances[k] = None => substitution[k] = None
    /\ \A b \in Batches : Running(b) => batch[b].count = Cardinality(batch[b].mine)

\* A batch never touches the answer of somebody who already has a row.
BatchKeepsAnswers ==
    [][\A b \in Batches : Running(b) /\ batch'[b] # batch[b]
        => \A k \in Entries \X Users :
              attendances[k] # None /\ attendances'[k] # None
              => attendances'[k] = attendances[k]]_vars

\* When a batch has committed, every user of its list has an attendance,
\* except those whose attendance was deleted while it ran, however it met
\* other batches that were rolled back.
EveryoneInvited ==
    [][\A b \in Batches :
        LET c == batch[b]
        IN  /\ Running(b) /\ ~ Running(b)' /\ ~ batch'[b].err
            /\ c.mine = {} \/ attendances' # attendances
            => \A u \in Range(c.users) \ c.deleted : attendances'[<<c.entry, u>>] # None]_vars

\* Every batch returns: two that wait for each other do not wait for ever.
EveryBatchReturns ==
    \A b \in Batches : Running(b) ~> ~ Running(b)

\* What the function's comment says: "Returns the number of records actually
\* inserted", here when it returns no error.
CountsInserted ==
    [][\A b \in Batches :
        Running(b) /\ ~ Running(b)' /\ ~ batch'[b].err
        => batch'[b].inserted =
             Cardinality({k \in Entries \X Users :
                            attendances[k] = None /\ attendances'[k] # None})]_vars

\* What the schema document says of responded_at: "When status last changed
\* from pending".
RespondedWhenLeavingPending ==
    \A k \in Entries \X Users : attendances[k] # None => attendances[k].responded_at # "other"

=============================================================================
