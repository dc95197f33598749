--------------------------- MODULE AttendanceProofs ---------------------------
(***************************************************************************)
(* What Attendance guarantees for any number of entries, users, batches    *)
(* and lists of users.                                                     *)
(***************************************************************************)
EXTENDS Attendance, SequenceTheorems, FiniteSetTheorems, WellFoundedInduction, TLAPS

-----------------------------------------------------------------------------
(* The inductive invariant *)

Keys == Entries \X Users

Calling ==
    [at : {"idle", "run"}, entry : Entries \cup {None}, users : Seq(Users), next : Nat,
     mine : SUBSET Users, count : Nat, deleted : SUBSET Users, inserted : Nat, err : BOOLEAN]

\* The tables agree with each other.
Tables ==
    /\ entries \subseteq Entries
    /\ attendances \in [Keys -> Rows \cup {None}]
    /\ substitution \in [Keys -> Users \cup {"open", None}]
    /\ \A k \in Keys :
        /\ k[1] \notin entries => attendances[k] = None
        /\ attendances[k] = None => substitution[k] = None

\* A batch counts the rows it has inserted.
RunTypes(b) ==
    LET c == batch[b]
    IN  Running(b) =>
            /\ c.entry \in Entries /\ c.next \in 1 .. Len(c.users) + 1
            /\ IsFiniteSet(c.mine) /\ c.count = Cardinality(c.mine)

\* Nobody else makes a row that the batch has inserted, and its entry stays.
Claims(b) ==
    \A u \in batch[b].mine :
        Running(b) => batch[b].entry \in entries /\ attendances[<<batch[b].entry, u>>] = None

\* Who has come up in the batch has a row, will have one with the commit, or
\* had one that was deleted.
Meets(b) ==
    LET c == batch[b]
    IN  \A i \in 1 .. c.next - 1 :
            Running(b) =>
                \/ c.users[i] \in c.mine \/ c.users[i] \in c.deleted
                \/ attendances[<<c.entry, c.users[i]>>] # None

\* No two batches have inserted one row.
Apart(b, c) ==
    Running(b) /\ Running(c) /\ batch[b].entry = batch[c].entry
    => batch[b].mine \cap batch[c].mine = {}

AttendanceInv ==
    /\ Tables
    /\ batch \in [Batches -> Calling]
    /\ \A b \in Batches : RunTypes(b) /\ Claims(b) /\ Meets(b)
    /\ \A b, c \in Batches : b # c => Apart(b, c)

LEMMA BatchFacts ==
    ASSUME AttendanceInv, NEW b \in Batches
    PROVE  /\ batch[b] \in Calling /\ RunTypes(b) /\ Claims(b) /\ Meets(b)
           /\ \A c \in Batches \ {b} : Apart(b, c)
           /\ \A next : [batch EXCEPT ![b] = next][b] = next
           /\ \A next : \A c \in Batches \ {b} : [batch EXCEPT ![b] = next][c] = batch[c]
BY DEF AttendanceInv

LEMMA ReturnedType ==
    ASSUME NEW inserted \in Nat, NEW err \in BOOLEAN, NEW next, next = Returned(inserted, err)
    PROVE  next \in Calling /\ next.at = "idle" /\ next.mine = {} /\ next.err = err
BY EmptySeq DEF Returned, Calling

-----------------------------------------------------------------------------
(* Steps of one batch *)

LEMMA OneBatch ==
    ASSUME AttendanceInv, UNCHANGED <<entries, attendances, substitution>>, NEW b \in Batches,
           NEW next \in Calling, batch' = [batch EXCEPT ![b] = next],
           RunTypes(b)', Claims(b)', Meets(b)', \A c \in Batches \ {b} : Apart(b, c)'
    PROVE  AttendanceInv'
<1>1. Tables'
    BY DEF AttendanceInv, Tables
<1>2. /\ batch' \in [Batches -> Calling] /\ \A c \in Batches \ {b} : batch'[c] = batch[c]
    BY DEF AttendanceInv
<1>3. ASSUME NEW c \in Batches PROVE RunTypes(c)' /\ Claims(c)' /\ Meets(c)'
    <2>1. CASE c # b
        BY <1>2, <2>1 DEF AttendanceInv, RunTypes, Claims, Meets, Running
    <2>2. QED
        BY <2>1
<1>4. ASSUME NEW c \in Batches, NEW d \in Batches, c # d PROVE Apart(c, d)'
    <2>1. CASE c = b
        BY <1>4, <2>1
    <2>2. CASE d = b
        <3>1. Apart(b, c)'
            BY <1>4, <2>2
        <3>2. QED
            BY <2>2, <3>1 DEF Apart
    <2>3. CASE c # b /\ d # b
        BY <1>2, <1>4, <2>3 DEF AttendanceInv, Apart, Running
    <2>4. QED
        BY <2>1, <2>2, <2>3
<1>5. QED
    BY <1>1, <1>2, <1>3, <1>4 DEF AttendanceInv

\* A call that has returned without changing a table.
LEMMA Returning ==
    ASSUME AttendanceInv, UNCHANGED <<entries, attendances, substitution>>, NEW b \in Batches,
           NEW next \in Calling, next.at = "idle", next.mine = {},
           batch' = [batch EXCEPT ![b] = next]
    PROVE  AttendanceInv'
<1>1. batch'[b] = next
    BY BatchFacts
<1>2. RunTypes(b)' /\ Claims(b)' /\ Meets(b)' /\ \A c \in Batches \ {b} : Apart(b, c)'
    BY <1>1 DEF RunTypes, Claims, Meets, Apart, Running
<1>3. QED
    BY <1>2, OneBatch

LEMMA CallInv ==
    ASSUME AttendanceInv, NEW b \in Batches, NEW e \in Entries, NEW users \in UserLists,
           Call(b, e, users)
    PROVE  AttendanceInv'
<1>1. UNCHANGED <<entries, attendances, substitution>>
    BY DEF Call
<1>2. CASE users = <<>>
    <2>1. PICK next : next = Returned(0, FALSE)
        OBVIOUS
    <2>2. batch' = [batch EXCEPT ![b] = next]
        BY <1>2, <2>1 DEF Call
    <2>3. next \in Calling /\ next.at = "idle" /\ next.mine = {}
        BY <2>1, ReturnedType
    <2>4. QED
        BY <1>1, <2>2, <2>3, Returning
<1>3. CASE users # <<>>
    <2>1. PICK next : next = Sent(e, users)
        OBVIOUS
    <2>2. batch' = [batch EXCEPT ![b] = next]
        BY <1>3, <2>1 DEF Call
    <2>3. users \in Seq(Users) /\ Len(users) \in Nat
        BY AttendanceAssumption, LenProperties
    <2>4. /\ next \in Calling /\ next.entry = e /\ next.next = 1 /\ next.users = users
          /\ next.mine = {} /\ next.count = 0
        BY <2>1, <2>3 DEF Calling, Sent
    <2>5. batch'[b] = next
        BY <2>2, BatchFacts
    <2>6. RunTypes(b)'
        <3>1. 1 \in 1 .. Len(users) + 1
            BY <2>3
        <3>2. IsFiniteSet({}) /\ Cardinality({}) = 0
            BY FS_EmptySet
        <3>3. QED
            BY <2>4, <2>5, <3>1, <3>2 DEF RunTypes
    <2>7. Claims(b)' /\ Meets(b)' /\ \A c \in Batches \ {b} : Apart(b, c)'
        BY <2>4, <2>5 DEF Claims, Meets, Apart
    <2>8. QED
        BY <1>1, <2>2, <2>4, <2>6, <2>7, OneBatch
<1>4. QED
    BY <1>2, <1>3

\* An INSERT that skips: the user has a row, or the batch has made one.
LEMMA SkipsInv ==
    ASSUME AttendanceInv, NEW b \in Batches, Unsent(b), Skips(b),
           UNCHANGED <<entries, attendances, substitution>>,
           attendances[<<batch[b].entry, NextUser(b)>>] # None \/ NextUser(b) \in batch[b].mine
    PROVE  AttendanceInv'
<1>1. PICK c \in Calling : c = batch[b]
    BY BatchFacts
<1>2. PICK next : next = [c EXCEPT !.next = c.next + 1]
    OBVIOUS
<1>3. batch' = [batch EXCEPT ![b] = next]
    BY <1>1, <1>2 DEF Skips
<1>4. /\ next \in Calling /\ next.next = c.next + 1 /\ next.entry = c.entry /\ next.at = c.at
      /\ next.users = c.users /\ next.mine = c.mine /\ next.count = c.count
      /\ next.deleted = c.deleted
    <2>1. PICK one \in Nat : one = c.next + 1
        BY DEF Calling
    <2>2. next = [c EXCEPT !.next = one]
        BY <1>2, <2>1
    <2>3. next \in Calling
        BY <2>2 DEF Calling
    <2>4. /\ next.next = one /\ next.entry = c.entry /\ next.at = c.at
          /\ next.users = c.users /\ next.mine = c.mine /\ next.count = c.count
          /\ next.deleted = c.deleted
        BY <2>2 DEF Calling
    <2>5. QED
        BY <2>1, <2>3, <2>4
<1>5. batch'[b] = next /\ \A d \in Batches \ {b} : batch'[d] = batch[d]
    BY <1>3, BatchFacts
<1>6. /\ RunTypes(b) /\ Claims(b) /\ Meets(b) /\ c.at = "run" /\ c.next <= Len(c.users)
      /\ Len(c.users) \in Nat /\ c.next \in Nat
    BY <1>1, BatchFacts, LenProperties DEF Unsent, Running, Calling
<1>7. RunTypes(b)' /\ Claims(b)'
    BY <1>1, <1>4, <1>5, <1>6 DEF RunTypes, Claims, Running
<1>8. Meets(b)'
    <2>1. ASSUME NEW i \in 1 .. c.next
          PROVE  \/ c.users[i] \in c.mine \/ c.users[i] \in c.deleted
                 \/ attendances[<<c.entry, c.users[i]>>] # None
        <3>1. CASE i = c.next
            BY <1>1, <3>1 DEF NextUser
        <3>2. CASE i \in 1 .. c.next - 1
            BY <1>1, <1>6, <3>2 DEF Meets, Running
        <3>3. QED
            BY <1>6, <3>1, <3>2
    <2>2. next.next - 1 = c.next
        BY <1>4, <1>6
    <2>3. QED
        BY <1>4, <1>5, <2>1, <2>2 DEF Meets
<1>9. ASSUME NEW d \in Batches \ {b} PROVE Apart(b, d)'
    <2>1. Apart(b, d)
        BY BatchFacts
    <2>2. QED
        BY <1>1, <1>4, <1>5, <2>1 DEF Apart, Running
<1>10. QED
    BY <1>3, <1>4, <1>7, <1>8, <1>9, OneBatch

\* The batch's INSERT makes a row: nobody has it, committed or not.
LEMMA InsertsInv ==
    ASSUME AttendanceInv, NEW b \in Batches, Unsent(b), Inserts(b),
           UNCHANGED <<entries, attendances, substitution>>,
           batch[b].entry \in entries, \A d \in Batches : ~ WaitsFor(b, d),
           attendances[<<batch[b].entry, NextUser(b)>>] = None, NextUser(b) \notin batch[b].mine
    PROVE  AttendanceInv'
<1>1. PICK c \in Calling, u \in {NextUser(b)} : c = batch[b] /\ u = NextUser(b)
    BY BatchFacts
<1>2. /\ RunTypes(b) /\ Claims(b) /\ Meets(b) /\ c.at = "run" /\ c.next <= Len(c.users)
      /\ Len(c.users) \in Nat /\ c.next \in Nat
    BY <1>1, BatchFacts, LenProperties DEF Unsent, Running, Calling
<1>3. /\ c.entry \in Entries /\ c.next \in 1 .. Len(c.users)
      /\ IsFiniteSet(c.mine) /\ c.count = Cardinality(c.mine)
    BY <1>1, <1>2 DEF RunTypes, Running
<1>4. u = c.users[c.next] /\ u \in Users
    BY <1>1, <1>3, ElementOfSeq DEF NextUser, Calling
<1>5. PICK more \in SUBSET Users : more = c.mine \cup {u}
    BY <1>4 DEF Calling
<1>6. PICK next : next = [at |-> c.at, entry |-> c.entry, users |-> c.users,
                          next |-> c.next + 1, mine |-> more, count |-> c.count + 1,
                          deleted |-> c.deleted, inserted |-> c.inserted, err |-> c.err]
    OBVIOUS
<1>7. /\ next \in Calling /\ next.next = c.next + 1 /\ next.entry = c.entry /\ next.at = c.at
      /\ next.users = c.users /\ next.mine = more /\ next.count = c.count + 1
      /\ next.deleted = c.deleted
    BY <1>6 DEF Calling
<1>8. batch' = [batch EXCEPT ![b] = next]
    BY <1>1, <1>5, <1>6 DEF Inserts, AttendanceInv, Calling
<1>9. batch'[b] = next /\ \A d \in Batches \ {b} : batch'[d] = batch[d]
    BY <1>8, BatchFacts
<1>10. RunTypes(b)'
    <2>1. IsFiniteSet(more) /\ Cardinality(more) = Cardinality(c.mine) + 1
        BY <1>1, <1>3, <1>5, FS_AddElement
    <2>2. c.next + 1 \in 1 .. Len(c.users) + 1
        BY <1>2, <1>3
    <2>3. QED
        BY <1>3, <1>7, <1>9, <2>1, <2>2 DEF RunTypes
<1>11. Claims(b)'
    <2>1. \A v \in more : attendances[<<c.entry, v>>] = None
        BY <1>1, <1>2, <1>5 DEF Claims, Running
    <2>2. QED
        BY <1>1, <1>7, <1>9, <2>1 DEF Claims
<1>12. Meets(b)'
    <2>1. ASSUME NEW i \in 1 .. c.next
          PROVE  \/ c.users[i] \in more \/ c.users[i] \in c.deleted
                 \/ attendances[<<c.entry, c.users[i]>>] # None
        <3>1. CASE i = c.next
            BY <1>4, <1>5, <3>1
        <3>2. CASE i \in 1 .. c.next - 1
            BY <1>1, <1>2, <1>5, <3>2 DEF Meets, Running
        <3>3. QED
            BY <1>2, <3>1, <3>2
    <2>2. next.next - 1 = c.next
        BY <1>2, <1>7
    <2>3. QED
        BY <1>7, <1>9, <2>1, <2>2 DEF Meets
<1>13. ASSUME NEW d \in Batches \ {b} PROVE Apart(b, d)'
    <2>1. Apart(b, d) /\ ~ WaitsFor(b, d)
        BY BatchFacts
    <2>2. Running(d) /\ batch[d].entry = c.entry => u \notin batch[d].mine
        BY <1>1, <2>1 DEF WaitsFor, Holds
    <2>3. QED
        BY <1>1, <1>5, <1>7, <1>9, <2>1, <2>2 DEF Apart, Running
<1>14. QED
    BY <1>7, <1>8, <1>10, <1>11, <1>12, <1>13, OneBatch

LEMMA InsertPendingInv ==
    ASSUME AttendanceInv, NEW b \in Batches, InsertPending(b)
    PROVE  AttendanceInv'
<1>1. /\ Unsent(b) /\ batch[b].entry \in entries /\ \A d \in Batches : ~ WaitsFor(b, d)
      /\ UNCHANGED <<entries, attendances, substitution>>
    BY DEF InsertPending
<1>2. CASE attendances[<<batch[b].entry, NextUser(b)>>] # None \/ NextUser(b) \in batch[b].mine
    BY <1>1, <1>2, SkipsInv DEF InsertPending
<1>3. CASE ~ (attendances[<<batch[b].entry, NextUser(b)>>] # None
              \/ NextUser(b) \in batch[b].mine)
    BY <1>1, <1>3, InsertsInv DEF InsertPending
<1>4. QED
    BY <1>2, <1>3

\* A batch that ends without its rows.
LEMMA LosesInv ==
    ASSUME AttendanceInv, NEW b \in Batches,
           InsertFails(b) \/ AbortDeadlocked(b) \/ CommitFails(b)
    PROVE  AttendanceInv'
<1>1. batch[b].count \in Nat
    BY BatchFacts DEF Calling
<1>2. PICK err \in BOOLEAN : batch' = [batch EXCEPT ![b] = Returned(batch[b].count, err)]
    BY DEF InsertFails, AbortDeadlocked, CommitFails
<1>3. PICK next \in Calling :
        next = Returned(batch[b].count, err) /\ next.at = "idle" /\ next.mine = {}
    BY <1>1, <1>2, ReturnedType
<1>4. UNCHANGED <<entries, attendances, substitution>>
    BY DEF InsertFails, AbortDeadlocked, CommitFails
<1>5. QED
    BY <1>2, <1>3, <1>4, Returning

PendingRow == [status |-> "pending", responded_at |-> "null"]

LEMMA PendingType == PendingRow \in Rows /\ PendingRow # None
<1>1. PendingRow \in Rows
    BY DEF PendingRow, Rows, Times
<1>2. None \notin Rows
    BY AttendanceAssumption DEF Rows, Times
<1>3. QED
    BY <1>1, <1>2

\* What a batch holds is not there yet.
LEMMA HoldsNone ==
    ASSUME AttendanceInv, NEW b \in Batches, NEW k \in Keys, Holds(b, k[1], k[2])
    PROVE  attendances[k] = None /\ k[1] \in entries
<1>1. k = <<k[1], k[2]>>
    BY DEF Keys
<1>2. QED
    BY <1>1, BatchFacts DEF Holds, Claims

\* Who has come up in a batch is one of the users.
LEMMA MetIsKey ==
    ASSUME AttendanceInv, NEW b \in Batches, Running(b), NEW i \in 1 .. batch[b].next - 1
    PROVE  <<batch[b].entry, batch[b].users[i]>> \in Keys
<1>1. PICK c \in Calling : c = batch[b]
    BY BatchFacts
<1>2. c.entry \in Entries /\ c.next \in 1 .. Len(c.users) + 1
    BY <1>1, BatchFacts DEF RunTypes
<1>3. Len(c.users) \in Nat /\ c.users \in Seq(Users)
    BY LenProperties DEF Calling
<1>4. i \in 1 .. Len(c.users)
    BY <1>1, <1>2, <1>3
<1>5. c.users[i] \in Users
    BY <1>3, <1>4, ElementOfSeq
<1>6. QED
    BY <1>1, <1>2, <1>5 DEF Keys

LEMMA CommitInv ==
    ASSUME AttendanceInv, NEW b \in Batches, Commit(b)
    PROVE  AttendanceInv'
<1>1. /\ \A k \in Keys : attendances'[k] = IF Holds(b, k[1], k[2]) THEN PendingRow
                                          ELSE attendances[k]
      /\ attendances' = [k \in Keys |-> attendances'[k]]
      /\ UNCHANGED <<entries, substitution>>
    BY DEF Commit, Keys, PendingRow
<1>2. PICK next : next = Returned(batch[b].count, FALSE) /\ batch' = [batch EXCEPT ![b] = next]
    BY DEF Commit
<1>3. next \in Calling /\ next.at = "idle" /\ next.mine = {}
    <2>1. batch[b].count \in Nat
        BY BatchFacts DEF Calling
    <2>2. QED
        BY <1>2, <2>1, ReturnedType
<1>4. batch'[b] = next /\ \A c \in Batches \ {b} : batch'[c] = batch[c]
    BY <1>2 DEF AttendanceInv
<1>5. Tables'
    <2>1. Tables
        BY DEF AttendanceInv
    <2>2. \A k \in Keys : attendances'[k] \in Rows \cup {None}
        BY <1>1, <2>1, PendingType DEF Tables
    <2>3. ASSUME NEW k \in Keys
          PROVE  /\ k[1] \notin entries => attendances'[k] = None
                 /\ attendances'[k] = None => substitution[k] = None
        BY <1>1, <2>1, HoldsNone, PendingType DEF Tables
    <2>4. attendances' \in [Keys -> Rows \cup {None}]
        BY <1>1, <2>2
    <2>5. QED
        BY <1>1, <2>1, <2>3, <2>4 DEF Tables
<1>6. batch' \in [Batches -> Calling]
    BY <1>2, <1>3 DEF AttendanceInv
<1>7. ASSUME NEW c \in Batches PROVE RunTypes(c)' /\ Claims(c)' /\ Meets(c)'
    <2>1. CASE c = b
        BY <1>3, <1>4, <2>1 DEF RunTypes, Claims, Meets, Running
    <2>2. CASE c # b
        <3>1. PICK d \in Calling : d = batch[c] /\ d = batch'[c]
            BY <1>4, <2>2, BatchFacts
        <3>2. RunTypes(c) /\ Claims(c) /\ Meets(c) /\ Apart(b, c)
            BY <2>2, BatchFacts
        <3>3. RunTypes(c)'
            BY <3>1, <3>2 DEF RunTypes, Running
        <3>4. ASSUME Running(c), NEW u \in d.mine
              PROVE  d.entry \in entries' /\ attendances'[<<d.entry, u>>] = None
            <4>1. d.entry \in entries /\ attendances[<<d.entry, u>>] = None
                BY <3>1, <3>2, <3>4 DEF Claims
            <4>2. <<d.entry, u>> \in Keys
                BY <3>1, <4>1 DEF Keys, Calling, AttendanceInv, Tables
            <4>3. ~ Holds(b, d.entry, u)
                BY <3>1, <3>2, <3>4 DEF Holds, Apart
            <4>4. QED
                BY <1>1, <4>1, <4>2, <4>3
        <3>5. Claims(c)'
            BY <3>1, <3>4 DEF Claims, Running
        <3>6. ASSUME Running(c), NEW i \in 1 .. d.next - 1
              PROVE  \/ d.users[i] \in d.mine \/ d.users[i] \in d.deleted
                     \/ attendances'[<<d.entry, d.users[i]>>] # None
            <4>1. \/ d.users[i] \in d.mine \/ d.users[i] \in d.deleted
                  \/ attendances[<<d.entry, d.users[i]>>] # None
                BY <3>1, <3>2, <3>6 DEF Meets
            <4>2. <<d.entry, d.users[i]>> \in Keys
                BY <3>1, <3>6, MetIsKey
            <4>3. QED
                BY <1>1, <4>1, <4>2, PendingType
        <3>7. Meets(c)'
            BY <3>1, <3>6 DEF Meets, Running
        <3>8. QED
            BY <3>3, <3>5, <3>7
    <2>3. QED
        BY <2>1, <2>2
<1>8. ASSUME NEW c \in Batches, NEW d \in Batches, c # d PROVE Apart(c, d)'
    <2>1. CASE c = b \/ d = b
        BY <1>3, <1>4, <2>1 DEF Apart, Running
    <2>2. CASE c # b /\ d # b
        BY <1>4, <1>8, <2>2 DEF AttendanceInv, Apart, Running
    <2>3. QED
        BY <2>1, <2>2
<1>9. QED
    BY <1>5, <1>6, <1>7, <1>8 DEF AttendanceInv

-----------------------------------------------------------------------------
(* The single queries *)

\* A row appears or changes that no batch holds.
LEMMA OneRow ==
    ASSUME AttendanceInv, UNCHANGED <<entries, substitution, batch>>, NEW k \in Keys,
           NEW row \in Rows, attendances' = [attendances EXCEPT ![k] = row],
           k[1] \in entries, \A b \in Batches : ~ Holds(b, k[1], k[2])
    PROVE  AttendanceInv'
<1>1. row # None
    BY AttendanceAssumption DEF Rows, Times
<1>2. attendances \in [Keys -> Rows \cup {None}]
    BY DEF AttendanceInv, Tables
<1>3. attendances'[k] = row /\ \A other \in Keys \ {k} : attendances'[other] = attendances[other]
    BY <1>2
<1>4. Tables'
    <2>1. Tables
        BY DEF AttendanceInv
    <2>2. attendances' \in [Keys -> Rows \cup {None}]
        BY <1>2
    <2>3. ASSUME NEW other \in Keys
          PROVE  /\ other[1] \notin entries => attendances'[other] = None
                 /\ attendances'[other] = None => substitution[other] = None
        BY <1>1, <1>3, <2>1 DEF Tables
    <2>4. QED
        BY <2>1, <2>2, <2>3 DEF Tables
<1>5. ASSUME NEW b \in Batches PROVE RunTypes(b)' /\ Claims(b)' /\ Meets(b)'
    <2>1. PICK c \in Calling : c = batch[b] /\ c = batch'[b]
        BY BatchFacts
    <2>2. RunTypes(b) /\ Claims(b) /\ Meets(b)
        BY BatchFacts
    <2>3. RunTypes(b)'
        BY <2>1, <2>2 DEF RunTypes, Running
    <2>4. ASSUME Running(b), NEW u \in c.mine
          PROVE  c.entry \in entries' /\ attendances'[<<c.entry, u>>] = None
        <3>1. c.entry \in entries /\ attendances[<<c.entry, u>>] = None
            BY <2>1, <2>2, <2>4 DEF Claims
        <3>2. <<c.entry, u>> \in Keys
            BY <2>1, <3>1 DEF Keys, Calling, AttendanceInv, Tables
        <3>3. <<c.entry, u>> # k
            BY <2>1, <2>4 DEF Holds
        <3>4. QED
            BY <1>3, <3>1, <3>2, <3>3
    <2>5. Claims(b)'
        BY <2>1, <2>4 DEF Claims, Running
    <2>6. ASSUME Running(b), NEW i \in 1 .. c.next - 1
          PROVE  \/ c.users[i] \in c.mine \/ c.users[i] \in c.deleted
                 \/ attendances'[<<c.entry, c.users[i]>>] # None
        <3>1. \/ c.users[i] \in c.mine \/ c.users[i] \in c.deleted
              \/ attendances[<<c.entry, c.users[i]>>] # None
            BY <2>1, <2>2, <2>6 DEF Meets
        <3>2. <<c.entry, c.users[i]>> \in Keys
            BY <2>1, <2>6, MetIsKey
        <3>3. QED
            BY <1>1, <1>3, <3>1, <3>2
    <2>7. Meets(b)'
        BY <2>1, <2>6 DEF Meets, Running
    <2>8. QED
        BY <2>3, <2>5, <2>7
<1>6. ASSUME NEW b \in Batches, NEW c \in Batches, b # c PROVE Apart(b, c)'
    BY <1>6 DEF AttendanceInv, Apart, Running
<1>7. QED
    BY <1>4, <1>5, <1>6 DEF AttendanceInv

\* Only the substitution requests change.
LEMMA OnlySubstitution ==
    ASSUME AttendanceInv, UNCHANGED <<entries, attendances, batch>>, NEW k \in Keys,
           NEW claimant \in Users \cup {"open"},
           substitution' = [substitution EXCEPT ![k] = claimant], attendances[k] # None
    PROVE  AttendanceInv'
<1>1. Tables
    BY DEF AttendanceInv
<1>2. Tables'
    <2>1. substitution' \in [Keys -> Users \cup {"open", None}]
        BY <1>1 DEF Tables
    <2>2. \A other \in Keys \ {k} : substitution'[other] = substitution[other]
        BY <1>1 DEF Tables
    <2>3. QED
        BY <1>1, <2>1, <2>2 DEF Tables
<1>3. \A b \in Batches : RunTypes(b)' /\ Claims(b)' /\ Meets(b)'
    BY DEF AttendanceInv, RunTypes, Claims, Meets, Running
<1>4. \A b, c \in Batches : b # c => Apart(b, c)'
    BY DEF AttendanceInv, Apart, Running
<1>5. QED
    BY <1>2, <1>3, <1>4 DEF AttendanceInv

\* A row's update is a row.
LEMMA UpdatedType ==
    ASSUME NEW row \in Rows, NEW status \in Statuses
    PROVE  Updated(row, status) \in Rows
BY DEF Updated, Rows, Times

LEMMA NewRowType ==
    ASSUME NEW status \in Statuses
    PROVE  [status |-> status, responded_at |-> "null"] \in Rows
BY DEF Rows, Times

\* A row that is there is in a table and held by nobody.
LEMMA ThereIsFree ==
    ASSUME AttendanceInv, NEW k \in Keys, attendances[k] # None
    PROVE  attendances[k] \in Rows /\ k[1] \in entries /\ \A b \in Batches : ~ Holds(b, k[1], k[2])
BY HoldsNone DEF AttendanceInv, Tables

LEMMA WritesInv ==
    ASSUME AttendanceInv, NEW e \in Entries, NEW u \in Users, NEW status \in Statuses,
           \/ CreateAttendance(e, u, status) \/ UpdateAttendanceStatus(e, u, status)
           \/ UpsertAttendance(e, u, status)
    PROVE  AttendanceInv'
<1>1. PICK k \in Keys : k = <<e, u>> /\ k[1] = e /\ k[2] = u
    <2>1. <<e, u>> \in Keys
        BY DEF Keys
    <2>2. QED
        BY <2>1
<1>2. UNCHANGED <<entries, substitution, batch>>
    BY DEF CreateAttendance, UpdateAttendanceStatus, UpsertAttendance
<1>3. PICK fresh \in Rows : fresh = [status |-> status, responded_at |-> "null"]
    BY NewRowType
<1>4. CASE e \in entries /\ ~ Held(e, u) /\ attendances' = [attendances EXCEPT ![k] = fresh]
    BY <1>1, <1>2, <1>4, OneRow DEF Held
<1>5. CASE attendances[k] # None
           /\ attendances' = [attendances EXCEPT ![k] = Updated(attendances[k], status)]
    <2>1. PICK row \in Rows : row = Updated(attendances[k], status)
        BY <1>5, ThereIsFree, UpdatedType
    <2>2. k[1] \in entries /\ \A b \in Batches : ~ Holds(b, k[1], k[2])
        BY <1>5, ThereIsFree
    <2>3. QED
        BY <1>2, <1>5, <2>1, <2>2, OneRow
<1>6. CASE CreateAttendance(e, u, status)
    BY <1>1, <1>3, <1>4, <1>6 DEF CreateAttendance
<1>7. CASE UpdateAttendanceStatus(e, u, status)
    BY <1>1, <1>5, <1>7 DEF UpdateAttendanceStatus
<1>8. CASE UpsertAttendance(e, u, status)
    <2>1. CASE attendances[k] = None
        BY <1>1, <1>3, <1>4, <1>8, <2>1 DEF UpsertAttendance
    <2>2. CASE attendances[k] # None
        BY <1>1, <1>5, <1>8, <2>2 DEF UpsertAttendance
    <2>3. QED
        BY <2>1, <2>2
<1>9. QED
    BY <1>6, <1>7, <1>8

LEMMA SubstitutesInv ==
    ASSUME AttendanceInv, NEW e \in Entries, NEW u \in Users,
           \/ CreateSubstitutionRequest(e, u)
           \/ \E claimant \in Users : ClaimSubstitutionRequest(e, u, claimant)
    PROVE  AttendanceInv'
<1>1. PICK k \in Keys : k = <<e, u>>
    BY DEF Keys
<1>2. UNCHANGED <<entries, attendances, batch>>
    BY DEF CreateSubstitutionRequest, ClaimSubstitutionRequest
<1>3. PICK claimant \in Users \cup {"open"} : substitution' = [substitution EXCEPT ![k] = claimant]
    BY <1>1 DEF CreateSubstitutionRequest, ClaimSubstitutionRequest
<1>4. attendances[k] # None
    BY <1>1, AttendanceAssumption
    DEF CreateSubstitutionRequest, ClaimSubstitutionRequest, AttendanceInv, Tables
<1>5. QED
    BY <1>2, <1>3, <1>4, OnlySubstitution

\* What a deletion notes in a batch: the users that have come up in it.
LEMMA NotedFacts ==
    ASSUME AttendanceInv, NEW e \in Entries, NEW us \in SUBSET Users, Noted(e, us)
    PROVE  /\ batch' \in [Batches -> Calling]
           /\ \A b \in Batches :
                /\ batch'[b].at = batch[b].at /\ batch'[b].entry = batch[b].entry
                /\ batch'[b].users = batch[b].users /\ batch'[b].next = batch[b].next
                /\ batch'[b].mine = batch[b].mine /\ batch'[b].count = batch[b].count
                /\ batch[b].deleted \subseteq batch'[b].deleted
                /\ Running(b) /\ batch[b].entry = e =>
                    \A i \in 1 .. batch[b].next - 1 :
                        batch[b].users[i] \in us => batch'[b].users[i] \in batch'[b].deleted
<1> DEFINE met(b) == us \cap {batch[b].users[i] : i \in 1 .. batch[b].next - 1}
           after(b) == [batch[b] EXCEPT !.deleted = batch[b].deleted \cup met(b)]
<1>1. batch' = [b \in Batches |->
                  IF Running(b) /\ batch[b].entry = e THEN after(b) ELSE batch[b]]
    BY DEF Noted
<1>2. ASSUME NEW b \in Batches
      PROVE  /\ batch'[b] \in Calling
             /\ batch'[b].at = batch[b].at /\ batch'[b].entry = batch[b].entry
             /\ batch'[b].users = batch[b].users /\ batch'[b].next = batch[b].next
             /\ batch'[b].mine = batch[b].mine /\ batch'[b].count = batch[b].count
             /\ batch[b].deleted \subseteq batch'[b].deleted
             /\ Running(b) /\ batch[b].entry = e => met(b) \subseteq batch'[b].deleted
    <2>1. PICK c \in Calling : c = batch[b]
        BY BatchFacts
    <2>2. PICK m \in SUBSET Users : m = met(b)
        OBVIOUS
    <2>3. CASE Running(b) /\ batch[b].entry = e
        <3>1. batch'[b] = [c EXCEPT !.deleted = c.deleted \cup m]
            BY <1>1, <2>1, <2>2, <2>3
        <3>2. QED
            BY <2>1, <2>2, <3>1 DEF Calling
    <2>4. CASE ~ (Running(b) /\ batch[b].entry = e)
        BY <1>1, <2>1, <2>4
    <2>5. QED
        BY <2>3, <2>4
<1>3. ASSUME NEW b \in Batches, Running(b), batch[b].entry = e,
             NEW i \in 1 .. batch[b].next - 1, batch[b].users[i] \in us
      PROVE  batch'[b].users[i] \in batch'[b].deleted
    <2>1. batch[b].users[i] \in met(b)
        BY <1>3
    <2>2. QED
        BY <1>2, <1>3, <2>1
<1>4. batch' \in [Batches -> Calling]
    BY <1>1, <1>2
<1>5. QED
    BY <1>2, <1>3, <1>4

\* Rows of one entry go, and no batch that has inserted rows of an entry
\* loses the entry.
LEMMA DeletesInv ==
    ASSUME AttendanceInv, NEW e \in Entries, NEW us \in SUBSET Users, Noted(e, us),
           entries' \subseteq entries,
           attendances' = [k \in Keys |-> IF k[1] = e /\ k[2] \in us THEN None ELSE attendances[k]],
           substitution' = [k \in Keys |-> IF k[1] = e /\ k[2] \in us THEN None ELSE substitution[k]],
           \A k \in Keys : k[1] \in entries \ entries' => k[1] = e /\ us = Users,
           \A b \in Batches : \A u \in Users : Holds(b, e, u) => e \in entries'
    PROVE  AttendanceInv'
<1>1. Tables /\ batch' \in [Batches -> Calling]
    BY NotedFacts DEF AttendanceInv
<1>2. Tables'
    <2>1. /\ attendances' \in [Keys -> Rows \cup {None}]
          /\ substitution' \in [Keys -> Users \cup {"open", None}]
        BY <1>1 DEF Tables
    <2>2. ASSUME NEW k \in Keys
          PROVE  /\ k[1] \notin entries' => attendances'[k] = None
                 /\ attendances'[k] = None => substitution'[k] = None
        <3>1. CASE k[1] = e /\ k[2] \in us
            BY <3>1
        <3>2. CASE ~ (k[1] = e /\ k[2] \in us)
            <4>1. attendances'[k] = attendances[k] /\ substitution'[k] = substitution[k]
                BY <3>2
            <4>2. k[2] \in Users
                BY DEF Keys
            <4>3. k[1] \notin entries' => k[1] \notin entries
                BY <3>2, <4>2
            <4>4. QED
                BY <1>1, <4>1, <4>3 DEF Tables
        <3>3. QED
            BY <3>1, <3>2
    <2>3. QED
        BY <1>1, <2>1, <2>2 DEF Tables
<1>3. ASSUME NEW b \in Batches PROVE RunTypes(b)' /\ Claims(b)' /\ Meets(b)'
    <2>1. PICK c \in Calling, d \in Calling : c = batch[b] /\ d = batch'[b]
        BY <1>1, BatchFacts
    <2>2. /\ d.at = c.at /\ d.entry = c.entry /\ d.users = c.users /\ d.next = c.next
          /\ d.mine = c.mine /\ d.count = c.count /\ c.deleted \subseteq d.deleted
        BY <2>1, NotedFacts
    <2>3. RunTypes(b) /\ Claims(b) /\ Meets(b)
        BY BatchFacts
    <2>4. RunTypes(b)'
        BY <2>1, <2>2, <2>3 DEF RunTypes, Running
    <2>5. ASSUME Running(b), NEW u \in c.mine
          PROVE  c.entry \in entries' /\ attendances'[<<c.entry, u>>] = None
        <3>1. c.entry \in entries /\ attendances[<<c.entry, u>>] = None
            BY <2>1, <2>3, <2>5 DEF Claims
        <3>2. <<c.entry, u>> \in Keys /\ u \in Users
            BY <1>1, <2>1, <3>1 DEF Keys, Calling, Tables
        <3>3. attendances'[<<c.entry, u>>] = None
            BY <3>1, <3>2
        <3>4. c.entry \in entries'
            <4>1. CASE c.entry = e
                BY <2>1, <2>5, <3>2, <4>1 DEF Holds
            <4>2. CASE c.entry # e
                BY <3>1, <3>2, <4>2
            <4>3. QED
                BY <4>1, <4>2
        <3>5. QED
            BY <3>3, <3>4
    <2>6. Claims(b)'
        BY <2>1, <2>2, <2>5 DEF Claims, Running
    <2>7. ASSUME Running(b), NEW i \in 1 .. c.next - 1
          PROVE  \/ c.users[i] \in c.mine \/ c.users[i] \in d.deleted
                 \/ attendances'[<<c.entry, c.users[i]>>] # None
        <3>1. \/ c.users[i] \in c.mine \/ c.users[i] \in c.deleted
              \/ attendances[<<c.entry, c.users[i]>>] # None
            BY <2>1, <2>3, <2>7 DEF Meets
        <3>2. <<c.entry, c.users[i]>> \in Keys
            BY <2>1, <2>7, MetIsKey
        <3>3. CASE c.entry = e /\ c.users[i] \in us
            BY <2>1, <2>2, <2>7, <3>3, NotedFacts
        <3>4. CASE ~ (c.entry = e /\ c.users[i] \in us)
            BY <2>2, <3>1, <3>2, <3>4
        <3>5. QED
            BY <3>3, <3>4
    <2>8. Meets(b)'
        BY <2>1, <2>2, <2>7 DEF Meets, Running
    <2>9. QED
        BY <2>4, <2>6, <2>8
<1>4. ASSUME NEW b \in Batches, NEW c \in Batches, b # c PROVE Apart(b, c)'
    BY <1>4, NotedFacts DEF AttendanceInv, Apart, Running
<1>5. QED
    BY <1>1, <1>2, <1>3, <1>4 DEF AttendanceInv

LEMMA DeleteAttendanceInv ==
    ASSUME AttendanceInv, NEW e \in Entries, NEW u \in Users, DeleteAttendance(e, u)
    PROVE  AttendanceInv'
<1>1. Noted(e, {u}) /\ entries' = entries
    BY DEF DeleteAttendance
<1>2. Tables
    BY DEF AttendanceInv
<1>3. \A k \in Keys : k = <<e, u>> <=> k[1] = e /\ k[2] \in {u}
    BY DEF Keys
<1>4. /\ attendances' = [k \in Keys |-> IF k[1] = e /\ k[2] \in {u} THEN None ELSE attendances[k]]
      /\ substitution' = [k \in Keys |-> IF k[1] = e /\ k[2] \in {u} THEN None ELSE substitution[k]]
    BY <1>2, <1>3 DEF DeleteAttendance, Tables
<1>5. attendances[<<e, u>>] # None /\ <<e, u>> \in Keys
    BY DEF DeleteAttendance, Keys
<1>6. e \in entries
    BY <1>2, <1>5 DEF Tables
<1>7. QED
    BY <1>1, <1>4, <1>6, DeletesInv

LEMMA DeleteEntryInv ==
    ASSUME AttendanceInv, NEW e \in Entries, DeleteEntry(e)
    PROVE  AttendanceInv'
<1>1. Noted(e, Users) /\ entries' = entries \ {e} /\ \A u \in Users : ~ Held(e, u)
    BY DEF DeleteEntry
<1>2. /\ attendances' = [k \in Keys |-> IF k[1] = e /\ k[2] \in Users THEN None ELSE attendances[k]]
      /\ substitution' = [k \in Keys |-> IF k[1] = e /\ k[2] \in Users THEN None ELSE substitution[k]]
    BY DEF DeleteEntry, Keys
<1>3. \A b \in Batches : \A u \in Users : ~ Holds(b, e, u)
    BY <1>1 DEF Held
<1>4. entries' \subseteq entries /\ \A k \in Keys : k[1] \in entries \ entries' => k[1] = e
    BY <1>1
<1>5. QED
    BY <1>1, <1>2, <1>3, <1>4, DeletesInv

-----------------------------------------------------------------------------
(* The specification *)

LEMMA InitInv == Init => AttendanceInv
<1>1. SUFFICES ASSUME Init PROVE AttendanceInv
    OBVIOUS
<1>2. PICK idle : idle = Returned(0, FALSE)
    OBVIOUS
<1>3. idle \in Calling /\ idle.at = "idle"
    BY <1>2, ReturnedType
<1>4. batch = [b \in Batches |-> idle]
    BY <1>1, <1>2 DEF Init
<1>5. Tables
    BY <1>1 DEF Init, Tables, Keys
<1>6. QED
    BY <1>3, <1>4, <1>5 DEF AttendanceInv, RunTypes, Claims, Meets, Apart, Running

LEMMA StepInv == AttendanceInv /\ [Next]_vars => AttendanceInv'
<1>1. SUFFICES ASSUME AttendanceInv, [Next]_vars PROVE AttendanceInv'
    OBVIOUS
<1>2. ASSUME NEW b \in Batches, NEW e \in Entries, NEW users \in UserLists, Call(b, e, users)
      PROVE  AttendanceInv'
    BY <1>1, <1>2, CallInv
<1>3. ASSUME NEW b \in Batches, Proceed(b) PROVE AttendanceInv'
    BY <1>1, <1>3, InsertPendingInv, LosesInv, CommitInv DEF Proceed
<1>4. ASSUME NEW e \in Entries, NEW u \in Users, Query(e, u) PROVE AttendanceInv'
    <2>1. CASE \E status \in Statuses :
                    \/ CreateAttendance(e, u, status) \/ UpdateAttendanceStatus(e, u, status)
                    \/ UpsertAttendance(e, u, status)
        BY <1>1, <2>1, WritesInv
    <2>2. CASE DeleteAttendance(e, u)
        BY <1>1, <2>2, DeleteAttendanceInv
    <2>3. CASE \/ CreateSubstitutionRequest(e, u)
               \/ \E claimant \in Users : ClaimSubstitutionRequest(e, u, claimant)
        BY <1>1, <2>3, SubstitutesInv
    <2>4. QED
        BY <1>4, <2>1, <2>2, <2>3 DEF Query
<1>5. ASSUME NEW e \in Entries, DeleteEntry(e) PROVE AttendanceInv'
    BY <1>1, <1>5, DeleteEntryInv
<1>6. CASE UNCHANGED vars
    BY <1>1, <1>6
    DEF vars, AttendanceInv, Tables, RunTypes, Claims, Meets, Apart, Running
<1>7. QED
    BY <1>1, <1>2, <1>3, <1>4, <1>5, <1>6 DEF Next

\* The inductive invariant holds in every behaviour.
THEOREM AttendanceInvariance == Spec => []AttendanceInv
<1>1. QED
    BY InitInv, StepInv, PTL DEF Spec

\* Tables and batches stay well formed, no substitution request outlives its
\* attendance, and a batch counts just the rows it has inserted, for any
\* number of concurrent calls of BulkCreatePendingAttendance and queries.
THEOREM AttendanceTypeCorrect == Spec => []TypeOK
<1>1. AttendanceInv => TypeOK
    BY DEF AttendanceInv, Tables, RunTypes, TypeOK, Keys
<1>2. QED
    BY <1>1, AttendanceInvariance, PTL

-----------------------------------------------------------------------------
(* What batches do to attendances *)

\* BulkCreatePendingAttendance never touches the answer of somebody who
\* already has a row: ON CONFLICT DO NOTHING, and what it commits was not
\* there before.
THEOREM AnswersKept == Spec => BatchKeepsAnswers
<1> DEFINE Kept == \A b \in Batches : Running(b) /\ batch'[b] # batch[b]
                    => \A k \in Entries \X Users :
                          attendances[k] # None /\ attendances'[k] # None
                          => attendances'[k] = attendances[k]
<1>1. ASSUME AttendanceInv, [Next]_vars PROVE Kept
    <2>1. CASE UNCHANGED attendances
        BY <2>1
    <2>2. CASE \E b \in Batches : Commit(b)
        <3>1. PICK c \in Batches : Commit(c)
            BY <2>2
        <3>2. \A k \in Keys : attendances'[k] = IF Holds(c, k[1], k[2]) THEN PendingRow
                                              ELSE attendances[k]
            BY <3>1 DEF Commit, Keys, PendingRow
        <3>3. QED
            BY <1>1, <3>2, HoldsNone DEF Keys
    <2>3. CASE UNCHANGED batch
        BY <2>3
    <2>4. CASE \E e \in Entries, u \in Users : DeleteAttendance(e, u)
        <3>1. PICK e \in Entries, u \in Users : DeleteAttendance(e, u)
            BY <2>4
        <3>2. Tables
            BY <1>1 DEF AttendanceInv
        <3>3. attendances' = [attendances EXCEPT ![<<e, u>>] = None]
            BY <3>1 DEF DeleteAttendance
        <3>4. \A k \in Keys : attendances'[k] = None \/ attendances'[k] = attendances[k]
            BY <3>2, <3>3 DEF Tables
        <3>5. QED
            BY <3>4 DEF Keys
    <2>5. CASE \E e \in Entries : DeleteEntry(e)
        BY <2>5 DEF DeleteEntry
    <2>6. QED
        BY <1>1, <2>1, <2>2, <2>3, <2>4, <2>5
        DEF Next, vars, Proceed, Query, Call, InsertPending, InsertFails, AbortDeadlocked,
            CommitFails, CreateAttendance, UpdateAttendanceStatus, UpsertAttendance,
            CreateSubstitutionRequest, ClaimSubstitutionRequest
<1>2. QED
    BY <1>1, AttendanceInvariance, PTL DEF Spec, BatchKeepsAnswers

\* A call that returns without an error either committed or lost its
\* connection after the last result.
LEMMA GoodEnds ==
    ASSUME AttendanceInv, [Next]_vars, NEW b \in Batches, Running(b), ~ Running(b)',
           ~ batch'[b].err
    PROVE  Commit(b) \/ CommitFails(b)
<1>1. batch'[b] # batch[b]
    BY DEF Running
<1>2. PICK inserted \in Nat : inserted = batch[b].count
    BY BatchFacts DEF Calling
<1>3. ASSUME NEW c \in Batches, Proceed(c) PROVE Commit(b) \/ CommitFails(b)
    <2>1. CASE c # b
        <3>1. batch'[b] = batch[b]
            BY <1>3, <2>1
            DEF Proceed, InsertPending, InsertFails, AbortDeadlocked, Commit, CommitFails,
                Skips, Inserts, AttendanceInv
        <3>2. QED
            BY <1>1, <3>1
    <2>2. CASE c = b /\ InsertPending(b)
        <3>1. batch'[b].at = batch[b].at
            BY <2>2, BatchFacts DEF InsertPending, Skips, Inserts, AttendanceInv, Calling
        <3>2. QED
            BY <3>1 DEF Running
    <2>3. CASE c = b /\ (InsertFails(b) \/ AbortDeadlocked(b))
        <3>1. batch'[b] = Returned(inserted, TRUE)
            BY <1>2, <2>3 DEF InsertFails, AbortDeadlocked, AttendanceInv
        <3>2. batch'[b].err = TRUE
            BY <3>1, ReturnedType
        <3>3. QED
            BY <3>2
    <2>4. QED
        BY <1>3, <2>1, <2>2, <2>3 DEF Proceed
<1>4. ASSUME NEW c \in Batches, NEW e \in Entries, NEW users \in UserLists, Call(c, e, users)
      PROVE  FALSE
    <2>1. c # b
        BY <1>4 DEF Call
    <2>2. batch'[b] = batch[b]
        BY <1>4, <2>1 DEF Call, AttendanceInv
    <2>3. QED
        BY <1>1, <2>2
<1>5. ASSUME NEW e \in Entries, NEW us \in SUBSET Users, Noted(e, us) PROVE FALSE
    <2>1. batch'[b].at = batch[b].at
        BY <1>5, NotedFacts
    <2>2. QED
        BY <2>1 DEF Running
<1>6. ASSUME NEW e \in Entries, NEW u \in Users, Query(e, u) PROVE FALSE
    <2>1. CASE UNCHANGED batch
        BY <1>1, <2>1
    <2>2. CASE DeleteAttendance(e, u)
        BY <1>5, <2>2 DEF DeleteAttendance
    <2>3. QED
        BY <1>6, <2>1, <2>2
        DEF Query, CreateAttendance, UpdateAttendanceStatus, UpsertAttendance,
            CreateSubstitutionRequest, ClaimSubstitutionRequest
<1>7. ASSUME NEW e \in Entries, DeleteEntry(e) PROVE FALSE
    BY <1>5, <1>7 DEF DeleteEntry
<1>8. QED
    BY <1>1, <1>3, <1>4, <1>6, <1>7 DEF Next, vars

\* When a batch has committed, every user of its list has an attendance,
\* except those whose attendance was deleted while it ran, whatever other
\* batches and queries did to the rows that it skipped.
THEOREM Invited == Spec => EveryoneInvited
<1> DEFINE Done(b) ==
        LET c == batch[b]
        IN  /\ Running(b) /\ ~ Running(b)' /\ ~ batch'[b].err
            /\ c.mine = {} \/ attendances' # attendances
            => \A u \in Range(c.users) \ c.deleted : attendances'[<<c.entry, u>>] # None
<1>1. ASSUME AttendanceInv, [Next]_vars, NEW b \in Batches PROVE Done(b)
    <2>1. PICK c \in Calling : c = batch[b]
        BY <1>1, BatchFacts
    <2>2. SUFFICES ASSUME Running(b), ~ Running(b)', ~ batch'[b].err,
                          c.mine = {} \/ attendances' # attendances,
                          NEW u \in Range(c.users) \ c.deleted
                   PROVE  attendances'[<<c.entry, u>>] # None
        BY <2>1
    <2>3. Len(c.users) \in Nat /\ RunTypes(b) /\ Meets(b)
        BY <1>1, BatchFacts, LenProperties DEF Calling
    <2>4. Commit(b) \/ CommitFails(b)
        BY <1>1, <2>2, GoodEnds
    <2>5. c.next = Len(c.users) + 1
        <3>1. ~ (c.next <= Len(c.users))
            BY <2>1, <2>2, <2>4 DEF Unsent, Commit, CommitFails
        <3>2. c.next \in 1 .. Len(c.users) + 1
            BY <2>1, <2>2, <2>3 DEF RunTypes
        <3>3. QED
            BY <2>3, <3>1, <3>2
    <2>6. PICK i \in 1 .. Len(c.users) : u = c.users[i]
        BY <2>1, LenProperties DEF Range, Calling
    <2>7. i \in 1 .. c.next - 1
        BY <2>3, <2>5
    <2>8. u \in c.mine \/ attendances[<<c.entry, u>>] # None
        BY <2>1, <2>2, <2>3, <2>6, <2>7 DEF Meets
    <2>9. <<c.entry, u>> \in Keys
        BY <1>1, <2>1, <2>2, <2>6, <2>7, MetIsKey
    <2>10. CASE Commit(b)
        <3>1. attendances'[<<c.entry, u>>] =
                IF Holds(b, c.entry, u) THEN PendingRow ELSE attendances[<<c.entry, u>>]
            BY <2>9, <2>10 DEF Commit, Keys, PendingRow
        <3>2. u \in c.mine => Holds(b, c.entry, u)
            BY <2>1, <2>2 DEF Holds
        <3>3. QED
            BY <2>8, <3>1, <3>2, PendingType
    <2>11. CASE CommitFails(b)
        BY <2>2, <2>8, <2>11 DEF CommitFails
    <2>12. QED
        BY <2>4, <2>10, <2>11
<1>2. ASSUME AttendanceInv, [Next]_vars PROVE \A b \in Batches : Done(b)
    BY <1>1, <1>2
<1>3. QED
    BY <1>2, AttendanceInvariance, PTL DEF Spec, EveryoneInvited

\* What is so of the count: a call that has committed returns the number of
\* rows that its commit has added.
CommitsAreCounted ==
    [][\A b \in Batches :
        /\ Running(b) /\ ~ Running(b)' /\ ~ batch'[b].err
        /\ batch[b].mine = {} \/ attendances' # attendances
        => batch'[b].inserted =
             Cardinality({k \in Entries \X Users :
                            attendances[k] = None /\ attendances'[k] # None})]_vars

\* BulkCreatePendingAttendance returns the number of records actually
\* inserted, whoever else is in the lists of other batches, if the commit has
\* succeeded: CountsInserted fails for the lost commit alone.
THEOREM CommittedCounts == Spec => CommitsAreCounted
<1> DEFINE New == {k \in Entries \X Users : attendances[k] = None /\ attendances'[k] # None}
           Counted(b) == /\ Running(b) /\ ~ Running(b)' /\ ~ batch'[b].err
                         /\ batch[b].mine = {} \/ attendances' # attendances
                         => batch'[b].inserted = Cardinality(New)
<1>1. ASSUME AttendanceInv, [Next]_vars, NEW b \in Batches PROVE Counted(b)
    <2>1. PICK c \in Calling : c = batch[b]
        BY <1>1, BatchFacts
    <2>2. SUFFICES ASSUME Running(b), ~ Running(b)', ~ batch'[b].err,
                          c.mine = {} \/ attendances' # attendances
                   PROVE  batch'[b].inserted = Cardinality(New)
        BY <2>1
    <2>3. Commit(b) \/ CommitFails(b)
        BY <1>1, <2>2, GoodEnds
    <2>4. /\ c.entry \in Entries /\ IsFiniteSet(c.mine) /\ c.count = Cardinality(c.mine)
          /\ c.mine \in SUBSET Users /\ Cardinality(c.mine) \in Nat
        BY <1>1, <2>1, <2>2, BatchFacts, FS_CardinalityType DEF RunTypes, Calling
    <2>5. PICK done : done = Returned(c.count, FALSE)
        OBVIOUS
    <2>6. batch'[b] = done
        <3>1. batch' = [batch EXCEPT ![b] = done]
            BY <2>1, <2>3, <2>5, Zenon DEF Commit, CommitFails
        <3>2. QED
            BY <1>1, <3>1 DEF AttendanceInv
    <2>7. batch'[b].inserted = c.count
        BY <2>5, <2>6 DEF Returned
    <2>8. New = {c.entry} \X c.mine
        <3>1. CASE Commit(b)
            <4>1. ASSUME NEW k \in Keys PROVE k \in New <=> Holds(b, k[1], k[2])
                <5>1. attendances'[k] = IF Holds(b, k[1], k[2]) THEN PendingRow ELSE attendances[k]
                    BY <3>1 DEF Commit, Keys, PendingRow
                <5>2. Holds(b, k[1], k[2]) => attendances[k] = None
                    BY <1>1, HoldsNone
                <5>3. QED
                    BY <5>1, <5>2, PendingType DEF Keys
            <4>2. \A k \in Keys : Holds(b, k[1], k[2]) <=> k \in {c.entry} \X c.mine
                BY <2>1, <2>2 DEF Holds, Keys
            <4>3. New \subseteq Keys /\ {c.entry} \X c.mine \subseteq Keys
                BY <2>4 DEF Keys
            <4>4. QED
                BY <4>1, <4>2, <4>3
        <3>2. CASE CommitFails(b)
            <4>1. attendances' = attendances
                BY <3>2 DEF CommitFails
            <4>2. c.mine = {} /\ New = {}
                BY <2>2, <4>1
            <4>3. QED
                BY <4>2
        <3>3. QED
            BY <2>3, <3>1, <3>2
    <2>9. Cardinality(New) = 1 * Cardinality(c.mine)
        <3>1. IsFiniteSet({c.entry}) /\ Cardinality({c.entry}) = 1
            BY FS_Singleton
        <3>2. QED
            BY <2>4, <2>8, <3>1, FS_Product
    <2>10. QED
        BY <2>4, <2>7, <2>9
<1>2. ASSUME AttendanceInv, [Next]_vars PROVE \A b \in Batches : Counted(b)
    BY <1>1, <1>2
<1>3. QED
    BY <1>2, AttendanceInvariance, PTL DEF Spec, CommitsAreCounted
-----------------------------------------------------------------------------
(* What answers and claims leave behind *)

\* What is so of responded_at: an answer to an invitation is dated, and a date
\* is never erased, nor set by anything but an answer.
Dates(old, new) ==
    /\ old.status = "pending" /\ new.status # "pending" => new.responded_at = "answered"
    /\ new.responded_at # old.responded_at
       => new.responded_at # "null" /\ new.status # "pending"

AnswersAreDated ==
    [][\A k \in Entries \X Users :
        attendances[k] # None /\ attendances'[k] # None
        => Dates(attendances[k], attendances'[k])]_vars

LEMMA UpdatedDates ==
    ASSUME NEW row \in Rows, NEW status \in Statuses
    PROVE  Dates(row, Updated(row, status))
<1>1. PICK time \in Times :
        time = IF status = "pending" THEN row.responded_at
               ELSE IF row.status = "pending" THEN "answered" ELSE "other"
    BY DEF Rows, Times
<1>2. Updated(row, status) = [status |-> status, responded_at |-> time]
    BY <1>1 DEF Updated
<1>3. QED
    BY <1>1, <1>2 DEF Dates

\* An answer, of a row that is there or of a new one.
LEMMA AnswerDates ==
    ASSUME AttendanceInv, NEW e \in Entries, NEW u \in Users, NEW status \in Statuses,
           \/ CreateAttendance(e, u, status) \/ UpdateAttendanceStatus(e, u, status)
           \/ UpsertAttendance(e, u, status),
           NEW k \in Keys, attendances[k] # None
    PROVE  Dates(attendances[k], attendances'[k])
<1>1. attendances \in [Keys -> Rows \cup {None}] /\ <<e, u>> \in Keys
    BY DEF AttendanceInv, Tables, Keys
<1>2. CASE k # <<e, u>>
    <2>1. attendances'[k] = attendances[k]
        BY <1>1, <1>2 DEF CreateAttendance, UpdateAttendanceStatus, UpsertAttendance
    <2>2. QED
        BY <2>1 DEF Dates
<1>3. CASE k = <<e, u>>
    <2>1. PICK row \in Rows : row = attendances[k]
        BY <1>1
    <2>2. attendances'[k] = Updated(row, status)
        BY <1>1, <1>3, <2>1 DEF CreateAttendance, UpdateAttendanceStatus, UpsertAttendance
    <2>3. QED
        BY <2>1, <2>2, UpdatedDates
<1>4. QED
    BY <1>2, <1>3

\* UpdateAttendanceStatus, its variant by entry and user, and
\* UpsertAttendance date every answer to an invitation, no query erases a date,
\* and no batch brings back the undated invitation of somebody who has
\* answered.
THEOREM AnswersDated == Spec => AnswersAreDated
<1> DEFINE Dated == \A k \in Entries \X Users :
                        attendances[k] # None /\ attendances'[k] # None
                        => Dates(attendances[k], attendances'[k])
<1>1. ASSUME AttendanceInv, [Next]_vars PROVE Dated
    <2>1. CASE UNCHANGED attendances
        BY <2>1 DEF Dates
    <2>2. CASE \E b \in Batches : Commit(b)
        <3>1. PICK b \in Batches : Commit(b)
            BY <2>2
        <3>2. ASSUME NEW k \in Keys, attendances[k] # None PROVE attendances'[k] = attendances[k]
            <4>1. ~ Holds(b, k[1], k[2])
                BY <1>1, <3>2, HoldsNone
            <4>2. QED
                BY <3>1, <4>1 DEF Commit, Keys
        <3>3. QED
            BY <3>2 DEF Dates, Keys
    <2>3. CASE \E e \in Entries, u \in Users, status \in Statuses :
                    \/ CreateAttendance(e, u, status) \/ UpdateAttendanceStatus(e, u, status)
                    \/ UpsertAttendance(e, u, status)
        BY <1>1, <2>3, AnswerDates DEF Keys
    <2>4. CASE \E e \in Entries, u \in Users : DeleteAttendance(e, u)
        <3>1. PICK e \in Entries, u \in Users : DeleteAttendance(e, u)
            BY <2>4
        <3>2. attendances \in [Keys -> Rows \cup {None}]
            BY <1>1 DEF AttendanceInv, Tables
        <3>3. \A k \in Keys : attendances'[k] = None \/ attendances'[k] = attendances[k]
            BY <3>1, <3>2 DEF DeleteAttendance
        <3>4. QED
            BY <3>3 DEF Dates, Keys
    <2>5. CASE \E e \in Entries : DeleteEntry(e)
        BY <2>5 DEF DeleteEntry, Dates
    <2>6. QED
        BY <1>1, <2>1, <2>2, <2>3, <2>4, <2>5
        DEF Next, vars, Proceed, Query, Call, InsertPending, InsertFails, AbortDeadlocked,
            CommitFails, CreateSubstitutionRequest, ClaimSubstitutionRequest
<1>2. QED
    BY <1>1, AttendanceInvariance, PTL DEF Spec, AnswersAreDated

\* Who has claimed a substitution keeps it as long as the attendance it stands
\* in for exists, and a request whose attendance goes goes with it.
SubstitutesStay ==
    [][\A k \in Entries \X Users :
        substitution[k] \in Users
        => substitution'[k] = IF attendances'[k] = None THEN None ELSE substitution[k]]_vars

\* ClaimSubstitutionRequest asks for an open request: of two claims at the
\* same time the second finds none, and no query or batch takes a claim away.
THEOREM ClaimsStay == Spec => SubstitutesStay
<1> DEFINE Stays(k) == substitution[k] \in Users
                       => substitution'[k] = IF attendances'[k] = None THEN None ELSE substitution[k]
<1>1. ASSUME AttendanceInv, [Next]_vars, NEW k \in Keys, substitution[k] \in Users
      PROVE  Stays(k)
    <2>1. /\ substitution \in [Keys -> Users \cup {"open", None}]
          /\ attendances \in [Keys -> Rows \cup {None}] /\ attendances[k] # None
          /\ substitution[k] # "open" /\ substitution[k] # None
        BY <1>1, AttendanceAssumption DEF AttendanceInv, Tables
    <2>2. attendances'[k] = None => substitution'[k] = None
        BY <1>1, StepInv DEF AttendanceInv, Tables
    <2>3. CASE UNCHANGED substitution
        BY <2>2, <2>3
    <2>4. CASE \E e \in Entries, u \in Users : DeleteAttendance(e, u)
        <3>1. PICK e \in Entries, u \in Users : DeleteAttendance(e, u)
            BY <2>4
        <3>2. k = <<e, u>> => attendances'[k] = None
            BY <2>1, <3>1 DEF DeleteAttendance
        <3>3. k # <<e, u>> => substitution'[k] = substitution[k]
            BY <2>1, <3>1 DEF DeleteAttendance
        <3>4. QED
            BY <2>2, <3>2, <3>3
    <2>5. CASE \E e \in Entries : DeleteEntry(e)
        <3>1. PICK e \in Entries : DeleteEntry(e)
            BY <2>5
        <3>2. k[1] = e => attendances'[k] = None
            BY <3>1 DEF DeleteEntry, Keys
        <3>3. k[1] # e => substitution'[k] = substitution[k]
            BY <3>1 DEF DeleteEntry, Keys
        <3>4. QED
            BY <2>2, <3>2, <3>3
    <2>6. CASE \E e \in Entries, u \in Users :
                    \/ CreateSubstitutionRequest(e, u)
                    \/ \E claimant \in Users : ClaimSubstitutionRequest(e, u, claimant)
        <3>1. substitution'[k] = substitution[k]
            BY <2>1, <2>6 DEF CreateSubstitutionRequest, ClaimSubstitutionRequest
        <3>2. QED
            BY <2>2, <3>1
    <2>7. QED
        BY <1>1, <2>3, <2>4, <2>5, <2>6
        DEF Next, vars, Proceed, Query, Call, InsertPending, InsertFails, AbortDeadlocked,
            Commit, CommitFails, CreateAttendance, UpdateAttendanceStatus, UpsertAttendance
<1>2. ASSUME AttendanceInv, [Next]_vars PROVE \A k \in Entries \X Users : Stays(k)
    BY <1>1, <1>2 DEF Keys
<1>3. QED
    BY <1>2, AttendanceInvariance, PTL DEF Spec, SubstitutesStay
-----------------------------------------------------------------------------
(* Lists in one order *)

Less == {pair \in Nat \X Nat : pair[1] < pair[2]}

\* The library's well-founded relation on Nat, written as a set of pairs.
LEMMA LessIsWellFounded == IsWellFoundedOn(Less, Nat)
<1>1. OpToRel(<, Nat) = Less
    BY Zenon DEF OpToRel, Less
<1>2. QED
    BY <1>1, NatLessThanWellFounded, Zenon

\* A set of naturals that is not empty has a least element.
LEMMA LeastNatural ==
    ASSUME NEW T \in SUBSET Nat, T # {}
    PROVE  \E x \in T : \A y \in T : x <= y
<1>1. \A x, y \in Nat : y < x => <<y, x>> \in Less
    BY DEF Less
<1>2. \E x \in T : \A y \in T : ~ (<<y, x>> \in Less)
    BY LessIsWellFounded, WFMin, Zenon
<1>3. PICK x \in T : \A y \in T : ~ (<<y, x>> \in Less)
    BY <1>2
<1>4. \A y \in T : ~ (y < x)
    BY <1>1, <1>3
<1>5. QED
    BY <1>4

\* A running batch has the list of a caller, and has inserted rows for users
\* of the list before the next one.
Listed(b) ==
    LET c == batch[b]
    IN  Running(b) =>
            /\ c.users \in UserLists
            /\ \A u \in c.mine : \E i \in 1 .. c.next - 1 : c.users[i] = u

AllListed == \A b \in Batches : Listed(b)

LEMMA ListedInit == Init => AllListed
<1>1. SUFFICES ASSUME Init, NEW b \in Batches PROVE Listed(b)
    BY DEF AllListed
<1>2. batch[b].at = "idle"
    BY <1>1 DEF Init, Returned
<1>3. QED
    BY <1>2 DEF Listed, Running

LEMMA ListedCall ==
    ASSUME AttendanceInv, NEW b \in Batches, NEW e \in Entries, NEW users \in UserLists,
           Call(b, e, users)
    PROVE  Listed(b)'
<1>1. CASE users = <<>>
    <2>1. batch'[b] = Returned(0, FALSE)
        BY <1>1, BatchFacts DEF Call
    <2>2. batch'[b].at = "idle"
        BY <2>1 DEF Returned
    <2>3. QED
        BY <2>2 DEF Listed, Running
<1>2. CASE users # <<>>
    <2>1. batch'[b] = Sent(e, users)
        BY <1>2, BatchFacts DEF Call
    <2>2. batch'[b].users = users /\ batch'[b].mine = {}
        BY <2>1 DEF Sent
    <2>3. QED
        BY <2>2 DEF Listed
<1>3. QED
    BY <1>1, <1>2

LEMMA ListedInsert ==
    ASSUME AttendanceInv, NEW b \in Batches, InsertPending(b), Listed(b)
    PROVE  Listed(b)'
<1>1. PICK c \in Calling : c = batch[b]
    BY BatchFacts
<1>2. c.next \in Nat /\ c.users \in UserLists /\ Unsent(b) /\ Running(b)
    BY <1>1 DEF InsertPending, Unsent, Listed, Calling
<1>3. \A u \in c.mine : \E i \in 1 .. c.next - 1 : c.users[i] = u
    BY <1>1, <1>2 DEF Listed
<1>4. /\ batch'[b].users = c.users /\ batch'[b].next = c.next + 1
      /\ batch'[b].mine \subseteq c.mine \cup {c.users[c.next]}
    <2>1. CASE Skips(b)
        BY <1>1, <2>1 DEF Skips, AttendanceInv, Calling
    <2>2. CASE Inserts(b)
        BY <1>1, <2>2 DEF Inserts, NextUser, AttendanceInv, Calling
    <2>3. QED
        BY <2>1, <2>2 DEF InsertPending
<1>5. ASSUME NEW u \in batch'[b].mine
      PROVE  \E i \in 1 .. batch'[b].next - 1 : batch'[b].users[i] = u
    <2>1. batch'[b].next - 1 = c.next /\ c.next \in 1 .. c.next
        <3>1. c.next \in 1 .. Len(c.users) + 1
            BY <1>1, <1>2, BatchFacts DEF RunTypes
        <3>2. QED
            BY <1>2, <1>4, <3>1
    <2>2. CASE u = c.users[c.next]
        BY <1>4, <2>1, <2>2
    <2>3. CASE u \in c.mine
        <3>1. PICK i \in 1 .. c.next - 1 : c.users[i] = u
            BY <1>3, <2>3
        <3>2. i \in 1 .. c.next
            BY <1>2
        <3>3. QED
            BY <1>4, <2>1, <3>1, <3>2
    <2>4. QED
        BY <1>4, <2>2, <2>3
<1>6. QED
    BY <1>2, <1>4, <1>5 DEF Listed

LEMMA ListedStep == AttendanceInv /\ AllListed /\ [Next]_vars => AllListed'
<1>1. SUFFICES ASSUME AttendanceInv, [Next]_vars, NEW b \in Batches, Listed(b)
               PROVE  Listed(b)'
    BY DEF AllListed
<1>2. CASE batch'[b] = batch[b]
    BY <1>1, <1>2 DEF Listed, Running
<1>3. ASSUME NEW c \in Batches, NEW e \in Entries, NEW users \in UserLists, Call(c, e, users)
      PROVE  Listed(b)'
    <2>1. CASE c = b
        BY <1>1, <1>3, <2>1, ListedCall
    <2>2. CASE c # b
        <3>1. batch'[b] = batch[b]
            BY <1>1, <1>3, <2>2 DEF Call, AttendanceInv
        <3>2. QED
            BY <1>2, <3>1
    <2>3. QED
        BY <2>1, <2>2
<1>4. ASSUME NEW c \in Batches, Proceed(c) PROVE Listed(b)'
    <2>1. CASE c # b
        <3>1. batch'[b] = batch[b]
            BY <1>1, <1>4, <2>1
            DEF Proceed, InsertPending, InsertFails, AbortDeadlocked, Commit, CommitFails,
                Skips, Inserts, AttendanceInv
        <3>2. QED
            BY <1>2, <3>1
    <2>2. CASE c = b /\ InsertPending(b)
        BY <1>1, <2>2, ListedInsert
    <2>3. CASE c = b /\ ~ InsertPending(b)
        <3>1. PICK err \in BOOLEAN : batch'[b] = Returned(batch[b].count, err)
            BY <1>1, <1>4, <2>3
            DEF Proceed, InsertFails, AbortDeadlocked, Commit, CommitFails, AttendanceInv
        <3>2. batch'[b].at = "idle"
            BY <3>1 DEF Returned
        <3>3. QED
            BY <3>2 DEF Listed, Running
    <2>4. QED
        BY <2>1, <2>2, <2>3
<1>5. ASSUME NEW e \in Entries, NEW us \in SUBSET Users, Noted(e, us) PROVE Listed(b)'
    <2>1. /\ batch'[b].at = batch[b].at /\ batch'[b].users = batch[b].users
          /\ batch'[b].next = batch[b].next /\ batch'[b].mine = batch[b].mine
        BY <1>1, <1>5, NotedFacts
    <2>2. QED
        BY <1>1, <2>1 DEF Listed, Running
<1>6. ASSUME NEW e \in Entries, NEW u \in Users, Query(e, u) PROVE Listed(b)'
    <2>1. CASE UNCHANGED batch
        BY <1>2, <2>1
    <2>2. CASE DeleteAttendance(e, u)
        BY <1>5, <2>2 DEF DeleteAttendance
    <2>3. QED
        BY <1>6, <2>1, <2>2
        DEF Query, CreateAttendance, UpdateAttendanceStatus, UpsertAttendance,
            CreateSubstitutionRequest, ClaimSubstitutionRequest
<1>7. ASSUME NEW e \in Entries, DeleteEntry(e) PROVE Listed(b)'
    BY <1>5, <1>7 DEF DeleteEntry
<1>8. QED
    BY <1>1, <1>2, <1>3, <1>4, <1>6, <1>7 DEF Next, vars

\* Every caller passes its users in one and the same order.
OneOrder ==
    \E rank \in [Users -> Nat] :
        /\ \A u, v \in Users : rank[u] = rank[v] => u = v
        /\ \A users \in UserLists : \A i, j \in 1 .. Len(users) :
              i <= j => rank[users[i]] <= rank[users[j]]

\* Batches deadlock only because their lists name users in different orders.
OrderedListsNeverDeadlock == OneOrder => Deadlocked = {}

\* BulkCreatePendingAttendance sends its INSERTs in the order of its argument
\* and asks for none.  If the callers keep one order, no two calls ever wait
\* for each other, however many run, and PostgreSQL's detector has nothing to
\* end: in a circle, the batch whose next user comes first would wait for one
\* that has inserted that user's row already, and so has it itself.
THEOREM OneOrderNeverDeadlocks == Spec => []OrderedListsNeverDeadlock
<1>1. ASSUME AttendanceInv, AllListed, OneOrder, Deadlocked # {} PROVE FALSE
    <2>1. PICK rank \in [Users -> Nat] :
            /\ \A u, v \in Users : rank[u] = rank[v] => u = v
            /\ \A users \in UserLists : \A i, j \in 1 .. Len(users) :
                  i <= j => rank[users[i]] <= rank[users[j]]
        BY <1>1 DEF OneOrder
    <2>2. PICK S \in SUBSET Batches :
            /\ S # {}
            /\ \A b \in S : (\E c \in S : WaitsFor(b, c)) /\ (\E c \in S : WaitsFor(c, b))
        BY <1>1 DEF Deadlocked
    <2>3. ASSUME NEW b \in S
          PROVE  /\ Running(b) /\ batch[b].users \in UserLists /\ Len(batch[b].users) \in Nat
                 /\ batch[b].next \in 1 .. Len(batch[b].users) /\ NextUser(b) \in Users
                 /\ rank[NextUser(b)] \in Nat
        <3>1. Unsent(b) /\ Running(b)
            BY <2>2 DEF WaitsFor, Unsent
        <3>2. batch[b].users \in UserLists /\ batch[b].users \in Seq(Users)
            BY <1>1, <3>1, AttendanceAssumption DEF AllListed, Listed
        <3>3. Len(batch[b].users) \in Nat
            BY <3>2, LenProperties
        <3>4. batch[b].next \in 1 .. Len(batch[b].users)
            <4>1. batch[b].next \in 1 .. Len(batch[b].users) + 1
                BY <1>1, <3>1, BatchFacts DEF RunTypes
            <4>2. batch[b].next <= Len(batch[b].users)
                BY <3>1 DEF Unsent
            <4>3. QED
                BY <3>3, <4>1, <4>2
        <3>5. NextUser(b) \in Users
            BY <3>2, <3>4, ElementOfSeq DEF NextUser
        <3>6. QED
            BY <3>1, <3>2, <3>3, <3>4, <3>5
    <2>4. PICK b \in S : \A c \in S : rank[NextUser(b)] <= rank[NextUser(c)]
        <3>1. PICK T : T = {rank[NextUser(c)] : c \in S}
            OBVIOUS
        <3>2. T \in SUBSET Nat /\ T # {}
            BY <2>2, <2>3, <3>1
        <3>3. PICK x \in T : \A y \in T : x <= y
            BY <3>2, LeastNatural
        <3>4. QED
            BY <3>1, <3>3
    <2>5. PICK c \in S, d \in S : WaitsFor(b, d) /\ WaitsFor(c, b)
        BY <2>2
    <2>6. NextUser(c) \in batch[b].mine
        BY <2>5 DEF WaitsFor, Holds
    <2>7. PICK i \in 1 .. batch[b].next - 1 : batch[b].users[i] = NextUser(c)
        BY <1>1, <2>3, <2>6 DEF AllListed, Listed
    <2>8. rank[NextUser(c)] <= rank[NextUser(b)]
        <3>1. i \in 1 .. Len(batch[b].users) /\ i <= batch[b].next
            BY <2>3
        <3>2. QED
            BY <2>1, <2>3, <2>7, <3>1 DEF NextUser
    <2>9. NextUser(c) = NextUser(b)
        BY <2>1, <2>3, <2>4, <2>8
    <2>10. b # d /\ Running(d) /\ batch[d].entry = batch[b].entry /\ NextUser(b) \in batch[d].mine
        BY <2>5 DEF WaitsFor, Holds
    <2>11. Apart(b, d) /\ Running(b)
        BY <1>1, <2>3, <2>10, BatchFacts
    <2>12. QED
        BY <2>6, <2>9, <2>10, <2>11 DEF Apart
<1>2. AttendanceInv /\ AllListed => OrderedListsNeverDeadlock
    BY <1>1 DEF OrderedListsNeverDeadlock
<1>3. QED
    BY <1>2, AttendanceInvariance, ListedInit, ListedStep, PTL DEF Spec

=============================================================================
