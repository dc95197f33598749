---------------------------- MODULE AccessProofs ----------------------------
(* What IdentitySync guarantees for any users, slots, groups and headers,  *)
(* and Access for any units and calendars in addition.                     *)
EXTENDS Access, SequenceTheorems, WellFoundedInduction, TLAPS

-----------------------------------------------------------------------------
(* Induction over the natural numbers, for sets *)

Less == {pair \in Nat \X Nat : pair[1] < pair[2]}

\* The library's well-founded relation on Nat, written as a set of pairs.
LEMMA LessIsWellFounded == IsWellFoundedOn(Less, Nat)
<1>1. OpToRel(<, Nat) = Less
  BY Zenon DEF OpToRel, Less
<1>2. QED
  BY <1>1, NatLessThanWellFounded, Zenon

\* A set of naturals that is not empty has a least element.
LEMMA LeastNatural ==
    ASSUME NEW T \in SUBSET Nat, T # {}
    PROVE  \E x \in T : \A y \in T : x <= y
<1>1. \A x, y \in Nat : y < x => <<y, x>> \in Less
  BY DEF Less
<1>2. \E x \in T : \A y \in T : ~ (<<y, x>> \in Less)
  BY LessIsWellFounded, WFMin, Zenon
<1>3. PICK x \in T : \A y \in T : ~ (<<y, x>> \in Less)
  BY <1>2
<1>4. \A y \in T : ~ (y < x)
  BY <1>1, <1>3
<1>5. QED
  BY <1>4

\* A set of naturals that holds 0 and is closed under successor is Nat.
LEMMA NaturalInduction ==
    ASSUME NEW P \in SUBSET Nat, 0 \in P, \A n \in P : n + 1 \in P
    PROVE  P = Nat
<1>1. SUFFICES ASSUME Nat \ P # {} PROVE FALSE
  OBVIOUS
<1>2. PICK x \in Nat \ P : \A y \in Nat \ P : x <= y
  BY <1>1, LeastNatural
<1>3. x # 0 /\ x - 1 \in Nat /\ x - 1 \in P
  BY <1>2
<1>4. QED
  BY <1>2, <1>3

-----------------------------------------------------------------------------
(* parseGroups returns a list of groups *)

\* The equation of the loop in parseGroups, as a predicate on a table of its
\* results up to position n.
IsLoop(header, n, f) ==
    f = [i \in 0 .. n |->
            IF i = 0 THEN <<>>
            ELSE IF header[i] = Blank THEN f[i - 1]
            ELSE Append(f[i - 1], header[i])]

\* The recursive function inside parseGroups exists.
LEMMA LoopExists ==
    ASSUME NEW header \in Seq(Groups \cup {Blank}), NEW n \in 0 .. Len(header)
    PROVE  \E f \in [0 .. n -> Seq(Groups)] : IsLoop(header, n, f)
<1> DEFINE P == {m \in Nat : m <= Len(header)
                             => \E f \in [0 .. m -> Seq(Groups)] : IsLoop(header, m, f)}
<1>1. 0 \in P
  <2> DEFINE f == [i \in 0 .. 0 |-> <<>>]
  <2>1. f \in [0 .. 0 -> Seq(Groups)]
    OBVIOUS
  <2>2. IsLoop(header, 0, f)
    BY DEF IsLoop
  <2> QED
    BY <2>1, <2>2
<1>2. ASSUME NEW m \in P PROVE m + 1 \in P
  <2>1. SUFFICES ASSUME m + 1 <= Len(header)
                 PROVE  \E g \in [0 .. m + 1 -> Seq(Groups)] : IsLoop(header, m + 1, g)
    OBVIOUS
  <2>2. PICK f \in [0 .. m -> Seq(Groups)] : IsLoop(header, m, f)
    BY <2>1
  <2> DEFINE last == IF header[m + 1] = Blank THEN f[m] ELSE Append(f[m], header[m + 1])
             g == [i \in 0 .. m + 1 |-> IF i = m + 1 THEN last ELSE f[i]]
  <2>3. last \in Seq(Groups)
    <3>1. header[m + 1] \in Groups \cup {Blank}
      BY <2>1
    <3>2. f[m] \in Seq(Groups)
      BY <2>2
    <3> QED
      BY <3>1, <3>2
  <2>4. g \in [0 .. m + 1 -> Seq(Groups)]
    BY <2>2, <2>3
  <2>5. \A i \in 0 .. m + 1 :
           g[i] = IF i = 0 THEN <<>>
                  ELSE IF header[i] = Blank THEN g[i - 1]
                  ELSE Append(g[i - 1], header[i])
    <3>1. TAKE i \in 0 .. m + 1
    <3>2. CASE i = m + 1
      <4>1. g[i - 1] = f[m] /\ g[i] = last /\ i # 0
        BY <3>2
      <4> QED
        BY <3>2, <4>1
    <3>3. CASE i # m + 1
      <4>1. i \in 0 .. m /\ g[i] = f[i]
        BY <3>3
      <4>2. i # 0 => i - 1 \in 0 .. m /\ g[i - 1] = f[i - 1]
        BY <3>3
      <4>3. f[i] = IF i = 0 THEN <<>>
                   ELSE IF header[i] = Blank THEN f[i - 1]
                   ELSE Append(f[i - 1], header[i])
        BY <2>2, <4>1 DEF IsLoop
      <4> QED
        BY <4>1, <4>2, <4>3
    <3> QED
      BY <3>2, <3>3
  <2>6. IsLoop(header, m + 1, g)
    BY <2>4, <2>5 DEF IsLoop
  <2> QED
    BY <2>4, <2>6
<1>3. P = Nat
  <2> HIDE DEF P
  <2> QED
    BY <1>1, <1>2, NaturalInduction DEF P
<1> QED
  BY <1>3

\* Its values are sequences of groups that are not blank.
LEMMA LoopType ==
    ASSUME NEW header \in Seq(Groups \cup {Blank}),
           NEW groups, IsLoop(header, Len(header), groups)
    PROVE  groups[Len(header)] \in Seq(Groups)
<1> DEFINE P == {i \in Nat : i <= Len(header) => groups[i] \in Seq(Groups)}
<1>1. \A i \in 0 .. Len(header) :
         groups[i] = IF i = 0 THEN <<>>
                     ELSE IF header[i] = Blank THEN groups[i - 1]
                     ELSE Append(groups[i - 1], header[i])
  BY DEF IsLoop
<1>2. 0 \in P
  <2>1. 0 \in 0 .. Len(header)
    OBVIOUS
  <2>2. groups[0] = <<>>
    BY <1>1, <2>1
  <2> QED
    BY <2>2, EmptySeq
<1>3. ASSUME NEW i \in P PROVE i + 1 \in P
  <2>1. SUFFICES ASSUME i + 1 <= Len(header) PROVE groups[i + 1] \in Seq(Groups)
    OBVIOUS
  <2>2. groups[i + 1] = IF header[i + 1] = Blank THEN groups[i]
                        ELSE Append(groups[i], header[i + 1])
    <3>1. i + 1 \in 0 .. Len(header) /\ i + 1 # 0 /\ (i + 1) - 1 = i
      BY <2>1
    <3> QED
      BY <1>1, <3>1
  <2>3. header[i + 1] \in Groups \cup {Blank} /\ groups[i] \in Seq(Groups)
    BY <2>1
  <2> QED
    BY <2>2, <2>3
<1>4. P = Nat
  <2> HIDE DEF P
  <2> QED
    BY <1>2, <1>3, NaturalInduction DEF P
<1> QED
  BY <1>4

\* parseGroups returns a sequence of groups.
LEMMA ParseGroupsType ==
    ASSUME NEW header \in Seq(Groups \cup {Blank})
    PROVE  parseGroups(header) \in Seq(Groups)
<1>1. PICK table \in [0 .. Len(header) -> Seq(Groups)] : IsLoop(header, Len(header), table)
  BY LoopExists
<1>2. IsLoop(header, Len(header), CHOOSE f : IsLoop(header, Len(header), f))
  BY <1>1
<1>3. parseGroups(header) = (CHOOSE f : IsLoop(header, Len(header), f))[Len(header)]
  BY DEF parseGroups, IsLoop
<1> QED
  BY <1>2, <1>3, LoopType

\* Every group list that a request can carry is a sequence of groups.
LEMMA GroupListsType == GroupLists \subseteq Seq(Groups)
  BY ParseGroupsType, HeadersAssumption DEF GroupLists

-----------------------------------------------------------------------------
(* Types *)

\* A record with the fields of a slot, whatever its state.
Slot ==
    [state : SyncStates \cup {"idle", "next"}, user : Users \cup {NoUser},
     groups : Seq(Groups), inserted : Nat, status : {0, 200, 401, 500}]

\* What TypeOK says of a slot and of a burst, field by field.
LEMMA Fields ==
    ASSUME TypeOK
    PROVE  /\ \A r \in Requests :
                 /\ req[r] \in Slot
                 /\ Range(req[r].groups) \subseteq Groups
                 /\ IF req[r].state = "idle" THEN req[r].user = NoUser
                    ELSE req[r].user \in Users
           /\ \A u \in Users :
                 /\ burst[u].groups \in Seq(Groups)
                 /\ Range(burst[u].groups) \subseteq Groups
<1>1. GroupLists \cup {<<>>} \subseteq Seq(Groups)
  BY GroupListsType, EmptySeq
<1>2. \A s \in Seq(Groups) : Range(s) \subseteq Groups
  BY DEF Range
<1>3. ASSUME NEW r \in Requests
      PROVE  /\ req[r] \in Slot
             /\ req[r].groups \in Seq(Groups)
             /\ IF req[r].state = "idle" THEN req[r].user = NoUser
                ELSE req[r].user \in Users
  <2>1. req[r] \in RequestTypes
    BY DEF TypeOK
  <2>2. CASE req[r] \in {Answered(status) : status \in {0, 200, 401, 500}}
    BY <1>1, <2>2 DEF Answered, Slot
  <2>3. CASE req[r] \notin {Answered(status) : status \in {0, 200, 401, 500}}
    BY <1>1, <2>1, <2>3 DEF RequestTypes, SyncStates, Slot
  <2> QED
    BY <2>2, <2>3
<1>4. ASSUME NEW u \in Users PROVE burst[u].groups \in Seq(Groups)
  BY <1>1 DEF TypeOK, BurstTypes
<1> QED
  BY <1>2, <1>3, <1>4

\* The initial state is well formed.
LEMMA InitTypes == Init => TypeOK
  BY DEF Init, TypeOK, RequestTypes, BurstTypes, NoBurst, Answered

\* A request past its first line is one of these.
Syncs == [state : SyncStates \cup {"next"}, user : Users, groups : GroupLists,
          inserted : Nat, status : {0}]

LEMMA SyncOf ==
    ASSUME TypeOK, NEW r \in Requests, req[r].state # "idle"
    PROVE  req[r] \in Syncs
<1>1. req[r] \in RequestTypes
  BY DEF TypeOK
<1> QED
  BY <1>1 DEF RequestTypes, Syncs, Answered

\* A request that joins keeps the history well formed.
LEMMA JoinedType ==
    ASSUME TypeOK, NEW u \in Users, NEW groups \in GroupLists, Range(groups) \subseteq Groups
    PROVE  Joined(u, groups) \in BurstTypes
<1>1. CASE Quiet(u)
  <2>1. Joined(u, groups) = [NoBurst EXCEPT !.size = "one", !.groups = groups,
                                            !.sent = Range(groups)]
    BY <1>1 DEF Joined
  <2>2. NoBurst \in BurstTypes
    BY DEF NoBurst, BurstTypes
  <2> QED
    BY <2>1, <2>2 DEF BurstTypes
<1>2. CASE ~ Quiet(u)
  <2>1. PICK b \in BurstTypes : b = burst[u]
    BY DEF TypeOK
  <2>2. PICK same \in BOOLEAN : same = (b.same /\ groups = b.groups)
    OBVIOUS
  <2>3. PICK sent \in SUBSET Groups : sent = b.sent \cup Range(groups)
    BY DEF BurstTypes
  <2>4. PICK size \in {"two", "many"} : size = IF b.size = "one" THEN "two" ELSE "many"
    OBVIOUS
  <2>5. Joined(u, groups) = [b EXCEPT !.size = size, !.same = same, !.sent = sent]
    BY <1>2, <2>1, <2>2, <2>3, <2>4 DEF Joined
  <2> QED
    BY <2>5 DEF BurstTypes
<1> QED
  BY <1>1, <1>2

\* What the end of a DELETE leaves is well formed.
LEMMA DeleteTypes ==
    ASSUME TypeOK, NEW r \in Requests, DeleteUserIDPGroups(r)
    PROVE  /\ users' \subseteq Users
           /\ is_assoc_admin' \in [Users -> BOOLEAN]
           /\ user_idp_groups' \in [Users -> SUBSET Groups]
           /\ seen' \in [Requests -> SUBSET Groups]
<1>1. user_idp_groups' \in [Users -> SUBSET Groups]
  BY DEF DeleteUserIDPGroups, TypeOK
<1>2. seen' \in [Requests -> SUBSET Groups]
  BY DEF DeleteUserIDPGroups, TypeOK
<1>3. QED
  BY <1>1, <1>2 DEF DeleteUserIDPGroups, TypeOK

\* Every step keeps the state well formed.
LEMMA StepTypes == TypeOK /\ [Next]_vars => TypeOK'
<1> SUFFICES ASSUME TypeOK, [Next]_vars PROVE TypeOK'
  OBVIOUS
<1>0. \A s \in {0, 200, 401, 500} : Answered(s) \in RequestTypes
  BY DEF RequestTypes
<1>1. ASSUME NEW r \in Requests, Unauthorized(r) PROVE TypeOK'
  BY <1>0, <1>1 DEF Unauthorized, TypeOK, tables
<1>2. ASSUME NEW r \in Requests, NEW u \in Users, NEW h \in Headers, Arrive(r, u, h)
      PROVE  TypeOK'
  <2>1. parseGroups(h) \in GroupLists
    BY DEF GroupLists
  <2>2. req' \in [Requests -> RequestTypes]
    BY <1>2, <2>1 DEF Arrive, TypeOK, RequestTypes, SyncStates
  <2>3. Range(parseGroups(h)) \subseteq Groups
    <3>1. parseGroups(h) \in Seq(Groups)
      BY <2>1, GroupListsType
    <3> QED
      BY <3>1 DEF Range
  <2>4. Joined(u, parseGroups(h)) \in BurstTypes
    BY <2>1, <2>3, JoinedType
  <2> QED
    BY <1>2, <2>2, <2>4 DEF Arrive, TypeOK, tables
<1>3. ASSUME NEW r \in Requests, SyncUser(r) PROVE TypeOK'
  <2>1. req[r] \in Syncs
    BY <1>3, SyncOf DEF SyncUser
  <2>2. [req[r] EXCEPT !.state = "delete"] \in RequestTypes /\ req[r].user \in Users
    BY <2>1 DEF Syncs, RequestTypes, SyncStates
  <2>3. req' \in [Requests -> RequestTypes]
    BY <1>3, <2>2 DEF SyncUser, TypeOK
  <2>4. (AdminGroup \in Range(req[r].groups)) \in BOOLEAN
    OBVIOUS
  <2>5. is_assoc_admin' \in [Users -> BOOLEAN]
    BY <1>3, <2>4 DEF SyncUser, UpsertUser, TypeOK
  <2> QED
    BY <1>3, <2>2, <2>3, <2>5 DEF SyncUser, UpsertUser, TypeOK
<1>4. ASSUME NEW u \in Users
      PROVE  /\ [burst EXCEPT ![u].replaced = TRUE] \in [Users -> BurstTypes]
             /\ [burst EXCEPT ![u].rejected = TRUE] \in [Users -> BurstTypes]
             /\ [burst EXCEPT ![u].served = TRUE] \in [Users -> BurstTypes]
             /\ [burst EXCEPT ![u].fault = TRUE] \in [Users -> BurstTypes]
             /\ [burst[u] EXCEPT !.fault = TRUE] \in BurstTypes
  <2>1. ASSUME NEW b \in BurstTypes
        PROVE  /\ [b EXCEPT !.replaced = TRUE] \in BurstTypes
               /\ [b EXCEPT !.rejected = TRUE] \in BurstTypes
               /\ [b EXCEPT !.served = TRUE] \in BurstTypes
               /\ [b EXCEPT !.fault = TRUE] \in BurstTypes
    BY DEF BurstTypes
  <2>2. burst[u] \in BurstTypes /\ burst \in [Users -> BurstTypes]
    BY DEF TypeOK
  <2>3. ASSUME NEW b \in BurstTypes PROVE [burst EXCEPT ![u] = b] \in [Users -> BurstTypes]
    BY <2>2
  <2>4. /\ [burst EXCEPT ![u].replaced = TRUE] = [burst EXCEPT ![u] = [burst[u] EXCEPT !.replaced = TRUE]]
        /\ [burst EXCEPT ![u].rejected = TRUE] = [burst EXCEPT ![u] = [burst[u] EXCEPT !.rejected = TRUE]]
        /\ [burst EXCEPT ![u].served = TRUE] = [burst EXCEPT ![u] = [burst[u] EXCEPT !.served = TRUE]]
        /\ [burst EXCEPT ![u].fault = TRUE] = [burst EXCEPT ![u] = [burst[u] EXCEPT !.fault = TRUE]]
    BY Zenon
  <2>5. [burst EXCEPT ![u].replaced = TRUE] \in [Users -> BurstTypes]
    BY Zenon, <2>1, <2>2, <2>3, <2>4
  <2>6. [burst EXCEPT ![u].rejected = TRUE] \in [Users -> BurstTypes]
    BY Zenon, <2>1, <2>2, <2>3, <2>4
  <2>7. [burst EXCEPT ![u].served = TRUE] \in [Users -> BurstTypes]
    BY Zenon, <2>1, <2>2, <2>3, <2>4
  <2>8. [burst EXCEPT ![u].fault = TRUE] \in [Users -> BurstTypes]
    BY Zenon, <2>1, <2>2, <2>3, <2>4
  <2>9. [burst[u] EXCEPT !.fault = TRUE] \in BurstTypes
    BY Zenon, <2>1, <2>2
  <2> QED
    BY Zenon, <2>5, <2>6, <2>7, <2>8, <2>9
<1>5. ASSUME NEW r \in Requests, req[r].state # "idle" PROVE req[r].user \in Users
  BY <1>5, Fields
<1>6. ASSUME NEW r \in Requests, Inserting(r) PROVE NextGroup(r) \in Groups
  BY <1>6, Fields DEF Inserting, NextGroup, Slot
<1>7. ASSUME NEW r \in Requests, ClearGroups(r) PROVE TypeOK'
  <2>1. req' \in [Requests -> RequestTypes]
    <3>1. req[r] \in Syncs
      BY <1>7, SyncOf DEF ClearGroups
    <3>2. [req[r] EXCEPT !.state = "insert"] \in RequestTypes
      BY <3>1 DEF Syncs, RequestTypes, SyncStates
    <3> QED
      BY <1>7, <3>2 DEF ClearGroups, TypeOK
  <2>2. req[r].user \in Users
    BY <1>5, <1>7 DEF ClearGroups
  <2>3. burst' \in [Users -> BurstTypes]
    BY Zenon, <1>4, <1>7, <2>2 DEF ClearGroups
  <2> QED
    BY <1>7, <2>1, <2>3, DeleteTypes DEF ClearGroups, TypeOK
<1>8. ASSUME NEW r \in Requests, AddGroup(r) PROVE TypeOK'
  <2>1. req' \in [Requests -> RequestTypes]
    <3>1. req[r] \in Syncs
      BY <1>8, SyncOf DEF AddGroup, Inserting
    <3>2. PICK one \in Nat : one = req[r].inserted + 1
      BY <3>1 DEF Syncs
    <3>3. [req[r] EXCEPT !.inserted = one] \in RequestTypes
      BY <3>1 DEF Syncs, RequestTypes
    <3>4. req' = [req EXCEPT ![r] = [req[r] EXCEPT !.inserted = one]]
      BY <1>8, <3>2 DEF AddGroup
    <3> QED
      BY <3>3, <3>4 DEF TypeOK
  <2> QED
    BY <1>6, <1>8, <2>1 DEF AddGroup, InsertUserIDPGroup, TypeOK
<1>9. ASSUME NEW r \in Requests, RejectGroup(r) PROVE TypeOK'
  <2>1. req[r].user \in Users
    BY <1>5, <1>9 DEF RejectGroup, Inserting
  <2>2. burst' \in [Users -> BurstTypes]
    BY Zenon, <1>4, <1>9, <2>1 DEF RejectGroup
  <2>3. req' \in [Requests -> RequestTypes]
    BY <1>0, <1>9 DEF RejectGroup, TypeOK
  <2> QED
    BY <1>9, <2>2, <2>3 DEF RejectGroup, TypeOK, tables
<1>10. ASSUME NEW r \in Requests, CallNext(r) PROVE TypeOK'
  <2>1. req' \in [Requests -> RequestTypes]
    <3>1. req[r] \in Syncs
      BY <1>10, SyncOf DEF CallNext
    <3>2. [req[r] EXCEPT !.state = "next"] \in RequestTypes
      BY <3>1 DEF Syncs, RequestTypes
    <3> QED
      BY <1>10, <3>2 DEF CallNext, TypeOK
  <2>2. req[r].user \in Users
    BY <1>5, <1>10 DEF CallNext
  <2>3. burst' \in [Users -> BurstTypes]
    BY Zenon, <1>4, <1>10, <2>2 DEF CallNext
  <2> QED
    BY <1>10, <2>1, <2>3 DEF CallNext, TypeOK, tables
<1>11. ASSUME NEW r \in Requests, Reply(r) PROVE TypeOK'
  BY <1>0, <1>11 DEF Reply, TypeOK, tables
<1>12. ASSUME NEW r \in Requests, StatementFails(r) PROVE TypeOK'
  <2>1. req[r].user \in Users
    BY <1>5, <1>12 DEF StatementFails, Inserting
  <2>2. req' \in [Requests -> RequestTypes] /\ burst' \in [Users -> BurstTypes]
    <3>1. req' \in [Requests -> RequestTypes]
      BY <1>0, <1>12 DEF StatementFails, TypeOK
    <3>2. burst' \in [Users -> BurstTypes]
      BY Zenon, <1>4, <1>12, <2>1 DEF StatementFails
    <3> QED
      BY <3>1, <3>2
  <2>3. /\ users' \subseteq Users
        /\ is_assoc_admin' \in [Users -> BOOLEAN]
        /\ user_idp_groups' \in [Users -> SUBSET Groups]
        /\ seen' \in [Requests -> SUBSET Groups]
    <3>1. CASE /\ seen' = [seen EXCEPT ![r] = {}]
               /\ UNCHANGED <<users, is_assoc_admin, user_idp_groups>>
      BY <3>1 DEF TypeOK
    <3>2. CASE UpsertUser(req[r].user, AdminGroup \in Range(req[r].groups))
      BY <2>1, <3>2 DEF UpsertUser, TypeOK
    <3>3. CASE DeleteUserIDPGroups(r)
      BY <3>3, DeleteTypes
    <3>4. CASE Inserting(r) /\ InsertUserIDPGroup(req[r].user, NextGroup(r))
      BY <1>6, <2>1, <3>4 DEF InsertUserIDPGroup, TypeOK
    <3> QED
      BY <1>12, <3>1, <3>2, <3>3, <3>4 DEF StatementFails
  <2> QED
    BY <2>2, <2>3 DEF TypeOK
<1>13. ASSUME Crash PROVE TypeOK'
  <2>1. req' \in [Requests -> RequestTypes]
    BY <1>0, <1>13 DEF Crash
  <2>2. burst' \in [Users -> BurstTypes]
    BY <1>4, <1>13 DEF Crash, TypeOK
  <2>3. seen' \in [Requests -> SUBSET Groups]
    BY <1>13 DEF Crash
  <2> QED
    BY <1>13, <2>1, <2>2, <2>3 DEF Crash, TypeOK
<1>14. ASSUME UNCHANGED vars PROVE TypeOK'
  BY <1>14 DEF vars, TypeOK
<1>15. ASSUME NEW r \in Requests, SnapshotGroups(r) PROVE TypeOK'
  <2>1. req[r] \in Syncs
    BY <1>15, SyncOf DEF SnapshotGroups
  <2>2. [req[r] EXCEPT !.state = "deleting"] \in RequestTypes /\ req[r].user \in Users
    BY <2>1 DEF Syncs, RequestTypes, SyncStates
  <2>3. req' \in [Requests -> RequestTypes]
    BY <1>15, <2>2 DEF SnapshotGroups, TypeOK
  <2>4. seen' \in [Requests -> SUBSET Groups]
    BY <1>15, <2>2 DEF SnapshotGroups, TypeOK
  <2> QED
    BY <1>15, <2>3, <2>4 DEF SnapshotGroups, TypeOK
<1> QED
  BY <1>1, <1>2, <1>3, <1>7, <1>8, <1>9, <1>10, <1>11, <1>12, <1>13, <1>14, <1>15
  DEF Next, Proceed

\* The tables and the requests are well formed in every state.
THEOREM TypeCorrect == Spec => []TypeOK
  BY InitTypes, StepTypes, PTL DEF Spec

-----------------------------------------------------------------------------
(* The inductive invariant *)

\* A step that touches neither u's rows, nor its burst, nor its syncs keeps
\* what the invariant says of u.
LEMMA Untouched ==
    ASSUME TypeOK, NEW u \in Users, UserInv(u),
           user_idp_groups'[u] = user_idp_groups[u],
           is_assoc_admin'[u] = is_assoc_admin[u],
           burst'[u] = burst[u],
           Syncing(u)' = Syncing(u),
           \A r \in Syncing(u) : req'[r] = req[r] /\ seen'[r] = seen[r]
    PROVE  UserInv(u)'
<1>1. /\ \A k : AtGroup(u, k)' <=> AtGroup(u, k)
      /\ Uncleared(u)' = Uncleared(u)
      /\ \A m : FirstGroups(u, m)' = FirstGroups(u, m)
      /\ Uniform(u)' <=> Uniform(u)
      /\ Overlapped(u)' <=> Overlapped(u)
  BY DEF AtGroup, Uncleared, FirstGroups, Uniform, Overlapped
<1>2. \A r \in Syncing(u)' : SyncMatchesBurst(u, r)' /\ SyncMatchesTables(u, r)'
  BY <1>1 DEF UserInv, SyncMatchesBurst, SyncMatchesTables
<1>3. BurstMatchesTables(u)'
  BY <1>1 DEF UserInv, BurstMatchesTables
<1>4. SomeoneIsAhead(u)'
  BY <1>1 DEF UserInv, SomeoneIsAhead
<1>5. PairIsSmall(u)'
  BY <1>1 DEF UserInv, PairIsSmall
<1>6. PairIsInOrder(u)'
  BY <1>1 DEF UserInv, PairIsInOrder, Uncleared
<1>7. FrontierIsGuarded(u)'
  BY <1>1 DEF UserInv, FrontierIsGuarded
<1> QED
  BY <1>2, <1>3, <1>4, <1>5, <1>6, <1>7 DEF UserInv

\* Replacing one slot's record leaves the syncs of a user alone that owns it
\* neither before nor after.
LEMMA OtherSlot ==
    ASSUME TypeOK, NEW u \in Users, NEW r \in Requests, NEW record,
           req' = [req EXCEPT ![r] = record],
           req[r].user = u => req[r].state \notin SyncStates,
           record.user = u => record.state \notin SyncStates
    PROVE  /\ Syncing(u)' = Syncing(u)
           /\ \A q \in Syncing(u) : req'[q] = req[q]
<1>1. \A q \in Requests : req'[q] = IF q = r THEN record ELSE req[q]
  BY DEF TypeOK
<1> QED
  BY <1>1 DEF Syncing

\* A step of a request of v keeps what the invariant says of any other user.
LEMMA OtherUser ==
    ASSUME SyncInv, NEW u \in Users, NEW v, u # v, NEW r \in Requests, NEW record,
           req' = [req EXCEPT ![r] = record],
           req[r].user \in {v, NoUser}, record.user \in {v, NoUser},
           user_idp_groups'[u] = user_idp_groups[u],
           is_assoc_admin'[u] = is_assoc_admin[u],
           burst'[u] = burst[u],
           \A q \in Syncing(u) : seen'[q] = seen[q]
    PROVE  UserInv(u)'
<1>1. TypeOK /\ UserInv(u) /\ u # NoUser
  BY HeadersAssumption DEF SyncInv
<1>2. Syncing(u)' = Syncing(u) /\ \A q \in Syncing(u) : req'[q] = req[q]
  BY <1>1, OtherSlot
<1> QED
  BY <1>1, <1>2, Untouched

\* A step that ends the sync of r takes r, and nothing else, out of the
\* user's syncs.
LEMMA Leaves ==
    ASSUME TypeOK, NEW r \in Requests, NEW record, req' = [req EXCEPT ![r] = record],
           record.state \notin SyncStates, NEW u \in Users
    PROVE  /\ Syncing(u)' = Syncing(u) \ {r}
           /\ \A q \in Syncing(u) \ {r} : req'[q] = req[q]
<1>1. \A q \in Requests : req'[q] = IF q = r THEN record ELSE req[q]
  BY DEF TypeOK
<1> QED
  BY <1>1 DEF Syncing

\* A step in which no sync of u inserts, starts or ends leaves alone what the
\* invariant says of the places where they stand.
LEMMA NobodyMoves ==
    ASSUME NEW u \in Users, UserInv(u),
           user_idp_groups'[u] = user_idp_groups[u],
           burst'[u] = burst[u],
           Syncing(u)' = Syncing(u),
           \A q \in Syncing(u) : /\ req'[q].inserted = req[q].inserted
                                 /\ req'[q].state = "insert" <=> req[q].state = "insert"
    PROVE  /\ Uncleared(u)' = Uncleared(u)
           /\ \A k : AtGroup(u, k)' <=> AtGroup(u, k)
           /\ \A m : FirstGroups(u, m)' = FirstGroups(u, m)
           /\ Uniform(u)' <=> Uniform(u)
           /\ SomeoneIsAhead(u)' /\ PairIsSmall(u)' /\ FrontierIsGuarded(u)'
<1>1. /\ \A k : AtGroup(u, k)' <=> AtGroup(u, k)
      /\ Uncleared(u)' = Uncleared(u)
      /\ \A m : FirstGroups(u, m)' = FirstGroups(u, m)
      /\ Uniform(u)' <=> Uniform(u)
  BY DEF AtGroup, Uncleared, FirstGroups, Uniform
<1>2. SomeoneIsAhead(u)'
  BY <1>1 DEF UserInv, SomeoneIsAhead
<1>3. PairIsSmall(u)'
  BY <1>1 DEF UserInv, PairIsSmall
<1>4. FrontierIsGuarded(u)'
  BY <1>1 DEF UserInv, FrontierIsGuarded
<1> QED
  BY <1>1, <1>2, <1>3, <1>4

\* The first m groups of a list that names none twice hold exactly the first
\* m positions.
LEMMA Positions ==
    ASSUME TypeOK, NEW u \in Users, IsInjective(burst[u].groups),
           NEW m \in 0 .. Len(burst[u].groups), NEW k \in 1 .. Len(burst[u].groups)
    PROVE  burst[u].groups[k] \in FirstGroups(u, m) <=> k <= m
<1> DEFINE G == burst[u].groups
<1>1. G \in Seq(Groups) /\ DOMAIN G = 1 .. Len(G) /\ Len(G) \in Nat
  BY Fields
<1>2. ASSUME G[k] \in FirstGroups(u, m) PROVE k <= m
  <2>1. PICK j \in 1 .. m : G[j] = G[k]
    BY <1>2 DEF FirstGroups
  <2>2. j \in DOMAIN G /\ k \in DOMAIN G
    BY <1>1, <2>1
  <2> QED
    BY <2>1, <2>2 DEF IsInjective
<1>3. ASSUME k <= m PROVE G[k] \in FirstGroups(u, m)
  BY <1>3 DEF FirstGroups
<1> QED
  BY <1>2, <1>3

\* The inductive invariant holds initially.
LEMMA InitInv == Init => SyncInv
<1> SUFFICES ASSUME Init, NEW u \in Users PROVE UserInv(u)
  BY InitTypes DEF SyncInv
<1>1. Syncing(u) = {}
  BY DEF Init, Syncing, Answered, SyncStates
<1>2. burst[u] = NoBurst
  BY DEF Init
<1>3. Range(<<>>) = {}
  BY DEF Range
<1>4. ~ Uniform(u) /\ burst[u].size # "two"
  BY <1>2 DEF Uniform, NoBurst
<1>5. BurstMatchesTables(u)
  BY <1>2, <1>3 DEF BurstMatchesTables, NoBurst
<1> QED
  BY <1>1, <1>4, <1>5
  DEF UserInv, SomeoneIsAhead, PairIsSmall, PairIsInOrder, FrontierIsGuarded

\* SyncUser moves its request from the upsert to the delete.
LEMMA SyncUserKeeps ==
    ASSUME SyncInv, NEW r \in Requests, SyncUser(r), NEW u \in Users
    PROVE  UserInv(u)'
<1> USE DEF SyncInv
<1> DEFINE v == req[r].user
<1>1. v \in Users /\ req[r].state = "upsert"
  BY Fields DEF SyncUser
<1>2. req' = [req EXCEPT ![r] = [req[r] EXCEPT !.state = "delete"]]
  BY DEF SyncUser, TypeOK
<1>3. /\ req'[r] = [req[r] EXCEPT !.state = "delete"]
      /\ \A q \in Requests : q # r => req'[q] = req[q]
      /\ req[r] \in Slot
  BY Fields DEF SyncUser, TypeOK
<1>0. seen' = seen
  BY DEF SyncUser, UpsertUser
<1>4. CASE u # v
  <2>1. /\ user_idp_groups'[u] = user_idp_groups[u]
        /\ is_assoc_admin'[u] = is_assoc_admin[u]
        /\ burst'[u] = burst[u]
    BY <1>1, <1>4 DEF SyncUser, UpsertUser, TypeOK
  <2>2. [req[r] EXCEPT !.state = "delete"].user = v
    BY <1>3 DEF Slot
  <2> QED
    BY <1>0, <1>2, <1>4, <2>1, <2>2, OtherUser
<1>5. CASE u = v
  <2>1. Syncing(u)' = Syncing(u) /\ r \in Syncing(u)
    BY <1>1, <1>3, <1>5 DEF Syncing, SyncStates, Slot
  <2>2. /\ user_idp_groups'[u] = user_idp_groups[u]
        /\ burst'[u] = burst[u]
        /\ is_assoc_admin'[u] = (AdminGroup \in Range(req[r].groups))
    BY <1>1, <1>5 DEF SyncUser, UpsertUser, TypeOK
  <2>3. \A q \in Requests : /\ req'[q].groups = req[q].groups
                            /\ req'[q].inserted = req[q].inserted
                            /\ req'[q].state = IF q = r THEN "delete" ELSE req[q].state
    BY <1>3 DEF Slot
  <2>4. /\ Uncleared(u)' = Uncleared(u)
        /\ \A k : AtGroup(u, k)' <=> AtGroup(u, k)
        /\ \A m : FirstGroups(u, m)' = FirstGroups(u, m)
        /\ Uniform(u)' <=> Uniform(u)
        /\ SomeoneIsAhead(u)' /\ PairIsSmall(u)' /\ FrontierIsGuarded(u)'
    BY <1>1, <2>1, <2>2, <2>3, NobodyMoves DEF Syncing
  <2>5. burst[u].same => req[r].groups = burst[u].groups
    BY <2>1 DEF UserInv, SyncMatchesBurst
  <2>6. ASSUME NEW q \in Syncing(u)'
        PROVE  SyncMatchesBurst(u, q)' /\ SyncMatchesTables(u, q)'
    <3>1. q \in Syncing(u) /\ SyncMatchesBurst(u, q) /\ SyncMatchesTables(u, q)
      BY <2>1, <2>6 DEF UserInv
    <3>2. SyncMatchesBurst(u, q)'
      BY <1>1, <2>1, <2>2, <2>3, <3>1 DEF SyncMatchesBurst, Syncing
    <3>3. SyncMatchesTables(u, q)'
      BY <1>0, <1>1, <2>2, <2>3, <2>4, <2>5, <3>1 DEF SyncMatchesTables, Syncing
    <3> QED
      BY <3>2, <3>3
  <2>7. BurstMatchesTables(u)'
    BY <2>2, <2>4, <2>5 DEF UserInv, BurstMatchesTables, Overlapped
  <2>8. PairIsInOrder(u)'
    BY <1>0, <2>2, <2>3, <2>4 DEF UserInv, PairIsInOrder, Uncleared, Syncing
  <2> QED
    BY <2>4, <2>6, <2>7, <2>8 DEF UserInv
<1> QED
  BY <1>4, <1>5

\* SnapshotGroups starts a DELETE that sees all that is stored.
LEMMA SnapshotGroupsKeeps ==
    ASSUME SyncInv, NEW r \in Requests, SnapshotGroups(r), NEW u \in Users
    PROVE  UserInv(u)'
<1> USE DEF SyncInv
<1> DEFINE v == req[r].user
           record == [req[r] EXCEPT !.state = "deleting"]
<1>1. v \in Users /\ req[r].state = "delete" /\ req[r] \in Slot
  BY Fields DEF SnapshotGroups
<1>2. req' = [req EXCEPT ![r] = record]
  BY DEF SnapshotGroups, TypeOK
<1>3. /\ req'[r] = record
      /\ \A q \in Requests : q # r => req'[q] = req[q]
  BY <1>2 DEF TypeOK
<1>4. /\ user_idp_groups'[u] = user_idp_groups[u]
      /\ is_assoc_admin'[u] = is_assoc_admin[u]
      /\ burst'[u] = burst[u]
      /\ \A q \in Requests : seen'[q] = IF q = r THEN user_idp_groups[v] ELSE seen[q]
  BY DEF SnapshotGroups, TypeOK
<1>5. CASE u # v
  <2>1. record.user = v
    BY <1>1 DEF Slot
  <2>2. \A q \in Syncing(u) : seen'[q] = seen[q]
    BY <1>4, <1>5 DEF Syncing
  <2> HIDE DEF record
  <2> QED
    BY <1>2, <1>4, <1>5, <2>1, <2>2, OtherUser
<1>6. CASE u = v
  <2>1. Syncing(u)' = Syncing(u) /\ r \in Syncing(u)
    BY <1>1, <1>3, <1>6 DEF Syncing, SyncStates, Slot
  <2>2. \A q \in Requests : /\ req'[q].groups = req[q].groups
                            /\ req'[q].inserted = req[q].inserted
                            /\ req'[q].state = IF q = r THEN "deleting" ELSE req[q].state
    BY <1>1, <1>3 DEF Slot
  <2>3. /\ Uncleared(u)' = Uncleared(u)
        /\ \A k : AtGroup(u, k)' <=> AtGroup(u, k)
        /\ \A m : FirstGroups(u, m)' = FirstGroups(u, m)
        /\ Uniform(u)' <=> Uniform(u)
        /\ SomeoneIsAhead(u)' /\ PairIsSmall(u)' /\ FrontierIsGuarded(u)'
    BY <1>1, <1>4, <2>1, <2>2, NobodyMoves DEF Syncing
  <2>4. ASSUME NEW q \in Syncing(u)'
        PROVE  SyncMatchesBurst(u, q)' /\ SyncMatchesTables(u, q)'
    <3>1. q \in Syncing(u) /\ SyncMatchesBurst(u, q) /\ SyncMatchesTables(u, q)
      BY <2>1, <2>4 DEF UserInv
    <3>2. SyncMatchesBurst(u, q)'
      BY <1>1, <1>4, <2>1, <2>2, <3>1 DEF SyncMatchesBurst, Syncing
    <3>3. SyncMatchesTables(u, q)'
      BY <1>1, <1>4, <1>6, <2>2, <2>3, <3>1 DEF SyncMatchesTables, Syncing
    <3> QED
      BY <3>2, <3>3
  <2>5. BurstMatchesTables(u)'
    BY <1>4, <2>3 DEF UserInv, BurstMatchesTables, Overlapped
  <2>6. PairIsInOrder(u)'
    <3>1. SUFFICES ASSUME Uniform(u), burst[u].size = "two", NEW q \in Uncleared(u)
                   PROVE  \E m \in 0 .. Len(burst[u].groups) :
                            /\ user_idp_groups[u] = FirstGroups(u, m)
                            /\ AtGroup(u, m) \/ (m = Len(burst[u].groups) /\ burst[u].served)
                            /\ req'[q].state = "deleting"
                               => \E j \in 0 .. m : seen'[q] = FirstGroups(u, j)
      BY <1>4, <2>3 DEF PairIsInOrder
    <3>2. PICK m \in 0 .. Len(burst[u].groups) :
            /\ user_idp_groups[u] = FirstGroups(u, m)
            /\ AtGroup(u, m) \/ (m = Len(burst[u].groups) /\ burst[u].served)
            /\ req[q].state = "deleting" => \E j \in 0 .. m : seen[q] = FirstGroups(u, j)
      BY <3>1 DEF UserInv, PairIsInOrder
    <3>3. m \in 0 .. m /\ q \in Requests
      BY <3>1 DEF Uncleared, Syncing
    <3> QED
      BY <1>4, <1>6, <2>2, <3>2, <3>3
  <2> QED
    BY <2>3, <2>4, <2>5, <2>6 DEF UserInv
<1> QED
  BY <1>5, <1>6

\* ClearGroups removes what its DELETE has seen and stands before the first
\* group.  Another sync, if there is one at all, stands behind the groups
\* that it has inserted since.
LEMMA ClearGroupsKeeps ==
    ASSUME SyncInv, NEW r \in Requests, ClearGroups(r), NEW u \in Users
    PROVE  UserInv(u)'
<1> USE DEF SyncInv
<1> DEFINE v == req[r].user
           record == [req[r] EXCEPT !.state = "insert"]
<1>1. v \in Users /\ req[r].state = "deleting" /\ req[r] \in Slot
  BY Fields DEF ClearGroups
<1>2. req' = [req EXCEPT ![r] = record]
  BY DEF ClearGroups, TypeOK
<1>3. /\ req'[r] = record
      /\ \A q \in Requests : q # r => req'[q] = req[q]
  BY <1>2 DEF TypeOK
<1>4. \A q \in Requests : seen'[q] = IF q = r THEN {}
                                     ELSE IF req[q].user = v THEN seen[q] \ seen[r]
                                     ELSE seen[q]
  BY DEF ClearGroups, DeleteUserIDPGroups
<1>5. CASE u # v
  <2>1. /\ user_idp_groups'[u] = user_idp_groups[u]
        /\ is_assoc_admin'[u] = is_assoc_admin[u]
        /\ burst'[u] = burst[u]
    <3>1. /\ user_idp_groups' = [user_idp_groups EXCEPT ![v] = @ \ seen[r]]
          /\ is_assoc_admin' = is_assoc_admin
          /\ burst' = [burst EXCEPT ![v] = [@ EXCEPT !.replaced = TRUE]]
      BY DEF ClearGroups, DeleteUserIDPGroups
    <3>2. user_idp_groups \in [Users -> SUBSET Groups] /\ burst \in [Users -> BurstTypes]
      BY DEF TypeOK
    <3> HIDE DEF v
    <3>3. user_idp_groups'[u] = user_idp_groups[u]
      BY <1>5, <3>1, <3>2
    <3>4. burst'[u] = burst[u]
      BY <1>5, <3>1, <3>2
    <3> QED
      BY <3>1, <3>3, <3>4
  <2>2. record.user = v
    BY <1>1 DEF Slot
  <2>3. \A q \in Syncing(u) : q \in Requests /\ q # r /\ req[q].user # v
    BY <1>5 DEF Syncing
  <2>4. \A q \in Syncing(u) : seen'[q] = seen[q]
    BY <1>4, <2>3
  <2> HIDE DEF record
  <2> QED
    BY <1>2, <1>5, <2>1, <2>2, <2>4, OtherUser
<1>6. CASE u = v
  <2> DEFINE G == burst[u].groups
  <2>1. Syncing(u)' = Syncing(u) /\ r \in Syncing(u) /\ r \in Uncleared(u)
    BY <1>1, <1>3, <1>6 DEF Syncing, SyncStates, Slot, Uncleared
  <2>2. /\ user_idp_groups'[u] = user_idp_groups[u] \ seen[r]
        /\ is_assoc_admin'[u] = is_assoc_admin[u]
        /\ burst'[u] = [burst[u] EXCEPT !.replaced = TRUE]
        /\ burst[u] \in BurstTypes
    BY <1>1, <1>6 DEF ClearGroups, DeleteUserIDPGroups, TypeOK
  <2>3. /\ burst'[u].replaced
        /\ burst'[u].size = burst[u].size /\ burst'[u].groups = G
        /\ burst'[u].same = burst[u].same /\ burst'[u].sent = burst[u].sent
        /\ burst'[u].fault = burst[u].fault /\ burst'[u].served = burst[u].served
        /\ burst'[u].rejected = burst[u].rejected
    BY <2>2 DEF BurstTypes
  <2>4. \A q \in Requests : /\ req'[q].groups = req[q].groups
                            /\ req'[q].inserted = req[q].inserted
                            /\ req'[q].state = IF q = r THEN "insert" ELSE req[q].state
    BY <1>1, <1>3 DEF Slot
  <2>5. SyncMatchesBurst(u, r) /\ SyncMatchesTables(u, r) /\ req[r].inserted = 0
    BY <1>1, <2>1 DEF UserInv, SyncMatchesBurst
  <2>6. \A q \in Syncing(u) : seen'[q] = IF q = r THEN {} ELSE seen[q] \ seen[r]
    BY <1>4, <1>6 DEF Syncing
  <2>7. ~ burst[u].replaced => user_idp_groups'[u] = {}
    BY <1>1, <2>2, <2>5 DEF SyncMatchesTables
  <2>8. Uncleared(u)' = Uncleared(u) \ {r} /\ \A m : FirstGroups(u, m)' = FirstGroups(u, m)
    BY <2>1, <2>3, <2>4 DEF Uncleared, FirstGroups, Syncing
  <2>9. \A k : AtGroup(u, k) => AtGroup(u, k)'
    BY <1>1, <2>1, <2>4 DEF AtGroup, Syncing
  <2>10. AtGroup(u, 0)'
    BY <2>1, <2>4, <2>5 DEF AtGroup, Syncing
  <2>11. ASSUME NEW q \in Syncing(u)'
         PROVE  SyncMatchesBurst(u, q)' /\ SyncMatchesTables(u, q)'
    <3>1. q \in Syncing(u) /\ SyncMatchesBurst(u, q) /\ SyncMatchesTables(u, q)
      BY <2>1, <2>11 DEF UserInv
    <3>2. burst[u].size = "one" => q = r /\ ~ burst[u].replaced
      BY <1>1, <2>1, <2>5, <3>1 DEF SyncMatchesBurst
    <3>3. SyncMatchesBurst(u, q)'
      BY <1>1, <2>1, <2>3, <2>4, <2>5, <3>1, <3>2 DEF SyncMatchesBurst, Syncing
    <3>4. burst[u].size = "one" => user_idp_groups'[u] = {} /\ req'[q].inserted = 0
      BY <2>4, <2>5, <2>7, <3>2
    <3>5. burst[u].size = "one"
          => user_idp_groups'[u] = {burst'[u].groups[j] : j \in 1 .. req'[q].inserted}
      BY <3>4
    <3>6. req'[q].state = "deleting" => user_idp_groups'[u] \ seen'[q] \subseteq burst'[u].sent
      <4>1. req'[q].state = "deleting" => req[q].state = "deleting" /\ seen'[q] = seen[q] \ seen[r]
        BY <2>1, <2>4, <2>6, <3>1 DEF Syncing
      <4>2. req[q].state = "deleting" => user_idp_groups[u] \ seen[q] \subseteq burst[u].sent
        BY <3>1 DEF SyncMatchesTables
      <4> QED
        BY <2>2, <2>3, <4>1, <4>2
    <3>7. burst'[u].same => is_assoc_admin'[u] = (AdminGroup \in Range(burst'[u].groups))
      BY <1>1, <2>2, <2>3, <2>5 DEF SyncMatchesTables
    <3>8. SyncMatchesTables(u, q)'
      BY <2>3, <3>5, <3>6, <3>7 DEF SyncMatchesTables, FirstGroups
    <3> QED
      BY <3>3, <3>8
  <2>12. BurstMatchesTables(u)'
    <3>1. user_idp_groups'[u] \subseteq burst[u].sent
      BY <1>1, <2>2, <2>5 DEF SyncMatchesTables
    <3>2. burst[u].same => is_assoc_admin'[u] = (AdminGroup \in Range(burst[u].groups))
      BY <1>1, <2>2, <2>5 DEF SyncMatchesTables
    <3> QED
      BY <2>3, <3>1, <3>2 DEF UserInv, BurstMatchesTables, Overlapped
  <2>13. SomeoneIsAhead(u)'
    <3>1. SUFFICES ASSUME Uniform(u)', NEW k \in 1 .. Len(G), G[k] \in user_idp_groups'[u]
                   PROVE  burst[u].served
                          \/ \E q \in Syncing(u) : /\ req'[q].state = "insert"
                                                   /\ req'[q].inserted >= k
      BY <2>1, <2>3 DEF SomeoneIsAhead
    <3>2. Uniform(u) /\ G[k] \in user_idp_groups[u]
      BY <2>2, <2>3, <2>7, <3>1 DEF Uniform
    <3>3. burst[u].served
          \/ \E q \in Syncing(u) : req[q].state = "insert" /\ req[q].inserted >= k
      BY <3>2 DEF UserInv, SomeoneIsAhead
    <3> QED
      BY <1>1, <2>4, <3>3 DEF Syncing
  <2>14. PairIsSmall(u)'
    <3>1. SUFFICES ASSUME burst[u].size = "two"
                   PROVE  /\ \A p, q, x \in Syncing(u) : p = q \/ p = x \/ q = x
                          /\ \A p, q \in Uncleared(u) \ {r} : p = q
      BY <2>1, <2>3, <2>8 DEF PairIsSmall
    <3>2. \A p, q, x \in Syncing(u) : p = q \/ p = x \/ q = x
      BY <3>1 DEF UserInv, PairIsSmall
    <3>3. Uncleared(u) \subseteq Syncing(u)
      BY DEF Uncleared
    <3> QED
      BY <2>1, <3>2, <3>3
  <2>15. PairIsInOrder(u)'
    <3>1. SUFFICES ASSUME Uniform(u)', burst[u].size = "two", NEW q \in Uncleared(u), q # r
                   PROVE  \E m \in 0 .. Len(G) :
                            /\ user_idp_groups'[u] = FirstGroups(u, m)'
                            /\ AtGroup(u, m)' \/ (m = Len(G) /\ burst[u].served)
                            /\ req'[q].state = "deleting"
                               => \E j \in 0 .. m : seen'[q] = FirstGroups(u, j)'
      BY <2>3, <2>8 DEF PairIsInOrder
    <3>2. ~ burst[u].replaced
      BY <2>1, <3>1 DEF UserInv, PairIsSmall
    <3>3. q \in Syncing(u) /\ req'[q].state = req[q].state
      BY <2>4, <3>1 DEF Uncleared, Syncing
    <3>4. req[q].state = "deleting" => seen'[q] = {}
      <4>1. req[q].state = "deleting" => seen[q] = user_idp_groups[u]
        BY <3>2, <3>3 DEF UserInv, SyncMatchesTables
      <4>2. seen[r] = user_idp_groups[u]
        BY <1>1, <2>5, <3>2 DEF SyncMatchesTables
      <4> QED
        BY <2>6, <3>3, <4>1, <4>2
    <3>5. FirstGroups(u, 0)' = {} /\ 0 \in 0 .. 0 /\ 0 \in 0 .. Len(G)
      BY Fields DEF FirstGroups
    <3> QED
      BY <2>7, <2>10, <3>2, <3>3, <3>4, <3>5
  <2>16. FrontierIsGuarded(u)'
    <3>1. SUFFICES ASSUME Uniform(u)', burst[u].size # "many",
                          NEW k \in 1 .. Len(G) + 1,
                          k > 1 => G[k - 1] \in user_idp_groups'[u],
                          k <= Len(G) => G[k] \notin user_idp_groups'[u]
                   PROVE  AtGroup(u, k - 1)' \/ (k = Len(G) + 1 /\ burst[u].served)
      BY <2>3 DEF FrontierIsGuarded
    <3>2. CASE k = 1
      BY <2>10, <3>2
    <3>3. CASE k > 1
      <4>1. burst[u].replaced /\ Uniform(u)
        BY <2>3, <2>7, <3>1, <3>3 DEF Uniform
      <4>2. burst[u].size = "two"
        BY <1>1, <2>2, <2>5, <3>1, <4>1 DEF SyncMatchesBurst, BurstTypes
      <4>3. PICK m \in 0 .. Len(G) :
              /\ user_idp_groups[u] = FirstGroups(u, m)
              /\ AtGroup(u, m) \/ (m = Len(G) /\ burst[u].served)
              /\ \E j \in 0 .. m : seen[r] = FirstGroups(u, j)
        BY <1>1, <2>1, <4>1, <4>2 DEF UserInv, PairIsInOrder
      <4>4. PICK j \in 0 .. m : seen[r] = FirstGroups(u, j)
        BY <4>3
      <4>5. IsInjective(G) /\ Len(G) \in Nat /\ k \in Nat
        BY <4>1, Fields DEF Uniform
      <4>6. ASSUME NEW i \in 1 .. Len(G) PROVE G[i] \in user_idp_groups'[u] <=> j < i /\ i <= m
        <5>1. j \in 0 .. Len(G) /\ j \in Nat /\ m \in Nat /\ i \in Nat
          BY <4>3, <4>4, <4>5
        <5>2. (G[i] \in FirstGroups(u, m) <=> i <= m) /\ (G[i] \in FirstGroups(u, j) <=> i <= j)
          BY <4>5, <4>6, <5>1, Positions
        <5> QED
          BY <2>2, <4>3, <4>4, <5>1, <5>2
      <4>7. k - 1 \in 1 .. Len(G) /\ (k <= Len(G) => k \in 1 .. Len(G))
        BY <3>3, <4>5
      <4>8. j < k - 1 /\ k - 1 <= m /\ (k <= Len(G) => ~ (j < k /\ k <= m))
        BY <3>1, <3>3, <4>6, <4>7
      <4>9. k - 1 = m
        BY <4>3, <4>4, <4>5, <4>8
      <4> QED
        BY <2>9, <4>3, <4>5, <4>9
    <3> QED
      BY <3>2, <3>3
  <2> QED
    BY <2>11, <2>12, <2>13, <2>14, <2>15, <2>16 DEF UserInv
<1> QED
  BY <1>5, <1>6

\* AddGroup moves the frontier by one, and its request with it.
LEMMA AddGroupKeeps ==
    ASSUME SyncInv, NEW r \in Requests, AddGroup(r), NEW u \in Users
    PROVE  UserInv(u)'
<1> USE DEF SyncInv
<1> DEFINE v == req[r].user
           record == [req[r] EXCEPT !.inserted = @ + 1]
           g == NextGroup(r)
<1>1. v \in Users /\ req[r].state = "insert" /\ req[r] \in Slot
  BY Fields DEF AddGroup, Inserting
<1>2. req' = [req EXCEPT ![r] = record]
  BY DEF AddGroup, TypeOK
<1>3. /\ req'[r] = record
      /\ \A q \in Requests : q # r => req'[q] = req[q]
  BY <1>2 DEF TypeOK
<1>0. seen' = seen
  BY DEF AddGroup, InsertUserIDPGroup
<1>4. CASE u # v
  <2>1. /\ user_idp_groups'[u] = user_idp_groups[u]
        /\ is_assoc_admin'[u] = is_assoc_admin[u]
        /\ burst'[u] = burst[u]
    BY <1>1, <1>4 DEF AddGroup, InsertUserIDPGroup, TypeOK
  <2>2. record.user = v
    BY <1>1 DEF Slot
  <2> HIDE DEF record
  <2> QED
    BY <1>0, <1>2, <1>4, <2>1, <2>2, OtherUser
<1>5. CASE u = v
  <2>1. Syncing(u)' = Syncing(u) /\ r \in Syncing(u)
    BY <1>1, <1>3, <1>5 DEF Syncing, SyncStates, Slot
  <2>2. /\ user_idp_groups'[u] = user_idp_groups[u] \cup {g}
        /\ g \notin user_idp_groups[u]
        /\ is_assoc_admin'[u] = is_assoc_admin[u]
        /\ burst'[u] = burst[u]
    BY <1>1, <1>5 DEF AddGroup, InsertUserIDPGroup, TypeOK
  <2>3. \A q \in Requests :
           /\ req'[q].groups = req[q].groups
           /\ req'[q].inserted = IF q = r THEN req[r].inserted + 1 ELSE req[q].inserted
           /\ req'[q].state = req[q].state
    BY <1>1, <1>3 DEF Slot
  <2>4. SyncMatchesBurst(u, r) /\ SyncMatchesTables(u, r)
    BY <2>1 DEF UserInv
  <2> DEFINE n == req[r].inserted + 1
  <2>5. /\ n \in 1 .. Len(req[r].groups)
        /\ g = req[r].groups[n]
        /\ g \in Range(req[r].groups)
    BY <1>1 DEF AddGroup, Inserting, NextGroup, Slot, Range
  <2> HIDE DEF g
  <2>0. /\ Uncleared(u)' = Uncleared(u)
        /\ \A m : FirstGroups(u, m)' = FirstGroups(u, m)
        /\ Uniform(u)' <=> Uniform(u)
        /\ Overlapped(u)' <=> Overlapped(u)
    BY <2>1, <2>2, <2>3 DEF Uncleared, FirstGroups, Uniform, Overlapped, Syncing
  <2>6. ASSUME NEW q \in Syncing(u)'
        PROVE  SyncMatchesBurst(u, q)' /\ SyncMatchesTables(u, q)'
    <3>1. q \in Syncing(u) /\ SyncMatchesBurst(u, q) /\ SyncMatchesTables(u, q)
      BY <2>1, <2>6 DEF UserInv
    <3>2. SyncMatchesBurst(u, q)'
      BY <1>1, <2>1, <2>2, <2>3, <2>4, <2>5, <3>1 DEF SyncMatchesBurst, Syncing
    <3>3. q # r => burst[u].size # "one"
      BY <2>1, <2>4, <3>1 DEF SyncMatchesBurst
    <3>4. burst[u].size = "one"
          => user_idp_groups'[u] = {burst[u].groups[j] : j \in 1 .. req[r].inserted + 1}
      <4>1. SUFFICES ASSUME burst[u].size = "one"
                     PROVE  user_idp_groups'[u]
                            = {burst[u].groups[j] : j \in 1 .. req[r].inserted + 1}
        OBVIOUS
      <4>2. burst[u].groups = req[r].groups
        BY <2>4, <4>1 DEF UserInv, BurstMatchesTables, SyncMatchesBurst
      <4>3. user_idp_groups[u] = {burst[u].groups[j] : j \in 1 .. req[r].inserted}
        BY <1>1, <2>4, <4>1 DEF SyncMatchesTables, FirstGroups
      <4>4. 1 .. req[r].inserted + 1 = (1 .. req[r].inserted) \cup {n}
        BY <1>1 DEF Slot
      <4> QED
        BY <2>2, <2>5, <4>2, <4>3, <4>4
    <3>5. /\ req'[q].state = req[q].state /\ seen'[q] = seen[q]
          /\ burst[u].replaced /\ g \in burst[u].sent
      BY <1>0, <1>1, <2>3, <2>4, <2>5, <3>1 DEF SyncMatchesBurst, Syncing
    <3>6. burst[u].size = "one"
          => user_idp_groups'[u] = {burst'[u].groups[j] : j \in 1 .. req'[q].inserted}
      BY <1>1, <2>2, <2>3, <3>3, <3>4
    <3>7. SyncMatchesTables(u, q)'
      BY <2>2, <3>1, <3>5, <3>6 DEF SyncMatchesTables, FirstGroups
    <3> QED
      BY <3>2, <3>7
  <2>7. BurstMatchesTables(u)'
    BY <1>1, <2>0, <2>1, <2>2, <2>4, <2>5
    DEF UserInv, SyncMatchesBurst, BurstMatchesTables
  <2>9. SomeoneIsAhead(u)'
    <3> DEFINE G == burst[u].groups
    <3>1. SUFFICES ASSUME Uniform(u), NEW k \in 1 .. Len(G), G[k] \in user_idp_groups'[u]
                   PROVE  burst[u].served
                          \/ \E q \in Syncing(u) : /\ req'[q].state = "insert"
                                                   /\ req'[q].inserted >= k
      BY <2>0, <2>1, <2>2 DEF SomeoneIsAhead
    <3>2. G = req[r].groups /\ G \in Seq(Groups) /\ IsInjective(G)
      BY <2>4, <3>1, Fields DEF Uniform, SyncMatchesBurst
    <3>3. \A q \in Syncing(u) : /\ q \in Requests
                                /\ req'[q].state = req[q].state
                                /\ req[q].inserted \in Nat
                                /\ req'[q].inserted \in Nat
                                /\ req'[q].inserted >= req[q].inserted
      BY <2>3, Fields DEF Slot, Syncing
    <3>4. CASE G[k] = g
      <4>1. k = n
        BY <2>5, <3>2, <3>4 DEF IsInjective
      <4> QED
        BY <1>1, <2>1, <2>3, <4>1 DEF Slot
    <3>5. CASE G[k] # g
      <4>1. burst[u].served
            \/ \E q \in Syncing(u) : req[q].state = "insert" /\ req[q].inserted >= k
        BY <2>2, <3>1, <3>5 DEF UserInv, SomeoneIsAhead
      <4>2. ASSUME NEW q \in Syncing(u), req[q].state = "insert", req[q].inserted >= k
            PROVE  req'[q].state = "insert" /\ req'[q].inserted >= k
        BY <3>3, <4>2
      <4> QED
        BY <4>1, <4>2
    <3> QED
      BY <3>4, <3>5
  <2>10. PairIsSmall(u)'
    BY <2>0, <2>1, <2>2 DEF UserInv, PairIsSmall
  <2>11. PairIsInOrder(u)'
    <3> DEFINE G == burst[u].groups
    <3>1. SUFFICES ASSUME Uniform(u), burst[u].size = "two", NEW q \in Uncleared(u)
                   PROVE  \E m \in 0 .. Len(G) :
                            /\ user_idp_groups'[u] = FirstGroups(u, m)
                            /\ AtGroup(u, m)'
                            /\ req[q].state = "deleting"
                               => \E j \in 0 .. m : seen[q] = FirstGroups(u, j)
      BY <1>0, <2>0, <2>2, <2>3 DEF PairIsInOrder, Uncleared, Syncing
    <3>2. PICK m \in 0 .. Len(G) :
            /\ user_idp_groups[u] = FirstGroups(u, m)
            /\ AtGroup(u, m) \/ (m = Len(G) /\ burst[u].served)
            /\ req[q].state = "deleting" => \E j \in 0 .. m : seen[q] = FirstGroups(u, j)
      BY <3>1 DEF UserInv, PairIsInOrder
    <3>3. /\ G = req[r].groups /\ G \in Seq(Groups) /\ IsInjective(G)
          /\ n \in 1 .. Len(G) /\ g = G[n]
      BY <2>4, <2>5, <3>1, Fields DEF Uniform, SyncMatchesBurst
    <3>4. m < n
      BY <2>2, <3>2, <3>3, Positions
    <3>5. PICK p \in Syncing(u) : req[p].state = "insert" /\ req[p].inserted = m
      BY <3>2, <3>3, <3>4 DEF AtGroup
    <3>6. p = r
      <4>1. q \in Syncing(u) /\ q # p /\ q # r
        BY <1>1, <3>1, <3>5 DEF Uncleared
      <4> QED
        BY <2>1, <3>1, <3>5, <4>1 DEF UserInv, PairIsSmall
    <3>7. n = m + 1 /\ m + 1 \in 0 .. Len(G)
      BY <3>2, <3>3, <3>5, <3>6
    <3>8. user_idp_groups'[u] = FirstGroups(u, m + 1)
      <4>1. 1 .. m + 1 = (1 .. m) \cup {n}
        BY <3>2, <3>7
      <4> QED
        BY <2>2, <3>2, <3>3, <4>1 DEF FirstGroups
    <3>9. AtGroup(u, m + 1)'
      BY <1>1, <2>1, <2>3, <3>7 DEF AtGroup
    <3> QED
      BY <3>2, <3>7, <3>8, <3>9
  <2>8. FrontierIsGuarded(u)'
    <3> DEFINE G == burst[u].groups
    <3>1. SUFFICES ASSUME Uniform(u), burst[u].size # "many",
                          NEW k \in 1 .. Len(G) + 1,
                          k > 1 => G[k - 1] \in user_idp_groups'[u],
                          k <= Len(G) => G[k] \notin user_idp_groups'[u]
                   PROVE  AtGroup(u, k - 1)' \/ (k = Len(G) + 1 /\ burst[u].served)
      BY <2>0, <2>2 DEF FrontierIsGuarded
    <3>2. G = req[r].groups /\ G \in Seq(Groups) /\ IsInjective(G)
      BY <2>4, <3>1, Fields DEF Uniform, SyncMatchesBurst
    <3>3. CASE k = n + 1
      <4>1. req'[r].inserted = k - 1 /\ req'[r].state = "insert"
        BY <1>1, <2>3, <3>3 DEF Slot
      <4> QED
        BY <2>1, <4>1 DEF AtGroup
    <3>4. CASE k # n + 1
      <4>1. k > 1 => G[k - 1] \in user_idp_groups[u]
        <5>1. k > 1 => k - 1 \in DOMAIN G /\ n \in DOMAIN G /\ k - 1 # n
          BY <2>5, <3>2, <3>4
        <5> QED
          BY <2>2, <2>5, <3>1, <3>2, <5>1 DEF IsInjective
      <4>2. k <= Len(G) => G[k] \notin user_idp_groups[u]
        BY <2>2, <3>1
      <4>3. AtGroup(u, k - 1) \/ (k = Len(G) + 1 /\ burst[u].served)
        BY <3>1, <4>1, <4>2 DEF UserInv, FrontierIsGuarded
      <4>4. ASSUME AtGroup(u, k - 1) PROVE AtGroup(u, k - 1)'
        <5>1. PICK q \in Syncing(u) : req[q].state = "insert" /\ req[q].inserted = k - 1
          BY <4>4 DEF AtGroup
        <5>2. q # r
          BY <2>2, <2>5, <3>1, <3>2, <5>1
        <5> QED
          BY <2>1, <2>3, <5>1, <5>2 DEF AtGroup, Syncing
      <4> QED
        BY <4>3, <4>4
    <3> QED
      BY <3>3, <3>4
  <2> QED
    BY <2>6, <2>7, <2>8, <2>9, <2>10, <2>11 DEF UserInv
<1> QED
  BY <1>4, <1>5

\* RejectGroup ends a sync that guarded no frontier: its group is stored.
LEMMA RejectGroupKeeps ==
    ASSUME SyncInv, NEW r \in Requests, RejectGroup(r), NEW u \in Users
    PROVE  UserInv(u)'
<1> USE DEF SyncInv
<1> DEFINE v == req[r].user
<1>1. v \in Users /\ req[r].state = "insert" /\ req[r] \in Slot
  BY Fields DEF RejectGroup, Inserting
<1>2. req' = [req EXCEPT ![r] = Answered(500)]
  BY DEF RejectGroup
<1>3. Answered(500).state \notin SyncStates /\ Answered(500).user = NoUser
  BY DEF Answered, SyncStates
<1>0. seen' = seen
  BY DEF RejectGroup, tables
<1>4. CASE u # v
  <2>1. /\ user_idp_groups'[u] = user_idp_groups[u]
        /\ is_assoc_admin'[u] = is_assoc_admin[u]
        /\ burst'[u] = burst[u]
    BY <1>1, <1>4 DEF RejectGroup, tables, TypeOK
  <2> DEFINE record == Answered(500)
  <2>2. /\ req' = [req EXCEPT ![r] = record]
        /\ req[r].user \in {v, NoUser}
        /\ record.user \in {v, NoUser}
    BY <1>2, <1>3
  <2> HIDE DEF record
  <2> QED
    BY <1>0, <1>4, <2>1, <2>2, OtherUser
<1>5. CASE u = v
  <2>1. Syncing(u)' = Syncing(u) \ {r} /\ \A q \in Syncing(u) \ {r} : req'[q] = req[q]
    BY <1>2, <1>3, Leaves
  <2>2. r \in Syncing(u)
    BY <1>1, <1>5 DEF Syncing, SyncStates
  <2>3. /\ user_idp_groups'[u] = user_idp_groups[u]
        /\ is_assoc_admin'[u] = is_assoc_admin[u]
        /\ burst'[u] = [burst[u] EXCEPT !.rejected = TRUE]
        /\ burst[u] \in BurstTypes
    BY <1>1, <1>5 DEF RejectGroup, tables, TypeOK
  <2> DEFINE G == burst[u].groups
  <2>0. /\ burst'[u].rejected
        /\ burst'[u].size = burst[u].size /\ burst'[u].groups = G
        /\ burst'[u].same = burst[u].same /\ burst'[u].sent = burst[u].sent
        /\ burst'[u].fault = burst[u].fault /\ burst'[u].served = burst[u].served
        /\ burst'[u].replaced = burst[u].replaced
    BY <2>3 DEF BurstTypes
  <2>10. /\ Uncleared(u)' = Uncleared(u)
         /\ \A m : FirstGroups(u, m)' = FirstGroups(u, m)
         /\ Uniform(u)' <=> Uniform(u)
         /\ Overlapped(u)' <=> Overlapped(u)
    BY <1>1, <2>0, <2>1 DEF Uncleared, FirstGroups, Uniform, Overlapped
  <2>4. SyncMatchesBurst(u, r) /\ SyncMatchesTables(u, r)
    BY <2>2 DEF UserInv
  <2> DEFINE n == req[r].inserted + 1
  <2>5. n \in 1 .. Len(req[r].groups) /\ req[r].groups[n] \in user_idp_groups[u]
    BY <1>1, <1>5 DEF RejectGroup, Inserting, NextGroup, Slot
  <2>6. ASSUME NEW q \in Syncing(u)'
        PROVE  SyncMatchesBurst(u, q)' /\ SyncMatchesTables(u, q)'
    <3>1. q \in Syncing(u) /\ q # r /\ SyncMatchesBurst(u, q) /\ SyncMatchesTables(u, q)
      BY <2>1, <2>6 DEF UserInv
    <3>2. burst[u].size # "one"
      BY <2>2, <3>1 DEF SyncMatchesBurst
    <3>3. SyncMatchesBurst(u, q)'
      BY <2>0, <2>1, <3>1, <3>2 DEF SyncMatchesBurst
    <3>4. SyncMatchesTables(u, q)'
      BY <1>0, <2>0, <2>1, <2>3, <3>1, <3>2 DEF SyncMatchesTables
    <3> QED
      BY <3>3, <3>4
  <2>7. burst[u].size = "one" => ~ IsInjective(burst[u].groups)
    <3>1. SUFFICES ASSUME burst[u].size = "one" PROVE ~ IsInjective(burst[u].groups)
      OBVIOUS
    <3>2. burst[u].groups = req[r].groups
      BY <2>4, <3>1 DEF UserInv, BurstMatchesTables, SyncMatchesBurst
    <3>3. PICK j \in 1 .. req[r].inserted : burst[u].groups[j] = req[r].groups[n]
      BY <1>1, <2>4, <2>5, <3>1 DEF SyncMatchesTables, FirstGroups
    <3>4. j \in DOMAIN burst[u].groups /\ n \in DOMAIN burst[u].groups /\ j # n
      BY <1>1, <2>5, <3>2, <3>3 DEF Slot
    <3> QED
      BY <3>2, <3>3, <3>4 DEF IsInjective
  <2>8. BurstMatchesTables(u)'
    <3>1. burst[u].size \in {"one", "two", "many"} /\ burst[u].replaced
      BY <1>1, <2>3, <2>4 DEF SyncMatchesBurst, BurstTypes
    <3> QED
      BY <2>0, <2>3, <2>7, <2>10, <3>1 DEF UserInv, BurstMatchesTables, Overlapped
  <2>11. ASSUME Uniform(u)
         PROVE  burst[u].served
                \/ \E q \in Syncing(u) \ {r} : req[q].state = "insert" /\ req[q].inserted >= n
    <3>1. G = req[r].groups /\ n \in 1 .. Len(G) /\ G[n] \in user_idp_groups[u]
      BY <2>4, <2>5, <2>11 DEF Uniform, SyncMatchesBurst
    <3>2. burst[u].served
          \/ \E q \in Syncing(u) : req[q].state = "insert" /\ req[q].inserted >= n
      BY <2>11, <3>1 DEF UserInv, SomeoneIsAhead
    <3>3. ~ (req[r].inserted >= n)
      BY <1>1 DEF Slot
    <3> QED
      BY <3>2, <3>3
  <2>12. SomeoneIsAhead(u)'
    <3>1. SUFFICES ASSUME Uniform(u), ~ burst[u].served
                   PROVE  /\ Syncing(u) \ {r} # {}
                          /\ \A k \in 1 .. Len(G) :
                               G[k] \in user_idp_groups[u]
                               => \E q \in Syncing(u) \ {r} : /\ req[q].state = "insert"
                                                              /\ req[q].inserted >= k
      BY <2>0, <2>1, <2>3, <2>10 DEF SomeoneIsAhead
    <3>2. PICK p \in Syncing(u) \ {r} : req[p].state = "insert" /\ req[p].inserted >= n
      BY <2>11, <3>1
    <3>3. ASSUME NEW k \in 1 .. Len(G), G[k] \in user_idp_groups[u]
          PROVE  \E q \in Syncing(u) \ {r} : req[q].state = "insert" /\ req[q].inserted >= k
      <4>1. PICK q \in Syncing(u) : req[q].state = "insert" /\ req[q].inserted >= k
        BY <3>1, <3>3 DEF UserInv, SomeoneIsAhead
      <4>2. CASE q # r
        BY <4>1, <4>2
      <4>3. CASE q = r
        <5>1. req[p].inserted \in Nat /\ req[r].inserted \in Nat /\ k \in Nat
          BY <1>1, <3>2, Fields DEF Slot, Syncing
        <5>2. req[p].inserted >= k
          BY <3>2, <4>1, <4>3, <5>1
        <5> QED
          BY <3>2, <5>2
      <4> QED
        BY <4>2, <4>3
    <3> QED
      BY <3>2, <3>3
  <2>13. PairIsSmall(u)'
    <3>1. Syncing(u)' \subseteq Syncing(u)
      BY <2>1
    <3> QED
      BY <2>0, <2>10, <3>1 DEF UserInv, PairIsSmall
  <2>14. PairIsInOrder(u)'
    <3>1. SUFFICES ASSUME Uniform(u), burst[u].size = "two", NEW q \in Uncleared(u)
                   PROVE  \E m \in 0 .. Len(G) :
                            /\ user_idp_groups[u] = FirstGroups(u, m)
                            /\ AtGroup(u, m)' \/ (m = Len(G) /\ burst[u].served)
                            /\ req[q].state = "deleting"
                               => \E j \in 0 .. m : seen[q] = FirstGroups(u, j)
      <4>1. \A q \in Uncleared(u) : req'[q] = req[q]
        BY <1>1, <2>1 DEF Uncleared
      <4> QED
        BY <1>0, <2>0, <2>3, <2>10, <4>1 DEF PairIsInOrder
    <3>2. PICK m \in 0 .. Len(G) :
            /\ user_idp_groups[u] = FirstGroups(u, m)
            /\ AtGroup(u, m) \/ (m = Len(G) /\ burst[u].served)
            /\ req[q].state = "deleting" => \E j \in 0 .. m : seen[q] = FirstGroups(u, j)
      BY <3>1 DEF UserInv, PairIsInOrder
    <3>3. G = req[r].groups /\ n \in 1 .. Len(G) /\ IsInjective(G)
      BY <2>4, <2>5, <3>1 DEF Uniform, SyncMatchesBurst
    <3>4. n <= m
      BY <2>5, <3>2, <3>3, Positions
    <3>5. AtGroup(u, m) => AtGroup(u, m)'
      <4>1. ASSUME NEW p \in Syncing(u), req[p].inserted = m PROVE p # r
        BY <1>1, <3>2, <3>4, <4>1 DEF Slot
      <4> QED
        BY <2>1, <4>1 DEF AtGroup
    <3> QED
      BY <3>2, <3>5
  <2>9. FrontierIsGuarded(u)'
    <3>1. SUFFICES ASSUME Uniform(u), burst[u].size # "many",
                          NEW k \in 1 .. Len(G) + 1,
                          k > 1 => G[k - 1] \in user_idp_groups[u],
                          k <= Len(G) => G[k] \notin user_idp_groups[u]
                   PROVE  AtGroup(u, k - 1)' \/ (k = Len(G) + 1 /\ burst[u].served)
      BY <2>0, <2>3, <2>10 DEF FrontierIsGuarded
    <3>2. AtGroup(u, k - 1) \/ (k = Len(G) + 1 /\ burst[u].served)
      BY <3>1 DEF UserInv, FrontierIsGuarded
    <3>3. ASSUME AtGroup(u, k - 1) PROVE AtGroup(u, k - 1)'
      <4>1. PICK q \in Syncing(u) : req[q].state = "insert" /\ req[q].inserted = k - 1
        BY <3>3 DEF AtGroup
      <4>2. q # r
        BY <2>4, <2>5, <3>1, <4>1 DEF SyncMatchesBurst, Uniform
      <4> QED
        BY <2>1, <4>1, <4>2 DEF AtGroup
    <3> QED
      BY <3>2, <3>3
  <2> QED
    BY <2>6, <2>8, <2>9, <2>12, <2>13, <2>14 DEF UserInv
<1> QED
  BY <1>4, <1>5

\* CallNext ends a sync that guarded at most the end of the list, and marks
\* the burst as served.
LEMMA CallNextKeeps ==
    ASSUME SyncInv, NEW r \in Requests, CallNext(r), NEW u \in Users
    PROVE  UserInv(u)'
<1> USE DEF SyncInv
<1> DEFINE v == req[r].user
           record == [req[r] EXCEPT !.state = "next"]
<1>1. v \in Users /\ req[r].state = "insert" /\ req[r] \in Slot
  BY Fields DEF CallNext
<1>2. req' = [req EXCEPT ![r] = record]
  BY DEF CallNext, TypeOK
<1>3. record.state \notin SyncStates /\ record.user = v
  BY <1>1 DEF Slot, SyncStates
<1>0. seen' = seen
  BY DEF CallNext, tables
<1>4. CASE u # v
  <2>1. /\ user_idp_groups'[u] = user_idp_groups[u]
        /\ is_assoc_admin'[u] = is_assoc_admin[u]
        /\ burst'[u] = burst[u]
    BY <1>1, <1>4 DEF CallNext, tables, TypeOK
  <2> HIDE DEF record
  <2> QED
    BY <1>0, <1>2, <1>3, <1>4, <2>1, OtherUser
<1>5. CASE u = v
  <2>1. Syncing(u)' = Syncing(u) \ {r} /\ \A q \in Syncing(u) \ {r} : req'[q] = req[q]
    <3> HIDE DEF record
    <3> QED
      BY <1>2, <1>3, Leaves
  <2>2. r \in Syncing(u)
    BY <1>1, <1>5 DEF Syncing, SyncStates
  <2>3. /\ user_idp_groups'[u] = user_idp_groups[u]
        /\ is_assoc_admin'[u] = is_assoc_admin[u]
        /\ burst'[u] = [burst[u] EXCEPT !.served = TRUE]
        /\ burst[u] \in BurstTypes
    BY <1>1, <1>5 DEF CallNext, tables, TypeOK
  <2> DEFINE G == burst[u].groups
  <2>0. /\ burst'[u].served
        /\ burst'[u].size = burst[u].size /\ burst'[u].groups = G
        /\ burst'[u].same = burst[u].same /\ burst'[u].sent = burst[u].sent
        /\ burst'[u].fault = burst[u].fault /\ burst'[u].rejected = burst[u].rejected
        /\ burst'[u].replaced = burst[u].replaced
    BY <2>3 DEF BurstTypes
  <2>8. /\ Uncleared(u)' = Uncleared(u)
        /\ \A m : FirstGroups(u, m)' = FirstGroups(u, m)
        /\ Uniform(u)' <=> Uniform(u)
        /\ Overlapped(u)' <=> Overlapped(u)
    BY <1>1, <2>0, <2>1 DEF Uncleared, FirstGroups, Uniform, Overlapped
  <2>4. SyncMatchesBurst(u, r)
    BY <2>2 DEF UserInv
  <2>5. ASSUME NEW q \in Syncing(u)'
        PROVE  SyncMatchesBurst(u, q)' /\ SyncMatchesTables(u, q)'
    <3>1. q \in Syncing(u) /\ q # r /\ SyncMatchesBurst(u, q) /\ SyncMatchesTables(u, q)
      BY <2>1, <2>5 DEF UserInv
    <3>2. burst[u].size # "one"
      BY <2>2, <3>1 DEF SyncMatchesBurst
    <3>3. SyncMatchesBurst(u, q)'
      BY <2>0, <2>1, <3>1, <3>2 DEF SyncMatchesBurst
    <3>4. SyncMatchesTables(u, q)'
      BY <1>0, <2>0, <2>1, <2>3, <3>1, <3>2 DEF SyncMatchesTables
    <3> QED
      BY <3>3, <3>4
  <2>6. BurstMatchesTables(u)'
    <3>1. burst[u].replaced
      BY <1>1, <2>4 DEF SyncMatchesBurst
    <3> QED
      BY <2>0, <2>3, <2>8, <3>1 DEF UserInv, BurstMatchesTables
  <2>9. SomeoneIsAhead(u)'
    BY <2>0 DEF SomeoneIsAhead
  <2>10. PairIsSmall(u)'
    <3>1. Syncing(u)' \subseteq Syncing(u)
      BY <2>1
    <3> QED
      BY <2>0, <2>8, <3>1 DEF UserInv, PairIsSmall
  <2>11. PairIsInOrder(u)'
    <3>1. SUFFICES ASSUME Uniform(u), burst[u].size = "two", NEW q \in Uncleared(u)
                   PROVE  \E m \in 0 .. Len(G) :
                            /\ user_idp_groups[u] = FirstGroups(u, m)
                            /\ AtGroup(u, m)' \/ m = Len(G)
                            /\ req[q].state = "deleting"
                               => \E j \in 0 .. m : seen[q] = FirstGroups(u, j)
      <4>1. \A q \in Uncleared(u) : req'[q] = req[q]
        BY <1>1, <2>1 DEF Uncleared
      <4> QED
        BY <1>0, <2>0, <2>3, <2>8, <4>1 DEF PairIsInOrder
    <3>2. PICK m \in 0 .. Len(G) :
            /\ user_idp_groups[u] = FirstGroups(u, m)
            /\ AtGroup(u, m) \/ (m = Len(G) /\ burst[u].served)
            /\ req[q].state = "deleting" => \E j \in 0 .. m : seen[q] = FirstGroups(u, j)
      BY <3>1 DEF UserInv, PairIsInOrder
    <3>3. req[r].inserted = Len(G)
      BY <2>4, <3>1 DEF CallNext, SyncMatchesBurst, Uniform
    <3>4. AtGroup(u, m) => AtGroup(u, m)' \/ m = Len(G)
      BY <2>1, <3>3 DEF AtGroup
    <3> QED
      BY <3>2, <3>4
  <2>7. FrontierIsGuarded(u)'
    <3>1. SUFFICES ASSUME Uniform(u), burst[u].size # "many",
                          NEW k \in 1 .. Len(G) + 1, k # Len(G) + 1,
                          k > 1 => G[k - 1] \in user_idp_groups[u],
                          k <= Len(G) => G[k] \notin user_idp_groups[u]
                   PROVE  AtGroup(u, k - 1)'
      BY <2>0, <2>3, <2>8 DEF FrontierIsGuarded
    <3>2. PICK q \in Syncing(u) : req[q].state = "insert" /\ req[q].inserted = k - 1
      BY <3>1 DEF UserInv, FrontierIsGuarded, AtGroup
    <3>3. q # r
      <4>1. req[r].inserted = Len(G) /\ G \in Seq(Groups)
        BY <2>4, <3>1, Fields DEF CallNext, SyncMatchesBurst, Uniform
      <4> QED
        BY <3>1, <3>2, <4>1
    <3> QED
      BY <2>1, <3>2, <3>3 DEF AtGroup
  <2> QED
    BY <2>5, <2>6, <2>7, <2>9, <2>10, <2>11 DEF UserInv
<1> QED
  BY <1>4, <1>5

\* A failed statement ends a sync, perhaps after having had its effect; the
\* burst is marked, which releases it from the frontier.
LEMMA StatementFailsKeeps ==
    ASSUME SyncInv, NEW r \in Requests, StatementFails(r), NEW u \in Users
    PROVE  UserInv(u)'
<1> USE DEF SyncInv
<1> DEFINE v == req[r].user
           record == Answered(500)
<1>1. v \in Users /\ req[r].state \in SyncStates /\ req[r] \in Slot
  BY Fields DEF StatementFails, Inserting, SyncStates
<1>2. /\ req' = [req EXCEPT ![r] = record]
      /\ record.state \notin SyncStates
      /\ record.user \in {v, NoUser}
      /\ req[r].user \in {v, NoUser}
  BY DEF StatementFails, Answered, SyncStates
<1> HIDE DEF record
<1>3. \/ /\ \/ /\ user_idp_groups' = user_idp_groups
               /\ is_assoc_admin' = is_assoc_admin
            \/ /\ user_idp_groups' = user_idp_groups
               /\ is_assoc_admin' =
                    [is_assoc_admin EXCEPT ![v] = AdminGroup \in Range(req[r].groups)]
            \/ /\ Inserting(r)
               /\ user_idp_groups' = [user_idp_groups EXCEPT ![v] = @ \cup {NextGroup(r)}]
               /\ is_assoc_admin' = is_assoc_admin
         /\ \A q \in Requests : q # r => seen'[q] = seen[q]
      \/ /\ req[r].state = "deleting"
         /\ user_idp_groups' = [user_idp_groups EXCEPT ![v] = @ \ seen[r]]
         /\ is_assoc_admin' = is_assoc_admin
         /\ \A q \in Requests : q # r =>
              seen'[q] = IF req[q].user = v THEN seen[q] \ seen[r] ELSE seen[q]
  <2>1. CASE DeleteUserIDPGroups(r) /\ req[r].state = "deleting"
    BY <2>1 DEF DeleteUserIDPGroups
  <2>2. CASE UpsertUser(v, AdminGroup \in Range(req[r].groups))
    BY <2>2 DEF UpsertUser
  <2>3. CASE Inserting(r) /\ InsertUserIDPGroup(v, NextGroup(r))
    BY <2>3 DEF InsertUserIDPGroup
  <2>4. CASE /\ seen' = [seen EXCEPT ![r] = {}]
             /\ UNCHANGED <<users, is_assoc_admin, user_idp_groups>>
    BY <2>4 DEF TypeOK
  <2> QED
    BY <2>1, <2>2, <2>3, <2>4 DEF StatementFails
<1>4. CASE u # v
  <2>1. /\ user_idp_groups'[u] = user_idp_groups[u]
        /\ is_assoc_admin'[u] = is_assoc_admin[u]
        /\ burst'[u] = burst[u]
    BY <1>1, <1>3, <1>4 DEF StatementFails, TypeOK
  <2>2. \A q \in Syncing(u) : seen'[q] = seen[q]
    BY <1>3, <1>4 DEF Syncing
  <2> QED
    BY <1>2, <1>4, <2>1, <2>2, OtherUser
<1>5. CASE u = v
  <2>1. Syncing(u)' = Syncing(u) \ {r} /\ \A q \in Syncing(u) \ {r} : req'[q] = req[q]
    BY <1>2, Leaves
  <2>2. r \in Syncing(u) /\ SyncMatchesBurst(u, r)
    BY <1>1, <1>5 DEF Syncing, UserInv
  <2>3. /\ burst'[u] = [burst[u] EXCEPT !.fault = TRUE]
        /\ burst[u] \in BurstTypes
    BY <1>1, <1>5 DEF StatementFails, TypeOK
  <2>0. /\ burst'[u].fault
        /\ burst'[u].size = burst[u].size /\ burst'[u].groups = burst[u].groups
        /\ burst'[u].same = burst[u].same /\ burst'[u].sent = burst[u].sent
        /\ burst'[u].served = burst[u].served /\ burst'[u].rejected = burst[u].rejected
        /\ burst'[u].replaced = burst[u].replaced
    BY <2>3 DEF BurstTypes
  <2>8. ~ Uniform(u)' /\ (Overlapped(u)' <=> Overlapped(u))
    BY <2>0 DEF Uniform, Overlapped
  <2>4. \/ /\ user_idp_groups'[u] = user_idp_groups[u]
           /\ \A q \in Syncing(u) \ {r} : seen'[q] = seen[q]
        \/ /\ user_idp_groups'[u] = user_idp_groups[u] \ seen[r]
           /\ \A q \in Syncing(u) \ {r} : seen'[q] = seen[q] \ seen[r]
        \/ /\ user_idp_groups'[u] = user_idp_groups[u] \cup {NextGroup(r)}
           /\ NextGroup(r) \in Range(req[r].groups)
           /\ req[r].state = "insert"
           /\ \A q \in Syncing(u) \ {r} : seen'[q] = seen[q]
    <3>1. \A q \in Syncing(u) \ {r} : q \in Requests /\ q # r /\ req[q].user = v
      BY <1>5 DEF Syncing
    <3>2. CASE Inserting(r)
      <4>1. req[r].state = "insert" /\ NextGroup(r) \in Range(req[r].groups)
        <5>1. /\ req[r].state = "insert"
              /\ req[r].inserted \in Nat
              /\ req[r].inserted < Len(req[r].groups)
              /\ req[r].groups \in Seq(Groups)
          BY <3>2, Fields DEF Inserting, Slot
        <5>2. req[r].inserted + 1 \in DOMAIN req[r].groups
          BY <5>1
        <5> QED
          BY <5>1, <5>2 DEF NextGroup, Range
      <4> QED
        BY <1>1, <1>3, <1>5, <3>1, <4>1 DEF TypeOK
    <3>3. CASE ~ Inserting(r)
      BY <1>1, <1>3, <1>5, <3>1, <3>3 DEF TypeOK
    <3> QED
      BY <3>2, <3>3
  <2>5. \/ is_assoc_admin'[u] = is_assoc_admin[u]
        \/ is_assoc_admin'[u] = (AdminGroup \in Range(req[r].groups))
    BY <1>1, <1>3, <1>5 DEF TypeOK
  <2>6. ASSUME NEW q \in Syncing(u)'
        PROVE  SyncMatchesBurst(u, q)' /\ SyncMatchesTables(u, q)'
    <3>1. q \in Syncing(u) /\ q # r /\ SyncMatchesBurst(u, q) /\ SyncMatchesTables(u, q)
      BY <2>1, <2>6 DEF UserInv
    <3>2. burst[u].size # "one"
      BY <2>2, <3>1 DEF SyncMatchesBurst
    <3>3. SyncMatchesBurst(u, q)'
      BY <2>0, <2>1, <3>1, <3>2 DEF SyncMatchesBurst
    <3>4. burst[u].same /\ req[q].state \in {"delete", "deleting", "insert"}
          => is_assoc_admin'[u] = (AdminGroup \in Range(burst[u].groups))
      BY <2>2, <2>5, <3>1 DEF SyncMatchesBurst, SyncMatchesTables
    <3>5. req[q].state = "deleting" => user_idp_groups'[u] \ seen'[q] \subseteq burst[u].sent
      BY <2>2, <2>4, <3>1 DEF SyncMatchesBurst, SyncMatchesTables
    <3>6. req[q].state = "deleting" /\ ~ burst[u].replaced => seen'[q] = user_idp_groups'[u]
      BY <2>2, <2>4, <3>1 DEF SyncMatchesBurst, SyncMatchesTables
    <3>7. SyncMatchesTables(u, q)'
      BY <2>0, <2>1, <3>1, <3>2, <3>4, <3>5, <3>6 DEF SyncMatchesTables
    <3> QED
      BY <3>3, <3>7
  <2>7. BurstMatchesTables(u)'
    <3>1. burst[u].replaced => user_idp_groups'[u] \subseteq burst[u].sent
      BY <2>2, <2>4 DEF UserInv, BurstMatchesTables, SyncMatchesBurst
    <3>2. burst[u].replaced /\ burst[u].same
          => is_assoc_admin'[u] = (AdminGroup \in Range(burst[u].groups))
      BY <2>2, <2>5 DEF UserInv, BurstMatchesTables, SyncMatchesBurst
    <3> QED
      BY <2>0, <2>8, <3>1, <3>2 DEF UserInv, BurstMatchesTables
  <2>9. PairIsSmall(u)'
    <3>1. Syncing(u)' \subseteq Syncing(u) /\ Uncleared(u)' \subseteq Uncleared(u)
      BY <2>1 DEF Uncleared
    <3> QED
      BY <2>0, <3>1 DEF UserInv, PairIsSmall
  <2> QED
    BY <2>6, <2>7, <2>8, <2>9 DEF UserInv, SomeoneIsAhead, PairIsInOrder, FrontierIsGuarded
<1> QED
  BY <1>4, <1>5

\* An arrival starts a burst, or joins one as a second list.
LEMMA ArriveKeeps ==
    ASSUME SyncInv, NEW r \in Requests, NEW v \in Users, NEW h \in Headers, Arrive(r, v, h),
           NEW u \in Users
    PROVE  UserInv(u)'
<1> USE DEF SyncInv
<1> DEFINE list == parseGroups(h)
           record == [state |-> "upsert", user |-> v, groups |-> list,
                      inserted |-> 0, status |-> 0]
<1>1. /\ req' = [req EXCEPT ![r] = record]
      /\ req[r].state = "idle"
      /\ req[r].user = NoUser
  BY Fields DEF Arrive
<1>2. list \in Seq(Groups)
  BY ParseGroupsType, HeadersAssumption
<1> HIDE DEF list
<1>3. CASE u # v
  <2>1. /\ user_idp_groups'[u] = user_idp_groups[u]
        /\ is_assoc_admin'[u] = is_assoc_admin[u]
        /\ burst'[u] = burst[u]
        /\ seen' = seen
    BY <1>3 DEF Arrive, tables, TypeOK
  <2>2. record.user = v
    OBVIOUS
  <2> HIDE DEF record
  <2> QED
    BY <1>1, <1>3, <2>1, <2>2, OtherUser
<1>4. CASE u = v
  <2>1. \A q \in Requests : req'[q] = IF q = r THEN record ELSE req[q]
    BY <1>1 DEF TypeOK
  <2>2. r \notin Syncing(u) /\ Syncing(u)' = Syncing(u) \cup {r}
    BY <1>1, <1>4, <2>1 DEF Syncing, SyncStates
  <2>3. /\ user_idp_groups'[u] = user_idp_groups[u]
        /\ is_assoc_admin'[u] = is_assoc_admin[u]
        /\ seen' = seen
        /\ burst'[u] = Joined(u, list)
        /\ burst[u] \in BurstTypes
    BY <1>4 DEF Arrive, tables, TypeOK, list
  <2>4. /\ req'[r].state = "upsert"
        /\ req'[r].groups = list
        /\ req'[r].inserted = 0
    BY <2>1
  <2>5. CASE Quiet(u)
    <3>1. /\ burst'[u].size = "one"
          /\ burst'[u].groups = list
          /\ burst'[u].same
          /\ burst'[u].sent = Range(list)
          /\ ~ burst'[u].replaced
          /\ ~ burst'[u].served
          /\ ~ burst'[u].rejected
      BY <2>3, <2>5 DEF Joined, NoBurst
    <3>2. Syncing(u)' = {r} /\ ~ Uniform(u)'
      BY <2>2, <2>5, <3>1 DEF Quiet, Uniform
    <3>3. SyncMatchesBurst(u, r)' /\ SyncMatchesTables(u, r)'
      BY <1>2, <2>4, <3>1, <3>2 DEF SyncMatchesBurst, SyncMatchesTables
    <3>4. r \in Uncleared(u)'
      BY <2>4, <3>2 DEF Uncleared
    <3>5. BurstMatchesTables(u)'
      BY <2>4, <3>1, <3>2, <3>4 DEF BurstMatchesTables
    <3> QED
      BY <3>1, <3>2, <3>3, <3>5
      DEF UserInv, SomeoneIsAhead, PairIsSmall, PairIsInOrder, FrontierIsGuarded
  <2>6. CASE ~ Quiet(u)
    <3>1. /\ burst'[u].size = IF burst[u].size = "one" THEN "two" ELSE "many"
          /\ burst'[u].groups = burst[u].groups
          /\ burst'[u].same => burst[u].same /\ list = burst[u].groups
          /\ burst'[u].sent = burst[u].sent \cup Range(list)
          /\ burst'[u].fault = burst[u].fault
          /\ burst'[u].replaced = burst[u].replaced
          /\ burst'[u].served = burst[u].served
          /\ burst'[u].rejected = burst[u].rejected
      BY <2>3, <2>6 DEF Joined, BurstTypes
    <3>2. ASSUME NEW q \in Syncing(u)
          PROVE  /\ SyncMatchesBurst(u, q)' /\ SyncMatchesTables(u, q)'
                 /\ req'[q] = req[q] /\ q \in Syncing(u)'
      <4>1. req'[q] = req[q] /\ q \in Syncing(u)'
        BY <2>1, <2>2, <3>2 DEF Syncing
      <4>2. SyncMatchesBurst(u, q) /\ SyncMatchesTables(u, q)
        BY <3>2 DEF UserInv
      <4>3. SyncMatchesBurst(u, q)'
        BY <3>1, <4>1, <4>2 DEF SyncMatchesBurst
      <4>4. SyncMatchesTables(u, q)'
        BY <2>3, <3>1, <4>1, <4>2 DEF SyncMatchesTables
      <4> QED
        BY <4>1, <4>3, <4>4
    <3>3. SyncMatchesBurst(u, r)' /\ SyncMatchesTables(u, r)'
      <4>1. burst[u].size # "none"
        BY <2>6 DEF Quiet, UserInv, SyncMatchesBurst
      <4> QED
        BY <1>2, <2>4, <3>1, <4>1 DEF SyncMatchesBurst, SyncMatchesTables
    <3>4. Uncleared(u)' = Uncleared(u) \cup {r} /\ \A m : FirstGroups(u, m)' = FirstGroups(u, m)
      BY <2>2, <2>4, <3>1, <3>2 DEF Uncleared, FirstGroups
    <3>5. \A k : AtGroup(u, k) => AtGroup(u, k)'
      BY <3>2 DEF AtGroup
    <3>6. Overlapped(u)' /\ (Uniform(u)' => Uniform(u))
      BY <3>1 DEF Overlapped, Uniform
    <3>7. BurstMatchesTables(u)'
      <4>1. burst'[u].same => Range(list) = Range(burst[u].groups)
        BY <3>1
      <4> QED
        BY <2>3, <3>1, <3>4, <3>6, <4>1 DEF UserInv, BurstMatchesTables
    <3>8. SomeoneIsAhead(u)'
      BY <2>2, <2>3, <3>1, <3>2, <3>6 DEF UserInv, SomeoneIsAhead
    <3>9. ASSUME burst'[u].size = "two"
          PROVE  \E q \in Syncing(u) :
                    /\ Syncing(u)' = {q, r}
                    /\ burst[u].size = "one"
                    /\ burst'[u].replaced => req[q].state = "insert" /\ Uncleared(u)' = {r}
      <4>1. burst[u].size = "one"
        BY <3>1, <3>9
      <4>2. PICK q \in Syncing(u) : TRUE
        BY <2>6 DEF Quiet
      <4>3. SyncMatchesBurst(u, q)
        BY <4>2 DEF UserInv
      <4> QED
        BY <2>2, <3>1, <3>4, <4>1, <4>2, <4>3 DEF SyncMatchesBurst, Uncleared
    <3>10. PairIsSmall(u)'
      BY <3>9 DEF PairIsSmall
    <3>11. PairIsInOrder(u)'
      <4> SUFFICES ASSUME Uniform(u)', burst'[u].size = "two"
                   PROVE  \E m \in 0 .. Len(burst[u].groups) :
                              user_idp_groups[u] = FirstGroups(u, m) /\ AtGroup(u, m)
        BY <2>3, <2>4, <3>1, <3>4, <3>5, <3>9 DEF PairIsInOrder, Uniform
      <4>1. PICK q \in Syncing(u) : burst[u].size = "one" /\ req[q].state = "insert"
        BY <3>9 DEF Uniform
      <4>2. SyncMatchesBurst(u, q) /\ SyncMatchesTables(u, q)
        BY <4>1 DEF UserInv
      <4>3. req[q].inserted \in Nat /\ req[q].groups = burst[u].groups
        BY <3>6, <4>2, Fields DEF SyncMatchesBurst, Uniform, Slot, Syncing
      <4>4. burst[u].groups \in Seq(Groups)
        BY Fields
      <4>5. req[q].inserted \in 0 .. Len(burst[u].groups)
        BY <4>2, <4>3, <4>4 DEF SyncMatchesBurst
      <4> QED
        BY <4>1, <4>2, <4>5 DEF SyncMatchesTables, AtGroup
    <3>12. FrontierIsGuarded(u)'
      BY <2>3, <3>1, <3>5, <3>6 DEF UserInv, FrontierIsGuarded
    <3> QED
      BY <2>2, <3>2, <3>3, <3>7, <3>8, <3>10, <3>11, <3>12 DEF UserInv
  <2> QED
    BY <2>5, <2>6
<1> QED
  BY <1>3, <1>4

\* A slot that was not syncing and is answered leaves everything alone.
LEMMA AnswerKeeps ==
    ASSUME SyncInv, NEW r \in Requests, Unauthorized(r) \/ Reply(r), NEW u \in Users
    PROVE  UserInv(u)'
<1> USE DEF SyncInv
<1>1. PICK record : /\ req' = [req EXCEPT ![r] = record]
                    /\ record.state \notin SyncStates
  BY DEF Unauthorized, Reply, Answered, SyncStates
<1>2. req[r].state \notin SyncStates
  BY DEF Unauthorized, Reply, SyncStates
<1>3. Syncing(u)' = Syncing(u) /\ \A q \in Syncing(u) : req'[q] = req[q]
  BY <1>1, <1>2, OtherSlot
<1>4. /\ user_idp_groups'[u] = user_idp_groups[u]
      /\ is_assoc_admin'[u] = is_assoc_admin[u]
      /\ burst'[u] = burst[u]
      /\ seen' = seen
  BY DEF Unauthorized, Reply, tables
<1> QED
  BY <1>3, <1>4, Untouched

\* A crash ends every sync and marks the bursts it cut.
LEMMA CrashKeeps ==
    ASSUME SyncInv, Crash, NEW u \in Users
    PROVE  UserInv(u)'
<1> USE DEF SyncInv
<1>1. Syncing(u)' = {} /\ Uncleared(u)' = {}
  BY DEF Crash, Syncing, Uncleared, Answered, SyncStates
<1>2. /\ user_idp_groups'[u] = user_idp_groups[u]
      /\ is_assoc_admin'[u] = is_assoc_admin[u]
      /\ burst'[u] = IF Quiet(u) THEN burst[u] ELSE [burst[u] EXCEPT !.fault = TRUE]
      /\ burst[u] \in BurstTypes
  BY DEF Crash, TypeOK
<1>3. CASE Quiet(u)
  BY <1>1, <1>2, <1>3, Untouched DEF Quiet
<1>4. CASE ~ Quiet(u)
  <2>1. /\ burst'[u].fault
        /\ burst'[u].size = burst[u].size /\ burst'[u].groups = burst[u].groups
        /\ burst'[u].same = burst[u].same /\ burst'[u].sent = burst[u].sent
        /\ burst'[u].served = burst[u].served /\ burst'[u].rejected = burst[u].rejected
        /\ burst'[u].replaced = burst[u].replaced
    BY <1>2, <1>4 DEF BurstTypes
  <2>2. ~ Uniform(u)' /\ (Overlapped(u)' <=> Overlapped(u))
    BY <2>1 DEF Uniform, Overlapped
  <2>3. BurstMatchesTables(u)'
    BY <1>2, <2>1, <2>2 DEF UserInv, BurstMatchesTables
  <2>4. PairIsSmall(u)'
    BY <1>1 DEF PairIsSmall
  <2> QED
    BY <1>1, <2>2, <2>3, <2>4
    DEF UserInv, SomeoneIsAhead, PairIsInOrder, FrontierIsGuarded
<1> QED
  BY <1>3, <1>4

\* Every step keeps the inductive invariant.
LEMMA StepInv == SyncInv /\ [Next]_vars => SyncInv'
<1> SUFFICES ASSUME SyncInv, [Next]_vars PROVE SyncInv'
  OBVIOUS
<1>1. TypeOK /\ TypeOK'
  BY StepTypes DEF SyncInv
<1>2. ASSUME NEW u \in Users PROVE UserInv(u)'
  <2>1. ASSUME NEW r \in Requests, Proceed(r) PROVE UserInv(u)'
    BY <2>1, SyncUserKeeps, SnapshotGroupsKeeps, ClearGroupsKeeps, AddGroupKeeps, RejectGroupKeeps,
       CallNextKeeps, AnswerKeeps DEF Proceed
  <2>2. ASSUME UNCHANGED vars PROVE UserInv(u)'
    <3>1. Syncing(u)' = Syncing(u) /\ UserInv(u)
      BY <2>2 DEF vars, Syncing, SyncInv
    <3> QED
      BY <1>1, <2>2, <3>1, Untouched DEF vars
  <2> QED
    BY <2>1, <2>2, ArriveKeeps, AnswerKeeps, StatementFailsKeeps, CrashKeeps DEF Next
<1> QED
  BY <1>1, <1>2 DEF SyncInv

\* The inductive invariant holds in every state.
THEOREM Invariance == Spec => []SyncInv
  BY InitInv, StepInv, PTL DEF Spec

-----------------------------------------------------------------------------
(* What follows from it *)

\* When no sync of u is left, a uniform burst of one or two has stored a list
\* without a gap: the first gap would be a frontier that nobody guards.
LEMMA NoGapWhenQuiet ==
    ASSUME SyncInv, NEW u \in Users, Quiet(u), Uniform(u), burst[u].size # "many"
    PROVE  \A k \in 1 .. Len(burst[u].groups) : burst[u].groups[k] \in user_idp_groups[u]
<1> DEFINE G == burst[u].groups
           gaps == {k \in 1 .. Len(G) : G[k] \notin user_idp_groups[u]}
<1>1. G \in Seq(Groups) /\ \A k : ~ AtGroup(u, k)
  BY Fields DEF SyncInv, AtGroup, Quiet
<1>2. ASSUME NEW k \in 1 .. Len(G) + 1,
             k > 1 => G[k - 1] \in user_idp_groups[u],
             k <= Len(G) => G[k] \notin user_idp_groups[u]
      PROVE  k = Len(G) + 1
  BY <1>1, <1>2 DEF SyncInv, UserInv, FrontierIsGuarded
<1>3. gaps = {}
  <2>1. SUFFICES ASSUME gaps # {} PROVE FALSE
    OBVIOUS
  <2>2. gaps \in SUBSET Nat
    BY <1>1
  <2>3. PICK k \in gaps : \A j \in gaps : k <= j
    <3> HIDE DEF gaps
    <3> QED
      BY <2>1, <2>2, LeastNatural
  <2>4. k \in 1 .. Len(G) /\ G[k] \notin user_idp_groups[u]
    OBVIOUS
  <2>5. k > 1 => G[k - 1] \in user_idp_groups[u]
    <3>1. SUFFICES ASSUME k > 1, G[k - 1] \notin user_idp_groups[u] PROVE FALSE
      OBVIOUS
    <3>2. k - 1 \in gaps
      BY <1>1, <2>4, <3>1
    <3> QED
      BY <2>3, <2>4, <3>2
  <2> QED
    BY <1>1, <1>2, <2>4, <2>5
<1> QED
  BY <1>3

\* The inductive invariant implies the convergence of overlapping syncs.
LEMMA InvImpliesConverges == SyncInv => OverlapConverges
<1> SUFFICES ASSUME SyncInv, NEW u \in Users, Quiet(u), burst[u].size # "none",
                    burst[u].same, ~ burst[u].fault, IsInjective(burst[u].groups)
             PROVE  /\ user_idp_groups[u] \subseteq Range(burst[u].groups)
                    /\ burst[u].size # "many"
                       => user_idp_groups[u] = Range(burst[u].groups)
                    /\ is_assoc_admin[u] = (AdminGroup \in Range(burst[u].groups))
                    /\ burst[u].served
  BY DEF OverlapConverges
<1>1. BurstMatchesTables(u) /\ SomeoneIsAhead(u) /\ Syncing(u) = {} /\ Uncleared(u) = {}
  BY DEF SyncInv, UserInv, Quiet, Uncleared
<1>2. burst[u].replaced
  BY <1>1 DEF BurstMatchesTables
<1>3. Uniform(u)
  BY <1>2 DEF Uniform
<1>4. burst[u].size # "many" => Range(burst[u].groups) \subseteq user_idp_groups[u]
  BY <1>3, NoGapWhenQuiet, Fields DEF Range, SyncInv
<1>5. user_idp_groups[u] \subseteq Range(burst[u].groups)
  BY <1>1, <1>2 DEF BurstMatchesTables
<1>6. burst[u].served
  BY <1>1, <1>3 DEF SomeoneIsAhead
<1> QED
  BY <1>1, <1>2, <1>4, <1>5, <1>6 DEF BurstMatchesTables

\* Overlapping syncs that carry one list store nothing else, let one of them
\* through, and, when they are two, store all of it: for any number of users,
\* slots and groups.
THEOREM Convergence == Spec => []OverlapConverges
  BY Invariance, InvImpliesConverges, PTL

\* No group from before a burst is stored once one of its requests has been
\* let through.
THEOREM Revocation == Spec => []RevokedGroupsGo
<1>1. SyncInv => RevokedGroupsGo
  BY DEF SyncInv, UserInv, BurstMatchesTables, RevokedGroupsGo
<1> QED
  BY <1>1, Invariance, PTL

\* A duplicate key needs an overlapping sync or a repeated name.
THEOREM Conflicts == Spec => []ConflictHasACause
<1>1. SyncInv => ConflictHasACause
  BY DEF SyncInv, UserInv, BurstMatchesTables, ConflictHasACause, Overlapped
<1> QED
  BY <1>1, Invariance, PTL

-----------------------------------------------------------------------------
(* Access: what a step of the middleware does to a handler that runs *)

\* A sync changes one slot: the only way into a handler is CallNext, and
\* while the handler runs its request stays as it is.
LEMMA HandlerSteps ==
    ASSUME SyncInv, Next, NEW r \in Requests, Handling(r)'
    PROVE  (Handling(r) /\ req'[r] = req[r]) \/ CallNext(r)
<1>1. \A q, x : req' = [req EXCEPT ![q] = x] => req'[r] = IF q = r THEN x ELSE req[r]
  BY DEF SyncInv, TypeOK
<1>2. ASSUME NEW q, NEW x, req' = [req EXCEPT ![q] = x], x.state # "next"
      PROVE  Handling(r) /\ req'[r] = req[r]
  BY <1>1, <1>2 DEF Handling
<1>3. \A status : Answered(status).state # "next"
  BY DEF Answered
<1>4. ASSUME NEW q \in Requests, Unauthorized(q) \/ RejectGroup(q) \/ Reply(q)
                                 \/ StatementFails(q)
      PROVE  Handling(r) /\ req'[r] = req[r]
  <2>1. \/ req' = [req EXCEPT ![q] = Answered(401)]
        \/ req' = [req EXCEPT ![q] = Answered(500)]
        \/ req' = [req EXCEPT ![q] = Answered(200)]
    BY <1>4 DEF Unauthorized, RejectGroup, Reply, StatementFails
  <2>2. QED
    BY <1>2, <1>3, <2>1
<1>5. ASSUME NEW q \in Requests, NEW u \in Users, NEW h \in Headers, Arrive(q, u, h)
      PROVE  Handling(r) /\ req'[r] = req[r]
  <2> DEFINE x == [state |-> "upsert", user |-> u, groups |-> parseGroups(h),
                   inserted |-> 0, status |-> 0]
  <2>1. req' = [req EXCEPT ![q] = x]
    BY <1>5 DEF Arrive
  <2>2. x.state # "next"
    OBVIOUS
  <2>3. QED
    <3> HIDE DEF x
    <3>1. QED
      BY <1>2, <2>1, <2>2
<1>6. ASSUME NEW q \in Requests,
             SyncUser(q) \/ SnapshotGroups(q) \/ ClearGroups(q) \/ AddGroup(q)
      PROVE  Handling(r) /\ req'[r] = req[r]
  <2>1. req[q] \in Slot /\ req[q].state \in SyncStates
    BY <1>6, Fields
    DEF SyncUser, SnapshotGroups, ClearGroups, AddGroup, Inserting, SyncStates, SyncInv
  <2>2. \/ req' = [req EXCEPT ![q] = [req[q] EXCEPT !.state = "delete"]]
        \/ req' = [req EXCEPT ![q] = [req[q] EXCEPT !.state = "deleting"]]
        \/ req' = [req EXCEPT ![q] = [req[q] EXCEPT !.state = "insert"]]
        \/ req' = [req EXCEPT ![q] = [req[q] EXCEPT !.inserted = @ + 1]]
    BY <1>6 DEF SyncUser, SnapshotGroups, ClearGroups, AddGroup, SyncInv, TypeOK
  <2>3. PICK x : req' = [req EXCEPT ![q] = x] /\ x.state # "next"
    BY <2>1, <2>2 DEF Slot, SyncStates
  <2>4. QED
    BY <1>2, <2>3
<1>7. ~ Crash
  BY <1>3 DEF Crash, Handling
<1>8. ASSUME NEW q \in Requests, CallNext(q)
      PROVE  (Handling(r) /\ req'[r] = req[r]) \/ CallNext(r)
  <2>1. req' = [req EXCEPT ![q] = [req[q] EXCEPT !.state = "next"]]
    BY <1>8 DEF CallNext, SyncInv, TypeOK
  <2>2. QED
    BY <1>1, <1>8, <2>1 DEF Handling
<1>9. QED
  BY <1>4, <1>5, <1>6, <1>7, <1>8 DEF Next, Proceed

\* Whatever a step adds to the stored groups of a user, a request of the
\* running burst has sent.
LEMMA StoredGroupsGrow ==
    ASSUME SyncInv, Next, NEW u \in Users
    PROVE  user_idp_groups'[u] \subseteq user_idp_groups[u] \cup burst'[u].sent
<1> USE DEF SyncInv
<1>1. ASSUME UNCHANGED user_idp_groups
      PROVE  user_idp_groups'[u] \subseteq user_idp_groups[u] \cup burst'[u].sent
  BY <1>1
<1>2. ASSUME NEW r, DeleteUserIDPGroups(r)
      PROVE  user_idp_groups'[u] \subseteq user_idp_groups[u] \cup burst'[u].sent
  BY <1>2 DEF DeleteUserIDPGroups, TypeOK
<1>3. ASSUME NEW r \in Requests, Inserting(r), InsertUserIDPGroup(req[r].user, NextGroup(r)),
             burst'[req[r].user].sent = burst[req[r].user].sent
      PROVE  user_idp_groups'[u] \subseteq user_idp_groups[u] \cup burst'[u].sent
  <2>1. /\ req[r].user \in Users /\ req[r] \in Slot
        /\ r \in Syncing(req[r].user)
    BY <1>3, Fields DEF Inserting, Syncing, SyncStates
  <2>2. NextGroup(r) \in Range(req[r].groups)
    BY <1>3, <2>1 DEF Inserting, NextGroup, Slot, Range
  <2>3. Range(req[r].groups) \subseteq burst[req[r].user].sent
    BY <2>1 DEF UserInv, SyncMatchesBurst
  <2>4. QED
    BY <1>3, <2>1, <2>2, <2>3 DEF InsertUserIDPGroup, TypeOK
<1>4. ASSUME NEW r \in Requests, AddGroup(r)
      PROVE  user_idp_groups'[u] \subseteq user_idp_groups[u] \cup burst'[u].sent
  BY <1>3, <1>4 DEF AddGroup
<1>5. ASSUME NEW r \in Requests, StatementFails(r)
      PROVE  user_idp_groups'[u] \subseteq user_idp_groups[u] \cup burst'[u].sent
  <2>1. req[r].user \in Users
    BY <1>5, Fields DEF StatementFails, Inserting
  <2>2. burst'[req[r].user].sent = burst[req[r].user].sent
    BY <1>5, <2>1 DEF StatementFails, TypeOK, BurstTypes
  <2>3. QED
    BY <1>1, <1>2, <1>3, <1>5, <2>2 DEF StatementFails, UpsertUser
<1>6. ASSUME NEW r \in Requests, Proceed(r)
      PROVE  user_idp_groups'[u] \subseteq user_idp_groups[u] \cup burst'[u].sent
  BY <1>1, <1>2, <1>4, <1>6
  DEF Proceed, SyncUser, UpsertUser, SnapshotGroups, ClearGroups, RejectGroup, CallNext,
      Reply, tables
<1>7. QED
  BY <1>1, <1>5, <1>6 DEF Next, Unauthorized, Arrive, Crash, tables

\* While no sync of a user runs, its stored groups stay.
LEMMA QuietKeepsGroups ==
    ASSUME SyncInv, Next, NEW u \in Users, Quiet(u)
    PROVE  user_idp_groups'[u] = user_idp_groups[u]
<1> USE DEF SyncInv
<1>1. ASSUME NEW r \in Requests, req[r].state \in SyncStates PROVE req[r].user # u
  BY <1>1 DEF Quiet, Syncing
<1>2. ASSUME NEW r \in Requests, DeleteUserIDPGroups(r), req[r].state = "deleting"
      PROVE  user_idp_groups'[u] = user_idp_groups[u]
  BY <1>1, <1>2 DEF DeleteUserIDPGroups, TypeOK, SyncStates
<1>3. ASSUME NEW r \in Requests, Inserting(r), InsertUserIDPGroup(req[r].user, NextGroup(r))
      PROVE  user_idp_groups'[u] = user_idp_groups[u]
  BY <1>1, <1>3 DEF Inserting, InsertUserIDPGroup, TypeOK, SyncStates
<1>4. ASSUME NEW r \in Requests, Proceed(r) PROVE user_idp_groups'[u] = user_idp_groups[u]
  BY <1>2, <1>3, <1>4
  DEF Proceed, SyncUser, UpsertUser, SnapshotGroups, ClearGroups, AddGroup, RejectGroup,
      CallNext, Reply, tables
<1>5. ASSUME NEW r \in Requests, StatementFails(r) PROVE user_idp_groups'[u] = user_idp_groups[u]
  BY <1>2, <1>3, <1>5 DEF StatementFails, UpsertUser
<1>6. QED
  BY <1>4, <1>5 DEF Next, Unauthorized, Arrive, Crash, tables

\* What CallNext finds: the groups of its burst stored, and its own list
\* exactly if no other sync of the user has overlapped.
LEMMA LetThrough ==
    ASSUME SyncInv, NEW r \in Requests, CallNext(r), NEW u \in Users, u = req[r].user
    PROVE  /\ req'[r] = [req[r] EXCEPT !.state = "next"]
           /\ UNCHANGED user_idp_groups
           /\ burst'[u].sent = burst[u].sent
           /\ burst'[u].size = burst[u].size
           /\ user_idp_groups[u] \subseteq burst[u].sent
           /\ burst[u].size = "one"
              => user_idp_groups[u] = Range(req[r].groups) /\ Quiet(u)'
<1> USE DEF SyncInv
<1>1.  req[r] \in Slot /\ req[r].state = "insert"
  BY Fields DEF CallNext
<1>2. /\ r \in Syncing(u)
      /\ SyncMatchesBurst(u, r) /\ SyncMatchesTables(u, r) /\ BurstMatchesTables(u)
  BY <1>1 DEF Syncing, SyncStates, UserInv
<1>3. /\ req' = [req EXCEPT ![r] = [req[r] EXCEPT !.state = "next"]]
      /\ req'[r] = [req[r] EXCEPT !.state = "next"]
  BY DEF CallNext, TypeOK
<1>4. /\ UNCHANGED user_idp_groups
      /\ burst'[u].sent = burst[u].sent
      /\ burst'[u].size = burst[u].size
  BY <1>1 DEF CallNext, tables, TypeOK, BurstTypes
<1>5. user_idp_groups[u] \subseteq burst[u].sent
  BY <1>1, <1>2 DEF SyncMatchesBurst, BurstMatchesTables
<1>6. ASSUME burst[u].size = "one"
      PROVE  user_idp_groups[u] = Range(req[r].groups) /\ Quiet(u)'
  <2>1. burst[u].groups = req[r].groups /\ Syncing(u) = {r}
    BY <1>2, <1>6 DEF SyncMatchesBurst, BurstMatchesTables
  <2>2. user_idp_groups[u] = {req[r].groups[j] : j \in 1 .. Len(req[r].groups)}
    BY <1>1, <1>2, <1>6, <2>1 DEF SyncMatchesTables, FirstGroups, CallNext
  <2>3. user_idp_groups[u] = Range(req[r].groups)
    BY <1>1, <2>2 DEF Slot, Range
  <2>4. Syncing(u)' = Syncing(u) \ {r}
    <3> DEFINE record == [req[r] EXCEPT !.state = "next"]
    <3>1. req' = [req EXCEPT ![r] = record] /\ record.state \notin SyncStates
      BY <1>1, <1>3 DEF Slot, SyncStates
    <3>2. QED
      <4> HIDE DEF record
      <4>1. QED
        BY <1>1, <3>1, Leaves
  <2>5. QED
    BY <2>1, <2>3, <2>4 DEF Quiet
<1>7. QED
  BY <1>1, <1>3, <1>4, <1>5, <1>6

-----------------------------------------------------------------------------
(* The inductive invariant of Access *)

\* The two registries: units bind groups, calendars refer to units.
TablesInv ==
    /\ units \in [UnitIds -> UnitTypes \cup {None}]
    /\ calendars \in [CalendarIds -> CalendarTypes \cup {None}]
    /\ \A id \in Planner!Live :
        calendars[id].unit \in Registry!Live /\ calendars[id].viewers \subseteq Registry!Live

\* What the stored groups of the user of a running handler can be: groups
\* that were sent while it ran, and in a calm handler those of its request.
HandlerInv(r) ==
    /\ Handling(r) => user_idp_groups[req[r].user] \subseteq heard[r]
    /\ calm[r] => /\ Handling(r)
                  /\ Quiet(req[r].user)
                  /\ user_idp_groups[req[r].user] = Range(req[r].groups)

AccessInv ==
    /\ SyncInv
    /\ TablesInv
    /\ heard \in [Requests -> SUBSET Groups]
    /\ calm \in [Requests -> BOOLEAN]
    /\ \A r \in Requests : HandlerInv(r)

\* Nothing is stored, and no handler runs.
LEMMA AccessInitInv == AccessInit => AccessInv
<1> SUFFICES ASSUME AccessInit PROVE AccessInv
  OBVIOUS
<1>1. SyncInv
  BY InitInv DEF AccessInit
<1>2. TablesInv
  BY DEF AccessInit, Registry!Init, TablesInv, Planner!Live
<1>3. \A r \in Requests : ~ Handling(r) /\ ~ calm[r]
  BY DEF AccessInit, Init, Answered, Handling
<1>4. QED
  BY <1>1, <1>2, <1>3 DEF AccessInit, AccessInv, HandlerInv

\* Remember keeps the history well formed.
LEMMA RememberTypes ==
    ASSUME AccessInv, SyncInv', Remember
    PROVE  heard' \in [Requests -> SUBSET Groups] /\ calm' \in [Requests -> BOOLEAN]
<1>1. ASSUME NEW r \in Requests, Handling(r)' PROVE burst'[req'[r].user].sent \subseteq Groups
  <2>1. TypeOK' /\ req'[r].state = "next"
    BY <1>1 DEF SyncInv, Handling
  <2>2. req'[r].user \in Users
    <3>1. req'[r] \in RequestTypes
      BY <2>1 DEF TypeOK
    <3>2. QED
      BY <2>1, <3>1 DEF RequestTypes, Answered
  <2>3. QED
    BY <2>1, <2>2 DEF TypeOK, BurstTypes
<1>2. heard' \in [Requests -> SUBSET Groups]
  BY <1>1 DEF Remember, AccessInv
<1>3. calm' \in [Requests -> BOOLEAN]
  BY DEF Remember
<1>4. QED
  BY <1>2, <1>3

\* A step of the middleware keeps what a handler knows of the stored groups.
LEMMA SynchroniseKeeps ==
    ASSUME AccessInv, Synchronise, NEW r \in Requests
    PROVE  HandlerInv(r)'
<1>1. SyncInv /\ Next /\ HandlerInv(r)
  BY DEF AccessInv, Synchronise
<1>2. CASE ~ Handling(r)'
  BY <1>2 DEF Synchronise, Remember, HandlerInv
<1>3. CASE Handling(r)' /\ Handling(r) /\ req'[r] = req[r]
  <2>1. PICK v \in Users : v = req[r].user
    BY <1>1, <1>3, Fields DEF SyncInv, Handling
  <2>2. heard'[r] = heard[r] \cup burst'[v].sent
    BY <1>3, <2>1 DEF Synchronise, Remember
  <2>3. user_idp_groups'[v] \subseteq user_idp_groups[v] \cup burst'[v].sent
    BY <1>1, StoredGroupsGrow
  <2>4. user_idp_groups'[v] \subseteq heard'[r]
    BY <1>1, <1>3, <2>1, <2>2, <2>3 DEF HandlerInv
  <2>5. ASSUME calm'[r]
        PROVE  Quiet(v)' /\ user_idp_groups'[v] = Range(req'[r].groups)
    <3>1. calm[r] /\ Quiet(v)'
      BY <1>3, <2>1, <2>5 DEF Synchronise, Remember
    <3>2. Quiet(v) /\ user_idp_groups[v] = Range(req[r].groups)
      BY <1>1, <2>1, <3>1 DEF HandlerInv
    <3>3. QED
      BY <1>1, <1>3, <3>1, <3>2, QuietKeepsGroups
  <2>6. QED
    BY <1>3, <2>1, <2>4, <2>5 DEF HandlerInv
<1>4. CASE Handling(r)' /\ CallNext(r)
  <2>1. PICK v \in Users : v = req[r].user
    BY <1>1, Fields, <1>4 DEF SyncInv, CallNext
  <2>2. /\ req'[r] = [req[r] EXCEPT !.state = "next"]
        /\ UNCHANGED user_idp_groups
        /\ burst'[v].sent = burst[v].sent
        /\ burst'[v].size = burst[v].size
        /\ user_idp_groups[v] \subseteq burst[v].sent
        /\ burst[v].size = "one"
           => user_idp_groups[v] = Range(req[r].groups) /\ Quiet(v)'
    BY <1>1, <1>4, <2>1, LetThrough
  <2>3. req[r] \in Slot
    BY <1>1, Fields DEF SyncInv
  <2>4. req'[r].user = v /\ req'[r].groups = req[r].groups
    BY <2>1, <2>2, <2>3 DEF Slot
  <2>5. ~ Handling(r)
    BY <1>4 DEF CallNext, Handling
  <2>6. /\ heard'[r] = heard[r] \cup burst'[v].sent
        /\ calm'[r] => burst'[v].size = "one"
    BY <1>4, <2>4, <2>5 DEF Synchronise, Remember
  <2>7. user_idp_groups'[v] \subseteq heard'[r]
    BY <2>2, <2>6
  <2>8. calm'[r] => Quiet(v)' /\ user_idp_groups'[v] = Range(req'[r].groups)
    BY <2>2, <2>4, <2>6
  <2>9. QED
    BY <1>4, <2>4, <2>7, <2>8 DEF HandlerInv
<1>5. QED
  BY <1>1, <1>2, <1>3, <1>4, HandlerSteps

\* A change of the registries leaves requests and histories alone.
LEMMA OthersKeep ==
    ASSUME AccessInv, UNCHANGED <<vars, heard, calm>>
    PROVE  /\ SyncInv'
           /\ heard' \in [Requests -> SUBSET Groups]
           /\ calm' \in [Requests -> BOOLEAN]
           /\ \A r \in Requests : HandlerInv(r)'
<1>1. UNCHANGED vars
  OBVIOUS
<1>2. SyncInv'
  BY <1>1, StepInv DEF AccessInv
<1>3. ASSUME NEW r \in Requests PROVE HandlerInv(r)'
  <2>1. HandlerInv(r)
    BY DEF AccessInv
  <2>2. \A u : Quiet(u)' <=> Quiet(u)
    BY DEF vars, Quiet, Syncing
  <2>3. QED
    BY <2>1, <2>2 DEF vars, HandlerInv, Handling
<1>4. QED
  BY <1>2, <1>3 DEF AccessInv

\* A form saved for a unit keeps the units that calendars refer to.
LEMMA SaveUnitKeeps ==
    ASSUME TablesInv, SaveUnit
    PROVE  TablesInv'
<1>1. PICK id \in UnitIds, content \in UnitContents :
         Registry!Create(id, content) \/ Registry!Update(id, content)
  BY DEF SaveUnit
<1>2. content \in UnitTypes
  BY AccessAssumption
<1>3. PICK row \in UnitTypes : units' = [units EXCEPT ![id] = row]
  <2>1. CASE Registry!Create(id, content)
    BY <1>2, <2>1 DEF Registry!Create
  <2>2. CASE Registry!Update(id, content)
    <3>1. units[id] \in UnitTypes
      BY <2>2 DEF Registry!Update, Registry!Live, TablesInv
    <3>2. [content EXCEPT !.slug = units[id].slug] \in UnitTypes
      BY <1>2, <3>1 DEF UnitTypes
    <3>3. QED
      BY <2>2, <3>2 DEF Registry!Update
  <2>3. QED
    BY <1>1, <2>1, <2>2
<1>4. Registry!Live \subseteq Registry!Live'
  BY <1>3, AccessAssumption DEF Registry!Live, TablesInv
<1>5. calendars' = calendars /\ Planner!Live' = Planner!Live
  BY DEF SaveUnit, Planner!Live
<1>6. units' \in [UnitIds -> UnitTypes \cup {None}]
  BY <1>3 DEF TablesInv
<1>7. QED
  BY <1>4, <1>5, <1>6 DEF TablesInv

\* A unit takes its calendars along, and its places among the viewers.
LEMMA DeleteUnitKeeps ==
    ASSUME TablesInv, DeleteUnit
    PROVE  TablesInv'
<1>1. PICK id \in Registry!Live : Registry!Delete(id) /\ Planner!DeleteUnit(id)
  BY DEF DeleteUnit
<1>2. units' = [units EXCEPT ![id] = None] /\ id \in UnitIds
  BY <1>1 DEF Registry!Delete, Registry!Live
<1>3. Registry!Live' = Registry!Live \ {id}
  BY <1>2 DEF Registry!Live, TablesInv
<1>4. calendars' = [c \in CalendarIds |->
                      IF c \notin Planner!Live \/ calendars[c].unit = id THEN None
                      ELSE [calendars[c] EXCEPT !.viewers = @ \ {id}]]
  BY <1>1 DEF Planner!DeleteUnit
<1>5. ASSUME NEW c \in Planner!Live PROVE c \in CalendarIds /\ calendars[c] \in CalendarTypes
  BY <1>5 DEF Planner!Live, TablesInv
<1>6. ASSUME NEW c \in Planner!Live, calendars[c].unit # id
      PROVE  /\ calendars'[c] \in CalendarTypes
             /\ calendars'[c].unit = calendars[c].unit
             /\ calendars'[c].viewers = calendars[c].viewers \ {id}
  <2>1. calendars'[c] = [calendars[c] EXCEPT !.viewers = @ \ {id}]
    BY <1>4, <1>5, <1>6
  <2>2. QED
    BY <1>5, <2>1 DEF CalendarTypes
<1>7. calendars' \in [CalendarIds -> CalendarTypes \cup {None}]
  BY <1>4, <1>6
<1>8. ASSUME NEW c \in Planner!Live'
      PROVE  /\ calendars'[c].unit \in Registry!Live'
             /\ calendars'[c].viewers \subseteq Registry!Live'
  <2>1. c \in CalendarIds /\ calendars'[c] # None
    BY <1>8 DEF Planner!Live
  <2>2. c \in Planner!Live /\ calendars[c].unit # id
    BY <1>4, <2>1
  <2>3. calendars[c].unit \in Registry!Live /\ calendars[c].viewers \subseteq Registry!Live
    BY <2>2 DEF TablesInv
  <2>4. QED
    BY <1>3, <1>6, <2>2, <2>3
<1>9. units' \in [UnitIds -> UnitTypes \cup {None}]
  BY <1>2 DEF TablesInv
<1>10. QED
  BY <1>7, <1>8, <1>9 DEF TablesInv

\* A calendar refers to units that exist when it is saved.
LEMMA ChangeCalendarKeeps ==
    ASSUME TablesInv, ChangeCalendar
    PROVE  TablesInv'
<1>1. PICK id \in CalendarIds :
         \/ \E content \in CalendarContents :
             \/ \E unit \in UnitIds : Planner!Create(id, unit, content)
             \/ Planner!Update(id, content)
         \/ Planner!Delete(id)
  BY DEF ChangeCalendar
<1>2. Registry!Live' = Registry!Live /\ UNCHANGED units
  BY DEF ChangeCalendar, Registry!Live
<1>3. ASSUME NEW row \in CalendarTypes, calendars' = [calendars EXCEPT ![id] = row],
             row.unit \in Registry!Live, row.viewers \subseteq Registry!Live
      PROVE  TablesInv'
  BY <1>2, <1>3 DEF TablesInv, Planner!Live
<1>4. ASSUME NEW content \in CalendarContents, NEW unit \in Registry!Live,
             content.viewers \subseteq Registry!Live,
             calendars' = [calendars EXCEPT ![id] = Planner!Calendar(unit, content)]
      PROVE  TablesInv'
  <2>1. content \in [visibility : Visibilities, viewers : SUBSET UnitIds] /\ unit \in UnitIds
    BY AccessAssumption DEF Registry!Live
  <2>2. /\ Planner!Calendar(unit, content) \in CalendarTypes
        /\ Planner!Calendar(unit, content).unit = unit
        /\ Planner!Calendar(unit, content).viewers = content.viewers
    BY <2>1 DEF Planner!Calendar, CalendarTypes
  <2>3. QED
    BY <1>3, <1>4, <2>2
<1>5. ASSUME NEW content \in CalendarContents, NEW unit \in UnitIds,
             Planner!Create(id, unit, content)
      PROVE  TablesInv'
  BY <1>4, <1>5 DEF Planner!Create
<1>6. ASSUME NEW content \in CalendarContents, Planner!Update(id, content) PROVE TablesInv'
  BY <1>4, <1>6 DEF Planner!Update, TablesInv
<1>7. ASSUME Planner!Delete(id) PROVE TablesInv'
  BY <1>2, <1>7 DEF Planner!Delete, Planner!Live, TablesInv
<1>8. QED
  BY <1>1, <1>5, <1>6, <1>7

\* Every step of the system keeps the invariant.
LEMMA AccessStepInv == AccessInv /\ [AccessNext]_access => AccessInv'
<1> SUFFICES ASSUME AccessInv, [AccessNext]_access PROVE AccessInv'
  OBVIOUS
<1>1. CASE Synchronise
  <2>1. SyncInv'
    BY <1>1, StepInv DEF AccessInv, Synchronise
  <2>2. TablesInv'
    BY <1>1 DEF AccessInv, Synchronise, registries, TablesInv, Planner!Live, Registry!Live
  <2>3. heard' \in [Requests -> SUBSET Groups] /\ calm' \in [Requests -> BOOLEAN]
    BY <1>1, <2>1, RememberTypes DEF Synchronise
  <2>4. QED
    BY <1>1, <2>1, <2>2, <2>3, SynchroniseKeeps DEF AccessInv
<1>2. ASSUME TablesInv', UNCHANGED <<vars, heard, calm>> PROVE AccessInv'
  BY <1>2, OthersKeep DEF AccessInv
<1>3. CASE SaveUnit
  BY <1>2, <1>3, SaveUnitKeeps DEF AccessInv, SaveUnit
<1>4. CASE DeleteUnit
  BY <1>2, <1>4, DeleteUnitKeeps DEF AccessInv, DeleteUnit
<1>5. CASE ChangeCalendar
  BY <1>2, <1>5, ChangeCalendarKeeps DEF AccessInv, ChangeCalendar
<1>6. CASE UNCHANGED access
  <2>1. TablesInv'
    BY <1>6 DEF AccessInv, access, registries, TablesInv, Planner!Live, Registry!Live
  <2>2. QED
    BY <1>2, <1>6, <2>1 DEF access
<1>7. QED
  BY <1>1, <1>3, <1>4, <1>5, <1>6 DEF AccessNext

\* The inductive invariant of the whole system: what a running handler can
\* read of its user's stored groups, and to what the tables refer.
THEOREM AccessInvariance == AccessSpec => []AccessInv
  BY AccessInitInv, AccessStepInv, PTL DEF AccessSpec

-----------------------------------------------------------------------------
(* What follows from it *)

\* Calendars and their viewers belong to units that exist, for any number of
\* units, calendars and requests.
THEOREM References == AccessSpec => []TablesAgree
<1>1. AccessInv => TablesAgree
  BY DEF AccessInv, SyncInv, TablesInv, TablesAgree, Registry!Live, UnitTypes
<1>2. QED
  BY <1>1, AccessInvariance, PTL

\* The middleware keeps its promises while the registries change beside it.
THEOREM MiddlewareKeepsPromises ==
    AccessSpec => [](OverlapConverges /\ RevokedGroupsGo /\ ConflictHasACause)
<1>1. SyncInv => OverlapConverges /\ RevokedGroupsGo /\ ConflictHasACause
  BY InvImpliesConverges
  DEF SyncInv, UserInv, BurstMatchesTables, RevokedGroupsGo, ConflictHasACause
<1>2. AccessInv => OverlapConverges /\ RevokedGroupsGo /\ ConflictHasACause
  BY <1>1 DEF AccessInv
<1>3. QED
  BY <1>2, AccessInvariance, PTL

\* The join over stored groups lists what membership by these groups allows.
LEMMA JoinIsMembership ==
    ASSUME AccessInv, NEW u
    PROVE  ListVisibleCalendarsForUser(u) = Allowed(user_idp_groups[u])
<1>1. ASSUME NEW id \in Planner!Live
      PROVE  /\ calendars[id].visibility \in Visibilities
             /\ calendars[id].unit \in Registry!Live
             /\ calendars[id].viewers \subseteq Registry!Live
  BY <1>1 DEF AccessInv, TablesInv, Planner!Live, CalendarTypes
<1>2. ASSUME NEW unit \in Registry!Live
      PROVE  Registry!IsUnitMember(unit, user_idp_groups[u])
             <=> \E g \in user_idp_groups[u] : g \in units[unit].groups
  BY <1>2 DEF Registry!IsUnitMember
<1>3. QED
  BY <1>1, <1>2 DEF ListVisibleCalendarsForUser, Allowed, Visibilities

\* More groups allow more.
LEMMA AllowedGrows ==
    ASSUME NEW S, NEW T, S \subseteq T
    PROVE  Allowed(S) \subseteq Allowed(T)
<1>1. \A unit : Registry!IsUnitMember(unit, S) => Registry!IsUnitMember(unit, T)
  BY DEF Registry!IsUnitMember
<1>2. QED
  BY <1>1 DEF Allowed

\* A handler lists to its user only what groups allow that the user has sent
\* with this request or while it ran: no earlier session shows through.
THEOREM NothingStaleIsListed == AccessSpec => []ListedIsPresented
<1>1. AccessInv => ListedIsPresented
  <2>1. SUFFICES ASSUME AccessInv, NEW r \in Requests, Handling(r), ~ IsAdmin(r)
                 PROVE  Visible(r) \subseteq Allowed(heard[r])
    BY DEF ListedIsPresented
  <2>2. Visible(r) = Allowed(user_idp_groups[req[r].user])
    BY <2>1, JoinIsMembership DEF Visible, ListVisibleCalendars
  <2>3. user_idp_groups[req[r].user] \subseteq heard[r]
    BY <2>1 DEF AccessInv, HandlerInv
  <2>4. QED
    BY <2>2, <2>3, AllowedGrows
<1>2. QED
  BY <1>1, AccessInvariance, PTL

\* As long as no other sync of the user runs, both resolutions of membership
\* agree.
THEOREM BothResolutionsAgree == AccessSpec => []StoredGroupsAgree
<1>1. AccessInv => StoredGroupsAgree
  <2>1. SUFFICES ASSUME AccessInv, NEW r \in Requests, calm[r], ~ IsAdmin(r)
                 PROVE  /\ Visible(r) = Allowed(Range(req[r].groups))
                        /\ \A id \in Planner!Live :
                            /\ calendars[id].visibility = "unit"
                            /\ calendars[id].unit
                                 \in Registry!ListUnitsByUserGroups(Range(req[r].groups))
                            => id \in Visible(r)
    BY DEF StoredGroupsAgree
  <2>2. Visible(r) = Allowed(Range(req[r].groups))
    <3>1. user_idp_groups[req[r].user] = Range(req[r].groups)
      BY <2>1 DEF AccessInv, HandlerInv
    <3>2. QED
      BY <2>1, <3>1, JoinIsMembership DEF Visible, ListVisibleCalendars
  <2>3. ASSUME NEW id \in Planner!Live, calendars[id].visibility = "unit",
               calendars[id].unit \in Registry!ListUnitsByUserGroups(Range(req[r].groups))
        PROVE  id \in Allowed(Range(req[r].groups))
    BY <2>3 DEF Allowed, Registry!ListUnitsByUserGroups, Registry!IsUnitMember
  <2>4. QED
    BY <2>2, <2>3
<1>2. QED
  BY <1>1, AccessInvariance, PTL

=============================================================================
