-------------------------- MODULE LifecycleProofs --------------------------
(***************************************************************************)
(* Theorems about Lifecycle, for any number of processes, migrations,      *)
(* requests and connections.                                               *)
(***************************************************************************)
EXTENDS Lifecycle, TLAPS

-----------------------------------------------------------------------------
(* The inductive invariant *)

\* A migration's tables and its version row appear together.
SchemaIsWhole == objects = version

\* Nobody runs a migration that lies beyond the next one, and the one that
\* has created its tables, not yet visible to others, is at the next one.
TargetsAreNear ==
    /\ \A p \in Processes : process[p].at = "apply" => process[p].target <= version + 1
    /\ \A p \in Processes : process[p].at = "commit" => process[p].target = version + 1

\* Of the processes that run a migration one at most has created its tables.
OneCommits ==
    \A p, q \in Processes : process[p].at = "commit" /\ process[q].at = "commit" => p = q

\* Processes that migrate at the same time know.
OverlapIsKnown ==
    \A p, q \in Processes :
        p # q /\ Migrating(p) /\ Migrating(q) => ~ process[p].alone

\* What a process has read of the version is true as long as it is alone.
AloneIsCurrent ==
    \A p \in Processes :
        process[p].at = "apply" /\ process[p].alone => process[p].target = version + 1

\* A process goes on only from the last migration.
WiredIsMigrated ==
    \A p \in Processes :
        process[p].at \in {"wire", "started", "wait", "drain", "close"} => version = Last

\* The listening goroutine lives as long as main.
ServerHasMain ==
    \A p \in Processes :
        server[p] # "none" => process[p].at \in {"started", "wait", "drain", "close"}

LifeInv ==
    /\ TypeOK /\ SchemaIsWhole /\ TargetsAreNear /\ OneCommits
    /\ OverlapIsKnown /\ AloneIsCurrent /\ WiredIsMigrated /\ ServerHasMain

-----------------------------------------------------------------------------
(* Types *)

LEMMA ProcessRecord ==
    ASSUME NEW at \in {"off", "read", "apply", "commit", "wire", "started", "wait", "drain", "close"}
    PROVE  Process(at) \in Processing
BY LifecycleAssumption DEF Process, Processing

LEMMA EndedRecord ==
    ASSUME NEW exit \in {"none", "failed", "fault", "killed", "stopped"}
    PROVE  Ended(exit) \in Processing
<1>1. Process("off") \in Processing
    BY ProcessRecord
<1>2. QED
    BY <1>1 DEF Ended, Processing

LEMMA InitType == Init => TypeOK
<1>1. Process("off") \in Processing
    BY ProcessRecord
<1>2. NoRequest \in Requesting
    BY DEF NoRequest, Requesting
<1>3. QED
    BY <1>1, <1>2, LifecycleAssumption DEF Init, TypeOK

\* What Becomes and Moves make is of its type if the new record is.
LEMMA BecomesType ==
    ASSUME TypeOK, NEW p \in Processes, NEW next \in Processing, Becomes(p, next)
    PROVE  process' \in [Processes -> Processing]
BY DEF TypeOK, Becomes

LEMMA GoesType ==
    ASSUME TypeOK, NEW p \in Processes,
           NEW at \in {"off", "read", "apply", "commit", "wire", "started", "wait", "drain", "close"},
           Goes(p, at), UNCHANGED <<objects, version, request>>,
           server' \in [Processes -> {"none", "starting", "listening"}]
    PROVE  TypeOK'
<1>1. process' \in [Processes -> Processing]
    BY BecomesType, ProcessRecord DEF Goes
<1>2. QED
    BY <1>1 DEF TypeOK

LEMMA EndsType ==
    ASSUME TypeOK, NEW p \in Processes,
           NEW exit \in {"none", "failed", "fault", "killed", "stopped"},
           Ends(p, exit), objects' \in 0..Last, version' \in 0..Last
    PROVE  TypeOK'
<1>1. process' \in [Processes -> Processing]
    BY BecomesType, EndedRecord DEF Ends
<1>2. NoRequest \in Requesting
    BY DEF NoRequest, Requesting
<1>3. /\ request' \in [Processes -> [Slots -> Requesting]]
      /\ server' \in [Processes -> {"none", "starting", "listening"}]
    BY <1>2 DEF TypeOK, Ends
<1>4. QED
    BY <1>1, <1>3 DEF TypeOK

LEMMA MovesType ==
    ASSUME TypeOK, NEW p \in Processes, NEW r \in Slots,
           NEW at, NEW conns, [at |-> at, conns |-> conns] \in Requesting,
           Moves(p, r, at, conns)
    PROVE  TypeOK'
<1>1. request' \in [Processes -> [Slots -> Requesting]]
    BY DEF TypeOK, Moves
<1>2. QED
    BY <1>1 DEF TypeOK, Moves

LEMMA RequestType ==
    ASSUME TypeOK, NEW p \in Processes, NEW r \in Slots,
           \/ Arrive(p, r) \/ Ask(p, r) \/ Acquire(p, r) \/ Work(p, r)
           \/ GiveUp(p, r) \/ Answer(p, r)
    PROVE  TypeOK' /\ UNCHANGED <<objects, version, process, server>>
<1>1. CASE Arrive(p, r) \/ Ask(p, r) \/ GiveUp(p, r) \/ Answer(p, r)
    <2>1. \/ Moves(p, r, "work", 0) \/ Moves(p, r, "wait", 0) \/ Moves(p, r, "idle", 0)
        BY <1>1 DEF Arrive, Ask, GiveUp, Answer
    <2>2. QED
        BY <2>1, MovesType DEF Moves, Requesting
<1>2. CASE Acquire(p, r)
    <2>1. request[p][r].conns = 0
        BY <1>2 DEF Acquire, At, TypeOK, Requesting
    <2>2. \/ Moves(p, r, "query", 1) \/ Moves(p, r, "tx", 1) \/ Moves(p, r, "idle", 0)
        BY <1>2, <2>1 DEF Acquire
    <2>3. QED
        BY <2>2, MovesType DEF Moves, Requesting
<1>3. CASE Work(p, r)
    <2>1. Moves(p, r, "work", 0) \/ Moves(p, r, "commit", 1)
        BY <1>3 DEF Work, Query, Callback, EndTx
    <2>2. QED
        BY <2>1, MovesType DEF Moves, Requesting
<1>4. QED
    BY <1>1, <1>2, <1>3

-----------------------------------------------------------------------------
(* The actions of main *)

LEMMA InitInv == Init => LifeInv
BY InitType, LifecycleAssumption
DEF Init, LifeInv, SchemaIsWhole, TargetsAreNear, OneCommits, OverlapIsKnown,
    AloneIsCurrent, WiredIsMigrated, ServerHasMain, Migrating, Process

\* A process that ends leaves the others as they are.
LEMMA EndsInv ==
    ASSUME LifeInv, NEW p \in Processes,
           NEW exit \in {"none", "failed", "fault", "killed", "stopped"},
           Ends(p, exit), UNCHANGED <<objects, version>>
    PROVE  LifeInv'
<1>1. TypeOK'
    BY EndsType DEF LifeInv, TypeOK
<1>2. /\ process'[p].at = "off" /\ server'[p] = "none"
      /\ \A q \in Processes \ {p} : process'[q] = process[q] /\ server'[q] = server[q]
    BY DEF LifeInv, TypeOK, Ends, Ended, Becomes, Process
<1>3. QED
    BY <1>1, <1>2
    DEF LifeInv, SchemaIsWhole, TargetsAreNear, OneCommits, OverlapIsKnown,
        AloneIsCurrent, WiredIsMigrated, ServerHasMain, Migrating

LEMMA StartInv ==
    ASSUME LifeInv, NEW p \in Processes, Start(p) PROVE LifeInv'
<1>1. TypeOK'
    <2> DEFINE Alone(q) == [process[q] EXCEPT !.alone = @ /\ ~ Migrating(q)]
               Fresh == [Process("read") EXCEPT !.alone = \A o \in Processes : ~ Migrating(o)]
    <2>1. ASSUME NEW q \in Processes PROVE Alone(q) \in Processing
        <3>1. PICK alone \in BOOLEAN : alone = (process[q].alone /\ ~ Migrating(q))
            OBVIOUS
        <3>2. process[q] \in Processing
            BY DEF LifeInv, TypeOK
        <3>3. Alone(q) = [process[q] EXCEPT !.alone = alone]
            BY <3>1
        <3> HIDE DEF Alone
        <3>4. QED
            BY <3>2, <3>3 DEF Processing
    <2>2. Fresh \in Processing
        <3>1. PICK alone \in BOOLEAN : alone = (\A o \in Processes : ~ Migrating(o))
            OBVIOUS
        <3>2. Process("read") \in Processing
            BY ProcessRecord
        <3>3. Fresh = [Process("read") EXCEPT !.alone = alone]
            BY <3>1
        <3> HIDE DEF Fresh
        <3>4. QED
            BY <3>2, <3>3 DEF Processing
    <2>3. process' = [q \in Processes |-> IF q = p THEN Fresh ELSE Alone(q)]
        BY DEF Start
    <2> HIDE DEF Alone, Fresh
    <2>4. process' \in [Processes -> Processing]
        BY <2>1, <2>2, <2>3
    <2>5. QED
        BY <2>4 DEF Start, LifeInv, TypeOK
<1>2. /\ process[p].at = "off" /\ process'[p].at = "read"
      /\ process'[p].alone = (\A o \in Processes : ~ Migrating(o))
    BY DEF LifeInv, TypeOK, Processing, Start, Running, Process
<1>3. ASSUME NEW q \in Processes \ {p}
      PROVE  /\ process'[q].at = process[q].at /\ process'[q].target = process[q].target
             /\ process'[q].alone => process[q].alone /\ ~ Migrating(q)
    <2>1. PICK alone \in BOOLEAN : alone = (process[q].alone /\ ~ Migrating(q))
        OBVIOUS
    <2>2. process[q] \in Processing
        BY DEF LifeInv, TypeOK
    <2>3. process'[q] = [process[q] EXCEPT !.alone = process[q].alone /\ ~ Migrating(q)]
        BY DEF Start
    <2>4. process'[q] = [process[q] EXCEPT !.alone = alone]
        BY <2>1, <2>3
    <2>5. process'[q].alone = alone
        BY <2>2, <2>4 DEF Processing
    <2>6. process'[q].at = process[q].at /\ process'[q].target = process[q].target
        BY <2>2, <2>4 DEF Processing
    <2>7. QED
        BY <2>1, <2>5, <2>6
<1>4. UNCHANGED <<objects, version, server>>
    BY DEF Start
<1>5. SchemaIsWhole' /\ TargetsAreNear' /\ OneCommits' /\ WiredIsMigrated' /\ ServerHasMain'
    BY <1>2, <1>3, <1>4
    DEF LifeInv, SchemaIsWhole, TargetsAreNear, OneCommits, WiredIsMigrated, ServerHasMain
<1>6. OverlapIsKnown'
    BY <1>2, <1>3, <1>4 DEF LifeInv, OverlapIsKnown, Migrating
<1>7. AloneIsCurrent'
    BY <1>2, <1>3, <1>4 DEF LifeInv, AloneIsCurrent
<1>8. QED
    BY <1>1, <1>5, <1>6, <1>7 DEF LifeInv

LEMMA ReadInv ==
    ASSUME LifeInv, NEW p \in Processes, ReadVersion(p) PROVE LifeInv'
<1>1. TypeOK'
    <2>1. CASE version = Last /\ Goes(p, "wire")
        BY <2>1, GoesType DEF ReadVersion, LifeInv, TypeOK
    <2>2. CASE version < Last /\ Becomes(p, [process[p] EXCEPT !.at = "apply", !.target = version + 1])
        <3> DEFINE next == [process[p] EXCEPT !.at = "apply", !.target = version + 1]
        <3>1. process[p] \in Processing /\ version + 1 \in 0..Last
            BY <2>2, LifecycleAssumption DEF LifeInv, TypeOK
        <3>2. next \in Processing
            BY <3>1 DEF Processing
        <3>3. process' \in [Processes -> Processing]
            BY <2>2, <3>2, BecomesType DEF LifeInv
        <3>4. QED
            BY <3>3 DEF ReadVersion, LifeInv, TypeOK
    <2>3. QED
        BY <2>1, <2>2 DEF ReadVersion
<1>2. \A q \in Processes \ {p} : process'[q] = process[q]
    BY DEF LifeInv, TypeOK, ReadVersion, Goes, Becomes
<1>3. \/ process'[p].at = "wire" /\ version = Last
      \/ /\ process'[p].at = "apply" /\ process'[p].target = version + 1
         /\ process'[p].alone = process[p].alone
    <2>1. process[p] \in Processing /\ process[p].at = "read"
        BY DEF LifeInv, TypeOK, ReadVersion
    <2>2. CASE version = Last /\ Goes(p, "wire")
        BY <2>2 DEF LifeInv, TypeOK, Goes, Becomes, Process
    <2>3. CASE Becomes(p, [process[p] EXCEPT !.at = "apply", !.target = version + 1])
        BY <2>1, <2>3 DEF LifeInv, TypeOK, Processing, Becomes
    <2>4. QED
        BY <2>2, <2>3 DEF ReadVersion
<1>4. process[p].at = "read" /\ UNCHANGED <<objects, version, server>>
    BY DEF ReadVersion
<1>5. version \in Int
    BY LifecycleAssumption DEF LifeInv, TypeOK
<1>6. QED
    BY <1>1, <1>2, <1>3, <1>4, <1>5
    DEF LifeInv, SchemaIsWhole, TargetsAreNear, OneCommits, OverlapIsKnown,
        AloneIsCurrent, WiredIsMigrated, ServerHasMain, Migrating

\* The wait for the other transaction, and the failure after it, let only one
\* process commit the next migration.
LEMMA ApplyInv ==
    ASSUME LifeInv, NEW p \in Processes, Apply(p) PROVE LifeInv'
<1>1. TypeOK'
    <2> DEFINE next == [process[p] EXCEPT !.at = "commit"]
    <2>1. process[p] \in Processing
        BY DEF LifeInv, TypeOK
    <2>2. next \in Processing
        BY <2>1 DEF Processing
    <2>3. process' \in [Processes -> Processing]
        BY <2>2, BecomesType DEF Apply, LifeInv
    <2>4. process[p].target \in 0..Last
        BY <2>1 DEF Processing
    <2>5. QED
        BY <2>3, <2>4 DEF Apply, LifeInv, TypeOK
<1>2. \A q \in Processes \ {p} : process'[q] = process[q]
    BY DEF LifeInv, TypeOK, Apply, Becomes
<1>3. /\ process[p].at = "apply" /\ process'[p].at = "commit"
      /\ process'[p].target = process[p].target /\ process'[p].alone = process[p].alone
      /\ UNCHANGED <<objects, version, server>>
    BY DEF LifeInv, TypeOK, Processing, Apply, Becomes
<1>4. process[p].target = version + 1
    BY LifecycleAssumption DEF LifeInv, TypeOK, Processing, Apply, SchemaIsWhole, TargetsAreNear
<1>5. \A q \in Processes \ {p} : process[q].at # "commit"
    BY <1>4 DEF LifeInv, TargetsAreNear, Apply, Blocked
<1>6. QED
    BY <1>1, <1>2, <1>3, <1>4, <1>5
    DEF LifeInv, SchemaIsWhole, TargetsAreNear, OneCommits, OverlapIsKnown,
        AloneIsCurrent, WiredIsMigrated, ServerHasMain, Migrating

\* A commit moves the version on by one.  Others that are migrating are not
\* alone, and nobody has got further than this.
LEMMA CommittedInv ==
    ASSUME LifeInv, NEW p \in Processes, process[p].at = "commit", Committed(p),
           TypeOK', server'[p] = "none", process'[p].at \in {"read", "off"},
           process'[p].at = "read" => process'[p].alone = process[p].alone,
           \A q \in Processes \ {p} : process'[q] = process[q] /\ server'[q] = server[q]
    PROVE  LifeInv'
<1>1. version' = version + 1 /\ objects' = version + 1
    BY DEF LifeInv, TargetsAreNear, Committed
<1>2. version \in Int /\ version + 1 <= Last /\ Last \in Int
    BY <1>1, LifecycleAssumption DEF LifeInv, TypeOK
<1>3. \A q \in Processes \ {p} :
        /\ process[q].at # "commit" /\ server[q] = "none"
        /\ process[q].at \notin {"wire", "started", "wait", "drain", "close"}
    BY <1>2 DEF LifeInv, OneCommits, WiredIsMigrated, ServerHasMain
<1>4. \A q \in Processes \ {p} : process[q].at = "apply" => process[q].target \in Int
    BY DEF LifeInv, TypeOK, Processing
<1>5. SchemaIsWhole' /\ OneCommits' /\ WiredIsMigrated' /\ ServerHasMain'
    BY <1>1, <1>3 DEF SchemaIsWhole, OneCommits, WiredIsMigrated, ServerHasMain
<1>6. TargetsAreNear'
    BY <1>1, <1>2, <1>3, <1>4 DEF LifeInv, TargetsAreNear
<1>7. OverlapIsKnown'
    BY <1>3 DEF LifeInv, OverlapIsKnown, Migrating
<1>8. AloneIsCurrent'
    BY DEF LifeInv, AloneIsCurrent, OverlapIsKnown, Migrating
<1>9. QED
    BY <1>5, <1>6, <1>7, <1>8 DEF LifeInv

LEMMA CommitInv ==
    ASSUME LifeInv, NEW p \in Processes, Commit(p) PROVE LifeInv'
<1>1. TypeOK'
    <2> DEFINE next == [process[p] EXCEPT !.at = "read"]
    <2>1. process[p] \in Processing
        BY DEF LifeInv, TypeOK
    <2>2. next \in Processing
        BY <2>1 DEF Processing
    <2>3. process' \in [Processes -> Processing]
        BY <2>2, BecomesType DEF Commit, LifeInv
    <2>4. process[p].target \in 0..Last
        BY <2>1 DEF Processing
    <2>5. QED
        BY <2>3, <2>4 DEF Commit, Committed, LifeInv, TypeOK
<1>2. /\ process[p].at = "commit" /\ process'[p].at = "read"
      /\ process'[p].alone = process[p].alone
      /\ \A q \in Processes \ {p} : process'[q] = process[q] /\ server'[q] = server[q]
    BY DEF LifeInv, TypeOK, Processing, Commit, Becomes
<1>3. server'[p] = "none" /\ Committed(p)
    BY <1>2 DEF LifeInv, ServerHasMain, Commit
<1>4. QED
    BY <1>1, <1>2, <1>3, CommittedInv

LEMMA StartFailsInv ==
    ASSUME LifeInv, NEW p \in Processes, StartFails(p) PROVE LifeInv'
<1>1. CASE UNCHANGED <<objects, version>>
    BY <1>1, EndsInv DEF StartFails
<1>2. CASE process[p].at = "commit" /\ Committed(p)
    <2>1. Ends(p, "fault") /\ objects' \in 0..Last /\ version' \in 0..Last
        BY <1>2 DEF StartFails, Committed, LifeInv, TypeOK, Processing
    <2>2. TypeOK'
        BY <2>1, EndsType DEF LifeInv
    <2>3. /\ process'[p].at = "off" /\ server'[p] = "none"
          /\ \A q \in Processes \ {p} : process'[q] = process[q] /\ server'[q] = server[q]
        BY <2>1 DEF LifeInv, TypeOK, Ends, Ended, Becomes, Process
    <2>4. QED
        BY <1>2, <2>2, <2>3, CommittedInv
<1>3. QED
    BY <1>1, <1>2 DEF StartFails

\* From Wire on main goes from place to place on a migrated schema.
LEMMA ServingInv ==
    ASSUME LifeInv, NEW p \in Processes,
           process[p].at \in {"wire", "started", "wait", "drain"},
           process'[p].at \in {"started", "wait", "drain", "close"},
           \A q \in Processes \ {p} : process'[q] = process[q] /\ server'[q] = server[q],
           TypeOK', UNCHANGED <<objects, version>>
    PROVE  LifeInv'
BY DEF LifeInv, SchemaIsWhole, TargetsAreNear, OneCommits, OverlapIsKnown,
       AloneIsCurrent, WiredIsMigrated, ServerHasMain, Migrating

LEMMA MainInv ==
    ASSUME LifeInv, NEW p \in Processes,
           Wire(p) \/ Notify(p) \/ Signal(p) \/ Stop(p)
    PROVE  LifeInv'
<1>1. CASE Wire(p)
    <2>1. Goes(p, "started") /\ UNCHANGED <<objects, version, request>>
        BY <1>1 DEF Wire
    <2>2. server' \in [Processes -> {"none", "starting", "listening"}]
        BY <1>1 DEF Wire, LifeInv, TypeOK
    <2>3. TypeOK'
        BY <2>1, <2>2, GoesType DEF LifeInv
    <2>4. QED
        BY <1>1, <2>3, ServingInv DEF LifeInv, TypeOK, Wire, Goes, Becomes, Process
<1>2. CASE Notify(p)
    <2>1. TypeOK'
        BY <1>2, GoesType DEF Notify, LifeInv, TypeOK
    <2>2. QED
        BY <1>2, <2>1, ServingInv DEF LifeInv, TypeOK, Notify, Goes, Becomes, Process
<1>3. CASE Signal(p) /\ process[p].at = "wait"
    <2>1. Goes(p, "drain") /\ UNCHANGED <<objects, version, request>>
        BY <1>3 DEF Signal, Migrating
    <2>2. server' = [server EXCEPT ![p] = IF @ = "listening" THEN "none" ELSE @]
        BY <1>3 DEF Signal, Migrating
    <2>3. server' \in [Processes -> {"none", "starting", "listening"}]
        BY <2>2 DEF LifeInv, TypeOK
    <2>4. TypeOK'
        BY <2>1, <2>3, GoesType DEF LifeInv
    <2>5. QED
        BY <1>3, <2>1, <2>2, <2>4, ServingInv DEF LifeInv, TypeOK, Goes, Becomes, Process
<1>4. CASE Signal(p) /\ process[p].at # "wait"
    BY <1>4, EndsInv DEF Signal
<1>5. CASE Shutdown(p)
    <2>1. TypeOK'
        BY <1>5, GoesType DEF Shutdown, LifeInv, TypeOK
    <2>2. QED
        BY <1>5, <2>1, ServingInv DEF LifeInv, TypeOK, Shutdown, Goes, Becomes, Process
<1>6. CASE Expire(p)
    <2>1. TypeOK'
        <3> DEFINE next == [Process("close") EXCEPT !.expired = TRUE]
        <3>1. Process("close") \in Processing
            BY ProcessRecord
        <3>2. next \in Processing
            BY <3>1 DEF Processing
        <3>3. process' \in [Processes -> Processing]
            BY <1>6, <3>2, BecomesType DEF Expire, LifeInv
        <3>4. QED
            BY <1>6, <3>3 DEF Expire, LifeInv, TypeOK
    <2>2. QED
        BY <1>6, <2>1, ServingInv DEF LifeInv, TypeOK, Expire, Becomes, Process
<1>7. CASE Exit(p)
    BY <1>7, EndsInv DEF Exit
<1>8. QED
    BY <1>1, <1>2, <1>3, <1>4, <1>5, <1>6, <1>7 DEF Stop

LEMMA ListenInv ==
    ASSUME LifeInv, NEW p \in Processes, Listen(p) PROVE LifeInv'
<1>1. CASE Ends(p, "failed")
    BY <1>1, EndsInv DEF Listen
<1>2. CASE UNCHANGED <<process, request>>
    <2>1. UNCHANGED <<objects, version>>
        BY DEF Listen
    <2>2. TypeOK' /\ ServerHasMain'
        BY <1>2, <2>1 DEF Listen, LifeInv, TypeOK, ServerHasMain, Ends
    <2>3. QED
        BY <1>2, <2>1, <2>2
        DEF LifeInv, SchemaIsWhole, TargetsAreNear, OneCommits, OverlapIsKnown,
            AloneIsCurrent, WiredIsMigrated, Migrating
<1>3. QED
    BY <1>1, <1>2 DEF Listen

LEMMA RequestInv ==
    ASSUME LifeInv, NEW p \in Processes, NEW r \in Slots,
           \/ Arrive(p, r) \/ Ask(p, r) \/ Acquire(p, r) \/ Work(p, r)
           \/ GiveUp(p, r) \/ Answer(p, r)
    PROVE  LifeInv'
<1>1. TypeOK' /\ UNCHANGED <<objects, version, process, server>>
    BY RequestType DEF LifeInv
<1>2. QED
    BY <1>1
    DEF LifeInv, SchemaIsWhole, TargetsAreNear, OneCommits, OverlapIsKnown,
        AloneIsCurrent, WiredIsMigrated, ServerHasMain, Migrating

LEMMA NextInv == LifeInv /\ [Next]_vars => LifeInv'
<1> SUFFICES ASSUME LifeInv, [Next]_vars PROVE LifeInv'
    OBVIOUS
<1>1. CASE UNCHANGED vars
    BY <1>1
    DEF vars, LifeInv, TypeOK, SchemaIsWhole, TargetsAreNear, OneCommits, OverlapIsKnown,
        AloneIsCurrent, WiredIsMigrated, ServerHasMain, Migrating
<1>2. ASSUME NEW p \in Processes,
             \/ Start(p) \/ Migrate(p) \/ Wire(p) \/ Notify(p) \/ Listen(p)
             \/ Signal(p) \/ Stop(p) \/ Kill(p) \/ StartFails(p)
      PROVE  LifeInv'
    <2>1. CASE AlreadyExists(p)
        BY <2>1, EndsInv DEF AlreadyExists, MigrationLost
    <2>2. CASE Kill(p)
        BY <2>2, EndsInv DEF Kill
    <2>3. QED
        BY <1>2, <2>1, <2>2, StartInv, ReadInv, ApplyInv, CommitInv, MainInv, ListenInv,
           StartFailsInv DEF Migrate
<1>3. ASSUME NEW p \in Processes, NEW r \in Slots,
             \/ Arrive(p, r) \/ Ask(p, r) \/ Acquire(p, r) \/ Work(p, r)
             \/ GiveUp(p, r) \/ Answer(p, r)
      PROVE  LifeInv'
    BY <1>3, RequestInv
<1>4. QED
    BY <1>1, <1>2, <1>3 DEF Next

-----------------------------------------------------------------------------
(* Theorems *)

\* Every reachable state satisfies the invariant: whatever processes start,
\* fail, and are killed at, migrations are applied one after the other, each
\* by one of them.
THEOREM LifeInvariance == Spec => []LifeInv
BY InitInv, NextInv, PTL DEF Spec

\* Processes, requests and connections are well formed.
THEOREM LifeTypeCorrect == Spec => []TypeOK
<1>1. LifeInv => TypeOK
    BY DEF LifeInv
<1>2. QED
    BY <1>1, LifeInvariance, PTL

\* main listens only after runMigrations has found the last version, and
\* nothing takes a migration back.
THEOREM SchemaBeforeService == Spec => []ServingMeansMigrated
<1>1. LifeInv => ServingMeansMigrated
    BY DEF LifeInv, SchemaIsWhole, WiredIsMigrated, ServerHasMain, ServingMeansMigrated
<1>2. QED
    BY <1>1, LifeInvariance, PTL

-----------------------------------------------------------------------------
(* Failed starts *)

\* A step that says how one process goes on leaves all others as they are.
LEMMA OthersStay ==
    ASSUME TypeOK, NEW p \in Processes, NEW next, Becomes(p, next)
    PROVE  /\ process'[p] = next
           /\ \A q \in Processes \ {p} : process'[q] = process[q]
BY DEF TypeOK, Becomes

\* The record that a step of a migration gives its process.
LEMMA MigrationRecord ==
    ASSUME TypeOK, NEW p \in Processes, ReadVersion(p) \/ Apply(p) \/ Commit(p)
    PROVE  \E next :
              /\ Becomes(p, next)
              /\ next.at \in {"wire", "apply", "commit", "read"}
              /\ next.exit \in {"none", process[p].exit}
<1>1. process[p] \in Processing
    BY DEF TypeOK
<1>2. CASE Goes(p, "wire")
    <2>1. Process("wire").at = "wire" /\ Process("wire").exit = "none"
        BY DEF Process
    <2>2. QED
        BY <1>2, <2>1 DEF Goes
<1>3. ASSUME NEW at \in {"commit", "read"}, Becomes(p, [process[p] EXCEPT !.at = at])
      PROVE  \E next :
                /\ Becomes(p, next)
                /\ next.at \in {"wire", "apply", "commit", "read"}
                /\ next.exit \in {"none", process[p].exit}
    <2> DEFINE moved == [process[p] EXCEPT !.at = at]
    <2>1. moved.at = at /\ moved.exit = process[p].exit
        BY <1>1 DEF Processing
    <2> HIDE DEF moved
    <2>2. Becomes(p, moved)
        BY <1>3 DEF moved
    <2>3. QED
        BY <2>1, <2>2
<1>4. CASE Becomes(p, [process[p] EXCEPT !.at = "apply", !.target = version + 1])
    <2> DEFINE applied == [process[p] EXCEPT !.at = "apply", !.target = version + 1]
    <2>1. applied.at = "apply" /\ applied.exit = process[p].exit
        BY <1>1 DEF Processing
    <2> HIDE DEF applied
    <2>2. Becomes(p, applied)
        BY <1>4 DEF applied
    <2>3. QED
        BY <2>1, <2>2
<1>5. QED
    BY <1>2, <1>3, <1>4 DEF ReadVersion, Apply, Commit

\* No step but a lost migration or a taken address ends a process with
\* os.Exit(1).
LEMMA OnlyTwoStepsFail ==
    ASSUME TypeOK, NEW p \in Processes,
           \/ Start(p) \/ ReadVersion(p) \/ Apply(p) \/ Commit(p) \/ Wire(p) \/ Notify(p)
           \/ Signal(p) \/ Stop(p) \/ Kill(p) \/ StartFails(p),
           NEW q \in Processes, process[q].exit # "failed"
    PROVE  process'[q].exit # "failed"
<1>1. CASE Start(p)
    <2>1. process'[q].exit = "none" \/ process'[q].exit = process[q].exit
        BY <1>1 DEF Start, TypeOK, Processing, Process
    <2>2. QED
        BY <2>1
<1>2. CASE ReadVersion(p) \/ Apply(p) \/ Commit(p)
    <2>1. PICK next : Becomes(p, next) /\ next.exit \in {"none", process[p].exit}
        BY <1>2, MigrationRecord
    <2>2. QED
        BY <2>1, OthersStay
<1>3. CASE Wire(p) \/ Notify(p) \/ Signal(p) \/ Stop(p) \/ Kill(p) \/ StartFails(p)
    <2>1. PICK next : Becomes(p, next) /\ next.exit \in {"none", "killed", "stopped", "fault"}
        <3>1. \A at : Process(at).exit = "none"
            BY DEF Process
        <3>2. \A exit : Ended(exit).exit = exit
            BY DEF Ended, Process
        <3>3. [Process("close") EXCEPT !.expired = TRUE].exit = "none"
            BY DEF Process
        <3>4. \/ \E at : Becomes(p, Process(at))
              \/ \E exit \in {"killed", "stopped", "fault"} : Becomes(p, Ended(exit))
              \/ Becomes(p, [Process("close") EXCEPT !.expired = TRUE])
            BY <1>3
            DEF Wire, Notify, Signal, Stop, Shutdown, Expire, Exit, Kill, StartFails, Goes, Ends
        <3>5. CASE \E at : Becomes(p, Process(at))
            <4>1. PICK at : Becomes(p, Process(at))
                BY <3>5
            <4>2. Process(at).exit = "none"
                BY <3>1
            <4>3. QED
                BY <4>1, <4>2
        <3>6. CASE \E exit \in {"killed", "stopped", "fault"} : Becomes(p, Ended(exit))
            <4>1. PICK exit \in {"killed", "stopped", "fault"} : Becomes(p, Ended(exit))
                BY <3>6
            <4>2. Ended(exit).exit = exit
                BY <3>2
            <4>3. QED
                BY <4>1, <4>2
        <3>7. CASE Becomes(p, [Process("close") EXCEPT !.expired = TRUE])
            BY <3>3, <3>7
        <3>8. QED
            BY <3>4, <3>5, <3>6, <3>7
    <2>2. QED
        BY <2>1, OthersStay
<1>4. QED
    BY <1>1, <1>2, <1>3

\* A lone process that finds a table finds its version too.
LEMMA AloneNeverLoses ==
    ASSUME LifeInv, NEW p \in Processes, AlreadyExists(p)
    PROVE  ~ process[p].alone
<1>1. objects = version /\ version \in Int
    BY LifecycleAssumption DEF LifeInv, TypeOK, SchemaIsWhole
<1>2. process[p].at = "apply" /\ objects >= process[p].target
    BY DEF AlreadyExists
<1>3. QED
    BY <1>1, <1>2 DEF LifeInv, AloneIsCurrent

LostARace(p) == ~ process[p].alone \/ (server[p] = "starting" /\ Taken(p))

LEMMA FailureStep ==
    ASSUME LifeInv, [Next]_vars, NEW q \in Processes,
           process[q].exit # "failed", process'[q].exit = "failed"
    PROVE  LostARace(q)
<1>1. TypeOK
    BY DEF LifeInv
<1>2. ~ UNCHANGED process
    OBVIOUS
<1>3. ASSUME NEW p \in Processes,
             \/ Start(p) \/ ReadVersion(p) \/ Apply(p) \/ Commit(p) \/ Wire(p) \/ Notify(p)
             \/ Signal(p) \/ Stop(p) \/ Kill(p) \/ StartFails(p)
      PROVE  FALSE
    BY <1>1, <1>3, OnlyTwoStepsFail
<1>4. ASSUME NEW p \in Processes, AlreadyExists(p) PROVE LostARace(q)
    <2>1. q = p
        BY <1>1, <1>4, OthersStay DEF AlreadyExists, MigrationLost, Ends
    <2>2. QED
        BY <1>4, <2>1, AloneNeverLoses DEF LostARace
<1>5. ASSUME NEW p \in Processes, Listen(p) PROVE LostARace(q)
    <2>1. server[p] = "starting" /\ Taken(p) /\ Ends(p, "failed")
        BY <1>2, <1>5 DEF Listen
    <2>2. q = p
        BY <1>1, <2>1, OthersStay DEF Ends
    <2>3. QED
        BY <2>1, <2>2 DEF LostARace
<1>6. ASSUME NEW p \in Processes, NEW r \in Slots,
             \/ Arrive(p, r) \/ Ask(p, r) \/ Acquire(p, r) \/ Work(p, r)
             \/ GiveUp(p, r) \/ Answer(p, r)
      PROVE  FALSE
    BY <1>1, <1>2, <1>6, RequestType
<1>7. QED
    BY <1>2, <1>3, <1>4, <1>5, <1>6 DEF Next, Migrate, vars

\* A process fails to start only because another one migrated at the same
\* time or holds its address: what a killed process leaves of a migration
\* never stands in the way.
THEOREM LostStarts == Spec => FailedStartLostARace
<1>1. LifeInv /\ [Next]_vars =>
        [\A p \in Processes :
            process[p].exit # "failed" /\ process'[p].exit = "failed"
            => ~ process[p].alone \/ (server[p] = "starting" /\ Taken(p))]_vars
    BY FailureStep DEF LostARace
<1>2. QED
    BY <1>1, LifeInvariance, PTL DEF Spec, FailedStartLostARace

-----------------------------------------------------------------------------
(* Stopping *)

Stopping(p) == process[p].at \in {"drain", "close"}

\* A stopping process listens no more; if it closes its pool in time no
\* request is left.
StopInv ==
    /\ \A p \in Processes : Stopping(p) => server[p] # "listening"
    /\ \A p \in Processes : process[p].at # "off" => process[p].exit = "none"
    /\ \A p \in Processes :
          process[p].at = "close" /\ ~ process[p].expired => \A r \in Slots : At(p, r, "idle")

\* What a step of p must show of p.
StopInvOf(p) ==
    /\ Stopping(p) => server[p] # "listening"
    /\ process[p].at # "off" => process[p].exit = "none"
    /\ process[p].at = "close" /\ ~ process[p].expired => \A r \in Slots : At(p, r, "idle")

OthersStand(p) ==
    \A q \in Processes \ {p} :
        /\ process'[q] = process[q]
        /\ server'[q] = "listening" => server[q] = "listening"
        /\ request'[q] = request[q]

LEMMA OneStops ==
    ASSUME StopInv, NEW p \in Processes, OthersStand(p), StopInvOf(p)'
    PROVE  StopInv'
BY DEF StopInv, StopInvOf, OthersStand, Stopping, At

LEMMA EndsStop ==
    ASSUME TypeOK, StopInv, NEW p \in Processes, NEW exit, Ends(p, exit)
    PROVE  StopInv'
<1>1. process'[p].at = "off"
    BY DEF TypeOK, Ends, Ended, Process, Becomes
<1>2. OthersStand(p)
    BY DEF TypeOK, Ends, Becomes, OthersStand
<1>3. QED
    BY <1>1, <1>2, OneStops DEF StopInvOf, Stopping

LEMMA MigrateStop ==
    ASSUME TypeOK, StopInv, NEW p \in Processes,
           Start(p) \/ ReadVersion(p) \/ Apply(p) \/ Commit(p)
    PROVE  StopInv'
<1>1. UNCHANGED <<server, request>>
    BY DEF Start, ReadVersion, Apply, Commit
<1>2. CASE Start(p)
    <2>1. process'[p].at = "read" /\ process'[p].exit = "none"
        BY <1>2 DEF TypeOK, Start, Process
    <2>2. \A q \in Processes \ {p} :
            /\ process'[q].at = process[q].at /\ process'[q].exit = process[q].exit
            /\ process'[q].expired = process[q].expired
        BY <1>2 DEF TypeOK, Processing, Start
    <2>3. QED
        BY <1>1, <2>1, <2>2 DEF StopInv, Stopping, At
<1>3. CASE ReadVersion(p) \/ Apply(p) \/ Commit(p)
    <2>1. PICK next :
            /\ Becomes(p, next)
            /\ next.at \in {"wire", "apply", "commit", "read"}
            /\ next.exit \in {"none", process[p].exit}
        BY <1>3, MigrationRecord
    <2>2. process'[p] = next /\ OthersStand(p)
        BY <1>1, <2>1, OthersStay DEF OthersStand
    <2>3. process[p].exit = "none"
        BY <1>3 DEF StopInv, ReadVersion, Apply, Commit
    <2>4. QED
        BY <2>1, <2>2, <2>3, OneStops DEF StopInvOf, Stopping
<1>4. QED
    BY <1>2, <1>3

LEMMA MainStop ==
    ASSUME TypeOK, StopInv, NEW p \in Processes,
           Wire(p) \/ Notify(p) \/ Listen(p) \/ Signal(p) \/ Shutdown(p) \/ Expire(p)
    PROVE  StopInv'
<1>1. ASSUME NEW exit, Ends(p, exit) PROVE StopInv'
    BY <1>1, EndsStop
<1>2. CASE Wire(p)
    <2>1. process'[p].at = "started" /\ process'[p].exit = "none" /\ OthersStand(p)
        BY <1>2 DEF TypeOK, Wire, Goes, Becomes, Process, OthersStand
    <2>2. QED
        BY <2>1, OneStops DEF StopInvOf, Stopping
<1>3. CASE Notify(p)
    <2>1. process'[p].at = "wait" /\ process'[p].exit = "none" /\ OthersStand(p)
        BY <1>3 DEF TypeOK, Notify, Goes, Becomes, Process, OthersStand
    <2>2. QED
        BY <2>1, OneStops DEF StopInvOf, Stopping
<1>4. CASE Listen(p)
    <2>1. CASE UNCHANGED <<process, request>>
        <3>1. OthersStand(p)
            BY <1>4, <2>1 DEF TypeOK, Listen, OthersStand, Ends
        <3>2. Stopping(p) => server'[p] # "listening"
            BY <1>4, <2>1 DEF TypeOK, Listen, Stopping, Ends
        <3>3. QED
            BY <2>1, <3>1, <3>2, OneStops DEF StopInv, StopInvOf, Stopping, At
    <2>2. QED
        BY <1>1, <1>4, <2>1 DEF Listen
<1>5. CASE Signal(p)
    <2>1. CASE process[p].at = "wait"
        <3>1. Goes(p, "drain") /\ UNCHANGED request
            BY <1>5, <2>1 DEF Signal, Migrating
        <3>2. server' = [server EXCEPT ![p] = IF @ = "listening" THEN "none" ELSE @]
            BY <1>5, <2>1 DEF Signal, Migrating
        <3>3. process'[p].at = "drain" /\ process'[p].exit = "none"
            BY <3>1 DEF TypeOK, Goes, Becomes, Process
        <3>4. server'[p] # "listening" /\ OthersStand(p)
            BY <3>1, <3>2 DEF TypeOK, Goes, Becomes, OthersStand
        <3>5. QED
            BY <3>3, <3>4, OneStops DEF StopInvOf, Stopping
    <2>2. QED
        BY <1>1, <1>5, <2>1 DEF Signal
<1>6. CASE Shutdown(p) \/ Expire(p)
    <2>1. process[p].at = "drain" /\ UNCHANGED <<server, request>>
        BY <1>6 DEF Shutdown, Expire
    <2>2. process'[p].at = "close" /\ process'[p].exit = "none" /\ OthersStand(p)
        BY <1>6, <2>1 DEF TypeOK, Shutdown, Expire, Goes, Becomes, Process, OthersStand
    <2>3. process'[p].expired \/ \A r \in Slots : At(p, r, "idle")
        BY <1>6 DEF TypeOK, Shutdown, Expire, Drained, Becomes, Process
    <2>4. QED
        BY <2>1, <2>2, <2>3, OneStops DEF StopInv, StopInvOf, Stopping, At
<1>7. QED
    BY <1>2, <1>3, <1>4, <1>5, <1>6

LEMMA RequestStop ==
    ASSUME TypeOK, StopInv, NEW p \in Processes, NEW r \in Slots,
           \/ Arrive(p, r) \/ Ask(p, r) \/ Acquire(p, r) \/ Work(p, r)
           \/ GiveUp(p, r) \/ Answer(p, r)
    PROVE  StopInv'
<1>1. UNCHANGED <<process, server>>
    BY RequestType
<1>2. PICK at, conns : Moves(p, r, at, conns)
    BY DEF Arrive, Ask, Acquire, Work, Query, Callback, EndTx, GiveUp, Answer
<1>3. OthersStand(p)
    BY <1>1, <1>2 DEF TypeOK, Moves, OthersStand
<1>4. process[p].at = "close" => process[p].expired
    BY DEF StopInv, Stopping, At, Arrive, Ask, Acquire, Work, Query, Callback, EndTx, GiveUp,
           Answer
<1>5. QED
    BY <1>1, <1>3, <1>4, OneStops DEF StopInv, StopInvOf, Stopping

LEMMA StopStep == TypeOK /\ StopInv /\ [Next]_vars => StopInv'
<1> SUFFICES ASSUME TypeOK, StopInv, [Next]_vars PROVE StopInv'
    OBVIOUS
<1>1. CASE UNCHANGED vars
    BY <1>1 DEF vars, StopInv, Stopping, At
<1>2. ASSUME NEW p \in Processes, AlreadyExists(p) \/ Exit(p) \/ Kill(p) \/ StartFails(p)
      PROVE  StopInv'
    BY <1>2, EndsStop DEF AlreadyExists, MigrationLost, Exit, Kill, StartFails
<1>3. QED
    BY <1>1, <1>2, MigrateStop, MainStop, RequestStop DEF Next, Migrate, Stop

LEMMA StopInvariance == Spec => []StopInv
<1>1. Init => StopInv
    BY DEF Init, StopInv, Stopping, Process
<1>2. QED
    BY <1>1, StopStep, LifeTypeCorrect, PTL DEF Spec

\* The step by which a stopping process moves on, or ends by itself.
LEMMA OnlyStopStops ==
    ASSUME TypeOK, StopInv, [Next]_vars, NEW p \in Processes, Stopping(p)
    PROVE  \/ process'[p] = process[p]
           \/ Shutdown(p) \/ Expire(p) \/ Exit(p) \/ process'[p].exit = "killed"
<1> USE DEF Stopping
<1>1. CASE UNCHANGED vars
    BY <1>1 DEF vars
<1>2. ASSUME NEW q \in Processes \ {p},
             \/ Start(q) \/ Migrate(q) \/ Wire(q) \/ Notify(q) \/ Listen(q)
             \/ Signal(q) \/ Stop(q) \/ Kill(q) \/ StartFails(q)
      PROVE  process'[p] = process[p]
    <2>1. CASE Start(q)
        <3>1. process' = [o \in Processes |->
                            IF o = q
                            THEN [Process("read") EXCEPT !.alone = \A x \in Processes : ~ Migrating(x)]
                            ELSE [process[o] EXCEPT !.alone = @ /\ ~ Migrating(o)]]
            BY <2>1 DEF Start
        <3>2. process[p] \in Processing /\ ~ Migrating(p)
            BY DEF TypeOK, Migrating
        <3>3. process'[p] = [process[p] EXCEPT !.alone = @ /\ ~ Migrating(p)]
            BY <1>2, <3>1
        <3>4. QED
            BY <3>2, <3>3 DEF Processing
    <2>2. CASE Listen(q) /\ UNCHANGED process
        BY <2>2
    <2>3. CASE \E next : Becomes(q, next)
        BY <2>3, <1>2, OthersStay
    <2>4. QED
        BY <1>2, <2>1, <2>2, <2>3
        DEF Migrate, ReadVersion, Apply, AlreadyExists, MigrationLost, Commit, Wire, Notify,
            Listen, Signal, Stop, Shutdown, Expire, Exit, Kill, StartFails, Goes, Ends
<1>3. ASSUME \/ Start(p) \/ Migrate(p) \/ Wire(p) \/ Notify(p) \/ StartFails(p)
      PROVE  FALSE
    BY <1>3
    DEF Start, Running, Migrate, ReadVersion, Apply, AlreadyExists, Commit, Wire, Notify,
        StartFails, Migrating
<1>4. CASE Listen(p) \/ Signal(p)
    BY <1>4 DEF Listen, Signal, Migrating
<1>5. CASE Kill(p)
    <2>1. Becomes(p, Ended("killed"))
        BY <1>5 DEF Kill, Ends
    <2>2. Ended("killed").exit = "killed"
        BY DEF Ended, Process
    <2>3. QED
        BY <2>1, <2>2, OthersStay
<1>6. ASSUME NEW q \in Processes, NEW r \in Slots,
             \/ Arrive(q, r) \/ Ask(q, r) \/ Acquire(q, r) \/ Work(q, r)
             \/ GiveUp(q, r) \/ Answer(q, r)
      PROVE  process'[p] = process[p]
    BY <1>6, RequestType
<1>7. QED
    BY <1>1, <1>2, <1>3, <1>4, <1>5, <1>6 DEF Next, Stop

LEMMA CutStep ==
    ASSUME TypeOK, StopInv, [Next]_vars, NEW p \in Processes, NEW r \in Slots,
           Stopping(p), ~ At(p, r, "idle")
    PROVE  /\ process'[p].at = "close" => process'[p].expired
           /\ process'[p].exit = "stopped" => process[p].expired /\ request[p][r].conns = 0
<1>1. process[p].exit = "none" /\ (process[p].at = "close" => process[p].expired)
    BY DEF StopInv, Stopping
<1>2. CASE process'[p] = process[p]
    BY <1>1, <1>2
<1>3. CASE Shutdown(p)
    BY <1>3 DEF Shutdown, Drained
<1>4. CASE Expire(p)
    BY <1>4 DEF Expire, TypeOK, Becomes, Process
<1>5. CASE Exit(p)
    <2>1. process'[p].at = "off"
        BY <1>5 DEF Exit, Ends, Ended, Becomes, Process, TypeOK
    <2>2. request[p][r] \in Requesting /\ ~ request[p][r].conns > 0
        BY <1>5 DEF Exit, Returned, Acquired, TypeOK
    <2>3. request[p][r].conns = 0
        BY <2>2 DEF Requesting
    <2>4. QED
        BY <1>1, <1>5, <2>1, <2>3 DEF Exit
<1>6. CASE process'[p].exit = "killed"
    <2>1. process' # process
        BY <1>1, <1>6
    <2>2. process'[p].at # "close"
        BY <1>6, <2>1, StopStep DEF StopInv
    <2>3. QED
        BY <1>6, <2>2
<1>7. QED
    BY <1>2, <1>3, <1>4, <1>5, <1>6, OnlyStopStops

\* A process that stops on a signal gives every request 30 seconds and cuts
\* off no statement and no transaction.
THEOREM GentleStops == Spec => StopCutsOnlyTheSlow
<1>1. TypeOK /\ StopInv /\ [Next]_vars =>
        [\A p \in Processes, r \in Slots :
            process[p].at \in {"drain", "close"} /\ ~ At(p, r, "idle")
            => /\ process'[p].at = "close" => process'[p].expired
               /\ process'[p].exit = "stopped"
                  => process[p].expired /\ request[p][r].conns = 0]_vars
    BY CutStep DEF Stopping
<1>2. QED
    BY <1>1, LifeTypeCorrect, StopInvariance, PTL DEF Spec, StopCutsOnlyTheSlow

=============================================================================
