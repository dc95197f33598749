----------------------------- MODULE Lifecycle -----------------------------
(***************************************************************************)
(* The life of the server process (cmd/server/main.go): migrations, the    *)
(* listening goroutine, signals, Shutdown with its 30 seconds, and the     *)
(* deferred Close of the connection pool.  Several processes may be        *)
(* started on one database and one address, as in a deployment that        *)
(* starts the new process before the old one has ended.                    *)
(*                                                                         *)
(* goose, net/http and pgxpool are libraries, modelled from how main uses  *)
(* them.  goose reads the version, then runs the next migration and the    *)
(* insert of its version in one transaction, until there is none; it takes *)
(* no lock.  Shutdown closes the listener and waits for the requests in    *)
(* flight.  Close refuses new acquisitions and waits for the connections   *)
(* that are out.  What a request does is abstracted to what it asks of the *)
(* pool: statements, and transactions through WithTx.                      *)
(***************************************************************************)
EXTENDS Integers, FiniteSets

CONSTANTS
    Processes,  \* instances of the server
    Slots,      \* requests that a process has in flight at the same time
    MaxConns,   \* connections of a pool
    Last        \* number of migration files

ASSUME LifecycleAssumption == Last \in Nat /\ MaxConns \in Nat \ {0}

VARIABLES
    objects,  \* the migrations whose tables exist are 1..objects
    version,  \* the newest row of goose_db_version
    process,  \* the main goroutine of each process
    server,   \* its listening goroutine
    request   \* its requests

vars == <<objects, version, process, server, request>>

-----------------------------------------------------------------------------
(* Processes *)

\* target: the migration that it runs.  alone: history, no other process has
\* been migrating since it began to.  expired: the 30 seconds are over.
\* exit: how it ended.
Process(at) ==
    [at |-> at, target |-> 0, alone |-> TRUE, expired |-> FALSE, exit |-> "none"]

Ended(exit) == [Process("off") EXCEPT !.exit = exit]

NoRequest == [at |-> "idle", conns |-> 0]

Init ==
    /\ objects = 0 /\ version = 0
    /\ process = [p \in Processes |-> Process("off")]
    /\ server = [p \in Processes |-> "none"]
    /\ request = [p \in Processes |-> [r \in Slots |-> NoRequest]]

Migrating(p) == process[p].at \in {"read", "apply", "commit"}

Running(p) == process[p].at # "off"

\* main goes on.
Becomes(p, next) == process' = [process EXCEPT ![p] = next]

Goes(p, at) == Becomes(p, Process(at))

\* The end of the process ends its goroutines and drops its connections.
Ends(p, exit) ==
    /\ Becomes(p, Ended(exit))
    /\ server' = [server EXCEPT ![p] = "none"]
    /\ request' = [request EXCEPT ![p] = [r \in Slots |-> NoRequest]]

-----------------------------------------------------------------------------
(* Startup *)

\* Load and pgxpool.New, which does not connect yet, then runMigrations.
Start(p) ==
    /\ ~ Running(p)
    /\ process' = [q \in Processes |->
                     IF q = p
                     THEN [Process("read") EXCEPT !.alone = \A o \in Processes : ~ Migrating(o)]
                     ELSE [process[q] EXCEPT !.alone = @ /\ ~ Migrating(q)]]
    /\ UNCHANGED <<objects, version, server, request>>

\* Mutant: runMigrations' error is logged, and main goes on.
MigrationLost_Logged(p) == Goes(p, "wire") /\ UNCHANGED <<server, request>>

\* An error of runMigrations: os.Exit(1).
MigrationLost(p) == Ends(p, "failed")

\* goose.Up: read the version.
ReadVersion(p) ==
    /\ process[p].at = "read"
    /\ \/ version = Last /\ Goes(p, "wire")
       \/ version < Last /\ Becomes(p, [process[p] EXCEPT !.at = "apply", !.target = version + 1])
    /\ UNCHANGED <<objects, version, server, request>>

\* CREATE TABLE waits for another transaction that is creating the same one.
Blocked(p) ==
    \E q \in Processes \ {p} :
        process[q].at = "commit" /\ process[q].target = process[p].target

\* Mutant: the migration runs outside of a transaction.
Apply_Autocommits(p) ==
    /\ process[p].at = "apply" /\ ~ Blocked(p) /\ objects < process[p].target
    /\ Becomes(p, [process[p] EXCEPT !.at = "commit"])
    /\ objects' = process[p].target
    /\ UNCHANGED <<version, server, request>>

\* The statements of the migration, in a transaction.
Apply(p) ==
    /\ process[p].at = "apply" /\ ~ Blocked(p) /\ objects < process[p].target
    /\ Becomes(p, [process[p] EXCEPT !.at = "commit"])
    /\ UNCHANGED <<objects, version, server, request>>

\* They fail: the table exists.
AlreadyExists(p) ==
    /\ process[p].at = "apply" /\ ~ Blocked(p) /\ objects >= process[p].target
    /\ MigrationLost(p)
    /\ UNCHANGED <<objects, version>>

\* The tables and the version row are committed.
Committed(p) == objects' = process[p].target /\ version' = process[p].target

Commit(p) ==
    /\ process[p].at = "commit"
    /\ Becomes(p, [process[p] EXCEPT !.at = "read"])
    /\ Committed(p)
    /\ UNCHANGED <<server, request>>

\* Store, renderer, middleware and routes; then the goroutine that listens.
Wire(p) ==
    /\ process[p].at = "wire"
    /\ Goes(p, "started")
    /\ server' = [server EXCEPT ![p] = "starting"]
    /\ UNCHANGED <<objects, version, request>>

\* signal.Notify, and main waits.
Notify(p) ==
    /\ process[p].at = "started"
    /\ Goes(p, "wait")
    /\ UNCHANGED <<objects, version, server, request>>

\* ListenAndServe: binds the address, fails on one that is taken and calls
\* os.Exit(1), or returns ErrServerClosed when Shutdown has been called.
Taken(p) == \E q \in Processes \ {p} : server[q] = "listening"

Listen(p) ==
    /\ server[p] = "starting"
    /\ \/ /\ process[p].at \in {"started", "wait"} /\ ~ Taken(p)
          /\ server' = [server EXCEPT ![p] = "listening"]
          /\ UNCHANGED <<process, request>>
       \/ /\ process[p].at \in {"started", "wait"} /\ Taken(p)
          /\ Ends(p, "failed")
       \/ /\ process[p].at \in {"drain", "close"}
          /\ server' = [server EXCEPT ![p] = "none"]
          /\ UNCHANGED <<process, request>>
    /\ UNCHANGED <<objects, version>>

-----------------------------------------------------------------------------
(* Requests *)

\* A request of process p moves on; the pool and main stay as they are.
Moves(p, r, at, conns) ==
    /\ request' = [request EXCEPT ![p][r] = [at |-> at, conns |-> conns]]
    /\ UNCHANGED <<objects, version, process, server>>

At(p, r, at) == request[p][r].at = at

PoolClosed(p) == process[p].at = "close"

Acquired(p) == {r \in Slots : request[p][r].conns > 0}

\* The mux gives a new request to its handler.
Arrive(p, r) ==
    /\ server[p] = "listening" /\ At(p, r, "idle")
    /\ Moves(p, r, "work", 0)

\* A handler asks the pool for a connection.
Ask(p, r) == At(p, r, "work") /\ Moves(p, r, "wait", 0)

\* It gets one, for a statement or for WithTx, or the error of a closed pool,
\* with which it ends.
Acquire(p, r) ==
    /\ At(p, r, "wait") /\ Cardinality(Acquired(p)) < MaxConns
    /\ \/ ~ PoolClosed(p) /\ \E at \in {"query", "tx"} :
                                Moves(p, r, at, request[p][r].conns + 1)
       \/ PoolClosed(p) /\ Moves(p, r, "idle", 0)

\* A statement on the pool returns its connection when it has been read.
Query(p, r) == At(p, r, "query") /\ Moves(p, r, "work", 0)

\* Mutant: the callback of WithTx runs its queries on the pool.
Callback_OnPool(p, r) == At(p, r, "tx") /\ Moves(p, r, "wait", 1)

\* The callback of WithTx runs its queries on the transaction.
Callback(p, r) == At(p, r, "tx") /\ Moves(p, r, "commit", 1)

\* Commit, or Rollback, returns the connection.
EndTx(p, r) == At(p, r, "commit") /\ Moves(p, r, "work", 0)

\* The client goes, which cancels what the request waits for, or a statement
\* fails: the handler returns.
GiveUp(p, r) ==
    /\ request[p][r].at \in {"wait", "query", "tx", "commit"}
    /\ Moves(p, r, "idle", 0)

\* The answer has been written, however slowly the client reads.
Answer(p, r) == At(p, r, "work") /\ Moves(p, r, "idle", 0)

-----------------------------------------------------------------------------
(* The end *)

\* SIGTERM or SIGINT.  The channel holds the first one; later ones are lost.
\* Before Notify the signal ends the process.
Signal(p) ==
    \/ /\ process[p].at = "wait"
       /\ Goes(p, "drain")
       /\ server' = [server EXCEPT ![p] = IF @ = "listening" THEN "none" ELSE @]
       /\ UNCHANGED <<objects, version, request>>
    \/ /\ Migrating(p) \/ process[p].at \in {"wire", "started"}
       /\ Ends(p, "killed")
       /\ UNCHANGED <<objects, version>>

\* Mutant: Close instead of Shutdown, which does not wait.
Drained_Always(p) == TRUE

Drained(p) == \A r \in Slots : At(p, r, "idle")

\* Shutdown returns, and the deferred pool.Close begins.
Shutdown(p) ==
    /\ process[p].at = "drain" /\ Drained(p)
    /\ Goes(p, "close")
    /\ UNCHANGED <<objects, version, server, request>>

\* Mutant: Shutdown gets a context without a deadline.
Expire_Never(p) ==
    /\ process[p].at = "drain" /\ Drained(p)
    /\ Becomes(p, [Process("close") EXCEPT !.expired = TRUE])
    /\ UNCHANGED <<objects, version, server, request>>

\* It returns after 30 seconds although requests are still in flight.
Expire(p) ==
    /\ process[p].at = "drain"
    /\ Becomes(p, [Process("close") EXCEPT !.expired = TRUE])
    /\ UNCHANGED <<objects, version, server, request>>

\* Mutant: nobody closes the pool.
Returned_Always(p) == TRUE

Returned(p) == Acquired(p) = {}

\* pool.Close has all connections back; main returns.
Exit(p) ==
    /\ process[p].at = "close" /\ Returned(p)
    /\ Ends(p, "stopped")
    /\ UNCHANGED <<objects, version>>

\* SIGKILL, or the machine, at any moment.
Kill(p) ==
    /\ Running(p)
    /\ Ends(p, "killed")
    /\ UNCHANGED <<objects, version>>

\* The database or a template stops a process that is starting; a commit may
\* have taken effect.
StartFails(p) ==
    /\ Migrating(p) \/ process[p].at = "wire"
    /\ Ends(p, "fault")
    /\ \/ UNCHANGED <<objects, version>>
       \/ process[p].at = "commit" /\ Committed(p)

-----------------------------------------------------------------------------

Migrate(p) == ReadVersion(p) \/ Apply(p) \/ AlreadyExists(p) \/ Commit(p)

\* What main does by itself once it has been told to stop.
Stop(p) == Shutdown(p) \/ Expire(p) \/ Exit(p)

\* What a request does with its connection.
Work(p, r) == Query(p, r) \/ Callback(p, r) \/ EndTx(p, r)

Next ==
    \E p \in Processes :
        \/ Start(p) \/ Migrate(p) \/ Wire(p) \/ Notify(p) \/ Listen(p)
        \/ Signal(p) \/ Stop(p) \/ Kill(p) \/ StartFails(p)
        \/ \E r \in Slots :
            \/ Arrive(p, r) \/ Ask(p, r) \/ Acquire(p, r) \/ Work(p, r)
            \/ GiveUp(p, r) \/ Answer(p, r)

\* A statement returns, the pool serves its waiters in order, and time passes.
\* A request need not end: nothing limits how long a client may read.
Fairness ==
    \A p \in Processes :
        /\ WF_vars(Stop(p))
        /\ \A r \in Slots : WF_vars(Work(p, r)) /\ SF_vars(Acquire(p, r))

Spec == Init /\ [][Next]_vars /\ Fairness

-----------------------------------------------------------------------------
(* Properties *)

Processing ==
    [at : {"off", "read", "apply", "commit", "wire", "started", "wait", "drain", "close"},
     target : 0..Last, alone : BOOLEAN, expired : BOOLEAN,
     exit : {"none", "failed", "fault", "killed", "stopped"}]

\* A request holds a connection exactly while a statement or a transaction of
\* its own runs.
Requesting ==
    {[at |-> at, conns |-> 0] : at \in {"idle", "work", "wait"}}
    \cup {[at |-> at, conns |-> 1] : at \in {"query", "tx", "commit"}}

TypeOK ==
    /\ objects \in 0..Last /\ version \in 0..Last
    /\ process \in [Processes -> Processing]
    /\ server \in [Processes -> {"none", "starting", "listening"}]
    /\ request \in [Processes -> [Slots -> Requesting]]

\* A process accepts requests only on a complete schema, however many
\* processes migrate at the same time and wherever one of them is killed.
ServingMeansMigrated ==
    \A p \in Processes :
        server[p] # "none" => version = Last /\ objects = Last

\* No start fails for ever: a process that has the migrations for itself
\* completes them, whatever killed processes have left behind, and only
\* another process that is listening can take its address.
FailedStartLostARace ==
    [][\A p \in Processes :
          process[p].exit # "failed" /\ process'[p].exit = "failed"
          => ~ process[p].alone \/ (server[p] = "starting" /\ Taken(p))]_vars

\* A process that stops on a signal cuts a request off only if it has had 30
\* seconds, and never within a statement or a transaction; nor does it take
\* the pool from a request that is still within its time.
StopCutsOnlyTheSlow ==
    [][\A p \in Processes, r \in Slots :
          process[p].at \in {"drain", "close"} /\ ~ At(p, r, "idle")
          => /\ process'[p].at = "close" => process'[p].expired
             /\ process'[p].exit = "stopped"
                => process[p].expired /\ request[p][r].conns = 0]_vars

\* Every process that has been told to stop does, even if a client never
\* finishes.
Stops == \A p \in Processes : process[p].at = "drain" ~> ~ Running(p)

\* Nobody waits for ever for a connection: no handler asks for a second one.
EveryAcquireEnds ==
    \A p \in Processes, r \in Slots : At(p, r, "wait") ~> ~ At(p, r, "wait")

=============================================================================
