---------------------------- MODULE IdentitySync ----------------------------
(***************************************************************************)
(* The identity middleware (internal/auth/auth.go) and the two tables it   *)
(* keeps, users and user_idp_groups.  Every authenticated HTTP request     *)
(* re-synchronises its user: upsert the users row, delete the user's       *)
(* stored IdP groups, then insert the groups of the request's header one   *)
(* statement at a time.  The statements run on the pool, each in its own   *)
(* implicit transaction, so the requests of one user (tabs, HTMX           *)
(* fragments) interleave between any two of them.                          *)
(*                                                                         *)
(* The DELETE is one statement over several rows at READ COMMITTED: it     *)
(* removes the rows of its snapshot, and not those that other requests     *)
(* insert while it runs.  Until it has ended, an insert of one of its rows *)
(* collides with the row, or waits for its end if the DELETE has come to   *)
(* the row already, which is to run after it.                              *)
(*                                                                         *)
(* A member of Requests is a slot: an in-flight request, free again once   *)
(* it has been answered.                                                   *)
(***************************************************************************)
EXTENDS Naturals, Sequences, Functions

CONSTANTS
    Users,       \* OIDC subjects (X-Auth-Request-User)
    NoUser,      \* no subject: an idle slot's user
    Requests,    \* slots for requests in flight at the same time
    Groups,      \* names of IdP groups
    AdminGroup,  \* config.AdminGroup, the association admins' group
    Blank,       \* a part of the header that trims to the empty string
    Headers      \* values of X-Auth-Request-Groups, split at the commas

ASSUME HeadersAssumption ==
    /\ Headers \subseteq Seq(Groups \cup {Blank})
    /\ Blank \notin Groups
    /\ NoUser \notin Users

VARIABLES
    users,            \* table users: the subjects that have a row
    is_assoc_admin,   \* column users.is_assoc_admin
    user_idp_groups,  \* table user_idp_groups: the stored groups per user
    seen,             \* the stored rows that a running DELETE's snapshot holds
    req,              \* the middleware's progress in each slot
    burst             \* history: what overlapped since the user was last quiet

tables == <<users, is_assoc_admin, user_idp_groups, seen>>
vars == <<users, is_assoc_admin, user_idp_groups, seen, req, burst>>

-----------------------------------------------------------------------------
(* The request *)

\* Mutant: blank parts of the header are kept.
parseGroups_KeepsBlanks(header) == header

\* The loop over the comma-separated parts: blank ones are dropped, the
\* others kept in order, repeated names included.
parseGroups(header) ==
    LET groups[i \in 0 .. Len(header)] ==
            IF i = 0 THEN <<>>
            ELSE IF header[i] = Blank THEN groups[i - 1]
            ELSE Append(groups[i - 1], header[i])
    IN  groups[Len(header)]

\* What parseGroups makes of the headers.
GroupLists == {parseGroups(h) : h \in Headers}

SyncStates == {"upsert", "delete", "deleting", "insert"}

\* A slot whose last request, if any, was answered with status.
Answered(status) ==
    [state |-> "idle", user |-> NoUser, groups |-> <<>>,
     inserted |-> 0, status |-> status]

\* The requests of u that are between the middleware's first statement and
\* its last.
Syncing(u) == {r \in Requests : req[r].user = u /\ req[r].state \in SyncStates}

Quiet(u) == Syncing(u) = {}

-----------------------------------------------------------------------------
(* The history: a burst is a maximal run of overlapping syncs of one user  *)

NoBurst ==
    [size |-> "none", groups |-> <<>>, same |-> TRUE, sent |-> {},
     fault |-> FALSE, replaced |-> FALSE, served |-> FALSE, rejected |-> FALSE]

\* The history of u after a request with this group list joins.
Joined(u, groups) ==
    IF Quiet(u)
    THEN [NoBurst EXCEPT !.size = "one", !.groups = groups, !.sent = Range(groups)]
    ELSE [burst[u] EXCEPT !.size = IF @ = "one" THEN "two" ELSE "many",
                          !.same = @ /\ groups = burst[u].groups,
                          !.sent = @ \cup Range(groups)]

\* More than one sync has taken part.
Overlapped(u) == burst[u].size \in {"two", "many"}

-----------------------------------------------------------------------------
(* The statements, as the tables see them *)

UpsertUser(u, isAdmin) ==
    /\ users' = users \cup {u}
    /\ is_assoc_admin' = [is_assoc_admin EXCEPT ![u] = isAdmin]
    /\ UNCHANGED <<user_idp_groups, seen>>

\* Mutant: the old groups are not deleted.
DeleteUserIDPGroups_Dropped(r) ==
    /\ seen' = [seen EXCEPT ![r] = {}]
    /\ UNCHANGED <<users, is_assoc_admin, user_idp_groups>>

\* The DELETE of r ends: the rows of its snapshot go, for another DELETE that
\* has seen them as well.
DeleteUserIDPGroups(r) ==
    /\ user_idp_groups' = [user_idp_groups EXCEPT ![req[r].user] = @ \ seen[r]]
    /\ seen' = [q \in Requests |->
                    IF q = r THEN {}
                    ELSE IF req[q].user = req[r].user THEN seen[q] \ seen[r]
                    ELSE seen[q]]
    /\ UNCHANGED <<users, is_assoc_admin>>

\* Primary key (user_id, group_name): the row must not be there yet.
InsertUserIDPGroup(u, g) ==
    /\ g \notin user_idp_groups[u]
    /\ user_idp_groups' = [user_idp_groups EXCEPT ![u] = @ \cup {g}]
    /\ UNCHANGED <<users, is_assoc_admin, seen>>

-----------------------------------------------------------------------------
(* The middleware *)

Init ==
    /\ users = {}
    /\ is_assoc_admin = [u \in Users |-> FALSE]
    /\ user_idp_groups = [u \in Users |-> {}]
    /\ seen = [r \in Requests |-> {}]
    /\ req = [r \in Requests |-> Answered(0)]
    /\ burst = [u \in Users |-> NoBurst]

\* No X-Auth-Request-User header: 401 before any statement.
Unauthorized(r) ==
    /\ req[r].state = "idle"
    /\ req' = [req EXCEPT ![r] = Answered(401)]
    /\ UNCHANGED <<tables, burst>>

\* A request of u arrives with the group header the proxy's session holds.
Arrive(r, u, header) ==
    LET groups == parseGroups(header)
    IN  /\ req[r].state = "idle"
        /\ req' = [req EXCEPT ![r] = [state |-> "upsert", user |-> u, groups |-> groups,
                                      inserted |-> 0, status |-> 0]]
        /\ burst' = [burst EXCEPT ![u] = Joined(u, groups)]
        /\ UNCHANGED tables

SyncUser(r) ==
    /\ req[r].state = "upsert"
    /\ UpsertUser(req[r].user, AdminGroup \in Range(req[r].groups))
    /\ req' = [req EXCEPT ![r].state = "delete"]
    /\ UNCHANGED burst

\* The DELETE starts: its snapshot holds the rows that are stored now.
SnapshotGroups(r) ==
    /\ req[r].state = "delete"
    /\ seen' = [seen EXCEPT ![r] = user_idp_groups[req[r].user]]
    /\ req' = [req EXCEPT ![r].state = "deleting"]
    /\ UNCHANGED <<users, is_assoc_admin, user_idp_groups, burst>>

\* Mutant: the insert loop skips the first group.
ClearGroups_SkipsFirst(r) ==
    /\ req[r].state = "deleting"
    /\ DeleteUserIDPGroups(r)
    /\ req' = [req EXCEPT ![r].state = "insert",
                          ![r].inserted = IF req[r].groups = <<>> THEN 0 ELSE 1]
    /\ burst' = [burst EXCEPT ![req[r].user].replaced = TRUE]

ClearGroups(r) ==
    /\ req[r].state = "deleting"
    /\ DeleteUserIDPGroups(r)
    /\ req' = [req EXCEPT ![r].state = "insert"]
    /\ burst' = [burst EXCEPT ![req[r].user].replaced = TRUE]

\* The group the loop inserts next; there is one while Inserting(r).
Inserting(r) == req[r].state = "insert" /\ req[r].inserted < Len(req[r].groups)
NextGroup(r) == req[r].groups[req[r].inserted + 1]

AddGroup(r) ==
    /\ Inserting(r)
    /\ InsertUserIDPGroup(req[r].user, NextGroup(r))
    /\ req' = [req EXCEPT ![r].inserted = @ + 1]
    /\ UNCHANGED burst

\* Mutant: a conflicting insert is retried until it succeeds.
RejectGroup_Retries(r) ==
    /\ Inserting(r)
    /\ NextGroup(r) \in user_idp_groups[req[r].user]
    /\ burst' = [burst EXCEPT ![req[r].user].rejected = TRUE]
    /\ UNCHANGED <<tables, req>>

\* The row is already there: unique violation, 500, and the groups inserted
\* so far stay.
RejectGroup(r) ==
    /\ Inserting(r)
    /\ NextGroup(r) \in user_idp_groups[req[r].user]
    /\ req' = [req EXCEPT ![r] = Answered(500)]
    /\ burst' = [burst EXCEPT ![req[r].user].rejected = TRUE]
    /\ UNCHANGED tables

\* Every group is stored: the wrapped handler runs with the RequestUser.
CallNext(r) ==
    /\ req[r].state = "insert"
    /\ req[r].inserted = Len(req[r].groups)
    /\ req' = [req EXCEPT ![r].state = "next"]
    /\ burst' = [burst EXCEPT ![req[r].user].served = TRUE]
    /\ UNCHANGED tables

Reply(r) ==
    /\ req[r].state = "next"
    /\ req' = [req EXCEPT ![r] = Answered(200)]
    /\ UNCHANGED <<tables, burst>>

\* A statement returns an error other than the conflict (connection lost,
\* request context cancelled).  The database may or may not have run it.
StatementFails(r) ==
    /\ \/ /\ req[r].state \in {"upsert", "delete", "deleting"} \/ Inserting(r)
          /\ seen' = [seen EXCEPT ![r] = {}]
          /\ UNCHANGED <<users, is_assoc_admin, user_idp_groups>>
       \/ /\ req[r].state = "upsert"
          /\ UpsertUser(req[r].user, AdminGroup \in Range(req[r].groups))
       \/ /\ req[r].state = "deleting"
          /\ DeleteUserIDPGroups(r)
       \/ /\ Inserting(r)
          /\ InsertUserIDPGroup(req[r].user, NextGroup(r))
    /\ req' = [req EXCEPT ![r] = Answered(500)]
    /\ burst' = [burst EXCEPT ![req[r].user].fault = TRUE]

\* The process dies: every request in flight is cut off where it is.
Crash ==
    /\ req' = [r \in Requests |-> Answered(0)]
    /\ burst' = [u \in Users |-> IF Quiet(u) THEN burst[u]
                            ELSE [burst[u] EXCEPT !.fault = TRUE]]
    /\ seen' = [r \in Requests |-> {}]
    /\ UNCHANGED <<users, is_assoc_admin, user_idp_groups>>

Proceed(r) ==
    \/ SyncUser(r)
    \/ SnapshotGroups(r)
    \/ ClearGroups(r)
    \/ AddGroup(r)
    \/ RejectGroup(r)
    \/ CallNext(r)
    \/ Reply(r)

Next ==
    \/ \E r \in Requests :
        \/ Unauthorized(r)
        \/ \E u \in Users, h \in Headers : Arrive(r, u, h)
        \/ Proceed(r)
        \/ StatementFails(r)
    \/ Crash

\* A goroutine serving a request is always scheduled again, and each
\* statement returns.
Fairness == \A r \in Requests : WF_vars(Proceed(r))

Spec == Init /\ [][Next]_vars /\ Fairness

-----------------------------------------------------------------------------
(* Properties *)

RequestTypes ==
    {Answered(status) : status \in {0, 200, 401, 500}}
    \cup [state : SyncStates \cup {"next"}, user : Users, groups : GroupLists,
          inserted : Nat, status : {0}]

BurstTypes ==
    [size : {"none", "one", "two", "many"}, groups : GroupLists \cup {<<>>}, same : BOOLEAN,
     sent : SUBSET Groups, fault : BOOLEAN, replaced : BOOLEAN, served : BOOLEAN,
     rejected : BOOLEAN]

\* The tables and the requests are well formed: in particular no blank part
\* of a header ever reaches a group list or the table.
TypeOK ==
    /\ users \subseteq Users
    /\ is_assoc_admin \in [Users -> BOOLEAN]
    /\ user_idp_groups \in [Users -> SUBSET Groups]
    /\ seen \in [Requests -> SUBSET Groups]
    /\ req \in [Requests -> RequestTypes]
    /\ burst \in [Users -> BurstTypes]

\* Overlapping syncs of one user that all carry the same list, without a
\* repeated name, end with the admin flag derived from it, nothing stored
\* that it does not name, and at least one of the requests let through,
\* whatever their interleaving and however many of them lost an insert to
\* another.  Two of them end with exactly the list stored: the unlocked
\* delete-then-insert of auth.Middleware converges.  Three need not: a
\* DELETE may remove the last rows of a request that has been let through,
\* after another has inserted the first ones again and collided with them.
OverlapConverges ==
    \A u \in Users :
        LET b == burst[u]
        IN  /\ Quiet(u)
            /\ b.size # "none"
            /\ b.same
            /\ ~ b.fault
            /\ IsInjective(b.groups)
            => /\ user_idp_groups[u] \subseteq Range(b.groups)
               /\ b.size # "many" => user_idp_groups[u] = Range(b.groups)
               /\ is_assoc_admin[u] = (AdminGroup \in Range(b.groups))
               /\ b.served

\* Once any request of a burst has been let through, no group from before
\* the burst is stored any more: a group revoked at the IdP does not survive
\* a sync, even one that overlaps others, fails halfway or is cut by a crash.
RevokedGroupsGo ==
    \A u \in Users : burst[u].served => user_idp_groups[u] \subseteq burst[u].sent

\* The middleware answers 500 because of a duplicate key only when another
\* sync of the same user overlapped, or the header names a group twice.
ConflictHasACause ==
    \A u \in Users :
        burst[u].rejected => Overlapped(u) \/ ~ IsInjective(burst[u].groups)

\* Every request that starts a sync is answered: no request of a user waits
\* for another one.
EveryRequestAnswered ==
    \A r \in Requests : req[r].state # "idle" ~> req[r].state = "idle"

\* What the schema document says of user_idp_groups: "Fully replaced on each
\* login sync. Represents the user's current IdP group memberships."  When
\* nothing failed, the stored groups are those of one request.
FullyReplaced ==
    \A u \in Users :
        Quiet(u) /\ burst[u].size # "none" /\ ~ burst[u].fault /\ ~ burst[u].rejected
        => \E groups \in GroupLists : user_idp_groups[u] = Range(groups)

-----------------------------------------------------------------------------
(* The inductive invariant, per user *)

\* The syncs of u that have not yet deleted the rows they replace.
Uncleared(u) == {r \in Syncing(u) : req[r].state # "insert"}

\* Some sync of u is about to insert the group after the k-th.
AtGroup(u, k) ==
    \E r \in Syncing(u) : req[r].state = "insert" /\ req[r].inserted = k

\* The first m groups of the list with which u's burst began.
FirstGroups(u, m) == {burst[u].groups[j] : j \in 1 .. m}

\* What sync r of u and its burst know of each other.
SyncMatchesBurst(u, r) ==
    LET b == burst[u]
    IN  /\ b.size # "none"
        /\ Range(req[r].groups) \subseteq b.sent
        /\ b.same => req[r].groups = b.groups
        /\ req[r].inserted <= Len(req[r].groups)
        /\ req[r].state # "insert" => req[r].inserted = 0
        /\ req[r].state = "insert" => b.replaced
        /\ b.size = "one" => Syncing(u) = {r} /\ (b.replaced => req[r].state = "insert")

\* What sync r of u has already written, and what its DELETE will leave.
SyncMatchesTables(u, r) ==
    LET b == burst[u]
    IN  /\ b.size = "one" /\ req[r].state = "insert"
           => user_idp_groups[u] = FirstGroups(u, req[r].inserted)
        /\ b.same /\ req[r].state \in {"delete", "deleting", "insert"}
           => is_assoc_admin[u] = (AdminGroup \in Range(b.groups))
        /\ req[r].state = "deleting" => user_idp_groups[u] \ seen[r] \subseteq b.sent
        /\ req[r].state = "deleting" /\ ~ b.replaced => seen[r] = user_idp_groups[u]

\* A burst in which every sync carries the same list, without a repeated
\* name, none has failed and one has deleted the rows from before.
Uniform(u) ==
    LET b == burst[u]
    IN  b.replaced /\ b.same /\ ~ b.fault /\ IsInjective(b.groups)

\* What the burst says of the tables.
BurstMatchesTables(u) ==
    LET b == burst[u]
    IN  /\ b.size = "one" => b.same
        /\ b.same => b.sent = Range(b.groups)
        /\ b.served => b.replaced
        /\ b.replaced => user_idp_groups[u] \subseteq b.sent
        /\ b.replaced /\ b.same => is_assoc_admin[u] = (AdminGroup \in Range(b.groups))
        /\ b.size # "none" /\ ~ b.replaced /\ ~ b.fault => Uncleared(u) # {}
        /\ b.rejected => Overlapped(u) \/ ~ IsInjective(b.groups)

\* Whoever collides meets the row of a sync that has come further than it or
\* of one let through, so a uniform burst cannot end without one let through.
SomeoneIsAhead(u) ==
    LET b == burst[u]
    IN  Uniform(u) =>
        /\ Syncing(u) # {} \/ b.served
        /\ \A k \in 1 .. Len(b.groups) :
            b.groups[k] \in user_idp_groups[u]
            => b.served \/ \E r \in Syncing(u) : req[r].state = "insert" /\ req[r].inserted >= k

\* Of two syncs, at most one is left to delete what the other inserts.
PairIsSmall(u) ==
    burst[u].size = "two" =>
        /\ \A p, q, r \in Syncing(u) : p = q \/ p = r \/ q = r
        /\ burst[u].replaced => \A q, r \in Uncleared(u) : q = r

\* Until then, the other one stands at the end of the stored groups, or was
\* let through, and the DELETE has seen the first of them.
PairIsInOrder(u) ==
    LET b == burst[u]
    IN  Uniform(u) /\ b.size = "two" =>
        \A r \in Uncleared(u) : \E m \in 0 .. Len(b.groups) :
            /\ user_idp_groups[u] = FirstGroups(u, m)
            /\ AtGroup(u, m) \/ (m = Len(b.groups) /\ b.served)
            /\ req[r].state = "deleting" => \E j \in 0 .. m : seen[r] = FirstGroups(u, j)

\* Where the stored groups of a uniform burst of at most two stop, some sync
\* stands: if the group before k is stored and the k-th is not, one is about
\* to insert the k-th; if the last one is stored, one is about to be let
\* through or was.
FrontierIsGuarded(u) ==
    LET b == burst[u]
    IN  Uniform(u) /\ b.size # "many"
        => \A k \in 1 .. Len(b.groups) + 1 :
            /\ k > 1 => b.groups[k - 1] \in user_idp_groups[u]
            /\ k <= Len(b.groups) => b.groups[k] \notin user_idp_groups[u]
            => AtGroup(u, k - 1) \/ (k = Len(b.groups) + 1 /\ b.served)

UserInv(u) ==
    /\ \A r \in Syncing(u) : SyncMatchesBurst(u, r) /\ SyncMatchesTables(u, r)
    /\ BurstMatchesTables(u)
    /\ SomeoneIsAhead(u)
    /\ PairIsSmall(u)
    /\ PairIsInOrder(u)
    /\ FrontierIsGuarded(u)

SyncInv == TypeOK /\ \A u \in Users : UserInv(u)

=============================================================================
