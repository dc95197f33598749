# A verification of convoke in TLA+

convoke is a Go web server (PostgreSQL through pgx and sqlc, HTML through
`html/template` and HTMX) with which an association plans the events of its
units. This directory holds TLA+ modules translated from its code, the TLC
configurations that check them on small instances, and theorems about them that
the TLAPS proof system checks for every value of the constants.

## The system

Every request passes oauth2-proxy, which puts the user's OIDC subject and IdP
groups into headers; then, in this order, logging, panic recovery, the identity
middleware, for the admin pages CSRF protection and `RequireAdmin`, and the
handler (`src/cmd/server/main.go:64-125`). All state is in PostgreSQL, in the
browser (a CSRF cookie and a token in each page), and, in dev mode, in the
renderer's map of templates. Requests run concurrently, each in a goroutine, and
share the connection pool; they meet only in the tables.

| component | state | operations | interacts with |
|---|---|---|---|
| identity synchronisation (`internal/auth/auth.go`) | `users`, `user_idp_groups` | upsert the user, delete and re-insert the groups, on every request | every handler runs behind it |
| unit administration (`internal/handler/admin_units.go`, `internal/store/unit.go`, `store.go`) | `units`, `unit_group_bindings` | create, update, delete, list, edit form; transactions through `WithTx` | its tables decide membership, calendars and viewers cascade with units |
| authorisation (`require_admin.go`, `IsUnitMember`, `IsUnitAdmin`, `ListUnitsByUserGroups`, `ListVisibleCalendars`) | none | reads of the request's groups, or of the stored groups, against the bindings | identity, units, calendars |
| CSRF protection (`internal/middleware/csrf.go`, `templates/layouts/base.html`) | cookie `_csrf`, token in each page, secret | issue, validate | admin pages |
| calendars (`internal/store/calendar.go`) | `calendars`, `calendar_custom_viewers` | create, update, delete, visibility | units (owner, viewers) |
| entries (`internal/store/entry.go`) | `entries`, `entry_shift_details` | create, update, delete, read, lock | calendars |
| attendance (`internal/store/attendance.go`, `internal/db/attendances.sql.go`) | `attendances`, `substitution_requests` | batch of pending rows, responses, substitutions | entries, users |
| renderer (`internal/render/render.go`) | one map of parsed templates, shared by all requests | parse, page, component | every page |
| pipeline and pages (`internal/handler/handler.go`, `home.go`, `internal/middleware`) | none | error mapping, panic recovery, the logged status, redirect to the only unit | units, renderer |
| lifecycle (`cmd/server/main.go`, `internal/config`, `handler/health.go`) | schema version, listener, pool, requests in flight | migrate, listen, serve, shut down | all |
| events, templates and recurrence, notifications, webhooks, feed tokens, external sources | tables only | generated queries that nothing calls | - |

Calendars, entries and attendance exist as store functions and queries with
tests but without handlers yet. A model of them takes any goroutine as the caller
of any exported function; handlers that only the documents describe are not
modelled.

## What is hard here

- **Interleaving.** A browser with two tabs, or one page with several HTMX
  fragments, sends overlapping requests of one user. The identity middleware
  writes on every one of them, several statements on the pool, without a
  transaction or a lock.
- **Reads before transactions.** The unit handlers check a slug or read a unit
  first and open the transaction afterwards.
- **Locks.** Unique keys and rows make a statement wait for another open
  transaction; batches and cascades take several of them in an order that the
  arguments decide.
- **Failure.** A statement may fail with or without effect, a commit's answer may
  be lost, the process may die between any two statements.
- **Shared browser state.** The tabs of a browser share the CSRF cookie but each
  keeps the token of the page it shows.
- **Shared memory.** In dev mode every request parses the templates into one map,
  without a lock.
- **Two sources of one fact.** Membership is decided by the request's own groups in
  some queries and by the groups that some sync has stored in others.
- **Start and stop.** Several processes may migrate one database at once, be killed
  anywhere, and have to let go of requests that do not end.

`PROJECT.json` lists these hazards at the lines where they bite, with the
properties that would catch each of them going wrong.

## Modules

| module | what it models |
|---|---|
| `IdentitySync` | the identity middleware, statement by statement |
| `UnitRegistry` | abstract: what the administration of units promises, one step per operation |
| `UnitAdmin` | the handlers and transactions behind it; refines `UnitRegistry` |
| `Csrf` | the CSRF middleware and a browser with several tabs |
| `Attendance` | the batch of invitations and the attendance queries |
| `CalendarRegistry` | abstract: what calendars promise, one step per operation |
| `CalendarAdmin` | the transactions and cascades behind it; refines `CalendarRegistry` |
| `EntryStore` | the store functions of entries and shift details |
| `Access` | `IdentitySync` with `UnitRegistry` and `CalendarRegistry`: who is shown which calendars |
| `AccessProofs` | theorems about `IdentitySync` and, over them, about `Access` |
| `Renderer` | the renderer's shared map: parsing, stores and lookups that overlap |
| `Pages` | the members' pages with their middleware, over `Renderer` and `UnitRegistry` |
| `Lifecycle` | processes from the first migration to the end of `main` |
| `PagesProofs` | theorems about `Renderer` and `Pages` |
| `LifecycleProofs`, `CsrfProofs`, `UnitAdminProofs`, `AttendanceProofs`, `EntryStoreProofs`, `CalendarAdminProofs` | theorems about the module of that name |
| `MC...` | small values for the constants of the module they extend |

`PROJECT.json` maps every definition to the lines it stands for.

### IdentitySync

A slot of `Requests` is one request in flight; its record says which statement
comes next or runs (`upsert`, `delete`, `deleting`, `insert` with the number of
groups already inserted) or that the wrapped handler runs (`next`). `SyncUser` and
`AddGroup` are single-row statements and one step each. The DELETE has several rows
and runs at READ COMMITTED, so it is two steps: `SnapshotGroups` takes the snapshot
(`seen`), `ClearGroups` is its end, which removes the rows of the snapshot that another
DELETE has not removed, and nothing that was inserted meanwhile. In between, an insert
of one of these rows collides with it. An insert that meets a row which the DELETE has
come to already waits for the end of it; the model runs such an insert after the end,
which is the same. `RejectGroup` is the unique violation that ends the loop with 500;
`StatementFails` is any other error, with the statement's effect or without it, and
stands for two DELETEs that wait for each other's rows as well; `Crash` ends every
request at once. The variable `burst` is history: a burst is a maximal run of
overlapping syncs of a user, and it records how many took part, whether all of them
carried the same list, whether a fault happened, whether one was let through.

What the model shows of this code, besides the properties:

- The delete-then-insert without a lock converges for two overlapping requests that
  carry the same list in the same order and no name twice. This is not obvious: each
  may be cut off by a duplicate key of the other, and a DELETE overlooks what is
  inserted while it runs. The order of the list is essential: with permuted headers
  both may lose an insert to the other and answer 500.
- Three need not converge, even without a fault. The list is g1, g2. R3 inserts g1, R2's
  DELETE removes it, R3 inserts g2 and is let through. Now R1 comes, and the snapshot
  of its DELETE is {g2}. R2 inserts g1, collides on g2 and answers 500; R1's DELETE
  removes g2, and R1 collides on g1 and answers 500. Stored is {g1}, until the next
  request. `OverlapConverges` therefore claims for larger bursts
  what remains: nothing outside the list is stored, the admin flag is right, and one
  request is let through, since whoever collides meets the row of one that has come
  further.
- A header that names a group twice makes every request of the user fail:
  `parseGroups` keeps repeats, the table's key does not. (The form's
  `parseGroupBindings` drops them.)
- After a failure or a crash the user has a part of the groups until the next
  request. Overlapping requests with different headers leave the union of them
  (`identity_overlap` below), and one with an old header that finishes last brings
  the old list back until the next request.

Abstracted: display name and e-mail, user names, and the request context beyond
the group list. A statement that goes on in the database after its request was cut
off is settled at that moment, with its effect or without it.

### UnitAdmin and UnitRegistry

`units` and `unit_group_bindings` hold the committed rows. A slot of `Slots` is a
writing request: `PostCreate`, `PostUpdate` and `PostDelete` start it, `CheckSlug`
and `ReadExisting` are the reads before the transaction, and the transaction's own
writes stay in the slot's record until `Commit` applies them. `Locked` and
`SlugLocked` say what a statement waits for: the row of an open update, the unique
key of an open create. `Fault` rolls back; `CommitUnheard` and `DeleteUnheard`
take effect although the client sees an error. `Readers` are the two pages, which
read the units first and each unit's bindings later.

`UnitRegistry` is what an administrator expects: a unit's details and bindings
come from one form, live units have distinct slugs, a slug never changes, an id is
not reused. `ImplementsRegistry` maps the committed tables to it: each step of
`UnitAdmin` is one operation of the registry or changes nothing.

A create that waits for another one's slug takes its sequence value when it stops
waiting, not when it starts; ids are interchangeable, so no property tells the
difference. A page may show the details of one generation of a unit with the
bindings of the next: `PagesShowWholeForms` says only that each part is whole.

### Csrf

The server keeps nothing but its secret, so the state is the browser's: the
cookie, the token in each tab's page, and one request or answer in flight per tab.
`CSRF` is the middleware's decision on one request (`ContextToken`: the cookie's
token if its signature is valid, else a new one; `Answer`: 403 unless a mutating
request names that token in its header; the cookie is set whenever the token is
new, on refusals too). A token is a nonce and the secret that signed it, so a
signature is valid exactly when the secrets agree; HMAC is not modelled further.
`Load`, `LoadCrossSite`, `Submit`, `Receive` and `Lose` are the browser, `Restart` a
deployment. The cookie is SameSite=Strict (`csrf.go:41`): a tab that comes in from
another site (a link in a mail or a wiki, the way back from the login) arrives without
it and is answered as if it had none, but the browser stores the new cookie that the
answer sets. `Submit` sends the token of the page's meta tag in the header, as the
script in `base.html:45-50` does.

`calm` is history: the tab's page was asked for when the browser was `Settled`
(its cookie is valid and nothing in flight carries or will set another one), and since
then the secret has not changed and no tab has come in from another site. The two
properties together say when a user sees an unexplained 403: only from a page loaded
while some tab was getting a new cookie, from before a change of the secret, or from
before any tab of the browser came in from another site, which replaces a valid cookie
for all of them. A form that is submitted without JavaScript carries no header and is
always refused; it never enters the model, as `base.html` is the only sender.

### Attendance

A slot of `Batches` is a call of `BulkCreatePendingAttendance`. The pipeline is one
implicit transaction (`br.Close` reads its end), so the rows a call inserts are its
own, in `mine`, until `Commit`. `InsertPending` waits while another batch holds the
row (`WaitsFor`), skips it if it is committed or its own, and inserts it otherwise.
`CommitFails` is an error that only `br.Close` sees, which the deferred call drops.
The queries are one step each; `DeleteEntry` cascades to attendances and their
substitution requests and waits for the batches of the entry. A query that finds no
row, or violates a key, changes nothing and is no step.
`responded_at` is abstracted to whether it holds nothing, the time at which the
status last stopped being pending, or another time.

Nothing in the repository calls these functions yet except tests. The callers are
therefore any goroutine at any time, which is what the exported functions allow.
A caller that runs a batch inside a transaction of its own is not modelled.

### CalendarAdmin and CalendarRegistry

A slot of `Slots` is a call of a store function, or a deletion of a unit. Its record
says which statement comes next; a transaction's writes stay in it until `Commit`
applies them. `holds` are the rows it has written or deleted, `shares` the units its
inserts refer to, which a foreign key keeps from being deleted. A statement that
needs many rows (`DeleteCalendarCustomViewers`, the cascades) takes them one by one
in any order (`DeleteNext`), as neither the SQL nor the schema orders them; a cascade
takes the calendars first, then their viewers, then the unit's places among the
viewers of others. `Fault` stands for every error that rolls back, a taken slug and
a value that a CHECK refuses included.

What it shows: creating, updating and deleting calendars never deadlocks, because
`UpdateCalendar` is the first statement and locks the calendar. With `DeleteUnit`
there are two circles: an update that inserts or clears a viewer unit which is being
deleted together with its calendars, and two deletions of units that are viewers of
each other's calendars. PostgreSQL's detector ends both with an error; nothing in
the code retries.

`CalendarRegistry` has one step per call. `ImplementsRegistry` is what a caller may
rely on: a calendar's viewers are those that the call which set its visibility
named, less the units deleted since.

### EntryStore

The store functions run on the connection that they are given. `on` says which: the
pool, where every statement commits on its own, or a caller's transaction, which
ends when the function has returned. `Ends` is that difference. An UPDATE is two
steps, the lock of the row and the entry into the unique index on calendar, name
and start, because another call can come between them; `WaitsFor` says whom a
statement waits for, rows that are being given up included. A key is one value of
the three indexed columns. `Fetch` and `FetchDetails` are `GetEntryByID`, which
`CreateEntry` and `UpdateEntry` end with; `GetEntryBySlug` is the same, since a slug
never changes.

What it shows: the comment of `CreateEntry` is right that a shift needs a
transaction, and exactly that: a shift without its details is never seen by anyone
otherwise, although readers use two statements, unless it is deleted meanwhile.
Two updates that exchange the starts of two entries deadlock.

`made` and `overtaken` are history: how a shift was to get its details, and whether
another call has committed a change of the entry since this one wrote it.

### Access

Three modules in one system: `AccessNext` is a step of `IdentitySync`, or one of the operations of
`UnitRegistry` and `CalendarRegistry`, which stand for the transactions that
`UnitAdmin` and `CalendarAdmin` show to implement them. `DeleteUnit` is both
registries' deletion in one step, as the foreign keys make it. The queries are
`ListVisibleCalendarsForUser`, which joins the stored groups, and
`ListUnitsByUserGroups` and `IsUnitMember`, which take the request's groups as an
argument. `heard` and `calm` are history: the groups that a handler's user has sent
since it began, and whether another sync of the user has overlapped with it.

What it shows: `ListVisibleCalendars` may list what a concurrent request of the same
user was allowed to see, and may list too little while another request has deleted the
stored groups and not yet inserted them again; it never lists what only an earlier
session was allowed to see, even if that session's sync was cut off halfway. No route calls
`ListVisibleCalendars`, `IsUnitMember` or `IsUnitAdmin` yet (only tests do); the model
takes any handler as the caller.

### Renderer and Pages

`Renderer.templates` points to a map. A call of `Page` or `Component` in dev mode makes
a new one (`MakeMap`), then parses file after file and stores each in the map that the
field points to at that moment. A store has a beginning and an end, so that another
access to the same map can overlap with it. That is a data race, undefined
in Go: `Fatal` is the runtime noticing and ending the process, `torn` a map in an
unknown state, and a lookup beside a store may miss what is there. A file that does not parse panics between two stores
(`ParseFile`); `Recovery` catches that, and the next call in dev mode makes a new map.

`Pages` puts the handlers in front of it. A request's record holds the status in the
`statusRecorder` of `Logging` and the status that the client got, which are two things:
the first `WriteHeader` is sent, the last is recorded. `HandleError` sends the header
of an HTMX error before it renders the toast. `Follow` is the browser behind the
redirect of `Home`, which names the only unit by its slug.

What it shows:

- In dev mode two requests at once can answer 500 for a page that exists or end the
  process; in production the map is never written after `New`, so neither can happen.
- `recovery.go:9` ("returns 500") holds unless the header is out: an HTMX error whose
  toast panics is a 404 or 500 that the log calls 500. `LogMatchesAnswer` says exactly
  when the log and the answer differ.
- `UnitDashboard` answers every database error with 404, although `ErrNotFound` is
  documented as "indicates a resource was not found" (`handler.go:35`), so a 404 alone
  does not mean a missing unit. `failed` is history, set by `ReadFails` and by nothing
  else, and is kept in the request, its toast and its line in the log.
  `RedirectsLead` says that whoever follows a redirect to a unit that is still there
  gets it, unless `failed` was recorded: a 404 of the not-found branch for such a unit
  would violate it.

### Lifecycle

`process` is the main goroutine, `server` the goroutine that listens, `request` what
the requests in flight ask of the pool. goose reads the version (`ReadVersion`), runs the
next migration in a transaction (`Apply`, `Commit`) and repeats; it takes no lock, so
two processes may choose the same migration: the second `CREATE TABLE` waits for the
first transaction (`Blocked`) and then fails (`AlreadyExists`), or runs if the first one
has been rolled back. `Signal` before `signal.Notify` kills the process, which may be
listening already; later it starts `Shutdown`, which returns when no request is left
(`Shutdown`) or after 30 seconds (`Expire`). Then `pool.Close` refuses new acquisitions
and waits, without a limit, for the connections that are out (`Exit`).

What it shows:

- A process that loses a race for a migration exits with 1, although the schema will be
  complete; so does one that finds the address taken, or the database not up yet. The compose
  file has no restart policy. Starting it again succeeds: `FailedStartLostARace`.
- A kill at any point of a migration leaves nothing that a later start trips over,
  because goose puts each file and its version row into one transaction.
- Requests that outlive the 30 seconds lose the pool between two statements; no statement and
  no transaction is cut off by `main`. This needs the process to get those 30 seconds:
  Docker's default grace period is 10, after which the step is `Kill`.
- No request waits for ever for a connection, because no handler asks for a second one
  while it holds one: `WithTx` runs its callback on the transaction.

## Runs

| run | instance | shows |
|---|---|---|
| `identity` | 1 user, 2 slots, 2 groups, 5 headers | `OverlapConverges`, `RevokedGroupsGo`, `ConflictHasACause` with faults and crashes anywhere, and that every request that starts a sync is answered |
| `identity_overlap` | 2 slots, two disjoint headers | violation of "Fully replaced on each login sync" (schema document, line 65): the union of two lists is kept |
| `unit` | 2 slots, 1 reader, 2 ids, 3 forms of which 2 compete for a slug | what pages can show, why a request can fail, that `UnitAdmin` implements `UnitRegistry`, and that nobody waits for ever |
| `csrf` | 2 tabs, 2 secrets | when pages are accepted, when the cookie settles, what a rotation refuses |
| `attendance` | 1 entry, 2 users, 2 batches, 3 lists | invitations lose no answer, reach everybody, and end |
| `attendance_count` | 1 batch | violation of "Returns the number of records actually inserted" (`attendance.go:21`) |
| `attendance_responded` | 1 batch | violation of "When status last changed from pending" (schema document, line 245) |
| `calendar` | 2 slots, 2 units, 2 ids, 2 visibilities, 2 lists | `CalendarAdmin` implements `CalendarRegistry`; which deadlocks exist, and that they end |
| `entry` | 2 slots, 2 ids, 2 keys, a shift and a meeting | what readers see and writers return, on the pool and in transactions; every call ends |
| `access` | 1 user, 2 slots, 2 headers, 2 units, 1 calendar of every visibility | `TablesAgree`, `ListedIsPresented` and `StoredGroupsAgree`: what the stored groups show, compared with the request's own |
| `pages` | 2 slots, 2 page files, 2 units, dev mode and production | when a page is missing, when the log is wrong, where redirects lead |
| `lifecycle` | 2 processes, 2 slots, 1 connection, 2 migrations | starts that fail and why, what a stop cuts off, that every stop and every wait for a connection ends |

Why the bounds are enough:

- *Identity.* Rows of different users do not interact (`OtherUser` in the proofs),
  so one user suffices. Two slots give every overlap of two syncs, and bursts of any
  number that follow each other, the schedule above among them; three at one
  moment are covered by the theorems, which have no bound on the slots. Two groups give a list with a first, a last and a
  frontier between.
- *Units.* Two slots give every pair of operations on one row or one slug. Units with
  different slugs share no row, so the two named forms compete for one slug; one of
  them repeats a group and has a blank part, the third form has no name. `MaxUnits`
  bounds the ids handed out; two ids allow a slug to be freed and used again.
- *CSRF.* Two tabs, each of which may come in from another site at any time, are the smallest number that can disagree on the cookie; two
  secrets let the server return to an old one. `Nonces` is large enough for an
  unused one to exist always, so that a new token is new.
- *Attendance.* Batches interact only on rows with the same entry and user, so one
  entry suffices; two users in opposite orders give the deadlock, and a list that
  names a user twice the skip of an own row. `Absentees` bounds for whom a
  substitute is asked.
- *Calendars.* Two slots give every pair of operations, and every deadlock of two; two
  units can each own a calendar and be the other's viewer. The visibilities
  `association` and `unit` take the same path, so one of them is left out. One list
  names both units, the other one unit twice. `MaxCalendars` bounds the creates.
- *Entries.* Two entries and two keys are what an exchange needs. `MaxEntries` bounds
  the creates.
- *Access.* The handler of one request and the sync of another are the smallest
  conflict. Two groups distinguish the units, and one of them is the admins', so that a
  user loses that role; a calendar is visible by its own row and the bindings of the units it
  names, never by another calendar, so one suffices.
- *Pages.* A race needs two requests. Two page files give a map that holds one page and
  lacks the other. One file is broken at a time: the first one that does not parse panics.
- *Lifecycle.* Two processes race for a migration, two migrations let one be at the
  second while the other reads the first. All processes share one address. With one
  connection, two requests compete for the last one. The theorems remove all four bounds.

The run `access` has a VIEW that leaves out the parts of the bursts' history which
neither the steps of `Access` nor its properties read (`AccessView`).
Symmetry sets (slots, tabs) are used only in `access`, `csrf` and `pages`, which have no
liveness properties.
Deadlock is checked in every run.

## Fairness

- `IdentitySync`: weak fairness of each slot's next statement. A goroutine is
  scheduled again and a statement returns. An insert or a DELETE waits at most for
  another single statement, never for a transaction that stays open, since each
  statement commits on its own.
- `UnitAdmin`: weak fairness of each slot, and strong fairness of the three
  statements that can wait for a lock, because PostgreSQL's lock queue serves
  waiters in order and new transactions can lock the same row again and again.
- `Attendance`: strong fairness of the INSERT for the same reason; weak fairness of
  the end of a batch, of the deadlock detector, and of the failure of an INSERT
  whose entry is gone.
- `CalendarAdmin`, `EntryStore`: strong fairness of a slot's next statement, for the
  lock queues, and weak fairness of the deadlock detector.
- `Lifecycle`: weak fairness of what `main` does once it has been told to stop (time
  passes, `Shutdown` and `Close` return) and of a request's next statement (statements
  return); strong fairness of `Acquire`, because the pool serves its waiters in order.
  None of `Answer`: the server has no timeouts, and a client may read for ever.
- No fairness is assumed of users, faults, crashes or the network. `Csrf`, `Access` and
  `Pages` have no liveness property and no fairness.

## Proofs

Every theorem holds for any number of requests, calls and processes and for any
values of the constants that meet the module's assumption. The type theorem of a
module is a part of its inductive invariant. Where a module bounds the ids it hands
out (`IdsLeft`), the proof has to show by counting that the creates in flight fit
(`Room`, `Numbering`), which is why these modules assume finitely many slots.

| module | theorems | assumption |
|---|---|---|
| `AccessProofs` | of `IdentitySync`: `TypeCorrect`, `Invariance`, `Convergence`, `Revocation`, `Conflicts` | `HeadersAssumption` |
| | of `Access`: `AccessInvariance`, `References`, `MiddlewareKeepsPromises`, `NothingStaleIsListed`, `BothResolutionsAgree` | also `AccessAssumption` |
| `PagesProofs` | `PagesInvariance`, `PagesTypeCorrect`, `SettledMaps`, `LogsAreAnswers`, `MissingPages`, `Redirects` | `RendererAssumption`, `PagesAssumption` |
| `UnitAdminProofs` | `ParseGroupBindings`, `UnitInvariance`, `UnitTypeCorrect`, `PagesWhole`, `UnitFailures`, `Refinement` | `UnitAssumption` |
| `CalendarAdminProofs` | `CalendarInvariance`, `CalendarTypeCorrect`, `CalendarCircles`, `CalendarRefinement` | `CalendarAssumption` |
| `EntryStoreProofs` | `EntryTypeCorrect`, `BareShifts`, `OwnEntries`, `EntryCircles`, `LocksProtect` | `EntryAssumption` |
| `AttendanceProofs` | `AttendanceTypeCorrect`, `AnswersKept`, `Invited`, `CommittedCounts`, `AnswersDated`, `ClaimsStay`, `OneOrderNeverDeadlocks` | `AttendanceAssumption` |
| `CsrfProofs` | `CsrfTypeCorrect`, `CsrfSettles`, `CalmAccepted`, `RotatedRefused` | `CsrfAssumption` |
| `LifecycleProofs` | `LifeInvariance`, `LifeTypeCorrect`, `SchemaBeforeService`, `LostStarts`, `GentleStops` | `LifecycleAssumption` |

The assumptions say what kind of value each constant is (forms are records, lists are
sequences of users or units, page files have distinct names and the two pages that the
handlers ask for are among them, there is a secret) and that the value for "nothing" is
none of the others.

**Identity.** None of the three safety properties of the run `identity` is inductive.
`SyncInv` speaks of `Uniform` bursts: one list, no fault, and one DELETE has ended.
`SomeoneIsAhead` holds in all of them: a stored group has a sync that has come past
it, or one was let through. Whoever collides meets a stored group, so it is not the
last of the burst unless one was let through, which is what is true of any number of
syncs. The rest is about two (`PairIsSmall`: at most two are there, and once a DELETE
has ended at most one is `Uncleared`, that is, not past its own). `FrontierIsGuarded`:
look at any place k where the group before k is stored and the group at k is not; then
one of them stands exactly before k, about to insert it, and if k is the end of the
list one stands there about to be let through, or was. An insert moves a frontier
together with its request, and one that collides stood before a group that is already
stored, so it guarded no frontier. What a DELETE leaves is the difficult step.
`PairIsInOrder` prepares it: while one is uncleared, what is stored is the first groups
of the list, up to where the other one stands, and a snapshot holds the first of
those. After the DELETE, the groups from the snapshot's end to the other one's place
are stored; the first place is guarded by the one that has just deleted and is about to
insert there, the place after the stored groups by the other one. When nobody is
left, the only possible frontier is the end of the list: everything is stored. The
other conjuncts (`SyncMatchesBurst`, `SyncMatchesTables`, `BurstMatchesTables`) tie
the requests and the tables to the history. There is one lemma per action, and `OtherUser` disposes
of all users but the request's own. `ParseGroupsType` (that `parseGroups` returns a
sequence of groups) is an induction over the header's length, for sets instead of
operators (`NaturalInduction`, from the library's well-founded order).

**Access.** `AccessInv` is `SyncInv`, the references between the tables (`TablesInv`), and
for each running handler (`HandlerInv`) that what is stored of its user is among the groups
it has heard of, and, while it is calm, that its own groups are what is stored. The first half
needs the induction of `SyncInv`: a handler runs only after some sync of its burst was let
through, and from then on nothing from before the burst is stored (`LetThrough`,
`StoredGroupsGrow`). The second half is what a sync that nobody overlaps has stored when it
is let through (`LetThrough` again), kept until another sync of the user begins
(`QuietKeepsGroups`). `Allowed` grows
with the groups, and the join equals membership by the stored groups
(`JoinIsMembership`) because no calendar refers to a unit that is gone; from these two the
properties follow.

**Units.** `UnitInv` has two halves. `RegistryInv` speaks of the tables and the pages:
rows and bindings are whole forms (`Tables`, `BindingsAreWhole`), slugs differ
(`SlugsDiffer`), a page lists units that have been committed, with whole sets of bindings
(`Listed`). `SlotsInv` speaks of the requests: a transaction that has written finds its
unit, or its id and slug unused (`Holds`), one that its next statement will refuse has lost
a race (`Remembers`), two of one kind are about different units and slugs (`Apart`), and
there is an id for every create (`Numbering`). The loop of `parseGroupBindings` is a
recursive function, so `ParseGroupBindings` follows by induction over sets: the list
names every group of the field once. `Refinement` needs one case for each
way to commit; everything else leaves what the registry sees unchanged.

**Calendars.** `CalendarInv` says for each call what its rows are for: they exist, and
they are the calendar that the call writes with its viewers, or the unit that it deletes
with its calendars and places (`Locks`); the units it refers to exist (`Shares`); the
calendar it creates is nobody's yet (`Creates`). With `Apart`, one call's commit cannot
touch what another relies on (`OtherCall`). When a statement needs no more rows, its call
holds exactly the rows that the operation of the registry removes (`DoneFacts`), from
which the three kinds of commit follow (`CommitWrites`, `CommitRemoves`,
`CommitRemovesUnit`), and from them the tables' invariant and the steps of
`CalendarRegistry`. `CalendarCircles` is `FirstWait` applied twice: without the deletion of
a unit, whoever waits stands at the first statement and holds nothing, and nobody waits
for a call that holds nothing.

**Entries.** `EntryInv` says for each call what it may rely on while its transaction is
open (`Opened`: nobody else has committed its entry or its key), that a call
which is about to insert details (`InsertDetails`) is of the kind that the history
records (`InDetails`), which results lack details (`Bare`), and that a call finds what it has written unless it ran on
the pool and was overtaken (`Writes`); `Pair` keeps the entries and keys of two open
calls apart. Two more results follow from it that no run lists. `EntryCircles`: a call
that somebody waits for has something open, and one that waits while it has something
open is an update that has its row and wants another key (`BetweenTwo`), so a deadlock
takes updates that exchange the keys of their entries; a form that creates, deletes or
locks entries never sees one. `LocksProtect`: what one call has open is not what another
commits, so an entry that `GetEntryForUpdate` has locked stays as it was read, with its
details, until the transaction ends. An update that keeps the key locks more weakly, as
PostgreSQL does, and does not keep details away: the theorem claims them for locks and
deletions only.

**Attendance.** `AttendanceInv` says of each running batch that nobody else makes the rows
it has inserted (`Claims`), and that every user whom it has passed has one of them, a
committed row, or one that was deleted meanwhile (`Meets`); two batches have inserted
different rows (`Apart`). Two findings have a true half, which is proved: the count is
right whenever the commit has succeeded (`CommittedCounts`: the rows that the commit adds
are those the batch holds, and none of them was there), and the time of an answer is
never erased and is set whenever somebody leaves `pending` (`AnswersDated`; it is also
overwritten later, which is the finding). `OneOrderNeverDeadlocks` says what would make
the deadlocks of the run `attendance` impossible: callers that name users in one order.
It needs that a batch holds only users whom it has passed in its list (`Listed`). In a
circle take a batch whose next user comes first of all; it is waited for, so the user that
the waiter wants is one it has passed, which comes no later and so is its own next user:
it would wait for a row that it has inserted itself.

**CSRF.** `CsrfTypes` contains `HoldsTwo`: a tab has at most two tokens, one in its page
and one on the way, so by counting an unused nonce exists whenever `CSRF` draws one. A
calm tab's page and requests agree with a cookie that is valid, and nothing on the way
will set another (`CalmInv`), which a tab from another site ends for every tab.

**Renderer and pages.** `RendererInv` speaks of the shared map. A call owns it (`Owns`) if
it parses and nobody has made a map since; an owner has stored every file that it has come
past, or the map is torn (`Filled`), and a map that is not whole has an owner, is torn or was
left by one that panicked (`MapInv`). Other requests may store into the owner's map at any
time, so both hold only because a store never takes anything away except by a race. An
owner that looks up is through with all the files (`OwnerIsThrough`), so a lookup that
misses has lost its map to another call or to a race (`Misses`), and `OnlyLookUpMisses`.
`PagesInv` adds that a handler waits just as long as its call runs, that nothing but the
header of a toast is sent before the answer (`Underway`), which decides what the log can
say, and that the unit which a redirect names still has its slug or is deleted: no
create can take its id, and no other live unit has its slug. A read that fails leaves its
mark in the toast or in the log (`FailedReadsShow`), hence `Redirects`.

**Lifecycle.** `LifeInv`: the schema is the version with at most one migration in the
middle (`SchemaIsWhole`, `OneCommits`), a process is at most one migration ahead of it
(`TargetsAreNear`), one whose reading is out of date knows that another has overlapped
(`OverlapIsKnown`, `AloneIsCurrent`), and whoever has got past the migrations has them
all (`WiredIsMigrated`, `ServerHasMain`). `StopInv` ties the requests that are cut off to
the 30 seconds they had.

Out of the prover's reach, and therefore only model-checked: ENABLED and with it
liveness under fairness (`EveryRequestAnswered`, `EveryBatchReturns`, `EveryCallReturns`,
`Stops`, `EveryAcquireEnds`), and what a recursively defined function computes beyond what
an induction over sets can say. Every invariant and every action property of the passing
runs is proved, and both refinements. What the theorems of entries and attendance say
beyond the runs' properties (`CirclesExchangeKeys`, `LockedRowsStay`, `CommitsAreCounted`,
`AnswersAreDated`, `SubstitutesStay`, `Listed`) is defined beside them, in the modules of
the proofs; TLC found no exception on the instances of the runs `entry` and `attendance`,
and none to `OrderedListsNeverDeadlock` when all lists of the latter name users in one order.

## Not modelled

- Tables that only generated queries touch: events, templates and recurrence,
  notifications, webhooks, feed tokens, external sources. There is no control in
  them, and no caller.
- `RequireAdmin` and `IsUnitAdmin` are one comparison each of a request's groups with
  the configuration or with one row's admin group; there is nothing for interleavings to
  disturb beyond what `Access` says of `IsUnitMember`. `config.Load` panics before the
  first step of `Lifecycle`.
- Queries that list calendars, entries or attendances of one table without a decision,
  and columns that nothing writes (`confirmed`).
- Templates' contents, view models, static assets, logging, formatting.
- A statement that PostgreSQL executes after the client has given up on it, or after the
  server process has died, appears only as one that is settled at that moment.
- oauth2-proxy and the IdP: their headers are the model's input.

## Plan

The components whose state the code changes are modelled, and the safety properties of
their modules are proved. What is left:

1. Modules for what has tables but no code yet: as soon as handlers or workers use the
   queries of events, notifications, webhooks or feed tokens, each of them gets a module
   of its own and joins `Access` where its visibility depends on membership.
2. When calendars, entries and attendance get handlers, their callers are no longer any
   goroutine at any time: the handlers' reads before the calls and their transactions
   replace the free choice of arguments.
