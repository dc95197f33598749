------------------------------ MODULE UnitAdmin ------------------------------
(***************************************************************************)
(* The association admins' pages for units (internal/handler/              *)
(* admin_units.go), the transactions behind them (internal/store/unit.go,  *)
(* WithTx in internal/store/store.go) and the tables units and             *)
(* unit_group_bindings.                                                    *)
(*                                                                         *)
(* units and unit_group_bindings hold what is committed.  A transaction    *)
(* keeps its writes to itself until Commit; PostgreSQL's read committed    *)
(* level lets every statement see what is committed when it runs, and      *)
(* makes it wait for a row, or for a unique key, that another open         *)
(* transaction has written.                                                *)
(***************************************************************************)
EXTENDS Naturals, Sequences, FiniteSets, Functions

CONSTANTS
    Slots,     \* requests that write, in flight at the same time
    Readers,   \* requests that show units, in flight at the same time
    MaxUnits,  \* bound: how many ids the runs hand out
    Slugs,     \* valid slugs
    Groups,    \* names of IdP groups
    Blank,     \* a part of the bindings field that trims to nothing
    Forms,     \* submitted forms
    None       \* no row, no form

\* A form: its slug, whether its name is filled in, its other details, and
\* the parts of its bindings fields, split at the commas.
FormTypes(Infos) ==
    [slug : Slugs, named : BOOLEAN, info : Infos, parts : Seq(Groups \cup {Blank})]

ASSUME UnitAssumption ==
    /\ IsFiniteSet(Slots) /\ MaxUnits \in Nat
    /\ Forms \subseteq FormTypes({f.info : f \in Forms})
    /\ Blank \notin Groups
    /\ None \notin Forms
    /\ None \notin [slug : Slugs, info : {f.info : f \in Forms}]
    /\ None \notin [slug : Slugs, info : {f.info : f \in Forms}, groups : SUBSET Groups]

Ids == 1 .. MaxUnits

VARIABLES
    units,                \* table units: id -> row
    unit_group_bindings,  \* table unit_group_bindings: <<unit_id, group_name>>
    lastId,               \* the sequence behind units.id
    req,                  \* the writing requests
    page,                 \* the reading requests
    born                  \* history: the ids that have ever been committed

tables == <<units, unit_group_bindings, lastId, born>>
vars == <<units, unit_group_bindings, lastId, req, page, born>>

-----------------------------------------------------------------------------
(* Forms *)

\* Mutants: repeated names are kept; blank parts are.
parseGroupBindings_KeepsRepeats(raw) == SelectSeq(raw, LAMBDA part : part # Blank)
parseGroupBindings_KeepsBlanks(raw) == raw

\* Blank parts and repeated names are dropped, the order is kept.
parseGroupBindings(raw) ==
    LET result[i \in 0 .. Len(raw)] ==
            IF i = 0 THEN <<>>
            ELSE IF raw[i] = Blank \/ raw[i] \in Range(result[i - 1]) THEN result[i - 1]
            ELSE Append(result[i - 1], raw[i])
    IN  result[Len(raw)]

Row(form) == [slug |-> form.slug, info |-> form.info]

-----------------------------------------------------------------------------
(* Requests and their transactions *)

\* A slot whose last request ended with this answer, and why if it failed.
Answered(answer, cause) ==
    [at |-> "idle", op |-> "none", id |-> 0, form |-> None, groups |-> <<>>, bound |-> 0,
     gone |-> {}, raced |-> FALSE, answer |-> answer, cause |-> cause]

Started(op, id, form, at) ==
    [at |-> at, op |-> op, id |-> id, form |-> form,
     groups |-> IF form = None THEN <<>> ELSE parseGroupBindings(form.parts),
     bound |-> 0, gone |-> {}, raced |-> FALSE, answer |-> 0, cause |-> "none"]

\* The slot's transaction is open and has written.
InTx(r) == req[r].at \in {"clear", "bind"}

\* Mutant: the read of the existing unit locks its row, for a transaction of
\* its own.
Locked_FromTheRead(id) ==
    \E r \in Slots :
        req[r].at \in {"update", "clear", "bind"} /\ req[r].op = "update" /\ req[r].id = id

\* An open transaction has written the row of unit id.
Locked(id) == \E r \in Slots : InTx(r) /\ req[r].op = "update" /\ req[r].id = id

\* An open transaction has inserted a unit with this slug.
SlugLocked(slug) == \E r \in Slots : InTx(r) /\ req[r].op = "create" /\ req[r].form.slug = slug

Exists(id) == units[id] # None
SlugTaken(slug) == \E id \in Ids : Exists(id) /\ units[id].slug = slug

\* The groups bound to unit id, as committed.
BoundTo(id) == {g \in Groups : <<id, g>> \in unit_group_bindings}

\* The groups the slot's open transaction has inserted.
Inserted(r) == {req[r].groups[i] : i \in 1 .. req[r].bound}

\* History: r's slot ends with this answer, and the create that has checked
\* the slug of a unit being created, or the update that has read a unit being
\* deleted, has lost a race.
Raced(r, q) ==
    \/ req[r].op = "create" /\ req[q].at = "insert" /\ req[q].form.slug = req[r].form.slug
    \/ req[r].op = "delete" /\ req[q].at = "update" /\ req[q].id = req[r].id

Took(r, answer, cause) ==
    req' = [q \in Slots |-> IF q = r THEN Answered(answer, cause)
                            ELSE [req[q] EXCEPT !.raced = @ \/ Raced(r, q)]]

Init ==
    /\ units = [id \in Ids |-> None]
    /\ unit_group_bindings = {}
    /\ lastId = 0
    /\ req = [r \in Slots |-> Answered(0, "none")]
    /\ page = [d \in Readers |-> [todo |-> {}, shown |-> {}]]
    /\ born = {}

-----------------------------------------------------------------------------
(* AdminCreateUnit and CreateUnitWithBindings *)

\* Bound: the creates in flight never need more than MaxUnits ids.
IdsLeft == lastId + Cardinality({r \in Slots : req[r].op = "create" /\ ~ InTx(r)}) < MaxUnits

PostCreate(r, form) ==
    /\ req[r].at = "idle" /\ IdsLeft
    /\ req' = [req EXCEPT ![r] = Started("create", 0, form, "check")]
    /\ UNCHANGED <<tables, page>>

\* The form comes back with its errors, or the create goes on.
CheckSlug(r) ==
    /\ req[r].at = "check"
    /\ req' = [req EXCEPT ![r] =
                  IF SlugTaken(@.form.slug) \/ ~ @.form.named
                  THEN Answered(200, "none") ELSE [@ EXCEPT !.at = "insert"]]
    /\ UNCHANGED <<tables, page>>

\* INSERT INTO units: waits for an open transaction that holds the slug, and
\* fails if a committed row has it.  The sequence moves on in both cases.
CreateUnit(r) ==
    /\ req[r].at = "insert" /\ ~ SlugLocked(req[r].form.slug)
    /\ lastId' = lastId + 1
    /\ req' = [req EXCEPT ![r] =
                  IF SlugTaken(@.form.slug) THEN Answered(500, "conflict")
                  ELSE [@ EXCEPT !.at = "bind", !.id = lastId + 1]]
    /\ UNCHANGED <<units, unit_group_bindings, page, born>>

-----------------------------------------------------------------------------
(* AdminUpdateUnit and UpdateUnitWithBindings *)

PostUpdate(r, id, form) ==
    /\ req[r].at = "idle"
    /\ req' = [req EXCEPT ![r] = Started("update", id, form, "existing")]
    /\ UNCHANGED <<tables, page>>

ReadExisting(r) ==
    /\ req[r].at = "existing"
    /\ req' = [req EXCEPT ![r] =
                  IF ~ Exists(@.id) THEN Answered(404, "none")
                  ELSE IF ~ @.form.named THEN Answered(200, "none")
                  ELSE [@ EXCEPT !.at = "update"]]
    /\ UNCHANGED <<tables, page>>

\* Mutant: the statement takes no lock on the unit's row.
UpdateUnit_NoLock(r) ==
    /\ req[r].at = "update"
    /\ req' = [req EXCEPT ![r] = IF Exists(@.id) THEN [@ EXCEPT !.at = "clear"]
                                 ELSE Answered(500, "conflict")]
    /\ UNCHANGED <<tables, page>>

\* UPDATE units: waits for the row, then keeps it until the transaction
\* ends.  No row: the transaction is rolled back.
UpdateUnit(r) ==
    /\ req[r].at = "update" /\ ~ Locked(req[r].id)
    /\ req' = [req EXCEPT ![r] = IF Exists(@.id) THEN [@ EXCEPT !.at = "clear"]
                                 ELSE Answered(500, "conflict")]
    /\ UNCHANGED <<tables, page>>

\* DELETE FROM unit_group_bindings: the rows this statement sees.
DeleteUnitGroupBindings(r) ==
    /\ req[r].at = "clear"
    /\ req' = [req EXCEPT ![r] = [@ EXCEPT !.at = "bind", !.gone = BoundTo(req[r].id)]]
    /\ UNCHANGED <<tables, page>>

-----------------------------------------------------------------------------
(* Both: the insert loop and the commit *)

\* INSERT INTO unit_group_bindings of the next group; a duplicate key rolls
\* the transaction back.
InsertUnitGroupBinding(r) ==
    /\ req[r].at = "bind" /\ req[r].bound < Len(req[r].groups)
    /\ LET g == req[r].groups[req[r].bound + 1]
           present == (BoundTo(req[r].id) \ req[r].gone) \cup Inserted(r)
       IN  req' = [req EXCEPT ![r] = IF g \in present THEN Answered(500, "conflict")
                                     ELSE [@ EXCEPT !.bound = req[r].bound + 1]]
    /\ UNCHANGED <<tables, page>>

\* What the tables hold once the transaction of r is committed.
Applied(r) ==
    LET id == req[r].id
        row == IF req[r].op = "create" THEN Row(req[r].form)
               ELSE [Row(req[r].form) EXCEPT !.slug = units[id].slug]
    IN  /\ units' = [units EXCEPT ![id] = row]
        /\ unit_group_bindings' = (unit_group_bindings \ ({id} \X req[r].gone))
                                  \cup ({id} \X Inserted(r))
        /\ born' = born \cup {id}
        /\ UNCHANGED lastId

ReadyToCommit(r) == req[r].at = "bind" /\ req[r].bound = Len(req[r].groups)

Commit(r) ==
    /\ ReadyToCommit(r)
    /\ Applied(r)
    /\ Took(r, 303, "none")
    /\ UNCHANGED page

-----------------------------------------------------------------------------
(* AdminDeleteUnit *)

PostDelete(r, id) ==
    /\ req[r].at = "idle"
    /\ req' = [req EXCEPT ![r] = Started("delete", id, None, "remove")]
    /\ UNCHANGED <<tables, page>>

\* DELETE FROM units, with ON DELETE CASCADE on the bindings.
Removed(id) ==
    /\ units' = [units EXCEPT ![id] = None]
    /\ unit_group_bindings' = unit_group_bindings \ ({id} \X Groups)
    /\ UNCHANGED <<lastId, born>>

\* Waits for an open transaction that updates the row.  Deleting a unit that
\* is not there succeeds too.
DeleteUnit(r) ==
    /\ req[r].at = "remove" /\ ~ Locked(req[r].id)
    /\ Removed(req[r].id)
    /\ Took(r, 303, "none")
    /\ UNCHANGED page

-----------------------------------------------------------------------------
(* Failures *)

\* Mutant: every statement commits on its own, so a fault in the middle
\* leaves what was written before it.
Fault_KeepsWrites(r) ==
    /\ req[r].at = "bind"
    /\ Applied(r)
    /\ req' = [req EXCEPT ![r] = Answered(500, "fault")]
    /\ UNCHANGED page

\* A statement or the commit returns an error (connection lost, request
\* context cancelled) or the process dies: the transaction is rolled back.
Fault(r) ==
    /\ req[r].at # "idle"
    /\ req' = [req EXCEPT ![r] = Answered(500, "fault")]
    /\ UNCHANGED <<tables, page>>

\* The commit, or the lone DELETE, takes effect although its answer is lost.
CommitUnheard(r) ==
    /\ ReadyToCommit(r)
    /\ Applied(r)
    /\ Took(r, 500, "fault")
    /\ UNCHANGED page

DeleteUnheard(r) ==
    /\ req[r].at = "remove" /\ ~ Locked(req[r].id)
    /\ Removed(req[r].id)
    /\ Took(r, 500, "fault")
    /\ UNCHANGED page

-----------------------------------------------------------------------------
(* AdminListUnits and AdminEditUnit: the units first, then the bindings of *)
(* each one in a statement of its own.                                     *)

AdminListUnits(d) ==
    /\ page[d].todo = {}
    /\ page' = [page EXCEPT ![d] = [todo |-> {id \in Ids : Exists(id)}, shown |-> {}]]
    /\ UNCHANGED <<tables, req>>

AdminEditUnit(d, id) ==
    /\ page[d].todo = {} /\ Exists(id)
    /\ page' = [page EXCEPT ![d] = [todo |-> {id}, shown |-> {}]]
    /\ UNCHANGED <<tables, req>>

GetUnitGroupBindings(d, id) ==
    /\ id \in page[d].todo
    /\ page' = [page EXCEPT ![d] = [todo |-> @.todo \ {id},
                                    shown |-> @.shown \cup {[id |-> id, groups |-> BoundTo(id)]}]]
    /\ UNCHANGED <<tables, req>>

-----------------------------------------------------------------------------

Proceed(r) ==
    \/ CheckSlug(r)
    \/ CreateUnit(r)
    \/ ReadExisting(r)
    \/ UpdateUnit(r)
    \/ DeleteUnitGroupBindings(r)
    \/ InsertUnitGroupBinding(r)
    \/ Commit(r)
    \/ DeleteUnit(r)

Next ==
    \/ \E r \in Slots :
        \/ \E form \in Forms : PostCreate(r, form)
        \/ \E id \in Ids, form \in Forms : PostUpdate(r, id, form)
        \/ \E id \in Ids : PostDelete(r, id)
        \/ Proceed(r)
        \/ Fault(r) \/ CommitUnheard(r) \/ DeleteUnheard(r)
    \/ \E d \in Readers :
        \/ AdminListUnits(d)
        \/ \E id \in Ids : AdminEditUnit(d, id) \/ GetUnitGroupBindings(d, id)

\* Statements return.  Those that wait for a lock are strongly fair: a lock
\* queue serves its waiters in the order they came.
Fairness ==
    \A r \in Slots :
        /\ WF_vars(Proceed(r))
        /\ SF_vars(CreateUnit(r)) /\ SF_vars(UpdateUnit(r)) /\ SF_vars(DeleteUnit(r))

Spec == Init /\ [][Next]_vars /\ Fairness

-----------------------------------------------------------------------------
(* Properties *)

Infos == {f.info : f \in Forms}
Rows == [slug : Slugs, info : Infos]

TypeOK ==
    /\ units \in [Ids -> Rows \cup {None}]
    /\ unit_group_bindings \subseteq Ids \X Groups
    /\ lastId \in 0 .. MaxUnits
    /\ born \subseteq Ids
    /\ \A r \in Slots :
        /\ req[r].at \in {"idle", "check", "insert", "existing", "update", "clear", "bind",
                          "remove"}
        /\ req[r].at \in {"existing", "update", "clear", "bind", "remove"} => req[r].id \in Ids
        /\ Range(req[r].groups) \subseteq Groups
        /\ req[r].bound \in 0 .. Len(req[r].groups)
        /\ req[r].gone \subseteq Groups
    /\ \A d \in Readers :
        /\ page[d].todo \subseteq Ids
        /\ page[d].shown \subseteq [id : Ids, groups : SUBSET Groups]

\* The registry the tables stand for.
FormContents ==
    {[slug |-> f.slug, info |-> f.info, groups |-> Range(f.parts) \ {Blank}] : f \in Forms}

Stored(id) ==
    IF Exists(id)
    THEN [slug |-> units[id].slug, info |-> units[id].info, groups |-> BoundTo(id)]
    ELSE None

Registry ==
    INSTANCE UnitRegistry WITH
        Contents <- FormContents, registry <- [id \in Ids |-> Stored(id)]

\* The committed tables implement UnitRegistry: concurrent creates, updates
\* and deletes, rolled back or not, leave every unit with the details and
\* exactly the bindings of one form, no two with one slug, and none that was
\* deleted comes back.
ImplementsRegistry == Registry!Spec

\* A page never shows a binding set that was only half replaced: what it
\* shows of a unit is what some form bound, or nothing if the unit has been
\* deleted since it was listed.
PagesShowWholeForms ==
    \A d \in Readers : \A item \in page[d].shown :
        \/ item.groups \in {content.groups : content \in FormContents}
        \/ item.groups = {} /\ ~ Exists(item.id)

\* A request fails without a fault only because it lost a race: another
\* create took its slug after the form's check, or a delete removed the unit
\* after the update had read it.  The form's own repeats never fail it.
FailuresAreRaces ==
    [][\A r \in Slots : req'[r].cause = "conflict" /\ req[r].cause # "conflict"
                        => req[r].raced]_vars

\* No request waits for ever: transactions never wait for each other.
EveryRequestAnswered ==
    \A r \in Slots : req[r].at # "idle" ~> req[r].at = "idle"

=============================================================================
