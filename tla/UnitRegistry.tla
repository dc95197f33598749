---------------------------- MODULE UnitRegistry ----------------------------
(***************************************************************************)
(* What the administration of units promises: a registry that every        *)
(* create, update and delete changes in one step.  A unit's details and    *)
(* its group bindings always come from one submitted form, live units      *)
(* have distinct slugs, a slug never changes, and an id is never reused.   *)
(* UnitAdmin implements it with transactions of several statements.        *)
(***************************************************************************)
EXTENDS Naturals

CONSTANTS
    Ids,       \* unit ids
    Contents,  \* [slug, info, groups] records: what one form says of a unit
    None       \* no unit

VARIABLES
    registry,  \* the unit under each id
    born       \* ids that a unit has ever had

vars == <<registry, born>>

Live == {id \in Ids : registry[id] # None}

\* What the store functions of internal/store/unit.go read.  An empty list of
\* groups is answered without the database.
ListUnitsByUserGroups(groups) == {id \in Live : registry[id].groups \cap groups # {}}

IsUnitMember(id, groups) == id \in Live /\ registry[id].groups \cap groups # {}

GetUnitBySlug(slug) == {id \in Live : registry[id].slug = slug}

Init ==
    /\ registry = [id \in Ids |-> None]
    /\ born = {}

Create(id, content) ==
    /\ id \notin born
    /\ \A other \in Live : registry[other].slug # content.slug
    /\ registry' = [registry EXCEPT ![id] = content]
    /\ born' = born \cup {id}

\* Mutant: the form's slug is written too.
Update_Renames(id, content) ==
    /\ id \in Live
    /\ registry' = [registry EXCEPT ![id] = content]
    /\ UNCHANGED born

Update(id, content) ==
    /\ id \in Live
    /\ registry' = [registry EXCEPT ![id] = [content EXCEPT !.slug = registry[id].slug]]
    /\ UNCHANGED born

Delete(id) ==
    /\ registry' = [registry EXCEPT ![id] = None]
    /\ UNCHANGED born

Next ==
    \E id \in Ids :
        \/ \E content \in Contents : Create(id, content) \/ Update(id, content)
        \/ Delete(id)

Spec == Init /\ [][Next]_vars

=============================================================================
