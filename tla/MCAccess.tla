------------------------------ MODULE MCAccess ------------------------------
(* A small instance of Access for TLC. *)
EXTENDS Access, TLC

CONSTANTS fire, club, committee, brigade, blank

MCGroups == {committee, brigade}

\* The list of an association admin, and what is left of it when the admins'
\* group is revoked.
MCHeaders == {<<committee, brigade>>, <<brigade>>}

\* Two units that the groups tell apart; an update may give a unit the
\* other's group.
MCUnitContents ==
    {[slug |-> fire, info |-> fire, groups |-> {committee}],
     [slug |-> club, info |-> fire, groups |-> {brigade}]}

\* Every visibility; a custom calendar has one viewer, its own unit or not.
MCCalendarContents ==
    [visibility : {"association", "unit"}, viewers : {{}}]
    \cup [visibility : {"custom"}, viewers : {{1}}]

\* The state without the parts of the bursts' history that neither the steps
\* of Access nor its properties depend on: size and sent evolve without them.
AccessView ==
    <<users, is_assoc_admin, user_idp_groups, seen, req, registries, heard, calm,
      [u \in Users |-> <<burst[u].size, burst[u].sent>>]>>

SlotSymmetry == Permutations(Requests)

=============================================================================
