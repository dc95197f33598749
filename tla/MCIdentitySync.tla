--------------------------- MODULE MCIdentitySync ---------------------------
(* A small instance of IdentitySync for TLC. *)
EXTENDS IdentitySync, TLC

CONSTANTS u1, r1, r2, committee, brigade, blank

MCGroups == {committee, brigade}

\* A list, the same list with a blank part (as "committee, ,brigade" gives),
\* one that names a group twice, one group alone and no group.
MCHeaders ==
    {<<committee, brigade>>, <<committee, blank, brigade>>,
     <<brigade, brigade>>, <<brigade>>, <<>>}

\* Two users' proxies that disagree: one group each.
DisjointHeaders == {<<committee>>, <<brigade>>}

=============================================================================
