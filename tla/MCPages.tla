------------------------------- MODULE MCPages -------------------------------
(* A small instance of Pages for TLC. *)
EXTENDS Pages, TLC

CONSTANTS fire, club, committee

\* The two page files of the members' pages, as the directory lists them.
MCFiles == <<HomePage, UnitPage>>

\* Two units of the user: one slug each.
MCUnitContents ==
    {[slug |-> fire, info |-> fire, groups |-> {committee}],
     [slug |-> club, info |-> fire, groups |-> {committee}]}

SlotSymmetry == Permutations(Slots)

=============================================================================
