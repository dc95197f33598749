------------------------------- MODULE MCCsrf -------------------------------
(* A small instance of Csrf for TLC. *)
EXTENDS Csrf, TLC

\* Tabs are interchangeable.
TabSymmetry == Permutations(Tabs)

=============================================================================
