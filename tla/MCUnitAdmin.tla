----------------------------- MODULE MCUnitAdmin -----------------------------
(* A small instance of UnitAdmin for TLC. *)
EXTENDS UnitAdmin, TLC

CONSTANTS t1, t2, d1, fire, club, a, b, c, blank, old, new

\* Two forms that compete for one slug, with different details and bindings
\* (one has a blank part and names a group twice), and one without a name.
FirstForm == [slug |-> fire, named |-> TRUE, info |-> old, parts |-> <<a, c>>]
SecondForm == [slug |-> fire, named |-> TRUE, info |-> new, parts |-> <<b, blank, b>>]
NamelessForm == [slug |-> club, named |-> FALSE, info |-> new, parts |-> <<>>]

MCForms == {FirstForm, SecondForm, NamelessForm}

=============================================================================
