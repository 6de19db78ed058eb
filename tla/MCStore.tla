------------------------------- MODULE MCStore -------------------------------
(***************************************************************************)
(* Instances of Store for TLC: of opening, and of contended sends.         *)
(***************************************************************************)
EXTENDS Store, TLC

\* For opening, of which safety alone is checked.
Symmetry == Permutations(Command)
=============================================================================
