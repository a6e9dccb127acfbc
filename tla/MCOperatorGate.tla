--------------------------- MODULE MCOperatorGate ---------------------------
(* TLC instances of OperatorGate. *)
EXTENDS OperatorGate, TLC

Symmetry == Permutations(Passwords) \cup Permutations(Provers) \cup Permutations(Ops)
=============================================================================
