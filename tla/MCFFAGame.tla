------------------------------ MODULE MCFFAGame ------------------------------
(* Instances of FFAGame for TLC. *)
EXTENDS FFAGame, TLC

Symmetry == Permutations(Players)
=============================================================================
