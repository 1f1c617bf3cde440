-------------------------------- MODULE MCDco --------------------------------
(* Two channels, rates of two halves of one bit.                              *)
EXTENDS Dco, TLC

Symmetry == Permutations(Ch)
=============================================================================
