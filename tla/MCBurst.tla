------------------------------ MODULE MCBurst -------------------------------
(* Burst for TLC: three clients stand for fifty.                           *)
EXTENDS Burst, TLC

Symmetry == Permutations(Slots)
=============================================================================
