--------------------------- MODULE MCMfaChallenge ---------------------------
(***************************************************************************)
(* MfaChallenge for TLC.  The methods that are created are given per run;  *)
(* requests are interchangeable.                                           *)
(***************************************************************************)
EXTENDS MfaChallenge, TLC

Symmetry == Permutations(Requests)
=============================================================================
