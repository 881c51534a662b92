---------------------------- MODULE MCMfaAccount ----------------------------
(***************************************************************************)
(* MfaAccount for TLC; requests are interchangeable.                       *)
(***************************************************************************)
EXTENDS MfaAccount, TLC

Symmetry == Permutations(Requests)
=============================================================================
