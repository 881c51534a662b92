------------------------------ MODULE MCUsers ------------------------------
(* Users on a small instance; the ids are interchangeable. *)
EXTENDS Users, TLC

Interchangeable ==
  Permutations(Requests) \cup Permutations(Accounts) \cup Permutations(Emails)
=============================================================================
