---------------------------- MODULE MCCatalogue ----------------------------
(***************************************************************************)
(* Catalogue for TLC: a seeded product and one that is created.            *)
(***************************************************************************)
EXTENDS Catalogue, TLC

CONSTANT placeholder

Symmetry == Permutations(Requests) \union Permutations(Uploads)
=============================================================================
