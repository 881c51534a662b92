--------------------------- MODULE MCExperiments ---------------------------
(* Experiments for TLC: one account of each variant that is tried, and the *)
(* results of a pilot of E3 on an earlier dataset, so that a full campaign *)
(* is within reach.                                                        *)
EXTENDS Experiments

KeptResults == {<<"E3", "pilot">>}
=============================================================================
