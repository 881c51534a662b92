--------------------------- MODULE MCOrderTotals ---------------------------
(* OrderTotals on a small instance: one order of two items, one of one. *)
EXTENDS OrderTotals, TLC

CONSTANTS o1, o2, i1, i2, i3

SmallItemsOf == o1 :> {i1, i2} @@ o2 :> {i3}

Interchangeable == Permutations(Requests) \cup Permutations({i1, i2})
=============================================================================
