------------------------------ MODULE MCOrders ------------------------------
(***************************************************************************)
(* Orders for TLC: two products, two carts that take them in opposite      *)
(* orders and one of which names a product twice: the stock suffices for   *)
(* that one twice, and not for both.                                       *)
(***************************************************************************)
EXTENDS Orders

CONSTANTS apples, pears

One(p) == [product |-> p, quantity |-> 1]
Three(p) == [product |-> p, quantity |-> 3]

AllCarts == {<<One(apples), One(apples), One(pears)>>,
             <<One(pears), Three(apples)>>}

Stocked == [p \in Products |-> IF p = apples THEN 4 ELSE 2]
=============================================================================
