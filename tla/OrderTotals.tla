---------------------------- MODULE OrderTotals ----------------------------
(***************************************************************************)
(* The total of an order and its items: order-item.service.ts, the         *)
(* subscriber that recalculates the total whenever an item is written      *)
(* (order-item.subscriber.ts), and the whole-row saves of order.service.ts *)
(* that carry a total along.                                               *)
(*                                                                         *)
(* An item is written in a transaction of its own, and the subscriber runs *)
(* inside it, before the commit: it reads the order with its items, sums   *)
(* them up and saves the order, items included.  Transactions are READ     *)
(* COMMITTED, so the items of two requests miss each other.  save() of an  *)
(* order reads it and its items once more and writes what differs: an item *)
(* that was changed meanwhile is set back, one that was removed is         *)
(* inserted again, and one that was added would lose its order, which the  *)
(* column forbids.  Once an item is removed its id is undefined, and the   *)
(* search for it finds an item of any order.                               *)
(*                                                                         *)
(* Prices are one, so that the total is the number of units; the deletion  *)
(* of an order, which takes its items along, is left to Orders.            *)
(***************************************************************************)
EXTENDS Naturals, FiniteSets, Functions

CONSTANTS
  Requests,      \* HTTP requests in flight at once
  OrderIds,
  ItemsOf,       \* ItemsOf[o]: the ids that items of order o may have
  MaxQuantity,   \* bound: units of one item
  NoOrder

ASSUME OrderTotalsAssumption ==
  /\ NoOrder \notin OrderIds
  /\ MaxQuantity \in Nat
  /\ \A o, p \in OrderIds : o # p => ItemsOf[o] \cap ItemsOf[p] = {}
  /\ \A o \in OrderIds : IsFiniteSet(ItemsOf[o])

VARIABLES
  orders,     \* the orders that have been made
  quantity,   \* quantity[i]: the units of item i, 0 if there is no such row
  total,      \* total[o]: total_amount of order o
  job,        \* job[r]: where request r is and what it holds
  off         \* history: orders whose total may be wrong

vars == <<orders, quantity, total, job, off>>

-----------------------------------------------------------------------------
Items == UNION {ItemsOf[o] : o \in OrderIds}
Of(i) == CHOOSE o \in OrderIds : i \in ItemsOf[o]
Quantities == [Items -> 0 .. MaxQuantity]

\* The units of the items of an order, in q.
Units(q, o) == SumFunction(Restrict(q, ItemsOf[o]))

Totals == {0} \cup {Units(q, o) : q \in Quantities, o \in OrderIds}

(* Where a request is:                                                     *)
(*   recalc   its item is written, or others with it: the order is to be   *)
(*            read and summed up                                           *)
(*   save     save() of the order is to read it once more                  *)
(*   write    it has: what differs is to be written                        *)
(*   commit   the transaction is to be committed                           *)
(*   put      PUT /orders has read the order                               *)
(* item is the item asked for, order the order in hand.  written are the   *)
(* items the transaction has written and locked, mine what to, paid is the *)
(* total it has written, if any.  read are the items as the copy of the    *)
(* order has them, sum is its total, back the items to be set back, again  *)
(* those to be inserted again, pays: the total is to be written.  own is   *)
(* the order of the request, alone: no request of the order has met it     *)
(* (history).                                                              *)
Job == [pc: {"idle", "recalc", "save", "write", "commit", "put"},
        order: OrderIds \cup {NoOrder}, own: OrderIds \cup {NoOrder},
        item: SUBSET Items, written: SUBSET Items, mine: Quantities,
        paid: SUBSET Totals,
        read: Quantities, sum: Totals, back: SUBSET Items, again: SUBSET Items,
        pays: BOOLEAN, alone: BOOLEAN]

None == [i \in Items |-> 0]
Idle == [pc |-> "idle", order |-> NoOrder, own |-> NoOrder, item |-> {}, written |-> {},
         mine |-> None, paid |-> {}, read |-> None, sum |-> 0, back |-> {},
         again |-> {}, pays |-> FALSE, alone |-> TRUE]
At(r, step) == job[r].pc = step
Become(r, state) == job' = [job EXCEPT ![r] = state]
Finish(r) == Become(r, Idle)

\* The element of a set that has one.
Only(S) == CHOOSE n \in S : TRUE

\* What a statement of r reads: its own write, or the last commit.
View(r, i) == IF i \in job[r].written THEN job[r].mine[i] ELSE quantity[i]
ViewTotal(r) == IF job[r].paid = {} THEN total[job[r].order] ELSE Only(job[r].paid)

\* The rows that another transaction has written.
ItemLocked(r, i) == \E q \in Requests \ {r} : i \in job[q].written
TotalLocked(r, o) == \E q \in Requests \ {r} : job[q].order = o /\ job[q].paid # {}

(* Request r begins to work on the orders of O: whoever works on one of    *)
(* them meets it.                                                          *)
Meets(r, O) == {o \in O : \E q \in Requests \ {r} : o \in {job[q].order, job[q].own}}
Begin(r, O, state) ==
  /\ job' = [q \in Requests |->
               IF q = r THEN [state EXCEPT !.alone = Meets(r, O) = {}]
               ELSE [job[q] EXCEPT !.alone = @ /\ {job[q].order, job[q].own} \cap O = {}]]
  /\ off' = off \cup Meets(r, O)

Init ==
  /\ orders = {}
  /\ quantity = None
  /\ total = [o \in OrderIds |-> 0]
  /\ job = [r \in Requests |-> Idle]
  /\ off = {}

-----------------------------------------------------------------------------
(* POST /orders, POST, PUT and DELETE /order-items                         *)

(* create commits the order with its items, and keeps them: it saves the   *)
(* order once more, for the path of the invoice.                           *)
Create(r, o) ==
  /\ At(r, "idle") /\ o \notin orders
  /\ orders' = orders \cup {o}
  /\ \E q \in Quantities :
       /\ \A i \in Items \ ItemsOf[o] : q[i] = 0
       /\ \E i \in ItemsOf[o] : q[i] > 0
       /\ quantity' = [i \in Items |-> IF i \in ItemsOf[o] THEN q[i] ELSE quantity[i]]
       /\ total' = [total EXCEPT ![o] = Units(q, o)]
       /\ Become(r, [Idle EXCEPT !.pc = "save", !.order = o, !.own = o, !.read = q,
                                 !.sum = Units(q, o)])
  /\ UNCHANGED off

\* Mutant: the rows of the whole order are written.
OfTheOrder(i) == {j \in ItemsOf[Of(i)] : j = i \/ quantity[j] > 0}
\* The rows that a request for item i writes.
Rows(i) == {i}

\* Mutant: there is no afterUpdate.
AfterInsertOnly(i) == IF quantity[i] = 0 THEN "recalc" ELSE "commit"
\* afterInsert and afterUpdate find the item and its order.
Follows(i) == "recalc"

\* An item is inserted, under an id that is free, or updated.
Change(r, i, n) ==
  /\ At(r, "idle") /\ Of(i) \in orders /\ n # quantity[i]
  /\ \A j \in Rows(i) : ~ItemLocked(r, j)
  /\ Begin(r, {Of(i)},
           [Idle EXCEPT !.pc = Follows(i), !.order = Of(i), !.own = Of(i),
                        !.item = {i}, !.written = Rows(i),
                        !.mine = [j \in Items |-> IF j \in Rows(i) THEN n ELSE 0]])
  /\ UNCHANGED <<orders, quantity, total>>

(* An item is removed; afterRemove looks for it without an id, and finds   *)
(* an item of some order, or none if none is left.                         *)
RemoveItem(r, i) ==
  LET removed == [Idle EXCEPT !.own = Of(i), !.item = {i}, !.written = {i}]
      left == {j \in Items \ {i} : quantity[j] > 0}
  IN  /\ At(r, "idle") /\ quantity[i] > 0 /\ ~ItemLocked(r, i)
      /\ \/ \E j \in left :
              Begin(r, {Of(i), Of(j)}, [removed EXCEPT !.pc = "recalc", !.order = Of(j)])
         \/ left = {} /\ Begin(r, {Of(i)}, [removed EXCEPT !.pc = "commit"])
      /\ UNCHANGED <<orders, quantity, total>>

-----------------------------------------------------------------------------
(* recalcOrderTotal, and save() of an order with its items                 *)

Sum(r, q) == Units(q, job[r].order)

\* The order is read with its items, as the transaction sees them.
Recalculate(r) ==
  /\ At(r, "recalc")
  /\ LET items == [i \in Items |-> IF i \in ItemsOf[job[r].order] THEN View(r, i) ELSE 0]
     IN  Become(r, [job[r] EXCEPT !.pc = "save", !.read = items, !.sum = Sum(r, items)])
  /\ UNCHANGED <<orders, quantity, total, off>>

(* The order and its items are read once more and compared with the copy.  *)
(* An item that the copy does not have would lose its order: the statement *)
(* fails (Rollback).                                                       *)
SaveReads(r) ==
  LET had == {i \in ItemsOf[job[r].order] : job[r].read[i] > 0}
  IN  /\ At(r, "save")
      /\ \A i \in ItemsOf[job[r].order] \ had : View(r, i) = 0
      /\ Become(r, [job[r] EXCEPT
                      !.pc = "write",
                      !.again = {i \in had : View(r, i) = 0},
                      !.back = {i \in had : View(r, i) \notin {0, job[r].read[i]}},
                      !.pays = job[r].sum # ViewTotal(r)])
      /\ UNCHANGED <<orders, quantity, total, off>>

(* What differed is written, once nobody else has locked it; an UPDATE of  *)
(* a row that is gone by now writes nothing, an INSERT of one that is back *)
(* fails.  The subscriber recalculates for the items that were written.    *)
SaveWrites(r) ==
  LET items == job[r].again \cup {i \in job[r].back : View(r, i) # 0}
  IN  /\ At(r, "write")
      /\ \A i \in job[r].again \cup job[r].back : ~ItemLocked(r, i)
      /\ \A i \in job[r].again : View(r, i) = 0
      /\ job[r].pays => ~TotalLocked(r, job[r].order)
      /\ Become(r, [job[r] EXCEPT
                      !.pc = IF items = {} THEN "commit" ELSE "recalc",
                      !.written = @ \cup items,
                      !.mine = [i \in Items |-> IF i \in items THEN job[r].read[i] ELSE @[i]],
                      !.paid = IF job[r].pays THEN {job[r].sum} ELSE @,
                      !.read = None, !.sum = 0, !.again = {}, !.back = {}, !.pays = FALSE])
      /\ UNCHANGED <<orders, quantity, total, off>>

(* The transaction commits.  A request that nobody met leaves the total of *)
(* the order it recalculated right, and that of an order that it removed   *)
(* an item from, and did not recalculate, wrong.                           *)
Commit(r) ==
  /\ At(r, "commit")
  /\ quantity' = [i \in Items |-> View(r, i)]
  /\ total' = [o \in OrderIds |-> IF o = job[r].order THEN ViewTotal(r) ELSE total[o]]
  /\ off' = (IF job[r].alone THEN off \ {job[r].order} ELSE off)
              \cup ({job[r].own} \ {job[r].order})
  /\ Finish(r)
  /\ UNCHANGED orders

\* The statement fails, a deadlock has its victim, the process dies.
Rollback(r) ==
  /\ ~At(r, "idle")
  /\ Finish(r)
  /\ UNCHANGED <<orders, quantity, total, off>>

-----------------------------------------------------------------------------
(* PUT /orders/:id lays the body over the order it reads and saves it: the *)
(* total as it was read, and no items.                                     *)
PutReads(r, o) ==
  /\ At(r, "idle") /\ o \in orders
  /\ Begin(r, {o}, [Idle EXCEPT !.pc = "put", !.order = o, !.own = o, !.sum = total[o]])
  /\ UNCHANGED <<orders, quantity, total>>

PutSaves(r) ==
  /\ At(r, "put") /\ ~TotalLocked(r, job[r].order)
  /\ total' = [total EXCEPT ![job[r].order] = job[r].sum]
  /\ Finish(r)
  /\ UNCHANGED <<orders, quantity, off>>

Next ==
  \E r \in Requests :
    \/ \E o \in OrderIds : Create(r, o) \/ PutReads(r, o)
    \/ \E i \in Items : RemoveItem(r, i) \/ \E n \in 1 .. MaxQuantity : Change(r, i, n)
    \/ Recalculate(r) \/ SaveReads(r) \/ SaveWrites(r) \/ Commit(r)
    \/ PutSaves(r) \/ Rollback(r)

Spec == Init /\ [][Next]_vars

-----------------------------------------------------------------------------
(* Properties                                                              *)

TypeOK ==
  /\ orders \subseteq OrderIds
  /\ quantity \in Quantities
  /\ total \in [OrderIds -> Totals]
  /\ job \in [Requests -> Job]
  /\ off \subseteq OrderIds

(* The total of an order is that of its items, unless two requests of the  *)
(* order have met or one of its items was removed, which recalculates an   *)
(* order that need not be this one; an item that is inserted or updated    *)
(* while no other request of the order is under way puts the total right.  *)
TotalOfItems ==
  \A o \in orders \ off : total[o] = Units(quantity, o)

(* A request that no other request of the order meets writes no item but   *)
(* the one it was asked for: only where two have met does a recalculation  *)
(* or the second save of a new order set an item back.                     *)
OthersItemsKept ==
  [][\A r \in Requests :
       (At(r, "commit") /\ job[r].alone /\ quantity' # quantity /\ job'[r] # job[r])
       => \A i \in Items \ job[r].item : quantity'[i] = quantity[i]]_vars
=============================================================================
