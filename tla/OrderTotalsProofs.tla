-------------------------- MODULE OrderTotalsProofs --------------------------
(***************************************************************************)
(* Proofs about OrderTotals, for any requests, orders and items.  The sum  *)
(* of the items is used as a function of the items alone: two copies that  *)
(* agree on the items of an order have the same sum.                       *)
(***************************************************************************)
EXTENDS OrderTotals, TLAPS

-----------------------------------------------------------------------------
(* The inductive invariant                                                 *)

\* Request r works on order o, or has removed an item from it.
Works(r, o) == o \in {job[r].order, job[r].own}

\* What a request holds at each of its steps.
FormedAt(r) ==
  /\ At(r, "idle") => job[r].order = NoOrder /\ job[r].own = NoOrder
  /\ job[r].order \in orders \cup {NoOrder} /\ job[r].own \in orders \cup {NoOrder}
  /\ job[r].pc \notin {"idle", "commit"} => job[r].order \in orders
  /\ \A i \in job[r].written : \A o \in OrderIds : i \in ItemsOf[o] => Works(r, o)
  /\ At(r, "write") => job[r].again \cup job[r].back \subseteq ItemsOf[job[r].order]

Formed == \A r \in Requests : FormedAt(r)

\* Two requests of an order have met: the total may be wrong, and they know.
Met ==
  \A r, q \in Requests, o \in OrderIds :
    r # q /\ Works(r, o) /\ Works(q, o) => o \in off /\ ~job[r].alone

\* The items as a statement of request r reads them.
Viewed(r) == [i \in Items |-> View(r, i)]

(* A request that nobody has met, on an order whose total is right, finds  *)
(* nothing to set back and sums up the items as they will be.              *)
ExactAt(r) ==
  LET o == job[r].order
  IN  job[r].alone \/ o \notin off =>
        /\ job[r].written \subseteq job[r].item
        /\ At(r, "save") => \A i \in ItemsOf[o] : job[r].read[i] = View(r, i)
        /\ job[r].pc \in {"save", "write"} => job[r].sum = Units(Viewed(r), o)
        /\ At(r, "write") => /\ job[r].again = {} /\ job[r].back = {}
                             /\ ~job[r].pays => job[r].sum = ViewTotal(r)
        /\ At(r, "commit") /\ o \in OrderIds => ViewTotal(r) = Units(Viewed(r), o)
        /\ At(r, "put") => job[r].sum = total[o]

Exact == \A r \in Requests : ExactAt(r)

\* A request under way has an order of its own.
Owning == \A r \in Requests : ~At(r, "idle") => job[r].own # NoOrder

\* Items are those of orders that have been made.
Stocked == \A i \in Items : quantity[i] > 0 => Of(i) \in orders

IInv == TypeOK /\ Formed /\ Owning /\ Stocked /\ Met /\ Exact /\ TotalOfItems

-----------------------------------------------------------------------------
(* Items, sums and records                                                 *)

LEMMA UnitsAgree ==
  ASSUME NEW o, NEW q, NEW s, \A i \in ItemsOf[o] : q[i] = s[i]
  PROVE  Units(q, o) = Units(s, o)
  <1>1. [i \in ItemsOf[o] |-> q[i]] = [i \in ItemsOf[o] |-> s[i]]
    OBVIOUS
  <1> QED
    BY <1>1 DEF Units, Restrict

LEMMA UnitsTyped ==
  ASSUME NEW o \in OrderIds, NEW q \in Quantities
  PROVE  Units(q, o) \in Totals
  BY DEF Totals

LEMMA ItemsApart ==
  /\ \A o \in OrderIds : ItemsOf[o] \subseteq Items
  /\ \A o, p \in OrderIds : \A i \in ItemsOf[o] : i \in ItemsOf[p] => o = p
  /\ \A i \in Items : Of(i) \in OrderIds /\ i \in ItemsOf[Of(i)]
  <1>1. \A i \in Items : Of(i) \in OrderIds /\ i \in ItemsOf[Of(i)]
    BY DEF Items, Of
  <1>2. \A o \in OrderIds : ItemsOf[o] \subseteq Items
    BY DEF Items
  <1>3. ASSUME NEW o \in OrderIds, NEW p \in OrderIds, NEW i \in ItemsOf[o], i \in ItemsOf[p]
        PROVE  o = p
    BY <1>3, OrderTotalsAssumption
  <1> QED
    BY <1>1, <1>2, <1>3

LEMMA Typed ==
  ASSUME TypeOK
  PROVE  /\ orders \subseteq OrderIds /\ NoOrder \notin OrderIds
         /\ quantity \in Quantities /\ job \in [Requests -> Job]
         /\ \A o \in OrderIds : total[o] \in Totals
         /\ \A i \in Items : quantity[i] \in 0 .. MaxQuantity
         /\ \A r \in Requests :
              /\ job[r] \in Job
              /\ job[r].pc \in {"idle", "recalc", "save", "write", "commit", "put"}
              /\ job[r].order \in OrderIds \cup {NoOrder}
              /\ job[r].own \in OrderIds \cup {NoOrder}
              /\ job[r].item \subseteq Items /\ job[r].written \subseteq Items
              /\ job[r].mine \in Quantities /\ job[r].read \in Quantities
              /\ \A i \in Items : /\ job[r].mine[i] \in 0 .. MaxQuantity
                                  /\ job[r].read[i] \in 0 .. MaxQuantity
              /\ job[r].paid \subseteq Totals /\ job[r].sum \in Totals
              /\ job[r].back \subseteq Items /\ job[r].again \subseteq Items
              /\ job[r].pays \in BOOLEAN /\ job[r].alone \in BOOLEAN
  <1>1. /\ orders \subseteq OrderIds /\ NoOrder \notin OrderIds
        /\ quantity \in Quantities /\ job \in [Requests -> Job]
        /\ \A o \in OrderIds : total[o] \in Totals
    BY OrderTotalsAssumption DEF TypeOK
  <1>2. \A q \in Quantities : \A i \in Items : q[i] \in 0 .. MaxQuantity
    BY DEF Quantities
  <1>3. ASSUME NEW r \in Requests
        PROVE  /\ job[r] \in Job
               /\ job[r].pc \in {"idle", "recalc", "save", "write", "commit", "put"}
               /\ job[r].order \in OrderIds \cup {NoOrder}
               /\ job[r].own \in OrderIds \cup {NoOrder}
               /\ job[r].item \subseteq Items /\ job[r].written \subseteq Items
               /\ job[r].mine \in Quantities /\ job[r].read \in Quantities
               /\ job[r].paid \subseteq Totals /\ job[r].sum \in Totals
               /\ job[r].back \subseteq Items /\ job[r].again \subseteq Items
               /\ job[r].pays \in BOOLEAN /\ job[r].alone \in BOOLEAN
    <2>1. job[r] \in Job
      BY <1>1
    <2> QED
      BY <2>1 DEF Job
  <1> QED
    BY <1>1, <1>2, <1>3

LEMMA IdleFields ==
  /\ Idle \in Job /\ Idle.pc = "idle" /\ Idle.order = NoOrder /\ Idle.own = NoOrder
  /\ Idle.item = {} /\ Idle.written = {} /\ Idle.mine = None /\ Idle.paid = {}
  /\ Idle.read = None /\ Idle.sum = 0 /\ Idle.back = {} /\ Idle.again = {}
  /\ ~Idle.pays /\ Idle.alone
  /\ None \in Quantities /\ \A i \in Items : None[i] = 0
  <1>1. None \in Quantities /\ \A i \in Items : None[i] = 0
    BY OrderTotalsAssumption DEF None, Quantities
  <1> QED
    BY <1>1 DEF Idle, Job, Totals

LEMMA ViewTyped ==
  ASSUME TypeOK, NEW r \in Requests
  PROVE  /\ Viewed(r) \in Quantities
         /\ \A i \in Items : Viewed(r)[i] = View(r, i) /\ View(r, i) \in 0 .. MaxQuantity
         /\ job[r].order \in OrderIds => ViewTotal(r) \in Totals
  <1> USE Typed
  <1>1. \A i \in Items : View(r, i) \in 0 .. MaxQuantity
    BY DEF View
  <1>2. job[r].order \in OrderIds => ViewTotal(r) \in Totals
    BY DEF ViewTotal, Only
  <1> QED
    BY <1>1, <1>2 DEF Viewed, Quantities

-----------------------------------------------------------------------------
(* A step of one request                                                   *)

\* Two jobs that differ in what is known of other requests at most.
Alike(j, k) ==
  /\ j.pc = k.pc /\ j.order = k.order /\ j.own = k.own /\ j.item = k.item
  /\ j.written = k.written /\ j.mine = k.mine /\ j.paid = k.paid /\ j.read = k.read
  /\ j.sum = k.sum /\ j.back = k.back /\ j.again = k.again /\ (j.pays <=> k.pays)
  /\ j.alone => k.alone

\* The others keep what they hold.
OthersAlike(r) == \A q \in Requests \ {r} : Alike(job'[q], job[q])

LEMMA OneBecomes ==
  ASSUME IInv, NEW r \in Requests, NEW j, job' = [job EXCEPT ![r] = j]
  PROVE  OthersAlike(r) /\ job'[r] = j /\ \A q \in Requests \ {r} : job'[q] = job[q]
  BY Typed DEF IInv, OthersAlike, Alike

LEMMA OthersFormed ==
  ASSUME IInv, NEW r \in Requests, OthersAlike(r), orders \subseteq orders',
         NEW q \in Requests \ {r}
  PROVE  FormedAt(q)'
  <1>1. FormedAt(q)
    BY DEF IInv, Formed
  <1> QED
    BY <1>1 DEF OthersAlike, Alike, FormedAt, Works, At

(* Another request stays exact if nobody disturbs its order while it is.   *)
LEMMA OthersExact ==
  ASSUME IInv, NEW r \in Requests, OthersAlike(r), NEW q \in Requests \ {r},
         job'[q].alone \/ job[q].order \notin off' => job[q].alone \/ job[q].order \notin off,
         /\ job'[q].alone \/ job[q].order \notin off'
         /\ job[q].order \in orders
         => /\ \A i \in ItemsOf[job[q].order] : quantity'[i] = quantity[i]
            /\ total'[job[q].order] = total[job[q].order]
  PROVE  ExactAt(q)'
  <1> USE Typed DEF IInv
  <1> DEFINE o == job[q].order
  <1>1. Alike(job'[q], job[q])
    BY DEF OthersAlike
  <1>2. /\ job'[q].pc = job[q].pc /\ job'[q].order = o /\ job'[q].item = job[q].item
        /\ job'[q].written = job[q].written /\ job'[q].mine = job[q].mine
        /\ job'[q].paid = job[q].paid /\ job'[q].read = job[q].read
        /\ job'[q].sum = job[q].sum /\ job'[q].back = job[q].back
        /\ job'[q].again = job[q].again /\ (job'[q].pays <=> job[q].pays)
    BY <1>1 DEF Alike
  <1> SUFFICES ASSUME job'[q].alone \/ o \notin off'
               PROVE  /\ job[q].written \subseteq job[q].item
                      /\ At(q, "save") => \A i \in ItemsOf[o] : job[q].read[i] = View(q, i)'
                      /\ job[q].pc \in {"save", "write"} => job[q].sum = Units(Viewed(q)', o)
                      /\ At(q, "write") => /\ job[q].again = {} /\ job[q].back = {}
                                           /\ ~job[q].pays => job[q].sum = ViewTotal(q)'
                      /\ At(q, "commit") /\ o \in OrderIds =>
                           ViewTotal(q)' = Units(Viewed(q)', o)
                      /\ At(q, "put") => job[q].sum = total'[o]
    BY <1>2 DEF ExactAt, At
  <1>3. ExactAt(q) /\ (job[q].alone \/ o \notin off)
    BY DEF Exact
  <1>4. FormedAt(q)
    BY DEF Formed
  <1>5. job[q].written \subseteq job[q].item
    BY <1>3 DEF ExactAt
  <1>6. CASE o \notin orders
    <2>1. job[q].pc \in {"idle", "commit"} /\ o \notin OrderIds
      BY <1>4, <1>6 DEF FormedAt
    <2> QED
      BY <1>5, <2>1 DEF At
  <1>7. CASE o \in orders
    <2>1. /\ \A i \in ItemsOf[o] : quantity'[i] = quantity[i]
          /\ total'[o] = total[o]
      BY <1>7
    <2>2. \A i \in ItemsOf[o] : View(q, i)' = View(q, i)
      BY <1>2, <2>1 DEF View
    <2>3. ViewTotal(q)' = ViewTotal(q)
      BY <1>2, <2>1 DEF ViewTotal
    <2>4. \A i \in ItemsOf[o] : Viewed(q)'[i] = Viewed(q)[i]
      <3>1. ItemsOf[o] \subseteq Items
        BY <1>7, ItemsApart
      <3> QED
        BY <2>2, <3>1 DEF Viewed
    <2>5. Units(Viewed(q)', o) = Units(Viewed(q), o)
      BY <2>4, UnitsAgree
    <2> QED
      BY <1>3, <1>5, <2>1, <2>2, <2>3, <2>5 DEF ExactAt
  <1> QED
    BY <1>6, <1>7

LEMMA MetKept ==
  ASSUME IInv, NEW r \in Requests, OthersAlike(r), off \subseteq off',
         \A o \in OrderIds : Works(r, o)' => Works(r, o),
         job'[r].alone => job[r].alone
  PROVE  Met'
  BY DEF IInv, Met, Works, OthersAlike, Alike

\* A total stays right where neither the items nor the total change.
LEMMA TotalKept ==
  ASSUME IInv, NEW o \in orders, o \notin off,
         \A i \in ItemsOf[o] : quantity'[i] = quantity[i], total'[o] = total[o]
  PROVE  total'[o] = Units(quantity', o)
  BY UnitsAgree DEF IInv, TotalOfItems

\* A step inside the transaction of a request: nobody sees anything of it.
LEMMA InnerKeeps ==
  ASSUME IInv, NEW r \in Requests, ~At(r, "idle"), NEW j \in Job, job' = [job EXCEPT ![r] = j],
         UNCHANGED <<orders, quantity, total, off>>,
         j.order = job[r].order, j.own = job[r].own, j.alone => job[r].alone,
         FormedAt(r)', ExactAt(r)'
  PROVE  IInv'
  <1> USE Typed DEF IInv
  <1>1. OthersAlike(r) /\ job'[r] = j /\ \A q \in Requests \ {r} : job'[q] = job[q]
    BY OneBecomes
  <1>2. TypeOK'
    BY DEF TypeOK
  <1>3. Formed'
    <2>1. \A q \in Requests \ {r} : FormedAt(q)'
      BY <1>1, OthersFormed
    <2> QED
      BY <2>1 DEF Formed
  <1>4. Met'
    BY <1>1, MetKept DEF Works
  <1>5. Exact'
    <2>1. \A q \in Requests \ {r} : ExactAt(q)'
      BY <1>1, OthersExact
    <2> QED
      BY <2>1 DEF Exact
  <1>6. Owning' /\ Stocked' /\ TotalOfItems'
    BY <1>1 DEF Owning, Stocked, TotalOfItems, At
  <1> QED
    BY <1>2, <1>3, <1>4, <1>5, <1>6

-----------------------------------------------------------------------------
(* A request begins                                                        *)

\* A request that has done nothing but lock the item it was asked for.
Fresh(j, O) ==
  /\ j.pc \in {"recalc", "commit", "put"}
  /\ j.own \in O /\ j.order \in O \cup {NoOrder}
  /\ j.order = NoOrder => j.pc = "commit"
  /\ j.pc = "commit" => j.order = NoOrder
  /\ j.written \subseteq j.item
  /\ \A i \in j.written : \A o \in OrderIds : i \in ItemsOf[o] => o = j.own
  /\ \A o \in O : o \in {j.order, j.own}
  /\ j.pc = "put" => j.sum = total[j.order]

LEMMA BeginKeeps ==
  ASSUME IInv, NEW r \in Requests, At(r, "idle"), NEW O \in SUBSET orders,
         NEW state \in Job, Fresh(state, O), Begin(r, O, state),
         UNCHANGED <<orders, quantity, total>>
  PROVE  IInv'
  <1> USE Typed DEF IInv
  <1> DEFINE one(q) == [job[q] EXCEPT !.alone = @ /\ {job[q].order, job[q].own} \cap O = {}]
             new == [state EXCEPT !.alone = Meets(r, O) = {}]
  <1>1. /\ job' = [q \in Requests |-> IF q = r THEN new ELSE one(q)]
        /\ off' = off \cup Meets(r, O)
    BY DEF Begin
  <1>2. Meets(r, O) \subseteq O /\ O \subseteq OrderIds
    BY DEF Meets
  <1>3. /\ new \in Job /\ new.pc = state.pc /\ new.order = state.order /\ new.own = state.own
        /\ new.item = state.item /\ new.written = state.written /\ new.sum = state.sum
        /\ (new.alone <=> Meets(r, O) = {})
    BY DEF Job
  <1>4. ASSUME NEW q \in Requests \ {r}
        PROVE  /\ one(q) \in Job /\ Alike(one(q), job[q])
               /\ (one(q).alone <=> job[q].alone /\ {job[q].order, job[q].own} \cap O = {})
    <2>1. job[q] \in Job
      OBVIOUS
    <2> QED
      BY <2>1 DEF Job, Alike
  <1> HIDE DEF new, one
  <1>5. job'[r] = new /\ (\A q \in Requests \ {r} : job'[q] = one(q)) /\ OthersAlike(r)
    BY <1>1, <1>4 DEF OthersAlike
  <1>6. TypeOK'
    <2>1. job' \in [Requests -> Job]
      BY <1>1, <1>3, <1>4
    <2> QED
      BY <1>1, <1>2, <2>1 DEF TypeOK
  <1>7. Formed'
    <2>1. \A q \in Requests \ {r} : FormedAt(q)'
      BY <1>5, OthersFormed
    <2>2. FormedAt(r)'
      BY <1>3, <1>5 DEF FormedAt, Fresh, At, Works
    <2> QED
      BY <2>1, <2>2 DEF Formed
  <1>8. Met'
    <2>1. ASSUME NEW q \in Requests \ {r}, NEW o \in OrderIds, Works(r, o)', Works(q, o)'
          PROVE  o \in off' /\ ~job'[r].alone /\ ~job'[q].alone
      <3>1. o \in O
        BY <1>3, <1>5, <2>1 DEF Fresh, Works
      <3>2. o \in {job[q].order, job[q].own}
        BY <1>5, <2>1 DEF OthersAlike, Alike, Works
      <3>3. o \in Meets(r, O)
        BY <3>1, <3>2 DEF Meets
      <3>4. ~one(q).alone
        BY <1>4, <3>1, <3>2
      <3> QED
        BY <1>1, <1>3, <1>5, <3>3, <3>4
    <2>2. ASSUME NEW q \in Requests \ {r}, NEW k \in Requests \ {r}, q # k,
                 NEW o \in OrderIds, Works(q, o)', Works(k, o)'
          PROVE  o \in off' /\ ~job'[q].alone
      <3>1. Works(q, o) /\ Works(k, o)
        BY <1>5, <2>2 DEF OthersAlike, Alike, Works
      <3>2. o \in off /\ ~job[q].alone
        BY <2>2, <3>1 DEF Met
      <3> QED
        BY <1>1, <1>5, <3>2 DEF OthersAlike, Alike
    <2> QED
      BY <2>1, <2>2 DEF Met
  <1>9. Exact'
    <2>1. \A q \in Requests \ {r} : ExactAt(q)'
      BY <1>1, <1>4, <1>5, OthersExact
    <2>2. ExactAt(r)'
      BY <1>3, <1>5 DEF ExactAt, Fresh, At
    <2> QED
      BY <2>1, <2>2 DEF Exact
  <1>10. Stocked' /\ TotalOfItems'
    BY <1>1 DEF Stocked, TotalOfItems
  <1>11. Owning'
    <2>1. job'[r].own # NoOrder
      BY <1>2, <1>3, <1>5 DEF Fresh
    <2>2. \A q \in Requests \ {r} : job'[q].pc # "idle" => job'[q].own # NoOrder
      BY <1>5 DEF OthersAlike, Alike, Owning, At
    <2> QED
      BY <2>1, <2>2 DEF Owning, At
  <1> QED
    BY <1>6, <1>7, <1>8, <1>9, <1>10, <1>11

LEMMA ChangeKeeps ==
  ASSUME IInv, NEW r \in Requests, NEW i \in Items, NEW n \in 1 .. MaxQuantity, Change(r, i, n)
  PROVE  IInv'
  <1> USE Typed DEF IInv
  <1> DEFINE mine == [j \in Items |-> IF j \in Rows(i) THEN n ELSE 0]
             new == [Idle EXCEPT !.pc = Follows(i), !.order = Of(i), !.own = Of(i),
                                 !.item = {i}, !.written = Rows(i), !.mine = mine]
  <1>1. /\ At(r, "idle") /\ Of(i) \in orders /\ Begin(r, {Of(i)}, new)
        /\ UNCHANGED <<orders, quantity, total>>
    BY DEF Change
  <1>2. mine \in Quantities
    BY OrderTotalsAssumption DEF Quantities
  <1> HIDE DEF mine
  <1>3. /\ new \in Job /\ new.pc = "recalc" /\ new.order = Of(i) /\ new.own = Of(i)
        /\ new.item = {i} /\ new.written = {i}
    BY <1>1, <1>2, IdleFields DEF Job, Follows, Rows
  <1> HIDE DEF new
  <1>4. Fresh(new, {Of(i)})
    <2>1. \A o \in OrderIds : i \in ItemsOf[o] => o = Of(i)
      BY ItemsApart
    <2> QED
      BY <1>1, <1>3, <2>1 DEF Fresh
  <1> QED
    BY <1>1, <1>3, <1>4, BeginKeeps

LEMMA RemoveItemKeeps ==
  ASSUME IInv, NEW r \in Requests, NEW i \in Items, RemoveItem(r, i)
  PROVE  IInv'
  <1> USE Typed DEF IInv
  <1> DEFINE removed == [Idle EXCEPT !.own = Of(i), !.item = {i}, !.written = {i}]
             again(j) == [removed EXCEPT !.pc = "recalc", !.order = Of(j)]
             last == [removed EXCEPT !.pc = "commit"]
  <1>1. At(r, "idle") /\ quantity[i] > 0 /\ UNCHANGED <<orders, quantity, total>>
    BY DEF RemoveItem
  <1>2. \A j \in Items : quantity[j] > 0 => Of(j) \in orders
    BY DEF Stocked
  <1>3. /\ removed \in Job /\ removed.own = Of(i) /\ removed.order = NoOrder
        /\ removed.item = {i} /\ removed.written = {i}
    BY ItemsApart, IdleFields DEF Job
  <1> HIDE DEF removed
  <1>4. \A o \in OrderIds : i \in ItemsOf[o] => o = Of(i)
    BY ItemsApart
  <1>5. ASSUME NEW j \in Items, quantity[j] > 0, Begin(r, {Of(i), Of(j)}, again(j))
        PROVE  IInv'
    <2>1. /\ again(j) \in Job /\ again(j).pc = "recalc" /\ again(j).order = Of(j)
          /\ again(j).own = Of(i) /\ again(j).item = {i} /\ again(j).written = {i}
      BY <1>3, ItemsApart DEF Job
    <2> HIDE DEF again
    <2>2. Of(i) \in orders /\ Of(j) \in orders /\ Of(j) # NoOrder
      BY <1>1, <1>2, <1>5
    <2>3. Fresh(again(j), {Of(i), Of(j)})
      BY <1>4, <2>1, <2>2 DEF Fresh
    <2> QED
      BY <1>1, <1>5, <2>1, <2>2, <2>3, BeginKeeps
  <1>6. ASSUME Begin(r, {Of(i)}, last)
        PROVE  IInv'
    <2>1. /\ last \in Job /\ last.pc = "commit" /\ last.order = NoOrder
          /\ last.own = Of(i) /\ last.item = {i} /\ last.written = {i}
      BY <1>3 DEF Job
    <2> HIDE DEF last
    <2>2. Of(i) \in orders
      BY <1>1, <1>2
    <2>3. Fresh(last, {Of(i)})
      BY <1>4, <2>1, <2>2 DEF Fresh
    <2> QED
      BY <1>1, <1>6, <2>1, <2>2, <2>3, BeginKeeps
  <1> HIDE DEF again, last
  <1> QED
    BY <1>5, <1>6 DEF RemoveItem, again, last, removed

LEMMA PutReadsKeeps ==
  ASSUME IInv, NEW r \in Requests, NEW o \in OrderIds, PutReads(r, o)
  PROVE  IInv'
  <1> USE Typed DEF IInv
  <1> DEFINE new == [Idle EXCEPT !.pc = "put", !.order = o, !.own = o, !.sum = total[o]]
  <1>1. /\ At(r, "idle") /\ o \in orders /\ Begin(r, {o}, new)
        /\ UNCHANGED <<orders, quantity, total>>
    BY DEF PutReads
  <1>2. /\ new \in Job /\ new.pc = "put" /\ new.order = o /\ new.own = o
        /\ new.item = {} /\ new.written = {} /\ new.sum = total[o]
    BY IdleFields DEF Job
  <1> HIDE DEF new
  <1>3. Fresh(new, {o})
    BY <1>1, <1>2 DEF Fresh
  <1> QED
    BY <1>1, <1>2, <1>3, BeginKeeps

-----------------------------------------------------------------------------
(* The recalculation, and save() of an order                               *)

LEMMA RecalculateKeeps ==
  ASSUME IInv, NEW r \in Requests, Recalculate(r)
  PROVE  IInv'
  <1> USE Typed DEF IInv
  <1> DEFINE o == job[r].order
             items == [i \in Items |-> IF i \in ItemsOf[o] THEN View(r, i) ELSE 0]
             new == [job[r] EXCEPT !.pc = "save", !.read = items, !.sum = Units(items, o)]
  <1>1. /\ job[r].pc = "recalc" /\ job' = [job EXCEPT ![r] = new]
        /\ UNCHANGED <<orders, quantity, total, off>>
    BY DEF Recalculate, At, Become, Sum
  <1>2. o \in orders /\ o \in OrderIds /\ ItemsOf[o] \subseteq Items
    BY <1>1, ItemsApart DEF Formed, FormedAt
  <1>3. items \in Quantities /\ \A i \in ItemsOf[o] : items[i] = Viewed(r)[i]
    BY <1>2, ViewTyped, OrderTotalsAssumption DEF Quantities
  <1>4. /\ Units(items, o) \in Totals /\ Units(items, o) = Units(Viewed(r), o)
    BY <1>2, <1>3, UnitsTyped, UnitsAgree
  <1> HIDE DEF items
  <1>5. /\ new \in Job /\ new.pc = "save" /\ new.order = job[r].order
        /\ new.own = job[r].own /\ new.item = job[r].item /\ new.written = job[r].written /\ new.mine = job[r].mine
        /\ new.read = items /\ new.sum = Units(items, o) /\ (new.alone <=> job[r].alone)
    <2>1. job[r] \in Job
      OBVIOUS
    <2> QED
      BY <1>3, <1>4, <2>1 DEF Job
  <1> HIDE DEF new
  <1>6. job'[r] = new
    BY <1>1
  <1>7. FormedAt(r)'
    BY <1>1, <1>2, <1>5, <1>6 DEF Formed, FormedAt, Works, At
  <1>8. /\ \A i \in Items : View(r, i)' = View(r, i)
        /\ Viewed(r)' = Viewed(r)
    BY <1>1, <1>5, <1>6 DEF View, Viewed
  <1>9. ExactAt(r)'
    <2>1. ExactAt(r)
      BY DEF Exact
    <2>2. \A i \in ItemsOf[o] : items[i] = View(r, i)
      BY <1>2, <1>3, ViewTyped
    <2> QED
      BY <1>1, <1>2, <1>4, <1>5, <1>6, <1>8, <2>1, <2>2 DEF ExactAt, At
  <1> QED
    BY <1>1, <1>5, <1>7, <1>9, InnerKeeps DEF At

LEMMA SaveReadsKeeps ==
  ASSUME IInv, NEW r \in Requests, SaveReads(r)
  PROVE  IInv'
  <1> USE Typed DEF IInv
  <1> DEFINE o == job[r].order
             had == {i \in ItemsOf[o] : job[r].read[i] > 0}
             again == {i \in had : View(r, i) = 0}
             back == {i \in had : View(r, i) \notin {0, job[r].read[i]}}
             pays == job[r].sum # ViewTotal(r)
             new == [job[r] EXCEPT !.pc = "write", !.again = again, !.back = back,
                                   !.pays = pays]
  <1>1. /\ job[r].pc = "save" /\ job' = [job EXCEPT ![r] = new]
        /\ UNCHANGED <<orders, quantity, total, off>>
    BY DEF SaveReads, At, Become
  <1>2. o \in orders /\ o \in OrderIds /\ ItemsOf[o] \subseteq Items
    BY <1>1, ItemsApart DEF Formed, FormedAt
  <1>3. again \subseteq ItemsOf[o] /\ back \subseteq ItemsOf[o]
    OBVIOUS
  <1>4. (\A i \in ItemsOf[o] : job[r].read[i] = View(r, i)) => again = {} /\ back = {}
    BY <1>2
  <1> HIDE DEF again, back, had
  <1>5. /\ new \in Job /\ new.pc = "write" /\ new.order = job[r].order
        /\ new.own = job[r].own /\ new.item = job[r].item /\ new.written = job[r].written /\ new.mine = job[r].mine
        /\ new.sum = job[r].sum /\ new.again = again /\ new.back = back
        /\ new.paid = job[r].paid /\ (new.pays <=> pays) /\ (new.alone <=> job[r].alone)
    <2>1. job[r] \in Job /\ again \in SUBSET Items /\ back \in SUBSET Items
      BY <1>2, <1>3
    <2>2. pays \in BOOLEAN
      OBVIOUS
    <2> HIDE DEF pays
    <2> QED
      BY <2>1, <2>2 DEF Job
  <1> HIDE DEF new
  <1>6. job'[r] = new
    BY <1>1
  <1>7. FormedAt(r)'
    BY <1>1, <1>2, <1>3, <1>5, <1>6 DEF Formed, FormedAt, Works, At
  <1>8. Viewed(r)' = Viewed(r) /\ ViewTotal(r)' = ViewTotal(r)
    <2>1. \A i \in Items : View(r, i)' = View(r, i)
      BY <1>1, <1>5, <1>6 DEF View
    <2>2. Viewed(r)' = Viewed(r)
      BY <2>1 DEF Viewed
    <2>3. ViewTotal(r)' = ViewTotal(r)
      BY <1>1, <1>5, <1>6 DEF ViewTotal
    <2> QED
      BY <2>2, <2>3
  <1>9. ExactAt(r)'
    <2>1. ExactAt(r)
      BY DEF Exact
    <2> QED
      BY <1>1, <1>2, <1>4, <1>5, <1>6, <1>8, <2>1 DEF ExactAt, At
  <1> QED
    BY <1>1, <1>5, <1>7, <1>9, InnerKeeps DEF At

LEMMA SaveWritesKeeps ==
  ASSUME IInv, NEW r \in Requests, SaveWrites(r)
  PROVE  IInv'
  <1> USE Typed, IdleFields DEF IInv
  <1> DEFINE o == job[r].order
             items == job[r].again \cup {i \in job[r].back : View(r, i) # 0}
             mine == [i \in Items |-> IF i \in items THEN job[r].read[i] ELSE job[r].mine[i]]
             paid == IF job[r].pays THEN {job[r].sum} ELSE job[r].paid
             pc == IF items = {} THEN "commit" ELSE "recalc"
             new == [job[r] EXCEPT !.pc = pc, !.written = job[r].written \cup items,
                                   !.mine = mine, !.paid = paid, !.read = None, !.sum = 0,
                                   !.again = {}, !.back = {}, !.pays = FALSE]
  <1>1. /\ job[r].pc = "write" /\ job' = [job EXCEPT ![r] = new]
        /\ UNCHANGED <<orders, quantity, total, off>>
    BY DEF SaveWrites, At, Become
  <1>2. o \in orders /\ o \in OrderIds
    BY <1>1 DEF Formed, FormedAt
  <1>3. items \subseteq ItemsOf[o] /\ items \subseteq Items
    BY <1>1 DEF Formed, FormedAt, At
  <1>4. mine \in Quantities /\ paid \subseteq Totals /\ pc \in {"commit", "recalc"}
    BY DEF Quantities
  <1>5. items = {} => \A i \in Items : mine[i] = job[r].mine[i]
    OBVIOUS
  <1>6. job[r].again = {} /\ job[r].back = {} => items = {}
    OBVIOUS
  <1> HIDE DEF items, mine
  <1>7. /\ new \in Job /\ new.pc = pc /\ new.order = job[r].order
        /\ new.own = job[r].own /\ new.item = job[r].item /\ new.written = job[r].written \cup items
        /\ new.mine = mine /\ new.paid = paid /\ (new.alone <=> job[r].alone)
    <2>1. job[r] \in Job /\ job[r].written \cup items \in SUBSET Items /\ 0 \in Totals
      BY <1>3 DEF Totals
    <2> HIDE DEF paid, pc
    <2> QED
      BY <1>4, <2>1 DEF Job
  <1>8. paid = (IF job[r].pays THEN {job[r].sum} ELSE job[r].paid)
        /\ pc = (IF items = {} THEN "commit" ELSE "recalc")
    OBVIOUS
  <1> HIDE DEF new, paid, pc
  <1>9. job'[r] = new
    BY <1>1
  <1>10. FormedAt(r)'
    <2>1. \A i \in items : \A p \in OrderIds : i \in ItemsOf[p] => p = o
      BY <1>2, <1>3, ItemsApart
    <2>2. FormedAt(r)
      BY DEF Formed
    <2> QED
      BY <1>1, <1>2, <1>4, <1>7, <1>9, <2>1, <2>2 DEF FormedAt, Works, At
  <1>11. ExactAt(r)'
    <2> SUFFICES ASSUME job[r].alone \/ o \notin off
                 PROVE  /\ new.written \subseteq new.item
                        /\ pc = "commit" => ViewTotal(r)' = Units(Viewed(r)', o)
      BY <1>1, <1>4, <1>7, <1>9 DEF ExactAt, At
    <2>1. /\ job[r].written \subseteq job[r].item /\ items = {}
          /\ job[r].sum = Units(Viewed(r), o) /\ (~job[r].pays => job[r].sum = ViewTotal(r))
      BY <1>1, <1>6 DEF Exact, ExactAt, At
    <2>2. \A i \in Items : View(r, i)' = View(r, i)
      BY <1>1, <1>5, <1>7, <1>9, <2>1 DEF View
    <2>3. Viewed(r)' = Viewed(r)
      BY <2>2 DEF Viewed
    <2>4. ViewTotal(r)' = job[r].sum
      <3>1. CASE job[r].pays
        <4>1. job'[r].paid = {job[r].sum}
          BY <1>7, <1>8, <1>9, <3>1
        <4>2. Only({job[r].sum}) = job[r].sum
          BY DEF Only
        <4> QED
          BY <4>1, <4>2 DEF ViewTotal
      <3>2. CASE ~job[r].pays
        BY <1>1, <1>7, <1>8, <1>9, <2>1, <3>2 DEF ViewTotal
      <3> QED
        BY <3>1, <3>2
    <2> QED
      BY <1>7, <2>1, <2>3, <2>4
  <1> QED
    BY <1>1, <1>7, <1>10, <1>11, InnerKeeps DEF At

-----------------------------------------------------------------------------
(* The ends of a request                                                   *)

LEMMA IdleExact ==
  ASSUME NEW r \in Requests, job'[r] = Idle
  PROVE  FormedAt(r)' /\ ExactAt(r)'
  BY IdleFields DEF FormedAt, ExactAt, At, Works

LEMMA RollbackKeeps ==
  ASSUME IInv, NEW r \in Requests, Rollback(r)
  PROVE  IInv'
  <1> USE Typed, IdleFields DEF IInv
  <1>1. job' = [job EXCEPT ![r] = Idle] /\ UNCHANGED <<orders, quantity, total, off>>
    BY DEF Rollback, Finish, Become
  <1>2. OthersAlike(r) /\ job'[r] = Idle /\ \A q \in Requests \ {r} : job'[q] = job[q]
    BY <1>1, OneBecomes
  <1>3. TypeOK'
    BY <1>1 DEF TypeOK
  <1>4. Formed'
    BY <1>1, <1>2, OthersFormed, IdleExact DEF Formed
  <1>5. Met'
    BY <1>1, <1>2 DEF Met, Works
  <1>6. Exact'
    BY <1>1, <1>2, OthersExact, IdleExact DEF Exact
  <1>7. Owning' /\ Stocked' /\ TotalOfItems'
    BY <1>1, <1>2 DEF Owning, Stocked, TotalOfItems, At
  <1> QED
    BY <1>3, <1>4, <1>5, <1>6, <1>7

LEMMA PutSavesKeeps ==
  ASSUME IInv, NEW r \in Requests, PutSaves(r)
  PROVE  IInv'
  <1> USE Typed, IdleFields DEF IInv
  <1> DEFINE o == job[r].order
  <1>1. /\ job[r].pc = "put" /\ job' = [job EXCEPT ![r] = Idle]
        /\ total' = [total EXCEPT ![o] = job[r].sum]
        /\ UNCHANGED <<orders, quantity, off>>
    BY DEF PutSaves, Finish, Become, At
  <1>2. OthersAlike(r) /\ job'[r] = Idle /\ \A q \in Requests \ {r} : job'[q] = job[q]
    BY <1>1, OneBecomes
  <1>3. o \in orders /\ o \in OrderIds /\ Works(r, o)
    BY <1>1 DEF Formed, FormedAt, Works
  <1>4. total' \in [OrderIds -> Totals] /\ total'[o] = job[r].sum
        /\ \A p \in OrderIds : p # o => total'[p] = total[p]
    BY <1>1, <1>3 DEF TypeOK
  <1>5. TypeOK'
    BY <1>1, <1>4 DEF TypeOK
  <1>6. Formed'
    BY <1>1, <1>2, OthersFormed, IdleExact DEF Formed
  <1>7. Met'
    BY <1>1, <1>2 DEF Met, Works
  <1>8. Exact'
    <2>1. ASSUME NEW q \in Requests \ {r}
          PROVE  ExactAt(q)'
      <3>1. ASSUME job[q].alone \/ job[q].order \notin off, job[q].order \in orders
            PROVE  total'[job[q].order] = total[job[q].order]
        <4>1. job[q].order # o
          BY <1>3, <3>1 DEF Met, Works
        <4> QED
          BY <1>4, <3>1, <4>1
      <3> QED
        BY <1>1, <1>2, <3>1, OthersExact
    <2> QED
      BY <1>2, <2>1, IdleExact DEF Exact
  <1>9. Stocked' /\ TotalOfItems'
    <2>1. o \notin off => job[r].sum = total[o]
      BY <1>1 DEF Exact, ExactAt, At
    <2>2. \A p \in orders \ off : total'[p] = total[p]
      BY <1>4, <2>1
    <2> QED
      BY <1>1, <2>2 DEF Stocked, TotalOfItems
  <1>10. Owning'
    BY <1>2 DEF Owning, At
  <1> QED
    BY <1>5, <1>6, <1>7, <1>8, <1>9, <1>10

\* What the commit of a request changes, and what it leaves alone.
LEMMA Committed ==
  ASSUME IInv, NEW r \in Requests, Commit(r)
  PROVE  /\ job[r].pc = "commit" /\ job' = [job EXCEPT ![r] = Idle]
         /\ orders' = orders /\ quantity' = Viewed(r)
         /\ \A p \in OrderIds :
              total'[p] = IF p = job[r].order THEN ViewTotal(r) ELSE total[p]
         /\ total' \in [OrderIds -> Totals]
         /\ off' = (IF job[r].alone THEN off \ {job[r].order} ELSE off)
                      \cup ({job[r].own} \ {job[r].order})
         /\ \A p \in OrderIds : ~Works(r, p) =>
              /\ \A i \in ItemsOf[p] : quantity'[i] = quantity[i]
              /\ total'[p] = total[p]
  <1> USE Typed DEF IInv
  <1>1. /\ job[r].pc = "commit" /\ job' = [job EXCEPT ![r] = Idle]
        /\ orders' = orders /\ quantity' = Viewed(r)
        /\ total' = [p \in OrderIds |-> IF p = job[r].order THEN ViewTotal(r) ELSE total[p]]
        /\ off' = (IF job[r].alone THEN off \ {job[r].order} ELSE off)
                      \cup ({job[r].own} \ {job[r].order})
    BY DEF Commit, Finish, Become, At, Viewed
  <1>2. \A p \in OrderIds :
          total'[p] = IF p = job[r].order THEN ViewTotal(r) ELSE total[p]
    BY <1>1
  <1>3. total' \in [OrderIds -> Totals]
    BY <1>1, ViewTyped
  <1>4. ASSUME NEW p \in OrderIds, ~Works(r, p), NEW i \in ItemsOf[p]
        PROVE  quantity'[i] = quantity[i]
    <2>1. i \in Items /\ i \notin job[r].written
      BY <1>4, ItemsApart DEF Formed, FormedAt
    <2> QED
      BY <1>1, <2>1 DEF Viewed, View
  <1>5. \A p \in OrderIds : ~Works(r, p) => total'[p] = total[p]
    BY <1>2 DEF Works
  <1> QED
    BY <1>1, <1>2, <1>3, <1>4, <1>5

LEMMA CommitKeeps ==
  ASSUME IInv, NEW r \in Requests, Commit(r)
  PROVE  IInv'
  <1> USE Typed, IdleFields DEF IInv
  <1> DEFINE o == job[r].order
  <1>1. /\ job[r].pc = "commit" /\ job' = [job EXCEPT ![r] = Idle] /\ orders' = orders
        /\ off' = (IF job[r].alone THEN off \ {o} ELSE off) \cup ({job[r].own} \ {o})
        /\ total' \in [OrderIds -> Totals] /\ quantity' = Viewed(r)
    BY Committed
  <1>2. OthersAlike(r) /\ job'[r] = Idle /\ \A q \in Requests \ {r} : job'[q] = job[q]
    BY <1>1, OneBecomes
  <1>3. FormedAt(r) /\ ExactAt(r)
    BY DEF Formed, Exact
  <1>4. job[r].own \in OrderIds \cup {NoOrder} /\ job[r].own # NoOrder
    BY <1>1 DEF Owning, At
  <1>5. TypeOK'
    <2>1. quantity' \in Quantities
      BY <1>1, ViewTyped
    <2>2. off' \subseteq OrderIds
      BY <1>1, <1>4 DEF TypeOK
    <2> QED
      BY <1>1, <2>1, <2>2 DEF TypeOK
  <1>6. Formed'
    BY <1>1, <1>2, OthersFormed, IdleExact DEF Formed
  <1>7. Owning'
    BY <1>2 DEF Owning, At
  <1>8. Stocked'
    <2> SUFFICES ASSUME NEW i \in Items, View(r, i) > 0
                 PROVE  Of(i) \in orders
      BY <1>1, ViewTyped DEF Stocked
    <2>1. CASE i \in job[r].written
      <3>1. Of(i) \in OrderIds /\ Works(r, Of(i))
        BY <1>3, <2>1, ItemsApart DEF FormedAt
      <3> QED
        BY <1>3, <3>1 DEF FormedAt, Works
    <2>2. CASE i \notin job[r].written
      BY <2>2 DEF Stocked, View
    <2> QED
      BY <2>1, <2>2
  <1>9. ASSUME NEW q \in Requests \ {r}, NEW p \in OrderIds, Works(q, p), p \notin off'
        PROVE  p \notin off /\ ~Works(r, p)
    <2>1. p \in off => p = o /\ job[r].alone
      BY <1>1, <1>9
    <2>2. p \notin off
      BY <1>9, <2>1 DEF Met, Works
    <2> QED
      BY <1>9, <2>2 DEF Met
  <1>10. Met'
    <2> SUFFICES ASSUME NEW q \in Requests, NEW k \in Requests, NEW p \in OrderIds, q # k,
                        Works(q, p)', Works(k, p)'
                 PROVE  p \in off' /\ ~job'[q].alone
      BY DEF Met
    <2>1. q # r /\ k # r
      BY <1>2 DEF Works
    <2>2. Works(q, p) /\ Works(k, p) /\ job'[q] = job[q]
      BY <1>2, <2>1 DEF Works
    <2>3. p \in off /\ ~job[q].alone
      BY <2>2 DEF Met
    <2> QED
      BY <1>9, <2>1, <2>2, <2>3
  <1>11. Exact'
    <2>1. ASSUME NEW q \in Requests \ {r}
          PROVE  ExactAt(q)'
      <3>1. CASE job[q].order \notin orders
        <4>1. job[q].order \notin off
          BY <3>1 DEF Formed, FormedAt, TypeOK
        <4> QED
          BY <1>2, <3>1, <4>1, OthersExact
      <3>2. CASE job[q].order \in orders
        <4>1. Works(q, job[q].order) /\ job[q].order \in OrderIds
          BY <3>2 DEF Works
        <4>2. job[q].order \notin off' => job[q].order \notin off
          BY <1>9, <4>1
        <4>3. ASSUME job[q].alone \/ job[q].order \notin off'
              PROVE  ~Works(r, job[q].order)
          BY <1>9, <4>1, <4>3 DEF Met
        <4>4. job'[q].alone => job[q].alone
          BY <1>2
        <4> QED
          BY <1>2, <4>1, <4>2, <4>3, <4>4, Committed, OthersExact
      <3> QED
        BY <3>1, <3>2
    <2> QED
      BY <1>2, <2>1, IdleExact DEF Exact
  <1>12. TotalOfItems'
    <2> SUFFICES ASSUME NEW p \in orders, p \notin off'
                 PROVE  total'[p] = Units(quantity', p)
      BY <1>1 DEF TotalOfItems
    <2>1. CASE p = o
      <3>1. job[r].alone \/ o \notin off
        BY <1>1, <2>1
      <3>2. total'[p] = ViewTotal(r)
        BY <2>1, Committed
      <3>3. ViewTotal(r) = Units(Viewed(r), o)
        BY <1>1, <1>3, <2>1, <3>1 DEF ExactAt, At
      <3> QED
        BY <1>1, <2>1, <3>2, <3>3
    <2>2. CASE p # o
      <3>1. ~Works(r, p) /\ p \notin off
        BY <1>1, <2>2 DEF Works
      <3> QED
        BY <3>1, Committed, TotalKept
    <2> QED
      BY <2>1, <2>2
  <1> QED
    BY <1>5, <1>6, <1>7, <1>8, <1>10, <1>11, <1>12

-----------------------------------------------------------------------------
(* A new order                                                             *)

LEMMA CreateKeeps ==
  ASSUME IInv, NEW r \in Requests, NEW o \in OrderIds, Create(r, o)
  PROVE  IInv'
  <1> USE Typed, IdleFields DEF IInv
  <1>1. PICK q \in Quantities :
          /\ quantity' = [i \in Items |-> IF i \in ItemsOf[o] THEN q[i] ELSE quantity[i]]
          /\ total' = [total EXCEPT ![o] = Units(q, o)]
          /\ Become(r, [Idle EXCEPT !.pc = "save", !.order = o, !.own = o, !.read = q,
                                    !.sum = Units(q, o)])
    BY DEF Create
  <1> DEFINE new == [Idle EXCEPT !.pc = "save", !.order = o, !.own = o, !.read = q,
                                 !.sum = Units(q, o)]
  <1>2. /\ At(r, "idle") /\ o \notin orders /\ orders' = orders \cup {o} /\ off' = off
        /\ job' = [job EXCEPT ![r] = new]
    BY <1>1 DEF Create, Become
  <1>3. ItemsOf[o] \subseteq Items /\ Units(q, o) \in Totals
        /\ \A i \in Items : q[i] \in 0 .. MaxQuantity
    BY ItemsApart, UnitsTyped DEF Quantities
  <1>4. /\ new \in Job /\ new.pc = "save" /\ new.order = o /\ new.own = o /\ new.item = {}
        /\ new.written = {} /\ new.read = q /\ new.sum = Units(q, o) /\ new.paid = {}
        /\ new.alone
    BY <1>3 DEF Job
  <1> HIDE DEF new
  <1>5. OthersAlike(r) /\ job'[r] = new /\ \A k \in Requests \ {r} : job'[k] = job[k]
    BY <1>2, OneBecomes
  <1>6. /\ quantity' \in Quantities /\ \A i \in ItemsOf[o] : quantity'[i] = q[i]
        /\ \A p \in OrderIds : p # o => \A i \in ItemsOf[p] : quantity'[i] = quantity[i]
    <2>1. quantity' \in Quantities
      BY <1>1, <1>3 DEF Quantities
    <2>2. \A i \in ItemsOf[o] : quantity'[i] = q[i]
      BY <1>1, <1>3
    <2>3. \A p \in OrderIds : p # o => \A i \in ItemsOf[p] : i \in Items /\ i \notin ItemsOf[o]
      BY ItemsApart
    <2> QED
      BY <1>1, <2>1, <2>2, <2>3
  <1>7. /\ total' \in [OrderIds -> Totals] /\ total'[o] = Units(q, o)
        /\ \A p \in OrderIds : p # o => total'[p] = total[p]
    BY <1>1, <1>3 DEF TypeOK
  <1>8. \A k \in Requests : ~Works(k, o)
    BY <1>2 DEF Formed, FormedAt, Works
  <1>9. TypeOK'
    BY <1>2, <1>4, <1>6, <1>7 DEF TypeOK
  <1>10. Formed'
    <2>1. \A k \in Requests \ {r} : FormedAt(k)'
      BY <1>2, <1>5, OthersFormed
    <2>2. FormedAt(r)'
      BY <1>2, <1>4, <1>5 DEF FormedAt, At
    <2> QED
      BY <2>1, <2>2 DEF Formed
  <1>11. Owning'
    BY <1>4, <1>5 DEF Owning, At
  <1>12. Stocked'
    <2> SUFFICES ASSUME NEW i \in Items, quantity'[i] > 0
                 PROVE  Of(i) \in orders'
      BY DEF Stocked
    <2>1. CASE i \in ItemsOf[o]
      <3>1. Of(i) = o
        BY <2>1, ItemsApart
      <3> QED
        BY <1>2, <3>1
    <2>2. CASE i \notin ItemsOf[o]
      <3>1. quantity'[i] = quantity[i]
        BY <1>1, <2>2
      <3> QED
        BY <1>2, <3>1 DEF Stocked
    <2> QED
      BY <2>1, <2>2
  <1>13. Met'
    <2>1. \A k \in Requests \ {r}, p \in OrderIds : ~(Works(k, p)' /\ Works(r, p)')
      BY <1>4, <1>5, <1>8 DEF Works
    <2>2. \A k \in Requests \ {r}, p \in OrderIds : Works(k, p)' => Works(k, p)
      BY <1>5 DEF Works
    <2> QED
      BY <1>2, <1>5, <2>1, <2>2 DEF Met
  <1>14. Exact'
    <2>1. ASSUME NEW k \in Requests \ {r}
          PROVE  ExactAt(k)'
      <3>1. job[k].order # o
        BY <1>8 DEF Works
      <3> QED
        BY <1>2, <1>5, <1>6, <1>7, <3>1, OthersExact
    <2>2. ExactAt(r)'
      <3>1. \A i \in ItemsOf[o] : View(r, i)' = q[i] /\ Viewed(r)'[i] = q[i]
        BY <1>3, <1>4, <1>5, <1>6 DEF View, Viewed
      <3>2. Units(q, o) = Units(Viewed(r)', o)
        BY <3>1, UnitsAgree
      <3> QED
        BY <1>4, <1>5, <3>1, <3>2 DEF ExactAt, At
    <2> QED
      BY <2>1, <2>2 DEF Exact
  <1>15. TotalOfItems'
    <2> SUFFICES ASSUME NEW p \in orders', p \notin off'
                 PROVE  total'[p] = Units(quantity', p)
      BY DEF TotalOfItems
    <2>1. CASE p = o
      BY <1>6, <1>7, <2>1, UnitsAgree
    <2>2. CASE p # o
      BY <1>2, <1>6, <1>7, <2>2, TotalKept
    <2> QED
      BY <2>1, <2>2
  <1> QED
    BY <1>9, <1>10, <1>11, <1>12, <1>13, <1>14, <1>15

-----------------------------------------------------------------------------
(* The specification                                                       *)

LEMMA InitInvariant ==
  ASSUME Init
  PROVE  IInv
  <1> USE IdleFields
  <1>1. /\ orders = {} /\ quantity = None /\ total = [o \in OrderIds |-> 0]
        /\ job = [r \in Requests |-> Idle] /\ off = {}
        /\ \A r \in Requests : job[r] = Idle
    BY DEF Init
  <1>2. TypeOK
    BY <1>1 DEF TypeOK, Totals
  <1>3. Formed /\ Owning /\ Stocked /\ Met /\ Exact /\ TotalOfItems
    BY <1>1, OrderTotalsAssumption
    DEF Formed, FormedAt, Owning, Stocked, Met, Exact, ExactAt, Works, At, TotalOfItems
  <1> QED
    BY <1>2, <1>3 DEF IInv

LEMMA StepInvariant ==
  ASSUME IInv, [Next]_vars
  PROVE  IInv'
  <1>1. ASSUME NEW r \in Requests, NEW o \in OrderIds, Create(r, o) \/ PutReads(r, o)
        PROVE  IInv'
    BY <1>1, CreateKeeps, PutReadsKeeps
  <1>2. ASSUME NEW r \in Requests, NEW i \in Items, RemoveItem(r, i)
        PROVE  IInv'
    BY <1>2, RemoveItemKeeps
  <1>3. ASSUME NEW r \in Requests, NEW i \in Items, NEW n \in 1 .. MaxQuantity,
               Change(r, i, n)
        PROVE  IInv'
    BY <1>3, ChangeKeeps
  <1>4. ASSUME NEW r \in Requests, Recalculate(r) \/ SaveReads(r) \/ SaveWrites(r)
        PROVE  IInv'
    BY <1>4, RecalculateKeeps, SaveReadsKeeps, SaveWritesKeeps
  <1>5. ASSUME NEW r \in Requests, Commit(r) \/ PutSaves(r) \/ Rollback(r)
        PROVE  IInv'
    BY <1>5, CommitKeeps, PutSavesKeeps, RollbackKeeps
  <1>6. CASE UNCHANGED vars
    <2>1. UNCHANGED <<orders, quantity, total, job, off>>
      BY <1>6 DEF vars
    <2>2. \A r \in Requests : Viewed(r)' = Viewed(r) /\ ViewTotal(r)' = ViewTotal(r)
      BY <2>1 DEF Viewed, View, ViewTotal
    <2>3. Exact'
      BY <2>1, <2>2 DEF IInv, Exact, ExactAt, View, At
    <2>4. TypeOK' /\ Formed' /\ Owning' /\ Stocked' /\ Met' /\ TotalOfItems'
      BY <2>1 DEF IInv, TypeOK, Formed, FormedAt, Owning, Stocked, Met, Works, At,
                  TotalOfItems
    <2> QED
      BY <2>3, <2>4 DEF IInv
  <1> QED
    BY <1>1, <1>2, <1>3, <1>4, <1>5, <1>6 DEF Next

(* The invariant behind the theorems: what each request has read of the    *)
(* items, and which requests have met, at every step of the item endpoints,*)
(* the subscriber and the saves of orders.                                 *)
THEOREM AlwaysIInv == Spec => []IInv
  <1>1. Init => IInv
    BY InitInvariant
  <1>2. IInv /\ [Next]_vars => IInv'
    BY StepInvariant
  <1> QED
    BY <1>1, <1>2, PTL DEF Spec

\* Orders, items, totals and requests have their types.
THEOREM TypeCorrect == Spec => []TypeOK
  <1>1. IInv => TypeOK
    BY DEF IInv
  <1> QED
    BY <1>1, AlwaysIInv, PTL

(* The total_amount of an order is the sum of its items, for any number of *)
(* requests and items, unless two requests of the order have met or one of *)
(* its items was removed (recalcOrderTotal and its callers).               *)
THEOREM TotalsAgree == Spec => []TotalOfItems
  <1>1. IInv => TotalOfItems
    BY DEF IInv
  <1> QED
    BY <1>1, AlwaysIInv, PTL

(* A request whose order nobody else works on commits a change of its own  *)
(* item only: save() of the order with its items sets nothing back.        *)
THEOREM OthersItemsStay == Spec => OthersItemsKept
  <1> DEFINE A(r) == (At(r, "commit") /\ job[r].alone /\ quantity' # quantity
                                      /\ job'[r] # job[r])
                     => \A i \in Items \ job[r].item : quantity'[i] = quantity[i]
  <1>1. ASSUME IInv, Next, NEW r \in Requests
        PROVE  A(r)
    <2> USE Typed DEF IInv
    <2> SUFFICES ASSUME At(r, "commit"), job[r].alone, quantity' # quantity,
                        job'[r] # job[r], NEW i \in Items \ job[r].item
                 PROVE  quantity'[i] = quantity[i]
      OBVIOUS
    <2>1. ASSUME NEW q \in Requests, NEW o \in OrderIds, Create(q, o)
          PROVE  FALSE
      BY <2>1 DEF Create, Become, At
    <2>2. ASSUME NEW q \in Requests, Commit(q)
          PROVE  q = r
      BY <2>2 DEF Commit, Finish, Become
    <2>3. Commit(r)
      BY <1>1, <2>1, <2>2
      DEF Next, PutReads, RemoveItem, Change, Recalculate, SaveReads, SaveWrites, PutSaves,
          Rollback
    <2>4. job[r].written \subseteq job[r].item
      BY <1>1 DEF Exact, ExactAt
    <2>5. quantity' = Viewed(r)
      BY <1>1, <2>3, Committed
    <2> QED
      BY <2>4, <2>5 DEF Viewed, View
  <1>2. IInv /\ [Next]_vars => [\A r \in Requests : A(r)]_vars
    BY <1>1
  <1> QED
    BY <1>2, AlwaysIInv, PTL DEF Spec, OthersItemsKept
=============================================================================
