---------------------------- MODULE OrdersProofs ----------------------------
(***************************************************************************)
(* Proofs about Orders, for every set of products, requests, carts and     *)
(* statuses and every bound on the orders.                                 *)
(***************************************************************************)
EXTENDS Orders, TLAPS

-----------------------------------------------------------------------------
(* What the helpers return                                                 *)

\* The line in hand is a line: a product and a quantity.
LEMMA LineInHand ==
  ASSUME NEW r \in Requests, TypeOK, job[r].lines # <<>>
  PROVE  /\ Product(r) \in Products
         /\ Quantity(r) \in Nat
         /\ Tail(job[r].lines) \in Seq(Line)
<1>1. job[r].lines \in Seq(Line)
  BY DEF TypeOK, Job
<1>2. Head(job[r].lines) \in Line /\ Tail(job[r].lines) \in Seq(Line)
  BY <1>1
<1> QED
  BY <1>2 DEF Line, Product, Quantity

\* A statement of a transaction reads a stock that is not negative.
LEMMA ViewType ==
  ASSUME NEW r \in Requests, NEW p \in Products, TypeOK
  PROVE  View(r, p) \in Nat
<1>1. job[r].written[p] \in Nat \cup {Unwritten} /\ stock[p] \in Nat
  BY DEF TypeOK, Job
<1> QED
  BY <1>1 DEF View

LEMMA IdleType == Idle \in Job
  BY OrdersAssumption DEF Idle, Job, Steps, NoOrder, Order, Nothing, Unwritten

\* The lock table stays one, whoever lets go of what it holds.
LEMMA ReleaseType ==
  ASSUME NEW r \in Requests, TypeOK
  PROVE  Release(r) \in [Products -> Requests \cup {Nobody}]
  BY DEF TypeOK, Release

\* The next line leaves a job a job.
LEMMA NextLineType ==
  ASSUME NEW r \in Requests, TypeOK, job[r].lines # <<>>,
         NEW written \in [Products -> Nat \cup {Unwritten}],
         NextLine(r, written)
  PROVE  job' \in [Requests -> Job]
<1>1. /\ Product(r) \in Products
      /\ Quantity(r) \in Nat
      /\ Tail(job[r].lines) \in Seq(Line)
  BY LineInHand
<1>2. job[r] \in Job
  BY DEF TypeOK
<1>3. [job[r].taken EXCEPT ![Product(r)] = @ + Quantity(r)] \in [Products -> Nat]
  BY <1>1, <1>2 DEF Job
<1>4. Stale(r) \in SUBSET Products
  BY <1>1, <1>2 DEF Stale, Job
<1>5. [job[r] EXCEPT !.pc = "read", !.lines = Tail(@), !.seen = 0,
                     !.written = written, !.stale = Stale(r),
                     !.taken[Product(r)] = @ + Quantity(r)] \in Job
  BY <1>1, <1>2, <1>3, <1>4 DEF Job, Steps
<1> QED
  BY <1>5 DEF NextLine, Become, TypeOK

-----------------------------------------------------------------------------
(* Types                                                                   *)

LEMMA TypeInit == Init => TypeOK
<1> SUFFICES ASSUME Init PROVE TypeOK
  OBVIOUS
<1>1. NoOrder \in Order
  BY DEF NoOrder, Order
<1> QED
  BY <1>1, IdleType, OrdersAssumption DEF Init, TypeOK, Nothing

LEMMA TypeStep == TypeOK /\ JobsFormed /\ [Next]_vars => TypeOK'
<1> SUFFICES ASSUME TypeOK, JobsFormed, [Next]_vars PROVE TypeOK'
  OBVIOUS
<1> USE OrdersAssumption
<1>1. ASSUME NEW r \in Requests, NEW cart \in Carts, Create(r, cart) PROVE TypeOK'
  <2>1. [Idle EXCEPT !.pc = "read", !.lines = cart] \in Job
    BY IdleType DEF Job, Steps
  <2> QED
    BY <1>1, <2>1 DEF Create, Become, TypeOK, overlaps
<1>2. ASSUME NEW r \in Requests, ReadProduct(r) PROVE TypeOK'
  <2>1. View(r, Product(r)) \in Nat
    BY <1>2, LineInHand, ViewType DEF ReadProduct
  <2>2. job[r] \in Job
    BY DEF TypeOK
  <2>3. [job[r] EXCEPT !.pc = "save", !.seen = View(r, Product(r))] \in Job
    BY <2>1, <2>2 DEF Job, Steps
  <2> QED
    BY <1>2, <2>3 DEF ReadProduct, Become, TypeOK, overlaps
<1>3. ASSUME NEW r \in Requests, SaveProduct(r) PROVE TypeOK'
  <2>1. /\ job[r].lines # <<>>
        /\ job[r].seen >= Quantity(r)
    BY <1>3 DEF SaveProduct, JobsFormed
  <2>2. Product(r) \in Products /\ Quantity(r) \in Nat /\ job[r] \in Job
    BY <2>1, LineInHand DEF TypeOK
  <2>3. Left(r) \in Nat
    BY <2>1, <2>2 DEF Left, Job
  <2>4. [job[r].written EXCEPT ![Product(r)] = Left(r)]
          \in [Products -> Nat \cup {Unwritten}]
    BY <2>2, <2>3 DEF Job
  <2>5. job' \in [Requests -> Job]
    BY <1>3, <2>1, <2>4, NextLineType DEF SaveProduct
  <2> QED
    BY <1>3, <2>2, <2>5 DEF SaveProduct, TypeOK, overlaps
<1>4. ASSUME NEW r \in Requests, SaveUnchanged(r) PROVE TypeOK'
  <2>1. job[r].lines # <<>>
    BY <1>4 DEF SaveUnchanged, JobsFormed
  <2>2. job[r].written \in [Products -> Nat \cup {Unwritten}]
    BY DEF TypeOK, Job
  <2>3. job' \in [Requests -> Job]
    BY <1>4, <2>1, <2>2, NextLineType DEF SaveUnchanged
  <2> QED
    BY <1>4, <2>3 DEF SaveUnchanged, TypeOK, overlaps
<1>5. ASSUME NEW r \in Requests, Commit(r) PROVE TypeOK'
  <2>1. created + 1 \in OrderIds /\ created + 1 \in 0 .. MaxOrders
    BY <1>5 DEF Commit, TypeOK, OrderIds
  <2>2. [exists |-> TRUE, status |-> StatusNew, invoice |-> FALSE] \in Order
    BY DEF Order
  <2>3. [Idle EXCEPT !.pc = "invoice", !.id = created + 1] \in Job
    BY <2>1, IdleType DEF Job, Steps
  <2>4. stock' \in [Products -> Nat]
    BY <1>5, ViewType DEF Commit
  <2>5. \A p \in Products : sold[p] + job[r].taken[p] \in Nat
    BY DEF TypeOK, Job
  <2>6. sold' \in [Products -> Nat]
    BY <1>5, <2>5 DEF Commit
  <2>7. overwritten' \subseteq Products
    BY <1>5 DEF Commit, TypeOK, Job
  <2> QED
    BY <1>5, <2>1, <2>2, <2>3, <2>4, <2>6, <2>7, ReleaseType DEF Commit, Become, TypeOK
<1>6. ASSUME NEW r \in Requests, Rollback(r) PROVE TypeOK'
  BY <1>6, IdleType, ReleaseType DEF Rollback, Finish, Become, TypeOK, overlaps
<1>7. ASSUME NEW r \in Requests, WriteInvoice(r) PROVE TypeOK'
  <2>1. job[r].id \in OrderIds
    BY <1>7 DEF WriteInvoice, JobsFormed, Posting, TypeOK, At, OrderIds
  <2>2. job[r] \in Job
    BY DEF TypeOK
  <2>3. [job[r] EXCEPT !.pc = "path"] \in Job
    BY <2>2 DEF Job, Steps
  <2> QED
    BY <1>7, <2>1, <2>3 DEF WriteInvoice, Written, Become, TypeOK, overlaps
<1>8. ASSUME NEW r \in Requests, SavePath(r) PROVE TypeOK'
  <2>1. [exists |-> TRUE, status |-> StatusNew, invoice |-> TRUE] \in Order
    BY DEF Order
  <2>2. job[r] \in Job
    BY DEF TypeOK
  <2>3. [job[r] EXCEPT !.pc = "mail"] \in Job
    BY <2>2 DEF Job, Steps
  <2> QED
    BY <1>8, <2>1, <2>3 DEF SavePath, Become, TypeOK, overlaps
<1>9. ASSUME NEW r \in Requests, SendConfirmation(r) PROVE TypeOK'
  <2>1. job[r].id \in OrderIds
    BY <1>9 DEF SendConfirmation, JobsFormed, Posting, TypeOK, At, OrderIds
  <2> QED
    BY <1>9, <2>1, IdleType DEF SendConfirmation, Finish, Become, TypeOK, overlaps
<1>10. ASSUME NEW r \in Requests, FailAfterCommit(r) PROVE TypeOK'
  BY <1>10, IdleType DEF FailAfterCommit, Finish, Become, TypeOK, overlaps
<1>11. ASSUME NEW r \in Requests, NEW o \in OrderIds, NEW status \in EditedTo,
              EditRead(r, o, status)
       PROVE  TypeOK'
  <2>1. [order[o] EXCEPT !.status = status] \in Order
    BY DEF TypeOK, Order
  <2>2. ASSUME NEW edit \in Order
        PROVE  [Idle EXCEPT !.pc = "edit", !.id = o, !.edit = edit] \in Job
    <3>1. o \in 0 .. MaxOrders
      BY DEF OrderIds
    <3>2. Idle \in Job /\ "edit" \in Steps
      BY IdleType DEF Steps
    <3> QED
      BY <3>1, <3>2 DEF Job
  <2>3. [Idle EXCEPT !.pc = "edit", !.id = o,
                     !.edit = [order[o] EXCEPT !.status = status]] \in Job
    BY <2>1, <2>2
  <2> QED
    BY <1>11, <2>3 DEF EditRead, ReadEarly, Become, TypeOK
<1>12. ASSUME NEW r \in Requests, EditSave(r) PROVE TypeOK'
  <2>1. job[r].edit \in Order
    BY DEF TypeOK, Job
  <2> QED
    BY <1>12, <2>1, IdleType DEF EditSave, Finish, Become, JobsFormed, Copying, At, TypeOK
<1>13. ASSUME NEW r \in Requests, CopyLost(r) PROVE TypeOK'
  BY <1>13, IdleType DEF CopyLost, Finish, Become, TypeOK, overlaps
<1>14. ASSUME NEW r \in Requests, NEW o \in OrderIds, Remove(r, o) PROVE TypeOK'
  <2>1. NoOrder \in Order
    BY DEF NoOrder, Order
  <2> QED
    BY <1>14, <2>1 DEF Remove, TypeOK, overlaps
<1>15. ASSUME Crash PROVE TypeOK'
  BY <1>15, IdleType DEF Crash, TypeOK, overlaps
<1>16. ASSUME NEW r \in Requests, NEW o \in OrderIds, RecalcRead(r, o) PROVE TypeOK'
  <2>1. order[o] \in Order /\ o \in 0 .. MaxOrders
    BY DEF TypeOK, OrderIds
  <2>2. Idle \in Job /\ "recalc" \in Steps
    BY IdleType DEF Steps
  <2>3. [Idle EXCEPT !.pc = "recalc", !.id = o, !.edit = order[o]] \in Job
    BY <2>1, <2>2 DEF Job
  <2> QED
    BY <1>16, <2>3 DEF RecalcRead, ReadEarly, Become, TypeOK
<1>17. ASSUME NEW r \in Requests, RecalcSave(r) PROVE TypeOK'
  <2>1. job[r].edit \in Order
    BY DEF TypeOK, Job
  <2> QED
    BY <1>17, <2>1, IdleType DEF RecalcSave, Finish, Become, TypeOK
<1>18. ASSUME UNCHANGED vars PROVE TypeOK'
  BY <1>18 DEF vars, TypeOK, overlaps
<1> QED
  BY <1>1, <1>2, <1>3, <1>4, <1>5, <1>6, <1>7, <1>8, <1>9, <1>10, <1>11, <1>12,
     <1>13, <1>14, <1>15, <1>16, <1>17, <1>18
  DEF Next, Begin, Continue

-----------------------------------------------------------------------------
(* Jobs                                                                    *)

\* A step of r leaves the jobs of the other requests alone.
LEMMA OthersStay ==
  ASSUME TypeOK, NEW r \in Requests, NEW state, Become(r, state)
  PROVE  /\ job'[r] = state
         /\ \A q \in Requests : q # r => job'[q] = job[q]
  BY DEF TypeOK, Become

\* A job that becomes idle, or takes its next line, has nothing to fulfil.
LEMMA FormedStep == TypeOK /\ JobsFormed /\ [Next]_vars => JobsFormed'
<1> SUFFICES ASSUME TypeOK, JobsFormed, [Next]_vars PROVE JobsFormed'
  OBVIOUS
<1> DEFINE Formed(state) ==
      /\ state.pc \in {"invoice", "path", "mail"} => state.id \in 1 .. created'
      /\ state.pc \in {"edit", "recalc"} => state.id \in OrderIds
      /\ state.pc = "save" => /\ state.lines # <<>>
                              /\ state.seen >= Head(state.lines).quantity
<1>1. created' \in {created, created + 1}
  BY DEF Next, Begin, Continue, vars, Create, ReadProduct, SaveProduct,
     SaveUnchanged, Commit, Rollback, WriteInvoice, SavePath, SendConfirmation,
     FailAfterCommit, EditRead, EditSave, RecalcRead,
       RecalcSave, CopyLost, Remove, Crash
<1>2. \A q \in Requests : Formed(job[q])
  BY <1>1 DEF JobsFormed, Posting, Copying, At, Quantity, TypeOK
<1>3. Formed(Idle)
  BY DEF Idle
<1>4. ASSUME NEW r \in Requests, NEW state, Become(r, state), Formed(state)
      PROVE  JobsFormed'
  <2>1. \A q \in Requests : Formed(job'[q])
    BY <1>2, <1>4, OthersStay
  <2> QED
    BY <2>1 DEF JobsFormed, Posting, Copying, At, Quantity
<1>5. ASSUME UNCHANGED job PROVE JobsFormed'
  <2>1. \A q \in Requests : Formed(job'[q])
    BY <1>2, <1>5
  <2> QED
    BY <2>1 DEF JobsFormed, Posting, Copying, At, Quantity
<1> HIDE DEF Formed
<1>6. ASSUME NEW r \in Requests, NEW cart \in Carts, Create(r, cart) PROVE JobsFormed'
  <2>1. Formed([Idle EXCEPT !.pc = "read", !.lines = cart])
    BY DEF Formed, Idle
  <2> QED
    BY <1>4, <1>6, <2>1 DEF Create
<1>7. ASSUME NEW r \in Requests, ReadProduct(r) PROVE JobsFormed'
  <2>1. /\ job[r].lines # <<>>
        /\ View(r, Product(r)) >= Quantity(r)
        /\ job[r] \in Job
    BY <1>7 DEF ReadProduct, Suffices, TypeOK
  <2>2. Formed([job[r] EXCEPT !.pc = "save", !.seen = View(r, Product(r))])
    BY <2>1 DEF Formed, Quantity, Job
  <2> QED
    BY <1>4, <1>7, <2>2 DEF ReadProduct
<1>8. ASSUME NEW r \in Requests, NEW written, NextLine(r, written) PROVE JobsFormed'
  <2>1. Formed([job[r] EXCEPT !.pc = "read", !.lines = Tail(@), !.seen = 0,
                              !.written = written, !.stale = Stale(r),
                              !.taken[Product(r)] = @ + Quantity(r)])
    BY DEF Formed, TypeOK, Job
  <2> QED
    BY <1>4, <1>8, <2>1 DEF NextLine
<1>9. ASSUME NEW r \in Requests, Commit(r) PROVE JobsFormed'
  <2>1. Formed([Idle EXCEPT !.pc = "invoice", !.id = created + 1])
    BY <1>9 DEF Formed, Idle, Commit, TypeOK
  <2> QED
    BY <1>4, <1>9, <2>1 DEF Commit
<1>10. ASSUME NEW r \in Requests, Finish(r) PROVE JobsFormed'
  BY <1>3, <1>4, <1>10 DEF Finish
<1>11. ASSUME NEW r \in Requests, WriteInvoice(r) PROVE JobsFormed'
  <2>1. Formed([job[r] EXCEPT !.pc = "path"])
    BY <1>2, <1>11 DEF Formed, WriteInvoice, At, TypeOK, Job
  <2> QED
    BY <1>4, <1>11, <2>1 DEF WriteInvoice
<1>12. ASSUME NEW r \in Requests, SavePath(r) PROVE JobsFormed'
  <2>1. Formed([job[r] EXCEPT !.pc = "mail"])
    BY <1>2, <1>12 DEF Formed, SavePath, At, TypeOK, Job
  <2> QED
    BY <1>4, <1>12, <2>1 DEF SavePath
<1>13. ASSUME NEW r \in Requests, NEW o \in OrderIds, NEW status \in EditedTo,
              EditRead(r, o, status)
       PROVE  JobsFormed'
  <2>1. Formed([Idle EXCEPT !.pc = "edit", !.id = o,
                            !.edit = [order[o] EXCEPT !.status = status]])
    BY <1>13 DEF Formed, Idle, EditRead
  <2> QED
    BY <1>4, <1>13, <2>1 DEF EditRead
<1>14. ASSUME NEW r \in Requests, NEW o \in OrderIds, RecalcRead(r, o)
       PROVE  JobsFormed'
  <2>1. Formed([Idle EXCEPT !.pc = "recalc", !.id = o, !.edit = order[o]])
    BY DEF Formed, Idle
  <2> QED
    BY <1>4, <1>14, <2>1 DEF RecalcRead
<1>15. ASSUME Crash PROVE JobsFormed'
  <2>1. \A q \in Requests : Formed(job'[q])
    BY <1>3, <1>15 DEF Crash
  <2> QED
    BY <2>1 DEF JobsFormed, Posting, Copying, At, Quantity, Formed
<1> QED
  BY <1>5, <1>6, <1>7, <1>8, <1>9, <1>10, <1>11, <1>12, <1>13, <1>14, <1>15
  DEF Next, Begin, Continue, vars, SaveProduct, SaveUnchanged, Rollback,
      SendConfirmation, FailAfterCommit, EditSave, RecalcSave, CopyLost, Remove

-----------------------------------------------------------------------------
(* Units                                                                   *)

\* What r is bound to return to the stock of p: its own write, or nothing.
LEMMA ViewAccounted ==
  ASSUME TypeOK, UnitsAccounted, NEW r \in Requests, NEW p \in Products
  PROVE  View(r, p) + job[r].taken[p] + sold[p] >= InitialStock[p]
<1>1. /\ job[r].taken[p] \in Nat
      /\ job[r].written[p] \in Nat \cup {Unwritten}
      /\ stock[p] \in Nat /\ sold[p] \in Nat /\ InitialStock[p] \in Nat
  BY OrdersAssumption DEF TypeOK, Job
<1>2. stock[p] + sold[p] >= InitialStock[p]
  BY DEF UnitsAccounted
<1>3. job[r].written[p] # Unwritten =>
        job[r].written[p] + job[r].taken[p] + sold[p] >= InitialStock[p]
  BY DEF UnitsAccounted
<1> QED
  BY <1>1, <1>2, <1>3 DEF View

LEMMA AccountedStep ==
  TypeOK /\ JobsFormed /\ UnitsAccounted /\ [Next]_vars => UnitsAccounted'
<1> SUFFICES ASSUME TypeOK, JobsFormed, UnitsAccounted, [Next]_vars
             PROVE  UnitsAccounted'
  OBVIOUS
<1> USE OrdersAssumption
<1> DEFINE Accounted(state) ==
      /\ \A p \in Products : state.written[p] # Unwritten =>
           state.written[p] + state.taken[p] + sold'[p] >= InitialStock[p]
      /\ state.pc = "save" =>
           LET p == Head(state.lines).product
           IN  state.seen + state.taken[p] + sold'[p] >= InitialStock[p]
<1>0. TypeOK'
  BY TypeStep
<1>1. \A p \in Products : sold'[p] >= sold[p]
  <2>1. /\ \A r \in Requests, p \in Products : job[r].taken[p] \in Nat
        /\ \A p \in Products : sold[p] \in Nat
    BY DEF TypeOK, Job
  <2>2. ASSUME NEW r \in Requests, Commit(r) PROVE \A p \in Products : sold'[p] >= sold[p]
    BY <2>1, <2>2 DEF Commit
  <2>3. sold' = sold => \A p \in Products : sold'[p] >= sold[p]
    BY <2>1
  <2> QED
    BY <2>2, <2>3 DEF Next, Begin, Continue, vars, Create, ReadProduct,
       SaveProduct, SaveUnchanged, Rollback, WriteInvoice, SavePath,
       SendConfirmation, FailAfterCommit, EditRead, EditSave, RecalcRead,
       RecalcSave, CopyLost, Remove,
       Crash
<1>2. ASSUME NEW q \in Requests PROVE Accounted(job[q])
  <2>1. ASSUME NEW p \in Products, job[q].written[p] # Unwritten
        PROVE  job[q].written[p] + job[q].taken[p] + sold'[p] >= InitialStock[p]
    <3>1. job[q].written[p] + job[q].taken[p] + sold[p] >= InitialStock[p]
      BY <2>1 DEF UnitsAccounted
    <3>2. /\ job[q].written[p] \in Nat /\ job[q].taken[p] \in Nat
          /\ sold[p] \in Nat /\ sold'[p] \in Nat /\ InitialStock[p] \in Nat
      BY <1>0, <2>1 DEF TypeOK, Job
    <3> QED
      BY <1>1, <3>1, <3>2
  <2>2. ASSUME At(q, "save")
        PROVE  job[q].seen + job[q].taken[Product(q)] + sold'[Product(q)]
                 >= InitialStock[Product(q)]
    <3>1. job[q].seen + job[q].taken[Product(q)] + sold[Product(q)]
            >= InitialStock[Product(q)]
      BY <2>2 DEF UnitsAccounted
    <3>2. Product(q) \in Products
      BY <2>2, LineInHand DEF JobsFormed
    <3>3. /\ job[q].seen \in Nat /\ job[q].taken[Product(q)] \in Nat
          /\ sold[Product(q)] \in Nat /\ sold'[Product(q)] \in Nat
          /\ InitialStock[Product(q)] \in Nat
      BY <1>0, <3>2 DEF TypeOK, Job
    <3> QED
      BY <1>1, <3>1, <3>2, <3>3
  <2> QED
    BY <2>1, <2>2 DEF At, Product
<1>3. Accounted(Idle)
  BY DEF Idle
<1>4. ASSUME \A p \in Products : stock'[p] + sold'[p] >= InitialStock[p],
             \A q \in Requests : Accounted(job'[q])
      PROVE  UnitsAccounted'
  BY <1>4 DEF UnitsAccounted, At, Product
<1> HIDE DEF Accounted
<1>5. ASSUME stock' = stock
      PROVE  \A p \in Products : stock'[p] + sold'[p] >= InitialStock[p]
  <2>1. ASSUME NEW p \in Products PROVE stock'[p] + sold'[p] >= InitialStock[p]
    <3>1. /\ stock[p] \in Nat /\ sold[p] \in Nat /\ sold'[p] \in Nat
          /\ InitialStock[p] \in Nat
      BY <1>0 DEF TypeOK
    <3> QED
      BY <1>1, <1>5, <3>1 DEF UnitsAccounted
  <2> QED
    BY <2>1
<1>6. ASSUME NEW r \in Requests, NEW state, Become(r, state), Accounted(state),
             stock' = stock
      PROVE  UnitsAccounted'
  <2>1. \A q \in Requests : Accounted(job'[q])
    BY <1>2, <1>6, OthersStay
  <2> QED
    BY <1>4, <1>5, <1>6, <2>1
<1>7. ASSUME UNCHANGED <<job, stock>> PROVE UnitsAccounted'
  BY <1>2, <1>4, <1>5, <1>7
<1>8. ASSUME NEW r \in Requests, NEW cart \in Carts, Create(r, cart) PROVE UnitsAccounted'
  <2>1. Accounted([Idle EXCEPT !.pc = "read", !.lines = cart])
    BY DEF Accounted, Idle
  <2> QED
    BY <1>6, <1>8, <2>1 DEF Create
<1>9. ASSUME NEW r \in Requests, ReadProduct(r) PROVE UnitsAccounted'
  <2> DEFINE state == [job[r] EXCEPT !.pc = "save", !.seen = View(r, Product(r))]
  <2>1. Product(r) \in Products
    BY <1>9, LineInHand DEF ReadProduct
  <2>2. View(r, Product(r)) + job[r].taken[Product(r)] + sold[Product(r)]
          >= InitialStock[Product(r)]
    BY <2>1, ViewAccounted
  <2>3. /\ state.written = job[r].written /\ state.taken = job[r].taken
        /\ state.lines = job[r].lines /\ state.seen = View(r, Product(r))
    BY DEF TypeOK, Job
  <2>4. sold' = sold
    BY <1>9 DEF ReadProduct
  <2>5. Accounted(state)
    BY <1>2, <2>2, <2>3, <2>4 DEF Accounted, Product
  <2> QED
    BY <1>6, <1>9, <2>5 DEF ReadProduct
<1>10. ASSUME NEW r \in Requests, At(r, "save"), UNCHANGED <<stock, sold>>,
              NEW written \in [Products -> Nat \cup {Unwritten}],
              NextLine(r, written),
              \A p \in Products : written[p] # Unwritten /\ p # Product(r) =>
                written[p] = job[r].written[p],
              written[Product(r)] # Unwritten =>
                \/ written[Product(r)] = job[r].written[Product(r)]
                \/ written[Product(r)] = Left(r)
       PROVE  UnitsAccounted'
  <2> DEFINE state == [job[r] EXCEPT !.pc = "read", !.lines = Tail(@), !.seen = 0,
                         !.written = written, !.stale = Stale(r),
                         !.taken[Product(r)] = @ + Quantity(r)]
  <2>1. Product(r) \in Products /\ Quantity(r) \in Nat
    BY <1>10, LineInHand DEF JobsFormed
  <2>2. /\ state.written = written /\ state.pc = "read"
        /\ state.taken = [job[r].taken EXCEPT ![Product(r)] = @ + Quantity(r)]
    BY DEF TypeOK, Job
  <2>3. job[r].seen \in Nat
    BY DEF TypeOK, Job
  <2>4. ASSUME NEW p \in Products, written[p] # Unwritten
        PROVE  written[p] + state.taken[p] + sold[p] >= InitialStock[p]
    <3>1. /\ written[p] \in Nat /\ job[r].taken[p] \in Nat /\ sold[p] \in Nat
          /\ InitialStock[p] \in Nat
      BY <1>10, <2>4 DEF TypeOK, Job
    <3>2. CASE p # Product(r)
      <4>1. state.taken[p] = job[r].taken[p]
        BY <2>2, <3>2 DEF TypeOK, Job
      <4>2. written[p] = job[r].written[p]
        BY <1>10, <2>4, <3>2
      <4> QED
        BY <2>4, <4>1, <4>2 DEF UnitsAccounted
    <3>3. CASE p = Product(r)
      <4>1. state.taken[p] = job[r].taken[p] + Quantity(r)
        BY <2>2, <3>3 DEF TypeOK, Job
      <4>2. CASE written[p] = job[r].written[p]
        <5>1. written[p] + job[r].taken[p] + sold[p] >= InitialStock[p]
          BY <2>4, <4>2 DEF UnitsAccounted
        <5> QED
          BY <2>1, <3>1, <4>1, <5>1
      <4>3. CASE written[p] = Left(r)
        <5>1. job[r].seen + job[r].taken[p] + sold[p] >= InitialStock[p]
          BY <1>10, <3>3 DEF UnitsAccounted
        <5> QED
          BY <2>1, <2>3, <3>1, <4>1, <4>3, <5>1 DEF Left
      <4> QED
        BY <1>10, <2>4, <3>3, <4>2, <4>3
    <3> QED
      BY <3>2, <3>3
  <2>5. Accounted(state)
    BY <1>10, <2>2, <2>4 DEF Accounted
  <2> QED
    BY <1>6, <1>10, <2>5 DEF NextLine
<1>11. ASSUME NEW r \in Requests, SaveProduct(r) PROVE UnitsAccounted'
  <2>1. job[r].lines # <<>> /\ job[r].seen >= Quantity(r)
    BY <1>11 DEF SaveProduct, JobsFormed
  <2>2. Product(r) \in Products /\ Quantity(r) \in Nat /\ job[r] \in Job
    BY <2>1, LineInHand DEF TypeOK
  <2>3. Left(r) \in Nat
    BY <2>1, <2>2 DEF Left, Job
  <2>4. [job[r].written EXCEPT ![Product(r)] = Left(r)]
          \in [Products -> Nat \cup {Unwritten}]
    BY <2>2, <2>3 DEF Job
  <2> QED
    BY <1>10, <1>11, <2>2, <2>4 DEF SaveProduct, Job
<1>12. ASSUME NEW r \in Requests, SaveUnchanged(r) PROVE UnitsAccounted'
  <2>1. job[r].written \in [Products -> Nat \cup {Unwritten}]
    BY DEF TypeOK, Job
  <2> QED
    BY <1>10, <1>12, <2>1 DEF SaveUnchanged
<1>13. ASSUME NEW r \in Requests, Commit(r) PROVE UnitsAccounted'
  <2>1. Accounted([Idle EXCEPT !.pc = "invoice", !.id = created + 1])
    BY DEF Accounted, Idle
  <2>2. \A q \in Requests : Accounted(job'[q])
    BY <1>2, <1>13, <2>1, OthersStay DEF Commit
  <2>3. ASSUME NEW p \in Products PROVE stock'[p] + sold'[p] >= InitialStock[p]
    <3>1. stock'[p] = View(r, p) /\ sold'[p] = sold[p] + job[r].taken[p]
      BY <1>13 DEF Commit
    <3>2. View(r, p) + job[r].taken[p] + sold[p] >= InitialStock[p]
      BY ViewAccounted
    <3>3. View(r, p) \in Nat
      BY ViewType
    <3>4. job[r].taken[p] \in Nat /\ sold[p] \in Nat
      BY DEF TypeOK, Job
    <3> QED
      BY <3>1, <3>2, <3>3, <3>4
  <2> QED
    BY <1>4, <2>2, <2>3
<1>14. ASSUME NEW r \in Requests, Finish(r), stock' = stock PROVE UnitsAccounted'
  BY <1>3, <1>6, <1>14 DEF Finish
<1>15. ASSUME NEW r \in Requests, NEW step \in {"path", "mail"},
              Become(r, [job[r] EXCEPT !.pc = step]), stock' = stock
       PROVE  UnitsAccounted'
  <2>1. Accounted([job[r] EXCEPT !.pc = step])
    BY <1>2, <1>15 DEF Accounted, TypeOK, Job
  <2> QED
    BY <1>6, <1>15, <2>1
<1>16. ASSUME NEW r \in Requests, NEW o \in OrderIds, NEW status \in EditedTo,
              EditRead(r, o, status)
       PROVE  UnitsAccounted'
  <2>1. Accounted([Idle EXCEPT !.pc = "edit", !.id = o,
                               !.edit = [order[o] EXCEPT !.status = status]])
    BY DEF Accounted, Idle
  <2> QED
    BY <1>6, <1>16, <2>1 DEF EditRead
<1>17. ASSUME NEW r \in Requests, NEW o \in OrderIds, RecalcRead(r, o)
       PROVE  UnitsAccounted'
  <2>1. Accounted([Idle EXCEPT !.pc = "recalc", !.id = o, !.edit = order[o]])
    BY DEF Accounted, Idle
  <2> QED
    BY <1>6, <1>17, <2>1 DEF RecalcRead
<1>18. ASSUME Crash PROVE UnitsAccounted'
  <2>1. \A q \in Requests : Accounted(job'[q])
    BY <1>3, <1>18 DEF Crash
  <2> QED
    BY <1>4, <1>5, <1>18, <2>1 DEF Crash
<1> QED
  BY <1>7, <1>8, <1>9, <1>11, <1>12, <1>13, <1>14, <1>15, <1>16, <1>17, <1>18
  DEF Next, Begin, Continue, vars, Rollback, WriteInvoice, SavePath,
      SendConfirmation, FailAfterCommit, EditSave, RecalcSave, CopyLost, Remove

-----------------------------------------------------------------------------
(* Units, exactly                                                          *)

\* What a request is to the units: what it has written, taken and read old.
LEMMA WritesStep ==
  TypeOK /\ JobsFormed /\ WritesAccounted /\ [Next]_vars => WritesAccounted'
<1> SUFFICES ASSUME TypeOK, JobsFormed, WritesAccounted, [Next]_vars
             PROVE  WritesAccounted'
  OBVIOUS
<1> USE OrdersAssumption
<1> DEFINE Seen(state, p) == IF state.written[p] = Unwritten
                             THEN stock'[p] ELSE state.written[p]
           Exact(r, state) ==
             /\ \A p \in Products : state.written[p] # Unwritten => productLock'[p] = r
             /\ \A p \in Products \ state.stale :
                  Seen(state, p) + state.taken[p] = stock'[p]
<1>0. TypeOK'
  BY TypeStep
<1>1. ASSUME \A q \in Requests : Exact(q, job'[q]) PROVE WritesAccounted'
  BY <1>1 DEF WritesAccounted, View
<1>2. ASSUME NEW q \in Requests, UNCHANGED stock,
             \A p \in Products : productLock[p] = q => productLock'[p] = q
      PROVE  Exact(q, job[q])
  BY <1>2 DEF WritesAccounted, View
<1>3. \A q \in Requests : \A p \in Products :
        /\ job[q].written[p] \in Nat \cup {Unwritten} /\ job[q].taken[p] \in Nat
        /\ stock[p] \in Nat /\ stock'[p] \in Nat
  BY <1>0 DEF TypeOK, Job
<1>4. ASSUME NEW q, NEW state, state.written = Idle.written, state.taken = Idle.taken
      PROVE  Exact(q, state)
  <2>1. ASSUME NEW p \in Products PROVE stock'[p] + 0 = stock'[p]
    BY <1>0 DEF TypeOK
  <2> QED
    BY <1>4, <2>1 DEF Idle, Nothing
<1> HIDE DEF Exact
<1>5. ASSUME NEW r \in Requests, NEW state, Become(r, state), Exact(r, state),
             UNCHANGED stock,
             \A q \in Requests \ {r} : \A p \in Products :
               productLock[p] = q => productLock'[p] = q
      PROVE  WritesAccounted'
  <2>1. \A q \in Requests : Exact(q, job'[q])
    BY <1>2, <1>5, OthersStay
  <2> QED
    BY <1>1, <2>1
<1>6. ASSUME NEW r \in Requests, NEW state, Become(r, state), UNCHANGED <<stock, productLock>>,
             state.written = job[r].written, state.taken = job[r].taken,
             state.stale = job[r].stale
      PROVE  WritesAccounted'
  <2>1. Exact(r, state)
    BY <1>2, <1>6 DEF Exact
  <2> QED
    BY <1>5, <1>6, <2>1
<1>7. ASSUME NEW r \in Requests, NEW state, Become(r, state), UNCHANGED stock,
             state.written = Idle.written, state.taken = Idle.taken,
             productLock' \in {productLock, Release(r)}
      PROVE  WritesAccounted'
  <2>1. \A q \in Requests \ {r} : \A p \in Products :
          productLock[p] = q => productLock'[p] = q
    BY <1>7 DEF Release, TypeOK
  <2> QED
    BY <1>4, <1>5, <1>7, <2>1
<1>8. ASSUME NEW r \in Requests, At(r, "save"), UNCHANGED stock,
             NEW written \in [Products -> Nat \cup {Unwritten}],
             NextLine(r, written),
             \A p \in Products : p # Product(r) => written[p] = job[r].written[p],
             \/ /\ written[Product(r)] = Left(r)
                /\ productLock' = [productLock EXCEPT ![Product(r)] = r]
                /\ productLock[Product(r)] \in {Nobody, r}
             \/ /\ written[Product(r)] = job[r].written[Product(r)]
                /\ View(r, Product(r)) = Left(r)
                /\ UNCHANGED productLock
      PROVE  WritesAccounted'
  <2> DEFINE state == [job[r] EXCEPT !.pc = "read", !.lines = Tail(@), !.seen = 0,
                         !.written = written, !.stale = Stale(r),
                         !.taken[Product(r)] = @ + Quantity(r)]
  <2>1. /\ Product(r) \in Products /\ Quantity(r) \in Nat /\ job[r] \in Job
        /\ job[r].seen \in Nat /\ job[r].seen >= Quantity(r)
    BY <1>8, LineInHand DEF JobsFormed, TypeOK, Job
  <2>2. /\ state.written = written /\ state.stale = Stale(r)
        /\ state.taken = [job[r].taken EXCEPT ![Product(r)] = @ + Quantity(r)]
    BY <2>1 DEF Job
  <2>3. \A p \in Products : written[p] # Unwritten => productLock'[p] = r
    BY <1>8, <2>1 DEF WritesAccounted, TypeOK
  <2>4. ASSUME NEW p \in Products, p \notin Stale(r)
        PROVE  Seen(state, p) + state.taken[p] = stock'[p]
    <3>1. View(r, p) + job[r].taken[p] = stock[p]
      BY <2>4 DEF WritesAccounted, Stale
    <3>2. CASE p # Product(r)
      <4>1. state.taken[p] = job[r].taken[p] /\ Seen(state, p) = View(r, p)
        BY <1>8, <2>1, <2>2, <3>2 DEF View, Job
      <4> QED
        BY <1>8, <3>1, <4>1
    <3>3. CASE p = Product(r)
      <4>1. View(r, p) = job[r].seen
        BY <2>4, <3>3 DEF Stale
      <4>2. state.taken[p] = job[r].taken[p] + Quantity(r)
        BY <2>1, <2>2, <3>3 DEF Job
      <4>3. Seen(state, p) = Left(r)
        <5>1. CASE written[p] = Left(r)
          <6>1. Left(r) # Unwritten
            BY <2>1 DEF Left, Unwritten
          <6> QED
            BY <2>2, <5>1, <6>1
        <5>2. CASE written[p] = job[r].written[p] /\ View(r, p) = Left(r)
          BY <1>8, <2>2, <5>2 DEF View
        <5> QED
          BY <1>8, <3>3, <5>1, <5>2
      <4>4. job[r].taken[p] \in Nat /\ stock[p] \in Nat
        BY <1>3
      <4>5. job[r].seen - Quantity(r) + (job[r].taken[p] + Quantity(r)) = stock[p]
        BY <2>1, <3>1, <4>1, <4>4
      <4> QED
        BY <1>8, <4>2, <4>3, <4>5 DEF Left
    <3> QED
      BY <3>2, <3>3
  <2>5. Exact(r, state)
    BY <2>2, <2>3, <2>4 DEF Exact
  <2>6. \A q \in Requests \ {r} : \A p \in Products :
          productLock[p] = q => productLock'[p] = q
    BY <1>8, <2>1, OrdersAssumption DEF TypeOK
  <2> QED
    BY <1>5, <1>8, <2>5, <2>6 DEF NextLine
<1>9. ASSUME NEW r \in Requests, NEW cart \in Carts, Create(r, cart) PROVE WritesAccounted'
  <2> DEFINE state == [Idle EXCEPT !.pc = "read", !.lines = cart]
  <2>1. state.written = Idle.written /\ state.taken = Idle.taken
    BY DEF Idle
  <2> QED
    BY <1>7, <1>9, <2>1 DEF Create
<1>10. ASSUME NEW r \in Requests, ReadProduct(r) PROVE WritesAccounted'
  <2> DEFINE state == [job[r] EXCEPT !.pc = "save", !.seen = View(r, Product(r))]
  <2>1. /\ state.written = job[r].written /\ state.taken = job[r].taken
        /\ state.stale = job[r].stale
    BY DEF TypeOK, Job
  <2> QED
    BY <1>6, <1>10, <2>1 DEF ReadProduct
<1>11. ASSUME NEW r \in Requests, SaveProduct(r) PROVE WritesAccounted'
  <2>1. job[r].lines # <<>> /\ job[r].seen >= Quantity(r)
    BY <1>11 DEF SaveProduct, JobsFormed
  <2>2. Product(r) \in Products /\ Quantity(r) \in Nat /\ job[r] \in Job
    BY <2>1, LineInHand DEF TypeOK
  <2>3. Left(r) \in Nat
    BY <2>1, <2>2 DEF Left, Job
  <2>4. [job[r].written EXCEPT ![Product(r)] = Left(r)]
          \in [Products -> Nat \cup {Unwritten}]
    BY <2>2, <2>3 DEF Job
  <2> QED
    BY <1>8, <1>11, <2>2, <2>4 DEF SaveProduct, Job
<1>12. ASSUME NEW r \in Requests, SaveUnchanged(r) PROVE WritesAccounted'
  <2>1. job[r].written \in [Products -> Nat \cup {Unwritten}]
    BY DEF TypeOK, Job
  <2> QED
    BY <1>8, <1>12, <2>1 DEF SaveUnchanged
<1>13. ASSUME NEW r \in Requests, Commit(r) PROVE WritesAccounted'
  <2> DEFINE state == [Idle EXCEPT !.pc = "invoice", !.id = created + 1]
  <2>1. state.written = Idle.written /\ state.taken = Idle.taken
    BY DEF Idle
  <2>2. ASSUME NEW q \in Requests, q # r PROVE Exact(q, job[q])
    <3>1. ASSUME NEW p \in Products, job[q].written[p] # Unwritten
          PROVE  productLock'[p] = q /\ stock'[p] = stock[p]
      <4>1. productLock[p] = q /\ job[r].written[p] = Unwritten
        BY <2>2, <3>1 DEF WritesAccounted
      <4> QED
        BY <1>13, <2>2, <4>1 DEF Commit, Release, View
    <3>2. ASSUME NEW p \in Products, p \notin job[q].stale
          PROVE  Seen(job[q], p) + job[q].taken[p] = stock'[p]
      <4>1. View(q, p) + job[q].taken[p] = stock[p]
        BY <3>2 DEF WritesAccounted
      <4>2. CASE job[q].written[p] # Unwritten
        BY <3>1, <4>1, <4>2 DEF View
      <4>3. CASE job[q].written[p] = Unwritten
        <5>1. job[q].taken[p] = 0
          BY <1>3, <4>1, <4>3 DEF View
        <5> QED
          BY <1>3, <4>3, <5>1
      <4> QED
        BY <4>2, <4>3
    <3> QED
      BY <3>1, <3>2 DEF Exact
  <2>3. Exact(r, state)
    BY <1>4, <2>1
  <2>4. job'[r] = state /\ \A q \in Requests : q # r => job'[q] = job[q]
    BY <1>13, OthersStay DEF Commit
  <2> HIDE DEF state
  <2>5. \A q \in Requests : Exact(q, job'[q])
    BY <2>2, <2>3, <2>4
  <2> QED
    BY <1>1, <2>5
<1>14. ASSUME NEW r \in Requests, Finish(r), UNCHANGED stock,
              productLock' \in {productLock, Release(r)}
       PROVE  WritesAccounted'
  BY <1>7, <1>14 DEF Finish
<1>15. ASSUME NEW r \in Requests, NEW step \in {"path", "mail"},
              Become(r, [job[r] EXCEPT !.pc = step]), UNCHANGED <<stock, productLock>>
       PROVE  WritesAccounted'
  <2> DEFINE state == [job[r] EXCEPT !.pc = step]
  <2>1. /\ state.written = job[r].written /\ state.taken = job[r].taken
        /\ state.stale = job[r].stale
    BY DEF TypeOK, Job
  <2> QED
    BY <1>6, <1>15, <2>1
<1>16. ASSUME NEW r \in Requests, NEW o \in OrderIds, NEW status \in EditedTo,
              EditRead(r, o, status)
       PROVE  WritesAccounted'
  <2> DEFINE state == [Idle EXCEPT !.pc = "edit", !.id = o,
                                   !.edit = [order[o] EXCEPT !.status = status]]
  <2>1. state.written = Idle.written /\ state.taken = Idle.taken
    BY DEF Idle
  <2> QED
    BY <1>7, <1>16, <2>1 DEF EditRead
<1>17. ASSUME NEW r \in Requests, NEW o \in OrderIds, RecalcRead(r, o)
       PROVE  WritesAccounted'
  <2> DEFINE state == [Idle EXCEPT !.pc = "recalc", !.id = o, !.edit = order[o]]
  <2>1. state.written = Idle.written /\ state.taken = Idle.taken
    BY DEF Idle
  <2> QED
    BY <1>7, <1>17, <2>1 DEF RecalcRead
<1>18. ASSUME Crash PROVE WritesAccounted'
  <2>1. \A q \in Requests : Exact(q, job'[q])
    BY <1>4, <1>18 DEF Crash
  <2> QED
    BY <1>1, <2>1
<1>19. ASSUME UNCHANGED <<job, stock, productLock>> PROVE WritesAccounted'
  <2>1. \A q \in Requests : Exact(q, job'[q])
    BY <1>2, <1>19
  <2> QED
    BY <1>1, <2>1
<1> QED
  BY <1>9, <1>10, <1>11, <1>12, <1>13, <1>14, <1>15, <1>16, <1>17, <1>18, <1>19
  DEF Next, Begin, Continue, vars, Rollback, WriteInvoice, SavePath,
      SendConfirmation, FailAfterCommit, EditSave, RecalcSave, CopyLost, Remove

LEMMA SoldStep ==
  TypeOK /\ WritesAccounted /\ SoldFromStock /\ [Next]_vars => SoldFromStock'
<1> SUFFICES ASSUME TypeOK, WritesAccounted, SoldFromStock, [Next]_vars
             PROVE  SoldFromStock'
  OBVIOUS
<1>1. ASSUME NEW r \in Requests, Commit(r) PROVE SoldFromStock'
  <2>1. ASSUME NEW p \in Products, p \notin overwritten'
        PROVE  stock'[p] + sold'[p] = InitialStock[p]
    <3>1. /\ stock'[p] = View(r, p) /\ sold'[p] = sold[p] + job[r].taken[p]
          /\ p \notin overwritten /\ p \notin job[r].stale
      BY <1>1, <2>1 DEF Commit
    <3>2. /\ View(r, p) + job[r].taken[p] = stock[p]
          /\ stock[p] + sold[p] = InitialStock[p]
      BY <3>1 DEF WritesAccounted, SoldFromStock
    <3>3. /\ stock[p] \in Nat /\ sold[p] \in Nat /\ job[r].taken[p] \in Nat
          /\ View(r, p) \in Nat
      BY ViewType DEF TypeOK, Job
    <3> QED
      BY <3>1, <3>2, <3>3
  <2> QED
    BY <2>1 DEF SoldFromStock
<1>2. ASSUME UNCHANGED <<stock, sold, overwritten>> PROVE SoldFromStock'
  BY <1>2 DEF SoldFromStock
<1> QED
  BY <1>1, <1>2 DEF Next, Begin, Continue, vars, overlaps, Create, ReadProduct,
     SaveProduct, SaveUnchanged, Rollback, WriteInvoice, SavePath,
     SendConfirmation, FailAfterCommit, EditRead, EditSave, RecalcRead,
       RecalcSave, CopyLost, Remove, Crash

-----------------------------------------------------------------------------
(* Invoices                                                                *)

LEMMA InvoicesStep ==
  TypeOK /\ JobsFormed /\ InvoicesFollowed /\ [Next]_vars => InvoicesFollowed'
<1> SUFFICES ASSUME TypeOK, JobsFormed, InvoicesFollowed, [Next]_vars
             PROVE  InvoicesFollowed'
  OBVIOUS
<1> DEFINE Followed(state) ==
      /\ state.pc = "path" => state.id \in disk'
      /\ state.pc \in {"edit", "recalc"} /\ state.edit.invoice => state.id \in disk'
<1>1. disk \subseteq disk'
  BY DEF Next, Begin, Continue, vars, Create, ReadProduct, SaveProduct,
     SaveUnchanged, Commit, Rollback, WriteInvoice, Written, SavePath,
     SendConfirmation, FailAfterCommit, EditRead, EditSave, RecalcRead,
       RecalcSave, CopyLost, Remove, Crash
<1>2. \A q \in Requests : Followed(job[q])
  BY <1>1 DEF InvoicesFollowed, Copying, At
<1>3. Followed(Idle)
  BY DEF Idle
<1>4. ASSUME \A o \in OrderIds : order'[o].invoice => o \in disk',
             \A q \in Requests : Followed(job'[q])
      PROVE  InvoicesFollowed'
  BY <1>4 DEF InvoicesFollowed, Copying, At
<1> HIDE DEF Followed
<1>5. ASSUME NEW o \in OrderIds, order'[o] \in {order[o], NoOrder},
             order'[o].invoice
      PROVE  o \in disk'
  BY <1>1, <1>5 DEF InvoicesFollowed, NoOrder
<1>6. ASSUME NEW r \in Requests, NEW state, Become(r, state), Followed(state),
             order' = order
      PROVE  InvoicesFollowed'
  <2>1. \A q \in Requests : Followed(job'[q])
    BY <1>2, <1>6, OthersStay
  <2> QED
    BY <1>4, <1>5, <1>6, <2>1
<1>7. ASSUME UNCHANGED <<job, order>> PROVE InvoicesFollowed'
  BY <1>2, <1>4, <1>5, <1>7
<1>8. ASSUME NEW r \in Requests, NEW state, Become(r, state),
             state.pc \notin {"path", "edit", "recalc"}, order' = order
      PROVE  InvoicesFollowed'
  BY <1>6, <1>8 DEF Followed
<1>9. ASSUME NEW r \in Requests, NEW cart \in Carts, Create(r, cart)
      PROVE  InvoicesFollowed'
  <2>1. [Idle EXCEPT !.pc = "read", !.lines = cart].pc = "read"
    BY DEF Idle
  <2> QED
    BY <1>8, <1>9, <2>1 DEF Create
<1>10. ASSUME NEW r \in Requests, ReadProduct(r) PROVE InvoicesFollowed'
  <2>1. [job[r] EXCEPT !.pc = "save", !.seen = View(r, Product(r))].pc = "save"
    BY DEF TypeOK, Job
  <2> QED
    BY <1>8, <1>10, <2>1 DEF ReadProduct
<1>11. ASSUME NEW r \in Requests, NEW written, NextLine(r, written), order' = order
       PROVE  InvoicesFollowed'
  <2>1. [job[r] EXCEPT !.pc = "read", !.lines = Tail(@), !.seen = 0,
                       !.written = written, !.stale = Stale(r),
                       !.taken[Product(r)] = @ + Quantity(r)].pc = "read"
    BY DEF TypeOK, Job
  <2> QED
    BY <1>8, <1>11, <2>1 DEF NextLine
<1>12. ASSUME NEW r \in Requests, Commit(r) PROVE InvoicesFollowed'
  <2>1. Followed([Idle EXCEPT !.pc = "invoice", !.id = created + 1])
    BY DEF Followed, Idle
  <2>2. \A q \in Requests : Followed(job'[q])
    BY <1>2, <1>12, <2>1, OthersStay DEF Commit
  <2>3. \A o \in OrderIds : order'[o].invoice => o \in disk'
    BY <1>12 DEF Commit, TypeOK, InvoicesFollowed
  <2> QED
    BY <1>4, <2>2, <2>3
<1>13. ASSUME NEW r \in Requests, Finish(r), order' = order PROVE InvoicesFollowed'
  BY <1>3, <1>6, <1>13 DEF Finish
<1>14. ASSUME NEW r \in Requests, WriteInvoice(r) PROVE InvoicesFollowed'
  <2>1. Followed([job[r] EXCEPT !.pc = "path"])
    BY <1>14 DEF Followed, WriteInvoice, Written, TypeOK, Job
  <2> QED
    BY <1>6, <1>14, <2>1 DEF WriteInvoice
<1>15. ASSUME NEW r \in Requests, SavePath(r) PROVE InvoicesFollowed'
  <2>1. Followed([job[r] EXCEPT !.pc = "mail"])
    BY DEF Followed, TypeOK, Job
  <2>2. \A q \in Requests : Followed(job'[q])
    BY <1>2, <1>15, <2>1, OthersStay DEF SavePath
  <2>3. job[r].id \in disk'
    BY <1>15 DEF SavePath, InvoicesFollowed
  <2>4. \A o \in OrderIds : order'[o].invoice => o \in disk'
    BY <1>1, <1>15, <2>3 DEF SavePath, TypeOK, InvoicesFollowed
  <2> QED
    BY <1>4, <2>2, <2>4
<1>16. ASSUME NEW r \in Requests, NEW o \in OrderIds, NEW status \in EditedTo,
              EditRead(r, o, status)
       PROVE  InvoicesFollowed'
  <2> DEFINE edit == [order[o] EXCEPT !.status = status]
             state == [Idle EXCEPT !.pc = "edit", !.id = o, !.edit = edit]
  <2>1. state.pc = "edit" /\ state.id = o /\ state.edit = edit
    BY DEF Idle
  <2>2. edit.invoice = order[o].invoice
    BY DEF TypeOK, Order
  <2>3. order[o].invoice => o \in disk'
    BY <1>1 DEF InvoicesFollowed
  <2>4. Followed(state)
    BY <2>1, <2>2, <2>3 DEF Followed
  <2> QED
    BY <1>6, <1>16, <2>4 DEF EditRead
<1>17. ASSUME NEW r \in Requests, EditSave(r) PROVE InvoicesFollowed'
  <2>1. \A q \in Requests : Followed(job'[q])
    BY <1>2, <1>3, <1>17, OthersStay DEF EditSave, Finish
  <2>2. job[r].edit.invoice => job[r].id \in disk'
    BY <1>1, <1>17 DEF EditSave, InvoicesFollowed, Copying, At
  <2>3. \A o \in OrderIds : order'[o].invoice => o \in disk'
    BY <1>1, <1>17, <2>2 DEF EditSave, TypeOK, InvoicesFollowed
  <2> QED
    BY <1>4, <2>1, <2>3
<1>18. ASSUME NEW r \in Requests, NEW o \in OrderIds, Remove(r, o)
       PROVE  InvoicesFollowed'
  <2>1. \A z \in OrderIds : order'[z] \in {order[z], NoOrder}
    BY <1>18 DEF Remove, TypeOK
  <2> QED
    BY <1>2, <1>4, <1>5, <1>18, <2>1 DEF Remove
<1>19. ASSUME Crash PROVE InvoicesFollowed'
  <2>1. \A q \in Requests : Followed(job'[q])
    BY <1>3, <1>19 DEF Crash
  <2> QED
    BY <1>4, <1>5, <1>19, <2>1 DEF Crash
<1>20. ASSUME NEW r \in Requests, NEW o \in OrderIds, RecalcRead(r, o)
       PROVE  InvoicesFollowed'
  <2> DEFINE state == [Idle EXCEPT !.pc = "recalc", !.id = o, !.edit = order[o]]
  <2>1. state.pc = "recalc" /\ state.id = o /\ state.edit = order[o]
    BY DEF Idle
  <2>2. order[o].invoice => o \in disk'
    BY <1>1 DEF InvoicesFollowed
  <2>3. Followed(state)
    BY <2>1, <2>2 DEF Followed
  <2> QED
    BY <1>6, <1>20, <2>3 DEF RecalcRead
<1>21. ASSUME NEW r \in Requests, RecalcSave(r) PROVE InvoicesFollowed'
  <2>1. \A q \in Requests : Followed(job'[q])
    BY <1>2, <1>3, <1>21, OthersStay DEF RecalcSave, Finish
  <2>2. job[r].edit.invoice => job[r].id \in disk'
    BY <1>1, <1>21 DEF RecalcSave, InvoicesFollowed, Copying, At
  <2>3. \A o \in OrderIds : order'[o].invoice => o \in disk'
    BY <1>1, <1>21, <2>2 DEF RecalcSave, TypeOK, InvoicesFollowed
  <2> QED
    BY <1>4, <2>1, <2>3
<1> QED
  BY <1>7, <1>9, <1>10, <1>11, <1>12, <1>13, <1>14, <1>15, <1>16, <1>17, <1>18, <1>19,
     <1>20, <1>21
  DEF Next, Begin, Continue, vars, SaveProduct, SaveUnchanged, Rollback,
      SendConfirmation, FailAfterCommit, CopyLost

-----------------------------------------------------------------------------
(* Paths                                                                   *)

LEMMA PathsStep ==
  /\ TypeOK /\ JobsFormed
  /\ PathSavedOnce /\ PathsFollowed /\ InvoicePathKept /\ StatusKept
  /\ [Next]_vars
  => PathSavedOnce' /\ PathsFollowed' /\ InvoicePathKept' /\ StatusKept'
<1> DEFINE Paths == PathSavedOnce /\ PathsFollowed /\ InvoicePathKept /\ StatusKept
<1> SUFFICES ASSUME TypeOK, JobsFormed, Paths, [Next]_vars PROVE Paths'
  OBVIOUS
<1> USE OrdersAssumption DEF Paths
<1>0. /\ \A q \in Requests : Posting(q) => job[q].id \in 1 .. created
      /\ \A q \in Requests : Copying(q) => job[q].id \in OrderIds
      /\ created \in 0 .. MaxOrders /\ 1 .. created \subseteq OrderIds
  BY DEF JobsFormed, TypeOK, OrderIds
<1>1. ASSUME NEW r \in Requests, NEW state, Become(r, state),
             state.pc \notin {"invoice", "path", "mail", "edit", "recalc"},
             UNCHANGED <<order, created, answered, readEarly, edited>>
      PROVE  Paths'
  <2>1. \A q \in Requests :
          job'[q].pc \in {"invoice", "path", "mail", "edit", "recalc"} => job'[q] = job[q]
    BY <1>1, OthersStay
  <2> QED
    BY <1>1, <2>1 DEF PathSavedOnce, PathsFollowed, InvoicePathKept, StatusKept,
       Posting, Copying, At
<1>2. ASSUME NEW r \in Requests, Commit(r) PROVE Paths'
  <2> DEFINE state == [Idle EXCEPT !.pc = "invoice", !.id = created + 1]
  <2>1. state.pc = "invoice" /\ state.id = created + 1
    BY DEF Idle
  <2>2. job'[r] = state /\ \A q \in Requests : q # r => job'[q] = job[q]
    BY <1>2, OthersStay DEF Commit
  <2> HIDE DEF state
  <2>3. /\ created' = created + 1 /\ created + 1 \in OrderIds
        /\ created + 1 \notin 1 .. created
        /\ 1 .. created' = (1 .. created) \cup {created + 1}
    BY <1>0, <1>2 DEF Commit, OrderIds
  <2>4. /\ order'[created + 1] = [exists |-> TRUE, status |-> StatusNew, invoice |-> FALSE]
        /\ \A o \in OrderIds : o # created + 1 => order'[o] = order[o]
    BY <1>2, <2>3 DEF Commit, TypeOK
  <2>5. UNCHANGED <<answered, readEarly, edited>>
    BY <1>2 DEF Commit
  <2>6. \A q \in Requests : job[q].pc \in {"invoice", "path", "mail", "edit", "recalc"} =>
          job[q].id \in 1 .. created
    BY <1>0 DEF PathsFollowed, Posting, Copying, At
  <2>7. PathSavedOnce'
    BY <1>0, <2>1, <2>2, <2>3, <2>4, <2>5, <2>6
    DEF PathSavedOnce, PathsFollowed, Posting, Copying, At
  <2>8. PathsFollowed'
    BY <1>0, <2>1, <2>2, <2>3, <2>4, <2>5, <2>6 DEF PathsFollowed, Copying, At
  <2>9. InvoicePathKept' /\ StatusKept'
    BY <1>0, <2>3, <2>4, <2>5 DEF PathsFollowed, InvoicePathKept, StatusKept, TypeOK
  <2> QED
    BY <2>7, <2>8, <2>9
<1>3. ASSUME NEW r \in Requests, WriteInvoice(r) PROVE Paths'
  <2> DEFINE state == [job[r] EXCEPT !.pc = "path"]
  <2>1. state.pc = "path" /\ state.id = job[r].id
    BY DEF TypeOK, Job
  <2>2. job'[r] = state /\ \A q \in Requests : q # r => job'[q] = job[q]
    BY <1>3, OthersStay DEF WriteInvoice
  <2> HIDE DEF state
  <2>3. /\ UNCHANGED <<order, created, answered, readEarly, edited>>
        /\ job[r].pc = "invoice"
    BY <1>3 DEF WriteInvoice, overlaps, At
  <2> QED
    BY <2>1, <2>2, <2>3
    DEF PathSavedOnce, PathsFollowed, InvoicePathKept, StatusKept, Posting, Copying, At
<1>4. ASSUME NEW r \in Requests, SavePath(r) PROVE Paths'
  <2> DEFINE state == [job[r] EXCEPT !.pc = "mail"]
             id == job[r].id
  <2>1. state.pc = "mail" /\ state.id = id
    BY DEF TypeOK, Job
  <2>2. job'[r] = state /\ \A q \in Requests : q # r => job'[q] = job[q]
    BY <1>4, OthersStay DEF SavePath
  <2> HIDE DEF state
  <2>3. /\ UNCHANGED <<created, answered, readEarly, edited>>
        /\ job[r].pc = "path" /\ id \in 1 .. created /\ id \in OrderIds
    BY <1>0, <1>4 DEF SavePath, overlaps, Copying, At, Posting
  <2>4. /\ order'[id] = [exists |-> TRUE, status |-> StatusNew, invoice |-> TRUE]
        /\ \A o \in OrderIds : o # id => order'[o] = order[o]
    BY <1>4, <2>3 DEF SavePath, TypeOK
  <2>5. id \notin edited
    BY <2>3 DEF PathSavedOnce
  <2>6. \A q \in Requests : q # r /\ Posting(q) => job[q].id # id
    BY <2>3 DEF PathSavedOnce, Posting
  <2>7. PathSavedOnce'
    BY <1>0, <2>1, <2>2, <2>3, <2>4, <2>6 DEF PathSavedOnce, Posting, Copying, At
  <2>8. PathsFollowed'
    BY <1>0, <2>1, <2>2, <2>3, <2>4, <2>6 DEF PathsFollowed, Posting, Copying, At
  <2>9. \A o \in OrderIds : order'[o] = order[o] \/ (o = id /\ order'[o].invoice)
    BY <2>4
  <2>10. InvoicePathKept'
    BY <2>3, <2>9 DEF InvoicePathKept, TypeOK
  <2>11. StatusKept'
    BY <2>3, <2>4, <2>5 DEF StatusKept, TypeOK
  <2> QED
    BY <2>7, <2>8, <2>10, <2>11
<1>5. ASSUME NEW r \in Requests, SendConfirmation(r) PROVE Paths'
  <2>1. /\ \A q \in Requests :
             job'[q].pc \in {"invoice", "path", "mail", "edit", "recalc"} => job'[q] = job[q]
        /\ UNCHANGED <<order, created, readEarly, edited>>
        /\ answered' = answered \cup {job[r].id} /\ job[r].id \in 1 .. created
        /\ At(r, "mail")
    BY <1>0, <1>5, OthersStay DEF SendConfirmation, Finish, Idle, overlaps, Copying, At, Posting
  <2>2. PathSavedOnce' /\ PathsFollowed' /\ StatusKept'
    BY <2>1 DEF PathSavedOnce, PathsFollowed, StatusKept, Posting, Copying, At
  <2>3. InvoicePathKept'
    BY <2>1 DEF PathsFollowed, InvoicePathKept
  <2> QED
    BY <2>2, <2>3
<1>6. ASSUME NEW r \in Requests, NEW o \in OrderIds, NEW status \in EditedTo,
             EditRead(r, o, status)
      PROVE  Paths'
  <2> DEFINE copy == [order[o] EXCEPT !.status = status]
             state == [Idle EXCEPT !.pc = "edit", !.id = o, !.edit = copy]
  <2>1. /\ state.pc = "edit" /\ state.id = o
        /\ state.edit.status = status /\ state.edit.invoice = order[o].invoice
    BY DEF Idle, TypeOK, Order
  <2>2. job'[r] = state /\ \A q \in Requests : q # r => job'[q] = job[q]
    BY <1>6, OthersStay DEF EditRead
  <2> HIDE DEF state
  <2>3. /\ UNCHANGED <<order, created, answered, edited>>
        /\ order[o].exists /\ readEarly \subseteq readEarly'
        /\ ~order[o].invoice => o \in readEarly'
    BY <1>6 DEF EditRead, ReadEarly
  <2>4. PathSavedOnce'
    BY <2>1, <2>2, <2>3 DEF PathSavedOnce, Posting, Copying, At
  <2>5. PathsFollowed'
    BY <2>1, <2>2, <2>3 DEF PathsFollowed, Copying, At
  <2>6. InvoicePathKept' /\ StatusKept'
    BY <2>3 DEF InvoicePathKept, StatusKept
  <2> QED
    BY <2>4, <2>5, <2>6
<1>7. ASSUME NEW r \in Requests, EditSave(r) PROVE Paths'
  <2> DEFINE id == job[r].id
  <2>1. \A q \in Requests :
          job'[q].pc \in {"invoice", "path", "mail", "edit", "recalc"} => job'[q] = job[q]
    BY <1>7, OthersStay DEF EditSave, Finish, Idle
  <2>2. /\ UNCHANGED <<created, answered, readEarly>> /\ At(r, "edit")
        /\ id \in 1 .. created /\ id \in OrderIds
        /\ edited' = IF job[r].edit.invoice THEN edited \cup {id} ELSE edited
    BY <1>0, <1>7 DEF EditSave, PathsFollowed, Copying, At
  <2>3. order'[id] = job[r].edit /\ \A o \in OrderIds : o # id => order'[o] = order[o]
    BY <1>7, <2>2 DEF EditSave, TypeOK
  <2>4. /\ job[r].edit.status \in EditedTo
        /\ ~job[r].edit.invoice => id \in readEarly
    BY <2>2 DEF PathsFollowed, Copying, At
  <2>5. \A q \in Requests : job[q].pc \in {"invoice", "path"} /\ job[q].id = id =>
          ~job[r].edit.invoice
    BY <2>2 DEF PathSavedOnce, Copying, At
  <2>6. PathSavedOnce'
    BY <1>0, <2>1, <2>2, <2>3, <2>5 DEF PathSavedOnce, Posting, Copying, At
  <2>7. PathsFollowed'
    BY <1>0, <2>1, <2>2, <2>3, <2>4 DEF PathsFollowed, Posting, Copying, At
  <2>8. InvoicePathKept' /\ StatusKept'
    BY <2>2, <2>3, <2>4 DEF InvoicePathKept, StatusKept, TypeOK
  <2> QED
    BY <2>6, <2>7, <2>8
<1>8. ASSUME NEW r \in Requests, NEW o \in OrderIds, Remove(r, o) PROVE Paths'
  <2>1. /\ UNCHANGED <<created, answered, readEarly, edited, job>>
        /\ ~order'[o].exists /\ ~order'[o].invoice
        /\ \A z \in OrderIds : z # o => order'[z] = order[z]
    BY <1>8 DEF Remove, NoOrder, overlaps, TypeOK
  <2>2. PathSavedOnce'
    BY <1>0, <2>1 DEF PathSavedOnce, Posting, Copying, At
  <2>3. PathsFollowed'
    BY <1>0, <2>1 DEF PathsFollowed, Posting, Copying, At
  <2>4. InvoicePathKept' /\ StatusKept'
    BY <2>1 DEF InvoicePathKept, StatusKept, TypeOK
  <2> QED
    BY <2>2, <2>3, <2>4
<1>9. ASSUME Crash PROVE Paths'
  <2>1. /\ \A q \in Requests : job'[q].pc = "idle"
        /\ UNCHANGED <<order, created, answered, readEarly, edited>>
    BY <1>9 DEF Crash, Idle, overlaps
  <2> QED
    BY <2>1 DEF PathSavedOnce, PathsFollowed, InvoicePathKept, StatusKept, Posting, Copying, At
<1>10. ASSUME UNCHANGED vars PROVE Paths'
  BY <1>10 DEF vars, overlaps, PathSavedOnce, PathsFollowed, InvoicePathKept,
     StatusKept, Posting, Copying, At
<1>11. ASSUME NEW r \in Requests, NEW cart \in Carts, Create(r, cart) PROVE Paths'
  <2>1. [Idle EXCEPT !.pc = "read", !.lines = cart].pc = "read"
    BY DEF Idle
  <2> QED
    BY <1>1, <1>11, <2>1 DEF Create, overlaps
<1>12. ASSUME NEW r \in Requests, ReadProduct(r) PROVE Paths'
  <2>1. [job[r] EXCEPT !.pc = "save", !.seen = View(r, Product(r))].pc = "save"
    BY DEF TypeOK, Job
  <2> QED
    BY <1>1, <1>12, <2>1 DEF ReadProduct, overlaps
<1>13. ASSUME NEW r \in Requests, NEW written, NextLine(r, written),
              UNCHANGED <<order, created, answered, readEarly, edited>>
       PROVE  Paths'
  <2>1. [job[r] EXCEPT !.pc = "read", !.lines = Tail(@), !.seen = 0,
                       !.written = written, !.stale = Stale(r),
                       !.taken[Product(r)] = @ + Quantity(r)].pc = "read"
    BY DEF TypeOK, Job
  <2> QED
    BY <1>1, <1>13, <2>1 DEF NextLine
<1>14. ASSUME NEW r \in Requests, Finish(r),
              UNCHANGED <<order, created, answered, readEarly, edited>>
       PROVE  Paths'
  BY <1>1, <1>14 DEF Finish, Idle
<1>15. ASSUME NEW r \in Requests, NEW o \in OrderIds, RecalcRead(r, o) PROVE Paths'
  <2> DEFINE state == [Idle EXCEPT !.pc = "recalc", !.id = o, !.edit = order[o]]
  <2>1. state.pc = "recalc" /\ state.id = o /\ state.edit = order[o]
    BY DEF Idle
  <2>2. job'[r] = state /\ \A q \in Requests : q # r => job'[q] = job[q]
    BY <1>15, OthersStay DEF RecalcRead
  <2> HIDE DEF state
  <2>3. /\ UNCHANGED <<order, created, answered, edited>>
        /\ order[o].exists /\ readEarly \subseteq readEarly'
        /\ ~order[o].invoice => o \in readEarly'
    BY <1>15 DEF RecalcRead, ReadEarly
  <2>4. PathSavedOnce'
    BY <2>1, <2>2, <2>3 DEF PathSavedOnce, Posting, Copying, At
  <2>5. PathsFollowed'
    BY <2>1, <2>2, <2>3 DEF PathsFollowed, Copying, At
  <2>6. InvoicePathKept' /\ StatusKept'
    BY <2>3 DEF InvoicePathKept, StatusKept
  <2> QED
    BY <2>4, <2>5, <2>6
<1>16. ASSUME NEW r \in Requests, RecalcSave(r) PROVE Paths'
  <2> DEFINE id == job[r].id
  <2>1. \A q \in Requests :
          job'[q].pc \in {"invoice", "path", "mail", "edit", "recalc"} => job'[q] = job[q]
    BY <1>16, OthersStay DEF RecalcSave, Finish, Idle
  <2>2. /\ UNCHANGED <<created, answered, readEarly>> /\ Copying(r)
        /\ id \in 1 .. created /\ id \in OrderIds
        /\ ~job[r].edit.invoice => id \in readEarly
        /\ edited' = IF order[id] = job[r].edit THEN edited ELSE edited \ {id}
    BY <1>0, <1>16 DEF RecalcSave, PathsFollowed, Copying, At
  <2>3. order'[id] = job[r].edit /\ \A o \in OrderIds : o # id => order'[o] = order[o]
    BY <1>16, <2>2 DEF RecalcSave, TypeOK
  <2>4. \A q \in Requests : job[q].pc \in {"invoice", "path"} /\ job[q].id = id =>
          ~job[r].edit.invoice
    BY <2>2 DEF PathSavedOnce
  <2>5. PathSavedOnce'
    BY <1>0, <2>1, <2>2, <2>3, <2>4 DEF PathSavedOnce, Posting, Copying, At
  <2>6. PathsFollowed'
    BY <1>0, <2>1, <2>2, <2>3 DEF PathsFollowed, Posting, Copying, At
  <2>7. InvoicePathKept'
    BY <2>2, <2>3 DEF InvoicePathKept, TypeOK
  <2>8. \A o \in edited' : o \in edited /\ order'[o] = order[o]
    BY <2>2, <2>3 DEF TypeOK
  <2>9. StatusKept'
    BY <2>8 DEF StatusKept
  <2> QED
    BY <2>5, <2>6, <2>7, <2>9
<1> QED
  BY <1>2, <1>3, <1>4, <1>5, <1>6, <1>7, <1>8, <1>9, <1>10, <1>11, <1>12, <1>13, <1>14,
     <1>15, <1>16
  DEF Next, Begin, Continue, SaveProduct, SaveUnchanged, Rollback,
      FailAfterCommit, CopyLost, overlaps

-----------------------------------------------------------------------------
(* Theorems                                                                *)

LEMMA CopiesInit == Init => CopiesConsistent
<1> SUFFICES ASSUME Init PROVE CopiesConsistent
  OBVIOUS
<1>1. \A r \in Requests : job[r] = Idle
  BY DEF Init
<1>2. JobsFormed
  BY <1>1 DEF JobsFormed, Posting, Copying, At, Idle
<1>3. UnitsAccounted
  BY <1>1, OrdersAssumption DEF Init, UnitsAccounted, At, Idle, Nothing
<1>4. WritesAccounted
  BY <1>1, OrdersAssumption DEF Init, WritesAccounted, View, Idle, Nothing
<1>5. SoldFromStock
  <2> SUFFICES ASSUME NEW p \in Products PROVE stock[p] + sold[p] = InitialStock[p]
    BY DEF SoldFromStock
  <2>1. stock[p] = InitialStock[p] /\ sold[p] = 0 /\ InitialStock[p] \in Nat
    BY OrdersAssumption DEF Init, Nothing
  <2> QED
    BY <2>1
<1>6. InvoicesFollowed
  BY <1>1 DEF Init, InvoicesFollowed, Copying, At, Idle, NoOrder
<1>7. PathSavedOnce /\ PathsFollowed /\ InvoicePathKept /\ StatusKept
  BY <1>1 DEF Init, PathSavedOnce, PathsFollowed, InvoicePathKept, StatusKept,
     Posting, Copying, At, Idle, NoOrder
<1> QED
  BY <1>2, <1>3, <1>4, <1>5, <1>6, <1>7, TypeInit DEF CopiesConsistent

(* The copies of the stock and of the orders that requests have read and   *)
(* will save are worth what the rows they overwrite are: the inductive     *)
(* invariant of order.service.ts.                                          *)
THEOREM AlwaysCopiesConsistent == Spec => []CopiesConsistent
<1>1. CopiesConsistent /\ [Next]_vars => CopiesConsistent'
  BY TypeStep, FormedStep, AccountedStep, WritesStep, SoldStep, InvoicesStep,
     PathsStep
  DEF CopiesConsistent
<1> QED
  BY <1>1, CopiesInit, PTL DEF Spec

\* Every variable has its type: no stock ever runs below zero, whichever
\* orders overlap, since a line is written only if the stock it read suffices.
THEOREM StockTyped == Spec => []TypeOK
<1>1. CopiesConsistent => TypeOK
  BY DEF CopiesConsistent
<1> QED
  BY <1>1, AlwaysCopiesConsistent, PTL

(* createOrderItems loses no unit: what is gone from the stock is in a     *)
(* committed order, for every cart and any number of requests, though no   *)
(* read of a product is protected by a lock.                               *)
THEOREM NoUnitEverLost == Spec => []NoUnitLost
<1>1. CopiesConsistent => NoUnitLost
  BY DEF CopiesConsistent, UnitsAccounted, NoUnitLost
<1> QED
  BY <1>1, AlwaysCopiesConsistent, PTL

\* An order that names an invoice has its file on disk, whatever fails
\* between the transaction and the mail and whatever PUT writes back.
THEOREM InvoiceAlwaysOnDisk == Spec => []InvoiceOnDisk
<1>1. CopiesConsistent => InvoiceOnDisk
  BY DEF CopiesConsistent, InvoicesFollowed, InvoiceOnDisk
<1> QED
  BY <1>1, AlwaysCopiesConsistent, PTL

(* The stock of a product is exactly what has not been sold as long as no  *)
(* committed order has saved it on an old read: overselling takes two      *)
(* orders that overlap on the product, for every cart and every rollback.  *)
THEOREM StockExactUnlessOverwritten == Spec => []SoldFromStock
<1>1. CopiesConsistent => SoldFromStock
  BY DEF CopiesConsistent
<1> QED
  BY <1>1, AlwaysCopiesConsistent, PTL

(* The order of an answered POST keeps its invoice path, however PUT,      *)
(* DELETE, the requests for its items and the POST itself save it, unless  *)
(* one of them had read it before the path was saved.                      *)
THEOREM InvoicePathStays == Spec => []InvoicePathKept
<1>1. CopiesConsistent => InvoicePathKept
  BY DEF CopiesConsistent
<1> QED
  BY <1>1, AlwaysCopiesConsistent, PTL

(* The POST never sets back the status of a PUT that has read the saved    *)
(* path, and a request for an item does so only with an order it had read  *)
(* otherwise.                                                              *)
THEOREM StatusStays == Spec => []StatusKept
<1>1. CopiesConsistent => StatusKept
  BY DEF CopiesConsistent
<1> QED
  BY <1>1, AlwaysCopiesConsistent, PTL
=============================================================================
