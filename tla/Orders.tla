------------------------------- MODULE Orders -------------------------------
(***************************************************************************)
(* Orders and the stock they are taken from: src/src/services/             *)
(* order.service.ts.  POST /orders takes every line of a cart from the     *)
(* stock in one transaction: a line reads its product without a lock and   *)
(* saves the value computed from it, which locks the row of the product    *)
(* until the commit.  After the commit the invoice is written to disk, its *)
(* path is saved with the whole order, and the mail is sent.  PUT and      *)
(* DELETE /orders/:id act on the same rows at any time, and so does every  *)
(* request that writes an order item, in whose transaction the             *)
(* subscriber reads the whole order and saves it with a new total          *)
(* (order-item.subscriber.ts; the totals themselves are in OrderTotals).   *)
(***************************************************************************)
EXTENDS Integers, Sequences

CONSTANTS
  Products,      \* product_id of the products
  Requests,      \* HTTP requests in flight at once
  Nobody,        \* the holder of a lock that is free
  Carts,         \* carts that are ordered: sequences of lines
  InitialStock,  \* InitialStock[p]: stock_quantity to begin with
  EditedTo,      \* statuses that PUT sets
  MaxOrders      \* bound: orders that are ever created

StatusNew == "NEW"
Line == [product: Products, quantity: Nat]

ASSUME OrdersAssumption ==
  /\ Nobody \notin Requests
  /\ Carts \subseteq Seq(Line)
  /\ InitialStock \in [Products -> Nat]
  /\ MaxOrders \in Nat

VARIABLES
  stock,        \* stock[p]: the committed stock_quantity of product p
  productLock,  \* productLock[p]: the transaction that has written the row of p
  order,        \* order[o]: the row of order o
  created,      \* how many orders have been committed
  disk,         \* orders that have an invoice file
  job,          \* job[r]: where request r is and what it has read
  sold,         \* history: sold[p], units of p in committed orders
  answered,     \* history: orders whose POST was answered with 201
  overwritten,  \* history: products written over by a committed order whose
                \* read of them was old
  readEarly,    \* history: orders that a PUT or an item request has read
                \* before their path was saved
  edited        \* history: orders that a PUT which had read the path has saved,
                \* and no item request since that had read them otherwise

overlaps == <<overwritten, readEarly, edited>>
vars == <<stock, productLock, order, created, disk, job, sold, answered, overlaps>>

-----------------------------------------------------------------------------
OrderIds == 1 .. MaxOrders

Order == [exists: BOOLEAN, status: EditedTo \cup {StatusNew}, invoice: BOOLEAN]
NoOrder == [exists |-> FALSE, status |-> StatusNew, invoice |-> FALSE]

(* Where a request is:                                                     *)
(*   read     the next line is to read its product                         *)
(*   save     it has, the stock sufficed, and the product is to be saved   *)
(*   invoice  the order is committed, its invoice not on disk              *)
(*   path     the file is written, its path not saved                      *)
(*   mail     the path is saved, the mail not sent                         *)
(*   edit     PUT has read the order                                       *)
(*   recalc   the subscriber has read the order of an item just written    *)
Steps == {"idle", "read", "save", "invoice", "path", "mail", "edit", "recalc"}

(* seen is the stock the line has read, written[p] what the transaction    *)
(* has written to p (Unwritten: nothing), taken[p] the units of its order  *)
(* items so far, lines the lines still to come; stale are the products it  *)
(* saved when they no longer were what it had read (history).              *)
Unwritten == -1
Job == [pc: Steps, lines: Seq(Line), seen: Nat,
        written: [Products -> Nat \cup {Unwritten}],
        taken: [Products -> Nat], stale: SUBSET Products,
        id: 0 .. MaxOrders, edit: Order]

Nothing == [p \in Products |-> 0]
Idle == [pc |-> "idle", lines |-> <<>>, seen |-> 0,
         written |-> [p \in Products |-> Unwritten], taken |-> Nothing,
         stale |-> {}, id |-> 0, edit |-> NoOrder]

At(r, step) == job[r].pc = step
\* The order of the POST r is committed, r is not answered.
Posting(r) == job[r].pc \in {"invoice", "path", "mail"}
\* r has read a whole order and will save it.
Copying(r) == job[r].pc \in {"edit", "recalc"}
Become(r, state) == job' = [job EXCEPT ![r] = state]
Finish(r) == Become(r, Idle)

\* The line in hand.
Product(r) == Head(job[r].lines).product
Quantity(r) == Head(job[r].lines).quantity

\* What a statement of r reads: its own write, or the last commit.
View(r, p) == IF job[r].written[p] = Unwritten THEN stock[p] ELSE job[r].written[p]

\* Mutant: a rollback leaves the rows of the products locked.
ReleaseNone(r) == productLock
Release(r) == [p \in Products |-> IF productLock[p] = r THEN Nobody ELSE productLock[p]]

Init ==
  /\ stock = InitialStock
  /\ productLock = [p \in Products |-> Nobody]
  /\ order = [o \in OrderIds |-> NoOrder]
  /\ created = 0
  /\ disk = {}
  /\ job = [r \in Requests |-> Idle]
  /\ sold = Nothing
  /\ answered = {}
  /\ overwritten = {}
  /\ readEarly = {}
  /\ edited = {}

-----------------------------------------------------------------------------
(* POST /orders, the transaction                                           *)

\* The user exists and the addresses are written; the lines come next.
Create(r, cart) ==
  /\ At(r, "idle")
  /\ created < MaxOrders
  /\ Become(r, [Idle EXCEPT !.pc = "read", !.lines = cart])
  /\ UNCHANGED <<stock, productLock, order, created, disk, sold, answered, overlaps>>

Suffices(r) == View(r, Product(r)) >= Quantity(r)

\* createOrderItems reads the product of the line, and there is enough of it.
ReadProduct(r) ==
  /\ At(r, "read") /\ job[r].lines # <<>>
  /\ Suffices(r)
  /\ Become(r, [job[r] EXCEPT !.pc = "save", !.seen = View(r, Product(r))])
  /\ UNCHANGED <<stock, productLock, order, created, disk, sold, answered, overlaps>>

\* What is left of the product after the line.
Left(r) == job[r].seen - Quantity(r)

\* The products whose read was old when they were saved.
Stale(r) ==
  job[r].stale \cup (IF View(r, Product(r)) = job[r].seen THEN {} ELSE {Product(r)})

\* The next line of the order: this one's units are among the order items.
NextLine(r, written) ==
  Become(r, [job[r] EXCEPT !.pc = "read", !.lines = Tail(@), !.seen = 0,
                           !.written = written, !.stale = Stale(r),
                           !.taken[Product(r)] = @ + Quantity(r)])

(* save() of the product: an UPDATE to the value computed from the read,   *)
(* whatever the row holds by now.  It waits for the lock of the row.       *)
SaveProduct(r) ==
  /\ At(r, "save")
  /\ productLock[Product(r)] \in {Nobody, r}
  /\ productLock' = [productLock EXCEPT ![Product(r)] = r]
  /\ NextLine(r, [job[r].written EXCEPT ![Product(r)] = Left(r)])
  /\ UNCHANGED <<stock, order, created, disk, sold, answered, overlaps>>

\* Mutant: the product is changed in memory and not saved.
NeverSaved(r) ==
  /\ At(r, "save")
  /\ NextLine(r, job[r].written)
  /\ UNCHANGED <<stock, productLock, order, created, disk, sold, answered, overlaps>>

(* save() reads the row once more and writes only what differs: a row that *)
(* already holds the value is neither written nor locked.                  *)
SaveUnchanged(r) ==
  /\ At(r, "save")
  /\ View(r, Product(r)) = Left(r)
  /\ NextLine(r, job[r].written)
  /\ UNCHANGED <<stock, productLock, order, created, disk, sold, answered, overlaps>>

\* The order and its items are inserted, the transaction commits.
Commit(r) ==
  /\ At(r, "read") /\ job[r].lines = <<>>
  /\ created < MaxOrders
  /\ created' = created + 1
  /\ order' = [order EXCEPT ![created + 1] =
                 [exists |-> TRUE, status |-> StatusNew, invoice |-> FALSE]]
  /\ stock' = [p \in Products |-> View(r, p)]
  /\ sold' = [p \in Products |-> sold[p] + job[r].taken[p]]
  /\ overwritten' = overwritten \cup job[r].stale
  /\ productLock' = Release(r)
  /\ Become(r, [Idle EXCEPT !.pc = "invoice", !.id = created + 1])
  /\ UNCHANGED <<disk, answered, readEarly, edited>>

\* Mutant: the products are saved outside the transaction.
RollbackKeeps(r) ==
  /\ job[r].pc \in {"read", "save"}
  /\ stock' = [p \in Products |-> View(r, p)]
  /\ productLock' = Release(r)
  /\ Finish(r)
  /\ UNCHANGED <<order, created, disk, sold, answered, overlaps>>

(* 409 for a line the stock does not suffice for, 404 for an unknown       *)
(* product, any failure, and the victim of a deadlock: all is rolled back. *)
Rollback(r) ==
  /\ job[r].pc \in {"read", "save"}
  /\ productLock' = Release(r)
  /\ Finish(r)
  /\ UNCHANGED <<stock, order, created, disk, sold, answered, overlaps>>

-----------------------------------------------------------------------------
(* POST /orders, after the transaction                                     *)

\* Mutant: the path is saved before the file is written.
PathFirst(r) == disk
\* saveInvoiceToDisk writes the file.
Written(r) == disk \cup {job[r].id}

\* The invoice is generated and written to disk.
WriteInvoice(r) ==
  /\ At(r, "invoice")
  /\ disk' = Written(r)
  /\ Become(r, [job[r] EXCEPT !.pc = "path"])
  /\ UNCHANGED <<stock, productLock, order, created, sold, answered, overlaps>>

(* save() of the order as the transaction left it, with the path: a status *)
(* set meanwhile is set back, an order deleted meanwhile is inserted again.*)
SavePath(r) ==
  /\ At(r, "path")
  /\ order' = [order EXCEPT ![job[r].id] =
                 [exists |-> TRUE, status |-> StatusNew, invoice |-> TRUE]]
  /\ Become(r, [job[r] EXCEPT !.pc = "mail"])
  /\ UNCHANGED <<stock, productLock, created, disk, sold, answered, overlaps>>

\* Mutant: the order is saved once more when the mail has been sent.
SendAndSave(r) ==
  /\ At(r, "mail")
  /\ order' = [order EXCEPT ![job[r].id] =
                 [exists |-> TRUE, status |-> StatusNew, invoice |-> TRUE]]
  /\ answered' = answered \cup {job[r].id}
  /\ Finish(r)
  /\ UNCHANGED <<stock, productLock, created, disk, sold, overlaps>>

\* The confirmation is sent, 201 answered.
SendConfirmation(r) ==
  /\ At(r, "mail")
  /\ answered' = answered \cup {job[r].id}
  /\ Finish(r)
  /\ UNCHANGED <<stock, productLock, order, created, disk, sold, overlaps>>

\* Mutant: what fails after the transaction is logged and 201 answered.
FailSilently(r) ==
  /\ Posting(r)
  /\ answered' = answered \cup {job[r].id}
  /\ Finish(r)
  /\ UNCHANGED <<stock, productLock, order, created, disk, sold, overlaps>>

\* PDF, disk, database or mail fail: 500, and the order stays as it is.
FailAfterCommit(r) ==
  /\ Posting(r)
  /\ Finish(r)
  /\ UNCHANGED <<stock, productLock, order, created, disk, sold, answered, overlaps>>

-----------------------------------------------------------------------------
(* PUT and DELETE /orders/:id, and the items of an order                   *)

\* The orders read before their path was saved, o being read now.
ReadEarly(o) == IF order[o].invoice THEN readEarly ELSE readEarly \cup {o}

\* update reads the order and lays the body over it.
EditRead(r, o, status) ==
  /\ At(r, "idle")
  /\ order[o].exists
  /\ Become(r, [Idle EXCEPT !.pc = "edit", !.id = o,
                            !.edit = [order[o] EXCEPT !.status = status]])
  /\ readEarly' = ReadEarly(o)
  /\ UNCHANGED <<stock, productLock, order, created, disk, sold, answered,
                 overwritten, edited>>

\* save() of all of it: what has changed since the read is set back.
EditSave(r) ==
  /\ At(r, "edit")
  /\ order' = [order EXCEPT ![job[r].id] = job[r].edit]
  /\ edited' = IF job[r].edit.invoice THEN edited \cup {job[r].id} ELSE edited
  /\ Finish(r)
  /\ UNCHANGED <<stock, productLock, created, disk, sold, answered,
                 overwritten, readEarly>>

(* An item of order o has been written, or one has been removed and the    *)
(* search for it has found an item of o: recalcOrderTotal reads o.         *)
RecalcRead(r, o) ==
  /\ At(r, "idle")
  /\ order[o].exists
  /\ Become(r, [Idle EXCEPT !.pc = "recalc", !.id = o, !.edit = order[o]])
  /\ readEarly' = ReadEarly(o)
  /\ UNCHANGED <<stock, productLock, order, created, disk, sold, answered,
                 overwritten, edited>>

(* save() of all of it with the new total: it sets back what has changed   *)
(* since the read, and inserts again an order that has been deleted.       *)
RecalcSave(r) ==
  /\ At(r, "recalc")
  /\ order' = [order EXCEPT ![job[r].id] = job[r].edit]
  /\ edited' = IF order[job[r].id] = job[r].edit THEN edited ELSE edited \ {job[r].id}
  /\ Finish(r)
  /\ UNCHANGED <<stock, productLock, created, disk, sold, answered,
                 overwritten, readEarly>>

\* The connection is lost before the save; an item is rolled back.
CopyLost(r) ==
  /\ Copying(r)
  /\ Finish(r)
  /\ UNCHANGED <<stock, productLock, order, created, disk, sold, answered, overlaps>>

\* The row and, by cascade, its items; neither the stock nor the file.
Remove(r, o) ==
  /\ At(r, "idle")
  /\ order[o].exists
  /\ order' = [order EXCEPT ![o] = NoOrder]
  /\ UNCHANGED <<stock, productLock, created, disk, job, sold, answered, overlaps>>

Crash ==
  /\ \E r \in Requests : ~At(r, "idle")
  /\ job' = [r \in Requests |-> Idle]
  /\ productLock' = [p \in Products |-> Nobody]
  /\ UNCHANGED <<stock, order, created, disk, sold, answered, overlaps>>

-----------------------------------------------------------------------------

Begin(r) ==
  \/ \E cart \in Carts : Create(r, cart)
  \/ \E o \in OrderIds :
       \/ Remove(r, o) \/ RecalcRead(r, o)
       \/ \E status \in EditedTo : EditRead(r, o, status)

Continue(r) ==
  \/ ReadProduct(r) \/ SaveProduct(r) \/ SaveUnchanged(r) \/ Commit(r)
  \/ WriteInvoice(r) \/ SavePath(r) \/ SendConfirmation(r)
  \/ EditSave(r) \/ RecalcSave(r)

Next ==
  \/ \E r \in Requests :
       Begin(r) \/ Continue(r) \/ Rollback(r) \/ FailAfterCommit(r) \/ CopyLost(r)
  \/ Crash

Spec == Init /\ [][Next]_vars

\* 409: the stock does not suffice, or the bound on orders is reached.
Refuse(r) ==
  /\ At(r, "read")
  /\ IF job[r].lines = <<>> THEN created = MaxOrders ELSE ~Suffices(r)
  /\ Rollback(r)

\* r waits for the lock of a product.
WaitsFor(r, q) == At(r, "save") /\ r # q /\ productLock[Product(r)] = q

(* Orders that take the same products in different orders wait for one     *)
(* another in a circle; PostgreSQL fails one of them (deadlock_timeout).   *)
DeadlockVictim(r) ==
  /\ \E circle \in SUBSET Requests :
       /\ r \in circle
       /\ \A q \in circle : \E x \in circle : WaitsFor(q, x)
       /\ \A q \in circle : \E x \in circle : WaitsFor(x, q)
  /\ Rollback(r)

\* PostgreSQL serves those who wait for a lock in turn.
FairSpec ==
  Spec /\ \A r \in Requests : SF_vars(Continue(r) \/ Refuse(r) \/ DeadlockVictim(r))

-----------------------------------------------------------------------------
(* Properties                                                              *)

TypeOK ==
  /\ stock \in [Products -> Nat]
  /\ productLock \in [Products -> Requests \cup {Nobody}]
  /\ order \in [OrderIds -> Order]
  /\ created \in 0 .. MaxOrders
  /\ disk \subseteq OrderIds
  /\ job \in [Requests -> Job]
  /\ sold \in [Products -> Nat]
  /\ answered \subseteq OrderIds
  /\ overwritten \subseteq Products
  /\ readEarly \subseteq OrderIds
  /\ edited \subseteq OrderIds

\* A request that makes an invoice has committed its order; one that saves a
\* product has a line in hand that the stock it has read suffices for.
JobsFormed ==
  \A r \in Requests :
    /\ Posting(r) => job[r].id \in 1 .. created
    /\ Copying(r) => job[r].id \in OrderIds
    /\ At(r, "save") => job[r].lines # <<>> /\ job[r].seen >= Quantity(r)

(* Whatever a transaction has written or is about to write leaves no unit  *)
(* out of account, however old the read it was computed from: the lines of *)
(* its order so far and the orders committed since make up for it.         *)
UnitsAccounted ==
  /\ \A p \in Products : stock[p] + sold[p] >= InitialStock[p]
  /\ \A r \in Requests, p \in Products : job[r].written[p] # Unwritten =>
       job[r].written[p] + job[r].taken[p] + sold[p] >= InitialStock[p]
  /\ \A r \in Requests : At(r, "save") =>
       job[r].seen + job[r].taken[Product(r)] + sold[Product(r)]
         >= InitialStock[Product(r)]

\* Every copy of an order that names its invoice is one whose file exists.
InvoicesFollowed ==
  /\ \A o \in OrderIds : order[o].invoice => o \in disk
  /\ \A r \in Requests : At(r, "path") => job[r].id \in disk
  /\ \A r \in Requests : Copying(r) /\ job[r].edit.invoice => job[r].id \in disk

(* A transaction holds the row of what it has written, and its value is    *)
(* the committed one less its own units unless the read was old.           *)
WritesAccounted ==
  /\ \A r \in Requests, p \in Products :
       job[r].written[p] # Unwritten => productLock[p] = r
  /\ \A r \in Requests : \A p \in Products \ job[r].stale :
       View(r, p) + job[r].taken[p] = stock[p]

\* Whoever saves the path of an order is the only one to do so, and no copy
\* of the order names the path before.
PathSavedOnce ==
  /\ \A r, q \in Requests :
       Posting(r) /\ Posting(q) /\ job[r].id = job[q].id => r = q
  /\ \A r \in Requests : job[r].pc \in {"invoice", "path"} =>
       /\ job[r].id \notin edited
       /\ ~order[job[r].id].invoice
       /\ \A q \in Requests :
            Copying(q) /\ job[q].id = job[r].id => ~job[q].edit.invoice

\* A copy without the path was read before it was saved.
PathsFollowed ==
  /\ answered \cup edited \subseteq 1 .. created
  /\ \A o \in OrderIds : order[o].exists => o \in 1 .. created
  /\ \A r \in Requests : At(r, "edit") => job[r].edit.status \in EditedTo
  /\ \A r \in Requests : Copying(r) =>
       /\ job[r].id \in 1 .. created
       /\ ~job[r].edit.invoice => job[r].id \in readEarly
  /\ \A r \in Requests :
       At(r, "mail") /\ order[job[r].id].exists /\ ~order[job[r].id].invoice =>
         job[r].id \in readEarly

(* No unit is lost: what is gone from the stock has been sold, whichever   *)
(* orders overlapped, were refused, were rolled back or died half way.     *)
(* (The converse holds as far as SoldFromStock says.)                      *)
NoUnitLost == \A p \in Products : stock[p] + sold[p] >= InitialStock[p]

(* The stock is exactly what has not been sold, of every product that no   *)
(* committed order has written over on a read that had become old: nothing *)
(* but two orders that overlap on a product can sell a unit twice, neither *)
(* a rollback, a crash, a cart that names a product twice nor a save that  *)
(* finds the row as it wants it.                                           *)
SoldFromStock ==
  \A p \in Products \ overwritten : stock[p] + sold[p] = InitialStock[p]

(* Whenever an order names an invoice, its file is on disk, whatever fails *)
(* or is written back: downloadInvoice does not send a missing file.       *)
InvoiceOnDisk == \A o \in OrderIds : order[o].invoice => o \in disk

(* The order of an answered POST keeps its invoice path as long as it      *)
(* exists, whatever later saves it, unless a PUT of the order or a request *)
(* for one of its items had read it before the path was saved: these write *)
(* the missing path back, or bring the deleted order back without it.      *)
InvoicePathKept ==
  \A o \in answered : order[o].exists /\ ~order[o].invoice => o \in readEarly

(* A status that a PUT has set is not set back by the POST, which saves    *)
(* the order with the status NEW, once the PUT has read the saved path;    *)
(* nor by a request for an item that saves the order as it has found it.   *)
StatusKept == \A o \in edited : order[o].exists => order[o].status \in EditedTo

(* The invariant that the properties of the stock and of the invoices rest *)
(* on: what the copies that the requests have read are worth by the time   *)
(* they are saved.                                                         *)
CopiesConsistent ==
  /\ TypeOK /\ JobsFormed
  /\ UnitsAccounted /\ WritesAccounted /\ SoldFromStock
  /\ InvoicesFollowed /\ PathSavedOnce /\ PathsFollowed
  /\ InvoicePathKept /\ StatusKept

(* Every request is answered: orders that want each other's products are   *)
(* told apart, and a rollback frees what the others wait for.              *)
EveryRequestAnswered == \A r \in Requests : (~At(r, "idle")) ~> At(r, "idle")
=============================================================================
