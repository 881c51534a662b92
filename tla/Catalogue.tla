----------------------------- MODULE Catalogue -----------------------------
(***************************************************************************)
(* The products and their images: src/src/services/product.service.ts,     *)
(* with the sale of a product as order.service.ts makes it.  A product is  *)
(* a row; its image is a file in the upload directory that the row names.  *)
(* Uploads, creations and sales read a product, keep the copy, and save()  *)
(* all of it later: TypeORM reads the row once more and writes the columns *)
(* that differ from the copy, whoever has changed them meanwhile.          *)
(*                                                                         *)
(* uploadProductImage writes to /app/uploads and looks for the old image   *)
(* under the directory of its own compiled file: which directory that is   *)
(* depends on the build, so both are modelled (resolves).  A sale is one   *)
(* line of Orders; what its transaction does after the UPDATE is one step. *)
(***************************************************************************)
EXTENDS Integers, FiniteSets

CONSTANTS
  Requests,      \* HTTP requests in flight at once
  Shared,        \* images that several products name: those of the seed and
                 \* the default of the column
  Default,       \* uploads/placeholder.jpg
  Uploads,       \* names of uploaded files, uuids
  NoFile,
  Seeded,        \* seeded products, 1 .. Seeded
  SeedStock,     \* their stock_quantity
  Restocked,     \* values of stock_quantity that POST and PUT set
  MaxProducts,   \* bound: products that are ever created
  MaxLent        \* bound: images that bodies give

ASSUME CatalogueAssumption ==
  /\ Default \in Shared
  /\ NoFile \notin Shared \cup Uploads
  /\ Shared \cap Uploads = {}
  /\ Seeded \in Nat /\ MaxProducts \in Nat /\ MaxLent \in Nat /\ Seeded <= MaxProducts
  /\ SeedStock \in Nat /\ Restocked \subseteq Nat

VARIABLES
  resolves,     \* does the path of an old image lead to the upload directory?
  row,          \* row[p]: the row of product p
  created,      \* how many product ids have been given out
  disk,         \* the files of the upload directory
  job,          \* job[r]: where request r is and the copy it holds
  removing,     \* removing[r]: the file whose removal r has begun
  balance,      \* history: balance[p], the stock as sales and restocks add up
  overwritten,  \* history: products whose stock was saved on an old read, and
                \* that have not been restocked since
  torn,         \* history: products whose image a sale has put back, or whose
                \* upload stopped half way, and that have no other image since
  lent          \* history: the images that bodies have given to products

vars == <<resolves, row, created, disk, job, removing, balance, overwritten, torn, lent>>

-----------------------------------------------------------------------------
Ids == 1 .. MaxProducts
Images == Shared \cup Uploads
Columns == {"stock", "image"}

\* The image is NoFile where a body has cleared it.
Row == [exists: BOOLEAN, stock: Nat, image: Images \cup {NoFile}]
NoRow == [exists |-> FALSE, stock |-> 0, image |-> Default]

(* Where a request is:                                                     *)
(*   read   it has read or inserted the product, its file comes next       *)
(*   save   save() is to read the row once more                            *)
(*   write  it has: the columns that differ from the copy are to be        *)
(*          written, or the row is missing and is to be inserted           *)
(* copy is the row as it was read, with what the request has set in it,    *)
(* removed: the removal of the old image has begun, stale: the stock was   *)
(* no longer what had been read when save() read the row (history).        *)
Job == [pc: {"idle", "read", "save", "write"}, kind: {"none", "create", "upload", "sale"},
        id: 0 .. MaxProducts, copy: Row, columns: SUBSET Columns,
        missing: BOOLEAN, removed: BOOLEAN, stale: BOOLEAN]

Idle == [pc |-> "idle", kind |-> "none", id |-> 0, copy |-> NoRow, columns |-> {},
         missing |-> FALSE, removed |-> FALSE, stale |-> FALSE]

At(r, step) == job[r].pc = step
Product(r) == job[r].id
Become(r, state) == job' = [job EXCEPT ![r] = state]
Finish(r) == Become(r, Idle)

Holds(r, kind, step, p, copy) ==
  Become(r, [Idle EXCEPT !.pc = step, !.kind = kind, !.id = p, !.copy = copy])

\* A slot is free once the removal it has begun is over.
Free(r) == At(r, "idle") /\ removing[r] = NoFile

\* A new file: a uuid is like no name in use.
NewFiles ==
  Uploads \ (disk \cup lent \cup {row[p].image : p \in Ids}
                 \cup UNION {{job[r].copy.image, removing[r]} : r \in Requests})

histories == <<balance, overwritten, torn, lent>>

Init ==
  /\ resolves \in BOOLEAN
  /\ row = [p \in Ids |-> IF p <= Seeded
                         THEN [exists |-> TRUE, stock |-> SeedStock, image |-> Default]
                         ELSE NoRow]
  /\ created = Seeded
  /\ disk = Shared
  /\ job = [r \in Requests |-> Idle]
  /\ removing = [r \in Requests |-> NoFile]
  /\ balance = [p \in Ids |-> row[p].stock]
  /\ overwritten = {}
  /\ torn = {}
  /\ lent = {}

-----------------------------------------------------------------------------
(* POST /products and POST /products/:id/image                             *)

\* create inserts the row with the default image; its file, if any, is next.
Create(r, quantity) ==
  LET p == created + 1
      new == [exists |-> TRUE, stock |-> quantity, image |-> Default]
  IN  /\ Free(r) /\ created < MaxProducts
      /\ created' = p
      /\ row' = [row EXCEPT ![p] = new]
      /\ balance' = [balance EXCEPT ![p] = quantity]
      /\ Holds(r, "create", "read", p, new) \/ UNCHANGED job
      /\ UNCHANGED <<resolves, disk, removing, overwritten, torn, lent>>

\* uploadProductImage finds the product.
ReadForUpload(r, p) ==
  /\ Free(r) /\ row[p].exists
  /\ Holds(r, "upload", "read", p, row[p])
  /\ UNCHANGED <<resolves, row, created, disk, removing, histories>>

(* existsSync and fs.rm: the removal of the old image begins; it is over   *)
(* when the thread pool has got to it.                                     *)
RemovalBegins(r) ==
  job[r].kind = "upload" /\ resolves /\ job[r].copy.image \in disk

BeginRemoval(r) ==
  removing' = IF RemovalBegins(r) THEN [removing EXCEPT ![r] = job[r].copy.image]
              ELSE removing

\* Mutant: the file is written beside the compiled code, as the old one is sought.
StoredBeside(f) == IF resolves THEN disk \cup {f} ELSE disk
Stored(f) == disk \cup {f}

\* writeFileSync, and the image of the copy is set; save() comes next.
WriteFile(r) ==
  /\ At(r, "read")
  /\ \E f \in NewFiles :
       /\ disk' = Stored(f)
       /\ Become(r, [job[r] EXCEPT !.pc = "save", !.copy.image = f,
                                   !.removed = RemovalBegins(r)])
  /\ BeginRemoval(r)
  /\ UNCHANGED <<resolves, row, created, histories>>

\* The product of a request that stops when its old image is being removed.
Torn(R) == {Product(r) : r \in {q \in R : job[q].removed}}

\* The file cannot be written, when the removal of the old one has begun.
WriteFileFails(r) ==
  /\ At(r, "read")
  /\ BeginRemoval(r)
  /\ torn' = IF RemovalBegins(r) THEN torn \cup {Product(r)} ELSE torn
  /\ Finish(r)
  /\ UNCHANGED <<resolves, row, created, disk, balance, overwritten, lent>>

-----------------------------------------------------------------------------
(* save() of a copy                                                        *)

\* Mutant: a save writes the image alone.
ImageOnly(r) == {c \in {"image"} : row[Product(r)][c] # job[r].copy[c]}

\* The columns that save() finds to differ from the copy.
Differing(r) == {c \in Columns : row[Product(r)][c] # job[r].copy[c]}

\* The stock that a request has read.
StockRead(r) == job[r].copy.stock + IF job[r].kind = "sale" THEN 1 ELSE 0

\* The stock is no longer, or was not, what the copy was made from.
Stale(r) ==
  LET now == row[Product(r)]
  IN  job[r].stale \/ ~now.exists \/ now.stock # StockRead(r)

\* save() reads the row once more.
SaveReads(r) ==
  /\ At(r, "save")
  /\ LET exists == row[Product(r)].exists
     IN  Become(r, [job[r] EXCEPT !.pc = "write", !.missing = ~exists,
                                  !.columns = IF exists THEN Differing(r) ELSE Columns,
                                  !.stale = Stale(r)])
  /\ UNCHANGED <<resolves, row, created, disk, removing, histories>>

\* What a row is after the columns of the copy are written.
Merged(r) ==
  LET copied == job[r].columns
      copy == job[r].copy
  IN  [row[Product(r)] EXCEPT !.stock = IF "stock" \in copied THEN copy.stock ELSE @,
                              !.image = IF "image" \in copied THEN copy.image ELSE @]

(* The histories of a product that is saved.  The balance is of no use     *)
(* once the stock was saved on an old read, until the next restock; the    *)
(* file of an upload is there, so its image is whole again.                *)
Accounted(r, p) ==
  LET sale == job[r].kind = "sale"
  IN  /\ overwritten' = IF Stale(r) /\ (sale \/ "stock" \in job[r].columns)
                        THEN overwritten \cup {p} ELSE overwritten
      /\ balance' = [balance EXCEPT ![p] = IF p \in overwritten' THEN 0
                                           ELSE IF sale THEN @ - 1 ELSE @]
      /\ torn' = IF "image" \notin job[r].columns THEN torn
                 ELSE IF sale THEN torn \cup {p} ELSE torn \ {p}

(* The UPDATE, which finds nothing to change if the row has been deleted   *)
(* since, or the INSERT of a row that was missing, which fails if it is    *)
(* there again.  The sale is committed.                                    *)
SaveWrites(r) ==
  LET p == Product(r)
      there == row[p].exists
  IN  /\ At(r, "write")
      /\ ~(there /\ job[r].missing)
      /\ row' = IF there THEN [row EXCEPT ![p] = Merged(r)]
                ELSE IF job[r].missing THEN [row EXCEPT ![p] = job[r].copy]
                ELSE row
      /\ Accounted(r, p)
      /\ Finish(r)
      /\ UNCHANGED <<resolves, created, disk, removing, lent>>

\* The statement fails: 500, or the rollback of the order.
SaveFails(r) ==
  /\ job[r].pc \in {"save", "write"}
  /\ torn' = torn \cup Torn({r})
  /\ Finish(r)
  /\ UNCHANGED <<resolves, row, created, disk, removing, balance, overwritten, lent>>

-----------------------------------------------------------------------------
(* A line of an order, PUT and DELETE of products                          *)

Enough(p) == row[p].stock >= 1

\* createOrderItems of order.service.ts: the copy has one unit less.
Sell(r, p) ==
  /\ Free(r) /\ row[p].exists /\ Enough(p)
  /\ Holds(r, "sale", "save", p, [row[p] EXCEPT !.stock = @ - 1])
  /\ UNCHANGED <<resolves, row, created, disk, removing, histories>>

\* The files that requests have written and are about to save: uuids nobody else knows.
Unsaved ==
  {job[r].copy.image : r \in {q \in Requests : /\ job[q].pc \in {"save", "write"}
                                               /\ job[q].kind # "sale"}}

\* Nothing looks at the image that a body names.
BodyImages == (Images \cup {NoFile}) \ Unsaved

(* update writes the columns of the body, given, alone: without an image   *)
(* in it, the product keeps the one it has.  The image of a body may be one*)
(* that is not there, or another product's.                                *)
Update(p, given, quantity, image) ==
  LET other == image # row[p].image
  IN  /\ row[p].exists
      /\ other => "image" \in given
      /\ row' = [row EXCEPT ![p].stock = IF "stock" \in given THEN quantity ELSE @,
                            ![p].image = image]
      /\ balance' = IF "stock" \in given THEN [balance EXCEPT ![p] = quantity] ELSE balance
      /\ overwritten' = IF "stock" \in given THEN overwritten \ {p} ELSE overwritten
      /\ torn' = IF other THEN torn \ {p} ELSE torn
      /\ lent' = IF other THEN lent \cup {image} ELSE lent
      /\ Cardinality(lent') <= MaxLent
      /\ UNCHANGED <<resolves, created, disk, job, removing>>

\* remove deletes the row; the image stays.
Remove(p) ==
  /\ row[p].exists
  /\ row' = [row EXCEPT ![p] = NoRow]
  /\ balance' = [balance EXCEPT ![p] = 0]
  /\ overwritten' = overwritten \ {p}
  /\ torn' = torn \ {p}
  /\ UNCHANGED <<resolves, created, disk, job, removing, lent>>

-----------------------------------------------------------------------------
(* The end of a removal, and of the process                                *)

Die(left) ==
  /\ job' = [r \in Requests |-> Idle]
  /\ removing' = [r \in Requests |-> NoFile]
  /\ torn' = torn \cup Torn(Requests)
  /\ disk' = left
  /\ UNCHANGED <<resolves, row, created, balance, overwritten, lent>>

\* fs.rm is over: the callback throws if the file was gone, and nobody catches it.
Removed(r) ==
  /\ removing[r] # NoFile
  /\ IF removing[r] \in disk
     THEN /\ disk' = disk \ {removing[r]}
          /\ removing' = [removing EXCEPT ![r] = NoFile]
          /\ UNCHANGED <<resolves, row, created, job, histories>>
     ELSE Die(disk)

\* The process dies: a removal under way may or may not be over.
Crash ==
  /\ \E r \in Requests : ~Free(r)
  /\ \E gone \in SUBSET {removing[r] : r \in Requests} : Die(disk \ gone)

Next ==
  \/ \E r \in Requests :
       \/ \E quantity \in Restocked : Create(r, quantity)
       \/ \E p \in Ids : ReadForUpload(r, p) \/ Sell(r, p)
       \/ WriteFile(r) \/ WriteFileFails(r)
       \/ SaveReads(r) \/ SaveWrites(r) \/ SaveFails(r)
       \/ Removed(r)
  \/ \E p \in Ids :
       \/ Remove(p)
       \/ \E given \in (SUBSET Columns) \ {{}}, quantity \in Restocked, image \in BodyImages :
            Update(p, given, quantity, image)
  \/ Crash

Spec == Init /\ [][Next]_vars

-----------------------------------------------------------------------------
(* Properties                                                              *)

TypeOK ==
  /\ resolves \in BOOLEAN
  /\ row \in [Ids -> Row]
  /\ created \in 0 .. MaxProducts
  /\ disk \subseteq Images
  /\ job \in [Requests -> Job]
  /\ removing \in [Requests -> Images \cup {NoFile}]
  /\ balance \in [Ids -> Int]
  /\ overwritten \subseteq Ids /\ torn \subseteq Ids
  /\ lent \subseteq Images \cup {NoFile}

(* The stock of a product is what its restocks and sales add up to, unless *)
(* a sale or an upload saved it on a read that had become old: an upload   *)
(* brings sold units back only when a sale was committed in between.       *)
StockKept ==
  \A p \in Ids \ overwritten : row[p].exists => row[p].stock = balance[p]

(* The image a product names is there, unless it is one that a body gave   *)
(* to a product, which nothing checks.  Where the old image is found and   *)
(* removed, which comes before the row is saved, the exceptions are a      *)
(* product whose upload is under way or stopped half way, one whose image  *)
(* was saved on an old read (a sale in flight puts the removed image back) *)
(* and an image that several products share.                               *)
ImageOnDisk ==
  \A p \in Ids :
    row[p].exists /\ row[p].image \notin disk \cup lent \cup {NoFile} =>
      /\ resolves
      /\ row[p].image \in Shared \/ p \in torn \cup Torn(Requests)
=============================================================================
