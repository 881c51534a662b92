--------------------------- MODULE CatalogueProofs ---------------------------
(***************************************************************************)
(* Proofs about Catalogue, for any requests, files and products.  The      *)
(* stock needs to know what save() finds to differ; the images need to     *)
(* know that no two products have an uploaded file in common, not even in  *)
(* a copy, unless a body has given it to one of them, and that the file of *)
(* an upload is its own until the row is saved.                            *)
(***************************************************************************)
EXTENDS Catalogue, TLAPS

-----------------------------------------------------------------------------
(* The inductive invariant                                                 *)

Uploading(r) == job[r].kind \in {"create", "upload"}

\* What a request holds at each of its steps.
Formed ==
  /\ \A r \in Requests :
       /\ At(r, "idle") => job[r] = Idle
       /\ At(r, "read") => Uploading(r) /\ ~job[r].removed
       /\ job[r].pc \in {"save", "write"} => Uploading(r) \/ job[r].kind = "sale"
       /\ ~At(r, "idle") => Product(r) \in Ids /\ job[r].copy.exists
       /\ job[r].removed => job[r].kind = "upload"
  /\ \A p \in Ids : ~row[p].exists => row[p].image = Default

(* save() writes the stock if the request sold a unit, or if the stock was *)
(* no longer what it had read.                                             *)
Priced ==
  \A r \in Requests :
    At(r, "write") =>
      /\ job[r].missing => job[r].columns = Columns /\ job[r].stale
      /\ ~job[r].missing /\ ~job[r].stale =>
           ("stock" \in job[r].columns <=> job[r].kind = "sale")

\* Product p is, or may come to be, the one that names file f.
Names(p, f) ==
  \/ p \in Ids /\ row[p].image = f
  \/ \E r \in Requests : Product(r) = p /\ job[r].copy.image = f

Owned == \A f \in Uploads \ lent, p, q \in 0 .. MaxProducts : Names(p, f) /\ Names(q, f) => p = q

\* The file that request r has written, and whose name it is about to save.
Private(r) ==
  LET f == job[r].copy.image
  IN  /\ f \in Uploads \cap disk
      /\ \A q \in Requests : /\ removing[q] # f
                             /\ q # r => job[q].copy.image # f
      /\ \A p \in Ids : row[p].image # f

AllPrivate ==
  \A r \in Requests :
    job[r].pc \in {"save", "write"} /\ Uploading(r) =>
      /\ Private(r)
      /\ At(r, "write") => "image" \in job[r].columns

\* Where old images are not found no file is ever removed.
Grounded ==
  ~resolves =>
    /\ Shared \subseteq disk
    /\ \A r \in Requests : removing[r] = NoFile /\ job[r].copy.image \in disk \cup lent
    /\ \A p \in Ids : row[p].image \in disk \cup lent

\* A file that a product names goes only with the product's being torn.
Guarded ==
  \A p \in Ids :
    /\ row[p].image \in Uploads \ lent
    /\ row[p].image \notin disk \/ \E r \in Requests : removing[r] = row[p].image
    => p \in torn \cup Torn(Requests)

IInv == /\ TypeOK /\ Formed /\ Priced /\ StockKept
        /\ Owned /\ AllPrivate /\ Grounded /\ Guarded

-----------------------------------------------------------------------------
(* Records and names                                                       *)

LEMMA RowFields ==
  ASSUME NEW x \in Row
  PROVE  x.exists \in BOOLEAN /\ x.stock \in Nat /\ x.image \in Images \cup {NoFile}
  BY DEF Row

LEMMA Typed ==
  ASSUME TypeOK
  PROVE  /\ row \in [Ids -> Row] /\ job \in [Requests -> Job]
         /\ removing \in [Requests -> Images \cup {NoFile}]
         /\ \A r \in Requests :
              /\ job[r] \in Job /\ job[r].copy \in Row
              /\ job[r].copy.image \in Images \cup {NoFile} /\ job[r].copy.stock \in Nat
              /\ job[r].id \in 0 .. MaxProducts
              /\ job[r].pc \in {"idle", "read", "save", "write"}
              /\ job[r].kind \in {"none", "create", "upload", "sale"}
              /\ job[r].missing \in BOOLEAN /\ job[r].removed \in BOOLEAN
              /\ job[r].columns \subseteq Columns /\ job[r].stale \in BOOLEAN
         /\ \A p \in Ids : /\ row[p].exists \in BOOLEAN /\ row[p].stock \in Nat
                           /\ row[p].image \in Images \cup {NoFile}
         /\ Ids \subseteq 0 .. MaxProducts
  <1>1. row \in [Ids -> Row] /\ job \in [Requests -> Job]
        /\ removing \in [Requests -> Images \cup {NoFile}]
    BY DEF TypeOK
  <1>2. \A r \in Requests :
              /\ job[r] \in Job /\ job[r].copy \in Row
              /\ job[r].id \in 0 .. MaxProducts
              /\ job[r].pc \in {"idle", "read", "save", "write"}
              /\ job[r].kind \in {"none", "create", "upload", "sale"}
              /\ job[r].missing \in BOOLEAN /\ job[r].removed \in BOOLEAN
              /\ job[r].columns \subseteq Columns /\ job[r].stale \in BOOLEAN
    BY <1>1 DEF Job
  <1>3. Ids \subseteq 0 .. MaxProducts
    BY CatalogueAssumption DEF Ids
  <1> QED
    BY <1>1, <1>2, <1>3, RowFields

LEMMA IdleFields ==
  /\ NoRow \in Row /\ ~NoRow.exists /\ NoRow.stock = 0 /\ NoRow.image = Default
  /\ Idle \in Job /\ Idle.pc = "idle" /\ Idle.kind = "none" /\ Idle.id = 0
  /\ Idle.copy = NoRow /\ Idle.missing = FALSE
  /\ Idle.removed = FALSE /\ Idle.columns = {} /\ Idle.stale = FALSE
  <1>1. NoRow \in Row /\ ~NoRow.exists /\ NoRow.stock = 0 /\ NoRow.image = Default
    BY CatalogueAssumption DEF NoRow, Row, Images
  <1> HIDE DEF NoRow
  <1>2. 0 \in 0 .. MaxProducts
    BY CatalogueAssumption
  <1> QED
    BY <1>1, <1>2 DEF Idle, Job

\* The job of a request that begins with product p.
Begun(step, kind, p, copy) ==
  [Idle EXCEPT !.pc = step, !.kind = kind, !.id = p, !.copy = copy]

LEMMA BegunJob ==
  ASSUME NEW p \in Ids, NEW copy \in Row,
         NEW step \in {"read", "save"}, NEW kind \in {"create", "upload", "sale"}
  PROVE  /\ Begun(step, kind, p, copy) \in Job
         /\ Begun(step, kind, p, copy).pc = step
         /\ Begun(step, kind, p, copy).kind = kind
         /\ Begun(step, kind, p, copy).id = p
         /\ Begun(step, kind, p, copy).copy = copy
         /\ ~Begun(step, kind, p, copy).removed
  <1>1. p \in 0 .. MaxProducts
    BY CatalogueAssumption DEF Ids
  <1> QED
    BY <1>1, IdleFields DEF Job, Begun

\* Where the images of a step of request r come from.
Sourced(r, j) ==
  /\ \/ j.copy.image \in Shared \cup NewFiles
     \/ j.id = Product(r) /\ j.copy.image = job[r].copy.image
     \/ j.id \in Ids /\ j.copy.image = row[j.id].image
  /\ \A p \in Ids : \/ row'[p].image \in Shared \cup {row[p].image}
                    \/ p = Product(r) /\ row'[p].image = job[r].copy.image

LEMMA NewFilesUnnamed ==
  ASSUME TypeOK, NEW f \in NewFiles
  PROVE  /\ f \in Uploads /\ f \notin disk
         /\ \A p \in Ids : row[p].image # f
         /\ \A r \in Requests : job[r].copy.image # f /\ removing[r] # f
         /\ \A p : ~Names(p, f)
  <1>1. /\ f \in Uploads /\ f \notin disk
        /\ \A p \in Ids : row[p].image # f
        /\ \A r \in Requests : job[r].copy.image # f /\ removing[r] # f
    BY DEF NewFiles
  <1> QED
    BY <1>1 DEF Names

LEMMA OwnedKept ==
  ASSUME IInv, NEW r \in Requests, NEW j \in Job, job' = [job EXCEPT ![r] = j],
         Sourced(r, j), lent' = lent
  PROVE  Owned'
  <1> USE Typed DEF IInv
  <1> DEFINE g == j.copy.image
  <1>1. job'[r] = j /\ \A q \in Requests : q # r => job'[q] = job[q]
    OBVIOUS
  <1>2. Shared \cap Uploads = {}
    BY CatalogueAssumption
  <1>3. ASSUME NEW f \in Uploads, NEW p \in 0 .. MaxProducts, Names(p, f)'
        PROVE  Names(p, f) \/ (f \in NewFiles /\ f = g /\ p = j.id)
    <2>1. CASE p \in Ids /\ row'[p].image = f
      BY <1>2, <2>1 DEF Sourced, Names, Product
    <2>2. ASSUME NEW q \in Requests, q # r, job'[q].id = p,
                 job'[q].copy.image = f
          PROVE  Names(p, f)
      BY <1>1, <2>2 DEF Names, Product
    <2>3. CASE j.id = p /\ f = j.copy.image
      BY <1>2, <2>3 DEF Sourced, Names, Product
    <2> QED
      BY <1>1, <1>3, <2>1, <2>2, <2>3 DEF Names, Product
  <1>4. \A f \in NewFiles, p \in 0 .. MaxProducts : ~Names(p, f)
    BY NewFilesUnnamed
  <1> QED
    BY <1>3, <1>4 DEF Owned

\* The files that others are about to save are left alone.
LEMMA OthersPrivate ==
  ASSUME IInv, NEW r \in Requests, NEW j \in Job, job' = [job EXCEPT ![r] = j],
         Sourced(r, j),
         disk \subseteq disk',
         \A q \in Requests : removing'[q] \in {removing[q], job[r].copy.image, NoFile},
         NEW q \in Requests \ {r}, Private(q)
  PROVE  Private(q)'
  <1> USE Typed DEF IInv
  <1> DEFINE f == job[q].copy.image
  <1>1. /\ f \in Uploads /\ f \in disk /\ f \notin Shared /\ f # NoFile
        /\ \A k \in Requests : /\ removing[k] # f
                               /\ k # q => job[k].copy.image # f
        /\ \A p \in Ids : row[p].image # f
    BY CatalogueAssumption DEF Private
  <1>2. job'[q] = job[q] /\ job'[r] = j
        /\ \A k \in Requests : k # r => job'[k] = job[k]
    OBVIOUS
  <1>3. f \notin NewFiles
    BY NewFilesUnnamed
  <1>4. j.copy.image # f /\ \A p \in Ids : row'[p].image # f
    BY <1>1, <1>3 DEF Sourced
  <1>5. \A k \in Requests : removing'[k] # f
    BY <1>1
  <1> QED
    BY <1>1, <1>2, <1>4, <1>5 DEF Private

-----------------------------------------------------------------------------
(* A step of one request                                                   *)

GoodJob(j) ==
  /\ j.pc = "idle" => j = Idle
  /\ j.pc = "read" => j.kind \in {"create", "upload"} /\ ~j.removed
  /\ j.pc \in {"save", "write"} => j.kind \in {"create", "upload", "sale"}
  /\ j.pc # "idle" => j.id \in Ids /\ j.copy.exists
  /\ j.removed => j.kind = "upload"
  /\ j.pc = "write" =>
       /\ j.missing => j.columns = Columns /\ j.stale
       /\ ~j.missing /\ ~j.stale =>
            ("stock" \in j.columns <=> j.kind = "sale")

LEMMA JobsGood ==
  /\ Formed /\ Priced <=>
       /\ \A r \in Requests : GoodJob(job[r])
       /\ \A p \in Ids : ~row[p].exists => row[p].image = Default
  /\ GoodJob(Idle)
  <1>1. GoodJob(Idle)
    BY IdleFields DEF GoodJob
  <1> QED
    BY <1>1 DEF GoodJob, Formed, Priced, At, Uploading, Product

LEMMA JobsStayGood ==
  ASSUME IInv, NEW r \in Requests, NEW j \in Job, job' = [job EXCEPT ![r] = j], GoodJob(j),
         \A p \in Ids : ~row'[p].exists => row'[p].image = Default
  PROVE  Formed' /\ Priced'
  <1>1. \A q \in Requests : GoodJob(job[q])
    BY JobsGood DEF IInv
  <1>2. \A q \in Requests : GoodJob(job'[q])
    BY <1>1, Typed DEF IInv
  <1> QED
    BY <1>2 DEF GoodJob, Formed, Priced, At, Uploading, Product

LEMMA TornStays ==
  ASSUME IInv, NEW r \in Requests, NEW j \in Job, job' = [job EXCEPT ![r] = j]
  PROVE  /\ Torn(Requests) \subseteq Torn(Requests)' \cup Torn({r})
         /\ j.removed => j.id \in Torn(Requests)'
         /\ ~job[r].removed => Torn({r}) = {}
         /\ job[r].removed /\ j.removed /\ j.id = Product(r) =>
              Torn({r}) \subseteq Torn(Requests)'
         /\ \A p : p \in Torn({r}) => p = Product(r)
  <1>1. job'[r] = j /\ \A q \in Requests : q # r => job'[q] = job[q]
    BY Typed DEF IInv
  <1> QED
    BY <1>1 DEF Torn, Product

\* What a step of one request must see to.
LEMMA StepKeeps ==
  ASSUME IInv, NEW r \in Requests, NEW j \in Job, job' = [job EXCEPT ![r] = j],
         Sourced(r, j), GoodJob(j),
         \A p \in Ids : ~row'[p].exists => row'[p].image = Default,
         TypeOK', StockKept', Guarded',
         UNCHANGED <<resolves, lent>>, disk \subseteq disk',
         \A q \in Requests : removing'[q] \in {removing[q], job[r].copy.image, NoFile},
         ~resolves => \A q \in Requests : removing'[q] = NoFile,
         j.copy.image \in NewFiles => j.copy.image \in disk',
         j.pc \in {"save", "write"} /\ j.kind \in {"create", "upload"} =>
           Private(r)' /\ (j.pc = "write" => "image" \in j.columns)
  PROVE  IInv'
  <1> USE Typed DEF IInv
  <1>1. Formed' /\ Priced'
    BY JobsStayGood
  <1>2. Owned'
    BY OwnedKept
  <1>3. job'[r] = j /\ \A q \in Requests : q # r => job'[q] = job[q]
    OBVIOUS
  <1>4. AllPrivate'
    <2> SUFFICES ASSUME NEW q \in Requests,
                        job'[q].pc \in {"save", "write"}, job'[q].kind \in {"create", "upload"}
                 PROVE  Private(q)' /\ (job'[q].pc = "write" => "image" \in job'[q].columns)
      BY DEF AllPrivate, At, Uploading
    <2>1. CASE q = r
      BY <1>3, <2>1
    <2>2. CASE q # r
      <3>1. job'[q] = job[q]
        BY <1>3, <2>2
      <3>2. Private(q) /\ (job[q].pc = "write" => "image" \in job[q].columns)
        BY <3>1 DEF AllPrivate, At, Uploading
      <3>3. Private(q)'
        BY <2>2, <3>2, OthersPrivate
      <3> QED
        BY <3>1, <3>2, <3>3
    <2> QED
      BY <2>1, <2>2
  <1>5. Grounded'
    <2> SUFFICES ASSUME ~resolves
                 PROVE  /\ Shared \subseteq disk'
                        /\ \A q \in Requests : /\ removing'[q] = NoFile
                                               /\ job'[q].copy.image \in disk' \cup lent
                        /\ \A p \in Ids : row'[p].image \in disk' \cup lent
      BY DEF Grounded
    <2>1. Shared \subseteq disk
      BY DEF Grounded
    <2>2. /\ \A q \in Requests : job[q].copy.image \in disk \cup lent
          /\ \A p \in Ids : row[p].image \in disk \cup lent
      BY DEF Grounded
    <2>3. \A p \in Ids : row'[p].image \in disk' \cup lent
      BY <2>1, <2>2 DEF Sourced
    <2>4. j.copy.image \in disk' \cup lent
      BY <2>1, <2>2 DEF Sourced
    <2> QED
      BY <1>3, <2>1, <2>2, <2>3, <2>4
  <1> QED
    BY <1>1, <1>2, <1>4, <1>5

(* Nothing is torn when no image and no file changes, but for images that  *)
(* many share.                                                             *)
LEMMA GuardedKept ==
  ASSUME IInv, \A p \in Ids : row'[p].image \in Shared \cup {row[p].image},
         disk \subseteq disk', UNCHANGED <<removing, lent>>,
         torn \cup Torn(Requests) \subseteq torn' \cup Torn(Requests)'
  PROVE  Guarded'
  <1>1. Shared \cap Uploads = {}
    BY CatalogueAssumption
  <1> QED
    BY <1>1 DEF IInv, Guarded

-----------------------------------------------------------------------------
(* Requests that begin                                                     *)

\* A request begins with product p, or has done all it does.
LEMMA BeginKeeps ==
  ASSUME IInv, NEW r \in Requests, Free(r), NEW j \in Job, job' = [job EXCEPT ![r] = j],
         j = Idle \/ (/\ GoodJob(j) /\ ~j.removed
                      /\ j.id \in Ids /\ j.copy.image \in Shared \cup {row[j.id].image}
                      /\ j.pc = "read" \/ (j.pc = "save" /\ j.kind = "sale")),
         \A p \in Ids : /\ row'[p].image \in Shared \cup {row[p].image}
                        /\ ~row'[p].exists => row'[p].image = Default,
         TypeOK', StockKept',
         UNCHANGED <<resolves, disk, removing, torn, lent>>
  PROVE  IInv'
  <1> USE Typed, IdleFields DEF IInv
  <1>1. GoodJob(j) /\ ~j.removed
    BY JobsGood
  <1>2. Sourced(r, j)
    BY CatalogueAssumption DEF Sourced
  <1>3. ~job[r].removed
    BY DEF Free, Formed
  <1>4. Guarded'
    BY <1>3, TornStays, GuardedKept
  <1>5. ~(j.pc \in {"save", "write"} /\ j.kind \in {"create", "upload"})
    OBVIOUS
  <1>6. j.copy.image \notin NewFiles
    BY NewFilesUnnamed, CatalogueAssumption
  <1>7. ~resolves => \A q \in Requests : removing'[q] = NoFile
    BY DEF Grounded
  <1> QED
    BY <1>1, <1>2, <1>4, <1>5, <1>6, <1>7, StepKeeps

LEMMA CreateKeeps ==
  ASSUME IInv, NEW r \in Requests, NEW quantity \in Restocked, Create(r, quantity)
  PROVE  IInv'
  <1> USE Typed, IdleFields DEF IInv
  <1> DEFINE p == created + 1
             new == [exists |-> TRUE, stock |-> quantity, image |-> Default]
             begun == Begun("read", "create", p, new)
  <1>1. /\ Free(r) /\ created < MaxProducts /\ created' = p
        /\ row' = [row EXCEPT ![p] = new] /\ balance' = [balance EXCEPT ![p] = quantity]
        /\ job' = [job EXCEPT ![r] = begun] \/ job' = job
        /\ UNCHANGED <<resolves, disk, removing, overwritten, torn, lent>>
    BY DEF Create, Holds, Become, Begun
  <1>2. p \in Ids /\ p \in 0 .. MaxProducts
    BY <1>1, CatalogueAssumption DEF TypeOK, Ids
  <1>3. /\ new \in Row /\ new.exists /\ new.image = Default /\ new.stock = quantity
        /\ quantity \in Nat
    BY CatalogueAssumption DEF Row, Images
  <1>4. /\ begun \in Job /\ begun.pc = "read" /\ begun.kind = "create" /\ begun.id = p
        /\ begun.copy = new /\ ~begun.removed
    BY <1>2, <1>3, BegunJob
  <1> HIDE DEF p, new, begun
  <1>5. PICK j \in Job : /\ job' = [job EXCEPT ![r] = j]
                         /\ j = Idle \/ j = begun
    <2>1. job[r] = Idle
      BY <1>1 DEF Free, Formed
    <2>2. job' = job => job' = [job EXCEPT ![r] = Idle]
      BY <2>1
    <2> QED
      BY <1>1, <1>4, <2>2
  <1>6. j = begun => GoodJob(j)
    BY <1>2, <1>3, <1>4 DEF GoodJob
  <1>7. TypeOK'
    BY <1>1, <1>2, <1>3, <1>5 DEF TypeOK
  <1>8. StockKept'
    BY <1>1, <1>2, <1>3 DEF StockKept, TypeOK
  <1>9. \A q \in Ids : /\ row'[q].image \in Shared \cup {row[q].image}
                       /\ ~row'[q].exists => row'[q].image = Default
    BY <1>1, <1>2, <1>3, CatalogueAssumption DEF Formed
  <1>10. j = Idle \/ (/\ GoodJob(j) /\ ~j.removed
                      /\ j.id \in Ids /\ j.copy.image \in Shared \cup {row[j.id].image}
                      /\ j.pc = "read" \/ (j.pc = "save" /\ j.kind = "sale"))
    BY <1>2, <1>3, <1>4, <1>5, <1>6, CatalogueAssumption
  <1> QED
    BY <1>1, <1>5, <1>7, <1>8, <1>9, <1>10, BeginKeeps

LEMMA ReadKeeps ==
  ASSUME IInv, NEW r \in Requests, NEW p \in Ids, ReadForUpload(r, p)
  PROVE  IInv'
  <1> USE Typed DEF IInv
  <1> DEFINE j == Begun("read", "upload", p, row[p])
  <1>1. /\ Free(r) /\ row[p].exists /\ job' = [job EXCEPT ![r] = j]
        /\ UNCHANGED <<resolves, row, created, disk, removing, histories>>
    BY DEF ReadForUpload, Holds, Become, Begun
  <1>2. /\ j \in Job /\ j.pc = "read" /\ j.kind = "upload" /\ j.id = p
        /\ j.copy = row[p] /\ ~j.removed
    <2>1. row[p] \in Row
      OBVIOUS
    <2> QED
      BY <2>1, BegunJob
  <1> HIDE DEF j
  <1>3. GoodJob(j)
    BY <1>1, <1>2 DEF GoodJob
  <1>4. TypeOK' /\ StockKept'
    BY <1>1, <1>2 DEF TypeOK, StockKept, histories
  <1>5. \A q \in Ids : /\ row'[q].image \in Shared \cup {row[q].image}
                       /\ ~row'[q].exists => row'[q].image = Default
    BY <1>1 DEF Formed
  <1> QED
    BY <1>1, <1>2, <1>3, <1>4, <1>5, BeginKeeps DEF histories

LEMMA SellKeeps ==
  ASSUME IInv, NEW r \in Requests, NEW p \in Ids, Sell(r, p)
  PROVE  IInv'
  <1> USE Typed DEF IInv
  <1> DEFINE copy == [row[p] EXCEPT !.stock = @ - 1]
             j == Begun("save", "sale", p, copy)
  <1>1. /\ Free(r) /\ row[p].exists /\ row[p].stock >= 1 /\ job' = [job EXCEPT ![r] = j]
        /\ UNCHANGED <<resolves, row, created, disk, removing, histories>>
    BY DEF Sell, Enough, Holds, Become, Begun
  <1>2. /\ copy \in Row /\ copy.exists /\ copy.stock = row[p].stock - 1
        /\ copy.image = row[p].image
    BY <1>1 DEF Row
  <1> HIDE DEF copy
  <1>3. /\ j \in Job /\ j.pc = "save" /\ j.kind = "sale" /\ j.id = p
        /\ j.copy = copy /\ ~j.removed
    <2>1. row[p] \in Row
      OBVIOUS
    <2> QED
      BY <1>2, <2>1, BegunJob
  <1> HIDE DEF j
  <1>4. GoodJob(j)
    BY <1>1, <1>2, <1>3 DEF GoodJob
  <1>5. TypeOK' /\ StockKept'
    BY <1>1, <1>3 DEF TypeOK, StockKept, histories
  <1>6. \A q \in Ids : /\ row'[q].image \in Shared \cup {row[q].image}
                       /\ ~row'[q].exists => row'[q].image = Default
    BY <1>1 DEF Formed
  <1> QED
    BY <1>1, <1>2, <1>3, <1>4, <1>5, <1>6, BeginKeeps DEF histories

-----------------------------------------------------------------------------
(* The file of an upload                                                   *)

\* The old image belongs to the product whose upload begins to remove it.
LEMMA RemovalGuarded ==
  ASSUME IInv, NEW r \in Requests, At(r, "read"), BeginRemoval(r),
         NEW j \in Job, job' = [job EXCEPT ![r] = j], row' = row, disk \subseteq disk',
         torn \subseteq torn', lent' = lent,
         RemovalBegins(r) => Product(r) \in torn' \cup Torn(Requests)'
  PROVE  /\ Guarded'
         /\ \A q \in Requests : removing'[q] \in {removing[q], job[r].copy.image, NoFile}
         /\ ~resolves => \A q \in Requests : removing'[q] = NoFile
         /\ removing' \in [Requests -> Images \cup {NoFile}]
  <1> USE Typed DEF IInv
  <1>1. /\ \A q \in Requests : q # r => removing'[q] = removing[q]
        /\ removing'[r] = IF RemovalBegins(r) THEN job[r].copy.image ELSE removing[r]
        /\ removing' \in [Requests -> Images \cup {NoFile}]
    BY DEF BeginRemoval
  <1>2. Torn(Requests) \subseteq Torn(Requests)'
    BY TornStays DEF Formed
  <1>3. ASSUME NEW p \in Ids, row[p].image \in Uploads \ lent,
               \/ row[p].image \notin disk'
               \/ \E q \in Requests : removing'[q] = row[p].image
        PROVE  p \in torn' \cup Torn(Requests)'
    <2>1. CASE \/ row[p].image \notin disk
               \/ \E q \in Requests : removing[q] = row[p].image
      BY <1>2, <1>3, <2>1 DEF Guarded
    <2>2. CASE RemovalBegins(r) /\ job[r].copy.image = row[p].image
      <3>1. Names(p, row[p].image) /\ Names(Product(r), row[p].image)
        BY <2>2 DEF Names
      <3>2. p = Product(r)
        BY <1>3, <3>1 DEF Owned, Product
      <3> QED
        BY <2>2, <3>2
    <2> QED
      BY <1>1, <1>3, <2>1, <2>2
  <1>4. Guarded'
    BY <1>3 DEF Guarded
  <1>5. ~resolves => \A q \in Requests : removing'[q] = NoFile
    BY <1>1 DEF Grounded, RemovalBegins
  <1> QED
    BY <1>1, <1>4, <1>5

LEMMA WriteKeeps ==
  ASSUME IInv, NEW r \in Requests, WriteFile(r)
  PROVE  IInv'
  <1> USE Typed DEF IInv
  <1>1. PICK f \in NewFiles :
          /\ disk' = disk \cup {f}
          /\ job' = [job EXCEPT ![r] = [job[r] EXCEPT !.pc = "save", !.copy.image = f,
                                                      !.removed = RemovalBegins(r)]]
    BY DEF WriteFile, Stored, Become
  <1>2. /\ At(r, "read") /\ BeginRemoval(r)
        /\ UNCHANGED <<resolves, row, created, histories>>
    BY DEF WriteFile
  <1>3. /\ f \in Uploads /\ f \notin disk /\ f \in Images
        /\ \A p \in Ids : row[p].image # f
        /\ \A q \in Requests : job[q].copy.image # f /\ removing[q] # f
    BY NewFilesUnnamed DEF Images
  <1>4. PICK copy \in Row : /\ copy = [job[r].copy EXCEPT !.image = f]
                            /\ copy.image = f /\ copy.exists = job[r].copy.exists
                            /\ copy.stock = job[r].copy.stock
    <2> DEFINE c == [job[r].copy EXCEPT !.image = f]
    <2>1. job[r].copy \in Row
      OBVIOUS
    <2>2. /\ c \in Row /\ c.image = f /\ c.exists = job[r].copy.exists
          /\ c.stock = job[r].copy.stock
      BY <1>3, <2>1 DEF Row
    <2> QED
      BY <2>2
  <1>5. RemovalBegins(r) \in BOOLEAN
    BY DEF RemovalBegins
  <1> DEFINE new == [job[r] EXCEPT !.pc = "save", !.copy.image = f,
                                   !.removed = RemovalBegins(r)]
  <1>6. /\ new \in Job /\ new.pc = "save" /\ new.kind = job[r].kind /\ new.id = job[r].id
        /\ new.copy = copy
        /\ new.removed <=> RemovalBegins(r)
    <2>1. job[r] \in Job
      OBVIOUS
    <2>2. new = [job[r] EXCEPT !.pc = "save", !.copy = copy, !.removed = RemovalBegins(r)]
      BY <1>4, <2>1 DEF Job, Row
    <2> HIDE DEF new
    <2> QED
      BY <1>5, <2>1, <2>2 DEF Job
  <1> HIDE DEF new
  <1>7. PICK j \in Job : /\ job' = [job EXCEPT ![r] = j] /\ j = new
    BY <1>1, <1>6 DEF new
  <1>8. GoodJob(j)
    <2>1. GoodJob(job[r]) /\ job[r].pc = "read"
      BY <1>2, JobsGood DEF At
    <2> QED
      BY <1>4, <1>6, <1>7, <2>1 DEF GoodJob, RemovalBegins
  <1>9. Sourced(r, j)
    BY <1>2, <1>4, <1>6, <1>7 DEF Sourced, Product
  <1>10. RemovalBegins(r) => Product(r) \in torn' \cup Torn(Requests)'
    BY <1>6, <1>7, TornStays DEF Product
  <1>11. /\ Guarded'
         /\ \A q \in Requests : removing'[q] \in {removing[q], job[r].copy.image, NoFile}
         /\ ~resolves => \A q \in Requests : removing'[q] = NoFile
         /\ removing' \in [Requests -> Images \cup {NoFile}]
    BY <1>1, <1>2, <1>7, <1>10, RemovalGuarded DEF histories
  <1>12. TypeOK' /\ StockKept'
    BY <1>1, <1>2, <1>3, <1>7, <1>11 DEF TypeOK, StockKept, histories
  <1>13. Private(r)'
    <2>1. job'[r] = j /\ \A q \in Requests : q # r => job'[q] = job[q]
      BY <1>7
    <2>2. f # NoFile
      BY <1>3, CatalogueAssumption
    <2> QED
      BY <1>1, <1>2, <1>3, <1>4, <1>6, <1>7, <1>11, <2>1, <2>2 DEF Private
  <1>14. \A p \in Ids : ~row'[p].exists => row'[p].image = Default
    BY <1>2 DEF Formed
  <1>15. disk \subseteq disk' /\ UNCHANGED <<resolves, lent>> /\ j.pc = "save"
         /\ (j.copy.image \in NewFiles => j.copy.image \in disk')
    BY <1>1, <1>2, <1>4, <1>6, <1>7 DEF histories
  <1> QED
    BY <1>7, <1>8, <1>9, <1>11, <1>12, <1>13, <1>14, <1>15, StepKeeps

LEMMA WriteFailsKeeps ==
  ASSUME IInv, NEW r \in Requests, WriteFileFails(r)
  PROVE  IInv'
  <1> USE Typed, IdleFields DEF IInv
  <1>1. /\ At(r, "read") /\ BeginRemoval(r) /\ job' = [job EXCEPT ![r] = Idle]
        /\ torn' = IF RemovalBegins(r) THEN torn \cup {Product(r)} ELSE torn
        /\ UNCHANGED <<resolves, row, created, disk, balance, overwritten, lent>>
    BY DEF WriteFileFails, Finish, Become
  <1>2. Product(r) \in Ids
    BY <1>1 DEF Formed, At
  <1>3. /\ Guarded'
        /\ \A q \in Requests : removing'[q] \in {removing[q], job[r].copy.image, NoFile}
        /\ ~resolves => \A q \in Requests : removing'[q] = NoFile
        /\ removing' \in [Requests -> Images \cup {NoFile}]
    BY <1>1, RemovalGuarded
  <1>4. TypeOK' /\ StockKept'
    BY <1>1, <1>2, <1>3 DEF TypeOK, StockKept
  <1>5. Sourced(r, Idle)
    BY <1>1, CatalogueAssumption DEF Sourced
  <1>6. GoodJob(Idle) /\ Idle.copy.image \notin NewFiles
    BY JobsGood, NewFilesUnnamed, CatalogueAssumption
  <1>7. \A p \in Ids : ~row'[p].exists => row'[p].image = Default
    BY <1>1 DEF Formed
  <1> QED
    BY <1>1, <1>3, <1>4, <1>5, <1>6, <1>7, StepKeeps

-----------------------------------------------------------------------------
(* save() of a copy                                                        *)

\* The old image of a request that ends here is torn, or the row is saved.
LEMMA SaveFailsKeeps ==
  ASSUME IInv, NEW r \in Requests, SaveFails(r)
  PROVE  IInv'
  <1> USE Typed, IdleFields DEF IInv
  <1>1. /\ job[r].pc \in {"save", "write"} /\ job' = [job EXCEPT ![r] = Idle]
        /\ torn' = torn \cup Torn({r})
        /\ UNCHANGED <<resolves, row, created, disk, removing, balance, overwritten, lent>>
    BY DEF SaveFails, Finish, Become
  <1>2. Torn({r}) \subseteq Ids
    BY <1>1, TornStays DEF Formed, At
  <1>3. Guarded'
    BY <1>1, TornStays, GuardedKept
  <1>4. TypeOK' /\ StockKept'
    BY <1>1, <1>2 DEF TypeOK, StockKept
  <1>5. Sourced(r, Idle)
    BY <1>1, CatalogueAssumption DEF Sourced
  <1>6. GoodJob(Idle) /\ Idle.copy.image \notin NewFiles
    BY JobsGood, NewFilesUnnamed, CatalogueAssumption
  <1>7. \A p \in Ids : ~row'[p].exists => row'[p].image = Default
    BY <1>1 DEF Formed
  <1>8. /\ \A q \in Requests : removing'[q] \in {removing[q], job[r].copy.image, NoFile}
        /\ ~resolves => \A q \in Requests : removing'[q] = NoFile
    BY <1>1 DEF Grounded
  <1> QED
    BY <1>1, <1>3, <1>4, <1>5, <1>6, <1>7, <1>8, StepKeeps

\* What save() finds when it reads the row once more.
LEMMA Compared ==
  ASSUME NEW r \in Requests
  PROVE  /\ Differing(r) \subseteq Columns
         /\ "stock" \in Differing(r) <=> row[Product(r)].stock # job[r].copy.stock
         /\ "image" \in Differing(r) <=> row[Product(r)].image # job[r].copy.image
         /\ Stale(r) <=> \/ job[r].stale \/ ~row[Product(r)].exists
                         \/ row[Product(r)].stock # StockRead(r)
  <1>1. Columns = {"stock", "image"}
    BY DEF Columns
  <1>2. /\ "stock" \in Differing(r) <=> row[Product(r)].stock # job[r].copy.stock
        /\ "image" \in Differing(r) <=> row[Product(r)].image # job[r].copy.image
        /\ Differing(r) \subseteq Columns
    BY <1>1 DEF Differing
  <1>3. Stale(r) <=> \/ job[r].stale \/ ~row[Product(r)].exists
                     \/ row[Product(r)].stock # StockRead(r)
    BY DEF Stale
  <1> QED
    BY <1>2, <1>3

LEMMA SaveReadsKeeps ==
  ASSUME IInv, NEW r \in Requests, SaveReads(r)
  PROVE  IInv'
  <1> USE Typed DEF IInv
  <1> DEFINE p == Product(r)
             columns == IF row[p].exists THEN Differing(r) ELSE Columns
             new == [job[r] EXCEPT !.pc = "write", !.missing = ~row[p].exists,
                                   !.columns = columns, !.stale = Stale(r)]
  <1>1. /\ job[r].pc = "save" /\ job' = [job EXCEPT ![r] = new]
        /\ UNCHANGED <<resolves, row, created, disk, removing, histories>>
    BY DEF SaveReads, Become, At
  <1>2. /\ p \in Ids /\ row[p].exists \in BOOLEAN /\ columns \subseteq Columns
        /\ Stale(r) \in BOOLEAN
    BY <1>1, Compared DEF Formed, At, Stale
  <1>3. /\ new \in Job /\ new.pc = "write" /\ new.kind = job[r].kind /\ new.id = job[r].id
        /\ new.copy = job[r].copy
        /\ (new.removed <=> job[r].removed) /\ (new.missing <=> ~row[p].exists)
        /\ new.columns = columns /\ (new.stale <=> Stale(r))
    <2>1. job[r] \in Job
      OBVIOUS
    <2>2. p \in Ids /\ row[p].exists \in BOOLEAN /\ columns \in SUBSET Columns
          /\ Stale(r) \in BOOLEAN
      BY <1>2
    <2> HIDE DEF columns, p
    <2> QED
      BY <2>1, <2>2 DEF Job
  <1> HIDE DEF new
  <1>4. GoodJob(job[r])
    BY JobsGood
  <1>5. GoodJob(new)
    <2>1. ~row[p].exists => columns = Columns /\ Stale(r)
      BY <1>2, Compared
    <2>2. ASSUME row[p].exists, ~Stale(r)
          PROVE  "stock" \in columns <=> job[r].kind = "sale"
      <3>1. "stock" \in columns <=> row[p].stock # job[r].copy.stock
        BY <2>2, Compared
      <3>2. row[p].stock = StockRead(r)
        BY <2>2, Compared
      <3>3. job[r].copy.stock \in Nat
        OBVIOUS
      <3> QED
        BY <3>1, <3>2, <3>3 DEF StockRead
    <2> HIDE DEF columns, p
    <2> QED
      BY <1>1, <1>3, <1>4, <2>1, <2>2 DEF GoodJob
  <1>6. Guarded'
    <2>1. Torn({r}) \subseteq Torn(Requests)'
      BY <1>1, <1>3, TornStays DEF Product
    <2> QED
      BY <1>1, <1>3, <2>1, TornStays, GuardedKept DEF histories
  <1>7. TypeOK' /\ StockKept'
    BY <1>1, <1>3 DEF TypeOK, StockKept, histories
  <1>8. Sourced(r, new)
    BY <1>1, <1>3 DEF Sourced, Product
  <1>9. new.kind \in {"create", "upload"} => Private(r)' /\ "image" \in new.columns
    <2> HAVE new.kind \in {"create", "upload"}
    <2>1. Private(r)
      BY <1>1, <1>3 DEF AllPrivate, Uploading
    <2>2. Private(r)'
      BY <1>1, <1>3, <2>1 DEF Private
    <2>3. row[p].image # job[r].copy.image
      BY <1>2, <2>1 DEF Private
    <2>4. "image" \in columns
      BY <2>3, Compared DEF Columns
    <2> QED
      BY <1>3, <2>2, <2>4
  <1>10. new.copy.image \notin NewFiles
    BY <1>3, NewFilesUnnamed
  <1>11. \A q \in Ids : ~row'[q].exists => row'[q].image = Default
    BY <1>1 DEF Formed
  <1>12. /\ \A q \in Requests : removing'[q] \in {removing[q], job[r].copy.image, NoFile}
         /\ ~resolves => \A q \in Requests : removing'[q] = NoFile
         /\ UNCHANGED <<resolves, lent, disk>>
    BY <1>1 DEF Grounded, histories
  <1> HIDE DEF p, columns
  <1> QED
    BY <1>1, <1>3, <1>5, <1>6, <1>7, <1>8, <1>9, <1>10, <1>11, <1>12, StepKeeps

\* The row that the UPDATE or the INSERT leaves.
LEMMA WrittenRow ==
  ASSUME IInv, NEW r \in Requests, SaveWrites(r)
  PROVE  LET p == Product(r)
             there == row[p].exists
             held == job[r]
         IN  /\ p \in Ids /\ held.pc = "write" /\ ~(there /\ held.missing)
             /\ row' \in [Ids -> Row]
             /\ \A q \in Ids : q # p => row'[q] = row[q]
             /\ there => /\ row'[p].exists
                         /\ row'[p].stock = IF "stock" \in held.columns THEN held.copy.stock
                                            ELSE row[p].stock
                         /\ row'[p].image = IF "image" \in held.columns THEN held.copy.image
                                            ELSE row[p].image
             /\ ~there /\ held.missing => row'[p] = held.copy
             /\ ~there /\ ~held.missing => row'[p] = row[p]
  <1> USE Typed DEF IInv
  <1> DEFINE p == Product(r)
             there == row[p].exists
             held == job[r]
  <1>1. /\ held.pc = "write" /\ ~(there /\ held.missing)
        /\ row' = IF there THEN [row EXCEPT ![p] = Merged(r)]
                  ELSE IF held.missing THEN [row EXCEPT ![p] = held.copy]
                  ELSE row
    BY DEF SaveWrites, At
  <1>2. p \in Ids
    BY <1>1 DEF Formed, At
  <1>3. /\ Merged(r) \in Row /\ Merged(r).exists = row[p].exists
        /\ Merged(r).stock = IF "stock" \in held.columns THEN held.copy.stock ELSE row[p].stock
        /\ Merged(r).image = IF "image" \in held.columns THEN held.copy.image ELSE row[p].image
    <2>1. row[p] \in Row /\ held.copy.stock \in Nat
          /\ held.copy.image \in Images \cup {NoFile}
      BY <1>2
    <2>2. row[p].stock \in Nat /\ row[p].image \in Images \cup {NoFile}
      BY <1>2
    <2> QED
      BY <2>1, <2>2 DEF Merged, Row
  <1> HIDE DEF p, held
  <1> QED
    BY <1>1, <1>2, <1>3 DEF p, held

(* A sale, or an upload, writes the stock it has read: unless that was no  *)
(* longer the stock, the product has what its restocks and sales add up to.*)
LEMMA StockWritten ==
  ASSUME IInv, NEW r \in Requests, SaveWrites(r)
  PROVE  StockKept' /\ balance' \in [Ids -> Int] /\ overwritten' \subseteq Ids
  <1> USE Typed DEF IInv
  <1> DEFINE p == Product(r)
             sale == job[r].kind = "sale"
             stale == Stale(r) /\ (sale \/ "stock" \in job[r].columns)
  <1>1. /\ overwritten' = IF stale THEN overwritten \cup {p} ELSE overwritten
        /\ balance' = [balance EXCEPT ![p] = IF p \in overwritten' THEN 0
                                             ELSE IF sale THEN @ - 1 ELSE @]
    BY DEF SaveWrites, Accounted
  <1>2. /\ p \in Ids /\ job[r].pc = "write" /\ ~(row[p].exists /\ job[r].missing)
        /\ \A q \in Ids : q # p => row'[q] = row[q]
    BY WrittenRow
  <1>3. balance \in [Ids -> Int] /\ overwritten \subseteq Ids
    BY DEF TypeOK
  <1>4. overwritten' \subseteq Ids
    BY <1>1, <1>2, <1>3
  <1>5. /\ \A q \in Ids : q # p => balance'[q] = balance[q]
        /\ balance'[p] = IF p \in overwritten' THEN 0
                         ELSE IF sale THEN balance[p] - 1 ELSE balance[p]
        /\ balance' \in [Ids -> Int]
    <2>1. balance[p] \in Int
      BY <1>2, <1>3
    <2> HIDE DEF p
    <2> QED
      BY <1>1, <1>2, <1>3, <2>1
  <1>6. \A q \in Ids : q # p => (q \in overwritten' <=> q \in overwritten)
    BY <1>1
  <1>7. ASSUME p \notin overwritten', row'[p].exists
        PROVE  row'[p].stock = balance'[p]
    <2>1. p \notin overwritten /\ ~stale
      BY <1>1, <1>7
    <2>2. GoodJob(job[r])
      BY JobsGood
    <2>3. row[p].exists
      <3>1. SUFFICES ASSUME ~row[p].exists PROVE FALSE
        OBVIOUS
      <3>2. job[r].missing => "stock" \in job[r].columns
        BY <1>2, <2>2 DEF GoodJob, Columns
      <3>3. Stale(r)
        BY <3>1, Compared
      <3>4. ~job[r].missing
        BY <2>1, <3>2, <3>3
      <3>5. row'[p] = row[p]
        BY <3>1, <3>4, WrittenRow
      <3> QED
        BY <1>7, <3>1, <3>5
    <2>4. /\ ~job[r].missing
          /\ row'[p].stock = IF "stock" \in job[r].columns THEN job[r].copy.stock
                             ELSE row[p].stock
      BY <2>3, WrittenRow
    <2>5. row[p].stock = balance[p]
      BY <1>2, <2>1, <2>3 DEF StockKept
    <2>6. CASE Stale(r)
      BY <1>5, <1>7, <2>1, <2>4, <2>5, <2>6
    <2>7. CASE ~Stale(r)
      <3>1. ~job[r].stale /\ row[p].stock = StockRead(r)
        BY <2>7, Compared
      <3>2. "stock" \in job[r].columns <=> sale
        BY <1>2, <2>2, <2>4, <3>1 DEF GoodJob
      <3>3. job[r].copy.stock \in Nat
        OBVIOUS
      <3> QED
        BY <1>5, <1>7, <2>4, <2>5, <3>1, <3>2, <3>3 DEF StockRead
    <2> QED
      BY <2>6, <2>7
  <1>8. StockKept'
    BY <1>2, <1>5, <1>6, <1>7 DEF StockKept
  <1> QED
    BY <1>4, <1>5, <1>8

LEMMA SaveWritesKeeps ==
  ASSUME IInv, NEW r \in Requests, SaveWrites(r)
  PROVE  IInv'
  <1> USE Typed, IdleFields DEF IInv
  <1> DEFINE p == Product(r)
             sale == job[r].kind = "sale"
  <1>1. /\ job' = [job EXCEPT ![r] = Idle]
        /\ UNCHANGED <<resolves, created, disk, removing, lent>>
        /\ torn' = IF "image" \notin job[r].columns THEN torn
                   ELSE IF sale THEN torn \cup {p} ELSE torn \ {p}
    BY DEF SaveWrites, Finish, Become, Accounted
  <1>2. /\ p \in Ids /\ job[r].pc = "write" /\ ~(row[p].exists /\ job[r].missing)
        /\ row' \in [Ids -> Row] /\ \A q \in Ids : q # p => row'[q] = row[q]
    BY WrittenRow
  <1>3. GoodJob(job[r])
    BY JobsGood
  <1>4. \A q \in Ids : ~row'[q].exists => row'[q].image = Default
    <2>1. job[r].copy.exists
      BY <1>2, <1>3 DEF GoodJob
    <2>2. ~row'[p].exists => row'[p] = row[p]
      BY <2>1, WrittenRow
    <2> QED
      BY <1>2, <2>2 DEF Formed
  <1>5. row'[p].image = row[p].image \/ (/\ row'[p].image = job[r].copy.image
                                         /\ "image" \in job[r].columns)
    <2>1. job[r].missing => job[r].columns = Columns
      BY <1>2, <1>3 DEF GoodJob
    <2> QED
      BY <2>1, WrittenRow DEF Columns
  <1>6. TypeOK'
    <2>1. torn' \subseteq Ids
      BY <1>1, <1>2 DEF TypeOK
    <2> QED
      BY <1>1, <1>2, <2>1, StockWritten DEF TypeOK
  <1>7. Sourced(r, Idle)
    BY <1>2, <1>5, CatalogueAssumption DEF Sourced, Product
  <1>8. Guarded'
    <2> SUFFICES ASSUME NEW q \in Ids, row'[q].image \in Uploads \ lent,
                        \/ row'[q].image \notin disk
                        \/ \E k \in Requests : removing[k] = row'[q].image
                 PROVE  q \in torn' \cup Torn(Requests)'
      BY <1>1 DEF Guarded
    <2>1. CASE q # p
      <3>1. q \in torn \cup Torn(Requests)
        BY <1>2, <2>1 DEF Guarded
      <3>2. q \in torn => q \in torn'
        BY <1>1, <2>1
      <3>3. q \in Torn(Requests) => q \in Torn(Requests)'
        BY <1>1, <2>1, TornStays
      <3> QED
        BY <3>1, <3>2, <3>3
    <2>2. CASE q = p /\ sale
      <3>1. ~job[r].removed
        BY <1>3, <2>2 DEF GoodJob
      <3>2. torn \cup Torn(Requests) \subseteq torn' \cup Torn(Requests)'
        BY <1>1, <2>2, <3>1, TornStays
      <3>3. CASE row'[p].image = row[p].image
        BY <1>2, <2>2, <3>2, <3>3 DEF Guarded
      <3>4. CASE "image" \in job[r].columns
        BY <1>1, <2>2, <3>4
      <3> QED
        BY <1>5, <3>3, <3>4
    <2>3. CASE q = p /\ ~sale
      <3>1. Private(r) /\ "image" \in job[r].columns
        BY <1>2, <1>3, <2>3 DEF AllPrivate, Uploading, GoodJob, At
      <3>2. row'[p].image # job[r].copy.image
        BY <2>3, <3>1 DEF Private
      <3>3. ~row[p].exists
        BY <3>1, <3>2, WrittenRow
      <3>4. row'[p].image = Default
        BY <1>2, <1>5, <3>2, <3>3 DEF Formed
      <3> QED
        BY <2>3, <3>4, CatalogueAssumption
    <2> QED
      BY <2>1, <2>2, <2>3
  <1>9. GoodJob(Idle) /\ Idle.copy.image \notin NewFiles
    BY JobsGood, NewFilesUnnamed, CatalogueAssumption
  <1>10. /\ \A q \in Requests : removing'[q] \in {removing[q], job[r].copy.image, NoFile}
         /\ ~resolves => \A q \in Requests : removing'[q] = NoFile
    BY <1>1 DEF Grounded
  <1> HIDE DEF p, sale
  <1> QED
    BY <1>1, <1>4, <1>6, <1>7, <1>8, <1>9, <1>10, StockWritten, StepKeeps

-----------------------------------------------------------------------------
(* The writes of a body, the end of a removal and of the process           *)

\* A statement on the row of p, whose image stays, is the default or comes from a body.
LEMMA RowKeeps ==
  ASSUME IInv, NEW p \in Ids, TypeOK', StockKept',
         UNCHANGED <<resolves, disk, job, removing>>,
         lent \subseteq lent', torn \ {p} \subseteq torn',
         \A q \in Ids : /\ q # p => row'[q].image = row[q].image
                        /\ ~row'[q].exists => row'[q].image = Default,
         \/ row'[p].image = row[p].image /\ torn' = torn
         \/ row'[p].image = Default
         \/ row'[p].image \in lent' \ Unsaved
  PROVE  IInv'
  <1> USE Typed DEF IInv
  <1>1. Default \in Shared /\ Shared \cap Uploads = {}
    BY CatalogueAssumption
  <1>2. Torn(Requests)' = Torn(Requests)
    BY DEF Torn, Product
  <1>3. Formed' /\ Priced'
    BY DEF Formed, Priced, At, Uploading, Product
  <1>4. Owned'
    <2>1. \A f \in Uploads \ lent', q \in 0 .. MaxProducts : Names(q, f)' => Names(q, f)
      BY <1>1 DEF Names, Product
    <2> QED
      BY <2>1 DEF Owned
  <1>5. AllPrivate'
    <2> SUFFICES ASSUME NEW r \in Requests, job[r].pc \in {"save", "write"}, Uploading(r)
                 PROVE  Private(r)' /\ (At(r, "write") => "image" \in job[r].columns)
      BY DEF AllPrivate, At, Uploading
    <2>1. Private(r) /\ (At(r, "write") => "image" \in job[r].columns)
      BY DEF AllPrivate
    <2>2. job[r].copy.image \in Unsaved
      BY DEF Unsaved, Uploading
    <2>3. \A q \in Ids : row'[q].image # job[r].copy.image
      BY <1>1, <2>1, <2>2 DEF Private
    <2> QED
      BY <2>1, <2>3 DEF Private
  <1>6. Grounded'
    BY <1>1 DEF Grounded
  <1>7. Guarded'
    BY <1>1, <1>2 DEF Guarded
  <1> QED
    BY <1>3, <1>4, <1>5, <1>6, <1>7

LEMMA UpdateKeeps ==
  ASSUME IInv, NEW p \in Ids, NEW given \in SUBSET Columns, NEW quantity \in Restocked,
         NEW image \in BodyImages, Update(p, given, quantity, image)
  PROVE  IInv'
  <1> USE Typed DEF IInv
  <1> DEFINE stocked == "stock" \in given
             other == image # row[p].image
  <1>1. /\ row[p].exists
        /\ row' = [row EXCEPT ![p].stock = IF stocked THEN quantity ELSE @, ![p].image = image]
        /\ balance' = IF stocked THEN [balance EXCEPT ![p] = quantity] ELSE balance
        /\ overwritten' = IF stocked THEN overwritten \ {p} ELSE overwritten
        /\ torn' = IF other THEN torn \ {p} ELSE torn
        /\ lent' = IF other THEN lent \cup {image} ELSE lent
        /\ UNCHANGED <<resolves, created, disk, job, removing>>
    BY DEF Update
  <1>2. quantity \in Nat /\ image \in Images \cup {NoFile} /\ image \notin Unsaved
    BY CatalogueAssumption DEF BodyImages
  <1>3. /\ row' \in [Ids -> Row] /\ \A q \in Ids : q # p => row'[q] = row[q]
        /\ row'[p].stock = IF stocked THEN quantity ELSE row[p].stock
        /\ row'[p].image = image /\ row'[p].exists
    <2>1. row[p] \in Row
      OBVIOUS
    <2> HIDE DEF stocked
    <2> QED
      BY <1>1, <1>2, <2>1 DEF Row
  <1>4. /\ balance' \in [Ids -> Int]
        /\ balance'[p] = IF stocked THEN quantity ELSE balance[p]
        /\ \A q \in Ids : q # p => balance'[q] = balance[q]
    BY <1>1, <1>2 DEF TypeOK
  <1>5. TypeOK'
    <2>1. lent' \subseteq Images \cup {NoFile} /\ torn' \subseteq Ids /\ overwritten' \subseteq Ids
      BY <1>1, <1>2 DEF TypeOK
    <2> QED
      BY <1>1, <1>3, <1>4, <2>1 DEF TypeOK
  <1>6. StockKept'
    BY <1>1, <1>3, <1>4 DEF StockKept
  <1>7. \A q \in Ids : /\ q # p => row'[q].image = row[q].image
                       /\ ~row'[q].exists => row'[q].image = Default
    BY <1>3 DEF Formed
  <1> QED
    BY <1>1, <1>2, <1>3, <1>5, <1>6, <1>7, RowKeeps

LEMMA RemoveKeeps ==
  ASSUME IInv, NEW p \in Ids, Remove(p)
  PROVE  IInv'
  <1> USE Typed, IdleFields DEF IInv
  <1>1. /\ row' = [row EXCEPT ![p] = NoRow] /\ balance' = [balance EXCEPT ![p] = 0]
        /\ overwritten' = overwritten \ {p} /\ torn' = torn \ {p}
        /\ UNCHANGED <<resolves, created, disk, job, removing, lent>>
    BY DEF Remove
  <1>2. /\ row' \in [Ids -> Row] /\ row'[p] = NoRow
        /\ \A q \in Ids : q # p => row'[q] = row[q]
    BY <1>1
  <1>3. balance' \in [Ids -> Int] /\ \A q \in Ids : q # p => balance'[q] = balance[q]
    BY <1>1 DEF TypeOK
  <1>4. TypeOK'
    BY <1>1, <1>2, <1>3 DEF TypeOK
  <1>5. StockKept'
    BY <1>1, <1>2, <1>3 DEF StockKept
  <1>6. \A q \in Ids : /\ q # p => row'[q].image = row[q].image
                       /\ ~row'[q].exists => row'[q].image = Default
    BY <1>2 DEF Formed
  <1> QED
    BY <1>1, <1>2, <1>4, <1>5, <1>6, RowKeeps

(* The process dies, with no more files gone than were being removed: what *)
(* was being removed belongs to a torn product, or to several.             *)
LEMMA DieKeeps ==
  ASSUME IInv, NEW left \in SUBSET disk, Die(left),
         \A f \in disk \ left : \E r \in Requests : removing[r] = f
  PROVE  IInv'
  <1> USE Typed, IdleFields DEF IInv
  <1>1. /\ \A r \in Requests : job'[r] = Idle /\ removing'[r] = NoFile
        /\ job' = [r \in Requests |-> Idle] /\ removing' = [r \in Requests |-> NoFile]
        /\ torn' = torn \cup Torn(Requests) /\ disk' = left
        /\ UNCHANGED <<resolves, row, created, balance, overwritten, lent>>
    BY DEF Die
  <1>2. Default \in Shared /\ Shared \cap Uploads = {} /\ NoFile \notin Images
    BY CatalogueAssumption DEF Images
  <1>3. TypeOK'
    <2>1. Torn(Requests) \subseteq Ids
      <3> SUFFICES ASSUME NEW r \in Requests, job[r].removed PROVE Product(r) \in Ids
        BY DEF Torn
      <3>1. job[r].kind = "upload"
        BY DEF Formed
      <3>2. ~At(r, "idle")
        BY <3>1 DEF Formed
      <3> QED
        BY <3>2 DEF Formed
    <2> QED
      BY <1>1, <2>1 DEF TypeOK
  <1>4. Formed' /\ Priced'
    <2>1. \A r \in Requests : GoodJob(job'[r])
      BY <1>1, JobsGood
    <2>2. \A p \in Ids : ~row'[p].exists => row'[p].image = Default
      BY <1>1 DEF Formed
    <2> QED
      BY <2>1, <2>2 DEF GoodJob, Formed, Priced, At, Uploading, Product
  <1>5. StockKept'
    BY <1>1 DEF StockKept
  <1>6. Owned'
    <2>1. \A f \in Uploads \ lent, p \in 0 .. MaxProducts : Names(p, f)' => Names(p, f)
      BY <1>1, <1>2 DEF Names, Product
    <2> QED
      BY <1>1, <2>1 DEF Owned
  <1>7. AllPrivate'
    BY <1>1 DEF AllPrivate, At
  <1>8. Grounded'
    <2> SUFFICES ASSUME ~resolves
                 PROVE  /\ Shared \subseteq disk'
                        /\ \A r \in Requests : /\ removing'[r] = NoFile
                                               /\ job'[r].copy.image \in disk' \cup lent
                        /\ \A p \in Ids : row'[p].image \in disk' \cup lent
      BY <1>1 DEF Grounded
    <2>1. disk' = disk
      <3>1. \A r \in Requests : removing[r] = NoFile
        BY DEF Grounded
      <3>2. NoFile \notin disk
        BY <1>2 DEF TypeOK
      <3>3. \A f \in disk : f \in left
        BY <3>1, <3>2
      <3>4. left = disk
        BY <3>3
      <3> QED
        BY <1>1, <3>4
    <2> QED
      BY <1>1, <1>2, <2>1 DEF Grounded
  <1>9. Guarded'
    BY <1>1, <1>2, CatalogueAssumption DEF Guarded
  <1> QED
    BY <1>3, <1>4, <1>5, <1>6, <1>7, <1>8, <1>9

LEMMA CrashKeeps ==
  ASSUME IInv, Crash
  PROVE  IInv'
  <1>1. PICK gone \in SUBSET {removing[r] : r \in Requests} : Die(disk \ gone)
    BY DEF Crash
  <1>2. \A f \in disk \ (disk \ gone) : \E r \in Requests : removing[r] = f
    BY <1>1
  <1> QED
    BY <1>1, <1>2, DieKeeps

LEMMA RemovedKeeps ==
  ASSUME IInv, NEW r \in Requests, Removed(r)
  PROVE  IInv'
  <1> USE Typed DEF IInv
  <1> DEFINE g == removing[r]
  <1>1. CASE g \notin disk
    <2>1. Die(disk)
      BY <1>1 DEF Removed
    <2> QED
      BY <2>1, DieKeeps
  <1>2. CASE g \in disk
    <2>1. /\ g # NoFile /\ disk' = disk \ {g} /\ removing' = [removing EXCEPT ![r] = NoFile]
          /\ UNCHANGED <<resolves, row, created, job, balance, overwritten, torn, lent>>
      BY <1>2 DEF Removed, histories
    <2>2. \A q \in Requests : removing'[q] \in {removing[q], NoFile}
      BY <2>1
    <2>3. NoFile \notin Images /\ Images = Shared \cup Uploads
      BY CatalogueAssumption DEF Images
    <2>4. TypeOK'
      BY <2>1 DEF TypeOK
    <2>5. Formed' /\ Priced' /\ StockKept'
      BY <2>1 DEF Formed, Priced, StockKept, At, Uploading, Product
    <2>6. Owned'
      BY <2>1 DEF Owned, Names, Product
    <2>7. AllPrivate'
      <3>1. ASSUME NEW q \in Requests, Private(q) PROVE Private(q)'
        BY <2>1, <2>2, <2>3, <3>1 DEF Private
      <3> QED
        BY <2>1, <3>1 DEF AllPrivate, At, Uploading
    <2>8. Grounded'
      BY <2>1 DEF Grounded
    <2>9. Guarded'
      <3>1. Torn(Requests)' = Torn(Requests)
        BY <2>1 DEF Torn, Product
      <3> QED
        BY <2>1, <2>2, <2>3, <3>1 DEF Guarded
    <2> QED
      BY <2>4, <2>5, <2>6, <2>7, <2>8, <2>9
  <1> QED
    BY <1>1, <1>2

-----------------------------------------------------------------------------
(* The specification                                                       *)

LEMMA InitInvariant ==
  ASSUME Init
  PROVE  IInv
  <1> USE IdleFields
  <1>1. /\ resolves \in BOOLEAN /\ created = Seeded /\ disk = Shared
        /\ row = [p \in Ids |-> IF p <= Seeded
                               THEN [exists |-> TRUE, stock |-> SeedStock, image |-> Default]
                               ELSE NoRow]
        /\ \A r \in Requests : job[r] = Idle /\ removing[r] = NoFile
        /\ job = [r \in Requests |-> Idle] /\ removing = [r \in Requests |-> NoFile]
        /\ balance = [p \in Ids |-> row[p].stock] /\ overwritten = {} /\ torn = {}
        /\ lent = {}
    BY DEF Init
  <1>2. Default \in Shared /\ Shared \cap Uploads = {}
    BY CatalogueAssumption
  <1>3. /\ row \in [Ids -> Row]
        /\ \A p \in Ids : /\ row[p].image = Default /\ row[p].stock \in Nat
    <2>1. \A p \in Ids : /\ row[p] \in Row /\ row[p].image = Default
      BY <1>1, CatalogueAssumption DEF Row, Images
    <2> QED
      BY <1>1, <2>1, RowFields
  <1>4. TypeOK
    <2>1. balance \in [Ids -> Int]
      BY <1>1, <1>3
    <2>2. created \in 0 .. MaxProducts
      BY <1>1, CatalogueAssumption
    <2>3. disk \subseteq Images /\ overwritten \subseteq Ids /\ torn \subseteq Ids
          /\ lent \subseteq Images \cup {NoFile}
      BY <1>1 DEF Images
    <2>4. job \in [Requests -> Job] /\ removing \in [Requests -> Images \cup {NoFile}]
      BY <1>1
    <2> QED
      BY <1>1, <1>3, <2>1, <2>2, <2>3, <2>4 DEF TypeOK
  <1>5. Formed /\ Priced
    <2>1. \A r \in Requests : GoodJob(job[r])
      BY <1>1, JobsGood
    <2> QED
      BY <1>3, <2>1, JobsGood
  <1>6. StockKept
    BY <1>1 DEF StockKept
  <1>7. Owned
    BY <1>1, <1>2, <1>3 DEF Owned, Names
  <1>8. AllPrivate
    BY <1>1 DEF AllPrivate, At
  <1>9. Grounded
    BY <1>1, <1>2, <1>3 DEF Grounded
  <1>10. Guarded
    BY <1>2, <1>3 DEF Guarded
  <1> QED
    BY <1>4, <1>5, <1>6, <1>7, <1>8, <1>9, <1>10 DEF IInv

LEMMA StepInvariant ==
  ASSUME IInv, [Next]_vars
  PROVE  IInv'
  <1>1. ASSUME NEW r \in Requests, NEW quantity \in Restocked, Create(r, quantity)
        PROVE  IInv'
    BY <1>1, CreateKeeps
  <1>2. ASSUME NEW r \in Requests, NEW p \in Ids, ReadForUpload(r, p)
        PROVE  IInv'
    BY <1>2, ReadKeeps
  <1>3. ASSUME NEW r \in Requests, NEW p \in Ids, Sell(r, p)
        PROVE  IInv'
    BY <1>3, SellKeeps
  <1>4. ASSUME NEW r \in Requests, WriteFile(r)
        PROVE  IInv'
    BY <1>4, WriteKeeps
  <1>5. ASSUME NEW r \in Requests, WriteFileFails(r)
        PROVE  IInv'
    BY <1>5, WriteFailsKeeps
  <1>6. ASSUME NEW r \in Requests, SaveReads(r)
        PROVE  IInv'
    BY <1>6, SaveReadsKeeps
  <1>7. ASSUME NEW r \in Requests, SaveWrites(r)
        PROVE  IInv'
    BY <1>7, SaveWritesKeeps
  <1>8. ASSUME NEW r \in Requests, SaveFails(r)
        PROVE  IInv'
    BY <1>8, SaveFailsKeeps
  <1>9. ASSUME NEW r \in Requests, Removed(r)
        PROVE  IInv'
    BY <1>9, RemovedKeeps
  <1>10. ASSUME NEW p \in Ids, Remove(p)
         PROVE  IInv'
    BY <1>10, RemoveKeeps
  <1>11. ASSUME NEW p \in Ids, NEW given \in SUBSET Columns, NEW quantity \in Restocked,
                NEW image \in BodyImages, Update(p, given, quantity, image)
         PROVE  IInv'
    BY <1>11, UpdateKeeps
  <1>12. CASE Crash
    BY <1>12, CrashKeeps
  <1>13. CASE UNCHANGED vars
    BY <1>13 DEF vars, IInv, TypeOK, Formed, Priced, StockKept, Owned, Names, AllPrivate,
                 Private, Grounded, Guarded, Torn, Product, At, Uploading
  <1> QED
    BY <1>1, <1>2, <1>3, <1>4, <1>5, <1>6, <1>7, <1>8, <1>9, <1>10, <1>11, <1>12, <1>13
    DEF Next

(* The invariant behind the theorems: which copies, files and products     *)
(* belong together at every step of uploads, creations, sales, removals    *)
(* and crashes (product.service.ts, createOrderItems of order.service.ts). *)
THEOREM AlwaysIInv == Spec => []IInv
  <1>1. Init => IInv
    BY InitInvariant
  <1>2. IInv /\ [Next]_vars => IInv'
    BY StepInvariant
  <1> QED
    BY <1>1, <1>2, PTL DEF Spec

\* Rows, copies, files and histories have their types.
THEOREM TypeCorrect == Spec => []TypeOK
  <1>1. IInv => TypeOK
    BY DEF IInv
  <1> QED
    BY <1>1, AlwaysIInv, PTL

(* A product's stock is what its restocks and its sales add up to, for any *)
(* number of requests: units come back, or are sold twice, only when save()*)
(* writes a stock that was read before somebody else's write.              *)
THEOREM StockAlwaysKept == Spec => []StockKept
  <1>1. IInv => StockKept
    BY DEF IInv
  <1> QED
    BY <1>1, AlwaysIInv, PTL

(* The image that a product names is in the upload directory, whatever     *)
(* uploadProductImage removes, unless a body has given it to a product, it *)
(* is an image of several products or its upload is under way, stopped half*)
(* way, or put back by a sale.                                             *)
THEOREM ImagesStayOnDisk == Spec => []ImageOnDisk
  <1>1. IInv => ImageOnDisk
    <2> SUFFICES ASSUME IInv, NEW p \in Ids, row[p].exists,
                        row[p].image \notin disk \cup lent \cup {NoFile}
                 PROVE  /\ resolves
                        /\ row[p].image \in Shared \/ p \in torn \cup Torn(Requests)
      BY DEF ImageOnDisk
    <2>1. resolves
      BY DEF IInv, Grounded
    <2>2. row[p].image \in Images \cup {NoFile}
      BY Typed DEF IInv
    <2>3. row[p].image \in Uploads => p \in torn \cup Torn(Requests)
      BY DEF IInv, Guarded
    <2> QED
      BY <2>1, <2>2, <2>3 DEF Images
  <1> QED
    BY <1>1, AlwaysIInv, PTL
=============================================================================
