----------------------------- MODULE MfaProofs ------------------------------
(***************************************************************************)
(* Proofs about MfaChallenge and MfaAccount, for every set of users and    *)
(* requests and every value of the limits.                                 *)
(*                                                                         *)
(* Of MfaChallenge: Consistent is inductive; type correctness, single use, *)
(* the fate of an accepted challenge and the reasons why one is removed    *)
(* follow from it.                                                         *)
(*                                                                         *)
(* Of MfaAccount: the endpoints only take steps of MfaChallenge, so the    *)
(* theorems on challenges hold of the accounts, too; on top of them IInv   *)
(* says what a request knows of its account and of its challenge.          *)
(***************************************************************************)
EXTENDS MfaAccount, TLAPS

-----------------------------------------------------------------------------
(* Challenges                                                              *)

\* What a request leaves behind when it is answered is well formed.
LEMMA IdleFormed == Idle \in Request
  BY NumbersAssumption DEF Idle, Request, Steps, NoSlot

\* No row, no lock and no request: the first state is consistent.
LEMMA InitConsistent == Init => Consistent
  <1> SUFFICES ASSUME Init PROVE Consistent
    OBVIOUS
  <1> USE NumbersAssumption
  <1>1. TypeOK
    BY IdleFormed DEF Init, TypeOK, Row, Absent, Ids
  <1>2. RequestsFormed /\ LockDiscipline /\ IdsUnique
    BY DEF Init, RequestsFormed, LockDiscipline, IdsUnique, At, Idle, Present,
           Absent, Ids
  <1> QED
    BY <1>1, <1>2 DEF Consistent

\* Releasing its locks leaves a request with none and the others with theirs.
LEMMA ReleaseLocks ==
  ASSUME NEW lock \in [Slots -> Requests \cup {Nobody}], NEW r \in Requests
  PROVE  /\ Release(lock, r) \in [Slots -> Requests \cup {Nobody}]
         /\ \A s \in Slots : Release(lock, r)[s] # Nobody =>
              lock[s] # r /\ Release(lock, r)[s] = lock[s]
         /\ \A s \in Slots : lock[s] # r => Release(lock, r)[s] = lock[s]
  BY DEF Release

(* A request that holds no lock afterwards, and left the locked rows of the *)
(* others alone, does not disturb what the others rely on.                 *)
LEMMA OthersUndisturbed ==
  ASSUME Consistent, NEW r \in Requests, NEW v \in Request,
         request' = [request EXCEPT ![r] = v],
         v.pc \notin {"upsert", "verify", "purge"},
         v.pc # "idle" => v.slot \in Slots /\ v.id \in Ids,
         \/ rowLock' = Release(rowLock, r)
         \/ rowLock' = rowLock /\ request[r].pc \notin {"upsert", "verify", "purge"},
         \A s \in Slots : rowLock[s] \notin {Nobody, r} => row'[s] = row[s]
  PROVE  RequestsFormed' /\ LockDiscipline'
  <1> USE NobodyAssumption
  <1>1. /\ rowLock \in [Slots -> Requests \cup {Nobody}]
        /\ request \in [Requests -> Request]
        /\ RequestsFormed /\ LockDiscipline
    BY DEF Consistent, TypeOK
  <1>2. request'[r] = v /\ \A q \in Requests \ {r} : request'[q] = request[q]
    BY <1>1
  <1>3. RequestsFormed'
    BY <1>1, <1>2 DEF RequestsFormed, At
  <1>4. \A s \in Slots : rowLock'[s] # Nobody =>
          rowLock[s] # r /\ rowLock'[s] = rowLock[s]
    BY <1>1, ReleaseLocks DEF LockDiscipline
  <1>5. \A s \in Slots : rowLock[s] \notin {Nobody, r} => rowLock'[s] = rowLock[s]
    BY <1>1, ReleaseLocks
  <1>6. ASSUME NEW s \in Slots, rowLock'[s] # Nobody
        PROVE  /\ Present(s)'
               /\ request'[rowLock'[s]].pc \in {"upsert", "verify", "purge"}
               /\ ~At(rowLock[s], "purge")' => request'[rowLock'[s]].slot = s
    <2>1. /\ rowLock[s] \in Requests \ {r} /\ rowLock'[s] = rowLock[s]
          /\ row'[s] = row[s]
      BY <1>1, <1>4, <1>6
    <2> QED
      BY <1>1, <1>2, <2>1 DEF LockDiscipline, Present, At
  <1>7. ASSUME NEW q \in Requests, At(q, "verify")'
        PROVE  /\ rowLock'[request'[q].slot] = q
               /\ row'[request'[q].slot].id = request'[q].id
               /\ row'[request'[q].slot].attempts = request'[q].attempts
               /\ request'[q].attempts < MaxAttempts
    <2>1. q # r /\ request'[q] = request[q] /\ At(q, "verify")
      BY <1>2, <1>7 DEF At
    <2>2. request[q].slot \in Slots /\ rowLock[request[q].slot] = q
      BY <1>1, <2>1 DEF RequestsFormed, LockDiscipline, At
    <2>3. /\ rowLock'[request[q].slot] = q
          /\ row'[request[q].slot] = row[request[q].slot]
      BY <1>5, <2>1, <2>2
    <2> QED
      BY <1>1, <2>1, <2>2, <2>3 DEF LockDiscipline
  <1> QED
    BY <1>3, <1>6, <1>7 DEF LockDiscipline

(* A step that draws no id, accepts nothing and at most takes rows away    *)
(* keeps every id in one place.                                            *)
LEMMA IdsStayUnique ==
  ASSUME Consistent,
         issued' = issued, accepts' = accepts,
         \A s \in Slots : row'[s].id \in {0, row[s].id},
         \A q \in Requests : At(q, "upsert")' =>
           At(q, "upsert") /\ request'[q] = request[q]
  PROVE  IdsUnique'
  <1>1. /\ \A i \in Ids : accepts'[i] <= 1 /\ (i > issued' => accepts'[i] = 0)
        /\ \A s \in Slots : Present(s)' => Present(s) /\ row'[s].id = row[s].id
    BY DEF Consistent, IdsUnique, Present
  <1>2. /\ \A s \in Slots : Present(s)' => row'[s].id <= issued' /\ accepts'[row'[s].id] = 0
        /\ \A s, z \in Slots : Present(s)' /\ row'[s].id = row'[z].id => s = z
    BY <1>1 DEF Consistent, IdsUnique, Present
  <1>3. \A q \in Requests : At(q, "upsert") => request[q].id # 0
    BY DEF Consistent, RequestsFormed, At, Ids
  <1>4. ASSUME NEW q \in Requests, At(q, "upsert")'
        PROVE  /\ request'[q].id <= issued'
               /\ request'[q].attempts < MaxAttempts
               /\ accepts'[request'[q].id] = 0
               /\ \A s \in Slots : row'[s].id # request'[q].id
               /\ \A p \in Requests :
                    At(p, "upsert")' /\ request'[p].id = request'[q].id => p = q
    BY <1>3, <1>4 DEF Consistent, IdsUnique
  <1> QED
    BY <1>1, <1>2, <1>4 DEF IdsUnique

(* The decision of createChallenge: it may come to hold the row, which it  *)
(* has found, and it draws an id that nobody has.                          *)
LEMMA CreateSelectConsistent ==
  ASSUME Consistent, NEW r \in Requests, NEW s \in Slots, NEW m \in ActiveMethods,
         CreateSelect(r, s, m)
  PROVE  Consistent'
  <1> USE NobodyAssumption, NumbersAssumption DEF CreateSelect, Become, At
  <1>1. CarriedAttempts(s) \in 0 .. MaxAttempts - 1
    BY DEF Consistent, TypeOK, Row, CarriedAttempts, LockedOut, Exhausted, InWindow
  <1>2. now + Ttl(s) \in Nat
    BY DEF Consistent, TypeOK, Ttl
  <1>3. /\ request[r].pc = "idle"
        /\ rowLock' = IF Present(s) THEN [rowLock EXCEPT ![s] = r] ELSE rowLock
        /\ CanLock(r, s)
        /\ row' = row /\ accepts' = accepts
    BY DEF Consistent, TypeOK
  <1>4. issued \in Nat /\ issued' = issued + 1 /\ issued + 1 \in Ids
    BY DEF Consistent, TypeOK, Ids
  <1> DEFINE new == [pc |-> "upsert", slot |-> s, id |-> issued + 1, method |-> m,
                     attempts |-> CarriedAttempts(s), expires |-> now + Ttl(s)]
  <1>5. request' = [request EXCEPT ![r] = new]
    OBVIOUS
  <1>6. new \in Request
    BY <1>1, <1>2, <1>4 DEF Request, Steps, Ids
  <1> HIDE DEF new
  <1>7. TypeOK'
    BY <1>3, <1>4, <1>5, <1>6 DEF Consistent, TypeOK, Ids
  <1>8. RequestsFormed'
    BY <1>4, <1>5 DEF Consistent, TypeOK, RequestsFormed, new
  <1>9. LockDiscipline'
    BY <1>3, <1>5 DEF Consistent, TypeOK, LockDiscipline, CanLock, Present,
                     RequestsFormed, new
  <1>10. IdsUnique'
    <2>1. \A i \in Ids : accepts[i] <= 1 /\ (i > issued => accepts[i] = 0)
      BY DEF Consistent, IdsUnique
    <2>2. \A i \in Ids : accepts'[i] <= 1 /\ (i > issued' => accepts'[i] = 0)
      BY <1>3, <1>4, <2>1 DEF Ids
    <2>3. \A z \in Slots : row[z].id \in Nat /\ (Present(z) => row[z].id <= issued)
      BY DEF Consistent, TypeOK, Row, IdsUnique
    <2>4. \A z \in Slots : Present(z)' =>
            row'[z].id <= issued' /\ accepts'[row'[z].id] = 0
      BY <1>3, <1>4, <2>3 DEF Consistent, IdsUnique, Present
    <2>5. \A y, z \in Slots : Present(y)' /\ row'[y].id = row'[z].id => y = z
      BY <1>3 DEF Consistent, IdsUnique, Present
    <2>6. \A z \in Slots : row'[z].id # issued + 1
      BY <1>3, <1>4, <2>3 DEF Present
    <2>7. accepts'[issued + 1] = 0
      BY <1>3, <1>4, <2>1 DEF Ids
    <2>8. \A q \in Requests : At(q, "upsert")' =>
            \/ q = r /\ request'[q] = new
            \/ q # r /\ At(q, "upsert") /\ request'[q] = request[q]
      BY <1>5 DEF Consistent, TypeOK
    <2>9. \A q \in Requests : At(q, "upsert") =>
            request[q].id \in Nat /\ request[q].id <= issued
      BY DEF Consistent, TypeOK, Request, IdsUnique
    <2>10. ASSUME NEW q \in Requests, At(q, "upsert")'
           PROVE  /\ request'[q].id <= issued'
                  /\ request'[q].attempts < MaxAttempts
                  /\ accepts'[request'[q].id] = 0
                  /\ \A z \in Slots : row'[z].id # request'[q].id
      <3>1. CASE q = r
        BY <3>1, <1>1, <1>4, <1>5, <2>6, <2>7, <2>8, <2>10 DEF new
      <3>2. CASE q # r
        BY <3>2, <1>3, <1>4, <2>8, <2>9, <2>10 DEF Consistent, IdsUnique
      <3> QED
        BY <3>1, <3>2
    <2>11. ASSUME NEW q \in Requests, NEW p \in Requests, At(q, "upsert")',
                  At(p, "upsert")', request'[q].id = request'[p].id
           PROVE  p = q
      BY <1>4, <2>8, <2>9, <2>11 DEF Consistent, IdsUnique, new
    <2> QED
      BY <2>2, <2>4, <2>5, <2>10, <2>11 DEF IdsUnique
  <1> QED
    BY <1>7, <1>8, <1>9, <1>10 DEF Consistent

(* A step that ends in another state of the request without a lock, and    *)
(* that at most takes rows away or counts an attempt.                      *)
LEMMA PlainStepConsistent ==
  ASSUME Consistent, TypeOK', NEW r \in Requests, NEW v \in Request,
         request' = [request EXCEPT ![r] = v],
         v.pc \notin {"upsert", "verify", "purge"},
         v.pc # "idle" => v.slot \in Slots /\ v.id \in Ids,
         \/ rowLock' = Release(rowLock, r)
         \/ rowLock' = rowLock /\ request[r].pc \notin {"upsert", "verify", "purge"},
         \A s \in Slots : rowLock[s] \notin {Nobody, r} => row'[s] = row[s],
         \A s \in Slots : row'[s].id \in {0, row[s].id},
         issued' = issued, accepts' = accepts
  PROVE  Consistent'
  <1>1. \A q \in Requests : At(q, "upsert")' =>
          At(q, "upsert") /\ request'[q] = request[q]
    BY DEF Consistent, TypeOK, At
  <1>2. IdsUnique'
    BY <1>1, IdsStayUnique
  <1>3. RequestsFormed' /\ LockDiscipline'
    BY OthersUndisturbed
  <1> QED
    BY <1>2, <1>3 DEF Consistent

(* The upsert: the id moves from the request to the row of the slot.       *)
LEMMA CreateUpsertConsistent ==
  ASSUME Consistent, NEW r \in Requests, CreateUpsert(r)
  PROVE  Consistent'
  <1> USE NobodyAssumption
  <1> DEFINE s == request[r].slot
             new == [id |-> request[r].id, method |-> request[r].method,
                     attempts |-> request[r].attempts, expires |-> request[r].expires]
             v == IF request[r].method = EMAIL_OTP
                  THEN [request[r] EXCEPT !.pc = "mail"] ELSE Idle
  <1>1. /\ At(r, "upsert") /\ CanLock(r, s)
        /\ row' = [row EXCEPT ![s] = new]
        /\ rowLock' = Release(rowLock, r) /\ advLock' = Release(advLock, r)
        /\ request' = [request EXCEPT ![r] = v]
        /\ issued' = issued /\ now' = now /\ accepts' = accepts
        /\ tries' \in {tries, [tries EXCEPT ![s] = 0]}
    BY DEF CreateUpsert, Become, Finish
  <1>2. /\ s \in Slots /\ request[r] \in Request /\ request[r].id \in Ids
        /\ rowLock[s] \in {Nobody, r}
    BY <1>1 DEF Consistent, TypeOK, RequestsFormed, At, CanLock
  <1>3. new \in Row
    BY <1>2 DEF Row, Request
  <1>4. /\ v \in Request /\ v.pc \in {"mail", "idle"}
        /\ v.pc # "idle" => v.slot = s /\ v.id = request[r].id
    BY <1>2, IdleFormed DEF Request, Steps, Idle
  <1>5. new.id = request[r].id
    OBVIOUS
  <1> HIDE DEF s, new, v
  <1>6. TypeOK'
    <2>1. /\ rowLock' \in [Slots -> Requests \cup {Nobody}]
          /\ advLock' \in [Slots -> Requests \cup {Nobody}]
      BY <1>1, ReleaseLocks DEF Consistent, TypeOK
    <2>2. row' \in [Slots -> Row] /\ request' \in [Requests -> Request]
      BY <1>1, <1>2, <1>3, <1>4 DEF Consistent, TypeOK
    <2>3. tries' \in [Slots -> Nat]
      BY <1>1 DEF Consistent, TypeOK
    <2> QED
      BY <1>1, <2>1, <2>2, <2>3 DEF Consistent, TypeOK
  <1>7. RequestsFormed' /\ LockDiscipline'
    <2>1. \A z \in Slots : rowLock[z] \notin {Nobody, r} => row'[z] = row[z]
      BY <1>1, <1>2 DEF Consistent, TypeOK
    <2> QED
      BY <1>1, <1>2, <1>4, <2>1, OthersUndisturbed
  <1>8. IdsUnique'
    <2>1. /\ row'[s].id = request[r].id
          /\ \A z \in Slots \ {s} : row'[z] = row[z]
      BY <1>1, <1>2, <1>5 DEF Consistent, TypeOK
    <2>2. /\ request[r].id <= issued /\ accepts[request[r].id] = 0
          /\ \A z \in Slots : row[z].id # request[r].id
          /\ \A q \in Requests :
               At(q, "upsert") /\ request[q].id = request[r].id => q = r
      BY <1>1 DEF Consistent, IdsUnique
    <2>3. \A q \in Requests : At(q, "upsert")' =>
            q # r /\ At(q, "upsert") /\ request'[q] = request[q]
      BY <1>1, <1>4 DEF Consistent, TypeOK, At
    <2>4. /\ \A z \in Slots : Present(z)' =>
               row'[z].id <= issued' /\ accepts'[row'[z].id] = 0
          /\ \A y, z \in Slots : Present(y)' /\ row'[y].id = row'[z].id => y = z
      BY <1>1, <1>2, <2>1, <2>2 DEF Consistent, IdsUnique, Present
    <2>5. ASSUME NEW q \in Requests, At(q, "upsert")'
          PROVE  /\ request'[q].id <= issued'
                 /\ request'[q].attempts < MaxAttempts
                 /\ accepts'[request'[q].id] = 0
                 /\ \A z \in Slots : row'[z].id # request'[q].id
                 /\ \A p \in Requests :
                      At(p, "upsert")' /\ request'[p].id = request'[q].id => p = q
      BY <1>1, <2>1, <2>2, <2>3, <2>5 DEF Consistent, IdsUnique
    <2> QED
      BY <1>1, <2>4, <2>5 DEF Consistent, IdsUnique
  <1> QED
    BY <1>6, <1>7, <1>8 DEF Consistent

(* The lock of consumeChallenge: from here on the row is what was read.    *)
LEMMA ConsumeLockConsistent ==
  ASSUME Consistent, NEW r \in Requests, ConsumeLock(r)
  PROVE  Consistent'
  <1> USE NobodyAssumption
  <1> DEFINE s == request[r].slot
             v == [request[r] EXCEPT !.pc = "verify", !.attempts = row[s].attempts]
  <1>1. /\ At(r, "consume") /\ Present(s) /\ row[s].id = request[r].id
        /\ CanLock(r, s) /\ ~Exhausted(s)
        /\ rowLock' = [rowLock EXCEPT ![s] = r]
        /\ request' = [request EXCEPT ![r] = v]
        /\ row' = row /\ advLock' = advLock /\ issued' = issued /\ now' = now
        /\ accepts' = accepts /\ tries' = tries
    BY DEF ConsumeLock, Become, Matches
  <1>2. /\ s \in Slots /\ request[r] \in Request /\ request[r].id \in Ids
        /\ row[s] \in Row /\ row[s].attempts < MaxAttempts
    BY <1>1, NumbersAssumption DEF Consistent, TypeOK, RequestsFormed, At, Exhausted, Row
  <1>3. /\ v \in Request /\ v.pc = "verify" /\ v.slot = s
        /\ v.id = row[s].id /\ v.attempts = row[s].attempts
    BY <1>1, <1>2 DEF Request, Steps, Row
  <1> HIDE DEF s, v
  <1>4. TypeOK'
    BY <1>1, <1>2, <1>3 DEF Consistent, TypeOK
  <1>5. request'[r] = v /\ \A q \in Requests \ {r} : request'[q] = request[q]
    BY <1>1 DEF Consistent, TypeOK
  <1>6. RequestsFormed'
    BY <1>1, <1>2, <1>3, <1>5 DEF Consistent, RequestsFormed, At
  <1>7. LockDiscipline'
    <2>1. /\ rowLock'[s] = r /\ rowLock[s] \in {Nobody, r}
          /\ \A z \in Slots \ {s} : rowLock'[z] = rowLock[z] /\ rowLock[z] # r
      BY <1>1, <1>2 DEF Consistent, TypeOK, LockDiscipline, CanLock, At
    <2>2. ASSUME NEW z \in Slots, rowLock'[z] # Nobody
          PROVE  /\ Present(z)'
                 /\ request'[rowLock'[z]].pc \in {"upsert", "verify", "purge"}
                 /\ request'[rowLock'[z]].pc # "purge"
                      => request'[rowLock'[z]].slot = z
      <3>1. CASE z = s
        BY <3>1, <1>1, <1>3, <1>5, <2>1 DEF Present
      <3>2. CASE z # s
        <4>1. rowLock[z] \in Requests \ {r} /\ rowLock'[z] = rowLock[z]
          BY <2>1, <2>2, <3>2 DEF Consistent, TypeOK
        <4> QED
          BY <1>1, <1>5, <4>1 DEF Consistent, LockDiscipline, Present, At
      <3> QED
        BY <3>1, <3>2
    <2>3. ASSUME NEW q \in Requests, At(q, "verify")'
          PROVE  /\ rowLock'[request'[q].slot] = q
                 /\ row'[request'[q].slot].id = request'[q].id
                 /\ row'[request'[q].slot].attempts = request'[q].attempts
                 /\ request'[q].attempts < MaxAttempts
      <3>1. CASE q = r
        BY <3>1, <1>1, <1>2, <1>3, <1>5, <2>1
      <3>2. CASE q # r
        <4>1. /\ At(q, "verify") /\ request'[q] = request[q]
              /\ request[q].slot \in Slots /\ rowLock[request[q].slot] = q
          BY <1>5, <2>3, <3>2 DEF Consistent, RequestsFormed, LockDiscipline, At
        <4>2. request[q].slot # s
          BY <2>1, <3>2, <4>1
        <4> QED
          BY <1>1, <2>1, <4>1, <4>2 DEF Consistent, LockDiscipline
      <3> QED
        BY <3>1, <3>2
    <2> QED
      BY <2>2, <2>3 DEF LockDiscipline, At
  <1>8. IdsUnique'
    <2>1. \A q \in Requests : At(q, "upsert")' =>
            At(q, "upsert") /\ request'[q] = request[q]
      BY <1>3, <1>5 DEF At
    <2> QED
      BY <1>1, <2>1, IdsStayUnique
  <1> QED
    BY <1>4, <1>6, <1>7, <1>8 DEF Consistent

(* Acceptance: the row and the id are the ones the verifier ran on, so the *)
(* id, counted once, is in no row any more.                                *)
LEMMA AcceptConsistent ==
  ASSUME Consistent, NEW r \in Requests, Accept(r)
  PROVE  /\ Consistent'
         /\ request[r].slot \in Slots /\ request[r].id \in Ids
         /\ row[request[r].slot].id = request[r].id
         /\ row[request[r].slot].attempts < MaxAttempts
         /\ row' = [row EXCEPT ![request[r].slot] = Absent]
         /\ accepts[request[r].id] = 0
         /\ accepts' = [accepts EXCEPT ![request[r].id] = 1]
  <1> USE NobodyAssumption, NumbersAssumption
  <1> DEFINE s == request[r].slot
             i == request[r].id
  <1>1. /\ At(r, "verify")
        /\ row' = [row EXCEPT ![s] = Absent]
        /\ tries' = [tries EXCEPT ![s] = 0]
        /\ accepts' = [accepts EXCEPT ![i] = @ + 1]
        /\ rowLock' = Release(rowLock, r)
        /\ request' = [request EXCEPT ![r] = Idle]
        /\ advLock' = advLock /\ issued' = issued /\ now' = now
    BY DEF Accept, Finish, Become
  <1>2. /\ s \in Slots /\ i \in Ids /\ rowLock[s] = r
        /\ row[s].id = i /\ row[s].attempts < MaxAttempts
    BY <1>1 DEF Consistent, RequestsFormed, LockDiscipline, At
  <1>3. accepts[i] = 0 /\ i <= issued /\ i # 0
    BY <1>2 DEF Consistent, IdsUnique, Present, Ids
  <1>4. /\ Absent \in Row /\ Absent.id = 0 /\ Idle.pc = "idle"
    BY DEF Absent, Row, Idle
  <1>5. accepts' = [accepts EXCEPT ![i] = 1]
    BY <1>1, <1>2, <1>3 DEF Consistent, TypeOK
  <1> HIDE DEF s, i
  <1>6. TypeOK'
    <2>1. rowLock' \in [Slots -> Requests \cup {Nobody}]
      BY <1>1, ReleaseLocks DEF Consistent, TypeOK
    <2>2. row' \in [Slots -> Row] /\ request' \in [Requests -> Request]
      BY <1>1, <1>2, <1>4, IdleFormed DEF Consistent, TypeOK
    <2>3. tries' \in [Slots -> Nat]
      BY <1>1 DEF Consistent, TypeOK
    <2>4. accepts' \in [Ids -> Nat]
      BY <1>5 DEF Consistent, TypeOK
    <2> QED
      BY <1>1, <2>1, <2>2, <2>3, <2>4 DEF Consistent, TypeOK
  <1>7. RequestsFormed' /\ LockDiscipline'
    <2>1. \A z \in Slots : rowLock[z] \notin {Nobody, r} => row'[z] = row[z]
      BY <1>1, <1>2 DEF Consistent, TypeOK
    <2> QED
      BY <1>1, <1>4, <2>1, IdleFormed, OthersUndisturbed
  <1>8. IdsUnique'
    <2>1. /\ row'[s].id = 0
          /\ \A z \in Slots \ {s} : row'[z] = row[z] /\ row[z].id # i
      BY <1>1, <1>2, <1>3, <1>4 DEF Consistent, TypeOK, IdsUnique, Present
    <2>2. accepts'[i] = 1 /\ \A j \in Ids \ {i} : accepts'[j] = accepts[j]
      BY <1>2, <1>5 DEF Consistent, TypeOK
    <2>3. \A j \in Ids : accepts'[j] <= 1 /\ (j > issued' => accepts'[j] = 0)
      BY <1>1, <1>3, <2>2 DEF Consistent, IdsUnique, TypeOK, Ids
    <2>4. \A z \in Slots : row[z].id \in 0 .. MaxIds
      BY DEF Consistent, TypeOK, Row
    <2>5. \A z \in Slots : Present(z)' =>
            row'[z].id <= issued' /\ accepts'[row'[z].id] = 0
      BY <1>1, <2>1, <2>2, <2>4 DEF Consistent, IdsUnique, Present, Ids
    <2>6. \A y, z \in Slots : Present(y)' /\ row'[y].id = row'[z].id => y = z
      BY <2>1 DEF Consistent, IdsUnique, Present
    <2>7. \A q \in Requests : At(q, "upsert")' =>
            /\ At(q, "upsert") /\ request'[q] = request[q]
            /\ request[q].id \in Ids /\ request[q].id # i
      BY <1>1, <1>2, <1>4 DEF Consistent, TypeOK, At, RequestsFormed, IdsUnique
    <2>8. ASSUME NEW q \in Requests, At(q, "upsert")'
          PROVE  /\ request'[q].id <= issued'
                 /\ request'[q].attempts < MaxAttempts
                 /\ accepts'[request'[q].id] = 0
                 /\ \A z \in Slots : row'[z].id # request'[q].id
                 /\ \A p \in Requests :
                      At(p, "upsert")' /\ request'[p].id = request'[q].id => p = q
      BY <1>1, <2>1, <2>2, <2>7, <2>8 DEF Consistent, IdsUnique, Ids
    <2> QED
      BY <2>3, <2>5, <2>6, <2>8 DEF IdsUnique
  <1> QED
    BY <1>1, <1>2, <1>3, <1>5, <1>6, <1>7, <1>8 DEF Consistent, s, i

\* updateMethod takes the locks of the user's rows that nobody else has.
LEMMA PurgeDeleteConsistent ==
  ASSUME Consistent, NEW r \in Requests, NEW u \in Users, PurgeDelete(r, u)
  PROVE  Consistent'
  <1> USE NobodyAssumption
  <1> DEFINE v == [Idle EXCEPT !.pc = "purge", !.slot = <<u, "LOGIN">>]
  <1>1. /\ At(r, "idle")
        /\ \A s \in SlotsOf(u) : Present(s) => CanLock(r, s)
        /\ rowLock' = [s \in Slots |-> IF s \in SlotsOf(u) /\ Present(s)
                                       THEN r ELSE rowLock[s]]
        /\ request' = [request EXCEPT ![r] = v]
        /\ row' = row /\ advLock' = advLock /\ issued' = issued /\ now' = now
        /\ accepts' = accepts /\ tries' = tries
    BY DEF PurgeDelete, Become
  <1>2. <<u, "LOGIN">> \in Slots
    BY DEF Slots, Purposes
  <1>3. v \in Request /\ v.pc = "purge" /\ v.slot \in Slots
    BY <1>2, IdleFormed DEF Request, Steps, Idle
  <1> HIDE DEF v
  <1>4. request'[r] = v /\ \A q \in Requests \ {r} : request'[q] = request[q]
    BY <1>1 DEF Consistent, TypeOK
  <1>5. TypeOK'
    BY <1>1, <1>3 DEF Consistent, TypeOK
  <1>6. RequestsFormed'
    BY <1>3, <1>4 DEF Consistent, RequestsFormed, At
  <1>7. \A s \in Slots :
          \/ rowLock'[s] = rowLock[s] /\ rowLock[s] # r
          \/ rowLock'[s] = r /\ rowLock[s] = Nobody /\ Present(s)
    BY <1>1 DEF Consistent, TypeOK, LockDiscipline, CanLock, At
  <1>8. LockDiscipline'
    <2>1. ASSUME NEW s \in Slots, rowLock'[s] # Nobody
          PROVE  /\ Present(s)'
                 /\ request'[rowLock'[s]].pc \in {"upsert", "verify", "purge"}
                 /\ request'[rowLock'[s]].pc # "purge"
                      => request'[rowLock'[s]].slot = s
      <3>1. CASE rowLock'[s] = r
        BY <3>1, <1>1, <1>3, <1>4, <1>7 DEF Present
      <3>2. CASE rowLock'[s] # r
        <4>1. rowLock[s] \in Requests \ {r} /\ rowLock'[s] = rowLock[s]
          BY <1>7, <2>1, <3>2 DEF Consistent, TypeOK
        <4> QED
          BY <1>1, <1>4, <4>1 DEF Consistent, LockDiscipline, Present, At
      <3> QED
        BY <3>1, <3>2
    <2>2. ASSUME NEW q \in Requests, At(q, "verify")'
          PROVE  /\ rowLock'[request'[q].slot] = q
                 /\ row'[request'[q].slot].id = request'[q].id
                 /\ row'[request'[q].slot].attempts = request'[q].attempts
                 /\ request'[q].attempts < MaxAttempts
      <3>1. q # r /\ request'[q] = request[q] /\ At(q, "verify")
        BY <1>3, <1>4, <2>2 DEF At
      <3>2. request[q].slot \in Slots /\ rowLock[request[q].slot] = q
        BY <3>1 DEF Consistent, RequestsFormed, LockDiscipline, At
      <3> QED
        BY <1>1, <1>7, <3>1, <3>2 DEF Consistent, LockDiscipline
    <2> QED
      BY <2>1, <2>2 DEF LockDiscipline, At
  <1>9. IdsUnique'
    <2>1. \A q \in Requests : At(q, "upsert")' =>
            At(q, "upsert") /\ request'[q] = request[q]
      BY <1>3, <1>4 DEF At
    <2> QED
      BY <1>1, <2>1, IdsStayUnique
  <1> QED
    BY <1>5, <1>6, <1>8, <1>9 DEF Consistent

\* A crash leaves rows without locks and no request.
LEMMA CrashConsistent ==
  ASSUME Consistent, Crash
  PROVE  Consistent'
  <1> USE NobodyAssumption
  <1>1. TypeOK'
    BY IdleFormed DEF Crash, Consistent, TypeOK
  <1>2. RequestsFormed' /\ LockDiscipline'
    BY DEF Crash, RequestsFormed, LockDiscipline, At, Idle
  <1>3. IdsUnique'
    BY IdsStayUnique DEF Crash, At, Idle
  <1> QED
    BY <1>1, <1>2, <1>3 DEF Consistent

\* Nothing that Consistent says depends on the time or on the history.
LEMMA TickConsistent ==
  ASSUME Consistent, Tick
  PROVE  Consistent'
  BY DEF Tick, Consistent, TypeOK, RequestsFormed, LockDiscipline, IdsUnique,
         At, Present

(* The steps that change no row: the mail, the guard, an enrollment that   *)
(* is presented, a refused answer, a request that throws.                  *)
LEMMA RowsUntouchedConsistent ==
  ASSUME Consistent, NEW r \in Requests,
         \/ MailSent(r) \/ MailFailed(r) \/ ConsumeRefused(r) \/ Throw(r)
         \/ \E s \in Slots : \/ AssertUsable(r, s) \/ AssertExpired(r, s)
                             \/ PresentEnrollment(r, s)
  PROVE  Consistent'
  <1>1. /\ row' = row /\ issued' = issued /\ now' = now /\ accepts' = accepts
        /\ tries' = tries
        /\ \/ rowLock' = rowLock /\ advLock' = advLock
              /\ request[r].pc \in {"idle", "mail", "consume"}
           \/ rowLock' = Release(rowLock, r) /\ advLock' = Release(advLock, r)
    BY DEF MailSent, MailFailed, ConsumeRefused, Throw, AssertUsable,
           AssertExpired, PresentEnrollment, At
  <1>2. PICK v \in Request :
          /\ request' = [request EXCEPT ![r] = v]
          /\ v.pc \in {"idle", "unsend", "consume", "expire"}
          /\ v.pc # "idle" => v.slot \in Slots /\ v.id \in Ids
    <2>1. Idle.pc = "idle"
      BY DEF Idle
    <2>2. CASE MailSent(r) \/ ConsumeRefused(r) \/ Throw(r)
      BY <2>1, <2>2, IdleFormed DEF MailSent, ConsumeRefused, Throw, Finish, Become
    <2>3. CASE MailFailed(r)
      <3> DEFINE v == [request[r] EXCEPT !.pc = "unsend"]
      <3>1. request' = [request EXCEPT ![r] = v] /\ At(r, "mail")
        BY <2>3 DEF MailFailed, Become
      <3>2. /\ v \in Request /\ v.pc = "unsend"
            /\ v.slot \in Slots /\ v.id \in Ids
        BY <3>1 DEF Consistent, TypeOK, Request, Steps, RequestsFormed, At
      <3> QED
        BY <3>1, <3>2
    <2>4. ASSUME NEW s \in Slots,
                 AssertUsable(r, s) \/ AssertExpired(r, s) \/ PresentEnrollment(r, s)
          PROVE  \E v \in Request :
                   /\ request' = [request EXCEPT ![r] = v]
                   /\ v.pc \in {"idle", "unsend", "consume", "expire"}
                   /\ v.pc # "idle" => v.slot \in Slots /\ v.id \in Ids
      <3> DEFINE v == [Idle EXCEPT !.pc = "consume", !.slot = s, !.id = row[s].id,
                                   !.method = row[s].method]
                 w == [Idle EXCEPT !.pc = "expire", !.slot = s, !.id = row[s].id]
      <3>1. /\ Present(s)
            /\ \/ request' = [request EXCEPT ![r] = v]
               \/ request' = [request EXCEPT ![r] = w]
        BY <2>4 DEF AssertUsable, AssertExpired, PresentEnrollment, Become
      <3>2. /\ row[s].id \in Ids /\ row[s].id \in 0 .. MaxIds
            /\ row[s].method \in ActiveMethods \cup {"NONE"}
        BY <3>1 DEF Consistent, TypeOK, Row, Present, Ids
      <3>3. /\ v \in Request /\ v.pc = "consume" /\ v.slot = s /\ v.id = row[s].id
            /\ w \in Request /\ w.pc = "expire" /\ w.slot = s /\ w.id = row[s].id
        BY <3>2, IdleFormed DEF Request, Steps, Idle
      <3> HIDE DEF v, w
      <3> QED
        BY <3>1, <3>2, <3>3
    <2> QED
      BY <2>2, <2>3, <2>4
  <1>3. TypeOK'
    BY <1>1, <1>2, ReleaseLocks DEF Consistent, TypeOK
  <1>4. \A s \in Slots : row'[s].id \in {0, row[s].id}
    BY <1>1
  <1> QED
    BY <1>1, <1>2, <1>3, <1>4, PlainStepConsistent

(* The steps that take rows away or count a wrong answer: they write only  *)
(* rows whose lock is free or their own.                                   *)
LEMMA RowsWrittenConsistent ==
  ASSUME Consistent, NEW r \in Requests,
         \/ Unsend(r) \/ ExpireDelete(r) \/ ConsumeExpired(r) \/ Reject(r)
         \/ PurgeCommit(r)
  PROVE  Consistent'
  <1> USE NobodyAssumption, NumbersAssumption
  <1>1. /\ request' = [request EXCEPT ![r] = Idle]
        /\ Idle \in Request /\ Idle.pc = "idle"
        /\ issued' = issued /\ now' = now /\ accepts' = accepts /\ advLock' = advLock
        /\ \/ rowLock' = rowLock /\ request[r].pc \in {"unsend", "expire", "consume"}
           \/ rowLock' = Release(rowLock, r)
    BY IdleFormed DEF Unsend, ExpireDelete, ConsumeExpired, Reject, PurgeCommit,
                      Finish, Become, Idle, At
  <1>2. Absent \in Row /\ Absent.id = 0
    BY DEF Absent, Row
  <1>3. /\ row' \in [Slots -> Row] /\ tries' \in [Slots -> Nat]
        /\ \A s \in Slots : rowLock[s] \notin {Nobody, r} => row'[s] = row[s]
        /\ \A s \in Slots : row'[s].id \in {0, row[s].id}
    <2>1. CASE Unsend(r) \/ ExpireDelete(r) \/ ConsumeExpired(r)
      <3> DEFINE s == request[r].slot
      <3>1. s \in Slots
        BY <2>1 DEF Unsend, ExpireDelete, ConsumeExpired, Consistent, RequestsFormed, At
      <3>2. \/ row' = row /\ tries' = tries
            \/ /\ rowLock[s] \in {Nobody, r}
               /\ row' = [row EXCEPT ![s] = Absent]
               /\ tries' = [tries EXCEPT ![s] = 0]
        BY <2>1 DEF Unsend, ExpireDelete, ConsumeExpired, DeleteById, CanLock
      <3> HIDE DEF s
      <3>3. row' \in [Slots -> Row] /\ tries' \in [Slots -> Nat]
        BY <1>2, <3>1, <3>2 DEF Consistent, TypeOK
      <3> QED
        BY <1>2, <3>1, <3>2, <3>3 DEF Consistent, TypeOK
    <2>2. CASE Reject(r)
      <3> DEFINE s == request[r].slot
                 n == request[r].attempts + 1
      <3>1. /\ At(r, "verify") /\ row' = [row EXCEPT ![s].attempts = n]
            /\ tries' = [tries EXCEPT ![s] = @ + 1]
        BY <2>2 DEF Reject
      <3>2. /\ s \in Slots /\ rowLock[s] = r /\ request[r] \in Request
            /\ request[r].attempts < MaxAttempts
        BY <3>1 DEF Consistent, TypeOK, RequestsFormed, LockDiscipline, At
      <3>3. n \in 0 .. MaxAttempts
        BY <3>2 DEF Request
      <3> HIDE DEF s, n
      <3>4. /\ row[s] \in Row
            /\ [row[s] EXCEPT !.attempts = n] \in Row
            /\ [row[s] EXCEPT !.attempts = n].id = row[s].id
        BY <3>2, <3>3 DEF Consistent, TypeOK, Row
      <3>5. row' = [row EXCEPT ![s] = [row[s] EXCEPT !.attempts = n]]
        BY <3>1
      <3>6. row' \in [Slots -> Row]
        BY <3>4, <3>5 DEF Consistent, TypeOK
      <3>7. tries' \in [Slots -> Nat]
        BY <3>1, <3>2 DEF Consistent, TypeOK
      <3> QED
        BY <3>2, <3>4, <3>5, <3>6, <3>7 DEF Consistent, TypeOK
    <2>3. CASE PurgeCommit(r)
      <3>1. /\ row' = [s \in Slots |-> IF rowLock[s] = r THEN Absent ELSE row[s]]
            /\ tries' = [s \in Slots |-> IF rowLock[s] = r THEN 0 ELSE tries[s]]
        BY <2>3 DEF PurgeCommit
      <3> QED
        BY <1>2, <3>1 DEF Consistent, TypeOK
    <2> QED
      BY <2>1, <2>2, <2>3
  <1>4. TypeOK'
    BY <1>1, <1>3, ReleaseLocks DEF Consistent, TypeOK
  <1> QED
    BY <1>1, <1>3, <1>4, PlainStepConsistent

-----------------------------------------------------------------------------
(* Theorems                                                                *)

\* Every step keeps the requests, the locks and the ids consistent.
LEMMA StepConsistent ==
  ASSUME Consistent, [Next]_vars
  PROVE  Consistent'
  <1>1. CASE Crash
    BY <1>1, CrashConsistent
  <1>2. CASE Tick
    BY <1>2, TickConsistent
  <1>3. ASSUME NEW r \in Requests, Begin(r) PROVE Consistent'
    BY <1>3, CreateSelectConsistent, PurgeDeleteConsistent, RowsUntouchedConsistent
    DEF Begin
  <1>4. ASSUME NEW r \in Requests, Continue(r) PROVE Consistent'
    BY <1>4, CreateUpsertConsistent, ConsumeLockConsistent, AcceptConsistent,
       RowsUntouchedConsistent, RowsWrittenConsistent
    DEF Continue
  <1>5. ASSUME NEW r \in Requests, Throw(r) PROVE Consistent'
    BY <1>5, RowsUntouchedConsistent
  <1>6. CASE UNCHANGED vars
    BY <1>6 DEF vars, Consistent, TypeOK, RequestsFormed, LockDiscipline,
                IdsUnique, At, Present
  <1> QED
    BY <1>1, <1>2, <1>3, <1>4, <1>5, <1>6 DEF Next

(* What the code assumes between two statements of a request holds in      *)
(* every reachable state: the inductive invariant of mfa.service.ts.       *)
THEOREM AlwaysConsistent == Spec => []Consistent
  <1>1. Init => Consistent
    BY InitConsistent
  <1>2. Consistent /\ [Next]_vars => Consistent'
    BY StepConsistent
  <1> QED
    BY <1>1, <1>2, PTL DEF Spec

\* Rows, locks and requests keep their types; attempt_count never passes
\* MFA_MAX_ATTEMPTS.
THEOREM TypeCorrect == Spec => []TypeOK
  <1>1. Consistent => TypeOK
    BY DEF Consistent
  <1> QED
    BY <1>1, AlwaysConsistent, PTL

(* However many requests present a challenge at once, consumeChallenge     *)
(* accepts it at most once.                                                *)
THEOREM ChallengeUsedOnce == Spec => []SingleUse
  <1>1. Consistent => SingleUse
    BY DEF Consistent, IdsUnique, SingleUse
  <1> QED
    BY <1>1, AlwaysConsistent, PTL

\* Only Accept counts an acceptance.
LEMMA OnlyAcceptCounts ==
  ASSUME [Next]_vars, \A r \in Requests : ~Accept(r)
  PROVE  accepts' = accepts
  BY DEF Next, vars, Begin, Continue, Throw, Crash, Tick, CreateSelect,
         AssertUsable, AssertExpired, PresentEnrollment, PurgeDelete,
         CreateUpsert, MailSent, MailFailed, Unsend, ExpireDelete, ConsumeLock,
         ConsumeExpired, ConsumeRefused, Reject, PurgeCommit

(* consumeChallenge accepts a challenge only while it is the one of its    *)
(* slot and has attempts left, and takes it away in the same step.         *)
THEOREM AcceptedOnlyWhileCurrent == Spec => AcceptedWhileCurrent
  <1> DEFINE A == \A i \in Ids : accepts'[i] > accepts[i] =>
                    \E s \in Slots : /\ row[s].id = i
                                    /\ row[s].attempts < MaxAttempts
                                    /\ row'[s].id # i
  <1>1. ASSUME Consistent, [Next]_vars PROVE A
    <2>1. CASE \A r \in Requests : ~Accept(r)
      <3>1. accepts' = accepts /\ accepts \in [Ids -> Nat]
        BY <1>1, <2>1, OnlyAcceptCounts DEF Consistent, TypeOK
      <3> QED
        BY <3>1
    <2>2. ASSUME NEW r \in Requests, Accept(r) PROVE A
      <3> DEFINE s == request[r].slot
                 i == request[r].id
      <3>1. /\ s \in Slots /\ i \in Ids /\ row[s].id = i
            /\ row[s].attempts < MaxAttempts
            /\ row' = [row EXCEPT ![s] = Absent]
            /\ accepts' = [accepts EXCEPT ![i] = 1]
        BY <1>1, <2>2, AcceptConsistent
      <3> HIDE DEF s, i
      <3>2. row'[s].id = 0 /\ i # 0
        BY <1>1, <3>1 DEF Consistent, TypeOK, Absent, Ids
      <3>3. \A j \in Ids : accepts'[j] > accepts[j] => j = i
        BY <1>1, <3>1 DEF Consistent, TypeOK
      <3> QED
        BY <3>1, <3>2, <3>3
    <2> QED
      BY <2>1, <2>2
  <1>2. Consistent /\ [Next]_vars => [A]_vars
    BY <1>1
  <1> QED
    BY <1>2, AlwaysConsistent, PTL DEF Spec, AcceptedWhileCurrent

-----------------------------------------------------------------------------
(* Removal                                                                 *)

(* A guard that is to delete an expired row knows a challenge that was     *)
(* drawn and is about to be written by nobody; if it still has its slot,   *)
(* it is expired.                                                          *)
ExpiryKnown ==
  \A r \in Requests : At(r, "expire") =>
    /\ request[r].id <= issued
    /\ \A q \in Requests : At(q, "upsert") => request[q].id # request[r].id
    /\ row[request[r].slot].id = request[r].id => Expired(request[r].slot)

\* A step that leaves every row its challenge and its window, or takes it away.
KeepsRows ==
  \A s \in Slots :
    \/ row'[s].id = 0
    \/ row'[s].id = row[s].id /\ row'[s].expires = row[s].expires

(* What a guard knows survives a step that draws and writes no challenge   *)
(* and starts no deletion.                                                 *)
LEMMA ExpiryStaysKnown ==
  ASSUME Consistent, ExpiryKnown, KeepsRows, issued' = issued,
         now' = now \/ now' = now + 1,
         \A q \in Requests :
           (At(q, "expire") \/ At(q, "upsert"))' => request'[q] = request[q]
  PROVE  ExpiryKnown'
  <1> SUFFICES ASSUME NEW r \in Requests, At(r, "expire")'
               PROVE  /\ request[r].id <= issued
                      /\ \A q \in Requests :
                           At(q, "upsert")' => request'[q].id # request[r].id
                      /\ row'[request[r].slot].id = request[r].id
                           => Expired(request[r].slot)'
    BY DEF ExpiryKnown, At
  <1>1. /\ At(r, "expire") /\ request[r].slot \in Slots
        /\ request[r].id # 0 /\ request'[r] = request[r]
    BY DEF Consistent, RequestsFormed, At, Ids
  <1>2. \A q \in Requests :
          At(q, "upsert")' => At(q, "upsert") /\ request'[q] = request[q]
    BY DEF At
  <1>3. row[request[r].slot].expires \in Nat /\ now \in Nat
    BY <1>1 DEF Consistent, TypeOK, Row
  <1> QED
    BY <1>1, <1>2, <1>3 DEF ExpiryKnown, KeepsRows, Expired

\* Of all steps of a request only the upsert puts a challenge in a row.
LEMMA RowsKept ==
  ASSUME Consistent, NEW r \in Requests, Begin(r) \/ Continue(r) \/ Throw(r),
         ~CreateUpsert(r)
  PROVE  KeepsRows
  <1>1. CASE row' = row
    BY <1>1 DEF KeepsRows
  <1>2. CASE Unsend(r) \/ ExpireDelete(r)
    BY <1>2 DEF Unsend, ExpireDelete, DeleteById, KeepsRows, Absent, Consistent, TypeOK
  <1>3. CASE ConsumeExpired(r) \/ Accept(r)
    BY <1>3 DEF ConsumeExpired, Accept, KeepsRows, Absent, Consistent, TypeOK
  <1>4. CASE Reject(r)
    <2>1. row \in [Slots -> Row]
      BY DEF Consistent, TypeOK
    <2>2. row' = [row EXCEPT ![request[r].slot].attempts = request[r].attempts + 1]
      BY <1>4 DEF Reject
    <2> QED
      BY <2>1, <2>2 DEF KeepsRows, Row
  <1>5. CASE PurgeCommit(r)
    BY <1>5 DEF PurgeCommit, KeepsRows, Absent
  <1> QED
    BY <1>1, <1>2, <1>3, <1>4, <1>5 DEF Begin, Continue, Throw, CreateSelect,
       AssertUsable, AssertExpired, PresentEnrollment, PurgeDelete, MailSent,
       MailFailed, ConsumeLock, ConsumeRefused

\* A guard never takes a challenge that is not the one it read for expired.
LEMMA ExpiryStep ==
  ASSUME Consistent, ExpiryKnown, [Next]_vars
  PROVE  ExpiryKnown'
  <1> USE DEF Consistent, TypeOK
  <1>1. CASE UNCHANGED vars
    BY <1>1 DEF vars, ExpiryKnown, At, Expired
  <1>2. CASE Crash
    BY <1>2 DEF Crash, ExpiryKnown, At, Idle
  <1>3. CASE Tick
    <2>1. KeepsRows /\ issued' = issued /\ now' = now + 1 /\ request' = request
      BY <1>3 DEF Tick, KeepsRows
    <2> QED
      BY <2>1, ExpiryStaysKnown
  <1>4. ASSUME NEW r \in Requests, Begin(r) \/ Continue(r) \/ Throw(r)
        PROVE  ExpiryKnown'
    <2>1. ASSUME NEW s \in Slots, NEW m \in ActiveMethods, CreateSelect(r, s, m)
          PROVE  ExpiryKnown'
      <3>1. /\ issued' = issued + 1 /\ row' = row /\ now' = now
            /\ \E v : /\ v.pc = "upsert" /\ v.id = issued + 1
                     /\ request' = [request EXCEPT ![r] = v]
        BY <2>1 DEF CreateSelect, Become
      <3> QED
        BY <3>1 DEF ExpiryKnown, At, Expired, RequestsFormed, Ids
    <2>2. ASSUME NEW s \in Slots, AssertExpired(r, s)
          PROVE  ExpiryKnown'
      <3>1. /\ issued' = issued /\ row' = row /\ now' = now
            /\ \E v : /\ v.pc = "expire" /\ v.id = row[s].id /\ v.slot = s
                     /\ request' = [request EXCEPT ![r] = v]
            /\ Present(s) /\ Expired(s)
        BY <2>2 DEF AssertExpired, Become, Idle
      <3>2. /\ row[s].id <= issued
            /\ \A q \in Requests : At(q, "upsert") => request[q].id # row[s].id
        BY <3>1 DEF IdsUnique
      <3> QED
        BY <3>1, <3>2 DEF ExpiryKnown, At, Expired
    <2>3. CASE CreateUpsert(r)
      <3> DEFINE z == request[r].slot
      <3>1. /\ issued' = issued /\ now' = now /\ z \in Slots /\ At(r, "upsert")
            /\ row'[z].id = request[r].id /\ \A s \in Slots \ {z} : row'[s] = row[s]
            /\ \E v : v.pc \in {"mail", "idle"} /\ request' = [request EXCEPT ![r] = v]
        BY <2>3 DEF CreateUpsert, Finish, Become, Idle, RequestsFormed, At, Request
      <3> SUFFICES ASSUME NEW q \in Requests, At(q, "expire")'
                   PROVE  /\ request'[q].id <= issued'
                          /\ \A p \in Requests :
                               At(p, "upsert")' => request'[p].id # request'[q].id
                          /\ row'[request'[q].slot].id = request'[q].id
                               => row'[request'[q].slot].expires <= now'
        BY DEF ExpiryKnown, Expired
      <3>2. q # r /\ At(q, "expire") /\ request'[q] = request[q]
        BY <3>1 DEF At
      <3>3. \A p \in Requests :
              At(p, "upsert")' => At(p, "upsert") /\ request'[p] = request[p]
        BY <3>1 DEF At
      <3>4. request[q].slot \in Slots
        BY <3>2 DEF RequestsFormed, At
      <3> HIDE DEF z
      <3> QED
        BY <3>1, <3>2, <3>3, <3>4 DEF ExpiryKnown, Expired
    <2>4. CASE /\ ~CreateUpsert(r)
               /\ \A s \in Slots : ~AssertExpired(r, s)
               /\ \A s \in Slots, m \in ActiveMethods : ~CreateSelect(r, s, m)
      <3>1. issued' = issued /\ now' = now
        BY <1>4, <2>4 DEF Begin, Continue, Throw, AssertUsable, PresentEnrollment,
           PurgeDelete, MailSent, MailFailed, Unsend, ExpireDelete, ConsumeLock,
           ConsumeExpired, ConsumeRefused, Accept, Reject, PurgeCommit
      <3>2. \E v : /\ v.pc \notin {"expire", "upsert"}
                  /\ request' = [request EXCEPT ![r] = v]
        BY <1>4, <2>4 DEF Begin, Continue, Throw, AssertUsable, PresentEnrollment,
           PurgeDelete, MailSent, MailFailed, Unsend, ExpireDelete, ConsumeLock,
           ConsumeExpired, ConsumeRefused, Accept, Reject, PurgeCommit, Finish,
           Become, Idle, Request
      <3>3. \A q \in Requests :
              (At(q, "expire") \/ At(q, "upsert"))' => request'[q] = request[q]
        BY <3>2 DEF At
      <3> QED
        BY <1>4, <2>4, <3>1, <3>3, RowsKept, ExpiryStaysKnown
    <2> QED
      BY <2>1, <2>2, <2>3, <2>4
  <1> QED
    BY <1>1, <1>2, <1>3, <1>4 DEF Next

(* A row goes away because its challenge was accepted or expired, could    *)
(* not be mailed, or because of updateMethod; never by the cleanup that    *)
(* was meant for the challenge before it.                                  *)
THEOREM ChallengesRemovedForAReason == Spec => RemovedForAReason
  <1> DEFINE A == \A s \in Slots :
       Present(s) /\ row'[s] = Absent =>
         \/ accepts'[row[s].id] > accepts[row[s].id]
         \/ Expired(s)
         \/ \E r \in Requests : At(r, "unsend") /\ request[r].id = row[s].id
         \/ \E r \in Requests : At(r, "purge") /\ rowLock[s] = r
  <1>1. ASSUME Consistent, ExpiryKnown, [Next]_vars PROVE A
    <2> SUFFICES ASSUME NEW s \in Slots, Present(s), row'[s] = Absent
                 PROVE  \/ accepts'[row[s].id] > accepts[row[s].id]
                        \/ Expired(s)
                        \/ \E r \in Requests :
                             At(r, "unsend") /\ request[r].id = row[s].id
                        \/ \E r \in Requests : At(r, "purge") /\ rowLock[s] = r
      OBVIOUS
    <2> USE <1>1 DEF Consistent, TypeOK
    <2>1. row'[s] # row[s]
      BY DEF Present, Absent
    <2>2. PICK r \in Requests :
            \/ CreateUpsert(r) \/ Unsend(r) \/ ExpireDelete(r) \/ ConsumeExpired(r)
            \/ Accept(r) \/ Reject(r) \/ PurgeCommit(r)
      BY <2>1 DEF Next, vars, Crash, Tick, Begin, Continue, Throw, CreateSelect,
         AssertUsable, AssertExpired, PresentEnrollment, PurgeDelete, MailSent,
         MailFailed, ConsumeLock, ConsumeRefused
    <2>3. ~At(r, "idle") => request[r].slot \in Slots
      BY DEF RequestsFormed
    <2>4. CASE CreateUpsert(r)
      <3> DEFINE z == request[r].slot
      <3>1. At(r, "upsert")
        BY <2>4 DEF CreateUpsert
      <3>3. z \in Slots /\ request[r].id # 0
        BY <3>1 DEF At, RequestsFormed, Ids
      <3>2. \E v : v.id = request[r].id /\ row' = [row EXCEPT ![z] = v]
        BY <2>4 DEF CreateUpsert
      <3> HIDE DEF z
      <3> QED
        BY <2>1, <3>2, <3>3 DEF Absent
    <2>5. CASE Unsend(r)
      BY <2>1, <2>3, <2>5 DEF Unsend, DeleteById, At
    <2>6. CASE ExpireDelete(r)
      BY <2>1, <2>3, <2>6 DEF ExpireDelete, DeleteById, At, ExpiryKnown
    <2>7. CASE ConsumeExpired(r)
      BY <2>1, <2>3, <2>7 DEF ConsumeExpired, At
    <2>8. CASE Accept(r)
      <3>1. /\ row' = [row EXCEPT ![request[r].slot] = Absent]
            /\ request[r].id \in Ids /\ row[request[r].slot].id = request[r].id
            /\ accepts' = [accepts EXCEPT ![request[r].id] = 1]
            /\ accepts[request[r].id] = 0
        BY <2>8, AcceptConsistent
      <3> QED
        BY <2>1, <3>1
    <2>9. CASE Reject(r)
      <3>1. row'[s].id = row[s].id
        BY <2>9 DEF Reject, Row
      <3> QED
        BY <3>1 DEF Present, Absent
    <2>10. CASE PurgeCommit(r)
      BY <2>1, <2>10 DEF PurgeCommit
    <2> QED
      BY <2>2, <2>4, <2>5, <2>6, <2>7, <2>8, <2>9, <2>10
  <1>2. Consistent /\ ExpiryKnown /\ [Next]_vars => [A]_vars
    BY <1>1
  <1>3. Init => ExpiryKnown
    BY DEF Init, ExpiryKnown, At, Idle
  <1>4. Consistent /\ ExpiryKnown /\ [Next]_vars => ExpiryKnown'
    BY ExpiryStep
  <1>5. Spec => []ExpiryKnown
    BY <1>3, <1>4, AlwaysConsistent, PTL DEF Spec
  <1> QED
    BY <1>2, <1>5, AlwaysConsistent, PTL DEF Spec, RemovedForAReason

-----------------------------------------------------------------------------
(* The refinement                                                          *)

\* A step after which the same ids are about to be written uses none.
LEMMA UsedIdsKept ==
  ASSUME Consistent, issued' = issued,
         \A q \in Requests :
           /\ At(q, "upsert")' <=> At(q, "upsert")
           /\ At(q, "upsert") => request'[q].id = request[q].id
  PROVE  UsedIds' = UsedIds
  <1>1. AboutToBeWritten' = AboutToBeWritten
    BY DEF AboutToBeWritten
  <1> QED
    BY <1>1 DEF UsedIds

\* A step that at most takes rows away withdraws their challenges.
LEMMA TakingRowsAwayWithdraws ==
  ASSUME \A s \in Slots : row'[s] \in {row[s], Absent},
         accepts' = accepts, UsedIds' = UsedIds
  PROVE  Promise!Next
  <1> DEFINE S == {s \in Slots : row'[s] = Absent}
  <1>1. /\ LiveIds' = [s \in Slots |-> IF s \in S THEN 0 ELSE LiveIds[s]]
        /\ WrongAnswers' = [s \in Slots |-> IF s \in S THEN 0 ELSE WrongAnswers[s]]
    BY DEF LiveIds, WrongAnswers, Absent
  <1>2. S \in SUBSET Slots /\ SpentIds' = SpentIds
    BY DEF SpentIds
  <1>3. Promise!Withdraw
    BY <1>1, <1>2 DEF Promise!Withdraw
  <1> QED
    BY <1>3 DEF Promise!Next

\* A createChallenge that does not get to write gives its id up.
LEMMA GivingUpDiscards ==
  ASSUME Consistent, row' = row, accepts' = accepts, issued' = issued,
         \A q \in Requests : At(q, "upsert")' =>
           At(q, "upsert") /\ request'[q].id = request[q].id
  PROVE  Promise!Next
  <1>1. AboutToBeWritten' \subseteq AboutToBeWritten
    BY DEF AboutToBeWritten
  <1>2. UsedIds \subseteq UsedIds' /\ UsedIds' \subseteq Ids
    <2>1. UsedIds \subseteq UsedIds' /\ UsedIds' \subseteq 1 .. issued
      BY <1>1 DEF UsedIds
    <2>2. 1 .. issued \subseteq Ids
      BY NumbersAssumption DEF Consistent, TypeOK, Ids
    <2> QED
      BY <2>1, <2>2
  <1> DEFINE D == UsedIds' \ UsedIds
  <1>3. D \in SUBSET (Ids \ UsedIds) /\ UsedIds' = UsedIds \cup D
    BY <1>2
  <1>4. LiveIds' = LiveIds /\ WrongAnswers' = WrongAnswers /\ SpentIds' = SpentIds
    BY DEF LiveIds, WrongAnswers, SpentIds
  <1> HIDE DEF D
  <1>5. Promise!Discard
    BY <1>3, <1>4 DEF Promise!Discard
  <1> QED
    BY <1>5 DEF Promise!Next

\* The upsert of createChallenge issues the challenge.
LEMMA CreateUpsertIssues ==
  ASSUME Consistent, NEW r \in Requests, CreateUpsert(r)
  PROVE  Promise!Next
  <1> USE NumbersAssumption
  <1> DEFINE s == request[r].slot
             i == request[r].id
             n == request[r].attempts
  <1>1. /\ At(r, "upsert") /\ issued' = issued /\ accepts' = accepts
        /\ row' = [row EXCEPT ![s] = [id |-> i, method |-> request[r].method,
                                     attempts |-> n, expires |-> request[r].expires]]
        /\ \E v : v.pc # "upsert" /\ request' = [request EXCEPT ![r] = v]
    <2>1. Idle.pc # "upsert"
      BY DEF Idle
    <2>2. request[r] \in Request
      BY DEF Consistent, TypeOK
    <2>3. [request[r] EXCEPT !.pc = "mail"].pc # "upsert"
      BY <2>2 DEF Request
    <2> QED
      BY <2>1, <2>3 DEF CreateUpsert, Become, Finish
  <1>2. /\ s \in Slots /\ i \in Ids /\ i <= issued /\ i \in 1 .. issued
        /\ n \in 0 .. MaxAttempts - 1
        /\ \A q \in Requests : At(q, "upsert") /\ request[q].id = i => q = r
    BY <1>1 DEF Consistent, TypeOK, Request, RequestsFormed, IdsUnique, At, Ids
  <1>3. /\ i \in AboutToBeWritten
        /\ AboutToBeWritten' = AboutToBeWritten \ {i}
    <2>1. \A q \in Requests : At(q, "upsert")' <=> q # r /\ At(q, "upsert")
      BY <1>1 DEF Consistent, TypeOK, At
    <2>2. \A q \in Requests \ {r} : request'[q] = request[q]
      BY <1>1 DEF Consistent, TypeOK
    <2> QED
      BY <1>1, <1>2, <2>1, <2>2 DEF AboutToBeWritten
  <1>4. i \in Ids \ UsedIds /\ UsedIds' = UsedIds \cup {i}
    BY <1>1, <1>2, <1>3 DEF UsedIds
  <1> HIDE DEF s, i, n
  <1>5. /\ LiveIds' = [LiveIds EXCEPT ![s] = i]
        /\ WrongAnswers' = [WrongAnswers EXCEPT ![s] = n]
        /\ SpentIds' = SpentIds
    BY <1>1, <1>2 DEF LiveIds, WrongAnswers, SpentIds, Consistent, TypeOK
  <1>6. Promise!Issue(s)
    BY <1>2, <1>4, <1>5 DEF Promise!Issue
  <1> QED
    BY <1>2, <1>6 DEF Promise!Next

\* A rejected answer counts one wrong answer against the live challenge.
LEMMA RejectFails ==
  ASSUME Consistent, NEW r \in Requests, Reject(r)
  PROVE  Promise!Next
  <1> USE NumbersAssumption
  <1> DEFINE s == request[r].slot
  <1>1. /\ At(r, "verify") /\ issued' = issued /\ accepts' = accepts
        /\ row' = [row EXCEPT ![s].attempts = request[r].attempts + 1]
        /\ request' = [request EXCEPT ![r] = Idle]
    BY DEF Reject, Finish, Become
  <1>2. /\ s \in Slots /\ row[s] \in Row /\ row[s].id # 0
        /\ row[s].attempts = request[r].attempts /\ row[s].attempts < MaxAttempts
    <2>1. /\ s \in Slots /\ request[r].id \in Ids /\ row[s].id = request[r].id
          /\ row[s].attempts = request[r].attempts /\ request[r].attempts < MaxAttempts
      BY <1>1 DEF Consistent, RequestsFormed, LockDiscipline, At
    <2>2. row[s] \in Row /\ request[r].id # 0
      BY <2>1 DEF Consistent, TypeOK, Ids
    <2> QED
      BY <2>1, <2>2
  <1> HIDE DEF s
  <1>3. UsedIds' = UsedIds
    BY <1>1, UsedIdsKept DEF Consistent, TypeOK, At, Idle
  <1>4. LiveIds' = LiveIds /\ SpentIds' = SpentIds
    BY <1>1, <1>2 DEF LiveIds, SpentIds, Consistent, TypeOK, Row
  <1>5. WrongAnswers' = [WrongAnswers EXCEPT ![s] = @ + 1]
    BY <1>1, <1>2 DEF WrongAnswers, Consistent, TypeOK, Row
  <1>6. LiveIds[s] = row[s].id /\ WrongAnswers[s] = row[s].attempts
    BY <1>2 DEF LiveIds, WrongAnswers
  <1>7. Promise!Fail(s)
    BY <1>2, <1>3, <1>4, <1>5, <1>6 DEF Promise!Fail
  <1> QED
    BY <1>2, <1>7 DEF Promise!Next

\* An accepted answer spends the live challenge, which was not spent before.
LEMMA AcceptAccepts ==
  ASSUME Consistent, NEW r \in Requests, Accept(r)
  PROVE  Promise!Next
  <1> USE NumbersAssumption
  <1> DEFINE s == request[r].slot
             i == request[r].id
  <1>1. /\ s \in Slots /\ i \in Ids /\ row[s].id = i
        /\ row[s].attempts < MaxAttempts
        /\ row' = [row EXCEPT ![s] = Absent]
        /\ accepts[i] = 0 /\ accepts' = [accepts EXCEPT ![i] = 1]
    BY AcceptConsistent
  <1>2. /\ At(r, "verify") /\ issued' = issued
        /\ request' = [request EXCEPT ![r] = Idle]
    BY DEF Accept, Finish, Become
  <1> HIDE DEF s, i
  <1>3. UsedIds' = UsedIds
    BY <1>2, UsedIdsKept DEF Consistent, TypeOK, At, Idle
  <1>4. i \in UsedIds
    <2>1. i <= issued /\ i \in 1 .. issued
      BY <1>1 DEF Consistent, TypeOK, IdsUnique, Present, Ids
    <2>2. i \notin AboutToBeWritten
      BY <1>1 DEF Consistent, IdsUnique, AboutToBeWritten
    <2> QED
      BY <2>1, <2>2 DEF UsedIds
  <1>5. i \notin SpentIds /\ SpentIds' = SpentIds \cup {i}
    BY <1>1 DEF SpentIds, Consistent, TypeOK
  <1>6. /\ LiveIds' = [LiveIds EXCEPT ![s] = 0]
        /\ WrongAnswers' = [WrongAnswers EXCEPT ![s] = 0]
        /\ LiveIds[s] = i /\ WrongAnswers[s] < MaxAttempts
    BY <1>1 DEF LiveIds, WrongAnswers, Consistent, TypeOK, Absent
  <1>7. Promise!Accept(s)
    BY <1>3, <1>4, <1>5, <1>6 DEF Promise!Accept
  <1> QED
    BY <1>1, <1>7 DEF Promise!Next

\* The decision of createChallenge draws an id that it is about to write.
LEMMA CreateSelectStutters ==
  ASSUME Consistent, NEW r \in Requests, NEW s \in Slots, NEW m \in ActiveMethods,
         CreateSelect(r, s, m)
  PROVE  Promise!Next
  <1> DEFINE new == [pc |-> "upsert", slot |-> s, id |-> issued + 1, method |-> m,
                     attempts |-> CarriedAttempts(s), expires |-> now + Ttl(s)]
  <1>1. /\ At(r, "idle") /\ issued' = issued + 1 /\ row' = row /\ accepts' = accepts
        /\ request' = [request EXCEPT ![r] = new]
        /\ new.pc = "upsert" /\ new.id = issued + 1
    BY DEF CreateSelect, Become
  <1> HIDE DEF new
  <1>2. AboutToBeWritten' = AboutToBeWritten \cup {issued + 1}
    <2>1. /\ At(r, "upsert")' /\ request'[r].id = issued + 1 /\ ~At(r, "upsert")
          /\ \A q \in Requests \ {r} : request'[q] = request[q]
      BY <1>1 DEF Consistent, TypeOK, At
    <2> QED
      BY <2>1 DEF AboutToBeWritten, At
  <1>3. \A i \in AboutToBeWritten : i <= issued
    BY DEF Consistent, IdsUnique, AboutToBeWritten
  <1>4. issued \in Nat
    BY DEF Consistent, TypeOK
  <1>5. UsedIds' = UsedIds
    <2>1. 1 .. issued' = (1 .. issued) \cup {issued + 1}
      BY <1>1, <1>4
    <2>2. issued + 1 \notin 1 .. issued
      BY <1>4
    <2> QED
      BY <1>2, <2>1, <2>2 DEF UsedIds
  <1> QED
    BY <1>1, <1>5, TakingRowsAwayWithdraws

(* Every behaviour of the requests, seen through the table, is one of the  *)
(* atomic one-time challenge: the interleavings, the waits, the crashes    *)
(* and the clock of the code add nothing that OneTimeChallenge forbids.    *)
THEOREM ChallengeRefinement == Spec => ImplementsOneTimeChallenge
  <1>1. Init => Promise!Init
    BY NumbersAssumption
    DEF Init, Promise!Init, LiveIds, WrongAnswers, UsedIds, SpentIds, Absent
  <1>2. ASSUME Consistent, [Next]_vars
        PROVE  [Promise!Next]_(Promise!oneTimeVars)
    <2>1. CASE UNCHANGED vars
      BY <2>1 DEF vars, Promise!oneTimeVars, LiveIds, WrongAnswers, UsedIds,
                  AboutToBeWritten, SpentIds, At
    <2>2. CASE Crash
      BY <1>2, <2>2, GivingUpDiscards DEF Crash, At, Idle
    <2>3. CASE Tick
      <3>1. UsedIds' = UsedIds
        BY <2>3 DEF Tick, UsedIds, AboutToBeWritten, At
      <3> QED
        BY <2>3, <3>1, TakingRowsAwayWithdraws DEF Tick
    <2>4. ASSUME NEW r \in Requests,
                 \/ \E s \in Slots : \/ AssertUsable(r, s) \/ AssertExpired(r, s)
                                     \/ PresentEnrollment(r, s)
                 \/ \E u \in Users : PurgeDelete(r, u)
                 \/ MailSent(r) \/ MailFailed(r) \/ ConsumeLock(r) \/ ConsumeRefused(r)
          PROVE  Promise!Next
      <3>1. row' = row /\ accepts' = accepts /\ issued' = issued
        BY <2>4 DEF AssertUsable, AssertExpired, PresentEnrollment, PurgeDelete,
                    MailSent, MailFailed, ConsumeLock, ConsumeRefused
      <3>2. /\ ~At(r, "upsert")
            /\ \E v : v.pc # "upsert" /\ request' = [request EXCEPT ![r] = v]
        <4>1. request[r] \in Request
          BY <1>2 DEF Consistent, TypeOK
        <4> QED
          BY <2>4, <4>1
          DEF AssertUsable, AssertExpired, PresentEnrollment, PurgeDelete, MailSent,
              MailFailed, ConsumeLock, ConsumeRefused, Finish, Become, At, Idle, Request
      <3>3. UsedIds' = UsedIds
        BY <1>2, <3>1, <3>2, UsedIdsKept DEF Consistent, TypeOK, At
      <3> QED
        BY <3>1, <3>3, TakingRowsAwayWithdraws
    <2>5. ASSUME NEW r \in Requests,
                 \/ Unsend(r) \/ ExpireDelete(r) \/ ConsumeExpired(r) \/ PurgeCommit(r)
          PROVE  Promise!Next
      <3>1. /\ \A s \in Slots : row'[s] \in {row[s], Absent}
            /\ accepts' = accepts /\ issued' = issued
            /\ ~At(r, "upsert") /\ request' = [request EXCEPT ![r] = Idle]
        BY <1>2, <2>5
        DEF Unsend, ExpireDelete, ConsumeExpired, PurgeCommit, DeleteById, Finish,
            Become, At, Consistent, TypeOK
      <3>2. UsedIds' = UsedIds
        BY <1>2, <3>1, UsedIdsKept DEF Consistent, TypeOK, At, Idle
      <3> QED
        BY <3>1, <3>2, TakingRowsAwayWithdraws
    <2>6. ASSUME NEW r \in Requests, Throw(r) PROVE Promise!Next
      BY <1>2, <2>6, GivingUpDiscards
      DEF Throw, Finish, Become, Consistent, TypeOK, At, Idle
    <2> QED
      BY <1>2, <2>1, <2>2, <2>3, <2>4, <2>5, <2>6, CreateSelectStutters,
         CreateUpsertIssues, RejectFails, AcceptAccepts
      DEF Next, Begin, Continue
  <1>3. Consistent /\ [Next]_vars => [Promise!Next]_(Promise!oneTimeVars)
    BY <1>2
  <1> QED
    BY <1>1, <1>3, AlwaysConsistent, PTL
    DEF Spec, ImplementsOneTimeChallenge, Promise!Spec

-----------------------------------------------------------------------------
(* Email codes: the advisory lock                                          *)

(* A request changes only rows whose lock is free or its own, takes only   *)
(* advisory locks that are free, and a row appears only by an upsert.      *)
LEMMA LocksRespected ==
  ASSUME Consistent, NEW r \in Requests, Begin(r) \/ Continue(r) \/ Throw(r)
  PROVE  /\ now' = now
         /\ \A q \in Requests : q # r => request'[q] = request[q]
         /\ \A s \in Slots : rowLock[s] \notin {Nobody, r} =>
              rowLock'[s] = rowLock[s] /\ row'[s] = row[s]
         /\ \A s \in Slots : advLock[s] \notin {Nobody, r} => advLock'[s] = advLock[s]
         /\ \A s \in Slots : row'[s].id # 0 =>
              row[s].id # 0 \/ (CreateUpsert(r) /\ s = request[r].slot)
  <1> USE NobodyAssumption
  <1>1. /\ row \in [Slots -> Row] /\ rowLock \in [Slots -> Requests \cup {Nobody}]
        /\ advLock \in [Slots -> Requests \cup {Nobody}]
        /\ request \in [Requests -> Request]
    BY DEF Consistent, TypeOK
  <1>2. /\ \A s \in Slots : rowLock[s] # r => Release(rowLock, r)[s] = rowLock[s]
        /\ \A s \in Slots : advLock[s] # r => Release(advLock, r)[s] = advLock[s]
    BY <1>1, ReleaseLocks
  <1>3. now' = now
    BY DEF Begin, Continue, Throw, CreateSelect, AssertUsable, AssertExpired,
           PresentEnrollment, PurgeDelete, CreateUpsert, MailSent, MailFailed,
           Unsend, ExpireDelete, ConsumeLock, ConsumeExpired, ConsumeRefused,
           Accept, Reject, PurgeCommit
  <1>4. \A q \in Requests : q # r => request'[q] = request[q]
    <2>1. \E v : request' = [request EXCEPT ![r] = v]
      BY DEF Begin, Continue, Throw, CreateSelect, AssertUsable, AssertExpired,
             PresentEnrollment, PurgeDelete, CreateUpsert, MailSent, MailFailed,
             Unsend, ExpireDelete, ConsumeLock, ConsumeExpired, ConsumeRefused,
             Accept, Reject, PurgeCommit, Finish, Become
    <2> QED
      BY <1>1, <2>1
  <1>5. \A s \in Slots : rowLock[s] \notin {Nobody, r} => rowLock'[s] = rowLock[s]
    <2>1. \/ rowLock' = rowLock \/ rowLock' = Release(rowLock, r)
          \/ \E s \in Slots : CanLock(r, s) /\ rowLock' = [rowLock EXCEPT ![s] = r]
          \/ \E u \in Users : PurgeDelete(r, u)
      <3>1. ASSUME ConsumeLock(r)
            PROVE  \E s \in Slots : CanLock(r, s) /\ rowLock' = [rowLock EXCEPT ![s] = r]
        BY <3>1 DEF ConsumeLock, Consistent, RequestsFormed, At
      <3> QED
        BY <3>1
        DEF Begin, Continue, Throw, CreateSelect, AssertUsable, AssertExpired,
            PresentEnrollment, CreateUpsert, MailSent, MailFailed, Unsend,
            ExpireDelete, ConsumeExpired, ConsumeRefused, Accept, Reject, PurgeCommit
    <2>2. ASSUME NEW u \in Users, PurgeDelete(r, u)
          PROVE  \A s \in Slots : rowLock[s] \notin {Nobody, r} => rowLock'[s] = rowLock[s]
      BY <2>2 DEF PurgeDelete, CanLock
    <2> QED
      BY <1>1, <1>2, <2>1, <2>2 DEF CanLock
  <1>6. \A s \in Slots : advLock[s] \notin {Nobody, r} => advLock'[s] = advLock[s]
    <2>1. \/ advLock' = advLock \/ advLock' = Release(advLock, r)
          \/ \E s \in Slots : advLock[s] = Nobody /\ advLock' = [advLock EXCEPT ![s] = r]
      BY DEF Begin, Continue, Throw, CreateSelect, AssertUsable, AssertExpired,
             PresentEnrollment, PurgeDelete, CreateUpsert, MailSent, MailFailed,
             Unsend, ExpireDelete, ConsumeLock, ConsumeExpired, ConsumeRefused,
             Accept, Reject, PurgeCommit
    <2> QED
      BY <1>1, <1>2, <2>1
  <1>7. \/ row' = row
        \/ /\ request[r].slot \in Slots /\ rowLock[request[r].slot] \in {Nobody, r}
           /\ \/ row' = [row EXCEPT ![request[r].slot] = Absent]
              \/ row' = [row EXCEPT ![request[r].slot].attempts = request[r].attempts + 1]
              \/ CreateUpsert(r)
        \/ PurgeCommit(r)
    <2>1. CASE Accept(r) \/ Reject(r)
      BY <2>1 DEF Accept, Reject, Consistent, RequestsFormed, LockDiscipline, At
    <2>2. CASE Unsend(r) \/ ExpireDelete(r) \/ ConsumeExpired(r) \/ CreateUpsert(r)
      BY <2>2 DEF Unsend, ExpireDelete, ConsumeExpired, CreateUpsert, DeleteById,
                  CanLock, Consistent, RequestsFormed, At
    <2> QED
      BY <2>1, <2>2
      DEF Begin, Continue, Throw, CreateSelect, AssertUsable, AssertExpired,
          PresentEnrollment, PurgeDelete, MailSent, MailFailed, ConsumeLock,
          ConsumeRefused
  <1>8. /\ \A s \in Slots : rowLock[s] \notin {Nobody, r} => row'[s] = row[s]
        /\ \A s \in Slots : row'[s].id # 0 =>
             row[s].id # 0 \/ (CreateUpsert(r) /\ s = request[r].slot)
    <2>1. CASE PurgeCommit(r)
      BY <1>1, <2>1 DEF PurgeCommit, Absent
    <2>2. CASE CreateUpsert(r)
      <3>1. \A s \in Slots : s # request[r].slot => row'[s] = row[s]
        BY <1>1, <2>2 DEF CreateUpsert
      <3>2. rowLock[request[r].slot] \in {Nobody, r}
        BY <2>2 DEF CreateUpsert, CanLock
      <3> QED
        BY <2>2, <3>1, <3>2
    <2>3. CASE /\ request[r].slot \in Slots /\ rowLock[request[r].slot] \in {Nobody, r}
               /\ row' = [row EXCEPT ![request[r].slot] = Absent]
      BY <1>1, <2>3 DEF Absent
    <2>4. CASE /\ request[r].slot \in Slots /\ rowLock[request[r].slot] \in {Nobody, r}
               /\ row' = [row EXCEPT ![request[r].slot].attempts = request[r].attempts + 1]
      BY <1>1, <2>4 DEF Row
    <2> QED
      BY <1>7, <2>1, <2>2, <2>3, <2>4
  <1> QED
    BY <1>3, <1>4, <1>5, <1>6, <1>8

\* What CreationSerialised says of one request.
Serial(q) ==
  LET s == request[q].slot
  IN  /\ advLock[s] = q
      /\ Present(s) => rowLock[s] = q /\ ~CoolingDown(s)
      /\ InWindow(s) => request[q].attempts = row[s].attempts

\* A createChallenge under way finds its slot as it read it, whatever another
\* request does.
LEMMA CreatorUndisturbed ==
  ASSUME Consistent, CreationSerialised,
         NEW r \in Requests, Begin(r) \/ Continue(r) \/ Throw(r),
         NEW q \in Requests, q # r, At(q, "upsert")
  PROVE  Serial(q)'
  <1> USE NobodyAssumption
  <1> DEFINE s == request[q].slot
  <1>1. /\ s \in Slots /\ advLock[s] = q
        /\ Present(s) => rowLock[s] = q /\ ~CoolingDown(s)
        /\ InWindow(s) => request[q].attempts = row[s].attempts
    BY DEF Consistent, RequestsFormed, CreationSerialised, At
  <1>2. /\ now' = now /\ request'[q] = request[q] /\ advLock'[s] = q
    BY <1>1, LocksRespected
  <1>3. CASE Present(s)
    <2>1. rowLock'[s] = q /\ row'[s] = row[s]
      BY <1>1, <1>3, LocksRespected
    <2> QED
      BY <1>1, <1>2, <2>1 DEF Serial, Present, InWindow, CoolingDown
  <1>4. CASE ~Present(s)
    <2>1. ~(CreateUpsert(r) /\ s = request[r].slot)
      BY <1>1 DEF CreateUpsert, CreationSerialised
    <2>2. row'[s].id = 0
      BY <1>1, <1>4, <2>1, LocksRespected DEF Present
    <2> QED
      BY <1>2, <2>2 DEF Serial, Present, InWindow
  <1> QED
    BY <1>3, <1>4

\* When only email codes are created, createChallenge holds the advisory lock
\* and has locked the row that it found.
LEMMA CreatorStartsSerial ==
  ASSUME LoginMethods \subseteq {EMAIL_OTP}, EnrollMethods = {},
         Consistent, NEW r \in Requests, Begin(r) \/ Continue(r) \/ Throw(r),
         At(r, "upsert")'
  PROVE  Serial(r)'
  <1>1. request[r] \in Request /\ request \in [Requests -> Request]
    BY DEF Consistent, TypeOK
  <1>2. PICK s \in Slots, m \in ActiveMethods : CreateSelect(r, s, m)
    <2>1. ASSUME \/ Continue(r) \/ Throw(r) \/ \E u \in Users : PurgeDelete(r, u)
                 \/ \E s \in Slots : \/ AssertUsable(r, s) \/ AssertExpired(r, s)
                                     \/ PresentEnrollment(r, s)
          PROVE  \E v : v.pc # "upsert" /\ request' = [request EXCEPT ![r] = v]
      BY <1>1, <2>1
      DEF Continue, Throw, AssertUsable, AssertExpired, PresentEnrollment,
          PurgeDelete, CreateUpsert, MailSent, MailFailed, Unsend, ExpireDelete,
          ConsumeLock, ConsumeExpired, ConsumeRefused, Accept, Reject, PurgeCommit,
          Finish, Become, Idle, Request
    <2> QED
      BY <1>1, <2>1 DEF Begin, At
  <1> DEFINE new == [pc |-> "upsert", slot |-> s, id |-> issued + 1, method |-> m,
                     attempts |-> CarriedAttempts(s), expires |-> now + Ttl(s)]
  <1>3. /\ request'[r] = new /\ row' = row /\ now' = now
        /\ advLock' = [advLock EXCEPT ![s] = r]
        /\ rowLock' = IF Present(s) THEN [rowLock EXCEPT ![s] = r] ELSE rowLock
    <2>1. m = EMAIL_OTP
      BY <1>2 DEF CreateSelect, MethodsFor
    <2> QED
      BY <1>1, <1>2, <2>1 DEF CreateSelect, Become
  <1>4. advLock'[s] = r /\ (Present(s) => rowLock'[s] = r)
    BY <1>3 DEF Consistent, TypeOK
  <1>5. new.slot = s /\ new.attempts = CarriedAttempts(s)
    OBVIOUS
  <1>6. ~CoolingDown(s)
    BY <1>2 DEF CreateSelect
  <1> HIDE DEF new
  <1> QED
    BY <1>3, <1>4, <1>5, <1>6
    DEF Serial, Present, InWindow, CarriedAttempts, CoolingDown

\* The wrong answers counted in a slot are in its row, and none without one.
Counted(s) == /\ ~Present(s) => tries[s] = 0
              /\ Present(s) => row[s].attempts >= tries[s]

(* Every step counts: Reject in the row it locked, CreateUpsert what it    *)
(* carries over, and with a row its count goes away.                       *)
LEMMA StepCounts ==
  ASSUME Consistent, CreationSerialised, AttemptsCoverWindow,
         NEW r \in Requests, Begin(r) \/ Continue(r) \/ Throw(r),
         NEW s \in Slots
  PROVE  Counted(s)'
  <1> USE NumbersAssumption
  <1>1. /\ row \in [Slots -> Row] /\ tries \in [Slots -> Nat]
        /\ request[r] \in Request /\ Counted(s)
    BY DEF Consistent, TypeOK, CreationSerialised, AttemptsCoverWindow, Counted
  <1>2. CASE row' = row /\ tries' = tries
    BY <1>1, <1>2 DEF Counted, Present
  <1>3. CASE PurgeCommit(r)
    BY <1>1, <1>3 DEF PurgeCommit, Counted, Present, Absent
  <1>4. CASE CreateUpsert(r)
    <2> DEFINE new == [id |-> request[r].id, method |-> request[r].method,
                       attempts |-> request[r].attempts, expires |-> request[r].expires]
    <2>1. /\ row' = [row EXCEPT ![request[r].slot] = new]
          /\ tries' = IF InWindow(request[r].slot) THEN tries
                      ELSE [tries EXCEPT ![request[r].slot] = 0]
          /\ At(r, "upsert") /\ new.id = request[r].id
          /\ new.attempts = request[r].attempts
      BY <1>4 DEF CreateUpsert
    <2>2. request[r].id # 0
      BY <2>1 DEF Consistent, RequestsFormed, At, Ids
    <2> HIDE DEF new
    <2>3. CASE s # request[r].slot
      BY <1>1, <2>1, <2>3 DEF Counted, Present
    <2>4. CASE s = request[r].slot
      <3>1. row'[s] = new /\ request[r].attempts \in Nat
        BY <1>1, <2>1, <2>4 DEF Request
      <3>2. InWindow(s) => request[r].attempts >= tries[s] /\ tries'[s] = tries[s]
        BY <1>1, <2>1, <2>4 DEF CreationSerialised, Counted, InWindow
      <3>3. ~InWindow(s) => tries'[s] = 0
        BY <1>1, <2>1, <2>4
      <3> QED
        BY <2>1, <2>2, <3>1, <3>2, <3>3 DEF Counted, Present
    <2> QED
      BY <2>3, <2>4
  <1>5. CASE Reject(r)
    <2>1. /\ row' = [row EXCEPT ![request[r].slot].attempts = request[r].attempts + 1]
          /\ tries' = [tries EXCEPT ![request[r].slot] = @ + 1]
          /\ At(r, "verify")
      BY <1>5 DEF Reject
    <2>2. /\ request[r].slot \in Slots /\ row[request[r].slot].id # 0
          /\ row[request[r].slot].attempts = request[r].attempts
      BY <2>1 DEF Consistent, RequestsFormed, LockDiscipline, At, Ids
    <2>3. request[r].attempts \in Nat
      BY <1>1 DEF Request
    <2> QED
      BY <1>1, <2>1, <2>2, <2>3 DEF Counted, Present, Row
  <1>6. CASE Accept(r)
    BY <1>1, <1>6 DEF Accept, Counted, Present, Absent
  <1>7. CASE Unsend(r) \/ ExpireDelete(r) \/ ConsumeExpired(r)
    <2>1. \/ row' = row /\ tries' = tries
          \/ /\ row' = [row EXCEPT ![request[r].slot] = Absent]
             /\ tries' = [tries EXCEPT ![request[r].slot] = 0]
      BY <1>7 DEF Unsend, ExpireDelete, ConsumeExpired, DeleteById
    <2> QED
      BY <1>1, <1>2, <2>1 DEF Counted, Present, Absent
  <1> QED
    BY <1>2, <1>3, <1>4, <1>5, <1>6, <1>7
    DEF Begin, Continue, Throw, CreateSelect, AssertUsable, AssertExpired,
        PresentEnrollment, PurgeDelete, MailSent, MailFailed, ConsumeLock,
        ConsumeRefused

\* While only email codes are created, creation stays serial and every wrong
\* answer counted.
LEMMA EmailStep ==
  ASSUME LoginMethods \subseteq {EMAIL_OTP}, EnrollMethods = {},
         Consistent, CreationSerialised, AttemptsCoverWindow, [Next]_vars
  PROVE  CreationSerialised' /\ AttemptsCoverWindow'
  <1>1. ASSUME NEW r \in Requests, Begin(r) \/ Continue(r) \/ Throw(r)
        PROVE  CreationSerialised' /\ AttemptsCoverWindow'
    <2>1. \A s \in Slots : Counted(s)'
      BY <1>1, StepCounts
    <2>2. \A q \in Requests : At(q, "upsert")' => Serial(q)'
      <3>1. ASSUME NEW q \in Requests, q # r, At(q, "upsert")' PROVE Serial(q)'
        <4>1. At(q, "upsert")
          BY <1>1, <3>1, LocksRespected DEF At
        <4> QED
          BY <1>1, <3>1, <4>1, CreatorUndisturbed
      <3>2. ASSUME At(r, "upsert")' PROVE Serial(r)'
        BY <1>1, <3>2, CreatorStartsSerial
      <3> QED
        BY <3>1, <3>2
    <2> QED
      BY <2>1, <2>2 DEF CreationSerialised, AttemptsCoverWindow, Counted, Serial
  <1>2. CASE Crash
    BY <1>2 DEF Crash, CreationSerialised, AttemptsCoverWindow, Present, At, Idle
  <1>3. CASE Tick
    <2>1. now \in Nat /\ \A s \in Slots : row[s] \in Row
      BY DEF Consistent, TypeOK
    <2>2. /\ row' = row /\ rowLock' = rowLock /\ advLock' = advLock
          /\ request' = request /\ tries' = tries /\ now' = now + 1
      BY <1>3 DEF Tick
    <2>3. ASSUME NEW r \in Requests, At(r, "upsert")' PROVE Serial(r)'
      <3> DEFINE s == request[r].slot
      <3>1. /\ s \in Slots /\ advLock[s] = r
            /\ Present(s) => rowLock[s] = r /\ ~CoolingDown(s)
            /\ InWindow(s) => request[r].attempts = row[s].attempts
        BY <2>2, <2>3 DEF Consistent, RequestsFormed, CreationSerialised, At
      <3>2. row[s] \in Row /\ Ttl(s) \in Nat
        BY <2>1, <3>1, NumbersAssumption DEF Ttl
      <3>3. s' = s
        BY <2>2
      <3> QED
        BY <2>1, <2>2, <3>1, <3>2, <3>3, NumbersAssumption
        DEF Serial, Present, InWindow, CoolingDown, Row, Ttl
    <2> QED
      BY <2>2, <2>3 DEF CreationSerialised, AttemptsCoverWindow, Serial, Present
  <1>4. CASE UNCHANGED vars
    BY <1>4 DEF vars, CreationSerialised, AttemptsCoverWindow, Present, InWindow,
                CoolingDown, At
  <1> QED
    BY <1>1, <1>2, <1>3, <1>4 DEF Next

\* While only email codes are created, creation is serial in every state.
LEMMA AlwaysSerial ==
  ASSUME LoginMethods \subseteq {EMAIL_OTP}, EnrollMethods = {}
  PROVE  Spec => [](Consistent /\ CreationSerialised /\ AttemptsCoverWindow)
  <1>1. Init => CreationSerialised /\ AttemptsCoverWindow
    BY DEF Init, CreationSerialised, AttemptsCoverWindow, Present, Absent, At, Idle
  <1>2. Consistent /\ CreationSerialised /\ AttemptsCoverWindow /\ [Next]_vars
          => CreationSerialised' /\ AttemptsCoverWindow'
    BY EmailStep
  <1> QED
    BY <1>1, <1>2, AlwaysConsistent, PTL DEF Spec

(* With email codes no wrong answer is lost: attempt_count counts every    *)
(* one given since the window began, over all the challenges that followed *)
(* one another in the slot.                                                *)
THEOREM EmailAttemptsCoverWindow ==
  ASSUME LoginMethods \subseteq {EMAIL_OTP}, EnrollMethods = {}
  PROVE  Spec => []AttemptsCoverWindow
  BY AlwaysSerial, PTL

(* With email codes no more than MFA_MAX_ATTEMPTS wrong answers are        *)
(* evaluated in a window.                                                  *)
THEOREM EmailTriesBounded ==
  ASSUME LoginMethods \subseteq {EMAIL_OTP}, EnrollMethods = {}
  PROVE  Spec => []TriesBounded
  <1>1. Consistent /\ CreationSerialised /\ AttemptsCoverWindow => TriesBounded
    BY NumbersAssumption
    DEF Consistent, TypeOK, Row, CreationSerialised, AttemptsCoverWindow, TriesBounded
  <1> QED
    BY <1>1, AlwaysSerial, PTL

\* Apart from the upsert and a wrong answer, a request at most removes rows.
LEMMA RowsOnlyGo ==
  ASSUME Consistent, NEW r \in Requests, Begin(r) \/ Continue(r) \/ Throw(r),
         ~CreateUpsert(r), ~Reject(r)
  PROVE  \A s \in Slots : row'[s] \in {row[s], Absent}
  <1>1. row \in [Slots -> Row]
    BY DEF Consistent, TypeOK
  <1> QED
    BY <1>1
    DEF Begin, Continue, Throw, CreateSelect, AssertUsable, AssertExpired,
        PresentEnrollment, PurgeDelete, MailSent, MailFailed, Unsend, DeleteById,
        ExpireDelete, ConsumeLock, ConsumeExpired, ConsumeRefused, Accept,
        PurgeCommit

(* With email codes a slot that has used up its attempts is not given a    *)
(* new challenge before its window ends.                                   *)
THEOREM EmailLockoutHolds ==
  ASSUME LoginMethods \subseteq {EMAIL_OTP}, EnrollMethods = {}
  PROVE  Spec => LockoutHolds
  <1> DEFINE A == \A s \in Slots :
                    InWindow(s) /\ Exhausted(s) => row'[s] \in {row[s], Absent}
  <1>1. ASSUME Consistent, CreationSerialised, [Next]_vars PROVE [A]_vars
    <2>1. /\ row \in [Slots -> Row] /\ MaxAttempts \in Nat
      BY <1>1, NumbersAssumption DEF Consistent, TypeOK
    <2>2. ASSUME NEW r \in Requests, CreateUpsert(r), NEW s \in Slots,
                 InWindow(s), Exhausted(s)
          PROVE  row'[s] = row[s]
      <3>1. request[r].attempts \in Nat /\ request[r].attempts < MaxAttempts
        BY <1>1, <2>2 DEF CreateUpsert, Consistent, TypeOK, Request, IdsUnique
      <3>2. s # request[r].slot
        BY <1>1, <2>1, <2>2, <3>1 DEF CreateUpsert, CreationSerialised, Exhausted, Row
      <3> QED
        BY <2>1, <2>2, <3>2 DEF CreateUpsert
    <2>3. ASSUME NEW r \in Requests, Reject(r), NEW s \in Slots, Exhausted(s)
          PROVE  row'[s] = row[s]
      <3>1. s # request[r].slot
        BY <1>1, <2>1, <2>3 DEF Reject, Consistent, LockDiscipline, Exhausted, Row
      <3> QED
        BY <2>1, <2>3, <3>1 DEF Reject
    <2>4. ASSUME NEW r \in Requests, Begin(r) \/ Continue(r) \/ Throw(r),
                 ~CreateUpsert(r), ~Reject(r)
          PROVE  \A s \in Slots : row'[s] \in {row[s], Absent}
      BY <1>1, <2>4, RowsOnlyGo
    <2> QED
      BY <1>1, <2>2, <2>3, <2>4 DEF Next, Crash, Tick
  <1>2. Consistent /\ CreationSerialised /\ [Next]_vars => [A]_vars
    BY <1>1
  <1> QED
    BY <1>2, AlwaysSerial, PTL DEF Spec, LockoutHolds

(* With email codes two codes are never mailed for a slot within the       *)
(* cooldown, unless the first has gone.                                    *)
THEOREM EmailCooldownKept ==
  ASSUME LoginMethods \subseteq {EMAIL_OTP}, EnrollMethods = {}
  PROVE  Spec => CooldownKept
  <1> DEFINE A == \A s \in Slots :
                    (/\ Present(s) /\ row[s].method = EMAIL_OTP
                     /\ now + Ttl(s) < row[s].expires + Cooldown)
                      => row'[s].id \in {0, row[s].id}
  <1>1. ASSUME Consistent, CreationSerialised, [Next]_vars PROVE [A]_vars
    <2>1. row \in [Slots -> Row] /\ now \in Nat
      BY <1>1 DEF Consistent, TypeOK
    <2>2. ASSUME NEW r \in Requests, CreateUpsert(r), NEW s \in Slots,
                 Present(s), CoolingDown(s)
          PROVE  row'[s] = row[s]
      <3>1. s # request[r].slot
        BY <1>1, <2>2 DEF CreateUpsert, CreationSerialised
      <3> QED
        BY <2>1, <2>2, <3>1 DEF CreateUpsert
    <2>3. ASSUME NEW s \in Slots, row[s].method = EMAIL_OTP,
                 now + Ttl(s) < row[s].expires + Cooldown
          PROVE  CoolingDown(s)
      BY <2>1, <2>3, NumbersAssumption DEF CoolingDown, Row, Ttl
    <2>4. ASSUME NEW r \in Requests, Begin(r) \/ Continue(r) \/ Throw(r),
                 ~CreateUpsert(r)
          PROVE  \A s \in Slots : row'[s].id \in {0, row[s].id}
      <3>1. CASE Reject(r)
        BY <2>1, <3>1 DEF Reject, Row
      <3>2. CASE ~Reject(r)
        BY <1>1, <2>4, <3>2, RowsOnlyGo DEF Absent
      <3> QED
        BY <3>1, <3>2
    <2> QED
      BY <1>1, <2>2, <2>3, <2>4 DEF Next, Crash, Tick
  <1>2. Consistent /\ CreationSerialised /\ [Next]_vars => [A]_vars
    BY <1>1
  <1> QED
    BY <1>2, AlwaysSerial, PTL DEF Spec, CooldownKept

-----------------------------------------------------------------------------
(* Accounts: the inductive invariant                                       *)

(* What a request of the accounts relies on between two of its steps: the  *)
(* challenge it answers is of the method it was told, the locked row is    *)
(* that challenge, a session stands behind a change, an accepted method    *)
(* behind the tokens to come, and a deletion holds all rows of its user.   *)
TaskSound(r) ==
  LET u == task[r].user
      s == request[r].slot
  IN  /\ Does(r, "answer") /\ ~At(r, "idle") => s = <<u, "LOGIN">>
      /\ Does(r, "confirm") /\ ~At(r, "idle") => s = <<u, "ENROLLMENT">>
      /\ Does(r, "answer") /\ request[r].pc \in {"consume", "verify"} =>
           request[r].method = task[r].method
      /\ At(r, "verify") => row[s].method = request[r].method
      /\ Does(r, "update") => task[r].method \in {NONE, EMAIL_OTP}
      /\ task[r].kind \in {"confirm", "update"} => task[r].claim \in sessions[u]
      /\ Does(r, "complete") => task[r].method \in proven[u]
      /\ Does(r, "cascade") =>
           At(r, "purge") /\ \A z \in SlotsOf(u) : Present(z) => rowLock[z] = r

(* Tokens claim no method that was not proven, and a TOTP secret is either *)
(* an old one or that of an accepted challenge.                            *)
AccountSound(u) ==
  /\ sessions[u] \ {NONE} \subseteq proven[u]
  /\ \/ account[u].secret \in {0, OldKey}
     \/ account[u].secret \in Ids /\ accepts[account[u].secret] = 1

IInv ==
  /\ Consistent
  /\ AccountTypeOK
  /\ \A r \in Requests : TaskSound(r)
  /\ \A u \in Users : AccountSound(u)
  /\ MethodEquipped
  /\ NothingLeftBehind

-----------------------------------------------------------------------------
(* The endpoints take steps of MfaChallenge                                *)

Moves(r) == Begin(r) \/ Continue(r) \/ Throw(r)

LEMMA SlotsOfUsers ==
  ASSUME NEW u \in Users
  PROVE  /\ <<u, "LOGIN">> \in SlotsOf(u) /\ <<u, "ENROLLMENT">> \in SlotsOf(u)
         /\ SlotsOf(u) \subseteq Slots
         /\ \A s \in SlotsOf(u) : s[1] = u
  BY DEF SlotsOf, Slots, Purposes

\* What an endpoint does to the challenges is a step of the request there.
LEMMA EndpointMoves ==
  ASSUME AccountTypeOK, NEW r \in Requests,
         \/ \E u \in Users : Answer(r, u)
         \/ \E u \in Users, claim \in Methods : Confirm(r, u, claim)
         \/ \E u \in Users, claim \in Methods, m \in Targets : Update(r, u, m, claim)
         \/ LoginCreate(r) \/ EnrollCreate(r) \/ Upsert(r) \/ UpsertOrphan(r) \/ Mail(r)
         \/ Consume(r) \/ AcceptEmailOtp(r) \/ AcceptTotp(r) \/ AcceptWebAuthn(r)
         \/ RejectAnswer(r) \/ AcceptConfirm(r) \/ RejectConfirm(r) \/ Forbidden(r)
         \/ UpdateCommit(r) \/ RemoveCascade(r) \/ RemoveCommit(r) \/ Fails(r)
  PROVE  Moves(r)
  <1>1. task[r] \in Task /\ (~Does(r, "free") => task[r].user \in Users)
    BY DEF AccountTypeOK
  <1>2. CASE \/ \E u \in Users : Answer(r, u)
             \/ \E u \in Users, claim \in Methods : Confirm(r, u, claim)
             \/ \E u \in Users, claim \in Methods, m \in Targets : Update(r, u, m, claim)
    BY <1>2, SlotsOfUsers DEF Answer, Confirm, Update, Moves, Begin
  <1>3. CASE LoginCreate(r) \/ EnrollCreate(r)
    <2>1. task[r].user \in Users
      BY <1>1, <1>3 DEF LoginCreate, EnrollCreate, Does
    <2>2. PICK s \in SlotsOf(task[r].user) : CreateSelect(r, s, task[r].method)
      BY <1>3, <2>1, SlotsOfUsers DEF LoginCreate, EnrollCreate
    <2>3. task[r].method \in ActiveMethods
      BY <2>2, MethodsAssumption DEF CreateSelect, MethodsFor, ActiveMethods
    <2> QED
      BY <2>1, <2>2, <2>3, SlotsOfUsers DEF Moves, Begin
  <1>4. CASE RemoveCascade(r)
    BY <1>1, <1>4 DEF RemoveCascade, Does, Moves, Begin
  <1>5. CASE UpsertOrphan(r) \/ Forbidden(r) \/ Fails(r)
    BY <1>5 DEF UpsertOrphan, Forbidden, Fails, Moves
  <1>6. CASE \/ Upsert(r) \/ Mail(r) \/ Consume(r) \/ AcceptEmailOtp(r) \/ AcceptTotp(r)
             \/ AcceptWebAuthn(r) \/ RejectAnswer(r) \/ AcceptConfirm(r)
             \/ RejectConfirm(r) \/ UpdateCommit(r) \/ RemoveCommit(r)
    BY <1>6 DEF Upsert, Mail, Consume, AcceptEmailOtp, AcceptTotp, AcceptWebAuthn,
                Accepted, RejectAnswer, AcceptConfirm, RejectConfirm, UpdateCommit,
                RemoveCommit, Moves, Continue
  <1> QED
    BY <1>2, <1>3, <1>4, <1>5, <1>6

\* The endpoints' other steps read the account only, or give up a deletion.
LEMMA EndpointSteps ==
  ASSUME AccountTypeOK, NEW r \in Requests,
         AccountBegin(r) \/ AccountContinue(r) \/ Fails(r) \/ RemoveFails(r) \/ Lost(r)
  PROVE  UNCHANGED vars \/ Moves(r)
  <1>1. CASE \/ \E u \in Users : LoginRead(r, u) \/ Remove(r, u)
             \/ \E u \in Users, claim \in Methods, m \in ActiveMethods : EnrollRead(r, u, m, claim)
             \/ LoginPlain(r) \/ LoginCheck(r) \/ Refused(r) \/ Complete(r) \/ Lost(r)
             \/ RemoveFails(r)
    BY <1>1 DEF LoginRead, Remove, EnrollRead, LoginPlain, LoginCheck, Refused, Complete,
                Lost, RemoveFails, Moves
  <1> QED
    BY <1>1, EndpointMoves DEF AccountBegin, AccountContinue

\* Every step of the accounts is a step of MfaChallenge, or changes nothing there.
LEMMA AccountStepMaps ==
  ASSUME AccountTypeOK, [AccountNext]_allVars
  PROVE  [Next]_vars
  <1>1. ASSUME NEW r \in Requests,
               AccountBegin(r) \/ AccountContinue(r) \/ Fails(r) \/ RemoveFails(r) \/ Lost(r)
        PROVE  [Next]_vars
    BY <1>1, EndpointSteps DEF Moves, Next
  <1>2. CASE AccountCrash \/ AccountTick
    BY <1>2 DEF AccountCrash, AccountTick, Next
  <1>3. CASE UNCHANGED allVars
    BY <1>3 DEF allVars
  <1> QED
    BY <1>1, <1>2, <1>3 DEF AccountNext

-----------------------------------------------------------------------------
(* What a step leaves of the requests it is not a step of                  *)

\* An acceptance is never taken back.
LEMMA AcceptsKept ==
  ASSUME Consistent, NEW r \in Requests, UNCHANGED vars \/ Moves(r)
  PROVE  \A i \in Ids : accepts[i] = 1 => accepts'[i] = 1
  <1>1. accepts \in [Ids -> Nat]
    BY DEF Consistent, TypeOK
  <1>2. CASE Accept(r)
    BY <1>1, <1>2, AcceptConsistent
  <1>3. CASE ~Accept(r)
    BY <1>3 DEF Moves, vars, Begin, Continue, Throw, CreateSelect,
         AssertUsable, AssertExpired, PresentEnrollment, PurgeDelete,
         CreateUpsert, MailSent, MailFailed, Unsend, ExpireDelete, ConsumeLock,
         ConsumeExpired, ConsumeRefused, Reject, PurgeCommit
  <1> QED
    BY <1>2, <1>3

\* Only the upsert of a challenge makes a row appear.
LEMMA NoRowAppears ==
  ASSUME Consistent, NEW r \in Requests,
         Begin(r) \/ Throw(r) \/ (Continue(r) /\ ~At(r, "upsert"))
  PROVE  \A s \in Slots : row'[s].id # 0 => row[s].id # 0
  <1>1. CASE Begin(r) \/ Throw(r)
    BY <1>1 DEF Begin, Throw, CreateSelect, AssertUsable, AssertExpired,
                PresentEnrollment, PurgeDelete
  <1>2. CASE Continue(r) /\ ~At(r, "upsert")
    BY <1>2, LocksRespected DEF CreateUpsert
  <1> QED
    BY <1>1, <1>2

\* A row that appears is of a user who is there and whom nobody deletes.
RowsAppearForUsers ==
  \A u \in Users : \A s \in SlotsOf(u) :
    row'[s].id # 0 => row[s].id # 0 \/ (account[u].exists /\ userLock[u] = Nobody)

LEMMA OthersSound ==
  ASSUME IInv, NEW r \in Requests, UNCHANGED vars \/ Moves(r),
         NEW t, task' = [task EXCEPT ![r] = t],
         \A u \in Users : sessions[u] \subseteq sessions'[u] /\ proven[u] \subseteq proven'[u],
         RowsAppearForUsers,
         NEW q \in Requests, q # r
  PROVE  TaskSound(q)' /\ request'[q] = request[q] /\ task'[q] = task[q]
  <1>1. task'[q] = task[q]
    BY DEF IInv, AccountTypeOK
  <1>2. /\ request'[q] = request[q]
        /\ \A s \in Slots : rowLock[s] = q => rowLock'[s] = q /\ row'[s] = row[s]
    BY NobodyAssumption, LocksRespected DEF IInv, Moves, vars
  <1>3. TaskSound(q) /\ (~Does(q, "free") => task[q].user \in Users)
    BY DEF IInv, AccountTypeOK
  <1>4. ASSUME At(q, "verify")
        PROVE  row'[request[q].slot] = row[request[q].slot]
    <2>1. request[q].slot \in Slots /\ rowLock[request[q].slot] = q
      BY <1>4 DEF IInv, Consistent, RequestsFormed, LockDiscipline, At
    <2> QED
      BY <1>2, <2>1
  <1>5. ASSUME Does(q, "cascade"), NEW z \in SlotsOf(task[q].user), row'[z].id # 0
        PROVE  rowLock'[z] = q
    <2>1. task[q].user \in Users
      BY <1>3, <1>5 DEF Does
    <2>2. userLock[task[q].user] = q
      BY <1>5, <2>1 DEF IInv, AccountTypeOK, Does
    <2>3. row[z].id # 0
      BY <1>5, <2>1, <2>2, NobodyAssumption DEF RowsAppearForUsers
    <2>4. rowLock[z] = q
      BY <1>3, <1>5, <2>3 DEF TaskSound, Present
    <2> QED
      BY <1>2, <2>1, <2>4, SlotsOfUsers
  <1>6. TaskSound(q)'
    <2>1. task[q].kind \in {"confirm", "update", "complete"} => task[q].user \in Users
      BY <1>3 DEF Does
    <2> QED
      BY <1>1, <1>2, <1>3, <1>4, <1>5, <2>1 DEF TaskSound, Does, At, Present
  <1> QED
    BY <1>1, <1>2, <1>6

(* A step of request r keeps everything that is said of requests, if what  *)
(* r holds afterwards is sound and r has locked no other user.             *)
LEMMA RequestsKept ==
  ASSUME IInv, NEW r \in Requests, UNCHANGED vars \/ Moves(r), Consistent',
         NEW t \in Task, task' = [task EXCEPT ![r] = t],
         account' \in [Users -> Account],
         userLock' \in [Users -> Requests \cup {Nobody}],
         sessions' \in [Users -> SUBSET Methods],
         proven' \in [Users -> SUBSET ActiveMethods],
         \A u \in Users : sessions[u] \subseteq sessions'[u] /\ proven[u] \subseteq proven'[u],
         \A u \in Users : userLock'[u] = r <=> t.kind \in {"remove", "cascade"} /\ t.user = u,
         \A u \in Users : userLock'[u] = userLock[u] \/ {userLock[u], userLock'[u]} \subseteq {r, Nobody},
         RowsAppearForUsers,
         ~At(r, "idle")' => /\ t.kind \in {"create", "answer", "confirm", "update", "cascade"}
                            /\ request'[r].slot \in SlotsOf(t.user),
         t.kind # "free" => t.user \in Users,
         TaskSound(r)'
  PROVE  AccountTypeOK' /\ \A q \in Requests : TaskSound(q)'
  <1>1. /\ task' \in [Requests -> Task] /\ task'[r] = t
    BY DEF IInv, AccountTypeOK
  <1>2. \A q \in Requests : q # r =>
          TaskSound(q)' /\ request'[q] = request[q] /\ task'[q] = task[q]
    BY OthersSound
  <1>3. \A q \in Requests : TaskSound(q)'
    BY <1>2
  <1>4. \A q \in Requests :
          /\ ~At(q, "idle")' =>
               /\ task'[q].kind \in {"create", "answer", "confirm", "update", "cascade"}
               /\ request'[q].slot \in SlotsOf(task'[q].user)
          /\ ~Does(q, "free")' => task'[q].user \in Users
    BY <1>1, <1>2 DEF IInv, AccountTypeOK, At, Does
  <1>5. \A u \in Users, q \in Requests :
          userLock'[u] = q <=> /\ task'[q].kind \in {"remove", "cascade"}
                               /\ task'[q].user = u
    <2>1. TAKE u \in Users, q \in Requests
    <2>2. CASE q = r
      BY <1>1, <2>2
    <2>3. CASE q # r
      <3>1. userLock'[u] = q <=> userLock[u] = q
        BY <2>3, NobodyAssumption
      <3>2. userLock[u] = q <=> /\ task[q].kind \in {"remove", "cascade"}
                                /\ task[q].user = u
        BY DEF IInv, AccountTypeOK
      <3> QED
        BY <1>2, <2>3, <3>1, <3>2
    <2> QED
      BY <2>2, <2>3
  <1>6. AccountTypeOK'
    BY <1>1, <1>4, <1>5 DEF AccountTypeOK
  <1> QED
    BY <1>3, <1>6

\* What is said of accounts, while they stay as they are.
LEMMA AccountsKept ==
  ASSUME IInv, NEW r \in Requests, UNCHANGED vars \/ Moves(r),
         account' = account,
         \A u \in Users : sessions'[u] \ {NONE} \subseteq proven'[u],
         RowsAppearForUsers
  PROVE  (\A u \in Users : AccountSound(u)') /\ MethodEquipped' /\ NothingLeftBehind'
  <1>1. \A i \in Ids : accepts[i] = 1 => accepts'[i] = 1
    BY AcceptsKept DEF IInv
  <1>2. \A u \in Users : AccountSound(u)'
    BY <1>1 DEF IInv, AccountSound
  <1>3. MethodEquipped'
    BY DEF IInv, MethodEquipped
  <1>4. NothingLeftBehind'
    BY DEF IInv, NothingLeftBehind, RowsAppearForUsers, Present
  <1> QED
    BY <1>2, <1>3, <1>4

(* Most steps change neither accounts nor tokens, and the request goes on  *)
(* with a task of the same user.                                           *)
LEMMA QuietStep ==
  ASSUME IInv, NEW r \in Requests, UNCHANGED vars \/ Moves(r), Consistent',
         UNCHANGED <<account, userLock, sessions, proven>>,
         NEW t \in Task, task' = [task EXCEPT ![r] = t],
         t.kind \in {"remove", "cascade"} <=> task[r].kind \in {"remove", "cascade"},
         t.kind \in {"remove", "cascade"} => t.user = task[r].user,
         RowsAppearForUsers,
         ~At(r, "idle")' => /\ t.kind \in {"create", "answer", "confirm", "update", "cascade"}
                            /\ request'[r].slot \in SlotsOf(t.user),
         t.kind # "free" => t.user \in Users,
         TaskSound(r)'
  PROVE  IInv'
  <1>1. /\ account' \in [Users -> Account]
        /\ userLock' \in [Users -> Requests \cup {Nobody}]
        /\ sessions' \in [Users -> SUBSET Methods]
        /\ proven' \in [Users -> SUBSET ActiveMethods]
    BY DEF IInv, AccountTypeOK
  <1>2. \A u \in Users : userLock'[u] = r <=> t.kind \in {"remove", "cascade"} /\ t.user = u
    BY DEF IInv, AccountTypeOK
  <1>3. \A u \in Users : sessions'[u] \ {NONE} \subseteq proven'[u]
    BY DEF IInv, AccountSound
  <1>4. AccountTypeOK' /\ \A q \in Requests : TaskSound(q)'
    <2>1. /\ \A u \in Users : sessions[u] \subseteq sessions'[u] /\ proven[u] \subseteq proven'[u]
          /\ \A u \in Users : userLock'[u] = userLock[u]
      OBVIOUS
    <2> QED
      BY <1>1, <1>2, <2>1, RequestsKept
  <1> QED
    BY <1>3, <1>4, AccountsKept DEF IInv

-----------------------------------------------------------------------------
(* Steps that change neither accounts nor tokens                           *)

LEMMA TasksTyped ==
  /\ Free \in Task
  /\ \A kind \in Kinds, u \in Users, m \in Methods, claim \in Methods :
       /\ Serve(kind, u, m, claim) \in Task
       /\ Serve(kind, u, m, claim).kind = kind /\ Serve(kind, u, m, claim).user = u
       /\ Serve(kind, u, m, claim).method = m /\ Serve(kind, u, m, claim).claim = claim
  /\ \A t \in Task, kind \in Kinds :
       /\ [t EXCEPT !.kind = kind] \in Task
       /\ [t EXCEPT !.kind = kind].kind = kind
       /\ [t EXCEPT !.kind = kind].user = t.user
       /\ [t EXCEPT !.kind = kind].method = t.method
  <1>1. Free \in Task
    BY DEF Free, Task, Kinds, Methods, NONE
  <1>2. \A kind \in Kinds, u \in Users, m \in Methods, claim \in Methods :
          /\ Serve(kind, u, m, claim) \in Task
          /\ Serve(kind, u, m, claim).kind = kind /\ Serve(kind, u, m, claim).user = u
          /\ Serve(kind, u, m, claim).method = m /\ Serve(kind, u, m, claim).claim = claim
    BY DEF Task, Serve
  <1>3. \A t \in Task, kind \in Kinds :
          /\ [t EXCEPT !.kind = kind] \in Task
          /\ [t EXCEPT !.kind = kind].kind = kind
          /\ [t EXCEPT !.kind = kind].user = t.user
          /\ [t EXCEPT !.kind = kind].method = t.method
    BY DEF Task
  <1> QED
    BY <1>1, <1>2, <1>3

\* A request begins to serve an endpoint.
LEMMA BeginsToServe ==
  ASSUME NEW r \in Requests, NEW kind \in Kinds, NEW u \in Users, NEW m \in Methods,
         NEW claim \in Methods, Goes(r, Serve(kind, u, m, claim))
  PROVE  \E t \in Task : /\ task' = [task EXCEPT ![r] = t]
                         /\ t.kind = kind /\ t.user = u /\ t.method = m /\ t.claim = claim
  <1>1. task' = [task EXCEPT ![r] = Serve(kind, u, m, claim)]
    BY DEF Goes
  <1>2. /\ Serve(kind, u, m, claim) \in Task
        /\ Serve(kind, u, m, claim).kind = kind /\ Serve(kind, u, m, claim).user = u
        /\ Serve(kind, u, m, claim).method = m /\ Serve(kind, u, m, claim).claim = claim
    BY TasksTyped
  <1> QED
    BY <1>1, <1>2

\* A request that has been answered holds nothing.
LEMMA Answered ==
  ASSUME IInv, NEW r \in Requests, UNCHANGED vars \/ Moves(r), Consistent',
         UNCHANGED <<account, userLock, sessions, proven>>,
         task' = [task EXCEPT ![r] = Free],
         task[r].kind \notin {"remove", "cascade"},
         RowsAppearForUsers,
         At(r, "idle")'
  PROVE  IInv'
  <1>1. Free \in Task /\ Free.kind = "free"
    BY TasksTyped DEF Free
  <1>2. task'[r] = Free
    BY DEF IInv, AccountTypeOK
  <1>3. TaskSound(r)'
    BY <1>1, <1>2 DEF TaskSound, Does, At
  <1> QED
    BY <1>1, <1>3, QuietStep

LEMMA RowsStay ==
  ASSUME \A s \in Slots : row'[s].id # 0 => row[s].id # 0
  PROVE  RowsAppearForUsers
  BY SlotsOfUsers DEF RowsAppearForUsers

\* The steps that read the account, or give up.
LEMMA ReadsKeep ==
  ASSUME IInv, NEW r \in Requests,
         \/ LoginCheck(r) \/ Refused(r) \/ Lost(r)
         \/ \E u \in Users : LoginRead(r, u)
         \/ \E u \in Users, claim \in Methods, m \in ActiveMethods : EnrollRead(r, u, m, claim)
  PROVE  IInv'
  <1>1. /\ UNCHANGED vars /\ UNCHANGED <<account, userLock, sessions, proven>>
        /\ task[r].kind \in {"free", "login", "checked", "enroll", "complete"}
    BY DEF LoginCheck, Refused, Lost, LoginRead, EnrollRead, Does
  <1>2. /\ Consistent' /\ RowsAppearForUsers
        /\ request' = request /\ task[r] \in Task /\ At(r, "idle")
        /\ ~Does(r, "free") => task[r].user \in Users
    BY <1>1, RowsStay, StepConsistent DEF IInv, AccountTypeOK, vars, Does
  <1>3. PICK t \in Task : /\ task' = [task EXCEPT ![r] = t]
                          /\ t.kind \in {"free", "login", "checked", "enroll"}
                          /\ t.kind # "free" => t.user \in Users
    <2>1. CASE \E u \in Users : LoginRead(r, u)
      <3>1. PICK u \in Users : LoginRead(r, u)
        BY <2>1
      <3>2. account[u].method \in Methods
        BY DEF IInv, AccountTypeOK, Account
      <3>3. "login" \in Kinds /\ NONE \in Methods
        BY DEF Kinds, Methods
      <3>4. Goes(r, Serve("login", u, account[u].method, NONE))
        BY <3>1 DEF LoginRead
      <3> QED
        BY <3>2, <3>3, <3>4, BeginsToServe
    <2>2. CASE \E u \in Users, claim \in Methods, m \in ActiveMethods : EnrollRead(r, u, m, claim)
      <3>1. PICK u \in Users, claim \in Methods, m \in ActiveMethods : EnrollRead(r, u, m, claim)
        BY <2>2
      <3>2. "enroll" \in Kinds /\ m \in Methods
        BY DEF Kinds, Methods
      <3>3. Goes(r, Serve("enroll", u, m, claim))
        BY <3>1 DEF EnrollRead
      <3> QED
        BY <3>2, <3>3, BeginsToServe
    <2>3. CASE LoginCheck(r)
      <3>1. task[r].user \in Users
        BY <1>2, <2>3 DEF LoginCheck, Does
      <3>2. \/ task' = [task EXCEPT ![r] = Free]
            \/ task' = [task EXCEPT ![r] = [task[r] EXCEPT !.kind = "checked"]]
        BY <2>3 DEF LoginCheck, Goes
      <3>3. /\ [task[r] EXCEPT !.kind = "checked"] \in Task
            /\ [task[r] EXCEPT !.kind = "checked"].kind = "checked"
            /\ [task[r] EXCEPT !.kind = "checked"].user = task[r].user
        BY <1>2, TasksTyped DEF Kinds
      <3> QED
        BY <3>1, <3>2, <3>3, TasksTyped DEF Free
    <2>4. CASE Refused(r) \/ Lost(r)
      BY <2>4, TasksTyped DEF Refused, Lost, Goes, Free
    <2> QED
      BY <2>1, <2>2, <2>3, <2>4
  <1>4. TaskSound(r)'
    <2>1. task'[r] = t
      BY <1>3 DEF IInv, AccountTypeOK
    <2> QED
      BY <1>2, <1>3, <2>1 DEF TaskSound, Does, At
  <1> QED
    BY <1>1, <1>2, <1>3, <1>4, QuietStep DEF At

\* createChallenge begins: the request is about to write a row of its user.
LEMMA CreationKeeps ==
  ASSUME IInv, NEW r \in Requests, LoginCreate(r) \/ EnrollCreate(r), Moves(r), Consistent'
  PROVE  IInv'
  <1>1. /\ task[r] \in Task /\ task[r].user \in Users
        /\ task[r].kind \in {"login", "checked", "enroll"}
        /\ UNCHANGED <<account, userLock, sessions, proven>>
    BY DEF LoginCreate, EnrollCreate, Does, IInv, AccountTypeOK
  <1>2. PICK s \in SlotsOf(task[r].user) : CreateSelect(r, s, task[r].method)
    BY <1>1, SlotsOfUsers DEF LoginCreate, EnrollCreate
  <1>3. At(r, "upsert")' /\ request'[r].slot = s /\ row' = row
    BY <1>2 DEF CreateSelect, Become, At, IInv, Consistent, TypeOK
  <1>4. PICK t \in Task : /\ task' = [task EXCEPT ![r] = t] /\ t.kind = "create"
                          /\ t.user = task[r].user
    <2>1. task' = [task EXCEPT ![r] = [task[r] EXCEPT !.kind = "create"]]
      BY DEF LoginCreate, EnrollCreate, Goes
    <2>2. /\ [task[r] EXCEPT !.kind = "create"] \in Task
          /\ [task[r] EXCEPT !.kind = "create"].kind = "create"
          /\ [task[r] EXCEPT !.kind = "create"].user = task[r].user
      BY <1>1, TasksTyped DEF Kinds
    <2> QED
      BY <2>1, <2>2
  <1>5. TaskSound(r)'
    <2>1. task'[r] = t
      BY <1>4 DEF IInv, AccountTypeOK
    <2> QED
      BY <1>3, <1>4, <2>1 DEF TaskSound, Does, At
  <1>6. RowsAppearForUsers
    BY <1>3, RowsStay
  <1> QED
    BY <1>1, <1>2, <1>3, <1>4, <1>5, <1>6, QuietStep

\* The upsert: a row appears only while its user is there and stays.
LEMMA UpsertKeeps ==
  ASSUME IInv, NEW r \in Requests, Upsert(r), Moves(r), Consistent'
  PROVE  IInv'
  <1>1. /\ task[r] \in Task /\ task[r].kind = "create" /\ task[r].user \in Users
        /\ request[r].slot \in SlotsOf(task[r].user)
        /\ UNCHANGED <<account, userLock, sessions, proven>>
    BY DEF Upsert, CreateUpsert, Does, At, IInv, AccountTypeOK
  <1>2. \/ request'[r] = Idle
        \/ request'[r].pc = "mail" /\ request'[r].slot = request[r].slot
    <2>1. request \in [Requests -> Request]
      BY DEF IInv, Consistent, TypeOK
    <2> QED
      BY <2>1 DEF Upsert, CreateUpsert, Finish, Become, Request
  <1>3. RowsAppearForUsers
    <2>1. \A z \in Slots : row'[z].id # 0 => row[z].id # 0 \/ z = request[r].slot
      BY LocksRespected DEF IInv, Moves
    <2>2. SUFFICES ASSUME NEW u \in Users, NEW s \in SlotsOf(u), row'[s].id # 0, row[s].id = 0
                   PROVE  account[u].exists /\ userLock[u] = Nobody
      BY DEF RowsAppearForUsers
    <2>3. s = request[r].slot
      BY <2>1, <2>2, SlotsOfUsers
    <2>4. task[r].user = u
      BY <1>1, <2>3, SlotsOfUsers
    <2> QED
      BY <2>2, <2>3, <2>4 DEF Upsert, Reference, UserFree, Present
  <1>4. \/ task' = [task EXCEPT ![r] = Free] /\ At(r, "idle")'
        \/ task' = [task EXCEPT ![r] = task[r]] /\ ~At(r, "idle")'
    BY DEF Upsert, Follow, Goes, At
  <1>5. CASE task' = [task EXCEPT ![r] = Free] /\ At(r, "idle")'
    BY <1>1, <1>3, <1>5, Answered
  <1>6. CASE task' = [task EXCEPT ![r] = task[r]] /\ ~At(r, "idle")'
    <2>1. request'[r].pc = "mail" /\ request'[r].slot = request[r].slot
      BY <1>2, <1>6 DEF Idle, At
    <2>2. task'[r] = task[r]
      BY <1>6 DEF IInv, AccountTypeOK
    <2>3. TaskSound(r)'
      BY <1>1, <2>1, <2>2 DEF TaskSound, Does, At
    <2> QED
      BY <1>1, <1>3, <1>6, <2>1, <2>3, QuietStep
  <1> QED
    BY <1>4, <1>5, <1>6

\* A transaction that is rolled back.
LEMMA ThrowKeeps ==
  ASSUME IInv, NEW r \in Requests, UpsertOrphan(r) \/ Forbidden(r) \/ Fails(r),
         Moves(r), Consistent'
  PROVE  IInv'
  <1>1. /\ Throw(r) /\ Follow(r) /\ UNCHANGED <<account, userLock, sessions, proven>>
        /\ task[r].kind # "cascade"
    BY DEF UpsertOrphan, Forbidden, Fails, Does
  <1>2. At(r, "idle")' /\ row' = row
    BY <1>1 DEF Throw, Finish, Become, Idle, At, IInv, Consistent, TypeOK
  <1>3. task' = [task EXCEPT ![r] = Free]
    BY <1>1, <1>2 DEF Follow, Goes, At
  <1>4. task[r].kind # "remove"
    BY <1>1 DEF Throw, IInv, AccountTypeOK, At
  <1> QED
    BY <1>1, <1>2, <1>3, <1>4, RowsStay, Answered

(* The mail, the answer up to its verdict, and a wrong answer: the request *)
(* goes on with the same slot and challenge, or is answered.               *)
LEMMA WorkKeeps ==
  ASSUME IInv, NEW r \in Requests,
         Mail(r) \/ Consume(r) \/ RejectAnswer(r) \/ RejectConfirm(r),
         Moves(r), Consistent'
  PROVE  IInv'
  <1>1. /\ Follow(r) /\ UNCHANGED <<account, userLock, sessions, proven>>
        /\ \/ MailSent(r) \/ MailFailed(r) \/ Unsend(r) \/ ConsumeLock(r)
           \/ ConsumeExpired(r) \/ ConsumeRefused(r) \/ ExpireDelete(r) \/ Reject(r)
    BY DEF Mail, Consume, RejectAnswer, RejectConfirm
  <1>2. /\ Continue(r) /\ request[r].pc \in {"mail", "unsend", "expire", "consume", "verify"}
        /\ request \in [Requests -> Request] /\ row \in [Slots -> Row]
    BY <1>1 DEF Continue, MailSent, MailFailed, Unsend, ConsumeLock, ConsumeExpired,
                ConsumeRefused, ExpireDelete, Reject, At, IInv, Consistent, TypeOK
  <1>3. /\ task[r].kind \in {"create", "answer", "confirm", "update"}
        /\ task[r] \in Task /\ task[r].user \in Users
        /\ request[r].slot \in SlotsOf(task[r].user)
        /\ TaskSound(r)
    BY <1>2 DEF IInv, AccountTypeOK, TaskSound, At, Does
  <1>4. RowsAppearForUsers
    BY <1>2, NoRowAppears, RowsStay DEF IInv, At
  <1>5. \/ request'[r].pc = "idle"
        \/ MailFailed(r) /\ request'[r] = [request[r] EXCEPT !.pc = "unsend"]
        \/ ConsumeLock(r) /\ request'[r].pc = "verify" /\ row' = row
             /\ request'[r].slot = request[r].slot /\ request'[r].method = request[r].method
    <2>1. CASE ConsumeLock(r)
      BY <1>2, <2>1 DEF ConsumeLock, Become, Request
    <2>2. CASE MailFailed(r)
      BY <1>2, <2>2 DEF MailFailed, Become
    <2>3. ASSUME Finish(r)
          PROVE  request'[r].pc = "idle"
      BY <1>2, <2>3 DEF Finish, Become, Idle
    <2> QED
      BY <1>1, <2>1, <2>2, <2>3 DEF MailSent, Unsend, ConsumeExpired, ConsumeRefused,
                                    ExpireDelete, Reject
  <1>6. CASE request'[r].pc = "idle"
    <2>1. task' = [task EXCEPT ![r] = Free]
      BY <1>1, <1>6 DEF Follow, Goes
    <2> QED
      BY <1>1, <1>3, <1>4, <1>6, <2>1, Answered DEF At
  <1>7. CASE request'[r].pc # "idle"
    <2>1. task' = [task EXCEPT ![r] = task[r]] /\ task'[r] = task[r]
      BY <1>1, <1>7 DEF Follow, Goes, IInv, AccountTypeOK
    <2>2. request'[r].slot = request[r].slot /\ request'[r].method = request[r].method
      BY <1>2, <1>5, <1>7 DEF Request
    <2>3. CASE MailFailed(r) /\ request'[r] = [request[r] EXCEPT !.pc = "unsend"]
      <3>1. request'[r].pc = "unsend"
        BY <1>2, <2>3 DEF Request
      <3>2. TaskSound(r)'
        BY <1>1, <1>2, <1>3, <2>1, <2>2, <3>1 DEF TaskSound, Does, At
      <3> QED
        BY <1>1, <1>3, <1>4, <2>1, <2>2, <3>2, QuietStep
    <2>4. CASE ConsumeLock(r) /\ request'[r].pc = "verify" /\ row' = row
      <3>1. request[r].pc = "consume" /\ row[request[r].slot].method = request[r].method
        BY <2>4 DEF ConsumeLock, Matches, At
      <3>2. TaskSound(r)'
        BY <1>1, <1>3, <2>1, <2>2, <2>4, <3>1 DEF TaskSound, Does, At
      <3> QED
        BY <1>1, <1>3, <1>4, <2>1, <2>2, <3>2, QuietStep
    <2> QED
      BY <1>5, <1>7, <2>3, <2>4
  <1> QED
    BY <1>6, <1>7

\* An answer to a login, or to an enrollment, arrives.
LEMMA AnswersKeep ==
  ASSUME IInv, NEW r \in Requests, NEW u \in Users,
         Answer(r, u) \/ \E claim \in Methods : Confirm(r, u, claim),
         Moves(r), Consistent'
  PROVE  IInv'
  <1>1. /\ UNCHANGED <<account, userLock, sessions, proven>> /\ row' = row
        /\ task[r].kind = "free"
        /\ row \in [Slots -> Row] /\ request \in [Requests -> Request]
    BY DEF Answer, Confirm, Does, AssertUsable, AssertExpired, PresentEnrollment,
           IInv, Consistent, TypeOK
  <1>2. CASE Answer(r, u)
    <2> DEFINE s == <<u, "LOGIN">>
    <2>1. s \in Slots /\ s \in SlotsOf(u)
      BY SlotsOfUsers
    <2>2. /\ request'[r].slot = s
          /\ \/ request'[r].pc = "consume" /\ request'[r].method = row[s].method
             \/ request'[r].pc = "expire"
      BY <1>1, <1>2 DEF Answer, AssertUsable, AssertExpired, Become, Idle
    <2>3. row[s].method \in Methods
      BY <1>1, <2>1 DEF Row, Methods, NONE
    <2>4. PICK t \in Task : /\ task' = [task EXCEPT ![r] = t]
                            /\ t.kind = "answer" /\ t.user = u /\ t.method = row[s].method
      <3>1. "answer" \in Kinds /\ NONE \in Methods
        BY DEF Kinds, Methods
      <3>2. Goes(r, Serve("answer", u, row[s].method, NONE))
        BY <1>2 DEF Answer
      <3> QED
        BY <2>3, <3>1, <3>2, BeginsToServe
    <2>5. task'[r] = t
      BY <2>4 DEF IInv, AccountTypeOK
    <2>6. TaskSound(r)'
      BY <2>2, <2>4, <2>5 DEF TaskSound, Does, At
    <2> QED
      BY <1>1, <2>1, <2>2, <2>4, <2>6, RowsStay, QuietStep
  <1>3. ASSUME NEW claim \in Methods, Confirm(r, u, claim)
        PROVE  IInv'
    <2> DEFINE s == <<u, "ENROLLMENT">>
    <2>1. s \in Slots /\ s \in SlotsOf(u)
      BY SlotsOfUsers
    <2>2. request'[r].slot = s /\ request'[r].pc = "consume"
      BY <1>1, <1>3 DEF Confirm, PresentEnrollment, Become, Idle
    <2>3. row[s].method \in Methods
      BY <1>1, <2>1 DEF Row, Methods, NONE
    <2>4. PICK t \in Task : /\ task' = [task EXCEPT ![r] = t]
                            /\ t.kind = "confirm" /\ t.user = u /\ t.claim = claim
      <3>1. "confirm" \in Kinds
        BY DEF Kinds
      <3>2. Goes(r, Serve("confirm", u, row[s].method, claim))
        BY <1>3 DEF Confirm
      <3> QED
        BY <2>3, <3>1, <3>2, BeginsToServe
    <2>5. task'[r] = t
      BY <2>4 DEF IInv, AccountTypeOK
    <2>6. TaskSound(r)'
      BY <1>3, <2>2, <2>4, <2>5 DEF Confirm, TaskSound, Does, At
    <2> QED
      BY <1>1, <2>1, <2>2, <2>4, <2>6, RowsStay, QuietStep
  <1> QED
    BY <1>2, <1>3

\* updateMethod and the cascade of a deletion lock all rows of the user.
LEMMA PurgesKeep ==
  ASSUME IInv, NEW r \in Requests,
         \/ RemoveCascade(r)
         \/ \E u \in Users, claim \in Methods, m \in Targets : Update(r, u, m, claim),
         Moves(r), Consistent'
  PROVE  IInv'
  <1>1. /\ UNCHANGED <<account, userLock, sessions, proven>>
        /\ rowLock \in [Slots -> Requests \cup {Nobody}]
        /\ request \in [Requests -> Request]
        /\ task[r] \in Task
    BY DEF RemoveCascade, Update, IInv, Consistent, TypeOK, AccountTypeOK
  <1>2. ASSUME NEW u \in Users, PurgeDelete(r, u)
        PROVE  /\ row' = row /\ At(r, "purge")' /\ request'[r].slot \in SlotsOf(u)
               /\ \A z \in SlotsOf(u) : Present(z) => rowLock'[z] = r
    BY <1>1, <1>2, SlotsOfUsers DEF PurgeDelete, Become, Idle, At
  <1>3. CASE RemoveCascade(r)
    <2>1. task[r].user \in Users /\ task[r].kind = "remove" /\ PurgeDelete(r, task[r].user)
      BY <1>3 DEF RemoveCascade, Does, IInv, AccountTypeOK
    <2>2. PICK t \in Task : /\ task' = [task EXCEPT ![r] = t]
                            /\ t.kind = "cascade" /\ t.user = task[r].user
      <3>1. task' = [task EXCEPT ![r] = [task[r] EXCEPT !.kind = "cascade"]]
        BY <1>3 DEF RemoveCascade, Goes
      <3>2. /\ [task[r] EXCEPT !.kind = "cascade"] \in Task
            /\ [task[r] EXCEPT !.kind = "cascade"].kind = "cascade"
            /\ [task[r] EXCEPT !.kind = "cascade"].user = task[r].user
        BY <1>1, TasksTyped DEF Kinds
      <3> QED
        BY <3>1, <3>2
    <2>3. task'[r] = t
      BY <2>2 DEF IInv, AccountTypeOK
    <2>4. TaskSound(r)'
      BY <1>2, <2>1, <2>2, <2>3 DEF TaskSound, Does, At, Present
    <2> QED
      BY <1>1, <1>2, <2>1, <2>2, <2>4, RowsStay, QuietStep
  <1>4. ASSUME NEW u \in Users, NEW claim \in Methods, NEW m \in Targets, Update(r, u, m, claim)
        PROVE  IInv'
    <2>1. PurgeDelete(r, u) /\ task[r].kind = "free" /\ claim \in sessions[u]
      BY <1>4 DEF Update, Does
    <2>2. m \in {NONE, EMAIL_OTP} /\ m \in Methods
      BY AccountAssumption DEF Methods, ActiveMethods
    <2>3. PICK t \in Task : /\ task' = [task EXCEPT ![r] = t] /\ t.kind = "update"
                            /\ t.user = u /\ t.method = m /\ t.claim = claim
      <3>1. "update" \in Kinds
        BY DEF Kinds
      <3>2. Goes(r, Serve("update", u, m, claim))
        BY <1>4 DEF Update
      <3> QED
        BY <2>2, <3>1, <3>2, BeginsToServe
    <2>4. task'[r] = t
      BY <2>3 DEF IInv, AccountTypeOK
    <2>5. TaskSound(r)'
      BY <1>1, <1>2, <2>1, <2>2, <2>3, <2>4 DEF TaskSound, Does, At
    <2> QED
      BY <1>1, <1>2, <2>1, <2>3, <2>5, RowsStay, QuietStep
  <1> QED
    BY <1>3, <1>4

-----------------------------------------------------------------------------
(* Tokens and deletions                                                    *)

LEMMA VariablesTyped ==
  ASSUME IInv
  PROVE  /\ account \in [Users -> Account]
         /\ userLock \in [Users -> Requests \cup {Nobody}]
         /\ task \in [Requests -> Task]
         /\ sessions \in [Users -> SUBSET Methods]
         /\ proven \in [Users -> SUBSET ActiveMethods]
         /\ row \in [Slots -> Row]
         /\ rowLock \in [Slots -> Requests \cup {Nobody}]
         /\ request \in [Requests -> Request]
         /\ accepts \in [Ids -> Nat] /\ now \in Nat
  BY DEF IInv, AccountTypeOK, Consistent, TypeOK

\* Tokens are handed out: without MFA, or for a method that was proven.
LEMMA TokensKeep ==
  ASSUME IInv, NEW r \in Requests, LoginPlain(r) \/ Complete(r)
  PROVE  IInv'
  <1> USE VariablesTyped
  <1>1. /\ UNCHANGED vars /\ UNCHANGED <<account, userLock, proven>>
        /\ task' = [task EXCEPT ![r] = Free]
        /\ task[r].kind \in {"login", "complete"}
    BY DEF LoginPlain, Complete, Goes, Does
  <1>2. /\ Consistent' /\ RowsAppearForUsers /\ At(r, "idle")'
        /\ task[r].user \in Users /\ TaskSound(r)
    BY <1>1, RowsStay, StepConsistent DEF IInv, AccountTypeOK, vars, Does, At
  <1>3. \/ sessions' = sessions
        \/ sessions' = [sessions EXCEPT ![task[r].user] = @ \cup {NONE}]
        \/ /\ sessions' = [sessions EXCEPT ![task[r].user] = @ \cup {task[r].method}]
           /\ task[r].method \in proven[task[r].user]
    BY <1>2 DEF LoginPlain, Complete, TaskSound
  <1>4. /\ sessions' \in [Users -> SUBSET Methods]
        /\ \A u \in Users : /\ sessions[u] \subseteq sessions'[u]
                           /\ sessions'[u] \ {NONE} \subseteq proven[u]
    <2>1. NONE \in Methods /\ task[r].method \in Methods
      BY DEF Methods, Task
    <2>2. \A u \in Users : sessions[u] \ {NONE} \subseteq proven[u]
      BY DEF IInv, AccountSound
    <2> QED
      BY <1>2, <1>3, <2>1, <2>2
  <1>5. Free \in Task /\ Free.kind = "free" /\ task'[r] = Free
    BY <1>1, TasksTyped DEF Free
  <1>6. TaskSound(r)'
    BY <1>2, <1>5 DEF TaskSound, Does, At
  <1>7. \A u \in Users : userLock[u] # r
    BY <1>1 DEF IInv, AccountTypeOK
  <1>8. AccountTypeOK' /\ \A q \in Requests : TaskSound(q)'
    <2>1. /\ account' \in [Users -> Account]
          /\ userLock' \in [Users -> Requests \cup {Nobody}]
          /\ proven' \in [Users -> SUBSET ActiveMethods]
          /\ \A u \in Users : proven[u] \subseteq proven'[u]
          /\ \A u \in Users : userLock'[u] = userLock[u]
          /\ \A u \in Users :
               userLock'[u] = r <=> Free.kind \in {"remove", "cascade"} /\ Free.user = u
      BY <1>1, <1>5, <1>7
    <2> QED
      BY <1>1, <1>2, <1>4, <1>5, <1>6, <2>1, RequestsKept
  <1>9. (\A u \in Users : AccountSound(u)') /\ MethodEquipped' /\ NothingLeftBehind'
    BY <1>1, <1>2, <1>4, AccountsKept
  <1> QED
    BY <1>2, <1>8, <1>9 DEF IInv

\* A deletion locks the row of the user, or lets go of it.
LEMMA UserLocksKeep ==
  ASSUME IInv, NEW r \in Requests, RemoveFails(r) \/ \E u \in Users : Remove(r, u),
         Consistent'
  PROVE  IInv'
  <1> USE VariablesTyped
  <1>1. UNCHANGED <<account, sessions, proven>> /\ (UNCHANGED vars \/ Throw(r))
    BY DEF RemoveFails, Remove
  <1>2. /\ UNCHANGED vars \/ Moves(r)
        /\ row' = row
    BY <1>1 DEF Moves, Throw, vars
  <1>3. /\ RowsAppearForUsers
        /\ \A u \in Users : /\ sessions[u] \subseteq sessions'[u] /\ proven[u] \subseteq proven'[u]
                           /\ sessions'[u] \ {NONE} \subseteq proven'[u]
    BY <1>1, <1>2, RowsStay DEF IInv, AccountSound
  <1>4. PICK t \in Task :
          /\ task' = [task EXCEPT ![r] = t] /\ At(r, "idle")'
          /\ t.kind \in {"free", "remove"}
          /\ t.kind # "free" => t.user \in Users
          /\ \A u \in Users : userLock'[u] = r <=> t.kind \in {"remove", "cascade"} /\ t.user = u
          /\ userLock' \in [Users -> Requests \cup {Nobody}]
          /\ \A u \in Users :
               userLock'[u] = userLock[u] \/ {userLock[u], userLock'[u]} \subseteq {r, Nobody}
    <2>1. CASE RemoveFails(r)
      <3>1. /\ task[r].kind \in {"remove", "cascade"} /\ task[r].user \in Users
            /\ At(r, "idle")'
        <4>1. CASE Does(r, "remove") /\ UNCHANGED vars
          BY <4>1 DEF IInv, AccountTypeOK, Does, At, vars
        <4>2. CASE Does(r, "cascade") /\ Throw(r)
          BY <4>2 DEF IInv, AccountTypeOK, Does, At, Throw, Finish, Become, Idle
        <4> QED
          BY <2>1, <4>1, <4>2 DEF RemoveFails
      <3>2. \A u \in Users : userLock[u] = r <=> task[r].user = u
        BY <3>1 DEF IInv, AccountTypeOK
      <3>3. userLock' = [userLock EXCEPT ![task[r].user] = Nobody]
            /\ task' = [task EXCEPT ![r] = Free]
        BY <2>1 DEF RemoveFails, Goes
      <3>4. Free \in Task /\ Free.kind = "free"
        BY TasksTyped DEF Free
      <3> QED
        BY <3>1, <3>2, <3>3, <3>4, NobodyAssumption
    <2>2. ASSUME NEW u \in Users, Remove(r, u)
          PROVE  \E t \in Task :
                   /\ task' = [task EXCEPT ![r] = t] /\ At(r, "idle")'
                   /\ t.kind = "remove" /\ t.user = u
                   /\ userLock' = [userLock EXCEPT ![u] = r]
                   /\ userLock[u] = Nobody /\ \A v \in Users : userLock[v] # r
      <3>1. "remove" \in Kinds /\ NONE \in Methods
        BY DEF Kinds, Methods
      <3>2. Goes(r, Serve("remove", u, NONE, NONE))
        BY <2>2 DEF Remove
      <3>3. \A v \in Users : userLock[v] # r
        BY <2>2 DEF Remove, Does, IInv, AccountTypeOK
      <3>4. At(r, "idle")' /\ userLock' = [userLock EXCEPT ![u] = r] /\ userLock[u] = Nobody
        BY <2>2 DEF Remove, At, vars, UserFree
      <3>5. PICK t \in Task : task' = [task EXCEPT ![r] = t] /\ t.kind = "remove" /\ t.user = u
        BY <3>1, <3>2, BeginsToServe
      <3> QED
        BY <3>3, <3>4, <3>5
    <2>3. CASE \E u \in Users : Remove(r, u)
      <3>1. PICK u \in Users : Remove(r, u)
        BY <2>3
      <3>2. PICK t \in Task :
                   /\ task' = [task EXCEPT ![r] = t] /\ At(r, "idle")'
                   /\ t.kind = "remove" /\ t.user = u
                   /\ userLock' = [userLock EXCEPT ![u] = r]
                   /\ userLock[u] = Nobody /\ \A v \in Users : userLock[v] # r
        BY <2>2, <3>1
      <3> QED
        BY <3>2
    <2> QED
      BY <2>1, <2>3
  <1>5. task'[r] = t
    BY <1>4
  <1>6. TaskSound(r)'
    BY <1>4, <1>5 DEF TaskSound, Does, At
  <1>7. AccountTypeOK' /\ \A q \in Requests : TaskSound(q)'
    <2>1. /\ account' \in [Users -> Account] /\ sessions' \in [Users -> SUBSET Methods]
          /\ proven' \in [Users -> SUBSET ActiveMethods]
      BY <1>1
    <2> QED
      BY <1>2, <1>3, <1>4, <1>6, <2>1, RequestsKept
  <1>8. (\A u \in Users : AccountSound(u)') /\ MethodEquipped' /\ NothingLeftBehind'
    BY <1>1, <1>2, <1>3, AccountsKept
  <1> QED
    BY <1>7, <1>8 DEF IInv

-----------------------------------------------------------------------------
(* Answers that are accepted, changes of method, the end of a deletion     *)

EquippedAs(a) ==
  /\ a.secret # 0 <=> a.method = TOTP
  /\ a.lastStep # 0 <=> a.method = TOTP
  /\ a.credential # 0 <=> a.method = WEBAUTHN

\* What is said of accounts when that of u changes.
LEMMA AccountsChanged ==
  ASSUME IInv, NEW r \in Requests, Moves(r),
         NEW u \in Users, NEW a \in Account, account' = [account EXCEPT ![u] = a],
         EquippedAs(a),
         ~a.exists => a.credential = 0 /\ \A s \in SlotsOf(u) : row'[s].id = 0,
         \/ a.secret \in {0, OldKey, account[u].secret}
         \/ a.secret \in Ids /\ accepts'[a.secret] = 1,
         \A v \in Users : sessions'[v] \ {NONE} \subseteq proven'[v],
         RowsAppearForUsers
  PROVE  /\ account' \in [Users -> Account]
         /\ (\A v \in Users : AccountSound(v)') /\ MethodEquipped' /\ NothingLeftBehind'
  <1>1. account \in [Users -> Account] /\ \A i \in Ids : accepts[i] = 1 => accepts'[i] = 1
    BY VariablesTyped, AcceptsKept DEF IInv
  <1>2. account' \in [Users -> Account] /\ account'[u] = a
        /\ \A v \in Users : v # u => account'[v] = account[v]
    BY <1>1
  <1>3. \A v \in Users : AccountSound(v)'
    BY <1>1, <1>2 DEF IInv, AccountSound
  <1>4. MethodEquipped'
    BY <1>2 DEF IInv, MethodEquipped, EquippedAs
  <1>5. NothingLeftBehind'
    BY <1>2 DEF IInv, NothingLeftBehind, RowsAppearForUsers, Present
  <1> QED
    BY <1>2, <1>3, <1>4, <1>5

(* Accept: it is the challenge of the slot, of the method the task says,   *)
(* and had not been accepted before.                                       *)
LEMMA AcceptedAnswer ==
  ASSUME IInv, NEW r \in Requests, Accept(r), task[r].kind \in {"answer", "confirm"}
  PROVE  /\ Moves(r) /\ RowsAppearForUsers /\ At(r, "idle")'
         /\ task[r] \in Task /\ task[r].user \in Users
         /\ request[r].slot = <<task[r].user, IF Does(r, "answer") THEN "LOGIN" ELSE "ENROLLMENT">>
         /\ request[r].slot \in Slots /\ request[r].id \in Ids
         /\ row[request[r].slot].id = request[r].id
         /\ Does(r, "answer") => row[request[r].slot].method = task[r].method
         /\ accepts[request[r].id] = 0
         /\ accepts' = [accepts EXCEPT ![request[r].id] = 1]
         /\ TaskSound(r)
  <1> USE VariablesTyped
  <1>1. Moves(r) /\ At(r, "verify") /\ At(r, "idle")'
    BY DEF Moves, Continue, Accept, Finish, Become, Idle, At
  <1>2. RowsAppearForUsers
    BY <1>1, NoRowAppears, RowsStay DEF At, Moves, IInv, Continue
  <1>3. TaskSound(r) /\ task[r] \in Task /\ task[r].user \in Users
    BY DEF IInv, AccountTypeOK, Does
  <1>4. /\ request[r].slot \in Slots /\ request[r].id \in Ids
        /\ row[request[r].slot].id = request[r].id
        /\ accepts[request[r].id] = 0
        /\ accepts' = [accepts EXCEPT ![request[r].id] = 1]
    BY AcceptConsistent DEF IInv
  <1> QED
    BY <1>1, <1>2, <1>3, <1>4 DEF TaskSound, Does, At

\* A login is accepted; the tokens are to come.
LEMMA AcceptedKeeps ==
  ASSUME IInv, NEW r \in Requests, Does(r, "answer"), Accepted(r), Consistent',
         task[r].method \in ActiveMethods,
         \/ account' = account
         \/ \E t \in Nat \ {0} :
              /\ account' = [account EXCEPT ![task[r].user].lastStep = t]
              /\ account[task[r].user].method = TOTP
  PROVE  IInv'
  <1> USE VariablesTyped
  <1> DEFINE u == task[r].user
  <1>1. /\ Accept(r) /\ UNCHANGED <<userLock, sessions>>
        /\ proven' = [proven EXCEPT ![u] = @ \cup {task[r].method}]
    BY DEF Accepted
  <1>2. /\ Moves(r) /\ RowsAppearForUsers /\ At(r, "idle")'
        /\ task[r] \in Task /\ u \in Users
    BY <1>1, AcceptedAnswer DEF Does
  <1>3. PICK t \in Task : /\ task' = [task EXCEPT ![r] = t] /\ t.kind = "complete"
                          /\ t.user = u /\ t.method = task[r].method
    <2>1. task' = [task EXCEPT ![r] = [task[r] EXCEPT !.kind = "complete"]]
      BY DEF Accepted, Goes
    <2>2. /\ [task[r] EXCEPT !.kind = "complete"] \in Task
          /\ [task[r] EXCEPT !.kind = "complete"].kind = "complete"
          /\ [task[r] EXCEPT !.kind = "complete"].user = u
          /\ [task[r] EXCEPT !.kind = "complete"].method = task[r].method
      BY <1>2, TasksTyped DEF Kinds
    <2> QED
      BY <2>1, <2>2
  <1>4. /\ proven' \in [Users -> SUBSET ActiveMethods]
        /\ task[r].method \in proven'[u]
        /\ \A v \in Users : /\ sessions[v] \subseteq sessions'[v] /\ proven[v] \subseteq proven'[v]
                           /\ sessions'[v] \ {NONE} \subseteq proven'[v]
    <2>1. \A v \in Users : sessions[v] \ {NONE} \subseteq proven[v]
      BY DEF IInv, AccountSound
    <2> QED
      BY <1>1, <1>2, <2>1
  <1>5. /\ account' \in [Users -> Account]
        /\ (\A v \in Users : AccountSound(v)') /\ MethodEquipped' /\ NothingLeftBehind'
    <2>1. CASE account' = account
      BY <1>2, <1>4, <2>1, AccountsKept
    <2>2. ASSUME NEW n \in Nat \ {0},
                 account' = [account EXCEPT ![u].lastStep = n], account[u].method = TOTP
          PROVE  /\ account' \in [Users -> Account]
                 /\ (\A v \in Users : AccountSound(v)') /\ MethodEquipped' /\ NothingLeftBehind'
      <3>1. account[u] \in Account /\ EquippedAs(account[u])
            /\ (account[u].exists \/ (account[u].credential = 0 /\ \A s \in SlotsOf(u) : row[s].id = 0))
        BY <1>2 DEF IInv, MethodEquipped, EquippedAs, NothingLeftBehind, Present
      <3>2. PICK a \in Account : /\ a = [account[u] EXCEPT !.lastStep = n]
                                 /\ a.exists = account[u].exists /\ a.method = TOTP
                                 /\ a.secret = account[u].secret /\ a.lastStep = n
                                 /\ a.credential = account[u].credential
        BY <2>2, <3>1 DEF Account
      <3>3. account' = [account EXCEPT ![u] = a]
        BY <2>2, <3>2
      <3>4. EquippedAs(a)
        BY <2>2, <3>1, <3>2 DEF EquippedAs
      <3>5. ~a.exists => a.credential = 0 /\ \A s \in SlotsOf(u) : row'[s].id = 0
        BY <1>2, <3>1, <3>2 DEF RowsAppearForUsers
      <3> QED
        BY <1>2, <1>4, <3>2, <3>3, <3>4, <3>5, AccountsChanged
    <2> QED
      BY <2>1, <2>2
  <1>6. \A v \in Users : userLock[v] # r /\ userLock'[v] = userLock[v]
    BY <1>1 DEF IInv, AccountTypeOK, Does
  <1>7. TaskSound(r)'
    <2>1. task'[r] = t
      BY <1>3
    <2> QED
      BY <1>2, <1>3, <1>4, <2>1 DEF TaskSound, Does, At
  <1>8. AccountTypeOK' /\ \A q \in Requests : TaskSound(q)'
    <2>1. /\ userLock' \in [Users -> Requests \cup {Nobody}]
          /\ sessions' \in [Users -> SUBSET Methods]
          /\ \A v \in Users : sessions[v] \subseteq sessions'[v] /\ proven[v] \subseteq proven'[v]
          /\ \A v \in Users : userLock'[v] = userLock[v]
          /\ \A v \in Users :
               userLock'[v] = r <=> t.kind \in {"remove", "cascade"} /\ t.user = v
      BY <1>1, <1>3, <1>4, <1>6
    <2> QED
      BY <1>2, <1>3, <1>4, <1>5, <1>7, <2>1, RequestsKept
  <1> QED
    BY <1>5, <1>8 DEF IInv

\* verifyEmailOtp, verifyTotp, verifyWebAuthnAuthentication.
LEMMA LoginsKeep ==
  ASSUME IInv, NEW r \in Requests,
         AcceptEmailOtp(r) \/ AcceptTotp(r) \/ AcceptWebAuthn(r), Consistent'
  PROVE  IInv'
  <1>1. Does(r, "answer") /\ Accepted(r) /\ task[r].method \in ActiveMethods
    BY DEF AcceptEmailOtp, AcceptTotp, AcceptWebAuthn, ActiveMethods
  <1>2. \/ account' = account
        \/ \E t \in Nat \ {0} :
             /\ account' = [account EXCEPT ![task[r].user].lastStep = t]
             /\ account[task[r].user].method = TOTP
    <2>1. CASE AcceptTotp(r)
      <3>1. CodeSteps \subseteq Nat \ {0}
        BY VariablesTyped DEF CodeSteps
      <3> QED
        BY <2>1, <3>1 DEF AcceptTotp, StillHas, FreshSteps
    <2> QED
      BY <2>1 DEF AcceptEmailOtp, AcceptWebAuthn
  <1> QED
    BY <1>1, <1>2, AcceptedKeeps

\* The account that an endpoint leaves with a new method.
LEMMA ActivatedAccount ==
  ASSUME NEW m \in Methods, NEW key \in Keys, NEW step \in Nat,
         m \in {TOTP, WEBAUTHN} => key # 0 /\ step # 0
  PROVE  /\ AccountWith(m, key, step) \in Account /\ EquippedAs(AccountWith(m, key, step))
         /\ AccountWith(m, key, step).exists
         /\ AccountWith(m, key, step).secret \in {0, key}
         /\ AccountWith(m, key, step).method = m
  <1>1. 0 \in Keys
    BY NumbersAssumption DEF Keys, OldKey
  <1>2. TOTP # WEBAUTHN
    BY DEF TOTP, WEBAUTHN
  <1> QED
    BY <1>1, <1>2 DEF AccountWith, Account, EquippedAs

\* The account of a request is changed and the request answered.
LEMMA ChangeKeeps ==
  ASSUME IInv, NEW r \in Requests, Moves(r), Consistent',
         task[r].kind \in {"confirm", "update", "cascade"},
         UNCHANGED <<sessions, proven>>, task' = [task EXCEPT ![r] = Free],
         At(r, "idle")', RowsAppearForUsers,
         NEW a \in Account, account' = [account EXCEPT ![task[r].user] = a],
         EquippedAs(a),
         ~a.exists => a.credential = 0 /\ \A s \in SlotsOf(task[r].user) : row'[s].id = 0,
         \/ a.secret \in {0, OldKey, account[task[r].user].secret}
         \/ a.secret \in Ids /\ accepts'[a.secret] = 1,
         userLock' = IF task[r].kind = "cascade"
                     THEN [userLock EXCEPT ![task[r].user] = Nobody] ELSE userLock
  PROVE  IInv'
  <1> USE VariablesTyped
  <1> DEFINE u == task[r].user
  <1>1. u \in Users
    BY DEF IInv, AccountTypeOK, Does
  <1>2. \A v \in Users : /\ sessions[v] \subseteq sessions'[v] /\ proven[v] \subseteq proven'[v]
                       /\ sessions'[v] \ {NONE} \subseteq proven'[v]
    BY DEF IInv, AccountSound
  <1>3. /\ account' \in [Users -> Account]
        /\ (\A v \in Users : AccountSound(v)') /\ MethodEquipped' /\ NothingLeftBehind'
    BY <1>1, <1>2, AccountsChanged
  <1>4. Free \in Task /\ Free.kind = "free" /\ task'[r] = Free
    BY TasksTyped DEF Free
  <1>5. TaskSound(r)'
    BY <1>4 DEF TaskSound, Does, At
  <1>6. /\ userLock' \in [Users -> Requests \cup {Nobody}]
        /\ \A v \in Users : userLock'[v] = r <=> Free.kind \in {"remove", "cascade"} /\ Free.user = v
        /\ \A v \in Users : userLock'[v] = userLock[v] \/ {userLock[v], userLock'[v]} \subseteq {r, Nobody}
    <2>1. \A v \in Users : userLock[v] = r <=> task[r].kind = "cascade" /\ u = v
      BY DEF IInv, AccountTypeOK
    <2> QED
      BY <1>1, <1>4, <2>1, NobodyAssumption
  <1>7. sessions' \in [Users -> SUBSET Methods] /\ proven' \in [Users -> SUBSET ActiveMethods]
    OBVIOUS
  <1>8. AccountTypeOK' /\ \A q \in Requests : TaskSound(q)'
    BY <1>2, <1>3, <1>4, <1>5, <1>6, <1>7, RequestsKept
  <1> QED
    BY <1>3, <1>8 DEF IInv

\* verifyTotpEnrollment, verifyWebAuthnRegistration.
LEMMA ConfirmKeeps ==
  ASSUME IInv, NEW r \in Requests, AcceptConfirm(r), Consistent'
  PROVE  IInv'
  <1> USE VariablesTyped
  <1>1. /\ Accept(r) /\ task[r].kind = "confirm" /\ UNCHANGED <<userLock, sessions, proven>>
        /\ task' = [task EXCEPT ![r] = Free]
    BY DEF AcceptConfirm, Does, Goes
  <1>2. /\ Moves(r) /\ RowsAppearForUsers /\ At(r, "idle")'
        /\ task[r] \in Task /\ task[r].user \in Users /\ request[r].id \in Ids
        /\ accepts' = [accepts EXCEPT ![request[r].id] = 1]
    BY <1>1, AcceptedAnswer
  <1>3. PICK t \in CodeSteps :
          account' = [account EXCEPT ![task[r].user] =
                        AccountWith(task[r].method, request[r].id, t)]
    BY DEF AcceptConfirm, Activate
  <1>4. /\ t \in Nat \ {0} /\ task[r].method \in Methods
        /\ request[r].id \in Keys /\ request[r].id # 0
    BY <1>2, NumbersAssumption DEF CodeSteps, Task, Ids, Keys, OldKey
  <1>5. PICK a \in Account : /\ account' = [account EXCEPT ![task[r].user] = a]
                             /\ EquippedAs(a) /\ a.exists /\ a.secret \in {0, request[r].id}
    BY <1>3, <1>4, ActivatedAccount
  <1>6. accepts'[request[r].id] = 1
    BY <1>2
  <1> QED
    BY <1>1, <1>2, <1>5, <1>6, ChangeKeeps

\* updateMethod.
LEMMA UpdateKeeps ==
  ASSUME IInv, NEW r \in Requests, UpdateCommit(r), Moves(r), Consistent'
  PROVE  IInv'
  <1> USE VariablesTyped
  <1>1. /\ task[r].kind = "update" /\ UNCHANGED <<userLock, sessions, proven>>
        /\ task' = [task EXCEPT ![r] = Free] /\ PurgeCommit(r)
        /\ account' = [account EXCEPT ![task[r].user] = AccountWith(task[r].method, 0, 0)]
    BY DEF UpdateCommit, Does, Goes, Activate
  <1>2. At(r, "idle")' /\ RowsAppearForUsers
    BY <1>1, RowsStay DEF PurgeCommit, Finish, Become, Idle, At, Absent
  <1>3. /\ task[r].method \in {NONE, EMAIL_OTP} /\ task[r].method \in Methods
        /\ 0 \in Keys
    BY <1>1, NumbersAssumption DEF IInv, TaskSound, Does, Task, Keys, OldKey
  <1>4. task[r].method \notin {TOTP, WEBAUTHN}
    BY <1>3 DEF NONE, EMAIL_OTP, TOTP, WEBAUTHN
  <1>5. PICK a \in Account : /\ account' = [account EXCEPT ![task[r].user] = a]
                             /\ EquippedAs(a) /\ a.exists /\ a.secret = 0
    <2> DEFINE new == AccountWith(task[r].method, 0, 0)
    <2>1. new \in Account /\ EquippedAs(new) /\ new.exists /\ new.secret = 0
      BY <1>3, <1>4, ActivatedAccount
    <2> HIDE DEF new
    <2>2. account' = [account EXCEPT ![task[r].user] = new]
      BY <1>1 DEF new
    <2> QED
      BY <2>1, <2>2
  <1> QED
    BY <1>1, <1>2, <1>5, ChangeKeeps

\* DELETE users/:id: the cascade has locked every challenge of the user.
LEMMA RemovalKeeps ==
  ASSUME IInv, NEW r \in Requests, RemoveCommit(r), Moves(r), Consistent'
  PROVE  IInv'
  <1> USE VariablesTyped
  <1> DEFINE u == task[r].user
  <1>1. /\ task[r].kind = "cascade" /\ UNCHANGED <<sessions, proven>>
        /\ task' = [task EXCEPT ![r] = Free] /\ PurgeCommit(r)
        /\ account' = [account EXCEPT ![u] = Removed]
        /\ userLock' = [userLock EXCEPT ![u] = Nobody]
    BY DEF RemoveCommit, Does, Goes
  <1>2. At(r, "idle")' /\ RowsAppearForUsers
    BY <1>1, RowsStay DEF PurgeCommit, Finish, Become, Idle, At, Absent
  <1>3. \A s \in SlotsOf(u) : row'[s].id = 0
    <2>1. TAKE s \in SlotsOf(u)
    <2>2. u \in Users /\ s \in Slots
      BY <1>1, SlotsOfUsers DEF IInv, AccountTypeOK, Does
    <2>3. row[s].id # 0 => rowLock[s] = r
      BY <1>1 DEF IInv, TaskSound, Does, Present
    <2> QED
      BY <1>1, <2>2, <2>3 DEF PurgeCommit, Absent
  <1>4. PICK a \in Account : /\ account' = [account EXCEPT ![u] = a]
                             /\ EquippedAs(a) /\ a.credential = 0 /\ a.secret = 0
    <2>1. 0 \in Keys /\ NONE \in Methods /\ NONE \notin {TOTP, WEBAUTHN}
      BY NumbersAssumption DEF Keys, OldKey, Methods, NONE, TOTP, WEBAUTHN
    <2>2. Removed \in Account /\ EquippedAs(Removed) /\ Removed.credential = 0 /\ Removed.secret = 0
      BY <2>1 DEF Removed, Account, EquippedAs
    <2> QED
      BY <1>1, <2>2
  <1> QED
    BY <1>1, <1>2, <1>3, <1>4, ChangeKeeps

-----------------------------------------------------------------------------
(* The other steps, and the invariant                                      *)

\* The process dies: nobody is in the middle of anything.
LEMMA CrashKeeps ==
  ASSUME IInv, AccountCrash, Consistent'
  PROVE  IInv'
  <1> USE VariablesTyped
  <1>1. /\ task' = [r \in Requests |-> Free] /\ userLock' = [u \in Users |-> Nobody]
        /\ UNCHANGED <<account, sessions, proven>>
        /\ row' = row /\ accepts' = accepts
    BY DEF AccountCrash, Crash, vars
  <1>2. \A r \in Requests : At(r, "idle")'
    BY DEF AccountCrash, Crash, At, Idle, vars
  <1>3. Free \in Task /\ Free.kind = "free"
    BY TasksTyped DEF Free
  <1>4. AccountTypeOK'
    BY <1>1, <1>2, <1>3, NobodyAssumption DEF AccountTypeOK, At, Does
  <1>5. \A r \in Requests : TaskSound(r)'
    BY <1>1, <1>2, <1>3 DEF TaskSound, At, Does
  <1>6. (\A u \in Users : AccountSound(u)') /\ MethodEquipped' /\ NothingLeftBehind'
    BY <1>1 DEF IInv, AccountSound, MethodEquipped, NothingLeftBehind, Present
  <1> QED
    BY <1>4, <1>5, <1>6 DEF IInv

\* Time passes, or nothing happens.
LEMMA TickKeeps ==
  ASSUME IInv, AccountTick \/ UNCHANGED allVars, Consistent'
  PROVE  IInv'
  <1>1. /\ UNCHANGED accountVars
        /\ row' = row /\ accepts' = accepts /\ request' = request /\ rowLock' = rowLock
    BY DEF AccountTick, Tick, allVars, vars, accountVars
  <1> QED
    BY <1>1 DEF IInv, AccountTypeOK, TaskSound, AccountSound, MethodEquipped,
                NothingLeftBehind, Present, At, Does, accountVars

LEMMA InitInvariant == AccountInit => IInv
  <1> SUFFICES ASSUME AccountInit PROVE IInv
    OBVIOUS
  <1>1. Consistent
    BY InitConsistent DEF AccountInit
  <1>2. /\ task = [r \in Requests |-> Free] /\ userLock = [u \in Users |-> Nobody]
        /\ sessions = [u \in Users |-> {}] /\ proven = [u \in Users |-> {}]
        /\ request = [r \in Requests |-> Idle] /\ row = [s \in Slots |-> Absent]
    BY DEF AccountInit, Init
  <1>3. \A u \in Users : /\ account[u] \in Account /\ EquippedAs(account[u])
                       /\ account[u].exists /\ account[u].secret \in {0, OldKey}
    <2>1. TAKE u \in Users
    <2>2. PICK m \in InitialMethods : account[u] = AccountWith(m, OldKey, 1)
      BY DEF AccountInit
    <2>3. m \in Methods /\ OldKey \in Keys /\ OldKey # 0
      BY AccountAssumption, NumbersAssumption DEF Keys, OldKey
    <2> QED
      BY <2>2, <2>3, ActivatedAccount
  <1>4. account \in [Users -> Account]
    BY <1>3 DEF AccountInit
  <1>5. Free \in Task /\ Free.kind = "free"
    BY TasksTyped DEF Free
  <1>6. AccountTypeOK
    BY <1>2, <1>4, <1>5, NobodyAssumption DEF AccountTypeOK, At, Does, Idle
  <1>7. \A r \in Requests : TaskSound(r)
    BY <1>2, <1>5 DEF TaskSound, At, Does, Idle
  <1>8. (\A u \in Users : AccountSound(u)) /\ MethodEquipped /\ NothingLeftBehind
    BY <1>2, <1>3 DEF AccountSound, MethodEquipped, EquippedAs, NothingLeftBehind
  <1> QED
    BY <1>1, <1>6, <1>7, <1>8 DEF IInv

LEMMA StepInvariant ==
  ASSUME IInv, [AccountNext]_allVars
  PROVE  IInv'
  <1>1. AccountTypeOK /\ Consistent
    BY DEF IInv
  <1>2. Consistent'
    BY <1>1, AccountStepMaps, StepConsistent
  <1>3. ASSUME NEW r \in Requests,
               AccountBegin(r) \/ AccountContinue(r) \/ Fails(r) \/ RemoveFails(r) \/ Lost(r)
        PROVE  IInv'
    <2>1. CASE \/ \E u \in Users : LoginRead(r, u)
               \/ \E u \in Users, claim \in Methods, m \in ActiveMethods : EnrollRead(r, u, m, claim)
               \/ LoginCheck(r) \/ Refused(r) \/ Lost(r)
      BY <2>1, ReadsKeep
    <2>2. CASE LoginPlain(r) \/ Complete(r)
      BY <2>2, TokensKeep
    <2>3. CASE RemoveFails(r) \/ \E u \in Users : Remove(r, u)
      BY <1>2, <2>3, UserLocksKeep
    <2>4. CASE LoginCreate(r) \/ EnrollCreate(r)
      BY <1>1, <1>2, <2>4, EndpointMoves, CreationKeeps
    <2>5. CASE Upsert(r)
      BY <1>1, <1>2, <2>5, EndpointMoves, UpsertKeeps
    <2>6. CASE UpsertOrphan(r) \/ Forbidden(r) \/ Fails(r)
      BY <1>1, <1>2, <2>6, EndpointMoves, ThrowKeeps
    <2>7. CASE Mail(r) \/ Consume(r) \/ RejectAnswer(r) \/ RejectConfirm(r)
      BY <1>1, <1>2, <2>7, EndpointMoves, WorkKeeps
    <2>8. CASE \/ \E u \in Users : Answer(r, u)
               \/ \E u \in Users, claim \in Methods : Confirm(r, u, claim)
      BY <1>1, <1>2, <2>8, EndpointMoves, AnswersKeep
    <2>9. CASE \/ RemoveCascade(r)
               \/ \E u \in Users, claim \in Methods, m \in Targets : Update(r, u, m, claim)
      BY <1>1, <1>2, <2>9, EndpointMoves, PurgesKeep
    <2>10. CASE AcceptEmailOtp(r) \/ AcceptTotp(r) \/ AcceptWebAuthn(r)
      BY <1>2, <2>10, LoginsKeep
    <2>11. CASE AcceptConfirm(r)
      BY <1>2, <2>11, ConfirmKeeps
    <2>12. CASE UpdateCommit(r)
      BY <1>1, <1>2, <2>12, EndpointMoves, UpdateKeeps
    <2>13. CASE RemoveCommit(r)
      BY <1>1, <1>2, <2>13, EndpointMoves, RemovalKeeps
    <2> QED
      BY <1>3, <2>1, <2>2, <2>3, <2>4, <2>5, <2>6, <2>7, <2>8, <2>9, <2>10, <2>11, <2>12,
         <2>13 DEF AccountBegin, AccountContinue
  <1> QED
    BY <1>2, <1>3, CrashKeeps, TickKeeps DEF AccountNext

-----------------------------------------------------------------------------
(* The theorems                                                            *)

(* IInv holds in every state the backend can reach: requests, sessions,    *)
(* accounts and challenges agree on whom and what an answer is for.        *)
THEOREM AccountsAlwaysSound == AccountSpec => []IInv
  <1>1. IInv /\ [AccountNext]_allVars => IInv'
    BY StepInvariant
  <1> QED
    BY <1>1, InitInvariant, PTL DEF AccountSpec

\* Every variable of the accounts has its type, and a lock of a user's row
\* is held by a deletion of that user.
THEOREM AccountTypeCorrect == AccountSpec => []AccountTypeOK
  <1>1. IInv => AccountTypeOK
    BY DEF IInv
  <1> QED
    BY <1>1, AccountsAlwaysSound, PTL

(* The endpoints use challenges only as MfaChallenge lets them, so what is *)
(* proved of Spec holds with the endpoints on top of it.                   *)
THEOREM AccountsImplementChallenges == AccountSpec => Spec
  <1>1. AccountInit => Init
    BY DEF AccountInit
  <1>2. IInv /\ [AccountNext]_allVars => [Next]_vars
    BY AccountStepMaps DEF IInv
  <1> QED
    BY <1>1, <1>2, AccountsAlwaysSound, PTL DEF AccountSpec, Spec

(* The method of an account, its secret, its last step and its credential  *)
(* go together, whichever of the endpoints that switch methods overlap.    *)
THEOREM AccountsStayEquipped == AccountSpec => []MethodEquipped
  <1>1. IInv => MethodEquipped
    BY DEF IInv
  <1> QED
    BY <1>1, AccountsAlwaysSound, PTL

(* DELETE users/:id leaves no challenge and no credential behind, not even *)
(* one that was being created.                                             *)
THEOREM RemovalIsComplete == AccountSpec => []NothingLeftBehind
  <1>1. IInv => NothingLeftBehind
    BY DEF IInv
  <1> QED
    BY <1>1, AccountsAlwaysSound, PTL

AcceptsLogin(r) == AcceptEmailOtp(r) \/ AcceptTotp(r) \/ AcceptWebAuthn(r)

\* The steps that accept a challenge or write an account.
LEMMA DecidingSteps ==
  ASSUME [AccountNext]_allVars
  PROVE  \/ account' = account /\ accepts' = accepts
         \/ \E r \in Requests : \/ AcceptsLogin(r) \/ AcceptConfirm(r)
                                \/ UpdateCommit(r) \/ RemoveCommit(r)
  <1>1. ASSUME NEW r \in Requests,
               AccountBegin(r) \/ AccountContinue(r) \/ Fails(r) \/ RemoveFails(r) \/ Lost(r),
               ~AcceptsLogin(r), ~AcceptConfirm(r), ~UpdateCommit(r), ~RemoveCommit(r)
        PROVE  account' = account /\ accepts' = accepts
    <2>1. CASE AccountBegin(r)
      BY <2>1 DEF AccountBegin, LoginRead, Answer, Remove, Confirm, EnrollRead, Update,
                  AssertUsable, AssertExpired, PresentEnrollment, PurgeDelete, vars
    <2>2. CASE \/ LoginPlain(r) \/ LoginCheck(r) \/ LoginCreate(r) \/ EnrollCreate(r)
               \/ Refused(r) \/ Complete(r) \/ RemoveCascade(r) \/ Lost(r)
      BY <2>2 DEF LoginPlain, LoginCheck, LoginCreate, EnrollCreate, Refused, Complete,
                  RemoveCascade, Lost, CreateSelect, PurgeDelete, vars
    <2>3. CASE Upsert(r) \/ Mail(r) \/ Consume(r) \/ RejectAnswer(r) \/ RejectConfirm(r)
      BY <2>3 DEF Upsert, Mail, Consume, RejectAnswer, RejectConfirm, CreateUpsert,
                  MailSent, MailFailed, Unsend, ConsumeLock, ConsumeExpired,
                  ConsumeRefused, ExpireDelete, Reject
    <2>4. CASE UpsertOrphan(r) \/ Forbidden(r) \/ Fails(r) \/ RemoveFails(r)
      BY <2>4 DEF UpsertOrphan, Forbidden, Fails, RemoveFails, Throw, vars
    <2> QED
      BY <1>1, <2>1, <2>2, <2>3, <2>4 DEF AccountContinue, AcceptsLogin
  <1>2. CASE AccountCrash \/ AccountTick \/ UNCHANGED allVars
    BY <1>2 DEF AccountCrash, AccountTick, Crash, Tick, allVars, vars, accountVars
  <1> QED
    BY <1>1, <1>2 DEF AccountNext

\* The step of a request that accepts an answer to a login challenge.
LEMMA LoginStep ==
  ASSUME IInv, NEW r \in Requests, AcceptsLogin(r)
  PROVE  /\ Does(r, "answer") /\ Accept(r) /\ task[r].user \in Users
         /\ account[task[r].user].method = task[r].method
         /\ account[task[r].user].exists
         /\ \A u \in Users : u # task[r].user => account'[u] = account[u]
         /\ \A u \in Users, m \in ActiveMethods :
              LoginAccepted(u, m) => u = task[r].user /\ m = task[r].method
  <1> DEFINE u0 == task[r].user
  <1> USE VariablesTyped
  <1>1. Does(r, "answer") /\ Accept(r)
    BY DEF AcceptsLogin, AcceptEmailOtp, AcceptTotp, AcceptWebAuthn, Accepted
  <1>2. /\ u0 \in Users /\ <<u0, "LOGIN">> \in Slots
        /\ request[r].slot = <<u0, "LOGIN">> /\ request[r].id \in Ids
        /\ row[<<u0, "LOGIN">>].id = request[r].id
        /\ row[<<u0, "LOGIN">>].method = task[r].method
        /\ accepts' = [accepts EXCEPT ![request[r].id] = 1]
    BY <1>1, AcceptedAnswer DEF Does
  <1>3. account[u0].method = task[r].method /\ account[u0].exists
    <2>1. CASE AcceptEmailOtp(r) \/ AcceptTotp(r)
      BY <2>1 DEF AcceptEmailOtp, AcceptTotp, StillHas
    <2>2. CASE AcceptWebAuthn(r)
      BY <1>2, <2>2 DEF AcceptWebAuthn, SameCredential, IInv, MethodEquipped, NothingLeftBehind
    <2> QED
      BY <2>1, <2>2 DEF AcceptsLogin
  <1>4. \A u \in Users : u # u0 => account'[u] = account[u]
    BY DEF AcceptsLogin, AcceptEmailOtp, AcceptTotp, AcceptWebAuthn
  <1>5. ASSUME NEW u \in Users, NEW m \in ActiveMethods, LoginAccepted(u, m)
        PROVE  u = u0 /\ m = task[r].method
    <2>1. /\ <<u, "LOGIN">> \in Slots /\ row[<<u, "LOGIN">>].id # 0
          /\ row[<<u, "LOGIN">>].method = m
          /\ accepts'[row[<<u, "LOGIN">>].id] > accepts[row[<<u, "LOGIN">>].id]
      BY <1>5, SlotsOfUsers DEF LoginAccepted, Present
    <2>2. row[<<u, "LOGIN">>].id \in Ids
      BY <2>1 DEF IInv, Consistent, TypeOK, Row, Ids
    <2>3. row[<<u, "LOGIN">>].id = request[r].id
      BY <1>2, <2>1, <2>2
    <2>4. <<u, "LOGIN">> = <<u0, "LOGIN">>
      BY <1>2, <2>1, <2>2, <2>3 DEF IInv, Consistent, IdsUnique, Present
    <2> QED
      BY <1>2, <2>1, <2>4
  <1> QED
    BY <1>1, <1>2, <1>3, <1>4, <1>5

\* The steps that accept nothing for a login.
LEMMA NoLoginAccepted ==
  ASSUME IInv, NEW u \in Users, NEW m \in ActiveMethods,
         \/ accepts' = accepts
         \/ \E r \in Requests : AcceptConfirm(r) \/ UpdateCommit(r) \/ RemoveCommit(r)
  PROVE  ~LoginAccepted(u, m)
  <1> USE VariablesTyped
  <1>1. SUFFICES ASSUME LoginAccepted(u, m) PROVE FALSE
    OBVIOUS
  <1>2. /\ <<u, "LOGIN">> \in Slots /\ row[<<u, "LOGIN">>].id # 0
        /\ accepts'[row[<<u, "LOGIN">>].id] > accepts[row[<<u, "LOGIN">>].id]
    BY <1>1, SlotsOfUsers DEF LoginAccepted, Present
  <1>3. row[<<u, "LOGIN">>].id \in Ids
    BY <1>2 DEF IInv, Consistent, TypeOK, Row, Ids
  <1>4. CASE accepts' = accepts
    BY <1>2, <1>3, <1>4
  <1>5. CASE \E r \in Requests : UpdateCommit(r) \/ RemoveCommit(r)
    <2>1. accepts' = accepts
      BY <1>5 DEF UpdateCommit, RemoveCommit, PurgeCommit
    <2> QED
      BY <1>2, <1>3, <2>1
  <1>6. ASSUME NEW r \in Requests, AcceptConfirm(r) PROVE FALSE
    <2>1. Accept(r) /\ task[r].kind = "confirm"
      BY <1>6 DEF AcceptConfirm, Does
    <2>2. /\ request[r].slot = <<task[r].user, "ENROLLMENT">>
          /\ request[r].slot \in Slots /\ request[r].id \in Ids
          /\ row[request[r].slot].id = request[r].id
          /\ accepts' = [accepts EXCEPT ![request[r].id] = 1]
      BY <2>1, AcceptedAnswer DEF Does
    <2>3. row[<<u, "LOGIN">>].id = request[r].id
      BY <1>2, <1>3, <2>2
    <2>4. <<u, "LOGIN">> = request[r].slot
      BY <1>2, <1>3, <2>2, <2>3 DEF IInv, Consistent, IdsUnique, Present
    <2> QED
      BY <2>2, <2>4
  <1> QED
    BY <1>4, <1>5, <1>6

(* A login challenge is accepted only while its account has the method the *)
(* challenge was made for, however long ago the account was read.          *)
THEOREM LoginsNeedCurrentMethod == AccountSpec => AcceptedWithCurrentMethod
  <1> DEFINE A == \A u \in Users, m \in ActiveMethods :
                    LoginAccepted(u, m) => account[u].exists /\ account[u].method = m
  <1>1. ASSUME IInv, [AccountNext]_allVars PROVE A
    <2>1. ASSUME NEW r \in Requests, AcceptsLogin(r) PROVE A
      BY <1>1, <2>1, LoginStep
    <2>2. CASE \/ accepts' = accepts
               \/ \E r \in Requests : AcceptConfirm(r) \/ UpdateCommit(r) \/ RemoveCommit(r)
      BY <1>1, <2>2, NoLoginAccepted
    <2> QED
      BY <1>1, <2>1, <2>2, DecidingSteps
  <1>2. IInv /\ [AccountNext]_allVars => [A]_allVars
    BY <1>1
  <1> QED
    BY <1>2, AccountsAlwaysSound, PTL DEF AccountSpec, AcceptedWithCurrentMethod

\* A login changes the last step of its account, and nothing else of it.
LEMMA LoginWrites ==
  ASSUME IInv, NEW r \in Requests, AcceptsLogin(r), NEW u \in Users
  PROVE  /\ account'[u].secret = account[u].secret
         /\ account'[u].credential = account[u].credential
         /\ account'[u].method = account[u].method
         /\ \/ account'[u] = account[u]
            \/ task[r].method = TOTP /\ account'[u].lastStep > account[u].lastStep
         /\ u = task[r].user /\ task[r].method = TOTP =>
              account'[u].lastStep > account[u].lastStep
  <1> USE VariablesTyped
  <1>1. CASE u # task[r].user
    BY <1>1, LoginStep
  <1>2. CASE AcceptEmailOtp(r) \/ AcceptWebAuthn(r)
    BY <1>2 DEF AcceptEmailOtp, AcceptWebAuthn, EMAIL_OTP, TOTP, WEBAUTHN
  <1>3. CASE u = task[r].user /\ AcceptTotp(r)
    <2>1. PICK t \in CodeSteps : /\ t > account[u].lastStep
                                 /\ account' = [account EXCEPT ![u].lastStep = t]
      BY <1>3 DEF AcceptTotp, FreshSteps
    <2>2. account[u] \in Account /\ task[r].method = TOTP
      BY <1>3 DEF AcceptTotp
    <2>3. account'[u] = [account[u] EXCEPT !.lastStep = t]
      BY <2>1
    <2> QED
      BY <2>1, <2>2, <2>3 DEF Account
  <1> QED
    BY <1>1, <1>2, <1>3 DEF AcceptsLogin

(* The step that takes a new secret or credential into use: its key is     *)
(* that of the user's enrollment challenge, which no account has had.      *)
LEMMA ConfirmStep ==
  ASSUME IInv, NEW r \in Requests, AcceptConfirm(r)
  PROVE  /\ task[r].user \in Users /\ request[r].id \in Ids
         /\ row[<<task[r].user, "ENROLLMENT">>].id = request[r].id
         /\ accepts'[request[r].id] > accepts[request[r].id]
         /\ \A u \in Users : account[u].secret # request[r].id
         /\ \A u \in Users : u # task[r].user => account'[u] = account[u]
         /\ account'[task[r].user].secret \in {0, request[r].id}
         /\ account'[task[r].user].credential \in {0, request[r].id}
         /\ CurrentVerified(task[r].user, task[r].claim)
         /\ task[r].claim \in sessions[task[r].user]
  <1> USE VariablesTyped
  <1>1. Accept(r) /\ task[r].kind = "confirm"
    BY DEF AcceptConfirm, Does
  <1>2. /\ task[r].user \in Users /\ request[r].id \in Ids
        /\ row[<<task[r].user, "ENROLLMENT">>].id = request[r].id
        /\ accepts[request[r].id] = 0
        /\ accepts' = [accepts EXCEPT ![request[r].id] = 1]
        /\ task[r].claim \in sessions[task[r].user]
    BY <1>1, AcceptedAnswer DEF Does, TaskSound
  <1>3. accepts'[request[r].id] > accepts[request[r].id]
    BY <1>2
  <1>4. \A u \in Users : account[u].secret # request[r].id
    <2>1. request[r].id \notin {0, OldKey}
      BY <1>2, NumbersAssumption DEF OldKey, Ids
    <2>2. \A u \in Users : \/ account[u].secret \in {0, OldKey}
                          \/ accepts[account[u].secret] = 1
      BY DEF IInv, AccountSound
    <2> QED
      BY <1>2, <2>1, <2>2
  <1>5. PICK t \in CodeSteps :
          account' = [account EXCEPT ![task[r].user] =
                        AccountWith(task[r].method, request[r].id, t)]
    BY DEF AcceptConfirm, Activate
  <1>6. /\ AccountWith(task[r].method, request[r].id, t).secret \in {0, request[r].id}
        /\ AccountWith(task[r].method, request[r].id, t).credential \in {0, request[r].id}
    BY DEF AccountWith
  <1>7. CurrentVerified(task[r].user, task[r].claim)
    BY DEF AcceptConfirm
  <1> QED
    BY <1>2, <1>3, <1>4, <1>5, <1>6, <1>7

\* The steps that take the keys of an account away.
LEMMA SwitchStep ==
  ASSUME IInv, NEW r \in Requests, UpdateCommit(r) \/ RemoveCommit(r)
  PROVE  /\ task[r].user \in Users /\ accepts' = accepts
         /\ \A u \in Users : u # task[r].user => account'[u] = account[u]
         /\ account'[task[r].user].secret = 0 /\ account'[task[r].user].credential = 0
         /\ \/ ~account'[task[r].user].exists
            \/ /\ CurrentVerified(task[r].user, task[r].claim)
               /\ task[r].claim \in sessions[task[r].user]
  <1> USE VariablesTyped
  <1>1. task[r].user \in Users
    BY DEF UpdateCommit, RemoveCommit, IInv, AccountTypeOK, Does
  <1>2. CASE UpdateCommit(r)
    <2>1. /\ task[r].method \in {NONE, EMAIL_OTP} /\ task[r].claim \in sessions[task[r].user]
          /\ CurrentVerified(task[r].user, task[r].claim) /\ accepts' = accepts
          /\ account' = [account EXCEPT ![task[r].user] = AccountWith(task[r].method, 0, 0)]
      BY <1>2 DEF UpdateCommit, PurgeCommit, Activate, IInv, TaskSound, Does
    <2>2. /\ AccountWith(task[r].method, 0, 0).secret = 0
          /\ AccountWith(task[r].method, 0, 0).credential = 0
      BY DEF AccountWith
    <2> QED
      BY <1>1, <2>1, <2>2
  <1>3. CASE RemoveCommit(r)
    <2>1. /\ accepts' = accepts /\ account' = [account EXCEPT ![task[r].user] = Removed]
      BY <1>3 DEF RemoveCommit, PurgeCommit
    <2>2. Removed.secret = 0 /\ Removed.credential = 0 /\ ~Removed.exists
      BY DEF Removed
    <2> QED
      BY <1>1, <2>1, <2>2
  <1> QED
    BY <1>2, <1>3

(* No TOTP code opens two sessions: while a secret stays, verifyTotp only  *)
(* accepts a step after the last one, and nothing sets that one back.      *)
THEOREM TotpCodesUsedOnce == AccountSpec => TotpStepsAdvance
  <1> DEFINE A(u) == account[u].secret # 0 /\ account'[u].secret = account[u].secret =>
                       /\ account'[u].lastStep >= account[u].lastStep
                       /\ LoginAccepted(u, TOTP) =>
                            account'[u].lastStep > account[u].lastStep
  <1>1. ASSUME IInv, [AccountNext]_allVars, NEW u \in Users PROVE A(u)
    <2>1. TOTP \in ActiveMethods
      BY DEF ActiveMethods
    <2>2. account[u].lastStep \in Nat
      BY <1>1, VariablesTyped DEF Account
    <2>3. ASSUME NEW r \in Requests, AcceptsLogin(r) PROVE A(u)
      <3>1. /\ \/ account'[u] = account[u]
               \/ account'[u].lastStep > account[u].lastStep
            /\ u = task[r].user /\ task[r].method = TOTP =>
                 account'[u].lastStep > account[u].lastStep
        BY <1>1, <2>3, LoginWrites
      <3>2. LoginAccepted(u, TOTP) => u = task[r].user /\ task[r].method = TOTP
        BY <1>1, <2>1, <2>3, LoginStep
      <3>3. \/ account'[u].lastStep = account[u].lastStep
            \/ account'[u].lastStep > account[u].lastStep
        BY <3>1
      <3>4. account'[u].lastStep \in Nat
        <4>1. account' \in [Users -> Account]
          BY <1>1, StepInvariant DEF IInv, AccountTypeOK
        <4> QED
          BY <4>1 DEF Account
      <3> QED
        BY <2>2, <3>1, <3>2, <3>3, <3>4
    <2>4. ASSUME NEW r \in Requests, AcceptConfirm(r) PROVE A(u)
      <3>1. ~LoginAccepted(u, TOTP)
        BY <1>1, <2>1, <2>4, NoLoginAccepted
      <3>2. \/ account'[u] = account[u]
            \/ account'[u].secret = 0
            \/ account'[u].secret # account[u].secret
        BY <1>1, <2>4, ConfirmStep
      <3> QED
        BY <2>2, <3>1, <3>2
    <2>5. ASSUME NEW r \in Requests, UpdateCommit(r) \/ RemoveCommit(r) PROVE A(u)
      <3>1. ~LoginAccepted(u, TOTP)
        BY <1>1, <2>1, <2>5, NoLoginAccepted
      <3>2. account'[u] = account[u] \/ account'[u].secret = 0
        BY <1>1, <2>5, SwitchStep
      <3> QED
        BY <2>2, <3>1, <3>2
    <2>6. CASE account' = account /\ accepts' = accepts
      <3>1. ~LoginAccepted(u, TOTP)
        BY <1>1, <2>1, <2>6, NoLoginAccepted
      <3> QED
        BY <2>2, <2>6, <3>1
    <2> QED
      BY <1>1, <2>3, <2>4, <2>5, <2>6, DecidingSteps
  <1>2. IInv /\ [AccountNext]_allVars => [\A u \in Users : A(u)]_allVars
    BY <1>1
  <1> QED
    BY <1>2, AccountsAlwaysSound, PTL DEF AccountSpec, TotpStepsAdvance

(* A TOTP secret or a WebAuthn credential comes into use only with the     *)
(* acceptance of the enrollment challenge it was made for.                 *)
THEOREM KeysComeFromEnrollment == AccountSpec => KeysConfirmed
  <1> DEFINE A(u) == \A key \in {account'[u].secret, account'[u].credential} :
                       key \notin {0, account[u].secret, account[u].credential} =>
                         /\ row[<<u, "ENROLLMENT">>].id = key
                         /\ accepts'[key] > accepts[key]
  <1>1. ASSUME IInv, [AccountNext]_allVars, NEW u \in Users PROVE A(u)
    <2>1. ASSUME NEW r \in Requests, AcceptsLogin(r) PROVE A(u)
      BY <1>1, <2>1, LoginWrites
    <2>2. ASSUME NEW r \in Requests, AcceptConfirm(r) PROVE A(u)
      BY <1>1, <2>2, ConfirmStep
    <2>3. ASSUME NEW r \in Requests, UpdateCommit(r) \/ RemoveCommit(r) PROVE A(u)
      BY <1>1, <2>3, SwitchStep
    <2> QED
      BY <1>1, <2>1, <2>2, <2>3, DecidingSteps
  <1>2. IInv /\ [AccountNext]_allVars => [\A u \in Users : A(u)]_allVars
    BY <1>1
  <1> QED
    BY <1>2, AccountsAlwaysSound, PTL DEF AccountSpec, KeysConfirmed

(* The method of an account with MFA changes only for a session that has   *)
(* passed that method, although the session was checked steps before.      *)
THEOREM MethodChangesVerified == AccountSpec => ChangeVerified
  <1> DEFINE A(u) == account'[u].exists /\ account'[u] # account[u]
                       /\ account'[u].method # account[u].method
                       /\ account[u].method # NONE =>
                         account[u].method \in sessions[u] \cap proven[u]
  <1>1. ASSUME IInv, [AccountNext]_allVars, NEW u \in Users PROVE A(u)
    <2>1. \A v \in Users : sessions[v] \ {NONE} \subseteq proven[v]
      BY <1>1 DEF IInv, AccountSound
    <2>2. ASSUME NEW r \in Requests, AcceptsLogin(r) PROVE A(u)
      BY <1>1, <2>2, LoginWrites
    <2>3. ASSUME NEW r \in Requests, AcceptConfirm(r) PROVE A(u)
      BY <1>1, <2>1, <2>3, ConfirmStep DEF CurrentVerified
    <2>4. ASSUME NEW r \in Requests, UpdateCommit(r) \/ RemoveCommit(r) PROVE A(u)
      BY <1>1, <2>1, <2>4, SwitchStep DEF CurrentVerified
    <2> QED
      BY <1>1, <2>2, <2>3, <2>4, DecidingSteps
  <1>2. IInv /\ [AccountNext]_allVars => [\A u \in Users : A(u)]_allVars
    BY <1>1
  <1> QED
    BY <1>2, AccountsAlwaysSound, PTL DEF AccountSpec, ChangeVerified
=============================================================================
