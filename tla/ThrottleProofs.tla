---------------------------- MODULE ThrottleProofs ----------------------------
(***************************************************************************)
(* Proofs about Throttle, for every limit and every length of the two      *)
(* windows.  The second that the window of the process is longer makes up  *)
(* for that much difference between the lags of two requests, and for no   *)
(* more: that is what the invariant Spread says of the requests that the   *)
(* throttler counts and of those on their way to it.                       *)
(***************************************************************************)
EXTENDS Throttle, FiniteSetTheorems, TLAPS

-----------------------------------------------------------------------------
(* The inductive invariant                                                 *)

\* The requests that have a place, or that the throttler counts.
Sent == flying \cup places \cup Counted
Paced == Sent \ unpaced

\* The time since the place of request i was reserved.
Reserved(i) == IF i \in Counted THEN hit[i] + lag[i] ELSE age[i]

Disjoint ==
  /\ unpaced \cap (window \cup places) = {}
  /\ places \cap (flying \cup Counted) = {}
  /\ flying \cap Counted \subseteq unpaced
  /\ client.id \notin places
  /\ client.pc \in {"sending", "waiting"} => client.id \in Ids

(* The process has forgotten a place only when it was as old as its        *)
(* window.                                                                 *)
Remembered ==
  \A i \in Paced : IF i \in window THEN Reserved(i) = age[i]
                   ELSE Reserved(i) >= Window

\* Of more requests than the limit, two were reserved a window apart.
Apart(S) == \E i, j \in S : Reserved(i) >= Reserved(j) + Window
Spread == \A S \in SUBSET Paced : Cardinality(S) > Limit => Apart(S)

IInv == TypeOK /\ Disjoint /\ Remembered /\ Spread

-----------------------------------------------------------------------------
(* Lemmas                                                                  *)

LEMMA IdsFinite ==
  /\ \A S \in SUBSET Ids : IsFiniteSet(S) /\ Cardinality(S) \in Nat
  /\ \A S \in SUBSET Ids, i \in Ids :
       Cardinality(S \ {i}) = IF i \in S THEN Cardinality(S) - 1 ELSE Cardinality(S)
  /\ \A S, T \in SUBSET Ids : S \subseteq T => Cardinality(S) <= Cardinality(T)
  <1>1. IsFiniteSet(Ids)
    BY FS_Interval, ThrottleAssumption DEF Ids
  <1>2. ASSUME NEW S \in SUBSET Ids PROVE IsFiniteSet(S) /\ Cardinality(S) \in Nat
    BY <1>1, FS_Subset, FS_CardinalityType
  <1>3. ASSUME NEW S \in SUBSET Ids, NEW i \in Ids
        PROVE  Cardinality(S \ {i}) = IF i \in S THEN Cardinality(S) - 1 ELSE Cardinality(S)
    BY <1>2, FS_RemoveElement
  <1>4. ASSUME NEW S \in SUBSET Ids, NEW T \in SUBSET Ids, S \subseteq T
        PROVE  Cardinality(S) <= Cardinality(T)
    BY <1>2, <1>4, FS_Subset
  <1> QED
    BY <1>2, <1>3, <1>4

LEMMA PacedTyped ==
  ASSUME TypeOK
  PROVE  /\ Paced \subseteq Ids /\ Sent \subseteq Ids
         /\ \A i \in Ids : Reserved(i) \in Nat
  <1>1. /\ \A i \in Ids : age[i] \in Nat /\ lag[i] \in Nat /\ hit[i] \in {NoHit} \cup 0 .. Ttl - 1
        /\ flying \subseteq Ids /\ places \subseteq Ids /\ Counted \subseteq Ids
    BY DEF TypeOK, Counted
  <1>2. \A i \in Counted : hit[i] \in Nat
    BY <1>1, ThrottleAssumption DEF Counted
  <1> QED
    BY <1>1, <1>2 DEF Paced, Sent, Reserved

\* Requests that grow older alike stay as far apart.
LEMMA SpreadCarried ==
  ASSUME IInv, NEW d \in Nat, Paced' \subseteq Paced,
         \A i \in Paced' : Reserved(i)' = Reserved(i) + d
  PROVE  Spread'
  <1>1. \A i \in Paced : Reserved(i) \in Nat
    BY PacedTyped DEF IInv
  <1>2. SUFFICES ASSUME NEW S \in SUBSET Paced', Cardinality(S) > Limit
                 PROVE  \E i, j \in S : Reserved(i)' >= Reserved(j)' + Window
    BY DEF Spread, Apart
  <1>3. PICK i, j \in S : Reserved(i) >= Reserved(j) + Window
    BY <1>2 DEF IInv, Spread, Apart
  <1>4. /\ Reserved(i)' = Reserved(i) + d /\ Reserved(j)' = Reserved(j) + d
        /\ Reserved(i) \in Nat /\ Reserved(j) \in Nat
    BY <1>1, <1>2, <1>3
  <1>5. Reserved(i)' >= Reserved(j)' + Window
    BY <1>3, <1>4, ThrottleAssumption
  <1> QED
    BY <1>3, <1>5

LEMMA SpreadKept ==
  ASSUME IInv, Paced' \subseteq Paced,
         \A i \in Paced' : Reserved(i)' = Reserved(i)
  PROVE  Spread'
  <1>1. \A i \in Paced : Reserved(i) \in Nat
    BY PacedTyped DEF IInv
  <1>2. \A i \in Paced' : Reserved(i)' = Reserved(i) + 0
    BY <1>1
  <1> QED
    BY <1>2, SpreadCarried

\* New places are reserved while the window has room for them.
LEMMA SpreadGrows ==
  ASSUME IInv, NEW P \in SUBSET Ids, P # {},
         Paced' \subseteq Paced \cup P,
         \A i \in Paced \ P : Reserved(i)' = Reserved(i),
         \A i \in P : Reserved(i)' = 0,
         Cardinality(window \cup P) <= Limit
  PROVE  Spread'
  <1> SUFFICES ASSUME NEW S \in SUBSET Paced', Cardinality(S) > Limit
               PROVE  \E i, j \in S : Reserved(i)' >= Reserved(j)' + Window
    BY DEF Spread, Apart
  <1>1. window \subseteq Ids /\ Paced \subseteq Ids /\ \A i \in Paced : Reserved(i) \in Nat
    BY PacedTyped DEF IInv, TypeOK
  <1>2. CASE S \cap P = {}
    <2>1. S \in SUBSET Paced /\ \A i \in S : Reserved(i)' = Reserved(i)
      BY <1>2
    <2>2. PICK i, j \in S : Reserved(i) >= Reserved(j) + Window
      BY <2>1 DEF IInv, Spread, Apart
    <2> QED
      BY <2>1, <2>2
  <1>3. ASSUME NEW j \in S \cap P PROVE \E i \in S : Reserved(i)' >= Reserved(j)' + Window
    <2>1. S \subseteq Ids /\ window \cup P \subseteq Ids
      BY <1>1
    <2>2. Cardinality(S) \in Nat /\ Cardinality(window \cup P) \in Nat /\ Limit \in Nat
      BY <2>1, IdsFinite, ThrottleAssumption
    <2>3. ~(S \subseteq window \cup P)
      BY <2>1, <2>2, IdsFinite
    <2>4. PICK i \in S : i \notin window \cup P
      BY <2>3
    <2>5. i \in Paced /\ Reserved(i) >= Window /\ Reserved(i)' = Reserved(i)
      BY <2>4 DEF IInv, Remembered
    <2>6. Reserved(j)' = 0
      BY <1>3
    <2> QED
      BY <2>5, <2>6, ThrottleAssumption
  <1> QED
    BY <1>2, <1>3

LEMMA InitInvariant == Init => IInv
  <1> SUFFICES ASSUME Init PROVE IInv
    OBVIOUS
  <1>1. Ready \in Client
    BY ThrottleAssumption DEF Ready, Client
  <1>2. TypeOK
    BY <1>1, ThrottleAssumption DEF Init, TypeOK
  <1>3. Counted = {} /\ Paced = {}
    BY DEF Init, Counted, Paced, Sent
  <1>4. Disjoint /\ Remembered
    BY <1>3 DEF Init, Disjoint, Remembered, Ready
  <1>5. Spread
    BY <1>3, FS_EmptySet, ThrottleAssumption DEF Spread
  <1> QED
    BY <1>2, <1>4, <1>5 DEF IInv

-----------------------------------------------------------------------------
(* Every step keeps the invariant                                          *)

LEMMA ClientTyped ==
  ASSUME TypeOK
  PROVE  /\ Ready \in Client /\ Ready.pc = "ready" /\ Ready.id = None
         /\ client.pc \in {"ready", "pacing", "sending", "waiting"}
         /\ client.id \in {None} \cup Ids /\ client.wait \in 0 .. Ttl
         /\ None \notin Ids
         /\ \A step \in {"pacing", "sending"} : [client EXCEPT !.pc = step] \in Client
         /\ \A i \in Ids : [client EXCEPT !.pc = "sending", !.id = i] \in Client
         /\ \A n \in 0 .. Ttl : /\ [client EXCEPT !.pc = "waiting", !.wait = n] \in Client
                                /\ [client EXCEPT !.wait = n] \in Client
  <1>1. client \in Client
    BY DEF TypeOK
  <1>2. 0 \in 0 .. Ttl /\ None \notin Ids /\ None \in {None} \cup Ids
    BY ThrottleAssumption DEF None, Ids
  <1>3. Ready \in Client /\ Ready.pc = "ready" /\ Ready.id = None
    BY <1>2 DEF Ready, Client
  <1>4. \A step \in {"pacing", "sending"} : [client EXCEPT !.pc = step] \in Client
    BY <1>1 DEF Client
  <1>5. \A i \in Ids : [client EXCEPT !.pc = "sending", !.id = i] \in Client
    BY <1>1 DEF Client
  <1>6. \A n \in 0 .. Ttl : /\ [client EXCEPT !.pc = "waiting", !.wait = n] \in Client
                            /\ [client EXCEPT !.wait = n] \in Client
    BY <1>1 DEF Client
  <1>7. /\ client.pc \in {"ready", "pacing", "sending", "waiting"}
        /\ client.id \in {None} \cup Ids /\ client.wait \in 0 .. Ttl
    BY <1>1 DEF Client
  <1> QED
    BY <1>2, <1>3, <1>4, <1>5, <1>6, <1>7

\* The process gives its work up, or begins it.
LEMMA StartKeeps ==
  ASSUME IInv, NEW m \in Modes, Start(m)
  PROVE  IInv'
  <1>1. /\ mode' = m /\ client' = Ready /\ window' = {} /\ places' = {}
        /\ unpaced' = unpaced \cup (window \ places)
        /\ flying' = flying /\ age' = age /\ hit' = hit /\ lag' = lag /\ blocked' = blocked
    BY DEF Start, serverVars
  <1>2. Ready \in Client /\ Ready.pc = "ready" /\ Ready.id = None
    BY ClientTyped DEF IInv
  <1>3. TypeOK'
    BY <1>1, <1>2 DEF IInv, TypeOK
  <1>4. Counted' = Counted /\ \A i \in Ids : Reserved(i)' = Reserved(i)
    BY <1>1 DEF Counted, Reserved
  <1>5. Disjoint'
    BY <1>1, <1>2, <1>4 DEF IInv, Disjoint
  <1>6. /\ Paced' \subseteq Paced \ window /\ Paced \subseteq Ids
        /\ \A i \in Ids : Reserved(i) \in Nat
    BY <1>1, <1>4, PacedTyped DEF IInv, Disjoint, Paced, Sent
  <1>7. Remembered'
    BY <1>1, <1>4, <1>6 DEF IInv, Remembered
  <1>8. Spread'
    BY <1>4, <1>6, SpreadKept
  <1> QED
    BY <1>3, <1>5, <1>7, <1>8 DEF IInv

(* Steps of the process that reserve nothing: a request is to be made, is  *)
(* given up, sent with a place of the batch, or sent again without one.    *)
LEMMA ClientKeeps ==
  ASSUME IInv, Call \/ GiveUp \/ Enroll \/ Retry
  PROVE  IInv'
  <1> USE ClientTyped
  <1>0. TypeOK
    BY DEF IInv
  <1>1. /\ mode' = mode /\ hit' = hit /\ lag' = lag /\ blocked' = blocked
        /\ Counted' = Counted
    BY DEF Call, GiveUp, Enroll, Retry, serverVars, Counted
  <1>2. CASE Call \/ GiveUp
    <2>1. /\ window' = window /\ places' = places /\ flying' = flying /\ age' = age
          /\ unpaced' = unpaced /\ client' \in Client
          /\ client'.id \in {None, client.id} /\ client'.pc \in {"ready", "pacing"}
      BY <1>0, <1>2 DEF Call, GiveUp, Client
    <2>2. TypeOK' /\ Disjoint'
      <3>1. TypeOK'
        BY <1>0, <1>1, <2>1 DEF TypeOK
      <3>2. None \notin places
        BY <1>0 DEF TypeOK
      <3>3. Disjoint'
        BY <1>1, <2>1, <3>2 DEF IInv, Disjoint
      <3> QED
        BY <3>1, <3>3
    <2>3. Paced' = Paced /\ \A i \in Ids : Reserved(i)' = Reserved(i)
      BY <1>1, <2>1 DEF Paced, Sent, Reserved
    <2>4. Paced \subseteq Ids /\ \A i \in Ids : Reserved(i) \in Nat
      BY <1>0, PacedTyped
    <2>5. Remembered'
      BY <2>1, <2>3, <2>4 DEF IInv, Remembered
    <2>6. Spread'
      BY <2>3, <2>4, SpreadKept
    <2> QED
      BY <2>2, <2>5, <2>6 DEF IInv
  <1>3. CASE Enroll
    <2>1. PICK i \in places : /\ client' = [client EXCEPT !.pc = "sending", !.id = i]
                              /\ places' = places \ {i} /\ flying' = flying \cup {i}
                              /\ window' = window /\ age' = age /\ unpaced' = unpaced
      BY <1>3 DEF Enroll, Least
    <2>2. i \in Ids /\ client' \in Client /\ client'.id = i
      BY <1>0, <2>1 DEF TypeOK, Client
    <2>3. TypeOK' /\ Disjoint'
      <3>1. TypeOK'
        BY <1>0, <1>1, <2>1, <2>2 DEF TypeOK
      <3>2. /\ unpaced \cap (window \cup places) = {}
            /\ places \cap (flying \cup Counted) = {} /\ flying \cap Counted \subseteq unpaced
        BY DEF IInv, Disjoint
      <3>3. /\ unpaced' \cap (window' \cup places') = {}
            /\ places' \cap (flying' \cup Counted') = {}
            /\ flying' \cap Counted' \subseteq unpaced'
        BY <1>1, <2>1, <3>2
      <3>4. client'.id \notin places' /\ client'.id \in Ids
        <4>1. places' = places \ {i}
          BY <2>1
        <4> QED
          BY <2>2, <4>1, Zenon
      <3> QED
        BY <3>1, <3>3, <3>4 DEF Disjoint
    <2>4. Paced' = Paced /\ \A k \in Ids : Reserved(k)' = Reserved(k)
      BY <1>1, <2>1 DEF Paced, Sent, Reserved
    <2>5. Paced \subseteq Ids /\ \A k \in Ids : Reserved(k) \in Nat
      BY <1>0, PacedTyped
    <2>6. Remembered'
      BY <2>1, <2>4, <2>5 DEF IInv, Remembered
    <2>7. Spread'
      BY <2>4, <2>5, SpreadKept
    <2> QED
      BY <2>3, <2>6, <2>7 DEF IInv
  <1>4. CASE Retry
    <2> DEFINE i == client.id
    <2>1. /\ i \in Ids /\ i \notin places
          /\ client' = [client EXCEPT !.pc = "sending"]
          /\ flying' = flying \cup {i} /\ age' = [age EXCEPT ![i] = 0]
          /\ unpaced' = unpaced \cup {i} /\ window' = window \ {i} /\ places' = places
      BY <1>4 DEF Retry, IInv, Disjoint
    <2>2. client' \in Client /\ client'.id = i
      BY <1>0, <2>1 DEF TypeOK, Client
    <2> HIDE DEF i
    <2>3. TypeOK' /\ Disjoint'
      BY <1>0, <1>1, <2>1, <2>2 DEF IInv, TypeOK, Disjoint
    <2>4. /\ Paced' \subseteq Paced \ {i} /\ Paced \subseteq Ids
          /\ \A k \in Ids : Reserved(k) \in Nat
      BY <1>0, <1>1, <2>1, PacedTyped DEF Paced, Sent
    <2>5. \A k \in Ids \ {i} : Reserved(k)' = Reserved(k) /\ age'[k] = age[k]
      BY <1>0, <1>1, <2>1 DEF Reserved, TypeOK
    <2>6. Remembered'
      BY <2>1, <2>4, <2>5 DEF IInv, Remembered
    <2>7. Spread'
      BY <2>4, <2>5, SpreadKept
    <2> QED
      BY <2>3, <2>6, <2>7 DEF IInv
  <1> QED
    BY <1>2, <1>3, <1>4

\* Places are reserved: one for a request, or those of a batch.
LEMMA PlacesKeep ==
  ASSUME IInv, NEW P \in SUBSET Free, P # {}, TypeOK', Disjoint',
         window' = window \cup P, unpaced' = unpaced \ P,
         flying' \cup places' = flying \cup places \cup P,
         age' = [i \in Ids |-> IF i \in P THEN 0 ELSE age[i]],
         UNCHANGED serverVars, Cardinality(window \cup P) <= Limit
  PROVE  IInv'
  <1>1. Counted' = Counted /\ P \subseteq Ids /\ P \cap (window \cup Sent) = {}
    BY DEF serverVars, Counted, Free, Sent
  <1>2. Paced' = Paced \cup P
    BY <1>1 DEF Paced, Sent
  <1>3. Paced \subseteq Ids /\ \A i \in Ids : Reserved(i) \in Nat
    BY PacedTyped DEF IInv
  <1>4. \A i \in Paced \ P : Reserved(i)' = Reserved(i) /\ age'[i] = age[i]
    BY <1>1, <1>3 DEF Reserved, serverVars
  <1>5. \A i \in P : Reserved(i)' = 0 /\ age'[i] = 0
    BY <1>1 DEF Reserved, Sent
  <1>6. Remembered'
    BY <1>1, <1>2, <1>4, <1>5 DEF IInv, Remembered
  <1>7. Spread'
    BY <1>1, <1>2, <1>4, <1>5, SpreadGrows
  <1> QED
    BY <1>6, <1>7 DEF IInv

LEMMA ReserveKeeps ==
  ASSUME IInv, Reserve
  PROVE  IInv'
  <1>1. TypeOK /\ client.pc = "pacing"
    BY DEF IInv, Reserve
  <1>2. PICK i \in Free : /\ client' = [client EXCEPT !.pc = "sending", !.id = i]
                          /\ window' = window \cup {i} /\ flying' = flying \cup {i}
                          /\ age' = [age EXCEPT ![i] = 0] /\ unpaced' = unpaced \ {i}
                          /\ UNCHANGED <<mode, places, serverVars>>
                          /\ Cardinality(window) < Limit
    BY DEF Reserve, Least
  <1>3. i \in Ids /\ i \notin places \cup Counted \cup window \cup flying
    BY DEF Free
  <1>4. client' \in Client /\ client'.id = i
    BY <1>1, <1>2, <1>3, ClientTyped DEF TypeOK, Client
  <1>5. TypeOK'
    BY <1>1, <1>2, <1>3, <1>4 DEF TypeOK, serverVars
  <1>6. Counted' = Counted
    BY <1>2 DEF Counted, serverVars
  <1>7. Disjoint'
    BY <1>2, <1>3, <1>4, <1>6 DEF IInv, Disjoint
  <1>8. age' = [k \in Ids |-> IF k \in {i} THEN 0 ELSE age[k]]
    BY <1>1, <1>2 DEF TypeOK
  <1>9. Cardinality(window \cup {i}) <= Limit
    <2>1. IsFiniteSet(window) /\ Cardinality(window) \in Nat
      BY <1>1, IdsFinite DEF TypeOK
    <2>2. Cardinality(window \cup {i}) = Cardinality(window) + 1
      BY <1>3, <2>1, FS_AddElement
    <2> QED
      BY <1>2, <2>1, <2>2, ThrottleAssumption
  <1> QED
    BY <1>2, <1>5, <1>7, <1>8, <1>9, PlacesKeep

LEMMA BatchKeeps ==
  ASSUME IInv, StartBatch
  PROVE  IInv'
  <1>1. TypeOK /\ client.pc = "ready" /\ window = {} /\ places = {}
    BY DEF IInv, StartBatch
  <1>2. PICK P \in kSubset(Limit, Free) :
          /\ window' = P /\ places' = P
          /\ age' = [i \in Ids |-> IF i \in P THEN 0 ELSE age[i]]
          /\ unpaced' = unpaced \ P
          /\ UNCHANGED <<mode, client, flying, serverVars>>
    BY DEF StartBatch
  <1>3. P \in SUBSET Free /\ Cardinality(P) = Limit
    BY DEF kSubset
  <1>4. P \subseteq Ids /\ client.id \notin P /\ P \cap (flying \cup Counted) = {}
    BY <1>3 DEF Free
  <1>5. P # {}
    BY <1>3, FS_EmptySet, ThrottleAssumption
  <1>6. TypeOK'
    BY <1>1, <1>2, <1>4 DEF TypeOK, serverVars
  <1>7. Counted' = Counted
    BY <1>2 DEF Counted, serverVars
  <1>8. Disjoint'
    BY <1>1, <1>2, <1>4, <1>7 DEF IInv, Disjoint
  <1>9. Cardinality(window \cup P) <= Limit /\ window' = window \cup P
        /\ flying' \cup places' = flying \cup places \cup P
    BY <1>1, <1>2, <1>3, ThrottleAssumption
  <1> QED
    BY <1>2, <1>3, <1>5, <1>6, <1>8, <1>9, PlacesKeep

\* The process learns of an answer to request i, or of its loss.
LEMMA AnswerTyped ==
  ASSUME IInv, NEW i, NEW refused \in BOOLEAN, NEW left \in 0 .. Ttl,
         Answer(i, refused, left) \/ client' = IF client.id = i THEN Ready ELSE client
  PROVE  /\ client' \in Client /\ client'.id \in {None, client.id}
         /\ client'.pc \in {"sending", "waiting"} => client'.id \in Ids
  <1>0. TypeOK /\ client \in Client
    BY DEF IInv, TypeOK
  <1>1. CASE client' = client
    BY <1>0, <1>1 DEF IInv, Disjoint
  <1>2. CASE client' = Ready
    BY <1>0, <1>2, ClientTyped
  <1>3. CASE client.pc = "sending" /\ client' = [client EXCEPT !.pc = "waiting", !.wait = left]
    BY <1>0, <1>3, ClientTyped DEF IInv, Disjoint, Client
  <1> QED
    BY <1>1, <1>2, <1>3 DEF Answer, RetryAfter

\* A request is refused, or lost.
LEMMA UncountedKeeps ==
  ASSUME IInv, NEW i \in flying, flying' = flying \ {i},
         \/ Answer(i, TRUE, blocked)
         \/ client' = IF client.id = i THEN Ready ELSE client,
         UNCHANGED <<mode, window, places, age, serverVars, unpaced>>
  PROVE  IInv'
  <1>1. TypeOK /\ blocked \in 0 .. Ttl
    BY DEF IInv, TypeOK
  <1>2. /\ client' \in Client /\ client'.id \in {None, client.id}
        /\ client'.pc \in {"sending", "waiting"} => client'.id \in Ids
    BY <1>1, AnswerTyped
  <1>3. TypeOK'
    BY <1>1, <1>2 DEF TypeOK, serverVars
  <1>4. /\ Counted' = Counted /\ \A k \in Ids : Reserved(k)' = Reserved(k)
    BY DEF Counted, Reserved, serverVars
  <1>5. Disjoint'
    BY <1>1, <1>2, <1>4, ClientTyped DEF IInv, Disjoint, TypeOK
  <1>6. /\ Paced' \subseteq Paced /\ Paced \subseteq Ids
        /\ \A k \in Ids : Reserved(k) \in Nat
    BY <1>1, <1>4, PacedTyped DEF Paced, Sent
  <1>7. Remembered'
    BY <1>4, <1>6 DEF IInv, Remembered
  <1>8. Spread'
    BY <1>4, <1>6, SpreadKept
  <1> QED
    BY <1>3, <1>5, <1>7, <1>8 DEF IInv

\* A request is counted: it was reserved as long ago as its lag says.
LEMMA CountedKeeps ==
  ASSUME IInv, NEW i \in flying, Arrive(i), blocked = 0
  PROVE  /\ IInv' /\ Counted' = Counted \cup {i}
         /\ unpaced' = unpaced
         /\ blocked' > 0 => Cardinality(Counted') > Limit
  <1>1. TypeOK /\ i \in Ids
    BY DEF IInv, TypeOK
  <1>2. /\ flying' = flying \ {i}
        /\ hit' = [hit EXCEPT ![i] = 0] /\ lag' = [lag EXCEPT ![i] = age[i]]
        /\ blocked' = IF Cardinality(Counted \cup {i}) > Limit THEN Ttl ELSE 0
        /\ Answer(i, blocked' > 0, blocked')
        /\ UNCHANGED <<mode, window, places, age, unpaced>>
    BY DEF Arrive
  <1>3. blocked' \in 0 .. Ttl /\ (blocked' > 0) \in BOOLEAN
    BY <1>2, ThrottleAssumption
  <1>4. /\ client' \in Client /\ client'.id \in {None, client.id}
        /\ client'.pc \in {"sending", "waiting"} => client'.id \in Ids
    BY <1>2, <1>3, AnswerTyped
  <1>5. TypeOK'
    BY <1>1, <1>2, <1>3, <1>4, ThrottleAssumption DEF TypeOK
  <1>6. Counted' = Counted \cup {i}
    BY <1>1, <1>2 DEF Counted, TypeOK, NoHit
  <1>7. Disjoint'
    BY <1>1, <1>2, <1>4, <1>6, ClientTyped DEF IInv, Disjoint, TypeOK
  <1>8. /\ Paced' \subseteq Paced /\ Paced \subseteq Ids
        /\ \A k \in Ids : Reserved(k) \in Nat
    BY <1>1, <1>2, <1>6, PacedTyped DEF Paced, Sent
  <1>9. \A k \in Paced' : Reserved(k)' = Reserved(k) + 0
    <2>1. TAKE k \in Paced'
    <2>2. CASE k = i
      <3>1. i \notin Counted
        BY <1>2, <2>2 DEF IInv, Disjoint, Paced, Sent
      <3> QED
        BY <1>1, <1>2, <1>6, <2>2, <3>1 DEF Reserved, TypeOK
    <2>3. CASE k # i
      BY <1>1, <1>2, <1>6, <1>8, <2>3 DEF Reserved, TypeOK
    <2> QED
      BY <2>2, <2>3
  <1>10. Remembered'
    BY <1>2, <1>8, <1>9 DEF IInv, Remembered
  <1>11. Spread'
    BY <1>8, <1>9, SpreadCarried
  <1>12. blocked' > 0 => Cardinality(Counted') > Limit
    BY <1>2, <1>6
  <1> QED
    BY <1>2, <1>5, <1>6, <1>7, <1>10, <1>11, <1>12 DEF IInv

\* Time passes.
LEMMA TickKeeps ==
  ASSUME IInv, Tick
  PROVE  IInv'
  <1>1. TypeOK
    BY DEF IInv
  <1>2. /\ window' = {i \in window : InWindow(i)}
        /\ age' = [i \in Ids |-> IF i \in window' \cup places \cup flying THEN age[i] + 1 ELSE 0]
        /\ hit' = [i \in Ids |-> IF Expired(i) THEN NoHit ELSE hit[i] + 1]
        /\ lag' = [i \in Ids |-> IF Expired(i) THEN 0 ELSE lag[i]]
        /\ blocked' = Left(blocked) /\ client' = [client EXCEPT !.wait = Left(@)]
        /\ unpaced' = {i \in unpaced : ~Expired(i) \/ i \in flying}
        /\ mode' = mode /\ places' = places /\ flying' = flying
    BY DEF Tick
  <1>3. Counted' = {i \in Counted : ~Expired(i)}
    <2>1. \A i \in Ids : ~Expired(i) => hit[i] \in Nat
      BY <1>1, ThrottleAssumption DEF Expired, TypeOK
    <2> QED
      BY <1>2, <2>1 DEF Counted, NoHit, Expired
  <1>4. /\ client' \in Client /\ client'.id = client.id /\ client'.pc = client.pc
        /\ blocked' \in 0 .. Ttl
    <2>1. \A n \in 0 .. Ttl : Left(n) \in 0 .. Ttl
      BY ThrottleAssumption DEF Left
    <2> QED
      BY <1>1, <1>2, <2>1 DEF TypeOK, Client
  <1>5. TypeOK'
    <2>1. \A i \in Ids : ~Expired(i) => hit[i] + 1 \in 0 .. Ttl - 1
      BY <1>1, ThrottleAssumption DEF Expired, TypeOK
    <2>2. hit' \in [Ids -> {NoHit} \cup 0 .. Ttl - 1]
      BY <1>2, <2>1
    <2>3. age' \in [Ids -> Nat] /\ lag' \in [Ids -> Nat]
      BY <1>1, <1>2 DEF TypeOK
    <2> QED
      BY <1>1, <1>2, <1>4, <2>2, <2>3 DEF TypeOK
  <1>6. Disjoint'
    BY <1>2, <1>3, <1>4 DEF IInv, Disjoint
  <1>7. /\ Paced' \subseteq Paced /\ Paced \subseteq Ids
        /\ \A k \in Ids : Reserved(k) \in Nat
    <2>1. Sent' \subseteq Sent
      BY <1>2, <1>3 DEF Sent
    <2>2. ASSUME NEW k \in Sent', k \in unpaced PROVE k \in unpaced'
      <3>1. k \notin places
        BY <2>2 DEF IInv, Disjoint
      <3>2. k \in flying \/ (k \in Counted /\ ~Expired(k))
        BY <1>2, <1>3, <3>1 DEF Sent
      <3> QED
        BY <1>2, <2>2, <3>2
    <2> QED
      BY <1>1, <2>1, <2>2, PacedTyped DEF Paced
  <1>8. ASSUME NEW k \in Paced'
        PROVE  Reserved(k)' = Reserved(k) + 1
    <2>1. k \in Ids /\ k \in Paced
      BY <1>7
    <2>2. CASE k \in Counted'
      <3>1. k \in Counted /\ ~Expired(k)
        BY <1>3, <2>2
      <3>2. hit[k] \in Nat /\ lag[k] \in Nat
        BY <1>1, <2>1, <3>1, ThrottleAssumption DEF TypeOK, Counted
      <3>3. hit'[k] = hit[k] + 1 /\ lag'[k] = lag[k]
        BY <1>2, <2>1, <3>1
      <3> QED
        BY <2>2, <3>1, <3>2, <3>3 DEF Reserved
    <2>3. CASE k \notin Counted'
      <3>1. k \in flying \cup places
        BY <1>2, <2>3 DEF Paced, Sent
      <3>2. k \notin Counted
        BY <2>1, <3>1 DEF IInv, Disjoint, Paced
      <3>3. age'[k] = age[k] + 1
        BY <1>2, <2>1, <3>1
      <3> QED
        BY <2>3, <3>2, <3>3 DEF Reserved
    <2> QED
      BY <2>2, <2>3
  <1>9. Remembered'
    <2> SUFFICES ASSUME NEW k \in Paced'
                 PROVE  IF k \in window' THEN Reserved(k)' = age'[k]
                        ELSE Reserved(k)' >= Window
      BY DEF Remembered
    <2>1. k \in Ids /\ k \in Paced /\ Reserved(k)' = Reserved(k) + 1 /\ Reserved(k) \in Nat
      BY <1>7, <1>8
    <2>2. IF k \in window THEN Reserved(k) = age[k] ELSE Reserved(k) >= Window
      BY <2>1 DEF IInv, Remembered
    <2>3. CASE k \in window'
      BY <1>2, <2>1, <2>2, <2>3
    <2>4. CASE k \in window /\ k \notin window'
      BY <1>2, <2>1, <2>2, <2>4, ThrottleAssumption DEF InWindow
    <2>5. CASE k \notin window
      BY <1>2, <2>1, <2>2, <2>5, ThrottleAssumption
    <2> QED
      BY <2>3, <2>4, <2>5
  <1>10. Spread'
    BY <1>7, <1>8, SpreadCarried
  <1> QED
    BY <1>5, <1>6, <1>9, <1>10 DEF IInv

LEMMA StepInvariant ==
  ASSUME IInv, [Next]_vars
  PROVE  IInv'
  <1>1. CASE UNCHANGED vars
    BY <1>1 DEF vars, clientVars, serverVars, IInv, TypeOK, Disjoint, Remembered, Spread,
                Apart, Paced, Sent, Counted, Reserved
  <1>2. ASSUME NEW i \in Ids, Arrive(i) PROVE IInv'
    <2>1. i \in flying
      BY <1>2 DEF Arrive
    <2>2. CASE blocked = 0
      BY <1>2, <2>1, <2>2, CountedKeeps
    <2>3. CASE blocked # 0
      BY <1>2, <2>1, <2>3, UncountedKeeps DEF Arrive
    <2> QED
      BY <2>2, <2>3
  <1>3. ASSUME NEW i \in Ids, Lose(i) PROVE IInv'
    BY <1>3, UncountedKeeps DEF Lose
  <1> QED
    BY <1>1, <1>2, <1>3, StartKeeps, ClientKeeps, ReserveKeeps, BatchKeeps, TickKeeps DEF Next

-----------------------------------------------------------------------------
(* The theorems                                                            *)

(* Of any requests that the throttler counts or that are on their way to   *)
(* it, more than the limit, two were reserved a window apart.              *)
THEOREM AlwaysIInv == Spec => []IInv
  <1> QED
    BY InitInvariant, StepInvariant, PTL DEF Spec

\* The window, the ages and what the throttler keeps have their types.
THEOREM TypeCorrect == Spec => []TypeOK
  <1>1. IInv => TypeOK
    BY DEF IInv
  <1> QED
    BY <1>1, AlwaysIInv, PTL

(* Whatever the limit and the windows, a request that is paced turns no    *)
(* block on, unless its lag and that of a later one differ by more than    *)
(* what the window of the process is longer.                               *)
THEOREM BlockedOnlyForALag == Spec => BlockedForALag
  <1> DEFINE A == blocked = 0 /\ blocked' > 0 =>
                    \/ Counted' \cap unpaced # {}
                    \/ \E i, j \in Counted' :
                         /\ hit'[i] + lag'[i] >= hit'[j] + lag'[j]
                         /\ lag'[i] > lag'[j] + Margin
  <1>1. ASSUME IInv, [Next]_vars, blocked = 0, blocked' > 0
        PROVE  \E i \in flying : Arrive(i)
    <2>1. \A i \in Ids : ~Lose(i)
      BY <1>1 DEF Lose, serverVars
    <2>2. ~Tick
      BY <1>1 DEF Tick, Left
    <2>3. \A m \in Modes : ~Start(m)
      BY <1>1 DEF Start, serverVars
    <2>4. ASSUME Call \/ Reserve \/ StartBatch \/ Enroll \/ GiveUp \/ Retry \/ UNCHANGED vars
          PROVE  FALSE
      <3>1. UNCHANGED serverVars
        BY <2>4 DEF Call, Reserve, StartBatch, Enroll, GiveUp, Retry, vars
      <3> QED
        BY <1>1, <3>1 DEF serverVars
    <2>5. CASE \E i \in Ids : Arrive(i)
      BY <2>5 DEF Arrive
    <2> QED
      BY <1>1, <2>1, <2>2, <2>3, <2>4, <2>5 DEF Next
  <1>2. ASSUME IInv, NEW k \in flying, Arrive(k), blocked = 0, blocked' > 0,
               Counted' \cap unpaced = {}
        PROVE  \E i, j \in Counted' : /\ hit'[i] + lag'[i] >= hit'[j] + lag'[j]
                                      /\ lag'[i] > lag'[j] + Margin
    <2>1. IInv' /\ unpaced' = unpaced /\ Cardinality(Counted') > Limit
      BY <1>2, CountedKeeps
    <2>2. Counted' \in SUBSET Paced'
      BY <1>2, <2>1 DEF Paced, Sent
    <2>3. PICK i, j \in Counted' : Reserved(i)' >= Reserved(j)' + Window
      BY <2>1, <2>2 DEF IInv, Spread, Apart
    <2>4. Reserved(i)' = hit'[i] + lag'[i] /\ Reserved(j)' = hit'[j] + lag'[j]
      BY DEF Reserved
    <2>5. \A n \in {i, j} : hit'[n] \in 0 .. Ttl - 1 /\ lag'[n] \in Nat
      BY <2>1 DEF IInv, TypeOK, Counted
    <2> QED
      BY <2>3, <2>4, <2>5, ThrottleAssumption DEF Margin
  <1>3. IInv /\ [Next]_vars => [A]_vars
    BY <1>1, <1>2
  <1> QED
    BY <1>3, AlwaysIInv, PTL DEF Spec, BlockedForALag
=============================================================================
