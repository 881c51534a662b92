---------------------------- MODULE UsersProofs ----------------------------
(***************************************************************************)
(* Proofs about Users, for any accounts, emails, addresses and requests.   *)
(* The inductive invariant says, of an account whose defaults nobody has   *)
(* muddled, how far the one change that may be under way has brought them. *)
(***************************************************************************)
EXTENDS Users, FiniteSetTheorems, WellFoundedInduction, TLAPS

-----------------------------------------------------------------------------
(* The inductive invariant                                                 *)

Changing(r) == job[r].pc \in {"search", "clear", "save"}

\* What request r holds at each of its steps.
WellFormed(r) ==
  /\ job[r].pc \in {"idle", "insert"} => job[r].user = Nobody
  /\ job[r].pc \notin {"idle", "insert"} => job[r].user \in Accounts
  /\ Changing(r) =>
       /\ job[r].address \in Slots
       /\ address[job[r].address].owner =
            IF Exists(job[r].user) THEN job[r].user ELSE Nobody
  /\ IF job[r].pc = "clear" THEN job[r].other \in Slots \ {job[r].address}
     ELSE job[r].other = None
  /\ job[r].pc \in {"search", "clear"} => job[r].makes
  /\ job[r].makes => job[r].saved.default

Formed == \A r \in Requests : WellFormed(r)

IsDefault(a, u, t) ==
  /\ address[a].owner = u /\ address[a].own
  /\ address[a].type = t /\ address[a].default

One(u, t) == \E a \in Slots : \A b \in Slots : IsDefault(b, u, t) <=> b = a

\* Address a of request r becomes a default, and is none of another type.
Fits(r) ==
  LET a == job[r].address
  IN  address[a].own /\ address[a].default => address[a].type = job[r].saved.type

\* How far request r of account u is with the defaults of u.
Registering(r, u) ==
  job[r].pc = "addresses" => \A b \in Slots, t \in Types : ~IsDefault(b, u, t)

Searching(r, u) ==
  job[r].pc = "search" => Fits(r) /\ \A t \in Types : One(u, t)

Clearing(r, u) ==
  job[r].pc = "clear" =>
    LET a == job[r].address  b == job[r].other  t == job[r].saved.type
    IN  /\ Fits(r)
        /\ \A type \in Types : One(u, type)
        /\ \A c \in Slots : IsDefault(c, u, t) => c \in {a, b}
        /\ address[b].owner = u /\ address[b].own =>
             address[a].own /\ IsDefault(b, u, t)

Making(r, u) ==
  job[r].pc = "save" /\ job[r].makes =>
    LET a == job[r].address  t == job[r].saved.type
    IN  /\ Fits(r) /\ address[a].own
        /\ \A c \in Slots : IsDefault(c, u, t) => c = a
        /\ \A type \in Types \ {t} : One(u, type)

Keeping(r, u) ==
  job[r].pc = "save" /\ ~job[r].makes =>
    LET a == job[r].address  saved == job[r].saved
    IN  /\ \A type \in Types : One(u, type)
        /\ address[a].own =>
             /\ saved.default = address[a].default
             /\ address[a].default => saved.type = address[a].type

Progress(r, u) ==
  /\ Registering(r, u) /\ Searching(r, u) /\ Clearing(r, u)
  /\ Making(r, u) /\ Keeping(r, u)

\* Only one request has account u in its hands.
Alone(u) ==
  \A r, q \in Requests : u \in Touched(r) /\ u \in Touched(q) => r = q

\* No other account's request takes an address of u that is its own.
Spared(u) ==
  \A r \in Requests :
    /\ job[r].pc = "clear" /\ job[r].user # u
    /\ address[job[r].other].owner = u
    => ~address[job[r].other].own

Settled(u) ==
  /\ Alone(u) /\ Spared(u)
  /\ \A r \in Requests : job[r].user = u => Progress(r, u)
  /\ (\A r \in Requests : job[r].user # u) => \A t \in Types : One(u, t)

AllSettled == \A u \in Accounts \ muddled : Exists(u) => Settled(u)

IInv == TypeOK /\ Formed /\ OneAccountPerEmail /\ AllSettled

-----------------------------------------------------------------------------
(* Minima                                                                  *)

Smaller == {p \in Nat \X Nat : p[1] < p[2]}

LEMMA SmallerWellFounded == IsWellFoundedOn(Smaller, Nat)
BY NatLessThanWellFounded, Zenon DEF OpToRel, Smaller

\* What Min chooses from a set of natural numbers is in it.
LEMMA MinInSet == ASSUME NEW S \in SUBSET Nat, S # {} PROVE Min(S) \in S
<1>1. PICK x \in S : \A y \in S : ~(<<y, x>> \in Smaller)
  BY SmallerWellFounded, WFMin, Zenon
<1>2. \A y \in S : ~(y < x) BY <1>1 DEF Smaller
<1>3. \A y \in S : x =< y BY <1>2
<1>4. QED BY <1>3 DEF Min

LEMMA NewSlotsNatural == NewSlots \in SUBSET Nat /\ IsFiniteSet(NewSlots)
<1>1. IsFiniteSet(Slots) /\ Slots \subseteq Nat BY FS_Interval, UsersAssumption DEF Slots
<1>2. NewSlots \subseteq Slots BY DEF NewSlots
<1>3. QED BY <1>1, <1>2, FS_Subset

\* Two new addresses are two.
LEMMA TwoNewSlots ==
  ASSUME Cardinality(NewSlots) >= 2
  PROVE  /\ Min(NewSlots) \in NewSlots
         /\ Min(NewSlots \ {Min(NewSlots)}) \in NewSlots \ {Min(NewSlots)}
<1>1. NewSlots # {} BY FS_EmptySet
<1>2. Min(NewSlots) \in NewSlots BY <1>1, MinInSet, NewSlotsNatural
<1>3. Cardinality(NewSlots \ {Min(NewSlots)}) >= 1
  <2>1. Cardinality(NewSlots) \in Nat BY FS_CardinalityType, NewSlotsNatural
  <2>2. Cardinality(NewSlots \ {Min(NewSlots)}) = Cardinality(NewSlots) - 1
    BY <1>2, FS_RemoveElement, NewSlotsNatural
  <2>3. QED BY <2>1, <2>2
<1>4. NewSlots \ {Min(NewSlots)} # {} BY <1>3, FS_EmptySet
<1>5. QED BY <1>2, <1>4, MinInSet, NewSlotsNatural

-----------------------------------------------------------------------------
(* Types and what requests hold                                            *)

Shape == TypeOK /\ Formed

LEMMA IdleTyped == Idle \in Job /\ NoAddress \in Address
BY DEF Idle, Job, NoAddress, Address, Types

LEMMA InitShape == Init => Shape
BY IdleTyped DEF Init, Shape, TypeOK, Formed, WellFormed, NoAddress, Idle, Changing

LEMMA BecomeTyped ==
  ASSUME job \in [Requests -> Job], NEW r \in Requests, NEW state \in Job, Become(r, state)
  PROVE  /\ job' \in [Requests -> Job]
         /\ job'[r] = state
         /\ \A q \in Requests \ {r} : job'[q] = job[q]
BY DEF Become

\* A step that leaves request q, its account and its address alone.
LEMMA WellFormedStays ==
  ASSUME NEW q \in Requests, WellFormed(q), job'[q] = job[q],
         Exists(job[q].user)' <=> Exists(job[q].user),
         Changing(q) => address'[job[q].address].owner = address[job[q].address].owner
  PROVE  WellFormed(q)'
BY DEF WellFormed, Changing

LEMMA OwnerExists ==
  ASSUME TypeOK
  PROVE  \A u : Exists(u) => u \in Accounts /\ u # Nobody
BY UsersAssumption DEF Exists

LEMMA RegisterShape ==
  ASSUME Shape, NEW r \in Requests, NEW e \in Emails, Register(r, e)
  PROVE  Shape'
<1> DEFINE state == [Idle EXCEPT !.pc = "insert", !.email = e]
<1>1. state \in Job BY DEF Idle, Job, Types
<1>2. Become(r, state) /\ UNCHANGED <<email, address, muddled>> BY DEF Register
<1>3. TypeOK' BY <1>1, <1>2, BecomeTyped DEF Shape, TypeOK, Exists
<1>4. WellFormed(r)'
  <2>1. job'[r] = state BY <1>1, <1>2, BecomeTyped DEF Shape, TypeOK
  <2>2. /\ job'[r].pc = "insert" /\ job'[r].user = Nobody
        /\ job'[r].other = None /\ job'[r].makes = FALSE
    BY <2>1 DEF Idle
  <2>3. QED BY <2>2 DEF WellFormed, Changing
<1>5. \A q \in Requests \ {r} : WellFormed(q)'
  BY <1>1, <1>2, BecomeTyped, WellFormedStays DEF Shape, TypeOK, Formed, Exists
<1>6. QED BY <1>3, <1>4, <1>5 DEF Shape, Formed

LEMMA InsertUserShape ==
  ASSUME Shape, NEW r \in Requests, InsertUser(r)
  PROVE  Shape'
<1>1. PICK u \in NewAccounts :
        /\ email' = [email EXCEPT ![u] = job[r].email]
        /\ Become(r, [Idle EXCEPT !.pc = "addresses", !.user = u])
  BY DEF InsertUser
<1> DEFINE state == [Idle EXCEPT !.pc = "addresses", !.user = u]
<1>2. u \in Accounts /\ ~Exists(u) /\ \A q \in Requests : job[q].user # u
  BY DEF NewAccounts
<1>3. state \in Job BY <1>2 DEF Idle, Job, Types
<1>4. job[r] \in Job /\ job[r].email \in Emails \cup {Nobody}
  BY DEF Shape, TypeOK, Job
<1>5. \A v : v # u => (Exists(v)' <=> Exists(v))
  BY <1>1, <1>2 DEF Shape, TypeOK, Exists
<1>6. UNCHANGED <<address, muddled>> BY DEF InsertUser
<1>7. TypeOK'
  <2>1. \A a \in Slots : address[a].owner # u
    BY <1>2, UsersAssumption DEF Shape, TypeOK
  <2>2. email' \in [Accounts -> Emails \cup {Nobody}] BY <1>1, <1>4 DEF Shape, TypeOK
  <2>3. QED BY <1>1, <1>3, <1>5, <1>6, <2>1, <2>2, BecomeTyped DEF Shape, TypeOK
<1>8. WellFormed(r)'
  <2>1. job'[r] = state BY <1>1, <1>3, BecomeTyped DEF Shape, TypeOK
  <2>2. /\ job'[r].pc = "addresses" /\ job'[r].user = u
        /\ job'[r].other = None /\ job'[r].makes = FALSE
    BY <2>1 DEF Idle
  <2>3. QED BY <1>2, <2>2 DEF WellFormed, Changing
<1>9. \A q \in Requests \ {r} : WellFormed(q)'
  BY <1>1, <1>2, <1>3, <1>5, <1>6, BecomeTyped, WellFormedStays DEF Shape, TypeOK, Formed
<1>10. QED BY <1>7, <1>8, <1>9 DEF Shape, Formed

\* New addresses are in the hands of no request.
LEMMA NewSlotsFree ==
  ASSUME Formed, NEW s \in NewSlots, NEW q \in Requests
  PROVE  s \in Slots /\ address[s].owner = Nobody /\ job[q].address # s /\ job[q].other # s
BY DEF NewSlots

LEMMA InsertAddressesShape ==
  ASSUME Shape, NEW r \in Requests, InsertAddresses(r)
  PROVE  Shape'
<1> DEFINE new(t) == [owner |-> job[r].user, own |-> TRUE, type |-> t, default |-> TRUE]
           a == Min(NewSlots)
           b == Min(NewSlots \ {a})
<1>1. address' = [address EXCEPT ![a] = new("billing"), ![b] = new("delivery")]
  BY DEF InsertAddresses
<1>2. job[r].user \in Accounts /\ Exists(job[r].user) BY DEF InsertAddresses, Exists
<1>3. new("billing") \in Address /\ new("delivery") \in Address
  BY <1>2 DEF Address, Types
<1>4. a \in NewSlots /\ b \in NewSlots BY TwoNewSlots DEF InsertAddresses
<1>5. \A s \in Slots : address'[s].owner \in {address[s].owner, job[r].user}
  BY <1>1 DEF Shape, TypeOK
<1>6. UNCHANGED <<email, muddled>> /\ Become(r, Idle) BY DEF InsertAddresses, Finish
<1>7. TypeOK'
  <2>1. address' \in [Slots -> Address] BY <1>1, <1>3 DEF Shape, TypeOK
  <2>2. QED BY <1>2, <1>5, <1>6, <2>1, IdleTyped, BecomeTyped DEF Shape, TypeOK, Exists
<1>8. WellFormed(r)'
  BY <1>6, IdleTyped, BecomeTyped DEF Shape, TypeOK, WellFormed, Idle, Changing
<1>9. ASSUME NEW q \in Requests \ {r} PROVE WellFormed(q)'
  <2>1. job'[q] = job[q] BY <1>6, IdleTyped, BecomeTyped DEF Shape, TypeOK
  <2>2. Changing(q) => job[q].address \in Slots \ {a, b}
    BY <1>4, NewSlotsFree DEF Shape, Formed, WellFormed
  <2>3. Changing(q) => address'[job[q].address] = address[job[q].address]
    BY <1>1, <2>2 DEF Shape, TypeOK
  <2>4. QED BY <1>6, <2>1, <2>3, WellFormedStays DEF Shape, Formed, Exists
<1>10. QED BY <1>7, <1>8, <1>9 DEF Shape, Formed

\* An address that is added or left by an order.
LEMMA AddedShape ==
  ASSUME Shape, NEW u \in Accounts, Exists(u), NEW new \in Address, new.owner = u,
         NewSlots # {}, address' = [address EXCEPT ![Min(NewSlots)] = new],
         UNCHANGED <<email, job, muddled>>
  PROVE  Shape'
<1> DEFINE a == Min(NewSlots)
<1>1. a \in NewSlots BY MinInSet, NewSlotsNatural
<1>2. \A s \in Slots : address'[s].owner \in {address[s].owner, u}
  BY DEF Shape, TypeOK
<1>3. TypeOK' BY <1>2 DEF Shape, TypeOK, Exists
<1>4. ASSUME NEW q \in Requests PROVE WellFormed(q)'
  <2>1. Changing(q) => job[q].address \in Slots \ {a}
    BY <1>1, NewSlotsFree DEF Shape, Formed, WellFormed
  <2>2. QED BY <2>1, WellFormedStays DEF Shape, TypeOK, Formed, Exists
<1>5. QED BY <1>3, <1>4 DEF Shape, Formed

LEMMA UpdateDetailsShape ==
  ASSUME Shape, NEW u \in Accounts, NEW e \in Emails, UpdateDetails(u, e)
  PROVE  Shape'
<1>1. \A v : Exists(v)' <=> Exists(v)
  BY UsersAssumption DEF UpdateDetails, Shape, TypeOK, Exists
<1>2. TypeOK' BY <1>1 DEF UpdateDetails, Shape, TypeOK
<1>3. \A q \in Requests : WellFormed(q)'
  BY <1>1, WellFormedStays DEF UpdateDetails, Shape, Formed
<1>4. QED BY <1>2, <1>3 DEF Shape, Formed

LEMMA RemoveShape ==
  ASSUME Shape, NEW u \in Accounts, Remove(u)
  PROVE  Shape'
<1>1. \A v : Exists(v)' <=> Exists(v) /\ v # u
  BY UsersAssumption DEF Remove, Shape, TypeOK, Exists
<1>2. address' \in [Slots -> Address]
  BY IdleTyped DEF Remove, Cascaded, Shape, TypeOK
<1>3. \A s \in Slots : address'[s].owner = IF address[s].owner = u THEN Nobody ELSE address[s].owner
  BY DEF Remove, Cascaded, NoAddress
<1>4. TypeOK' BY <1>1, <1>2, <1>3 DEF Remove, Shape, TypeOK
<1>5. \A q \in Requests : WellFormed(q)'
  BY <1>1, <1>3 DEF Remove, Shape, TypeOK, Formed, WellFormed, Changing
<1>6. QED BY <1>4, <1>5 DEF Shape, Formed

\* What a change writes down when it begins.
Begun(u, a, t, d) ==
  LET default == IF d = "unset" THEN address[a].default ELSE d = "yes"
  IN  [Idle EXCEPT !.user = u, !.address = a, !.makes = d = "yes",
                   !.pc = IF d = "yes" THEN "search" ELSE "save",
                   !.saved = [type |-> t, default |-> default]]

LEMMA BegunTyped ==
  ASSUME TypeOK, NEW u \in Accounts, NEW a \in Slots, NEW t \in Types,
         NEW d \in {"yes", "no", "unset"}
  PROVE  /\ Begun(u, a, t, d) \in Job
         /\ Begun(u, a, t, d).user = u /\ Begun(u, a, t, d).address = a
         /\ Begun(u, a, t, d).other = None
         /\ Begun(u, a, t, d).makes = (d = "yes")
         /\ Begun(u, a, t, d).saved.type = t
         /\ Begun(u, a, t, d).saved.default =
              IF d = "unset" THEN address[a].default ELSE d = "yes"
         /\ Begun(u, a, t, d).pc = IF d = "yes" THEN "search" ELSE "save"
<1> DEFINE default == IF d = "unset" THEN address[a].default ELSE d = "yes"
<1>1. address[a] \in Address BY DEF TypeOK
<1>2. default \in BOOLEAN BY <1>1 DEF Address
<1> DEFINE saved == [type |-> t, default |-> default]
           pc == IF d = "yes" THEN "search" ELSE "save"
           makes == d = "yes"
           state == Begun(u, a, t, d)
<1>3. /\ makes \in BOOLEAN /\ saved \in [type: Types, default: BOOLEAN]
      /\ pc \in {"search", "save"} /\ saved.type = t /\ saved.default = default
  BY <1>2
<1>4. state = [Idle EXCEPT !.user = u, !.address = a, !.makes = makes, !.pc = pc,
                           !.saved = saved]
  BY DEF Begun
<1> HIDE DEF saved, pc, makes, state
<1>5. /\ state \in Job
      /\ state.user = u /\ state.address = a /\ state.other = None /\ state.makes = makes
      /\ state.saved = saved /\ state.pc = pc
  BY <1>3, <1>4 DEF Idle, Job
<1>6. QED BY <1>3, <1>5 DEF pc, makes, state

LEMMA ChangeReadsShape ==
  ASSUME Shape, NEW r \in Requests, NEW u \in Accounts, NEW a \in Slots, NEW t \in Types,
         NEW d \in {"yes", "no", "unset"}, ChangeReads(r, u, a, t, d)
  PROVE  Shape'
<1> DEFINE state == Begun(u, a, t, d)
<1>1. Become(r, state) BY DEF ChangeReads, Begun
<1>2. UNCHANGED <<email, address>> /\ muddled' \in {muddled, muddled \cup {u}}
  BY DEF ChangeReads
<1>3. TypeOK BY DEF Shape
<1>4. state \in Job BY <1>3, BegunTyped
<1>5. /\ job' \in [Requests -> Job] /\ job'[r] = state
      /\ \A q \in Requests \ {r} : job'[q] = job[q]
  BY <1>1, <1>3, <1>4, BecomeTyped DEF TypeOK
<1>6. TypeOK' BY <1>2, <1>3, <1>5 DEF TypeOK, Exists
<1>7. WellFormed(r)'
  <2>1. Exists(u) /\ address[a].owner = u BY DEF ChangeReads
  <2>2. Exists(u)' /\ address'[a].owner = u BY <1>2, <2>1 DEF Exists
  <2>3. /\ job'[r].user = u /\ job'[r].address = a /\ job'[r].other = None
        /\ job'[r].makes = (d = "yes")
        /\ job'[r].saved.default = IF d = "unset" THEN address[a].default ELSE d = "yes"
        /\ job'[r].pc = IF d = "yes" THEN "search" ELSE "save"
    BY <1>3, <1>5, BegunTyped
  <2>4. QED BY <2>2, <2>3 DEF WellFormed, Changing
<1>8. \A q \in Requests \ {r} : WellFormed(q)'
  BY <1>2, <1>5, WellFormedStays DEF Shape, Formed, Exists
<1>9. QED BY <1>6, <1>7, <1>8 DEF Shape, Formed

\* The two ways a search ends.
LEMMA SearchStates ==
  ASSUME TypeOK, NEW r \in Requests
  PROVE  /\ [job[r] EXCEPT !.pc = "save"] \in Job
         /\ \A b \in Slots : [job[r] EXCEPT !.pc = "clear", !.other = b] \in Job
BY DEF TypeOK, Job

LEMMA SearchShape ==
  ASSUME Shape, NEW r \in Requests, Search(r)
  PROVE  Shape'
<1>1. TypeOK /\ WellFormed(r) /\ At(r, "search") /\ UNCHANGED <<email, address>>
  BY DEF Shape, Formed, Search
<1>2. job[r] \in Job /\ job[r].pc = "search" /\ job[r].user \in Accounts
  BY <1>1 DEF TypeOK, WellFormed, At
<1>3. CASE Found(r) = {}
  <2> DEFINE state == [job[r] EXCEPT !.pc = "save"]
  <2>1. Become(r, state) /\ UNCHANGED muddled BY <1>3 DEF Search
  <2>2. /\ job' \in [Requests -> Job] /\ job'[r] = state
        /\ \A q \in Requests \ {r} : job'[q] = job[q]
    BY <1>1, <2>1, SearchStates, BecomeTyped DEF TypeOK
  <2>3. TypeOK' BY <1>1, <2>1, <2>2 DEF TypeOK, Exists
  <2>4. WellFormed(r)' BY <1>1, <1>2, <2>2 DEF WellFormed, Changing, Exists, Job
  <2>5. \A q \in Requests \ {r} : WellFormed(q)'
    BY <1>1, <2>2, WellFormedStays DEF Shape, Formed, Exists
  <2>6. QED BY <2>3, <2>4, <2>5 DEF Shape, Formed
<1>4. CASE Found(r) # {}
  <2>1. PICK b \in Found(r) :
          /\ Become(r, [job[r] EXCEPT !.pc = "clear", !.other = b])
          /\ muddled' = muddled \cup Muddles(r, b)
    BY <1>4 DEF Search
  <2> DEFINE state == [job[r] EXCEPT !.pc = "clear", !.other = b]
  <2>2. b \in Slots \ {job[r].address} BY DEF Found
  <2>3. /\ job' \in [Requests -> Job] /\ job'[r] = state
        /\ \A q \in Requests \ {r} : job'[q] = job[q]
    BY <1>1, <2>1, <2>2, SearchStates, BecomeTyped DEF TypeOK
  <2>4. Muddles(r, b) \subseteq Accounts BY <1>2 DEF Muddles
  <2>5. TypeOK' BY <1>1, <2>1, <2>3, <2>4 DEF TypeOK, Exists
  <2>6. WellFormed(r)' BY <1>1, <1>2, <2>2, <2>3 DEF WellFormed, Changing, Exists, Job
  <2>7. \A q \in Requests \ {r} : WellFormed(q)'
    BY <1>1, <2>3, WellFormedStays DEF Shape, Formed, Exists
  <2>8. QED BY <2>5, <2>6, <2>7 DEF Shape, Formed
<1>5. QED BY <1>3, <1>4

\* A save() keeps the owner of an address.
LEMMA SavedTyped ==
  ASSUME TypeOK, NEW a \in Slots, NEW saved \in [type: Types, default: BOOLEAN],
         Saved(a, saved)
  PROVE  /\ address' \in [Slots -> Address]
         /\ \A b \in Slots : /\ address'[b].owner = address[b].owner
                             /\ address'[b].own = address[b].own
                             /\ b # a => address'[b] = address[b]
         /\ address'[a].type = saved.type /\ address'[a].default = saved.default
BY DEF TypeOK, Saved, Address

\* Of the steps of one request that are left: only its own place changes, and
\* the owners stay.
LEMMA OwnStepShape ==
  ASSUME Shape, NEW r \in Requests, NEW state \in Job, Become(r, state),
         address' \in [Slots -> Address],
         \A b \in Slots : address'[b].owner = address[b].owner,
         UNCHANGED email, muddled' \subseteq Accounts,
         job'[r] = state => WellFormed(r)'
  PROVE  Shape'
<1>1. /\ job' \in [Requests -> Job] /\ job'[r] = state
      /\ \A q \in Requests \ {r} : job'[q] = job[q]
  BY BecomeTyped DEF Shape, TypeOK
<1>2. TypeOK' BY <1>1 DEF Shape, TypeOK, Exists
<1>3. ASSUME NEW q \in Requests \ {r} PROVE WellFormed(q)'
  <2>1. Changing(q) => job[q].address \in Slots BY DEF Shape, Formed, WellFormed
  <2>2. QED BY <1>1, <2>1, WellFormedStays DEF Shape, Formed, Exists
<1>4. QED BY <1>1, <1>2, <1>3 DEF Shape, Formed

LEMMA ClearShape ==
  ASSUME Shape, NEW r \in Requests, Clear(r)
  PROVE  Shape'
<1> DEFINE state == [job[r] EXCEPT !.pc = "save", !.other = None]
           saved == [type |-> job[r].saved.type, default |-> FALSE]
<1>1. TypeOK /\ WellFormed(r) /\ job[r].pc = "clear" BY DEF Shape, Formed, Clear, At
<1>2. job[r] \in Job /\ job[r].other \in Slots /\ job[r].user \in Accounts
  BY <1>1 DEF TypeOK, WellFormed
<1>3. saved \in [type: Types, default: BOOLEAN] /\ state \in Job BY <1>2 DEF Job
<1>4. Saved(job[r].other, saved) /\ Become(r, state) /\ UNCHANGED <<email, muddled>>
  BY DEF Clear
<1>5. /\ address' \in [Slots -> Address]
      /\ \A b \in Slots : address'[b].owner = address[b].owner
  BY <1>1, <1>2, <1>3, <1>4, SavedTyped
<1>6. job'[r] = state => WellFormed(r)'
  BY <1>1, <1>2, <1>4, <1>5 DEF WellFormed, Changing, Exists, Job
<1>7. QED BY <1>1, <1>3, <1>4, <1>5, <1>6, OwnStepShape DEF TypeOK

LEMMA ChangeSavesShape ==
  ASSUME Shape, NEW r \in Requests, ChangeSaves(r)
  PROVE  Shape'
<1>1. TypeOK /\ WellFormed(r) /\ job[r].pc = "save" BY DEF Shape, Formed, ChangeSaves, At
<1>2. /\ job[r] \in Job /\ job[r].address \in Slots
      /\ job[r].saved \in [type: Types, default: BOOLEAN]
  BY <1>1 DEF TypeOK, WellFormed, Changing, Job
<1>3. Saved(job[r].address, job[r].saved) /\ Become(r, Idle) /\ UNCHANGED <<email, muddled>>
  BY DEF ChangeSaves, Finish
<1>4. /\ address' \in [Slots -> Address]
      /\ \A b \in Slots : address'[b].owner = address[b].owner
  BY <1>1, <1>2, <1>3, SavedTyped
<1>5. job'[r] = Idle => WellFormed(r)' BY DEF WellFormed, Changing, Idle
<1>6. QED BY <1>1, <1>3, <1>4, <1>5, IdleTyped, OwnStepShape DEF TypeOK

LEMMA BreaksShape ==
  ASSUME Shape, NEW r \in Requests, Breaks(r)
  PROVE  Shape'
<1>1. Become(r, Idle) /\ UNCHANGED <<email, address>> BY DEF Breaks, Finish
<1>2. muddled' \subseteq Accounts BY DEF Breaks, Shape, TypeOK, Exists
<1>3. job'[r] = Idle => WellFormed(r)' BY DEF WellFormed, Changing, Idle
<1>4. QED BY <1>1, <1>2, <1>3, IdleTyped, OwnStepShape DEF Shape, TypeOK

LEMMA NextShape == Shape /\ [Next]_vars => Shape'
<1> SUFFICES ASSUME Shape, [Next]_vars PROVE Shape' OBVIOUS
<1>1. ASSUME NEW u \in Accounts, NEW t \in Types, AddAddress(u, t) PROVE Shape'
  <2> DEFINE new == [owner |-> u, own |-> TRUE, type |-> t, default |-> AddedDefault]
  <2>1. new \in Address /\ new.owner = u BY DEF Address, AddedDefault
  <2>2. QED BY <1>1, <2>1, AddedShape DEF AddAddress
<1>2. ASSUME NEW u \in Accounts, NEW t \in Types, NEW default \in BOOLEAN,
             PlaceOrder(u, t, default)
      PROVE  Shape'
  <2> DEFINE new == [owner |-> u, own |-> FALSE, type |-> t, default |-> default]
  <2>1. new \in Address /\ new.owner = u BY DEF Address
  <2>2. QED BY <1>2, <2>1, AddedShape DEF PlaceOrder
<1>3. CASE UNCHANGED vars
  BY <1>3 DEF vars, Shape, TypeOK, Exists, Formed, WellFormed, Changing
<1>4. QED
  BY <1>1, <1>2, <1>3, RegisterShape, InsertUserShape, InsertAddressesShape,
     ChangeReadsShape, SearchShape, ClearShape, ChangeSavesShape, BreaksShape,
     UpdateDetailsShape, RemoveShape DEF Next

-----------------------------------------------------------------------------
(* Emails                                                                  *)

LEMMA NextEmails == Shape /\ OneAccountPerEmail /\ [Next]_vars => OneAccountPerEmail'
<1> SUFFICES ASSUME Shape, OneAccountPerEmail, [Next]_vars PROVE OneAccountPerEmail'
  OBVIOUS
<1> USE DEF OneAccountPerEmail, Exists
<1>1. email \in [Accounts -> Emails \cup {Nobody}] BY DEF Shape, TypeOK
<1>2. ASSUME NEW u \in Accounts, NEW e, Unique(e), email' = [email EXCEPT ![u] = e]
      PROVE  OneAccountPerEmail'
  BY <1>1, <1>2 DEF Unique, Taken
<1>3. ASSUME NEW u \in Accounts, Remove(u) PROVE OneAccountPerEmail'
  BY <1>1, <1>3 DEF Remove
<1>4. ASSUME NEW r \in Requests, InsertUser(r) PROVE OneAccountPerEmail'
  BY <1>2, <1>4 DEF InsertUser, NewAccounts
<1>5. ASSUME NEW u \in Accounts, NEW e \in Emails, UpdateDetails(u, e)
      PROVE  OneAccountPerEmail'
  BY <1>2, <1>5 DEF UpdateDetails
<1>6. CASE UNCHANGED email BY <1>6
<1>7. ASSUME NEW r \in Requests,
             \/ \E e \in Emails : Register(r, e)
             \/ InsertAddresses(r) \/ Search(r) \/ Clear(r) \/ ChangeSaves(r) \/ Breaks(r)
             \/ \E u \in Accounts, a \in Slots, t \in Types, d \in {"yes", "no", "unset"} :
                  ChangeReads(r, u, a, t, d)
      PROVE  UNCHANGED email
  BY <1>7 DEF Register, InsertAddresses, ChangeReads, Search, Clear, ChangeSaves, Breaks
<1>8. ASSUME NEW u \in Accounts, NEW t \in Types,
             AddAddress(u, t) \/ \E d \in BOOLEAN : PlaceOrder(u, t, d)
      PROVE  UNCHANGED email
  BY <1>8 DEF AddAddress, PlaceOrder
<1>9. UNCHANGED vars => UNCHANGED email BY DEF vars
<1> HIDE DEF OneAccountPerEmail, Exists
<1>10. QED BY <1>3, <1>4, <1>5, <1>6, <1>7, <1>8, <1>9 DEF Next

-----------------------------------------------------------------------------
(* Defaults                                                                *)

\* A step that leaves alone what account u rests on.
LEMMA SettledStays ==
  ASSUME Shape, Shape', NEW u \in Accounts, Settled(u), Alone(u)', Spared(u)',
         \A q \in Requests : job'[q].user = u \/ job[q].user = u => job'[q] = job[q],
         \A s \in Slots, t \in Types : IsDefault(s, u, t)' <=> IsDefault(s, u, t),
         \A q \in Requests : job[q].user = u /\ Changing(q) =>
           address'[job[q].address] = address[job[q].address],
         \A q \in Requests : job[q].user = u /\ job[q].pc = "clear"
             /\ address'[job[q].other].owner = u /\ address'[job[q].other].own =>
           address[job[q].other].owner = u /\ address[job[q].other].own
  PROVE  Settled(u)'
<1>1. \A t \in Types : One(u, t)' <=> One(u, t) BY DEF One
<1>2. ASSUME NEW q \in Requests, job'[q].user = u PROVE Progress(q, u)'
  <2>1. job'[q] = job[q] /\ job[q].user = u /\ Progress(q, u) /\ job[q] \in Job
    BY <1>2 DEF Settled, Shape, TypeOK
  <2>2. job[q].saved.type \in Types /\ (job[q].pc = "clear" => job[q].other \in Slots)
    BY <2>1 DEF Job, Shape, Formed, WellFormed
  <2>3. Registering(q, u)' BY <2>1 DEF Progress, Registering
  <2>4. Fits(q) /\ Changing(q) => Fits(q)' BY <2>1 DEF Fits
  <2>5. Searching(q, u)' BY <1>1, <2>1, <2>4 DEF Progress, Searching, Changing
  <2>6. Clearing(q, u)' BY <1>1, <2>1, <2>2, <2>4 DEF Progress, Clearing, Changing
  <2>7. Making(q, u)' BY <1>1, <2>1, <2>2, <2>4 DEF Progress, Making, Changing
  <2>8. Keeping(q, u)' BY <1>1, <2>1 DEF Progress, Keeping, Changing
  <2>9. QED BY <2>3, <2>5, <2>6, <2>7, <2>8 DEF Progress
<1>3. (\A q \in Requests : job'[q].user # u) => \A t \in Types : One(u, t)'
  <2>1. (\A q \in Requests : job'[q].user # u) => \A q \in Requests : job[q].user # u
    OBVIOUS
  <2>2. QED BY <1>1, <2>1 DEF Settled
<1>4. QED BY <1>2, <1>3 DEF Settled

\* The address is in the hands of a request.
Held(s) == \E q \in Requests : s \in {job[q].address, job[q].other}

\* The same of a step that is not one of a request of u, and takes none of the
\* addresses of u.
LEMMA OtherStep ==
  ASSUME Shape, Shape', NEW u \in Accounts, Exists(u), Exists(u)', Settled(u), NEW r,
         \A q \in Requests \ {r} : job'[q] = job[q],
         r \in Requests => job[r].user # u /\ job'[r].user # u,
         r \in Requests /\ job'[r].pc = "clear" =>
           job[r].pc = "clear" /\ job'[r].other = job[r].other,
         \A s \in Slots : Held(s) /\ (address'[s].owner = u \/ address[s].owner = u) =>
           address'[s].owner = address[s].owner /\ address'[s].own = address[s].own,
         \A q \in Requests : job[q].user = u /\ Changing(q) =>
           address'[job[q].address] = address[job[q].address],
         \A s \in Slots, t \in Types : IsDefault(s, u, t)' <=> IsDefault(s, u, t)
  PROVE  Settled(u)'
<1>1. u # Nobody BY UsersAssumption
<1>2. ASSUME NEW q \in Requests, u \in Touched(q)' PROVE u \in Touched(q)
  <2>1. job'[q].user = u => job[q].user = u OBVIOUS
  <2>2. CASE job'[q].user = u BY <2>1, <2>2 DEF Touched
  <2>3. CASE job'[q].user # u
    <3>1. job'[q].other # None /\ address'[job'[q].other].owner = u
      BY <1>1, <1>2, <2>3 DEF Touched, Owner
    <3>2. job'[q].pc = "clear" /\ job'[q].other \in Slots
      BY <3>1 DEF Shape, Formed, WellFormed
    <3>3. job[q].other = job'[q].other BY <3>2
    <3>4. address[job[q].other].owner = u BY <3>1, <3>2, <3>3 DEF Held
    <3>5. QED BY <3>1, <3>3, <3>4 DEF Touched, Owner
  <2>4. QED BY <2>2, <2>3
<1>3. Alone(u)' BY <1>2 DEF Settled, Alone
<1>4. Spared(u)'
  <2> SUFFICES ASSUME NEW q \in Requests, job'[q].pc = "clear", job'[q].user # u,
                      address'[job'[q].other].owner = u
               PROVE  ~address'[job'[q].other].own
    BY DEF Spared
  <2>1. job'[q].other \in Slots BY DEF Shape, Formed, WellFormed
  <2>2. job[q].pc = "clear" /\ job[q].other = job'[q].other /\ job[q].user # u OBVIOUS
  <2>3. /\ address'[job[q].other].own = address[job[q].other].own
        /\ address[job[q].other].owner = u
    BY <2>1, <2>2 DEF Held
  <2>4. QED BY <2>2, <2>3 DEF Settled, Spared
<1>5. \A q \in Requests : job'[q].user = u \/ job[q].user = u => job'[q] = job[q]
  OBVIOUS
<1>6. ASSUME NEW q \in Requests, job[q].user = u, job[q].pc = "clear",
             address'[job[q].other].owner = u, address'[job[q].other].own
      PROVE  address[job[q].other].owner = u /\ address[job[q].other].own
  <2>1. job[q].other \in Slots BY <1>6 DEF Shape, Formed, WellFormed
  <2>2. QED BY <1>6, <2>1 DEF Held
<1>7. QED BY <1>3, <1>4, <1>5, <1>6, SettledStays

LEMMA NoneIsNoSlot == None \notin Slots
BY UsersAssumption DEF None, Slots

\* The accounts in the hands of a request, before a step and after it.
LEMMA TouchedMeans ==
  ASSUME Shape, NEW q \in Requests, NEW u \in Accounts
  PROVE  u \in Touched(q) <=>
           \/ job[q].user = u
           \/ /\ job[q].pc = "clear" /\ job[q].other \in Slots
              /\ address[job[q].other].owner = u
BY NoneIsNoSlot, UsersAssumption DEF Shape, Formed, WellFormed, Touched, Owner

LEMMA TouchedMeansThen ==
  ASSUME Shape', NEW q \in Requests, NEW u \in Accounts
  PROVE  u \in Touched(q)' <=>
           \/ job'[q].user = u
           \/ /\ job'[q].pc = "clear" /\ job'[q].other \in Slots
              /\ address'[job'[q].other].owner = u
BY NoneIsNoSlot, UsersAssumption DEF Shape, Formed, WellFormed, Touched, Owner

\* Addresses that stay keep the defaults, and new ones are none to begin with.
LEMMA DefaultsStay ==
  ASSUME UNCHANGED address
  PROVE  \A s, u, t : IsDefault(s, u, t)' <=> IsDefault(s, u, t)
BY DEF IsDefault

LEMMA RegisterSettled ==
  ASSUME Shape, Shape', AllSettled, NEW r \in Requests, NEW e \in Emails, Register(r, e)
  PROVE  AllSettled'
<1> SUFFICES ASSUME NEW u \in Accounts \ muddled', Exists(u)' PROVE Settled(u)'
  BY DEF AllSettled
<1> DEFINE state == [Idle EXCEPT !.pc = "insert", !.email = e]
<1>1. state \in Job BY DEF Idle, Job, Types
<1>2. Become(r, state) /\ UNCHANGED <<email, address, muddled>> BY DEF Register
<1>3. job'[r] = state /\ \A q \in Requests \ {r} : job'[q] = job[q]
  BY <1>1, <1>2, BecomeTyped DEF Shape, TypeOK
<1>4. job'[r].user = Nobody /\ job'[r].pc = "insert" BY <1>3 DEF Idle
<1>5. job[r].user = Nobody BY DEF Register, At, Shape, Formed, WellFormed
<1>6. u # Nobody /\ Exists(u) /\ Settled(u)
  BY <1>2, UsersAssumption DEF Exists, AllSettled
<1>7. QED BY <1>2, <1>3, <1>4, <1>5, <1>6, DefaultsStay, OtherStep

LEMMA InsertUserSettled ==
  ASSUME Shape, Shape', AllSettled, NEW r \in Requests, InsertUser(r)
  PROVE  AllSettled'
<1> SUFFICES ASSUME NEW u \in Accounts \ muddled', Exists(u)' PROVE Settled(u)'
  BY DEF AllSettled
<1>1. PICK v \in NewAccounts :
        /\ email' = [email EXCEPT ![v] = job[r].email]
        /\ Become(r, [Idle EXCEPT !.pc = "addresses", !.user = v])
  BY DEF InsertUser
<1> DEFINE state == [Idle EXCEPT !.pc = "addresses", !.user = v]
<1>2. v \in Accounts /\ ~Exists(v) /\ \A q \in Requests : job[q].user # v
  BY DEF NewAccounts
<1>3. state \in Job BY <1>2 DEF Idle, Job, Types
<1>4. job'[r] = state /\ \A q \in Requests \ {r} : job'[q] = job[q]
  BY <1>1, <1>3, BecomeTyped DEF Shape, TypeOK
<1>5. job'[r].user = v /\ job'[r].pc = "addresses" /\ job'[r].other = None
  BY <1>4 DEF Idle
<1>6. UNCHANGED <<address, muddled>> BY DEF InsertUser
<1>7. u # Nobody BY UsersAssumption
<1>8. CASE u = v
  <2>1. \A s \in Slots : address[s].owner # v
    BY <1>2, <1>7, <1>8 DEF Shape, TypeOK
  <2>2. ASSUME NEW q \in Requests, v \in Touched(q)' PROVE q = r
    BY <1>2, <1>4, <1>6, <2>1, <2>2, TouchedMeansThen
  <2>3. Alone(v)' BY <2>2 DEF Alone
  <2>4. Spared(v)' BY <1>6, <2>1 DEF Spared, Shape, Formed, WellFormed
  <2>5. Progress(r, v)'
    BY <1>5, <1>6, <2>1
    DEF Progress, Registering, Searching, Clearing, Making, Keeping, IsDefault
  <2>6. QED BY <1>2, <1>4, <1>5, <1>8, <2>3, <2>4, <2>5 DEF Settled
<1>9. CASE u # v
  <2>1. Exists(u) /\ Settled(u) BY <1>1, <1>2, <1>6, <1>9 DEF Exists, AllSettled, Shape, TypeOK
  <2>2. job[r].user = Nobody BY DEF InsertUser, At, Shape, Formed, WellFormed
  <2>3. QED BY <1>4, <1>5, <1>6, <1>7, <1>9, <2>1, <2>2, DefaultsStay, OtherStep
<1>10. QED BY <1>8, <1>9

LEMMA InsertAddressesSettled ==
  ASSUME Shape, Shape', AllSettled, NEW r \in Requests, InsertAddresses(r)
  PROVE  AllSettled'
<1> SUFFICES ASSUME NEW u \in Accounts \ muddled', Exists(u)' PROVE Settled(u)'
  BY DEF AllSettled
<1>1. PICK v \in Accounts, a \in NewSlots, b \in NewSlots :
        /\ a # b /\ job[r].user = v /\ Exists(v)
        /\ address' = [address EXCEPT
             ![a] = [owner |-> v, own |-> TRUE, type |-> "billing", default |-> TRUE],
             ![b] = [owner |-> v, own |-> TRUE, type |-> "delivery", default |-> TRUE]]
  BY TwoNewSlots DEF InsertAddresses, Exists
<1>2. job[r].pc = "addresses" BY DEF InsertAddresses, At
<1>3. a \in Slots /\ b \in Slots /\ address[a].owner = Nobody /\ address[b].owner = Nobody
  BY NewSlotsFree DEF Shape
<1>4. ~Held(a) /\ ~Held(b) BY NewSlotsFree DEF Shape, Held
<1>5. /\ address'[a] = [owner |-> v, own |-> TRUE, type |-> "billing", default |-> TRUE]
      /\ address'[b] = [owner |-> v, own |-> TRUE, type |-> "delivery", default |-> TRUE]
      /\ \A s \in Slots \ {a, b} : address'[s] = address[s]
  BY <1>1, <1>3 DEF Shape, TypeOK
<1>6. UNCHANGED <<email, muddled>> /\ Become(r, Idle) BY DEF InsertAddresses, Finish
<1>7. job'[r] = Idle /\ \A q \in Requests \ {r} : job'[q] = job[q]
  BY <1>6, IdleTyped, BecomeTyped DEF Shape, TypeOK
<1>8. job'[r].user = Nobody /\ job'[r].pc = "idle" BY <1>7 DEF Idle
<1>9. Exists(u) /\ Settled(u) /\ u # Nobody
  BY <1>6, UsersAssumption DEF Exists, AllSettled
<1>10. CASE u = v
  <2>1. \A s \in Slots, t \in Types : ~IsDefault(s, u, t)
    BY <1>1, <1>2, <1>9, <1>10 DEF Settled, Progress, Registering
  <2>2. \A s \in Slots \ {a, b}, t \in Types : ~IsDefault(s, u, t)'
    BY <1>5, <2>1 DEF IsDefault
  <2>3. /\ \A t \in Types : IsDefault(a, u, t)' <=> t = "billing"
        /\ \A t \in Types : IsDefault(b, u, t)' <=> t = "delivery"
    BY <1>5, <1>10 DEF IsDefault
  <2>4. One(u, "billing")' /\ One(u, "delivery")'
    BY <1>3, <2>2, <2>3 DEF One, Types
  <2>5. u \in Touched(r) BY <1>1, <1>10, TouchedMeans
  <2>6. ASSUME NEW q \in Requests, u \in Touched(q)' PROVE u \in Touched(q) /\ q # r
    BY <1>4, <1>5, <1>7, <1>8, <1>9, <2>6, TouchedMeans, TouchedMeansThen DEF Held
  <2>7. \A q \in Requests : u \notin Touched(q)' BY <2>5, <2>6, <1>9 DEF Settled, Alone
  <2>8. Alone(u)' BY <2>7 DEF Alone
  <2>9. \A q \in Requests : job'[q].user # u BY <2>7, TouchedMeansThen
  <2>10. Spared(u)'
    BY <2>7, TouchedMeansThen DEF Spared, Shape, Formed, WellFormed
  <2>11. QED BY <2>4, <2>8, <2>9, <2>10 DEF Settled, Types
<1>11. CASE u # v
  <2>1. \A s \in Slots, t \in Types : IsDefault(s, u, t)' <=> IsDefault(s, u, t)
    BY <1>3, <1>5, <1>9, <1>11 DEF IsDefault
  <2>2. \A s \in Slots : Held(s) => address'[s] = address[s] BY <1>4, <1>5
  <2>3. \A q \in Requests : job[q].user = u /\ Changing(q) =>
          address'[job[q].address] = address[job[q].address]
    BY <2>2 DEF Held, Shape, Formed, WellFormed
  <2>4. job[r].user # u BY <1>1, <1>11
  <2>5. QED BY <1>7, <1>8, <1>9, <2>1, <2>2, <2>3, <2>4, OtherStep
<1>12. QED BY <1>10, <1>11

LEMMA ChangeReadsSettled ==
  ASSUME Shape, Shape', AllSettled, NEW r \in Requests, NEW v \in Accounts, NEW a \in Slots,
         NEW t \in Types, NEW d \in {"yes", "no", "unset"}, ChangeReads(r, v, a, t, d)
  PROVE  AllSettled'
<1> SUFFICES ASSUME NEW u \in Accounts \ muddled', Exists(u)' PROVE Settled(u)'
  BY DEF AllSettled
<1> DEFINE default == IF d = "unset" THEN address[a].default ELSE d = "yes"
           left == address[a].own /\ address[a].default /\ ~(default /\ t = address[a].type)
<1>1. /\ job[r].pc = "idle" /\ address[a].owner = v /\ Exists(v)
      /\ Become(r, Begun(v, a, t, d))
      /\ muddled' = IF left \/ Meets(r, v) THEN muddled \cup {v} ELSE muddled
      /\ UNCHANGED <<email, address>>
  BY DEF ChangeReads, Begun, At
<1>2. TypeOK /\ Begun(v, a, t, d) \in Job BY BegunTyped DEF Shape
<1>3. job'[r] = Begun(v, a, t, d) /\ \A q \in Requests \ {r} : job'[q] = job[q]
  BY <1>1, <1>2, BecomeTyped DEF TypeOK
<1>4. /\ job'[r].user = v /\ job'[r].address = a /\ job'[r].makes = (d = "yes")
      /\ job'[r].saved.type = t /\ job'[r].saved.default = default
      /\ job'[r].pc = IF d = "yes" THEN "search" ELSE "save"
  BY <1>2, <1>3, BegunTyped
<1>5. job[r].user = Nobody BY <1>1 DEF Shape, Formed, WellFormed
<1>6. Exists(u) /\ Settled(u) /\ u # Nobody
  BY <1>1, UsersAssumption DEF Exists, AllSettled
<1>7. CASE u = v
  <2>1. ~left /\ ~Meets(r, v) BY <1>1, <1>7
  <2>2. \A q \in Requests \ {r} : u \notin Touched(q) BY <1>7, <2>1 DEF Meets
  <2>3. \A q \in Requests \ {r} : u \notin Touched(q)'
    BY <1>1, <1>3, <2>2, TouchedMeans, TouchedMeansThen
  <2>4. Alone(u)' BY <2>3 DEF Alone
  <2>5. \A q \in Requests \ {r} : job'[q].user # u /\ job[q].user # u
    BY <2>2, <2>3, TouchedMeans, TouchedMeansThen
  <2>6. Spared(u)'
    BY <1>4, <1>7, <2>3, TouchedMeansThen DEF Spared, Shape, Formed, WellFormed
  <2>7. \A type \in Types : One(u, type)'
    BY <1>1, <1>5, <1>6, <2>5 DEF Settled, One, IsDefault
  <2>8. address[a] \in Address BY <1>2 DEF TypeOK
  <2>9. Progress(r, u)'
    <3>1. Registering(r, u)' BY <1>4 DEF Registering
    <3>2. Searching(r, u)' BY <1>1, <1>4, <2>1, <2>7 DEF Searching, Fits
    <3>3. Clearing(r, u)' BY <1>4 DEF Clearing
    <3>4. Making(r, u)' BY <1>4 DEF Making
    <3>5. Keeping(r, u)' BY <1>1, <1>4, <2>1, <2>7, <2>8 DEF Keeping, Address
    <3>6. QED BY <3>1, <3>2, <3>3, <3>4, <3>5 DEF Progress
  <2>10. QED BY <1>4, <1>7, <2>4, <2>5, <2>6, <2>9 DEF Settled
<1>8. CASE u # v
  BY <1>1, <1>3, <1>4, <1>5, <1>6, <1>8, DefaultsStay, OtherStep
<1>9. QED BY <1>7, <1>8

LEMMA SearchSettled ==
  ASSUME Shape, Shape', AllSettled, NEW r \in Requests, Search(r)
  PROVE  AllSettled'
<1> SUFFICES ASSUME NEW u \in Accounts \ muddled', Exists(u)' PROVE Settled(u)'
  BY DEF AllSettled
<1>1. /\ job[r].pc = "search" /\ job[r] \in Job /\ WellFormed(r)
      /\ UNCHANGED <<email, address>>
  BY DEF Search, At, Shape, TypeOK, Formed
<1>2. muddled \subseteq muddled' BY DEF Search
<1>3. Exists(u) /\ Settled(u) /\ u # Nobody
  BY <1>1, <1>2, UsersAssumption DEF Exists, AllSettled
<1>4. PICK v \in Accounts, a \in Slots, t \in Types :
        /\ job[r].user = v /\ job[r].address = a /\ job[r].saved.type = t
        /\ job[r].makes
        /\ address[a].owner = IF Exists(v) THEN v ELSE Nobody
  BY <1>1 DEF WellFormed, Changing, Job
<1>5. \A type \in Types : One(u, type) <=> One(u, type)' BY <1>1 DEF One, IsDefault
<1>6. CASE Found(r) = {}
  <2> DEFINE state == [job[r] EXCEPT !.pc = "save"]
  <2>1. Become(r, state) BY <1>6 DEF Search
  <2>2. state \in Job BY SearchStates DEF Shape
  <2>3. job'[r] = state /\ \A q \in Requests \ {r} : job'[q] = job[q]
    BY <2>1, <2>2, BecomeTyped DEF Shape, TypeOK
  <2>4. /\ job'[r].user = v /\ job'[r].address = a /\ job'[r].saved.type = t
        /\ job'[r].makes /\ job'[r].pc = "save"
    BY <1>1, <1>4, <2>3 DEF Job
  <2>5. CASE u = v
    <3>1. u \in Touched(r) BY <1>4, <2>5, TouchedMeans
    <3>2. \A q \in Requests \ {r} : u \notin Touched(q) BY <1>3, <3>1 DEF Settled, Alone
    <3>3. \A q \in Requests \ {r} : u \notin Touched(q)'
      BY <1>1, <2>3, <3>2, TouchedMeans, TouchedMeansThen
    <3>4. Alone(u)' BY <3>3 DEF Alone
    <3>5. Spared(u)'
      BY <2>4, <2>5, <3>3, TouchedMeansThen DEF Spared, Shape, Formed, WellFormed
    <3>6. \A q \in Requests \ {r} : job'[q].user # u BY <3>3, TouchedMeansThen
    <3>7. Fits(r) /\ \A type \in Types : One(u, type)
      BY <1>1, <1>3, <1>4, <2>5 DEF Settled, Progress, Searching
    <3>8. \A c \in Slots : IsDefault(c, u, t) => c = a
      BY <1>3, <1>4, <1>6 DEF IsDefault, Found
    <3>9. address[a].own BY <3>7, <3>8 DEF One, IsDefault
    <3>10. Fits(r)' BY <1>1, <1>4, <2>4, <3>7 DEF Fits
    <3>11. Progress(r, u)'
      BY <1>1, <1>5, <2>4, <3>7, <3>8, <3>9, <3>10
      DEF Progress, Registering, Searching, Clearing, Making, Keeping, IsDefault
    <3>12. QED BY <2>4, <2>5, <3>4, <3>5, <3>6, <3>11 DEF Settled
  <2>6. CASE u # v
    BY <1>1, <1>3, <1>4, <2>3, <2>4, <2>6, DefaultsStay, OtherStep
  <2>7. QED BY <2>5, <2>6
<1>7. CASE Found(r) # {}
  <2>1. PICK b \in Found(r) :
          /\ Become(r, [job[r] EXCEPT !.pc = "clear", !.other = b])
          /\ muddled' = muddled \cup Muddles(r, b)
    BY <1>7 DEF Search
  <2> DEFINE state == [job[r] EXCEPT !.pc = "clear", !.other = b]
  <2>2. /\ b \in Slots \ {a} /\ address[b].owner # Nobody
        /\ address[b].default /\ address[b].type = t
    BY <1>4 DEF Found
  <2>3. state \in Job BY <2>2, SearchStates DEF Shape
  <2>4. job'[r] = state /\ \A q \in Requests \ {r} : job'[q] = job[q]
    BY <2>1, <2>3, BecomeTyped DEF Shape, TypeOK
  <2>5. /\ job'[r].user = v /\ job'[r].address = a /\ job'[r].saved.type = t
        /\ job'[r].makes /\ job'[r].pc = "clear" /\ job'[r].other = b
    BY <1>1, <1>4, <2>4 DEF Job
  <2>6. Owner(b) = address[b].owner BY <2>2, NoneIsNoSlot DEF Owner
  <2>7. u \notin Muddles(r, b) BY <2>1
  <2>8. u = v => Defaults(u, t) \subseteq {a, b} BY <1>4, <2>7 DEF Muddles
  <2>9. u = address[b].owner =>
          /\ ~(address[b].own /\ (u # v \/ ~address[a].own))
          /\ ~Meets(r, u)
    BY <1>4, <2>6, <2>7 DEF Muddles
  <2>10. u = v \/ u = address[b].owner => \A q \in Requests \ {r} : u \notin Touched(q)
    <3>1. CASE u = v BY <1>3, <1>4, <3>1, TouchedMeans DEF Settled, Alone
    <3>2. CASE u = address[b].owner BY <2>9, <3>2 DEF Meets
    <3>3. QED BY <3>1, <3>2
  <2>11. \A q \in Requests \ {r} : u \in Touched(q)' <=> u \in Touched(q)
    BY <1>1, <2>4, TouchedMeans, TouchedMeansThen
  <2>12. u \in Touched(r)' => u = v \/ u = address[b].owner
    BY <1>1, <2>5, TouchedMeansThen
  <2>13. Alone(u)' BY <1>3, <2>10, <2>11, <2>12 DEF Settled, Alone
  <2>14. Spared(u)'
    <3> SUFFICES ASSUME NEW q \in Requests, job'[q].pc = "clear", job'[q].user # u,
                        address'[job'[q].other].owner = u
                 PROVE  ~address'[job'[q].other].own
      BY DEF Spared
    <3>1. CASE q = r BY <1>1, <2>5, <2>9, <3>1
    <3>2. CASE q # r BY <1>1, <1>3, <2>4, <3>2 DEF Settled, Spared
    <3>3. QED BY <3>1, <3>2
  <2>15. CASE u = v
    <3>1. \A q \in Requests \ {r} : job'[q].user # u
      BY <2>10, <2>11, <2>15, TouchedMeansThen
    <3>2. Fits(r) /\ \A type \in Types : One(u, type)
      BY <1>1, <1>3, <1>4, <2>15 DEF Settled, Progress, Searching
    <3>3. Fits(r)' BY <1>1, <1>4, <2>5, <3>2 DEF Fits
    <3>4. \A c \in Slots : IsDefault(c, u, t) => c \in {a, b}
      BY <2>8, <2>15 DEF IsDefault, Defaults
    <3>5. address[b].owner = u /\ address[b].own => address[a].own /\ IsDefault(b, u, t)
      BY <2>2, <2>9, <2>15 DEF IsDefault
    <3>6. Clearing(r, u)'
      BY <1>1, <1>5, <2>5, <3>2, <3>3, <3>4, <3>5 DEF Clearing, IsDefault
    <3>7. Progress(r, u)'
      BY <2>5, <3>6 DEF Progress, Registering, Searching, Making, Keeping
    <3>8. QED BY <2>5, <2>13, <2>14, <2>15, <3>1, <3>7 DEF Settled
  <2>16. CASE u # v
    <3>1. \A q \in Requests : job'[q].user = u \/ job[q].user = u => job'[q] = job[q]
      BY <1>4, <2>4, <2>5, <2>16
    <3>2. QED BY <1>1, <1>3, <2>13, <2>14, <3>1, DefaultsStay, SettledStays
  <2>17. QED BY <2>15, <2>16
<1>8. QED BY <1>6, <1>7

LEMMA ClearSettled ==
  ASSUME Shape, Shape', AllSettled, NEW r \in Requests, Clear(r)
  PROVE  AllSettled'
<1> SUFFICES ASSUME NEW u \in Accounts \ muddled', Exists(u)' PROVE Settled(u)'
  BY DEF AllSettled
<1> DEFINE state == [job[r] EXCEPT !.pc = "save", !.other = None]
<1>1. /\ job[r].pc = "clear" /\ job[r] \in Job /\ WellFormed(r) /\ TypeOK
      /\ UNCHANGED <<email, muddled>> /\ Become(r, state)
  BY DEF Clear, At, Shape, TypeOK, Formed
<1>2. Exists(u) /\ Settled(u) /\ u # Nobody
  BY <1>1, UsersAssumption DEF Exists, AllSettled
<1>3. PICK v \in Accounts, a \in Slots, b \in Slots, t \in Types :
        /\ a # b /\ job[r].user = v /\ job[r].address = a /\ job[r].other = b
        /\ job[r].saved.type = t /\ job[r].makes
        /\ address[a].owner = IF Exists(v) THEN v ELSE Nobody
  BY <1>1 DEF WellFormed, Changing, Job
<1>4. state \in Job BY <1>1 DEF Job
<1>5. job'[r] = state /\ \A q \in Requests \ {r} : job'[q] = job[q]
  BY <1>1, <1>4, BecomeTyped DEF TypeOK
<1>6. /\ job'[r].user = v /\ job'[r].address = a /\ job'[r].saved.type = t
      /\ job'[r].makes /\ job'[r].pc = "save"
  BY <1>1, <1>3, <1>5 DEF Job
<1> DEFINE saved == [type |-> t, default |-> FALSE]
<1>7. Saved(b, saved) BY <1>3 DEF Clear
<1>8. saved \in [type: Types, default: BOOLEAN] OBVIOUS
<1>9. /\ \A s \in Slots : /\ address'[s].owner = address[s].owner
                          /\ address'[s].own = address[s].own
                          /\ s # b => address'[s] = address[s]
      /\ address'[b].type = t /\ address'[b].default = FALSE
  BY <1>1, <1>7, <1>8, SavedTyped
<1>10. \A q \in Requests \ {r} : u \in Touched(q)' <=> u \in Touched(q)
  BY <1>5, <1>9, TouchedMeans, TouchedMeansThen
<1>11. CASE u = v
  <2>1. u \in Touched(r) BY <1>3, <1>11, TouchedMeans
  <2>2. \A q \in Requests \ {r} : u \notin Touched(q) /\ u \notin Touched(q)'
    BY <1>2, <1>10, <2>1 DEF Settled, Alone
  <2>3. Alone(u)' BY <2>2 DEF Alone
  <2>4. Spared(u)'
    BY <1>6, <1>11, <2>2, TouchedMeansThen DEF Spared, Shape, Formed, WellFormed
  <2>5. \A q \in Requests \ {r} : job'[q].user # u BY <2>2, TouchedMeansThen
  <2>6. /\ Fits(r) /\ \A type \in Types : One(u, type)
        /\ \A c \in Slots : IsDefault(c, u, t) => c \in {a, b}
        /\ address[b].owner = u /\ address[b].own => address[a].own /\ IsDefault(b, u, t)
    BY <1>1, <1>2, <1>3, <1>11 DEF Settled, Progress, Clearing
  <2>7. Fits(r)' BY <1>3, <1>6, <1>9, <2>6 DEF Fits
  <2>8. /\ ~IsDefault(b, u, t)'
        /\ \A c \in Slots \ {b}, type \in Types : IsDefault(c, u, type)' <=> IsDefault(c, u, type)
        /\ \A type \in Types \ {t} : ~IsDefault(b, u, type)' /\ ~IsDefault(b, u, type)
    BY <1>9, <2>6 DEF IsDefault
  <2>9. \A c \in Slots : IsDefault(c, u, t)' => c = a BY <2>6, <2>8
  <2>10. \A type \in Types \ {t} : One(u, type)' BY <2>6, <2>8 DEF One
  <2>11. address[a].own BY <2>6 DEF One, IsDefault
  <2>12. Making(r, u)' BY <1>6, <1>9, <2>7, <2>9, <2>10, <2>11 DEF Making, IsDefault
  <2>13. Progress(r, u)'
    BY <1>6, <2>12 DEF Progress, Registering, Searching, Clearing, Keeping
  <2>14. QED BY <1>6, <1>11, <2>3, <2>4, <2>5, <2>13 DEF Settled
<1>12. CASE u # v
  <2>1. address[b].owner = u => ~address[b].own
    BY <1>1, <1>2, <1>3, <1>12 DEF Settled, Spared
  <2>2. \A s \in Slots, type \in Types : IsDefault(s, u, type)' <=> IsDefault(s, u, type)
    BY <1>9, <2>1 DEF IsDefault
  <2>3. ASSUME NEW q \in Requests, job[q].user = u, Changing(q)
        PROVE  address'[job[q].address] = address[job[q].address]
    <3>1. job[q].address \in Slots /\ address[job[q].address].owner = u
      BY <1>2, <2>3 DEF Shape, Formed, WellFormed
    <3>2. ASSUME job[q].address = b PROVE FALSE
      <4>1. u \in Touched(r) BY <1>1, <1>3, <3>1, <3>2, TouchedMeans
      <4>2. u \in Touched(q) BY <2>3, TouchedMeans
      <4>3. QED BY <1>2, <1>3, <1>12, <2>3, <4>1, <4>2 DEF Settled, Alone
    <3>3. QED BY <1>9, <3>1, <3>2
  <2>4. QED BY <1>2, <1>3, <1>5, <1>6, <1>9, <1>12, <2>2, <2>3, OtherStep
<1>13. QED BY <1>11, <1>12

LEMMA ChangeSavesSettled ==
  ASSUME Shape, Shape', AllSettled, NEW r \in Requests, ChangeSaves(r)
  PROVE  AllSettled'
<1> SUFFICES ASSUME NEW u \in Accounts \ muddled', Exists(u)' PROVE Settled(u)'
  BY DEF AllSettled
<1>1. /\ job[r].pc = "save" /\ job[r] \in Job /\ WellFormed(r) /\ TypeOK
      /\ UNCHANGED <<email, muddled>> /\ Become(r, Idle)
  BY DEF ChangeSaves, At, Finish, Shape, TypeOK, Formed
<1>2. Exists(u) /\ Settled(u) /\ u # Nobody
  BY <1>1, UsersAssumption DEF Exists, AllSettled
<1>3. PICK v \in Accounts, a \in Slots, saved \in [type: Types, default: BOOLEAN] :
        /\ job[r].user = v /\ job[r].address = a /\ job[r].saved = saved
        /\ address[a].owner = IF Exists(v) THEN v ELSE Nobody
        /\ job[r].makes => saved.default
  BY <1>1 DEF WellFormed, Changing, Job
<1>4. job'[r] = Idle /\ \A q \in Requests \ {r} : job'[q] = job[q]
  BY <1>1, IdleTyped, BecomeTyped DEF TypeOK
<1>5. job'[r].user = Nobody /\ job'[r].pc = "idle" BY <1>4 DEF Idle
<1>6. Saved(a, saved) BY <1>3 DEF ChangeSaves
<1>7. /\ \A s \in Slots : /\ address'[s].owner = address[s].owner
                          /\ address'[s].own = address[s].own
                          /\ s # a => address'[s] = address[s]
      /\ address'[a].type = saved.type /\ address'[a].default = saved.default
  BY <1>1, <1>6, SavedTyped
<1>8. address[a].owner = v BY <1>3, <1>6 DEF Saved
<1>9. CASE u = v
  <2>1. u \in Touched(r) BY <1>3, <1>9, TouchedMeans
  <2>2. \A q \in Requests \ {r} : u \notin Touched(q) BY <1>2, <2>1 DEF Settled, Alone
  <2>3. \A q \in Requests : u \notin Touched(q)'
    BY <1>2, <1>4, <1>5, <1>7, <2>2, TouchedMeans, TouchedMeansThen
  <2>4. Alone(u)' BY <2>3 DEF Alone
  <2>5. Spared(u)' BY <2>3, TouchedMeansThen DEF Spared, Shape, Formed, WellFormed
  <2>6. \A q \in Requests : job'[q].user # u BY <2>3, TouchedMeansThen
  <2>7. Making(r, u) /\ Keeping(r, u) BY <1>2, <1>3, <1>9 DEF Settled, Progress
  <2>8. \A c \in Slots \ {a}, type \in Types : IsDefault(c, u, type)' <=> IsDefault(c, u, type)
    BY <1>7 DEF IsDefault
  <2>9. \A type \in Types : One(u, type)'
    <3>1. CASE job[r].makes
      <4>1. /\ Fits(r) /\ address[a].own
            /\ \A c \in Slots : IsDefault(c, u, saved.type) => c = a
            /\ \A type \in Types \ {saved.type} : One(u, type)
        BY <1>1, <1>3, <2>7, <3>1 DEF Making
      <4>2. IsDefault(a, u, saved.type)' BY <1>3, <1>7, <1>8, <1>9, <3>1, <4>1 DEF IsDefault
      <4>3. One(u, saved.type)' BY <2>8, <4>1, <4>2 DEF One
      <4>4. \A type \in Types \ {saved.type} :
              ~IsDefault(a, u, type)' /\ ~IsDefault(a, u, type)
        BY <1>3, <1>7, <4>1 DEF IsDefault, Fits
      <4>5. \A type \in Types \ {saved.type} : One(u, type)' BY <2>8, <4>1, <4>4 DEF One
      <4>6. QED BY <4>3, <4>5
    <3>2. CASE ~job[r].makes
      <4>1. /\ \A type \in Types : One(u, type)
            /\ address[a].own =>
                 /\ saved.default = address[a].default
                 /\ address[a].default => saved.type = address[a].type
        BY <1>1, <1>3, <2>7, <3>2 DEF Keeping
      <4>2. \A type \in Types : IsDefault(a, u, type)' <=> IsDefault(a, u, type)
        BY <1>7, <4>1 DEF IsDefault
      <4>3. QED BY <2>8, <4>1, <4>2 DEF One
    <3>3. QED BY <3>1, <3>2
  <2>10. QED BY <2>4, <2>5, <2>6, <2>9 DEF Settled
<1>10. CASE u # v
  <2>1. \A s \in Slots, type \in Types : IsDefault(s, u, type)' <=> IsDefault(s, u, type)
    BY <1>7, <1>8, <1>10 DEF IsDefault
  <2>2. \A q \in Requests : job[q].user = u /\ Changing(q) =>
          address'[job[q].address] = address[job[q].address]
    BY <1>2, <1>7, <1>8, <1>10 DEF Shape, Formed, WellFormed
  <2>3. QED BY <1>2, <1>3, <1>4, <1>5, <1>7, <1>10, <2>1, <2>2, OtherStep
<1>11. QED BY <1>9, <1>10

LEMMA BreaksSettled ==
  ASSUME Shape, Shape', AllSettled, NEW r \in Requests, Breaks(r)
  PROVE  AllSettled'
<1> SUFFICES ASSUME NEW u \in Accounts \ muddled', Exists(u)' PROVE Settled(u)'
  BY DEF AllSettled
<1>1. /\ job[r].pc # "idle" /\ job[r] \in Job /\ WellFormed(r) /\ TypeOK
      /\ muddled' = IF Exists(job[r].user)
                         /\ (job[r].pc = "addresses" \/ (job[r].pc = "save" /\ job[r].makes))
                    THEN muddled \cup {job[r].user} ELSE muddled
      /\ UNCHANGED <<email, address>> /\ Become(r, Idle)
  BY DEF Breaks, At, Finish, Shape, TypeOK, Formed
<1>2. Exists(u) /\ Settled(u) /\ u # Nobody
  BY <1>1, UsersAssumption DEF Exists, AllSettled
<1>3. job'[r] = Idle /\ \A q \in Requests \ {r} : job'[q] = job[q]
  BY <1>1, IdleTyped, BecomeTyped DEF TypeOK
<1>4. job'[r].user = Nobody /\ job'[r].pc = "idle" BY <1>3 DEF Idle
<1>5. CASE job[r].user = u
  <2>1. ~(job[r].pc = "addresses" \/ (job[r].pc = "save" /\ job[r].makes))
    BY <1>1, <1>2, <1>5
  <2>2. job[r].pc \in {"search", "clear", "save"}
    BY <1>1, <1>2, <1>5, <2>1 DEF Job, WellFormed
  <2>3. Progress(r, u) BY <1>2, <1>5 DEF Settled
  <2>4. \A type \in Types : One(u, type)
    BY <2>1, <2>2, <2>3 DEF Progress, Searching, Clearing, Keeping
  <2>5. \A type \in Types : One(u, type)' BY <1>1, <2>4 DEF One, IsDefault
  <2>6. u \in Touched(r) BY <1>5, TouchedMeans
  <2>7. \A q \in Requests \ {r} : u \notin Touched(q) BY <1>2, <2>6 DEF Settled, Alone
  <2>8. \A q \in Requests : u \notin Touched(q)'
    BY <1>1, <1>2, <1>3, <1>4, <2>7, TouchedMeans, TouchedMeansThen
  <2>9. Alone(u)' BY <2>8 DEF Alone
  <2>10. Spared(u)' BY <2>8, TouchedMeansThen DEF Spared, Shape, Formed, WellFormed
  <2>11. \A q \in Requests : job'[q].user # u BY <2>8, TouchedMeansThen
  <2>12. QED BY <2>5, <2>9, <2>10, <2>11 DEF Settled
<1>6. CASE job[r].user # u
  BY <1>1, <1>2, <1>3, <1>4, <1>6, DefaultsStay, OtherStep
<1>7. QED BY <1>5, <1>6

LEMMA UpdateDetailsSettled ==
  ASSUME Shape, Shape', AllSettled, NEW v \in Accounts, NEW e \in Emails, UpdateDetails(v, e)
  PROVE  AllSettled'
<1> SUFFICES ASSUME NEW u \in Accounts \ muddled', Exists(u)' PROVE Settled(u)'
  BY DEF AllSettled
<1>1. UNCHANGED <<address, job, muddled>> /\ email' = [email EXCEPT ![v] = e] /\ Exists(v)
  BY DEF UpdateDetails
<1>2. Exists(u) /\ Settled(u)
  BY <1>1 DEF Exists, AllSettled, Shape, TypeOK
<1>3. QED
  BY <1>1, <1>2
  DEF Settled, Alone, Spared, Touched, Owner, Progress, Registering, Searching, Clearing,
      Making, Keeping, Fits, One, IsDefault

LEMMA RemoveSettled ==
  ASSUME Shape, Shape', AllSettled, NEW v \in Accounts, Remove(v)
  PROVE  AllSettled'
<1> SUFFICES ASSUME NEW u \in Accounts \ muddled', Exists(u)' PROVE Settled(u)'
  BY DEF AllSettled
<1>1. /\ UNCHANGED job /\ muddled' = muddled \ {v}
      /\ email' = [email EXCEPT ![v] = Nobody]
      /\ address' = Cascaded(v)
  BY DEF Remove
<1>2. u # v /\ Exists(u) /\ Settled(u) /\ u # Nobody
  BY <1>1, UsersAssumption DEF Exists, AllSettled, Shape, TypeOK
<1>3. \A s \in Slots : IF address[s].owner = v THEN address'[s] = NoAddress
                       ELSE address'[s] = address[s]
  BY <1>1 DEF Cascaded
<1>4. \A s \in Slots : address'[s].owner = u \/ address[s].owner = u =>
        address'[s] = address[s]
  BY <1>2, <1>3 DEF NoAddress
<1>5. \A s \in Slots, type \in Types : IsDefault(s, u, type)' <=> IsDefault(s, u, type)
  BY <1>4 DEF IsDefault
<1>6. \A q \in Requests : job[q].user = u /\ Changing(q) =>
        address'[job[q].address] = address[job[q].address]
  BY <1>2, <1>4 DEF Shape, Formed, WellFormed
<1>7. PICK r : r \notin Requests BY NoSetContainsEverything, Zenon
<1>9. QED BY <1>1, <1>2, <1>4, <1>5, <1>6, <1>7, OtherStep

LEMMA AddedSettled ==
  ASSUME Shape, Shape', AllSettled, NEW v \in Accounts, NEW new \in Address,
         new.owner = v, ~(new.own /\ new.default),
         NewSlots # {}, address' = [address EXCEPT ![Min(NewSlots)] = new],
         UNCHANGED <<email, job, muddled>>
  PROVE  AllSettled'
<1> SUFFICES ASSUME NEW u \in Accounts \ muddled', Exists(u)' PROVE Settled(u)'
  BY DEF AllSettled
<1>1. PICK a \in NewSlots : address' = [address EXCEPT ![a] = new]
  BY MinInSet, NewSlotsNatural
<1>2. a \in Slots /\ address[a].owner = Nobody /\ ~Held(a)
  BY DEF NewSlots, Held
<1>3. address'[a] = new /\ \A s \in Slots \ {a} : address'[s] = address[s]
  BY <1>1, <1>2 DEF Shape, TypeOK
<1>4. Exists(u) /\ Settled(u) /\ u # Nobody BY UsersAssumption DEF Exists, AllSettled
<1>5. \A s \in Slots, type \in Types : IsDefault(s, u, type)' <=> IsDefault(s, u, type)
  BY <1>2, <1>3, <1>4 DEF IsDefault
<1>6. \A s \in Slots : Held(s) => address'[s] = address[s] BY <1>2, <1>3
<1>7. \A q \in Requests : job[q].user = u /\ Changing(q) =>
        address'[job[q].address] = address[job[q].address]
  BY <1>6 DEF Held, Shape, Formed, WellFormed
<1>8. PICK r : r \notin Requests BY NoSetContainsEverything, Zenon
<1>9. QED BY <1>4, <1>5, <1>6, <1>7, <1>8, OtherStep

LEMMA NextSettled == Shape /\ Shape' /\ AllSettled /\ [Next]_vars => AllSettled'
<1> SUFFICES ASSUME Shape, Shape', AllSettled, [Next]_vars PROVE AllSettled' OBVIOUS
<1>1. ASSUME NEW u \in Accounts, NEW t \in Types, AddAddress(u, t) PROVE AllSettled'
  <2> DEFINE new == [owner |-> u, own |-> TRUE, type |-> t, default |-> AddedDefault]
  <2>1. new \in Address /\ new.owner = u /\ ~(new.own /\ new.default)
    BY DEF Address, AddedDefault
  <2>2. QED BY <1>1, <2>1, AddedSettled DEF AddAddress
<1>2. ASSUME NEW u \in Accounts, NEW t \in Types, NEW default \in BOOLEAN,
             PlaceOrder(u, t, default)
      PROVE  AllSettled'
  <2> DEFINE new == [owner |-> u, own |-> FALSE, type |-> t, default |-> default]
  <2>1. new \in Address /\ new.owner = u /\ ~(new.own /\ new.default) BY DEF Address
  <2>2. QED BY <1>2, <2>1, AddedSettled DEF PlaceOrder
<1>3. CASE UNCHANGED vars
  BY <1>3
  DEF vars, AllSettled, Exists, Settled, Alone, Spared, Touched, Owner, Progress,
      Registering, Searching, Clearing, Making, Keeping, Fits, One, IsDefault
<1>4. QED
  BY <1>1, <1>2, <1>3, RegisterSettled, InsertUserSettled, InsertAddressesSettled,
     ChangeReadsSettled, SearchSettled, ClearSettled, ChangeSavesSettled, BreaksSettled,
     UpdateDetailsSettled, RemoveSettled DEF Next

-----------------------------------------------------------------------------
(* The theorems                                                            *)

\* The invariant holds of every account, with any number of requests in flight.
THEOREM AlwaysIInv == Spec => []IInv
<1>1. Init => IInv
  <2> SUFFICES ASSUME Init PROVE IInv OBVIOUS
  <2>1. \A u \in Accounts : ~Exists(u) BY DEF Init, Exists
  <2>2. QED BY <2>1, InitShape DEF IInv, Shape, OneAccountPerEmail, AllSettled
<1>2. IInv /\ [Next]_vars => IInv'
  BY NextShape, NextEmails, NextSettled DEF IInv, Shape
<1>3. QED BY <1>1, <1>2, PTL DEF Spec

\* Every variable has its type, and no address outlives its account.
THEOREM TypeCorrect == Spec => []TypeOK
BY AlwaysIInv, PTL DEF IInv

\* No two accounts ever have one email, however registrations and changes of
\* details overlap.
THEOREM EmailsStayUnique == Spec => []OneAccountPerEmail
BY AlwaysIInv, PTL DEF IInv

\* An account nobody has muddled has one default address of either type, outside
\* its registration and the last steps of its own change.
THEOREM DefaultsStaySingle == Spec => []OneDefaultPerType
<1>1. IInv => OneDefaultPerType
  <2> SUFFICES ASSUME IInv, NEW u \in Accounts \ muddled, Exists(u),
                      \A r \in Requests : job[r].user # u \/ At(r, "search"),
                      NEW t \in Types
               PROVE  Cardinality(Defaults(u, t)) = 1
    BY DEF OneDefaultPerType
  <2>1. Settled(u) BY DEF IInv, AllSettled
  <2>2. One(u, t) BY <2>1 DEF Settled, Progress, Searching, At
  <2>3. PICK a \in Slots : Defaults(u, t) = {a} BY <2>2 DEF One, IsDefault, Defaults
  <2>4. QED BY <2>3, FS_Singleton
<1>2. QED BY <1>1, AlwaysIInv, PTL
=============================================================================
