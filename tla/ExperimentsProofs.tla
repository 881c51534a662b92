------------------------- MODULE ExperimentsProofs --------------------------
(***************************************************************************)
(* Proofs about Experiments, for every finite set of accounts and every    *)
(* number of commands, failures, crashes and late calls.                   *)
(*                                                                         *)
(* The invariant has three layers.  The data: the tables belong together,  *)
(* a call given up cannot do harm whenever it is served (CallSound), and   *)
(* the TOTP secrets on disk are those of the database as soon as a check   *)
(* could accept it (SecretsFollow).  The commands: what each relies on at  *)
(* each of its steps (ProvisionSound, E2Sound, BurstSound, E3Sound).  The  *)
(* end: what a command has established when it completes (EndSound); that  *)
(* lasts until the next command because no call under way can change a     *)
(* credential by then (Quiet).                                             *)
(*                                                                         *)
(* First come lemmas about stores and served calls, then one lemma for     *)
(* each action, then the theorems.                                         *)
(***************************************************************************)
EXTENDS Experiments, FiniteSetTheorems, TLAPS

-----------------------------------------------------------------------------
(* The data                                                                *)

\* The challenge that a late confirmation answers is still offered.
Live(r) == r.account \in DOMAIN db.offered /\ db.offered[r.account] = r.key

\* Tables that belong together; WebAuthn comes after all of TOTP.
DatabaseSound(d) ==
  /\ d.epoch = NoEpoch => d.users = {}
  /\ d.enrolled \subseteq d.users
  /\ DOMAIN d.offered \subseteq d.users \ d.enrolled
  /\ d.logins \subseteq d.enrolled
  /\ DOMAIN d.secret = d.enrolled \cap Totp
  /\ DOMAIN d.credential \subseteq d.enrolled \cap WebAuthn
  /\ (DOMAIN d.offered \union d.enrolled) \cap WebAuthn # {} => Totp \subseteq d.enrolled

KeptSound ==
  /\ DatabaseSound(db)
  /\ dump # Absent => DatabaseSound(dump) /\ dump.enrolled = Accounts
  /\ golden # Absent => DOMAIN golden # {}
  /\ active # Absent => DOMAIN active # {}

\* A call that was, or may be, given up.
CallSound(r) ==
  /\ r.kind = "switch" => r.account \in Email
  /\ r.kind \in {"start", "confirm"} => r.account \in Keyed /\ r.key \in Keys
  /\ r.kind = "start" /\ r.account \in WebAuthn /\ r.epoch = db.epoch =>
       Totp \subseteq db.enrolled
  /\ r.kind = "confirm" /\ r.account \in Totp /\ Live(r) =>
       r.account \in DOMAIN store /\ store[r.account] = r.key

\* A key is started once: no start under way has the key of a confirmation.
Apart(r, q) == r.kind = "start" /\ q.kind = "confirm" => r.key # q.key

LateSound ==
  /\ \A r \in late : CallSound(r)
  /\ \A r, q \in late : Apart(r, q)

Agree(d) ==
  \A a \in d.enrolled \cap Totp : a \in DOMAIN store => store[a] = d.secret[a]

Linked(d, snapshot) ==
  \E a \in DOMAIN d.credential \cap DOMAIN snapshot :
    d.credential[a].key = snapshot[a].key

SecretsFollow ==
  /\ ~(WebAuthn \subseteq db.enrolled) \/ Linked(db, Present(golden)) => Agree(db)
  /\ dump # Absent /\ Linked(dump, Present(golden)) => Agree(dump)

\* No call under way can change a credential.
Quiet ==
  \A r \in late :
    /\ r.kind = "verify" => r.account \notin db.logins
    /\ r.kind = "confirm" => r.account \in db.enrolled \/ ~Live(r)

-----------------------------------------------------------------------------
(* The commands                                                            *)

BeforeWebAuthn == {"seed", "email", "totp", "offered", "written"}
AfterTotp == {"webauthn", "created", "registered", "dryrun", "pending", "verified",
              "clean", "publish", "validate", "dump", "finally"}
LoadedSteps == {"check", "limiter", "limited", "checked", "campaign", "logins",
                "assert", "release", "close", "status", "unlock"}
BurstSteps == {"logins", "assert", "release"}
JourneySteps == {"journeys", "journey", "accepted"}

StepsOf(command) ==
  IF command = "none" THEN {"idle"}
  ELSE IF command = "provision" THEN BeforeWebAuthn \union AfterTotp \union {"closing"}
  ELSE IF command = "snapshot" THEN {"dump"}
  ELSE IF command = "restore" THEN {"restore"}
  ELSE IF command = "reset" THEN {"rows", "files"}
  ELSE IF command = "E1" THEN {"validate", "logins", "finalized", "closing"}
  ELSE IF command = "E2" THEN {"snapshot", "load", "closing"} \union LoadedSteps
  ELSE JourneySteps

RunSound ==
  /\ run.at \in StepsOf(run.command)
  /\ run.command = "none" => run = Idle /\ authenticator = Nothing
  /\ run.command # "none" => last = NoCommand
  /\ run.command # "reset" => run.todo \subseteq Accounts
  /\ run.command = "restore" => dump # Absent
  /\ run.command = "reset" /\ run.at = "files" => db.users = {}

\* An experiment runs in one of the modes.
ModeSound == run.command \in {"E1", "E2", "E3"} => run.mode \in Modes

Complete == db.users = Accounts /\ db.enrolled = Accounts

ProvisionSound ==
  run.command = "provision" =>
    /\ db.enrolled \cap Totp \subseteq DOMAIN store
    /\ Agree(db)
    /\ DOMAIN Present(golden) # {} => Totp \subseteq db.enrolled
    /\ dump # Absent /\ Linked(dump, authenticator) => Agree(dump)
    /\ run.at \notin {"seed", "closing"} => db.users = Accounts
    /\ run.at = "seed" => Accounts \ db.users \subseteq run.todo
    /\ run.at = "email" => run.todo \subseteq Email
    /\ run.at \in {"totp", "offered", "written"} =>
         run.todo \subseteq Totp /\ Totp \ db.enrolled \subseteq run.todo
    /\ run.at \in BeforeWebAuthn => authenticator = Nothing
    /\ run.at \in AfterTotp => Totp \subseteq db.enrolled
    /\ run.at \in {"webauthn", "created", "registered"} => run.todo \subseteq WebAuthn

EnrollmentSound ==
  run.command = "provision" =>
    /\ run.at = "offered" =>
         /\ run.account \in Totp \ db.enrolled
         /\ \A r \in late : r.kind = "confirm" /\ r.account = run.account => ~Live(r)
    /\ run.at = "written" =>
         /\ run.account \in Totp
         /\ run.account \in DOMAIN store /\ store[run.account] = run.key
    /\ run.at \in {"offered", "written", "created"} =>
         /\ run.key \in Keys
         /\ \A r \in late : r.kind = "start" => r.key # run.key
    /\ run.at = "created" => run.account \in WebAuthn
    /\ run.at \in {"created", "registered", "verified"} => DOMAIN authenticator # {}
    /\ run.at = "pending" => run.account \in Keyed /\ CanAssert(run.account)

Ahead(done) ==
  /\ DOMAIN authenticator = DOMAIN db.credential
  /\ \A a \in DOMAIN authenticator :
       /\ authenticator[a].key = db.credential[a].key
       /\ authenticator[a].count = db.credential[a].count + (IF a \in done THEN 1 ELSE 0)

E1Sound ==
  run.command = "E1" /\ run.at \in {"logins", "finalized"} => db.users = Accounts

E2Sound ==
  run.command = "E2" =>
    /\ run.at = "load" => active # Absent
    /\ run.at \in LoadedSteps => Complete /\ DOMAIN authenticator # {}
    /\ run.at \in BurstSteps =>
         /\ run.variant \in Variants /\ run.batch \subseteq run.variant
         /\ \A a \in run.variant : CanAnswer(a)
    /\ run.at = "assert" => run.variant = WebAuthn
    /\ run.at \in {"close", "status", "unlock"} => Quiet /\ db.credential = authenticator
    /\ run.at \in {"status", "unlock"} /\ run.mode # "preflight" => active = authenticator

BurstSound ==
  run.command = "E2" /\ run.at \in BurstSteps /\ run.variant = WebAuthn =>
    /\ \A r \in late : r.kind = "verify" /\ r.account \in WebAuthn =>
                         r.account \notin db.logins
    /\ run.at = "logins" => Ahead({})
    /\ run.at = "assert" =>
         Ahead(WebAuthn \ run.batch) /\ WebAuthn \ run.batch \subseteq DOMAIN authenticator
    /\ run.at = "release" =>
         Ahead(run.batch) /\ WebAuthn \subseteq DOMAIN authenticator

Accepted1 == db.credential = [authenticator EXCEPT ![run.account].count = @ + 1]

E3Sound ==
  run.command = "E3" =>
    /\ db.epoch # NoEpoch
    /\ DOMAIN authenticator # {}
    /\ run.at \in {"journey", "accepted"} =>
         run.account \in Accounts /\ CanAssert(run.account)
    /\ run.at = "accepted" => run.account \in WebAuthn
    /\ invalid = {} =>
         /\ Quiet /\ active = authenticator
         /\ IF run.at = "accepted" THEN Accepted1 ELSE db.credential = active

EndSound ==
  /\ \/ At("provision", "dump") \/ At("provision", "finally") \/ At("snapshot", "dump")
     \/ JustEnded("provision", {"none"}) \/ JustEnded("E1", Modes)
     => Complete /\ Quiet /\ golden = db.credential
  /\ \/ At("provision", "dump") \/ At("provision", "finally")
     \/ JustEnded("provision", {"none"})
     => published = db.epoch /\ db.secret = store
  /\ At("provision", "finally") \/ JustEnded("provision", {"none"})
     => /\ dump # Absent /\ dump.epoch = db.epoch
        /\ dump.credential = golden /\ dump.secret = store
  /\ JustEnded("E2", {"pilot", "full"}) \/ JustEnded("E3", {"pilot"})
     => Quiet /\ active = db.credential
-----------------------------------------------------------------------------
(* Sparse stores                                                           *)

\* A store is a function on some of the accounts.
LEMMA StoreIs ==
  ASSUME NEW S, NEW V, NEW f \in Stores(S, V)
  PROVE  /\ DOMAIN f \subseteq S
         /\ \A a \in DOMAIN f : f[a] \in V
         /\ f = [a \in DOMAIN f |-> f[a]]
  <1>1. PICK T \in SUBSET S : f \in [T -> V]
    BY DEF Stores
  <1> QED
    BY <1>1

LEMMA IsStore ==
  ASSUME NEW S, NEW V, NEW T \in SUBSET S, NEW f \in [T -> V]
  PROVE  f \in Stores(S, V)
  BY DEF Stores

\* A store without an account is Nothing.
LEMMA NothingIs ==
  ASSUME NEW S, NEW V
  PROVE  /\ Nothing \in Stores(S, V) /\ DOMAIN Nothing = {}
         /\ \A f \in Stores(S, V) : DOMAIN f = {} => f = Nothing
  <1>1. Nothing \in [{} -> V] /\ DOMAIN Nothing = {}
    BY DEF Nothing
  <1>2. ASSUME NEW f \in Stores(S, V), DOMAIN f = {}
        PROVE  f = Nothing
    <2>1. f = [a \in DOMAIN f |-> f[a]]
      BY StoreIs
    <2> QED
      BY <1>2, <2>1 DEF Nothing
  <1> QED
    BY <1>1, <1>2, IsStore

LEMMA WithIs ==
  ASSUME NEW S, NEW V, NEW f \in Stores(S, V), NEW a \in S, NEW v \in V
  PROVE  With(f, a, v) \in Stores(S, V)
  <1> DEFINE T == DOMAIN f \union {a}
  <1>1. DOMAIN f \subseteq S /\ \A b \in DOMAIN f : f[b] \in V
    BY StoreIs
  <1>2. With(f, a, v) \in [T -> V]
    BY <1>1 DEF With
  <1>3. T \in SUBSET S
    BY <1>1
  <1> QED
    BY <1>2, <1>3, IsStore

LEMMA RestrictIs ==
  ASSUME NEW S, NEW V, NEW f \in Stores(S, V), NEW a
  PROVE  Restrict(f, DOMAIN f \ {a}) \in Stores(S, V)
  <1> DEFINE T == DOMAIN f \ {a}
  <1>1. DOMAIN f \subseteq S /\ \A b \in DOMAIN f : f[b] \in V
    BY StoreIs
  <1>2. Restrict(f, T) \in [T -> V]
    BY <1>1 DEF Restrict
  <1>3. T \in SUBSET S
    BY <1>1
  <1> QED
    BY <1>2, <1>3, IsStore

\* Advancing the counter of one credential.
Advance(f, a, n) == [f EXCEPT ![a].count = n]

Advanced(f, a, n, g) ==
  /\ g \in Snapshots
  /\ DOMAIN g = DOMAIN f
  /\ \A b \in DOMAIN f : g[b].key = f[b].key
  /\ g[a].count = n
  /\ \A b \in DOMAIN f : b # a => g[b] = f[b]

LEMMA CountedIs ==
  ASSUME NEW f \in Snapshots, NEW a \in DOMAIN f, NEW n \in 0..MaxCount
  PROVE  Advanced(f, a, n, Advance(f, a, n))
  <1> DEFINE g == Advance(f, a, n)
             T == DOMAIN f
  <1>1. T \in SUBSET WebAuthn /\ f \in [T -> Credentials]
    <2>1. DOMAIN f \subseteq WebAuthn /\ (\A b \in DOMAIN f : f[b] \in Credentials)
          /\ f = [b \in DOMAIN f |-> f[b]]
      BY StoreIs DEF Snapshots
    <2> QED
      BY <2>1
  <1>2. g = [f EXCEPT ![a] = [f[a] EXCEPT !.count = n]]
    BY DEF Advance
  <1>3. f[a] \in Credentials /\ [f[a] EXCEPT !.count = n] \in Credentials
        /\ [f[a] EXCEPT !.count = n].key = f[a].key
        /\ [f[a] EXCEPT !.count = n].count = n
    BY <1>1 DEF Credentials
  <1> HIDE DEF g
  <1>4. g \in [T -> Credentials]
    BY <1>1, <1>2, <1>3
  <1>5. g \in Snapshots
    BY <1>1, <1>4, IsStore DEF Snapshots
  <1>6. \A b \in DOMAIN f : IF b = a THEN g[b] = [f[a] EXCEPT !.count = n] ELSE g[b] = f[b]
    BY <1>1, <1>2
  <1>7. Advanced(f, a, n, g)
    BY <1>1, <1>3, <1>4, <1>5, <1>6 DEF Advanced
  <1> QED
    BY <1>7 DEF g

\* Two stores are the same when they agree everywhere.
LEMMA SameStore ==
  ASSUME NEW S, NEW V, NEW f \in Stores(S, V), NEW g \in Stores(S, V),
         DOMAIN f = DOMAIN g, \A a \in DOMAIN f : f[a] = g[a]
  PROVE  f = g
  <1>1. f = [a \in DOMAIN f |-> f[a]] /\ g = [a \in DOMAIN g |-> g[a]]
    BY StoreIs
  <1> QED
    BY <1>1

\* There are accounts of each variant, and the variants are told apart.
LEMMA Variety ==
  /\ Email # {} /\ Totp # {} /\ WebAuthn # {}
  /\ Email # WebAuthn /\ Totp # WebAuthn
  /\ Sample \cap WebAuthn # {} /\ Sample \cap Totp # {}
  <1>1. Cardinality(Sample \cap Email) # 0 /\ Cardinality(Sample \cap Totp) # 0
        /\ Cardinality(Sample \cap WebAuthn) # 0
    BY ProvisioningAssumption
  <1>2. Cardinality({}) = 0
    BY FS_EmptySet
  <1>3. Sample \cap Email # {} /\ Sample \cap Totp # {} /\ Sample \cap WebAuthn # {}
    BY <1>1, <1>2
  <1> QED
    BY <1>3, DatasetAssumption

-----------------------------------------------------------------------------
(* What a call does to the tables                                          *)

\* Tables with their fields.
LEMMA TablesAre ==
  ASSUME NEW d \in Databases
  PROVE  /\ d.epoch \in Epochs \union {NoEpoch}
         /\ d.users \subseteq Accounts /\ d.enrolled \subseteq Accounts
         /\ d.secret \in Stores(Totp, Keys) /\ d.credential \in Snapshots
         /\ d.credential \in Stores(WebAuthn, Credentials)
         /\ d.offered \in Stores(Keyed, Keys) /\ d.logins \subseteq Accounts
         /\ DOMAIN d.secret \subseteq Totp /\ DOMAIN d.credential \subseteq WebAuthn
         /\ DOMAIN d.offered \subseteq Keyed
         /\ \A a \in DOMAIN d.credential : d.credential[a] \in Credentials
  <1>1. /\ d.epoch \in Epochs \union {NoEpoch}
        /\ d.users \subseteq Accounts /\ d.enrolled \subseteq Accounts
        /\ d.secret \in Stores(Totp, Keys) /\ d.credential \in Snapshots
        /\ d.offered \in Stores(Keyed, Keys) /\ d.logins \subseteq Accounts
    BY DEF Databases
  <1>2. d.credential \in Stores(WebAuthn, Credentials)
    BY <1>1 DEF Snapshots
  <1> QED
    BY <1>1, <1>2, StoreIs

LEMMA ServeLogin ==
  ASSUME NEW d \in Databases, NEW r \in Requests, r.kind = "login"
  PROVE  /\ Serve(d, r) = [d EXCEPT !.logins = @ \union {r.account}]
         /\ Serve(d, r) \in Databases
  <1>1. r.account \in Accounts
    BY DEF Requests
  <1>2. Serve(d, r) = [d EXCEPT !.logins = @ \union {r.account}]
    BY DEF Serve
  <1>3. [d EXCEPT !.logins = @ \union {r.account}] \in Databases
    BY <1>1 DEF Databases
  <1> QED
    BY <1>2, <1>3

LEMMA ServeSwitch ==
  ASSUME NEW d \in Databases, NEW r \in Requests, r.kind = "switch"
  PROVE  /\ Serve(d, r) = [d EXCEPT !.enrolled = @ \union {r.account}]
         /\ Serve(d, r) \in Databases
  <1>1. r.account \in Accounts
    BY DEF Requests
  <1>2. Serve(d, r) = [d EXCEPT !.enrolled = @ \union {r.account}]
    BY DEF Serve
  <1>3. [d EXCEPT !.enrolled = @ \union {r.account}] \in Databases
    BY <1>1 DEF Databases
  <1> QED
    BY <1>2, <1>3

LEMMA ServeStart ==
  ASSUME NEW d \in Databases, NEW r \in Requests, r.kind = "start",
         r.account \in Keyed, r.key \in Keys
  PROVE  /\ Serve(d, r) = [d EXCEPT !.offered = With(@, r.account, r.key)]
         /\ Serve(d, r) \in Databases
  <1>1. With(d.offered, r.account, r.key) \in Stores(Keyed, Keys)
    BY TablesAre, WithIs
  <1>2. Serve(d, r) = [d EXCEPT !.offered = With(@, r.account, r.key)]
    BY DEF Serve
  <1>3. [d EXCEPT !.offered = With(@, r.account, r.key)] \in Databases
    BY <1>1 DEF Databases
  <1> QED
    BY <1>2, <1>3

LEMMA ServeConfirm ==
  ASSUME NEW d \in Databases, NEW r \in Requests, r.kind = "confirm",
         r.account \in Keyed, r.key \in Keys
  PROVE  LET o == Restrict(d.offered, DOMAIN d.offered \ {r.account})
             c == [key |-> r.key, count |-> 0]
         IN  /\ Serve(d, r) =
                  [d EXCEPT !.enrolled = @ \union {r.account}, !.offered = o,
                     !.secret = IF r.account \in Totp THEN With(@, r.account, r.key) ELSE @,
                     !.credential = IF r.account \in Totp THEN @ ELSE With(@, r.account, c)]
             /\ Serve(d, r) \in Databases
  <1> DEFINE o == Restrict(d.offered, DOMAIN d.offered \ {r.account})
             c == [key |-> r.key, count |-> 0]
             a == r.account
             k == r.key
  <1>1. a \in Accounts /\ a \in Totp \union WebAuthn
    BY DEF Accounts, Keyed
  <1>2. o \in Stores(Keyed, Keys)
    BY TablesAre, RestrictIs
  <1>3. c \in Credentials
    BY DatasetAssumption DEF Credentials
  <1>4. Serve(d, r) = Confirmed(d, a, k)
    BY DEF Serve
  <1>5. Confirmed(d, a, k) =
          IF a \in Totp
          THEN [[d EXCEPT !.enrolled = @ \union {a}, !.offered = o]
                  EXCEPT !.secret = With(@, a, k)]
          ELSE [[d EXCEPT !.enrolled = @ \union {a}, !.offered = o]
                  EXCEPT !.credential = With(@, a, c)]
    BY DEF Confirmed
  <1> DEFINE e == [d EXCEPT !.enrolled = @ \union {a}, !.offered = o]
             t == With(d.secret, a, k)
             w == With(d.credential, a, c)
  <1>6. e = [d EXCEPT !.enrolled = @ \union {a}, !.offered = o]
    OBVIOUS
  <1> HIDE DEF o, c, e, t, w
  <1>7. e \in Databases /\ e.secret = d.secret /\ e.credential = d.credential
    BY <1>1, <1>2, <1>6 DEF Databases
  <1>8. CASE a \in Totp
    <2>1. t \in Stores(Totp, Keys)
      BY <1>8, TablesAre, WithIs DEF t
    <2>2. Serve(d, r) = [e EXCEPT !.secret = t]
      BY <1>4, <1>5, <1>7, <1>8 DEF e, t
    <2>3. [e EXCEPT !.secret = t] \in Databases
      BY <1>7, <2>1 DEF Databases
    <2>4. [e EXCEPT !.secret = t] =
            [d EXCEPT !.enrolled = @ \union {a}, !.offered = o, !.secret = t,
                      !.credential = d.credential]
      BY <1>6 DEF Databases
    <2> QED
      BY <1>8, <2>2, <2>3, <2>4 DEF o, t
  <1>9. CASE a \notin Totp
    <2>1. w \in Snapshots
      BY <1>1, <1>3, <1>9, TablesAre, WithIs DEF Snapshots, w
    <2>2. Serve(d, r) = [e EXCEPT !.credential = w]
      BY <1>4, <1>5, <1>7, <1>9 DEF e, w
    <2>3. [e EXCEPT !.credential = w] \in Databases
      BY <1>7, <2>1 DEF Databases
    <2>4. [e EXCEPT !.credential = w] =
            [d EXCEPT !.enrolled = @ \union {a}, !.offered = o, !.secret = d.secret,
                      !.credential = w]
      BY <1>6 DEF Databases
    <2> QED
      BY <1>9, <2>2, <2>3, <2>4 DEF o, c, w
  <1> QED
    BY <1>8, <1>9

LEMMA ServeVerify ==
  ASSUME NEW d \in Databases, NEW r \in Requests, r.kind = "verify",
         r.account \in WebAuthn => r.account \in DOMAIN d.credential
  PROVE  LET c == IF r.account \in WebAuthn
                  THEN [d.credential EXCEPT ![r.account].count = r.count]
                  ELSE d.credential
         IN  /\ Serve(d, r) = [d EXCEPT !.logins = @ \ {r.account}, !.credential = c]
             /\ Serve(d, r) \in Databases
             /\ DOMAIN c = DOMAIN d.credential
             /\ \A b \in DOMAIN d.credential : c[b].key = d.credential[b].key
  <1> DEFINE a == r.account
             c == IF r.account \in WebAuthn
                  THEN [d.credential EXCEPT ![r.account].count = r.count]
                  ELSE d.credential
  <1>1. a \in Accounts /\ r.count \in 0..MaxCount
    BY DEF Requests
  <1>2. c \in Snapshots /\ DOMAIN c = DOMAIN d.credential
        /\ \A b \in DOMAIN d.credential : c[b].key = d.credential[b].key
    <2>1. CASE a \in WebAuthn
      <3>1. a \in DOMAIN d.credential /\ d.credential \in Snapshots
            /\ c = Advance(d.credential, a, r.count)
        BY <2>1, TablesAre DEF Advance
      <3>2. Advanced(d.credential, a, r.count, Advance(d.credential, a, r.count))
        BY <1>1, <3>1, CountedIs
      <3> QED
        BY <3>1, <3>2 DEF Advanced
    <2> QED
      BY <2>1, TablesAre
  <1>3. Serve(d, r) = Verified(d, a, r.count)
    BY DEF Serve
  <1>4. Verified(d, a, r.count) = [d EXCEPT !.logins = @ \ {a}, !.credential = c]
    BY DEF Verified, Databases
  <1>5. [d EXCEPT !.logins = @ \ {a}, !.credential = c] \in Databases
    BY <1>1, <1>2 DEF Databases
  <1> QED
    BY <1>2, <1>3, <1>4, <1>5

\* What a call that is accepted changes, field by field.
Effect(r, e) ==
  LET a == r.account
  IN  /\ e \in Databases /\ e.epoch = db.epoch /\ e.users = db.users
      /\ e.enrolled = IF r.kind \in {"switch", "confirm"}
                      THEN db.enrolled \union {a} ELSE db.enrolled
      /\ e.logins = IF r.kind = "login" THEN db.logins \union {a}
                    ELSE IF r.kind = "verify" THEN db.logins \ {a}
                    ELSE db.logins
      /\ r.kind \notin {"start", "confirm"} => e.offered = db.offered
      /\ r.kind = "start" =>
           /\ DOMAIN e.offered = DOMAIN db.offered \union {a}
           /\ e.offered[a] = r.key
           /\ \A b \in DOMAIN db.offered : b # a => e.offered[b] = db.offered[b]
      /\ r.kind = "confirm" =>
           /\ DOMAIN e.offered = DOMAIN db.offered \ {a}
           /\ \A b \in DOMAIN e.offered : e.offered[b] = db.offered[b]
      /\ ~(r.kind = "confirm" /\ a \in Totp) => e.secret = db.secret
      /\ r.kind = "confirm" /\ a \in Totp =>
           /\ DOMAIN e.secret = DOMAIN db.secret \union {a}
           /\ e.secret[a] = r.key
           /\ \A b \in DOMAIN db.secret : b # a => e.secret[b] = db.secret[b]
      /\ ~(r.kind \in {"confirm", "verify"} /\ a \in WebAuthn) =>
           e.credential = db.credential
      /\ r.kind = "confirm" /\ a \in WebAuthn =>
           /\ DOMAIN e.credential = DOMAIN db.credential \union {a}
           /\ \A b \in DOMAIN db.credential : e.credential[b] = db.credential[b]
      /\ r.kind = "verify" /\ a \in WebAuthn =>
           /\ e.credential = [db.credential EXCEPT ![a].count = r.count]
           /\ DOMAIN e.credential = DOMAIN db.credential
           /\ \A b \in DOMAIN db.credential :
                e.credential[b].key = db.credential[b].key

LEMMA ServeIs ==
  ASSUME db \in Databases, DatabaseSound(db),
         NEW r \in Requests, CallSound(r), Accepts(db, r),
         NEW e, e = Serve(db, r)
  PROVE  Effect(r, e)
  <1> DEFINE a == r.account
             k == r.key
  <1>1. /\ r.kind \in {"switch", "start", "confirm", "login", "verify"}
        /\ a \in Accounts
    BY DEF Requests
  <1>2. DOMAIN db = {"epoch", "users", "enrolled", "secret", "credential", "offered", "logins"}
    BY DEF Databases
  <1>3. CASE r.kind = "login"
    <2>1. e = [db EXCEPT !.logins = @ \union {a}] /\ e \in Databases
      BY <1>3, ServeLogin
    <2> QED
      BY <1>2, <1>3, <2>1 DEF Effect
  <1>4. CASE r.kind = "switch"
    <2>1. e = [db EXCEPT !.enrolled = @ \union {a}] /\ e \in Databases
      BY <1>4, ServeSwitch
    <2> QED
      BY <1>2, <1>4, <2>1 DEF Effect
  <1>5. CASE r.kind = "start"
    <2>1. a \in Keyed /\ k \in Keys
      BY <1>5 DEF CallSound
    <2>2. e = [db EXCEPT !.offered = With(@, a, k)] /\ e \in Databases
      BY <1>5, <2>1, ServeStart
    <2>3. e.offered = With(db.offered, a, k)
      BY <1>2, <2>2
    <2>4. /\ DOMAIN e.offered = DOMAIN db.offered \union {a}
          /\ e.offered[a] = k
          /\ \A b \in DOMAIN db.offered : b # a => e.offered[b] = db.offered[b]
      BY <2>3 DEF With
    <2> QED
      BY <1>2, <1>5, <2>2, <2>4 DEF Effect
  <1>6. CASE r.kind = "confirm"
    <2>1. a \in Keyed /\ k \in Keys /\ a \notin db.enrolled
      BY <1>6 DEF CallSound, Accepts
    <2> DEFINE o == Restrict(db.offered, DOMAIN db.offered \ {a})
               c == [key |-> k, count |-> 0]
               t == IF a \in Totp THEN With(db.secret, a, k) ELSE db.secret
               w == IF a \in Totp THEN db.credential ELSE With(db.credential, a, c)
    <2>2. /\ Serve(db, r) = [db EXCEPT !.enrolled = @ \union {a}, !.offered = o,
                                       !.secret = t, !.credential = w]
          /\ Serve(db, r) \in Databases
      BY <1>6, <2>1, ServeConfirm, Zenon
    <2> HIDE DEF o, t, w
    <2>3. /\ e.enrolled = db.enrolled \union {a} /\ e.offered = o
          /\ e.secret = t /\ e.credential = w /\ e.epoch = db.epoch
          /\ e.users = db.users /\ e.logins = db.logins
      BY <1>2, <2>2
    <2>4. /\ DOMAIN o = DOMAIN db.offered \ {a}
          /\ \A b \in DOMAIN o : o[b] = db.offered[b]
      BY DEF o, Restrict
    <2>5. ASSUME a \in Totp
          PROVE  /\ DOMAIN t = DOMAIN db.secret \union {a} /\ t[a] = k
                 /\ \A b \in DOMAIN db.secret : b # a => t[b] = db.secret[b]
      BY <2>5 DEF t, With
    <2>6. ASSUME a \in WebAuthn
          PROVE  /\ DOMAIN w = DOMAIN db.credential \union {a}
                 /\ \A b \in DOMAIN db.credential : w[b] = db.credential[b]
      <3>1. a \notin Totp
        BY <2>6, DatasetAssumption
      <3>2. a \notin DOMAIN db.credential
        BY <2>1 DEF DatabaseSound
      <3> HIDE DEF c
      <3> QED
        BY <3>1, <3>2 DEF w, With
    <2>7. a \notin Totp => t = db.secret
      BY DEF t
    <2>8. a \notin WebAuthn => w = db.credential
      BY <2>1 DEF w, Keyed
    <2> QED
      BY <1>2, <1>6, <2>2, <2>3, <2>4, <2>5, <2>6, <2>7, <2>8 DEF Effect
  <1>7. CASE r.kind = "verify"
    <2>1. a \in WebAuthn => a \in DOMAIN db.credential
      BY <1>7 DEF Accepts, RightAnswer
    <2> DEFINE w == IF a \in WebAuthn
                    THEN [db.credential EXCEPT ![a].count = r.count] ELSE db.credential
    <2>2. /\ Serve(db, r) = [db EXCEPT !.logins = @ \ {a}, !.credential = w]
          /\ Serve(db, r) \in Databases
          /\ DOMAIN w = DOMAIN db.credential
          /\ \A b \in DOMAIN db.credential : w[b].key = db.credential[b].key
      BY <1>7, <2>1, ServeVerify, Zenon
    <2>3. /\ a \in WebAuthn => w = [db.credential EXCEPT ![a].count = r.count]
          /\ a \notin WebAuthn => w = db.credential
      OBVIOUS
    <2> HIDE DEF w
    <2>4. /\ e.logins = db.logins \ {a} /\ e.credential = w /\ e.epoch = db.epoch
          /\ e.users = db.users /\ e.enrolled = db.enrolled
          /\ e.secret = db.secret /\ e.offered = db.offered
      BY <1>2, <2>2
    <2> QED
      BY <1>7, <2>2, <2>3, <2>4 DEF Effect
  <1> QED
    BY <1>1, <1>3, <1>4, <1>5, <1>6, <1>7

-----------------------------------------------------------------------------
(* What a call that is served keeps                                        *)

LEMMA ServeKeepsDatabase ==
  ASSUME db \in Databases, DatabaseSound(db),
         NEW r \in Requests, CallSound(r), Accepts(db, r),
         NEW e, e = Serve(db, r)
  PROVE  DatabaseSound(e)
  <1> DEFINE a == r.account
  <1>1. r.kind \in {"switch", "start", "confirm", "login", "verify"}
    BY DEF Requests
  <1>2. a \in db.users
    BY DEF Accepts
  <1>effect. Effect(r, e)
    BY ServeIs
  <1>3. /\ e.epoch = db.epoch /\ e.users = db.users
        /\ e.enrolled = IF r.kind \in {"switch", "confirm"}
                        THEN db.enrolled \union {a} ELSE db.enrolled
        /\ e.logins = IF r.kind = "login" THEN db.logins \union {a}
                      ELSE IF r.kind = "verify" THEN db.logins \ {a}
                      ELSE db.logins
        /\ r.kind = "start" => DOMAIN e.offered = DOMAIN db.offered \union {a}
        /\ r.kind = "confirm" => DOMAIN e.offered = DOMAIN db.offered \ {a}
        /\ r.kind \notin {"start", "confirm"} => e.offered = db.offered
    BY <1>effect DEF Effect
  <1>4. /\ ~(r.kind = "confirm" /\ a \in Totp) => e.secret = db.secret
        /\ r.kind = "confirm" /\ a \in Totp => DOMAIN e.secret = DOMAIN db.secret \union {a}
        /\ r.kind = "confirm" /\ a \in WebAuthn =>
             DOMAIN e.credential = DOMAIN db.credential \union {a}
        /\ ~(r.kind = "confirm" /\ a \in WebAuthn) =>
             DOMAIN e.credential = DOMAIN db.credential
    BY <1>effect DEF Effect
  <1>5. r.kind = "switch" => a \in Email /\ a \notin DOMAIN db.offered
    <2>1. ASSUME r.kind = "switch"
          PROVE  a \in Email /\ DOMAIN db.offered \subseteq Keyed
      BY <2>1, TablesAre DEF CallSound
    <2> QED
      BY <2>1, DatasetAssumption DEF Keyed
  <1>6. r.kind = "login" => a \in db.enrolled
    BY DEF Accepts
  <1>7. r.kind = "start" => a \notin db.enrolled /\ (a \in WebAuthn => Totp \subseteq db.enrolled)
    BY DEF Accepts, CallSound
  <1>8. r.kind = "confirm" => a \in DOMAIN db.offered /\ a \in Keyed
    BY DEF Accepts, CallSound
  <1> HIDE DEF a
  <1>9. /\ e.epoch = NoEpoch => e.users = {}
        /\ e.enrolled \subseteq e.users
        /\ DOMAIN e.offered \subseteq e.users \ e.enrolled
    BY <1>2, <1>3, <1>5, <1>7, <1>8 DEF DatabaseSound
  <1>10. e.logins \subseteq e.enrolled
    BY <1>1, <1>3, <1>6 DEF DatabaseSound
  <1>11. DOMAIN e.secret = e.enrolled \cap Totp
    BY <1>3, <1>4, <1>5, <1>8, DatasetAssumption DEF DatabaseSound
  <1>12. DOMAIN e.credential \subseteq e.enrolled \cap WebAuthn
    BY <1>3, <1>4, <1>8 DEF DatabaseSound
  <1>13. (DOMAIN e.offered \union e.enrolled) \cap WebAuthn # {} => Totp \subseteq e.enrolled
    <2>1. (DOMAIN db.offered \union db.enrolled) \cap WebAuthn # {} => Totp \subseteq db.enrolled
      BY DEF DatabaseSound
    <2>2. CASE r.kind = "start" \/ r.kind = "confirm"
      BY <1>3, <1>7, <1>8, <2>1, <2>2
    <2>3. CASE r.kind = "switch"
      BY <1>3, <1>5, <2>1, <2>3, DatasetAssumption
    <2>4. CASE r.kind = "login" \/ r.kind = "verify"
      BY <1>3, <2>1, <2>4
    <2> QED
      BY <1>1, <2>2, <2>3, <2>4
  <1> QED
    BY <1>9, <1>10, <1>11, <1>12, <1>13 DEF DatabaseSound

\* The challenge a confirmation answers is only renewed by a start of its key.
LEMMA ServeKeepsLive ==
  ASSUME db \in Databases, DatabaseSound(db),
         NEW r \in Requests, CallSound(r), Accepts(db, r), db' = Serve(db, r),
         NEW q, q.kind = "confirm", Apart(r, q), Live(q)'
  PROVE  Live(q)
  <1> DEFINE a == r.account
  <1>effect. Effect(r, db')
    BY ServeIs
  <1>1. /\ r.kind \notin {"start", "confirm"} => db'.offered = db.offered
        /\ r.kind = "start" =>
             /\ DOMAIN db'.offered = DOMAIN db.offered \union {a}
             /\ db'.offered[a] = r.key
             /\ \A b \in DOMAIN db.offered : b # a => db'.offered[b] = db.offered[b]
        /\ r.kind = "confirm" =>
             /\ DOMAIN db'.offered = DOMAIN db.offered \ {a}
             /\ \A b \in DOMAIN db'.offered : db'.offered[b] = db.offered[b]
    BY <1>effect DEF Effect
  <1>2. q.account \in DOMAIN db'.offered /\ db'.offered[q.account] = q.key
    BY DEF Live
  <1>3. r.kind = "start" => q.account # a
    BY <1>1, <1>2 DEF Apart
  <1> HIDE DEF a
  <1> QED
    BY <1>1, <1>2, <1>3 DEF Live

LEMMA ServeKeepsLate ==
  ASSUME db \in Databases, DatabaseSound(db), LateSound,
         NEW r \in Requests, CallSound(r), Accepts(db, r), db' = Serve(db, r),
         \A q \in late : Apart(r, q),
         late' \subseteq late, store' = store
  PROVE  LateSound'
  <1>effect. Effect(r, db')
    BY ServeIs
  <1>1. ASSUME NEW q \in late'
        PROVE  CallSound(q)'
    <2>1. q \in late /\ CallSound(q)
      BY <1>1 DEF LateSound
    <2>2. db'.epoch = db.epoch /\ db.enrolled \subseteq db'.enrolled
      BY <1>effect DEF Effect
    <2>3. q.kind = "confirm" /\ Live(q)' => Live(q)
      BY <2>1, ServeKeepsLive
    <2> QED
      BY <2>1, <2>2, <2>3 DEF CallSound
  <1>2. \A q, p \in late' : Apart(q, p)
    BY DEF LateSound
  <1> QED
    BY <1>1, <1>2 DEF LateSound, Apart

\* The secrets that agree go on to agree: a confirmation finds its own on disk.
LEMMA ServeKeepsAgree ==
  ASSUME db \in Databases, DatabaseSound(db),
         NEW r \in Requests, CallSound(r), Accepts(db, r),
         NEW e, e = Serve(db, r), Agree(db)
  PROVE  Agree(e)
  <1> DEFINE a == r.account
  <1>effect. Effect(r, e)
    BY ServeIs
  <1>1. ASSUME NEW b \in e.enrolled \cap Totp, b \in DOMAIN store
        PROVE  store[b] = e.secret[b]
    <2>1. CASE r.kind = "confirm" /\ a \in Totp
      <3>1. /\ e.enrolled = db.enrolled \union {a}
            /\ e.secret[a] = r.key /\ DOMAIN db.secret = db.enrolled \cap Totp
            /\ \A c \in DOMAIN db.secret : c # a => e.secret[c] = db.secret[c]
        BY <1>effect, <2>1 DEF DatabaseSound, Effect
      <3>2. a \in DOMAIN store /\ store[a] = r.key
        BY <2>1 DEF CallSound, Accepts, Live
      <3> HIDE DEF a
      <3> QED
        BY <1>1, <3>1, <3>2 DEF Agree
    <2>2. CASE ~(r.kind = "confirm" /\ a \in Totp)
      <3>1. e.secret = db.secret
        BY <1>effect, <2>2 DEF Effect
      <3>2. e.enrolled \cap Totp \subseteq db.enrolled
        <4>1. e.enrolled \subseteq db.enrolled \union {a}
          BY <1>effect DEF Effect
        <4>2. r.kind \in {"switch", "confirm"} \/ e.enrolled = db.enrolled
          BY <1>effect DEF Effect
        <4>3. r.kind = "switch" => a \in Email
          BY DEF CallSound
        <4> QED
          BY <2>2, <4>1, <4>2, <4>3, DatasetAssumption
      <3> QED
        BY <1>1, <3>1, <3>2 DEF Agree
    <2> QED
      BY <2>1, <2>2
  <1> QED
    BY <1>1 DEF Agree

\* Nor does a call link a snapshot to the database, but an enrollment.
LEMMA ServeKeepsLinks ==
  ASSUME db \in Databases, DatabaseSound(db),
         NEW r \in Requests, CallSound(r), Accepts(db, r),
         NEW e, e = Serve(db, r), NEW s,
         ~(WebAuthn \subseteq e.enrolled) \/ Linked(e, s)
  PROVE  ~(WebAuthn \subseteq db.enrolled) \/ Linked(db, s)
  <1> DEFINE a == r.account
  <1>effect. Effect(r, e)
    BY ServeIs
  <1>1. CASE r.kind = "confirm" /\ a \in WebAuthn
    BY <1>1 DEF Accepts
  <1>2. CASE ~(r.kind = "confirm" /\ a \in WebAuthn)
    <2>1. /\ DOMAIN e.credential = DOMAIN db.credential
          /\ \A b \in DOMAIN db.credential : e.credential[b].key = db.credential[b].key
      BY <1>effect, <1>2 DEF Effect
    <2>2. db.enrolled \subseteq e.enrolled
      BY <1>effect DEF Effect
    <2> QED
      BY <2>1, <2>2 DEF Linked
  <1> QED
    BY <1>1, <1>2

LEMMA ServeKeepsSecrets ==
  ASSUME db \in Databases, DatabaseSound(db), SecretsFollow,
         NEW r \in Requests, CallSound(r), Accepts(db, r), db' = Serve(db, r),
         UNCHANGED <<store, golden, dump>>
  PROVE  SecretsFollow'
  <1>1. ASSUME ~(WebAuthn \subseteq db'.enrolled) \/ Linked(db', Present(golden))
        PROVE  \A a \in db'.enrolled \cap Totp : a \in DOMAIN store => store[a] = db'.secret[a]
    <2>1. ~(WebAuthn \subseteq db.enrolled) \/ Linked(db, Present(golden))
      BY <1>1, ServeKeepsLinks
    <2>2. Agree(db)
      BY <2>1 DEF SecretsFollow
    <2>3. Agree(db')
      BY <2>2, ServeKeepsAgree
    <2> QED
      BY <2>3 DEF Agree
  <1> QED
    BY <1>1 DEF SecretsFollow, Agree, Linked, Present

-----------------------------------------------------------------------------
(* The inductive invariant                                                 *)

IInv ==
  /\ TypeOK /\ KeptSound /\ LateSound /\ SecretsFollow
  /\ RunSound /\ ModeSound /\ ProvisionSound /\ EnrollmentSound
  /\ E1Sound /\ E2Sound /\ BurstSound /\ E3Sound /\ EndSound

\* The fields of run.
LEMMA RunIs ==
  ASSUME TypeOK
  PROVE  /\ run.command \in Commands /\ run.mode \in RunModes /\ run.at \in Steps
         /\ run.todo \subseteq Accounts \union Files /\ run.variant \in {{}} \union Variants
         /\ run.batch \subseteq Accounts /\ run.account \in Accounts \union {NoAccount}
         /\ run.key \in Keys \union {NoKey}
         /\ DOMAIN run = {"command", "mode", "at", "todo", "variant", "batch", "account", "key"}
  BY DEF TypeOK

\* The steps of the commands.
LEMMA StepsAre ==
  ASSUME TypeOK, RunSound
  PROVE  /\ run.command = "none" => run.at = "idle"
         /\ run.command = "provision" => run.at \in BeforeWebAuthn \union AfterTotp \union {"closing"}
         /\ run.command = "snapshot" => run.at = "dump"
         /\ run.command = "restore" => run.at = "restore"
         /\ run.command = "reset" => run.at \in {"rows", "files"}
         /\ run.command = "E1" => run.at \in {"validate", "logins", "finalized", "closing"}
         /\ run.command = "E2" => run.at \in {"snapshot", "load", "closing"} \union LoadedSteps
         /\ run.command = "E3" => run.at \in JourneySteps
  BY RunIs DEF RunSound, StepsOf, Commands

LEMMA ReqIs ==
  ASSUME db \in Databases, db.epoch # NoEpoch,
         NEW kind \in {"switch", "start", "confirm", "login", "verify"},
         NEW a \in Accounts, NEW k \in Keys \union {NoKey}, NEW n \in 0..MaxCount
  PROVE  /\ Req(kind, a, k, n) \in Requests
         /\ Req(kind, a, k, n).kind = kind /\ Req(kind, a, k, n).account = a
         /\ Req(kind, a, k, n).key = k /\ Req(kind, a, k, n).count = n
         /\ Req(kind, a, k, n).epoch = db.epoch
  BY DEF Req, Requests, Databases

LEMMA EpochKnown ==
  ASSUME DatabaseSound(db), db.users = Accounts
  PROVE  db.epoch # NoEpoch
  BY Variety DEF DatabaseSound, Accounts

\* A fresh key is no key of a late call.
LEMMA FreshKeysAre ==
  ASSUME NEW k \in FreshKeys
  PROVE  k \in Keys /\ \A r \in late : r.key # k
  BY DEF FreshKeys

\* The answer to the challenge of an account.
LEMMA AnswerIs ==
  ASSUME TypeOK, db.epoch # NoEpoch, NEW a \in Accounts, CanAnswer(a), CanAssert(a)
  PROVE  Answer(a) \in Requests /\ Answer(a).kind = "verify" /\ Answer(a).account = a
  <1>1. db \in Databases /\ authenticator \in Stores(WebAuthn, Credentials)
        /\ store \in Stores(Totp, Keys) /\ MaxCount \in Nat
    BY DatasetAssumption DEF TypeOK, DatasetTypeOK, Snapshots
  <1>2. CASE a \in WebAuthn
    <2>1. a \in DOMAIN authenticator /\ authenticator[a].count < MaxCount
      BY <1>2 DEF CanAssert
    <2>2. authenticator[a] \in Credentials
      BY <1>1, <2>1, StoreIs
    <2>3. authenticator[a].key \in Keys /\ authenticator[a].count + 1 \in 0..MaxCount
      BY <1>1, <2>1, <2>2 DEF Credentials
    <2> QED
      BY <1>1, <1>2, <2>3, ReqIs DEF Answer, Assertion
  <1>3. CASE a \in Totp /\ a \notin WebAuthn
    <2>1. a \in DOMAIN store
      BY <1>3 DEF CanAnswer
    <2>2. store[a] \in Keys
      BY <1>1, <2>1, StoreIs
    <2> QED
      BY <1>1, <1>3, <2>2, ReqIs DEF Answer
  <1>4. CASE a \notin Totp /\ a \notin WebAuthn
    BY <1>1, <1>4, ReqIs DEF Answer
  <1> QED
    BY <1>2, <1>3, <1>4

\* There are finitely many calls to make, so the late ones can be counted.
LEMMA RequestsFinite == IsFiniteSet(Requests)
  <1> DEFINE K == {"switch", "start", "confirm", "login", "verify"}
             N == Keys \union {NoKey}
             C == 0..MaxCount
             P == ((K \X Epochs) \X Accounts) \X (N \X C)
             Call(p) == [kind |-> p[1][1][1], epoch |-> p[1][1][2], account |-> p[1][2],
                         key |-> p[2][1], count |-> p[2][2]]
             f == [p \in P |-> Call(p)]
  <1>1. IsFiniteSet(K)
    <2>1. /\ IsFiniteSet({"switch"} \union {"start"}) /\ IsFiniteSet({"confirm"} \union {"login"})
          /\ IsFiniteSet({"verify"})
      BY FS_Singleton, FS_Union
    <2>2. IsFiniteSet((({"switch"} \union {"start"}) \union ({"confirm"} \union {"login"})) \union {"verify"})
      BY <2>1, FS_Union
    <2>3. K = (({"switch"} \union {"start"}) \union ({"confirm"} \union {"login"})) \union {"verify"}
      OBVIOUS
    <2> QED
      BY <2>2, <2>3
  <1>2. IsFiniteSet(Epochs) /\ IsFiniteSet(Accounts) /\ IsFiniteSet(N) /\ IsFiniteSet(C)
    <2>1. IsFiniteSet(1..MaxEpoch) /\ IsFiniteSet(1..MaxKey) /\ IsFiniteSet(0..MaxCount)
      BY FS_Interval, DatasetAssumption
    <2>2. IsFiniteSet({NoKey})
      BY FS_Singleton
    <2> QED
      BY <2>1, <2>2, FS_Union, DatasetAssumption DEF Epochs, Keys, Accounts
  <1> HIDE DEF K, N, C
  <1>3. IsFiniteSet(K \X Epochs) /\ IsFiniteSet(N \X C)
    BY <1>1, <1>2, FS_Product
  <1>4. IsFiniteSet((K \X Epochs) \X Accounts)
    BY <1>2, <1>3, FS_Product
  <1>5. IsFiniteSet(P)
    BY <1>3, <1>4, FS_Product
  <1>6. f \in Surjection(P, Requests)
    <2>1. Requests = [kind : K, epoch : Epochs, account : Accounts, key : N, count : C]
      BY DEF Requests, K, N, C
    <2>2. ASSUME NEW p \in P
          PROVE  f[p] = Call(p) /\ f[p] \in Requests
      BY <2>1
    <2>3. f \in [P -> Requests]
      BY <2>2
    <2>4. ASSUME NEW r \in Requests
          PROVE  \E p \in P : f[p] = r
      <3> DEFINE q == <<<<<<r.kind, r.epoch>>, r.account>>, <<r.key, r.count>>>>
      <3>1. r.kind \in K /\ r.epoch \in Epochs /\ r.account \in Accounts /\ r.key \in N /\ r.count \in C
            /\ r = [kind |-> r.kind, epoch |-> r.epoch, account |-> r.account,
                    key |-> r.key, count |-> r.count]
        BY <2>1
      <3>2. q \in P
        BY <3>1
      <3>3. f[q] = r
        BY <3>1, <3>2
      <3> QED
        BY <3>2, <3>3
    <2> QED
      BY <2>3, <2>4 DEF Surjection
  <1> QED
    BY <1>5, <1>6, FS_Surjection

\* What the commands ask of the backend, and when.
CallKnown(r) ==
  /\ r \in Requests
  /\ r.kind = "switch" => r.account \in Email
  /\ r.kind = "start" =>
       /\ At("provision", "totp") \/ At("provision", "webauthn")
       /\ r.account \in Keyed /\ r.key \in FreshKeys
       /\ r.account \in WebAuthn => Totp \subseteq db.enrolled
  /\ r.kind = "confirm" =>
       /\ At("provision", "written") \/ At("provision", "created")
       /\ r.account = run.account /\ r.key = run.key

LEMMA ProvisionCallsKnown ==
  ASSUME IInv, NEW r \in ProvisionCalls
  PROVE  CallKnown(r)
  <1>1. /\ db \in Databases /\ TypeOK /\ MaxCount \in Nat /\ 0 \in 0..MaxCount
        /\ DatabaseSound(db) /\ NoKey \in Keys \union {NoKey}
    BY DatasetAssumption DEF IInv, TypeOK, DatasetTypeOK, KeptSound
  <1>2. run.command = "provision" /\ run.at # "seed" /\ run.at # "closing"
    BY DEF ProvisionCalls, At
  <1>3. db.epoch # NoEpoch
    BY <1>1, <1>2, EpochKnown DEF IInv, ProvisionSound
  <1>4. CASE At("provision", "email")
    <2>1. PICK a \in run.todo : r = Req("switch", a, NoKey, 0)
      BY <1>4 DEF ProvisionCalls
    <2>2. a \in Email /\ a \in Accounts
      BY <1>4 DEF IInv, ProvisionSound, Accounts, At
    <2> QED
      BY <1>1, <1>3, <2>1, <2>2, ReqIs DEF CallKnown
  <1>5. CASE At("provision", "totp") \/ At("provision", "webauthn")
    <2>1. PICK a \in run.todo, k \in FreshKeys : r = Req("start", a, k, 0)
      BY <1>5 DEF ProvisionCalls, At
    <2>2. a \in Keyed /\ a \in Accounts /\ (a \in WebAuthn => Totp \subseteq db.enrolled)
      BY <1>5, <2>1, DatasetAssumption DEF IInv, ProvisionSound, Accounts, Keyed, At, AfterTotp
    <2>3. k \in Keys
      BY FreshKeysAre
    <2> QED
      BY <1>1, <1>3, <1>5, <2>1, <2>2, <2>3, ReqIs DEF CallKnown
  <1>6. CASE At("provision", "written") \/ At("provision", "created")
    <2>1. r = Req("confirm", run.account, run.key, 0)
      BY <1>6 DEF ProvisionCalls, At
    <2>2. run.account \in Accounts /\ run.key \in Keys
      BY <1>6 DEF IInv, EnrollmentSound, Accounts, At
    <2> QED
      BY <1>1, <1>3, <1>6, <2>1, <2>2, ReqIs DEF CallKnown
  <1>7. CASE At("provision", "dryrun")
    <2>1. PICK a \in run.todo : r = Req("login", a, NoKey, 0)
      BY <1>7 DEF ProvisionCalls, At
    <2>2. a \in Accounts
      BY <1>7, <2>1 DEF IInv, RunSound, At
    <2> QED
      BY <1>1, <1>3, <2>1, <2>2, ReqIs DEF CallKnown
  <1>8. CASE At("provision", "pending")
    <2>1. r = Answer(run.account)
      BY <1>8 DEF ProvisionCalls, At
    <2>2. run.account \in Accounts /\ CanAssert(run.account)
      BY <1>8 DEF IInv, EnrollmentSound, Accounts, Keyed, At
    <2>3. CanAnswer(run.account)
      BY <1>8 DEF IInv, ProvisionSound, At, AfterTotp, CanAnswer
    <2> QED
      BY <1>1, <1>3, <2>1, <2>2, <2>3, AnswerIs DEF CallKnown
  <1> QED
    BY <1>4, <1>5, <1>6, <1>7, <1>8 DEF ProvisionCalls

\* The answers prepared for a burst.
LEMMA PreparedIs ==
  ASSUME IInv, At("E2", "release"), NEW a \in run.batch
  PROVE  Prepared(a) \in Requests /\ Prepared(a).kind = "verify" /\ Prepared(a).account = a
  <1>1. /\ db \in Databases /\ TypeOK /\ DatabaseSound(db) /\ a \in Accounts
        /\ authenticator \in Stores(WebAuthn, Credentials)
    BY DEF IInv, TypeOK, DatasetTypeOK, KeptSound, Snapshots
  <1>2. /\ db.users = Accounts /\ run.variant \in Variants /\ a \in run.variant
        /\ CanAnswer(a)
    BY DEF IInv, E2Sound, At, LoadedSteps, BurstSteps, Complete
  <1>3. db.epoch # NoEpoch
    BY <1>1, <1>2, EpochKnown
  <1>4. CASE a \in WebAuthn
    <2>1. run.variant = WebAuthn
      BY <1>2, <1>4, DatasetAssumption DEF Variants
    <2>2. a \in DOMAIN authenticator
      BY <1>4, <2>1 DEF IInv, BurstSound, At, BurstSteps
    <2>3. authenticator[a] \in Credentials
      BY <1>1, <2>2, StoreIs
    <2>4. authenticator[a].key \in Keys /\ authenticator[a].count \in 0..MaxCount
      BY <2>3 DEF Credentials
    <2> QED
      BY <1>1, <1>3, <1>4, <2>4, ReqIs DEF Prepared
  <1>5. CASE a \notin WebAuthn
    BY <1>1, <1>2, <1>3, <1>5, AnswerIs DEF Prepared, CanAssert
  <1> QED
    BY <1>4, <1>5

LEMMA CallsKnown ==
  ASSUME IInv, NEW r \in Calls
  PROVE  CallKnown(r)
  <1>1. /\ db \in Databases /\ TypeOK /\ MaxCount \in Nat /\ 0 \in 0..MaxCount
        /\ DatabaseSound(db) /\ NoKey \in Keys \union {NoKey}
    BY DatasetAssumption DEF IInv, TypeOK, DatasetTypeOK, KeptSound
  <1>2. ASSUME NEW a \in Accounts, db.epoch # NoEpoch, r = Req("login", a, NoKey, 0)
        PROVE  CallKnown(r)
    BY <1>1, <1>2, ReqIs DEF CallKnown
  <1>3. CASE r \in ProvisionCalls
    BY <1>3, ProvisionCallsKnown
  <1>4. CASE r \in E1Calls
    <2>1. PICK a \in run.todo : At("E1", "logins") /\ r = Req("login", a, NoKey, 0)
      BY <1>4 DEF E1Calls
    <2>2. a \in Accounts /\ db.users = Accounts
      BY <2>1 DEF IInv, RunSound, E1Sound, At
    <2> QED
      BY <1>1, <1>2, <2>1, <2>2, EpochKnown
  <1>5. CASE r \in E2Calls
    <2>1. /\ At("E2", "limiter") \/ At("E2", "logins") \/ At("E2", "release")
          /\ db.users = Accounts
      BY <1>5 DEF E2Calls, IInv, E2Sound, At, LoadedSteps, Complete
    <2>2. db.epoch # NoEpoch
      BY <1>1, <2>1, EpochKnown
    <2>3. CASE ~At("E2", "release")
      <3>1. PICK a \in (Sample \cap Totp) \union run.batch : r = Req("login", a, NoKey, 0)
        BY <1>5, <2>1, <2>3 DEF E2Calls, At
      <3>2. a \in Accounts
        BY <1>1, ProvisioningAssumption, RunIs
      <3> QED
        BY <1>2, <2>2, <3>1, <3>2
    <2>4. CASE At("E2", "release")
      <3>1. PICK a \in run.batch : r = Prepared(a)
        BY <1>5, <2>4 DEF E2Calls, At
      <3> QED
        BY <2>4, <3>1, PreparedIs DEF CallKnown
    <2> QED
      BY <2>3, <2>4
  <1>6. CASE r \in E3Calls
    <2>1. run.command = "E3" /\ db.epoch # NoEpoch
      BY <1>6 DEF E3Calls, IInv, E3Sound, At
    <2>2. CASE At("E3", "journeys")
      <3>1. PICK a \in run.todo : r = Req("login", a, NoKey, 0)
        BY <1>6, <2>2 DEF E3Calls
      <3>2. a \in Accounts
        BY <2>1 DEF IInv, RunSound
      <3> QED
        BY <1>2, <2>1, <3>1, <3>2
    <2>3. CASE At("E3", "journey")
      <3>1. r = Answer(run.account) /\ CanAnswer(run.account)
        BY <1>6, <2>3 DEF E3Calls, At
      <3>2. run.account \in Accounts /\ CanAssert(run.account)
        BY <2>3 DEF IInv, E3Sound, At
      <3> QED
        BY <1>1, <2>1, <3>1, <3>2, AnswerIs DEF CallKnown
    <2> QED
      BY <1>6, <2>2, <2>3 DEF E3Calls
  <1> QED
    BY <1>3, <1>4, <1>5, <1>6 DEF Calls

-----------------------------------------------------------------------------
(* The data, whatever command runs                                         *)

RunRecords ==
  [command : Commands, mode : RunModes, at : Steps,
   todo : SUBSET (Accounts \union Files),
   variant : {{}} \union Variants, batch : SUBSET Accounts,
   account : Accounts \union {NoAccount}, key : Keys \union {NoKey}]

\* An experiment has a mode.
RunStates ==
  {r \in RunRecords : r.command \in {"E1", "E2", "E3"} => r.mode \in Modes}

ControlTypeOK ==
  /\ run \in RunStates
  /\ last \in [command : Commands, mode : RunModes]
  /\ started \in 0..MaxCommands /\ faults \in 0..MaxFaults
  /\ approved \subseteq Artifacts
  /\ round \in 0..Rounds /\ invalid \subseteq Accounts

DataInv == DatasetTypeOK /\ KeptSound /\ LateSound /\ SecretsFollow

\* The part of the data no call depends on.
Side ==
  /\ active \in Snapshots \union {Absent} /\ (active # Absent => DOMAIN active # {})
  /\ published \in Epochs \union {NoEpoch} /\ lock \in BOOLEAN
  /\ authenticator \in Snapshots

LEMMA DataIs ==
  ASSUME IInv
  PROVE  /\ DataInv /\ ControlTypeOK /\ Side /\ TypeOK /\ RunSound
         /\ db \in Databases /\ DatabaseSound(db) /\ authenticator \in Snapshots
         /\ late \subseteq Requests /\ IsFiniteSet(late) /\ Cardinality(late) <= MaxLate
  <1>1. /\ DataInv /\ ControlTypeOK /\ Side /\ TypeOK /\ RunSound
        /\ db \in Databases /\ DatabaseSound(db) /\ authenticator \in Snapshots
        /\ late \subseteq Requests /\ Cardinality(late) <= MaxLate
    BY DEF IInv, TypeOK, DatasetTypeOK, ControlTypeOK, RunStates, RunRecords, ModeSound,
       DataInv, Side, KeptSound
  <1> QED
    BY <1>1, RequestsFinite, FS_Subset

LEMMA SideKept ==
  ASSUME IInv, UNCHANGED <<active, published, lock>>, authenticator' \in Snapshots
  PROVE  Side'
  BY DataIs DEF Side

LEMMA NothingKept == Nothing \in Snapshots /\ DOMAIN Nothing = {}
  BY NothingIs DEF Snapshots

\* The calls under way are sound, and no two are about one key.
LEMMA CallsSound ==
  ASSUME IInv, NEW r \in late \union Calls
  PROVE  r \in Requests /\ CallSound(r) /\ \A q \in late \union Calls : Apart(r, q)
  <1>1. \A q \in late : q \in Requests /\ CallSound(q) /\ \A p \in late : Apart(q, p)
    BY DataIs DEF DataInv, LateSound
  <1>2. \A q \in Calls : CallKnown(q)
    BY CallsKnown
  <1>3. ASSUME NEW q \in Calls
        PROVE  q \in Requests /\ CallSound(q)
    <2>1. CallKnown(q)
      BY <1>2
    <2>2. q.kind = "start" => q.key \in Keys
      BY <2>1, FreshKeysAre DEF CallKnown
    <2>3. q.kind = "confirm" =>
            /\ q.account \in Keyed /\ q.key \in Keys
            /\ q.account \in Totp =>
                 q.account \in DOMAIN store /\ store[q.account] = q.key
      <3>1. ASSUME q.kind = "confirm", At("provision", "written")
            PROVE  /\ q.account \in Keyed /\ q.key \in Keys
                   /\ q.account \in Totp =>
                        q.account \in DOMAIN store /\ store[q.account] = q.key
        BY <2>1, <3>1 DEF CallKnown, IInv, EnrollmentSound, At, Keyed
      <3>2. ASSUME q.kind = "confirm", At("provision", "created")
            PROVE  q.account \in Keyed /\ q.key \in Keys /\ q.account \notin Totp
        BY <2>1, <3>2, DatasetAssumption DEF CallKnown, IInv, EnrollmentSound, At, Keyed
      <3> QED
        BY <2>1, <3>1, <3>2 DEF CallKnown
    <2> QED
      BY <2>1, <2>2, <2>3 DEF CallKnown, CallSound
  <1>4. ASSUME NEW p \in late \union Calls, NEW q \in late \union Calls,
               p.kind = "start", q.kind = "confirm"
        PROVE  p.key # q.key
    <2>1. CASE p \in late /\ q \in late
      BY <1>1, <1>4, <2>1 DEF Apart
    <2>2. CASE p \in Calls /\ q \in late
      BY <1>2, <1>4, <2>2, FreshKeysAre DEF CallKnown
    <2>3. CASE p \in late /\ q \in Calls
      BY <1>2, <1>4, <2>3 DEF CallKnown, IInv, EnrollmentSound, At
    <2>4. CASE p \in Calls /\ q \in Calls
      BY <1>2, <1>4, <2>4 DEF CallKnown, At
    <2> QED
      BY <2>1, <2>2, <2>3, <2>4
  <1> QED
    BY <1>1, <1>3, <1>4 DEF Apart

\* Fewer late calls.
LEMMA FewerLate ==
  ASSUME IInv, late' \subseteq late
  PROVE  late' \in SUBSET Requests /\ Cardinality(late') <= MaxLate
  <1>1. Cardinality(late') <= Cardinality(late) /\ Cardinality(late') \in Nat
        /\ Cardinality(late) \in Nat
    BY DataIs, FS_Subset, FS_CardinalityType
  <1> QED
    BY <1>1, DataIs, DatasetAssumption

\* A call is served.
LEMMA ServedKeepsData ==
  ASSUME IInv, NEW r \in late \union Calls, Accepts(db, r), db' = Serve(db, r),
         late' \subseteq late, UNCHANGED <<store, golden, dump>>, Side'
  PROVE  DataInv' /\ Effect(r, db')
  <1>1. r \in Requests /\ CallSound(r) /\ \A q \in late : Apart(r, q)
    BY CallsSound
  <1>2. Effect(r, db') /\ DatabaseSound(db')
    BY <1>1, DataIs, ServeIs, ServeKeepsDatabase
  <1>3. DatasetTypeOK'
    BY <1>2, DataIs, FewerLate DEF Effect, DatasetTypeOK, DataInv, Side
  <1>4. KeptSound'
    BY <1>2, DataIs DEF KeptSound, DatabaseSound, DataInv, Side
  <1>5. LateSound'
    BY <1>1, DataIs, ServeKeepsLate DEF DataInv
  <1>6. SecretsFollow'
    BY <1>1, DataIs, ServeKeepsSecrets DEF DataInv
  <1> QED
    BY <1>2, <1>3, <1>4, <1>5, <1>6 DEF DataInv

\* Calls are given up, or lost.
LEMMA AbandonedKeepsData ==
  ASSUME IInv, late' \subseteq late \union Calls, Cardinality(late') <= MaxLate,
         UNCHANGED <<db, store, golden, dump>>, Side'
  PROVE  DataInv'
  <1>1. \A r \in late' : r \in Requests /\ CallSound(r) /\ \A q \in late' : Apart(r, q)
    BY CallsSound
  <1>2. DatasetTypeOK'
    BY <1>1, DataIs DEF DatasetTypeOK, DataInv, Side
  <1>3. KeptSound'
    BY DataIs DEF KeptSound, DatabaseSound, DataInv, Side
  <1>4. LateSound'
    BY <1>1 DEF LateSound, CallSound, Live, Apart
  <1>5. SecretsFollow'
    BY DataIs DEF DataInv, SecretsFollow, Agree, Linked, Present
  <1> QED
    BY <1>2, <1>3, <1>4, <1>5 DEF DataInv

\* Only what no call depends on changes.
LEMMA SideKeepsData ==
  ASSUME IInv, UNCHANGED <<db, late, store, golden, dump>>, Side'
  PROVE  DataInv'
  BY DataIs, AbandonedKeepsData

\* The challenges are deleted.
LEMMA WithoutChallengesIs ==
  ASSUME NEW d \in Databases
  PROVE  LET e == WithoutChallenges(d)
         IN  /\ e \in Databases
             /\ e.epoch = d.epoch /\ e.users = d.users /\ e.enrolled = d.enrolled
             /\ e.secret = d.secret /\ e.credential = d.credential
             /\ e.offered = Nothing /\ e.logins = {} /\ DOMAIN e.offered = {}
  <1>1. Nothing \in Stores(Keyed, Keys) /\ DOMAIN Nothing = {}
    BY NothingIs
  <1> QED
    BY <1>1 DEF WithoutChallenges, Databases

LEMMA FewerChallengesKeepData ==
  ASSUME IInv, db' \in Databases,
         UNCHANGED <<db.epoch, db.users, db.enrolled, db.secret, db.credential>>,
         db'.offered = db.offered \/ DOMAIN db'.offered = {}, db'.logins \subseteq db.logins,
         late' \subseteq late, UNCHANGED <<store, golden, dump>>, Side'
  PROVE  DataInv'
  <1>1. DatabaseSound(db')
    BY DataIs DEF DatabaseSound
  <1>2. Cardinality(late') <= MaxLate
    <2>1. /\ Cardinality(late') <= Cardinality(late) /\ Cardinality(late') \in Nat
          /\ Cardinality(late) \in Nat /\ Cardinality(late) <= MaxLate
      BY DataIs, FS_Subset, FS_CardinalityType
    <2> QED
      BY <2>1, DatasetAssumption
  <1>3. DatasetTypeOK'
    BY <1>2, DataIs DEF DatasetTypeOK, DataInv, Side
  <1>4. KeptSound'
    BY <1>1, DataIs DEF KeptSound, DatabaseSound, DataInv, Side
  <1>5. LateSound'
    BY DataIs DEF DataInv, LateSound, CallSound, Live, Apart
  <1>6. SecretsFollow'
    BY DataIs DEF DataInv, SecretsFollow, Agree, Linked, Present
  <1> QED
    BY <1>3, <1>4, <1>5, <1>6 DEF DataInv

LEMMA CleanUpKeepsData ==
  ASSUME IInv, db' = WithoutChallenges(db), UNCHANGED <<late, store, golden, dump>>, Side'
  PROVE  DataInv'
  <1>1. /\ db' \in Databases
        /\ UNCHANGED <<db.epoch, db.users, db.enrolled, db.secret, db.credential>>
        /\ DOMAIN db'.offered = {} /\ db'.logins \subseteq db.logins
    BY DataIs, WithoutChallengesIs
  <1> QED
    BY <1>1, FewerChallengesKeepData

-----------------------------------------------------------------------------
(* The backend serves a late call                                          *)

\* Accounts enroll with a secret that is on disk, and that agrees.
LEMMA ServedKeepsSecretsOnDisk ==
  ASSUME IInv, NEW r \in late \union Calls, Accepts(db, r), db' = Serve(db, r),
         db.enrolled \cap Totp \subseteq DOMAIN store, Agree(db)
  PROVE  /\ db'.enrolled \cap Totp \subseteq DOMAIN store /\ Agree(db')
         /\ db.enrolled \subseteq db'.enrolled /\ db'.enrolled \subseteq Accounts
         /\ db'.users = db.users
  <1>1. r \in Requests /\ CallSound(r)
    BY CallsSound
  <1>2. Effect(r, db') /\ Agree(db')
    BY <1>1, DataIs, ServeIs, ServeKeepsAgree
  <1>3. db.enrolled \subseteq db'.enrolled /\ db'.users = db.users /\ db'.enrolled \subseteq Accounts
    BY <1>2, TablesAre DEF Effect
  <1>4. ASSUME NEW a \in db'.enrolled \cap Totp, a \notin db.enrolled
        PROVE  a \in DOMAIN store
    <2>1. r.kind \in {"switch", "confirm"} /\ a = r.account
      BY <1>2, <1>4 DEF Effect
    <2>2. r.kind = "confirm"
      BY <1>1, <1>4, <2>1, DatasetAssumption DEF CallSound
    <2> QED
      BY <1>1, <1>4, <2>1, <2>2 DEF CallSound, Accepts, Live
  <1> QED
    BY <1>2, <1>3, <1>4

\* No call under way can change a credential, and this stays so.
LEMMA QuietKept ==
  ASSUME IInv, Quiet, NEW r \in late \union Calls, Accepts(db, r), db' = Serve(db, r),
         late' \subseteq Standing(r)
  PROVE  Quiet'
  <1>1. r \in Requests /\ CallSound(r) /\ \A q \in late : Apart(r, q)
    BY CallsSound
  <1>2. Effect(r, db')
    BY <1>1, DataIs, ServeIs
  <1>3. ASSUME NEW q \in late'
        PROVE  /\ q \in late
               /\ r.kind = "login" /\ q.kind = "verify" => q.account # r.account
    BY <1>3 DEF Standing
  <1>4. ASSUME NEW q \in late', q.kind = "verify"
        PROVE  q.account \notin db'.logins
    <2>1. q \in late /\ q.account \notin db.logins
      BY <1>3, <1>4 DEF Quiet
    <2> QED
      BY <1>2, <1>3, <1>4, <2>1 DEF Effect
  <1>5. ASSUME NEW q \in late', q.kind = "confirm"
        PROVE  q.account \in db'.enrolled \/ ~Live(q)'
    <2>1. q \in late /\ (q.account \in db.enrolled \/ ~Live(q))
      BY <1>3, <1>5 DEF Quiet
    <2>2. db.enrolled \subseteq db'.enrolled
      BY <1>2 DEF Effect
    <2>3. Live(q)' => Live(q)
      BY <1>1, <1>5, <2>1, DataIs, ServeKeepsLive
    <2> QED
      BY <2>1, <2>2, <2>3
  <1> QED
    BY <1>4, <1>5 DEF Quiet

\* A late call that is accepted is a login, a switch or a start.
LEMMA QuietAccepts ==
  ASSUME IInv, Quiet, NEW r \in late, Accepts(db, r), db' = Serve(db, r)
  PROVE  UNCHANGED <<db.credential, db.secret>>
  <1>1. r \in Requests /\ CallSound(r)
    BY CallsSound
  <1>2. Effect(r, db')
    BY <1>1, DataIs, ServeIs
  <1>3. r.kind # "verify" /\ r.kind # "confirm"
    BY DEF Quiet, Accepts, RightAnswer, Live
  <1> QED
    BY <1>2, <1>3 DEF Effect

\* Everybody has enrolled, and no late answer fits a challenge.
LEMMA CompleteAccepts ==
  ASSUME IInv, Complete, NEW r \in late, Accepts(db, r), db' = Serve(db, r)
  PROVE  /\ Complete'
         /\ (r.kind = "verify" => r.account \notin WebAuthn) => db'.credential = db.credential
  <1>1. r \in Requests /\ CallSound(r)
    BY CallsSound
  <1>2. Effect(r, db')
    BY <1>1, DataIs, ServeIs
  <1>3. r.account \in Accounts /\ r.kind # "confirm"
    BY <1>1 DEF Accepts, Complete, Requests
  <1> QED
    BY <1>2, <1>3, TablesAre DEF Effect, Complete

LEMMA LateServedStep ==
  ASSUME IInv, NEW r \in late, Accepts(db, r), db' = Serve(db, r),
         late' = Standing(r) \ {r},
         UNCHANGED <<files, authenticator, run, last, started, faults, approved, round, invalid>>
  PROVE  IInv'
  <1>1. r \in Requests /\ CallSound(r) /\ late' \subseteq late /\ late' \subseteq Standing(r)
    BY CallsSound DEF Standing
  <1>2. UNCHANGED <<store, golden, active, dump, published, lock, authenticator>>
    BY DEF files
  <1>3. DataInv' /\ Effect(r, db') /\ Side'
    BY <1>1, <1>2, DataIs, SideKept, ServedKeepsData
  <1>4. /\ db'.epoch = db.epoch /\ db'.users = db.users /\ db.enrolled \subseteq db'.enrolled
        /\ db'.enrolled \subseteq Accounts
    BY <1>3, TablesAre DEF Effect
  <1>5. Quiet => Quiet' /\ UNCHANGED <<db.credential, db.secret>>
    BY <1>1, QuietKept, QuietAccepts
  <1>6. Complete => Complete'
    BY <1>4 DEF Complete
  <1>7. TypeOK'
    BY <1>3, DataIs DEF DataInv, TypeOK
  <1>8. RunSound' /\ ModeSound'
    BY <1>2, <1>4, DataIs DEF IInv, RunSound, ModeSound, Idle
  <1>9. ProvisionSound'
    <2>1. ASSUME run.command = "provision"
          PROVE  /\ db'.enrolled \cap Totp \subseteq DOMAIN store /\ Agree(db')
      BY <2>1, ServedKeepsSecretsOnDisk DEF IInv, ProvisionSound
    <2> QED
      BY <1>2, <1>4, <2>1 DEF IInv, ProvisionSound, Agree, Linked, Present
  <1>10. EnrollmentSound'
    <2>1. ASSUME At("provision", "offered")
          PROVE  /\ run.account \in Totp \ db'.enrolled
                 /\ \A q \in late' : q.kind = "confirm" /\ q.account = run.account => ~Live(q)'
      <3>1. /\ run.account \in Totp \ db.enrolled
            /\ \A q \in late : q.kind = "confirm" /\ q.account = run.account => ~Live(q)
        BY <2>1 DEF IInv, EnrollmentSound, At
      <3>2. ASSUME NEW q \in late', q.kind = "confirm", q.account = run.account
            PROVE  ~Live(q)'
        <4>1. q \in late /\ ~Live(q)
          BY <1>1, <3>1, <3>2
        <4>2. Apart(r, q)
          BY <4>1, CallsSound
        <4> QED
          BY <1>1, <3>2, <4>1, <4>2, DataIs, ServeKeepsLive
      <3>3. run.account \notin db'.enrolled
        <4>1. r.kind = "confirm" => r.account # run.account
          BY <3>1 DEF Accepts, Live
        <4>2. r.kind = "switch" => r.account # run.account
          BY <1>1, <3>1, DatasetAssumption DEF CallSound
        <4> QED
          BY <1>3, <3>1, <4>1, <4>2 DEF Effect
      <3> QED
        BY <3>1, <3>2, <3>3
    <2> QED
      BY <1>1, <1>2, <2>1 DEF IInv, EnrollmentSound, At, CanAssert
  <1>11. E1Sound'
    BY <1>4 DEF IInv, E1Sound
  <1>12. E2Sound'
    BY <1>2, <1>5, <1>6 DEF IInv, E2Sound, CanAnswer
  <1>13. BurstSound'
    <2>1. ASSUME run.command = "E2", run.at \in BurstSteps, run.variant = WebAuthn
          PROVE  /\ \A q \in late' : q.kind = "verify" /\ q.account \in WebAuthn =>
                                       q.account \notin db'.logins
                 /\ db'.credential = db.credential
      <3>1. /\ Complete
            /\ \A q \in late : q.kind = "verify" /\ q.account \in WebAuthn =>
                                 q.account \notin db.logins
        BY <2>1 DEF IInv, E2Sound, BurstSound, BurstSteps, LoadedSteps
      <3>2. r.kind = "verify" => r.account \notin WebAuthn
        BY <3>1 DEF Accepts, RightAnswer
      <3>3. db'.credential = db.credential
        BY <3>1, <3>2, CompleteAccepts
      <3>4. ASSUME NEW q \in late', q.kind = "verify", q.account \in WebAuthn
            PROVE  q.account \notin db'.logins
        <4>1. q \in late /\ q.account \notin db.logins
          BY <1>1, <3>1, <3>4
        <4>2. r.kind = "login" => q.account # r.account
          BY <1>1, <3>4 DEF Standing
        <4> QED
          BY <1>3, <4>1, <4>2 DEF Effect
      <3> QED
        BY <3>3, <3>4
    <2> QED
      BY <1>2, <2>1 DEF IInv, BurstSound, Ahead
  <1>14. E3Sound'
    BY <1>2, <1>4, <1>5 DEF IInv, E3Sound, CanAssert, Accepted1
  <1>15. EndSound'
    BY <1>2, <1>4, <1>5, <1>6 DEF IInv, EndSound, At, JustEnded, Idle
  <1> QED
    BY <1>3, <1>7, <1>8, <1>9, <1>10, <1>11, <1>12, <1>13, <1>14, <1>15 DEF IInv, DataInv

LEMMA FewerLateStep ==
  ASSUME IInv, late' \subseteq late,
         UNCHANGED <<db, files, authenticator, run, last, started, faults, approved, round, invalid>>
  PROVE  IInv'
  <1>1. UNCHANGED <<store, golden, active, dump, published, lock, authenticator>>
    BY DEF files
  <1>2. Side' /\ Cardinality(late') <= MaxLate
    BY <1>1, DataIs, SideKept, FewerLate
  <1>3. DataInv'
    BY <1>1, <1>2, AbandonedKeepsData
  <1>4. TypeOK' /\ RunSound' /\ ModeSound'
    BY <1>1, <1>3, DataIs DEF IInv, DataInv, TypeOK, RunSound, ModeSound, Idle
  <1>5. ProvisionSound' /\ EnrollmentSound' /\ E1Sound'
    BY <1>1 DEF IInv, ProvisionSound, EnrollmentSound, E1Sound, Agree, Linked, Present, Live, CanAssert
  <1>6. Quiet => Quiet'
    BY DEF Quiet, Live
  <1>7. E2Sound' /\ BurstSound'
    BY <1>1, <1>6 DEF IInv, E2Sound, BurstSound, Ahead, Complete, CanAnswer
  <1>8. E3Sound' /\ EndSound'
    BY <1>1, <1>6 DEF IInv, E3Sound, EndSound, Accepted1, CanAssert, Complete, At, JustEnded, Idle
  <1> QED
    BY <1>3, <1>4, <1>5, <1>7, <1>8 DEF IInv, DataInv

LEMMA BackendStep ==
  ASSUME IInv, Backend
  PROVE  IInv'
  <1>1. UNCHANGED <<run, last, started, faults, approved, round, invalid>>
    BY DEF Backend, Same, SameExperiment, experimentVars
  <1>2. CASE LateLost
    <2>1. late' \subseteq late /\ UNCHANGED <<db, files, authenticator>>
      BY <1>2 DEF LateLost
    <2> QED
      BY <1>1, <2>1, FewerLateStep
  <1>3. CASE LateServed
    <2>1. PICK r \in late :
            /\ db' = IF Accepts(db, r) THEN Serve(db, r) ELSE db
            /\ late' = (IF Accepts(db, r) THEN Standing(r) ELSE late) \ {r}
            /\ UNCHANGED <<files, authenticator>>
      BY <1>3 DEF LateServed
    <2>2. CASE Accepts(db, r)
      BY <1>1, <2>1, <2>2, LateServedStep
    <2>3. CASE ~Accepts(db, r)
      BY <1>1, <2>1, <2>3, FewerLateStep
    <2> QED
      BY <2>2, <2>3
  <1> QED
    BY <1>2, <1>3 DEF Backend

-----------------------------------------------------------------------------
(* What the commands have to show                                          *)

\* The conditions on the other commands do not apply.
LEMMA ByProvision ==
  ASSUME DataInv', ControlTypeOK', RunSound', run'.command = "provision",
         ProvisionSound', EnrollmentSound', EndSound'
  PROVE  IInv'
  <1>1. E1Sound' /\ E2Sound' /\ BurstSound' /\ E3Sound'
    BY DEF E1Sound, E2Sound, BurstSound, E3Sound
  <1> QED
    BY <1>1 DEF IInv, DataInv, ControlTypeOK, RunStates, RunRecords, ModeSound, TypeOK

LEMMA ByExperiment ==
  ASSUME DataInv', ControlTypeOK', RunSound', run'.command \in {"E1", "E2", "E3"},
         E1Sound', E2Sound', BurstSound', E3Sound'
  PROVE  IInv'
  <1>1. run'.command # "provision" /\ run'.command # "snapshot" /\ run' # Idle
    BY DEF Idle
  <1>2. ProvisionSound' /\ EnrollmentSound' /\ EndSound'
    BY <1>1 DEF ProvisionSound, EnrollmentSound, EndSound, At, JustEnded, Idle
  <1> QED
    BY <1>2 DEF IInv, DataInv, ControlTypeOK, RunStates, RunRecords, ModeSound, TypeOK

LEMMA ByOthers ==
  ASSUME DataInv', ControlTypeOK', RunSound', EndSound',
         run'.command \in {"snapshot", "restore", "reset"}
  PROVE  IInv'
  <1>1. /\ ProvisionSound' /\ EnrollmentSound' /\ E1Sound' /\ E2Sound' /\ BurstSound'
        /\ E3Sound'
    BY DEF ProvisionSound, EnrollmentSound, E1Sound, E2Sound, BurstSound, E3Sound
  <1> QED
    BY <1>1 DEF IInv, DataInv, ControlTypeOK, RunStates, RunRecords, ModeSound, TypeOK

LEMMA IdleIs ==
  /\ Idle.command = "none" /\ Idle.at = "idle" /\ Idle.mode = "none" /\ Idle.todo = {}
  /\ Idle \in RunStates
  BY DEF Idle, RunStates, RunRecords, Commands, RunModes, Steps

\* No command runs any more.
LEMMA ByNobody ==
  ASSUME DataInv', ControlTypeOK', run' = Idle, authenticator' = Nothing, EndSound'
  PROVE  IInv'
  <1>1. run'.command = "none" /\ run'.at = "idle" /\ run'.todo = {}
    BY IdleIs
  <1>2. RunSound'
    BY <1>1 DEF RunSound, StepsOf, Idle
  <1>3. /\ ProvisionSound' /\ EnrollmentSound' /\ E1Sound' /\ E2Sound' /\ BurstSound'
        /\ E3Sound'
    BY <1>1 DEF ProvisionSound, EnrollmentSound, E1Sound, E2Sound, BurstSound, E3Sound
  <1> QED
    BY <1>2, <1>3 DEF IInv, DataInv, ControlTypeOK, RunStates, RunRecords, ModeSound, TypeOK

\* A command that failed or crashed promises nothing.
LEMMA Aborted ==
  ASSUME IInv, DataInv', ControlTypeOK', run.command # "none", Aborts
  PROVE  IInv'
  <1>1. run' = Idle /\ authenticator' = Nothing /\ last' = NoCommand
    BY DataIs DEF Aborts, RunSound
  <1>2. EndSound'
    BY <1>1, IdleIs DEF EndSound, At, JustEnded, NoCommand
  <1> QED
    BY <1>1, <1>2, ByNobody

\* A command moves on.
LEMMA DoesIs ==
  ASSUME run \in RunStates, NEW s \in Steps, NEW T \in SUBSET (Accounts \union Files),
         Does(s, T)
  PROVE  /\ run' \in RunStates /\ run'.at = s /\ run'.todo = T
         /\ UNCHANGED <<run.command, run.mode, run.variant, run.batch, run.account, run.key>>
  BY DEF Does, RunStates, RunRecords

LEMMA GoesIs ==
  ASSUME run \in RunStates, NEW s \in Steps, Goes(s)
  PROVE  /\ run' \in RunStates /\ run'.at = s
         /\ UNCHANGED <<run.command, run.mode, run.todo, run.variant, run.batch,
                        run.account, run.key>>
  BY DEF Goes, RunStates, RunRecords

\* The control of a step that goes on, and of one that ends.
LEMMA SameControl ==
  ASSUME IInv, Same, SameExperiment,
         run' \in RunStates
  PROVE  ControlTypeOK'
  BY DataIs DEF ControlTypeOK, Same, SameExperiment, experimentVars

LEMMA BeginsControl ==
  ASSUME IInv, NEW c \in Commands, NEW m \in RunModes, NEW s \in Steps,
         NEW todo \in SUBSET (Accounts \union Files), Begins(c, m, s, todo),
         c \in {"E1", "E2", "E3"} => m \in Modes,
         approved' \subseteq Artifacts, round' \in 0..Rounds, invalid' \subseteq Accounts
  PROVE  /\ ControlTypeOK'
         /\ run = Idle /\ authenticator = Nothing
         /\ run'.command = c /\ run'.mode = m /\ run'.at = s /\ run'.todo = todo
         /\ run'.variant = {} /\ run'.batch = {} /\ last' = NoCommand
  <1>1. /\ run = Idle /\ started < MaxCommands /\ last' = NoCommand
        /\ run' = [Idle EXCEPT !.command = c, !.mode = m, !.at = s, !.todo = todo]
        /\ started' = started + 1 /\ faults' = faults
    BY DEF Begins
  <1>2. /\ run'.command = c /\ run'.mode = m /\ run'.at = s /\ run'.todo = todo
        /\ run'.variant = {} /\ run'.batch = {}
        /\ run' \in RunStates
    BY <1>1, IdleIs DEF Idle, RunStates, RunRecords
  <1>3. last' \in [command : Commands, mode : RunModes]
    BY <1>1 DEF NoCommand, Commands, RunModes
  <1>4. authenticator = Nothing
    BY <1>1, DataIs, IdleIs DEF RunSound
  <1>5. started' \in 0..MaxCommands /\ faults' \in 0..MaxFaults
    BY <1>1, DataIs, ProvisioningAssumption DEF ControlTypeOK
  <1> QED
    BY <1>1, <1>2, <1>3, <1>4, <1>5 DEF ControlTypeOK

LEMMA CompletesControl ==
  ASSUME IInv, Completes,
         approved' \subseteq Artifacts, round' \in 0..Rounds, invalid' \subseteq Accounts
  PROVE  ControlTypeOK' /\ last'.command = run.command /\ last'.mode = run.mode
  <1>1. run' = Idle /\ last' = [command |-> run.command, mode |-> run.mode]
        /\ UNCHANGED <<started, faults>>
    BY DEF Completes
  <1>2. last' \in [command : Commands, mode : RunModes]
    BY <1>1, DataIs DEF ControlTypeOK, RunStates, RunRecords
  <1> QED
    BY <1>1, <1>2, DataIs, IdleIs DEF ControlTypeOK

-----------------------------------------------------------------------------
(* The checks                                                              *)

LEMMA NothingPending ==
  ASSUME NoChallenges(db)
  PROVE  Quiet
  BY DEF NoChallenges, Quiet, Live

\* Either check finds an account of WEBAUTHN that is not enrolled, or one whose
\* credential the golden snapshot shares with the database.
LEMMA ChecksAgree ==
  ASSUME IInv, Preflight(golden) \/ ValidDataset
  PROVE  Agree(db) /\ db.enrolled \cap Totp \subseteq DOMAIN store
  <1>1. ASSUME ~(WebAuthn \subseteq db.enrolled) \/ Linked(db, Present(golden))
        PROVE  Agree(db)
    BY <1>1, DataIs DEF DataInv, SecretsFollow
  <1>2. CASE Preflight(golden)
    <2>1. /\ db.enrolled \cap Totp \subseteq DOMAIN store
          /\ db.enrolled \cap WebAuthn = DOMAIN db.credential
          /\ db.credential = Present(golden)
      BY <1>2 DEF Preflight
    <2>2. CASE WebAuthn \subseteq db.enrolled
      <3>1. PICK a \in WebAuthn : a \in DOMAIN db.credential
        BY <2>1, <2>2, Variety
      <3> QED
        BY <1>1, <2>1, <3>1 DEF Linked
    <2> QED
      BY <1>1, <2>1, <2>2
  <1>3. CASE ValidDataset
    <2>1. /\ golden # Absent /\ golden = db.credential /\ DOMAIN golden = WebAuthn
          /\ DOMAIN store = Totp
      BY <1>3 DEF ValidDataset
    <2>2. PICK a \in WebAuthn : a \in DOMAIN db.credential
      BY <2>1, Variety
    <2> QED
      BY <1>1, <2>1, <2>2 DEF Linked, Present
  <1> QED
    BY <1>2, <1>3

\* A valid dataset: both halves of every second factor.
LEMMA ValidIs ==
  ASSUME IInv, ValidDataset
  PROVE  /\ Complete /\ Quiet /\ golden = db.credential /\ golden # Absent
         /\ published = db.epoch /\ db.secret = store
  <1>1. /\ db.users = Accounts /\ db.enrolled = Accounts /\ NoChallenges(db)
        /\ DOMAIN store = Totp /\ golden # Absent /\ golden = db.credential
        /\ published = db.epoch
    BY DEF ValidDataset
  <1>2. Agree(db)
    BY ChecksAgree
  <1>3. /\ store \in Stores(Totp, Keys) /\ db.secret \in Stores(Totp, Keys)
        /\ DOMAIN db.secret = Totp
    BY <1>1, DataIs, TablesAre DEF DataInv, DatasetTypeOK, DatabaseSound, Accounts
  <1>4. \A a \in Totp : store[a] = db.secret[a]
    BY <1>1, <1>2 DEF Agree, Accounts
  <1>5. store = db.secret
    BY <1>1, <1>3, <1>4, SameStore
  <1> QED
    BY <1>1, <1>5, NothingPending DEF Complete

-----------------------------------------------------------------------------
(* provision                                                               *)

LEMMA ProvisionIs ==
  ASSUME IInv, run.command = "provision"
  PROVE  /\ db.enrolled \cap Totp \subseteq DOMAIN store /\ Agree(db)
         /\ DOMAIN Present(golden) # {} => Totp \subseteq db.enrolled
         /\ dump # Absent /\ Linked(dump, authenticator) => Agree(dump)
         /\ run.at \notin {"seed", "closing"} => db.users = Accounts
         /\ run.at \in AfterTotp => Totp \subseteq db.enrolled
         /\ run.at \in BeforeWebAuthn => authenticator = Nothing
         /\ run.todo \subseteq Accounts /\ last = NoCommand
         /\ store \in Stores(Totp, Keys) /\ golden \in Snapshots \union {Absent}
         /\ dump \in Databases \union {Absent} /\ authenticator \in Snapshots
  BY DataIs DEF IInv, ProvisionSound, RunSound, DataInv, DatasetTypeOK

\* A fresh key is in no credential that a dump or an authenticator keeps.
LEMMA FreshKeysNotDumped ==
  ASSUME NEW k \in FreshKeys, dump # Absent, NEW a \in DOMAIN dump.credential
  PROVE  dump.credential[a].key # k
  <1>1. k \notin KeysOf(dump)
    BY DEF FreshKeys
  <1> QED
    BY <1>1 DEF KeysOf, KeysIn

LEMMA ProvisionStartStep ==
  ASSUME IInv, ProvisionStart, SameExperiment
  PROVE  IInv'
  <1>1. /\ Preflight(golden) /\ Begins("provision", "none", "seed", Accounts \ db.users)
        /\ UNCHANGED <<db, late, store, golden, active, dump, published, lock, authenticator>>
        /\ UNCHANGED <<approved, round, invalid>>
    BY DEF ProvisionStart, SameData, datasetVars, SameExperiment, experimentVars
  <1>2. /\ ControlTypeOK' /\ authenticator = Nothing
        /\ run'.command = "provision" /\ run'.at = "seed"
        /\ run'.todo = Accounts \ db.users /\ last' = NoCommand
    <2>1. /\ "provision" \in Commands /\ "none" \in RunModes /\ "seed" \in Steps
          /\ Accounts \ db.users \in SUBSET (Accounts \union Files)
      BY DEF Commands, RunModes, Steps
    <2>2. approved' \subseteq Artifacts /\ round' \in 0..Rounds /\ invalid' \subseteq Accounts
      BY <1>1, DataIs DEF ControlTypeOK
    <2> QED
      BY <1>1, <2>1, <2>2, BeginsControl
  <1>3. DataInv'
    BY <1>1, DataIs, SideKept, SideKeepsData
  <1>4. RunSound'
    BY <1>2 DEF RunSound, StepsOf, BeforeWebAuthn
  <1>5. Agree(db) /\ db.enrolled \cap Totp \subseteq DOMAIN store
    BY <1>1, ChecksAgree
  <1>6. DOMAIN Present(golden) # {} => Totp \subseteq db.enrolled
    <2>1. DOMAIN db.credential \subseteq db.enrolled \cap WebAuthn
          /\ (db.enrolled \cap WebAuthn # {} => Totp \subseteq db.enrolled)
      BY DataIs DEF DatabaseSound
    <2> QED
      BY <1>1, <2>1 DEF Preflight
  <1>7. ~Linked(dump, authenticator)
    BY <1>2, NothingKept DEF Linked
  <1>8. ProvisionSound'
    BY <1>1, <1>2, <1>5, <1>6, <1>7
       DEF ProvisionSound, Agree, Linked, Present, BeforeWebAuthn, AfterTotp
  <1>9. EnrollmentSound' /\ EndSound'
    BY <1>2, IdleIs DEF EnrollmentSound, EndSound, At, JustEnded
  <1> QED
    BY <1>2, <1>3, <1>4, <1>8, <1>9, ByProvision

LEMMA SeedBatchStep ==
  ASSUME IInv, SeedBatch, SameExperiment
  PROVE  IInv'
  <1>1. PICK batch \in SUBSET run.todo \ {{}}, e \in FreshEpochs :
          /\ db' = [db EXCEPT !.users = @ \union batch,
                              !.epoch = IF db.users = {} THEN e ELSE @]
          /\ Does("seed", run.todo \ batch)
    BY Zenon DEF SeedBatch
  <1>2. /\ run.command = "provision" /\ run.at = "seed" /\ Same
        /\ UNCHANGED <<late, store, golden, active, dump, published, lock, authenticator>>
    BY DEF SeedBatch, At, files
  <1>3. /\ db'.users = db.users \union batch
        /\ db'.epoch = IF db.users = {} THEN e ELSE db.epoch
        /\ UNCHANGED <<db.enrolled, db.secret, db.credential, db.offered, db.logins>>
    <2> DEFINE n == IF db.users = {} THEN e ELSE db.epoch
    <2>1. db' = [db EXCEPT !.users = db.users \union batch, !.epoch = n]
      BY <1>1
    <2>2. n = IF db.users = {} THEN e ELSE db.epoch
      OBVIOUS
    <2> HIDE DEF n
    <2> QED
      BY <2>1, <2>2, DataIs DEF Databases
  <1>4. batch \subseteq Accounts /\ run.todo \subseteq Accounts
    BY <1>1, <1>2, ProvisionIs
  <1>5. e \in Epochs /\ \A r \in late : r.epoch # e
    BY DEF FreshEpochs
  <1>6. db' \in Databases
    <2>1. db'.users \subseteq Accounts /\ db'.epoch \in Epochs \union {NoEpoch}
      BY <1>3, <1>4, <1>5, DataIs, TablesAre
    <2>2. db' = [db EXCEPT !.users = db'.users, !.epoch = db'.epoch]
      BY <1>1, <1>3
    <2> QED
      BY <2>1, <2>2, DataIs DEF Databases
  <1>7. DataInv'
    <2>1. DatabaseSound(db')
      <3>1. e # NoEpoch
        BY <1>5 DEF Epochs, NoEpoch
      <3> QED
        BY <1>3, <3>1, DataIs DEF DatabaseSound
    <2>2. Side'
      BY <1>2, DataIs, SideKept
    <2>3. DatasetTypeOK'
      BY <1>2, <1>6, <2>2, DataIs DEF DatasetTypeOK, DataInv, Side
    <2>4. KeptSound'
      BY <1>2, <2>1, <2>2, DataIs DEF KeptSound, DatabaseSound, DataInv, Side
    <2>5. LateSound'
      <3>1. ASSUME NEW r \in late
            PROVE  CallSound(r)'
        <4>1. CallSound(r) /\ r.epoch # e /\ (r.epoch = db'.epoch => r.epoch = db.epoch)
          BY <1>3, <1>5, CallsSound
        <4> QED
          BY <1>2, <1>3, <4>1 DEF CallSound, Live
      <3>2. \A r, q \in late : Apart(r, q)
        BY DataIs DEF DataInv, LateSound
      <3> QED
        BY <1>2, <3>1, <3>2 DEF LateSound, Apart
    <2>6. SecretsFollow'
      BY <1>2, <1>3, DataIs DEF DataInv, SecretsFollow, Agree, Linked, Present
    <2> QED
      BY <2>3, <2>4, <2>5, <2>6 DEF DataInv
  <1>8. run'.command = "provision" /\ run'.at = "seed" /\ run'.todo = run.todo \ batch
        /\ ControlTypeOK'
    <2>1. "seed" \in Steps /\ run.todo \ batch \in SUBSET (Accounts \union Files)
          /\ run \in RunStates
      BY <1>4, DataIs DEF Steps, ControlTypeOK
    <2> QED
      BY <1>1, <1>2, <2>1, DoesIs, SameControl
  <1>9. RunSound'
    BY <1>2, <1>4, <1>8, DataIs DEF RunSound, StepsOf, BeforeWebAuthn, Same
  <1>10. ProvisionSound'
    <2>1. Accounts \ db.users \subseteq run.todo
      BY <1>2 DEF IInv, ProvisionSound
    <2> QED
      BY <1>2, <1>3, <1>8, <2>1, ProvisionIs
         DEF ProvisionSound, Agree, Linked, Present, BeforeWebAuthn, AfterTotp
  <1>11. EnrollmentSound' /\ EndSound'
    BY <1>8, IdleIs DEF EnrollmentSound, EndSound, At, JustEnded
  <1> QED
    BY <1>7, <1>8, <1>9, <1>10, <1>11, ByProvision

\* What a step of provision that goes on has to show of the control.
LEMMA ProvisionGoesOn ==
  ASSUME IInv, run.command = "provision", Same, SameExperiment,
         run' \in RunStates, run'.command = "provision",
         run'.at \in BeforeWebAuthn \union AfterTotp, run'.todo \subseteq Accounts
  PROVE  ControlTypeOK' /\ RunSound' /\ (run'.at \notin {"dump", "finally"} => EndSound')
  <1>1. ControlTypeOK'
    BY SameControl
  <1>2. last' = NoCommand
    BY ProvisionIs DEF Same
  <1>3. RunSound'
    BY <1>2 DEF RunSound, StepsOf
  <1>4. run'.at \notin {"dump", "finally"} => EndSound'
    BY IdleIs DEF EndSound, At, JustEnded
  <1> QED
    BY <1>1, <1>3, <1>4

LEMMA SeedDoneStep ==
  ASSUME IInv, SeedDone, SameExperiment
  PROVE  IInv'
  <1>1. /\ run.command = "provision" /\ run.at = "seed" /\ run.todo = {} /\ Same
        /\ Does("email", Email \ db.enrolled)
        /\ UNCHANGED <<db, late, store, golden, active, dump, published, lock, authenticator>>
    BY DEF SeedDone, At, SameData, datasetVars
  <1>2. /\ run' \in RunStates /\ run'.command = "provision" /\ run'.at = "email"
        /\ run'.todo = Email \ db.enrolled
    <2>1. "email" \in Steps /\ Email \ db.enrolled \in SUBSET (Accounts \union Files)
          /\ run \in RunStates
      BY DataIs DEF Steps, ControlTypeOK, Accounts
    <2> QED
      BY <1>1, <2>1, DoesIs
  <1>3. ControlTypeOK' /\ RunSound' /\ EndSound'
    BY <1>1, <1>2, ProvisionGoesOn DEF BeforeWebAuthn, Accounts
  <1>4. DataInv'
    BY <1>1, DataIs, SideKept, SideKeepsData
  <1>5. db.users = Accounts
    BY <1>1, DataIs, TablesAre DEF IInv, ProvisionSound
  <1>6. ProvisionSound' /\ EnrollmentSound'
    BY <1>1, <1>2, <1>5, ProvisionIs
       DEF ProvisionSound, EnrollmentSound, Agree, Linked, Present, BeforeWebAuthn, AfterTotp
  <1> QED
    BY <1>2, <1>3, <1>4, <1>6, ByProvision

LEMMA SwitchEmailStep ==
  ASSUME IInv, NEW a \in Accounts, SwitchEmail(a), SameExperiment
  PROVE  IInv'
  <1> DEFINE r == Req("switch", a, NoKey, 0)
  <1>1. /\ run.command = "provision" /\ run.at = "email" /\ a \in run.todo /\ Same
        /\ Accepts(db, r) /\ db' = Serve(db, r) /\ late' = Standing(r)
        /\ Does("email", run.todo \ {a})
        /\ UNCHANGED <<store, golden, active, dump, published, lock, authenticator>>
    BY DEF SwitchEmail, At, Served, files
  <1>2. r \in Calls
    BY <1>1 DEF Calls, ProvisionCalls, At
  <1> HIDE DEF r
  <1>3. /\ run' \in RunStates /\ run'.command = "provision" /\ run'.at = "email"
        /\ run'.todo = run.todo \ {a}
    <2>1. "email" \in Steps /\ run.todo \ {a} \in SUBSET (Accounts \union Files)
          /\ run \in RunStates
      BY <1>1, ProvisionIs, DataIs DEF Steps, ControlTypeOK
    <2> QED
      BY <1>1, <2>1, DoesIs
  <1>4. ControlTypeOK' /\ RunSound' /\ EndSound'
    BY <1>1, <1>3, ProvisionIs, ProvisionGoesOn DEF BeforeWebAuthn
  <1>5. late' \subseteq late
    BY <1>1 DEF Standing
  <1>6. DataInv'
    BY <1>1, <1>2, <1>5, DataIs, SideKept, ServedKeepsData
  <1>7. /\ db'.enrolled \cap Totp \subseteq DOMAIN store /\ Agree(db')
        /\ db.enrolled \subseteq db'.enrolled /\ db'.users = db.users
    BY <1>1, <1>2, ProvisionIs, ServedKeepsSecretsOnDisk
  <1>8. run.todo \subseteq Email
    BY <1>1 DEF IInv, ProvisionSound
  <1>9. ProvisionSound' /\ EnrollmentSound'
    BY <1>1, <1>3, <1>7, <1>8, ProvisionIs
       DEF ProvisionSound, EnrollmentSound, Agree, Linked, Present, BeforeWebAuthn, AfterTotp
  <1> QED
    BY <1>3, <1>4, <1>6, <1>9, ByProvision

LEMMA EmailDoneStep ==
  ASSUME IInv, EmailDone, SameExperiment
  PROVE  IInv'
  <1>1. /\ run.command = "provision" /\ run.at = "email" /\ Same
        /\ Does("totp", Totp \ db.enrolled)
        /\ UNCHANGED <<db, late, store, golden, active, dump, published, lock, authenticator>>
    BY DEF EmailDone, At, SameData, datasetVars
  <1>2. /\ run' \in RunStates /\ run'.command = "provision" /\ run'.at = "totp"
        /\ run'.todo = Totp \ db.enrolled
    <2>1. "totp" \in Steps /\ Totp \ db.enrolled \in SUBSET (Accounts \union Files)
          /\ run \in RunStates
      BY DataIs DEF Steps, ControlTypeOK, Accounts
    <2> QED
      BY <1>1, <2>1, DoesIs
  <1>3. ControlTypeOK' /\ RunSound' /\ EndSound'
    BY <1>1, <1>2, ProvisionGoesOn DEF BeforeWebAuthn, Accounts
  <1>4. DataInv'
    BY <1>1, DataIs, SideKept, SideKeepsData
  <1>5. ProvisionSound' /\ EnrollmentSound'
    BY <1>1, <1>2, ProvisionIs
       DEF ProvisionSound, EnrollmentSound, Agree, Linked, Present, BeforeWebAuthn, AfterTotp
  <1> QED
    BY <1>2, <1>3, <1>4, <1>5, ByProvision

LEMMA StartTotpStep ==
  ASSUME IInv, NEW a \in Accounts, StartTotp(a), SameExperiment
  PROVE  IInv'
  <1>1. PICK k \in FreshKeys :
          /\ Served(Req("start", a, k, 0))
          /\ run' = [run EXCEPT !.at = "offered", !.account = a, !.key = k]
    BY Zenon DEF StartTotp
  <1> DEFINE r == Req("start", a, k, 0)
  <1>2. /\ run.command = "provision" /\ run.at = "totp" /\ a \in run.todo /\ Same
        /\ Accepts(db, r) /\ db' = Serve(db, r) /\ late' = Standing(r)
        /\ UNCHANGED <<store, golden, active, dump, published, lock, authenticator>>
    BY <1>1 DEF StartTotp, At, Served, files
  <1>3. r \in Calls
    BY <1>2 DEF Calls, ProvisionCalls, At
  <1>4. r.kind = "start" /\ r.account = a /\ r.key = k
    BY DEF Req
  <1> HIDE DEF r
  <1>5. k \in Keys /\ \A q \in late : q.key # k
    BY FreshKeysAre
  <1>6. /\ run' \in RunStates /\ run'.command = "provision" /\ run'.at = "offered"
        /\ run'.todo = run.todo /\ run'.account = a /\ run'.key = k
    BY <1>1, <1>2, <1>5, DataIs DEF ControlTypeOK, RunStates, RunRecords, Steps
  <1>7. ControlTypeOK' /\ RunSound' /\ EndSound'
    BY <1>2, <1>6, ProvisionIs, ProvisionGoesOn DEF BeforeWebAuthn
  <1>8. late' \subseteq late
    BY <1>2 DEF Standing
  <1>9. DataInv' /\ Effect(r, db')
    BY <1>2, <1>3, <1>8, DataIs, SideKept, ServedKeepsData
  <1>10. /\ db'.enrolled = db.enrolled /\ db'.users = db.users
         /\ a \in DOMAIN db'.offered /\ db'.offered[a] = k
    BY <1>4, <1>9 DEF Effect
  <1>11. Agree(db')
    BY <1>2, <1>3, ProvisionIs, ServedKeepsSecretsOnDisk
  <1>12. run.todo \subseteq Totp /\ Totp \ db.enrolled \subseteq run.todo
    BY <1>2 DEF IInv, ProvisionSound
  <1>13. a \notin db.enrolled
    BY <1>2, <1>4 DEF Accepts
  <1>14. ProvisionSound'
    BY <1>2, <1>6, <1>10, <1>11, <1>12, ProvisionIs
       DEF ProvisionSound, Agree, Linked, Present, BeforeWebAuthn, AfterTotp
  <1>15. EnrollmentSound'
    BY <1>2, <1>5, <1>6, <1>8, <1>10, <1>12, <1>13 DEF EnrollmentSound, Live
  <1> QED
    BY <1>6, <1>7, <1>9, <1>14, <1>15, ByProvision

LEMMA WriteSecretStep ==
  ASSUME IInv, WriteSecret, SameExperiment
  PROVE  IInv'
  <1> DEFINE a == run.account
             k == run.key
  <1>1. /\ run.command = "provision" /\ run.at = "offered" /\ Same
        /\ store' = With(store, a, k) /\ Goes("written")
        /\ UNCHANGED <<db, late, golden, active, dump, published, lock, authenticator>>
    BY DEF WriteSecret, At
  <1>2. /\ a \in Totp \ db.enrolled /\ k \in Keys
        /\ \A r \in late : r.kind = "confirm" /\ r.account = a => ~Live(r)
        /\ \A r \in late : r.kind = "start" => r.key # k
    BY <1>1 DEF IInv, EnrollmentSound
  <1>3. /\ run' \in RunStates /\ run'.command = "provision" /\ run'.at = "written"
        /\ run'.todo = run.todo /\ run'.account = a /\ run'.key = k
    <2>1. "written" \in Steps /\ run \in RunStates
      BY DataIs DEF Steps, ControlTypeOK
    <2> QED
      BY <1>1, <2>1, GoesIs
  <1> HIDE DEF a, k
  <1>4. /\ store' \in Stores(Totp, Keys) /\ DOMAIN store' = DOMAIN store \union {a}
        /\ store'[a] = k /\ \A b \in DOMAIN store : b # a => store'[b] = store[b]
    <2>1. store' \in Stores(Totp, Keys)
      BY <1>1, <1>2, ProvisionIs, WithIs
    <2> QED
      BY <1>1, <2>1 DEF With
  <1>5. ControlTypeOK' /\ RunSound' /\ EndSound'
    BY <1>1, <1>3, ProvisionIs, ProvisionGoesOn DEF BeforeWebAuthn
  <1>6. \A b \in db.enrolled \cap Totp : b \in DOMAIN store' => b \in DOMAIN store /\ store'[b] = store[b]
    BY <1>2, <1>4
  <1>7. Agree(db)'
    BY <1>1, <1>6, ProvisionIs DEF Agree
  <1>8. ~(dump # Absent /\ Linked(dump, Present(golden)))
    BY <1>1, <1>2, ProvisionIs DEF Linked
  <1>9. DataInv'
    <2>1. Side'
      BY <1>1, DataIs, SideKept
    <2>2. DatasetTypeOK'
      BY <1>1, <1>4, DataIs DEF DatasetTypeOK, DataInv
    <2>3. KeptSound'
      BY <1>1, DataIs DEF KeptSound, DatabaseSound, DataInv
    <2>4. LateSound'
      <3>1. ASSUME NEW r \in late
            PROVE  CallSound(r)'
        <4>1. CallSound(r) /\ (r.kind = "confirm" /\ r.account = a => ~Live(r))
          BY <1>2, CallsSound
        <4> QED
          BY <1>1, <1>4, <4>1 DEF CallSound, Live
      <3>2. \A r, q \in late : Apart(r, q)
        BY DataIs DEF DataInv, LateSound
      <3> QED
        BY <1>1, <3>1, <3>2 DEF LateSound, Apart
    <2>5. SecretsFollow'
      BY <1>1, <1>7, <1>8 DEF SecretsFollow, Agree, Linked, Present
    <2> QED
      BY <2>2, <2>3, <2>4, <2>5 DEF DataInv
  <1>10. authenticator = Nothing
    BY <1>1, ProvisionIs DEF BeforeWebAuthn
  <1>11. ~Linked(dump, authenticator)
    BY <1>10, NothingKept DEF Linked
  <1>12. run.todo \subseteq Totp /\ Totp \ db.enrolled \subseteq run.todo
    BY <1>1 DEF IInv, ProvisionSound
  <1>13. ProvisionSound'
    BY <1>1, <1>3, <1>4, <1>7, <1>10, <1>11, <1>12, ProvisionIs
       DEF ProvisionSound, Agree, Linked, Present, BeforeWebAuthn, AfterTotp
  <1>14. EnrollmentSound'
    BY <1>1, <1>2, <1>3, <1>4 DEF EnrollmentSound
  <1> QED
    BY <1>3, <1>5, <1>9, <1>13, <1>14, ByProvision

\* One of the calls of provision is served.
LEMMA ProvisionServed ==
  ASSUME IInv, run.command = "provision", NEW r \in Calls, Accepts(db, r),
         db' = Serve(db, r), late' = Standing(r),
         UNCHANGED <<store, golden, active, dump, published, lock>>,
         authenticator' \in Snapshots
  PROVE  /\ DataInv' /\ Effect(r, db') /\ late' \subseteq late
         /\ db'.enrolled \cap Totp \subseteq DOMAIN store /\ Agree(db')
         /\ db.enrolled \subseteq db'.enrolled /\ db'.users = db.users
  <1>1. late' \subseteq late
    BY DEF Standing
  <1>2. DataInv' /\ Effect(r, db')
    BY <1>1, DataIs, SideKept, ServedKeepsData
  <1> QED
    BY <1>1, <1>2, ProvisionIs, ServedKeepsSecretsOnDisk

LEMMA ConfirmTotpStep ==
  ASSUME IInv, ConfirmTotp, SameExperiment
  PROVE  IInv'
  <1> DEFINE a == run.account
             r == Req("confirm", a, run.key, 0)
  <1>1. /\ run.command = "provision" /\ run.at = "written" /\ Same
        /\ Accepts(db, r) /\ db' = Serve(db, r) /\ late' = Standing(r)
        /\ Does("totp", run.todo \ {a})
        /\ UNCHANGED <<store, golden, active, dump, published, lock, authenticator>>
    BY DEF ConfirmTotp, At, Served, files
  <1>2. r \in Calls
    BY <1>1 DEF Calls, ProvisionCalls, At
  <1>3. r.kind = "confirm" /\ r.account = a
    BY DEF Req
  <1> HIDE DEF r, a
  <1>4. /\ run' \in RunStates /\ run'.command = "provision" /\ run'.at = "totp"
        /\ run'.todo = run.todo \ {a}
    <2>1. "totp" \in Steps /\ run.todo \ {a} \in SUBSET (Accounts \union Files)
          /\ run \in RunStates
      BY <1>1, ProvisionIs, DataIs DEF Steps, ControlTypeOK
    <2> QED
      BY <1>1, <2>1, DoesIs
  <1>5. ControlTypeOK' /\ RunSound' /\ EndSound'
    BY <1>1, <1>4, ProvisionIs, ProvisionGoesOn DEF BeforeWebAuthn
  <1>6. /\ DataInv' /\ Effect(r, db') /\ db'.enrolled \cap Totp \subseteq DOMAIN store /\ Agree(db')
        /\ db.enrolled \subseteq db'.enrolled /\ db'.users = db.users
    BY <1>1, <1>2, DataIs, ProvisionServed
  <1>7. a \in db'.enrolled
    BY <1>3, <1>6 DEF Effect
  <1>8. run.todo \subseteq Totp /\ Totp \ db.enrolled \subseteq run.todo
    BY <1>1 DEF IInv, ProvisionSound
  <1>9. ProvisionSound' /\ EnrollmentSound'
    BY <1>1, <1>4, <1>6, <1>7, <1>8, ProvisionIs
       DEF ProvisionSound, EnrollmentSound, Agree, Linked, Present, BeforeWebAuthn, AfterTotp
  <1> QED
    BY <1>4, <1>5, <1>6, <1>9, ByProvision

LEMMA LaunchBrowserStep ==
  ASSUME IInv, LaunchBrowser, SameExperiment
  PROVE  IInv'
  <1>1. /\ run.command = "provision" /\ run.at = "totp" /\ run.todo = {} /\ Same
        /\ authenticator' = Present(golden) /\ Does("webauthn", WebAuthn \ db.enrolled)
        /\ UNCHANGED <<db, late, store, golden, active, dump, published, lock>>
    BY DEF LaunchBrowser, At, files
  <1>2. /\ run' \in RunStates /\ run'.command = "provision" /\ run'.at = "webauthn"
        /\ run'.todo = WebAuthn \ db.enrolled
    <2>1. "webauthn" \in Steps /\ WebAuthn \ db.enrolled \in SUBSET (Accounts \union Files)
          /\ run \in RunStates
      BY DataIs DEF Steps, ControlTypeOK, Accounts
    <2> QED
      BY <1>1, <2>1, DoesIs
  <1>3. ControlTypeOK' /\ RunSound' /\ EndSound'
    BY <1>1, <1>2, ProvisionGoesOn DEF AfterTotp, Accounts
  <1>4. authenticator' \in Snapshots
    BY <1>1, ProvisionIs, NothingKept DEF Present
  <1>5. DataInv'
    BY <1>1, <1>4, DataIs, SideKept, SideKeepsData
  <1>6. Totp \subseteq db.enrolled
    BY <1>1 DEF IInv, ProvisionSound
  <1>7. dump # Absent /\ Linked(dump, authenticator') => Agree(dump)
    BY <1>1, DataIs DEF DataInv, SecretsFollow
  <1>8. ProvisionSound' /\ EnrollmentSound'
    BY <1>1, <1>2, <1>6, <1>7, ProvisionIs
       DEF ProvisionSound, EnrollmentSound, Agree, Linked, Present, BeforeWebAuthn, AfterTotp
  <1> QED
    BY <1>2, <1>3, <1>5, <1>8, ByProvision

LEMMA CreateCredentialStep ==
  ASSUME IInv, NEW a \in Accounts, CreateCredential(a), SameExperiment
  PROVE  IInv'
  <1>1. PICK k \in FreshKeys :
          /\ Served(Req("start", a, k, 0))
          /\ authenticator' = With(authenticator, a, [key |-> k, count |-> 0])
          /\ run' = [run EXCEPT !.at = "created", !.account = a, !.key = k]
    BY Zenon DEF CreateCredential
  <1> DEFINE r == Req("start", a, k, 0)
             c == [key |-> k, count |-> 0]
  <1>2. /\ run.command = "provision" /\ run.at = "webauthn" /\ a \in run.todo /\ Same
        /\ Accepts(db, r) /\ db' = Serve(db, r) /\ late' = Standing(r)
        /\ UNCHANGED <<store, golden, active, dump, published, lock>>
    BY <1>1 DEF CreateCredential, At, Served, files
  <1>3. r \in Calls
    BY <1>2 DEF Calls, ProvisionCalls, At
  <1> HIDE DEF r
  <1>4. k \in Keys /\ \A q \in late : q.key # k
    BY FreshKeysAre
  <1>5. /\ run' \in RunStates /\ run'.command = "provision" /\ run'.at = "created"
        /\ run'.todo = run.todo /\ run'.account = a /\ run'.key = k
    BY <1>1, <1>2, <1>4, DataIs DEF ControlTypeOK, RunStates, RunRecords, Steps
  <1>6. ControlTypeOK' /\ RunSound' /\ EndSound'
    BY <1>2, <1>5, ProvisionIs, ProvisionGoesOn DEF AfterTotp
  <1>7. run.todo \subseteq WebAuthn
    BY <1>2 DEF IInv, ProvisionSound
  <1>8. c \in Credentials /\ c.key = k
    BY <1>4, DatasetAssumption DEF Credentials
  <1> HIDE DEF c
  <1>9. authenticator' \in Snapshots
    BY <1>1, <1>2, <1>7, <1>8, ProvisionIs, WithIs DEF Snapshots, c
  <1>10. /\ DOMAIN authenticator' = DOMAIN authenticator \union {a}
         /\ authenticator'[a] = c
         /\ \A b \in DOMAIN authenticator : b # a => authenticator'[b] = authenticator[b]
    BY <1>1 DEF With, c
  <1>11. /\ DataInv' /\ late' \subseteq late
         /\ db'.enrolled \cap Totp \subseteq DOMAIN store /\ Agree(db')
         /\ db.enrolled \subseteq db'.enrolled /\ db'.users = db.users
    BY <1>2, <1>3, <1>9, ProvisionServed
  <1>12. ASSUME dump # Absent, Linked(dump, authenticator')
         PROVE  Agree(dump)
    <2>1. PICK b \in DOMAIN dump.credential \cap DOMAIN authenticator' :
            dump.credential[b].key = authenticator'[b].key
      BY <1>12 DEF Linked
    <2>2. b # a
      BY <1>8, <1>10, <1>12, <2>1, FreshKeysNotDumped
    <2>3. Linked(dump, authenticator)
      BY <1>10, <2>1, <2>2 DEF Linked
    <2> QED
      BY <1>2, <1>12, <2>3, ProvisionIs
  <1>13. ProvisionSound'
    BY <1>2, <1>5, <1>7, <1>11, <1>12, ProvisionIs
       DEF ProvisionSound, Agree, Linked, Present, BeforeWebAuthn, AfterTotp
  <1>14. EnrollmentSound'
    BY <1>2, <1>4, <1>5, <1>7, <1>10, <1>11 DEF EnrollmentSound
  <1> QED
    BY <1>5, <1>6, <1>11, <1>13, <1>14, ByProvision

LEMMA RegisterCredentialStep ==
  ASSUME IInv, RegisterCredential, SameExperiment
  PROVE  IInv'
  <1> DEFINE r == Req("confirm", run.account, run.key, 0)
  <1>1. /\ run.command = "provision" /\ run.at = "created" /\ Same
        /\ Accepts(db, r) /\ db' = Serve(db, r) /\ late' = Standing(r)
        /\ Goes("registered")
        /\ UNCHANGED <<store, golden, active, dump, published, lock, authenticator>>
    BY DEF RegisterCredential, At, Served, files
  <1>2. r \in Calls
    BY <1>1 DEF Calls, ProvisionCalls, At
  <1> HIDE DEF r
  <1>3. /\ run' \in RunStates /\ run'.command = "provision" /\ run'.at = "registered"
        /\ run'.todo = run.todo
    <2>1. "registered" \in Steps /\ run \in RunStates
      BY DataIs DEF Steps, ControlTypeOK
    <2> QED
      BY <1>1, <2>1, GoesIs
  <1>4. ControlTypeOK' /\ RunSound' /\ EndSound'
    BY <1>1, <1>3, ProvisionIs, ProvisionGoesOn DEF AfterTotp
  <1>5. /\ DataInv' /\ db'.enrolled \cap Totp \subseteq DOMAIN store /\ Agree(db')
        /\ db.enrolled \subseteq db'.enrolled /\ db'.users = db.users
    BY <1>1, <1>2, DataIs, ProvisionServed
  <1>6. run.todo \subseteq WebAuthn /\ DOMAIN authenticator # {}
    BY <1>1 DEF IInv, ProvisionSound, EnrollmentSound
  <1>7. ProvisionSound' /\ EnrollmentSound'
    BY <1>1, <1>3, <1>5, <1>6, ProvisionIs
       DEF ProvisionSound, EnrollmentSound, Agree, Linked, Present, BeforeWebAuthn, AfterTotp
  <1> QED
    BY <1>3, <1>4, <1>5, <1>7, ByProvision

\* The golden snapshot is written while provision knows that the secrets agree.
LEMMA SaveGoldenKeepsData ==
  ASSUME IInv, run.command = "provision", SaveGolden, DOMAIN authenticator # {}
  PROVE  DataInv'
  <1>1. /\ golden' = authenticator
        /\ UNCHANGED <<db, late, store, active, dump, published, lock, authenticator>>
    BY DEF SaveGolden
  <1>2. Side'
    BY <1>1, DataIs, SideKept
  <1>3. DatasetTypeOK' /\ KeptSound'
    BY <1>1, DataIs DEF DatasetTypeOK, KeptSound, DatabaseSound, DataInv
  <1>4. LateSound'
    BY <1>1, DataIs DEF DataInv, LateSound, CallSound, Live, Apart
  <1>5. authenticator # Absent
    BY DataIs, AbsentAssumption
  <1>6. SecretsFollow'
    BY <1>1, <1>5, ProvisionIs DEF SecretsFollow, Agree, Linked, Present
  <1> QED
    BY <1>3, <1>4, <1>6 DEF DataInv

LEMMA SaveEnrolledStep ==
  ASSUME IInv, SaveEnrolled, SameExperiment
  PROVE  IInv'
  <1>1. /\ run.command = "provision" /\ run.at = "registered" /\ Same /\ SaveGolden
        /\ Does("webauthn", run.todo \ {run.account}) /\ golden' = authenticator
        /\ UNCHANGED <<db, late, store, active, dump, published, lock, authenticator>>
    BY DEF SaveEnrolled, At, SaveGolden
  <1>2. /\ run' \in RunStates /\ run'.command = "provision" /\ run'.at = "webauthn"
        /\ run'.todo = run.todo \ {run.account}
    <2>1. "webauthn" \in Steps /\ run.todo \ {run.account} \in SUBSET (Accounts \union Files)
          /\ run \in RunStates
      BY <1>1, ProvisionIs, DataIs DEF Steps, ControlTypeOK
    <2> QED
      BY <1>1, <2>1, DoesIs
  <1>3. ControlTypeOK' /\ RunSound' /\ EndSound'
    BY <1>1, <1>2, ProvisionIs, ProvisionGoesOn DEF AfterTotp
  <1>4. run.todo \subseteq WebAuthn /\ DOMAIN authenticator # {}
    BY <1>1 DEF IInv, ProvisionSound, EnrollmentSound
  <1>5. DataInv'
    BY <1>1, <1>4, SaveGoldenKeepsData
  <1>6. ProvisionSound' /\ EnrollmentSound'
    BY <1>1, <1>2, <1>4, ProvisionIs
       DEF ProvisionSound, EnrollmentSound, Agree, Linked, Present, BeforeWebAuthn, AfterTotp
  <1> QED
    BY <1>2, <1>3, <1>5, <1>6, ByProvision

LEMMA WebAuthnDoneStep ==
  ASSUME IInv, WebAuthnDone, SameExperiment
  PROVE  IInv'
  <1>1. /\ run.command = "provision" /\ run.at = "webauthn" /\ Same /\ Does("dryrun", Sample)
        /\ UNCHANGED <<db, late, store, golden, active, dump, published, lock, authenticator>>
    BY DEF WebAuthnDone, At, SameData, datasetVars
  <1>2. /\ run' \in RunStates /\ run'.command = "provision" /\ run'.at = "dryrun"
        /\ run'.todo = Sample
    <2>1. "dryrun" \in Steps /\ Sample \in SUBSET (Accounts \union Files)
          /\ run \in RunStates
      BY DataIs, ProvisioningAssumption DEF Steps, ControlTypeOK
    <2> QED
      BY <1>1, <2>1, DoesIs
  <1>3. ControlTypeOK' /\ RunSound' /\ EndSound'
    BY <1>1, <1>2, ProvisioningAssumption, ProvisionGoesOn DEF AfterTotp
  <1>4. DataInv'
    BY <1>1, DataIs, SideKept, SideKeepsData
  <1>5. ProvisionSound' /\ EnrollmentSound'
    BY <1>1, <1>2, ProvisionIs
       DEF ProvisionSound, EnrollmentSound, Agree, Linked, Present, BeforeWebAuthn, AfterTotp
  <1> QED
    BY <1>2, <1>3, <1>4, <1>5, ByProvision

LEMMA DryLoginStep ==
  ASSUME IInv, NEW a \in Accounts, DryLogin(a), SameExperiment
  PROVE  IInv'
  <1> DEFINE r == Req("login", a, NoKey, 0)
  <1>1. /\ run.command = "provision" /\ run.at = "dryrun" /\ a \in run.todo /\ Same
        /\ NextInDryRun(a) /\ CanAssert(a)
        /\ Accepts(db, r) /\ db' = Serve(db, r) /\ late' = Standing(r)
        /\ UNCHANGED <<store, golden, active, dump, published, lock, authenticator>>
        /\ IF a \in Email THEN Does("dryrun", run.todo \ {a})
           ELSE run' = [run EXCEPT !.at = "pending", !.account = a]
    BY DEF DryLogin, At, Served, NextInDryRun, files
  <1>2. r \in Calls
    BY <1>1 DEF Calls, ProvisionCalls, At
  <1> HIDE DEF r
  <1>3. /\ DataInv' /\ db'.enrolled \cap Totp \subseteq DOMAIN store /\ Agree(db')
        /\ db.enrolled \subseteq db'.enrolled /\ db'.users = db.users
    BY <1>1, <1>2, DataIs, ProvisionServed
  <1>4. CASE a \in Email
    <2>1. /\ run' \in RunStates /\ run'.command = "provision" /\ run'.at = "dryrun"
          /\ run'.todo = run.todo \ {a}
      <3>1. "dryrun" \in Steps /\ run.todo \ {a} \in SUBSET (Accounts \union Files)
            /\ run \in RunStates
        BY <1>1, ProvisionIs, DataIs DEF Steps, ControlTypeOK
      <3> QED
        BY <1>1, <1>4, <3>1, DoesIs
    <2>2. ControlTypeOK' /\ RunSound' /\ EndSound'
      BY <1>1, <2>1, ProvisionIs, ProvisionGoesOn DEF AfterTotp
    <2>3. ProvisionSound' /\ EnrollmentSound'
      BY <1>1, <1>3, <2>1, ProvisionIs
         DEF ProvisionSound, EnrollmentSound, Agree, Linked, Present, BeforeWebAuthn, AfterTotp
    <2> QED
      BY <1>3, <2>1, <2>2, <2>3, ByProvision
  <1>5. CASE a \notin Email
    <2>1. /\ run' \in RunStates /\ run'.command = "provision" /\ run'.at = "pending"
          /\ run'.todo = run.todo /\ run'.account = a
      <3>1. run' = [run EXCEPT !.at = "pending", !.account = a] /\ run.command = "provision"
        BY <1>1, <1>5
      <3>2. run \in RunStates /\ "pending" \in Steps
        BY DataIs DEF ControlTypeOK, Steps
      <3> QED
        BY <3>1, <3>2 DEF RunStates, RunRecords
    <2>2. ControlTypeOK' /\ RunSound' /\ EndSound'
      BY <1>1, <2>1, ProvisionIs, ProvisionGoesOn DEF AfterTotp
    <2>3. ProvisionSound'
      BY <1>1, <1>3, <2>1, ProvisionIs
         DEF ProvisionSound, Agree, Linked, Present, BeforeWebAuthn, AfterTotp
    <2>4. a \in Keyed
      BY <1>5 DEF Accounts, Keyed
    <2>5. EnrollmentSound'
      BY <1>1, <2>1, <2>4 DEF EnrollmentSound, CanAssert
    <2> QED
      BY <1>3, <2>1, <2>2, <2>3, <2>5, ByProvision
  <1> QED
    BY <1>4, <1>5

\* The counter of a credential in memory grows within its bound.
LEMMA AssertedIs ==
  ASSUME IInv, NEW a \in WebAuthn, CanAssert(a),
         authenticator' = [authenticator EXCEPT ![a].count = @ + 1]
  PROVE  /\ authenticator' \in Snapshots /\ DOMAIN authenticator' = DOMAIN authenticator
         /\ a \in DOMAIN authenticator
         /\ \A b \in DOMAIN authenticator : authenticator'[b].key = authenticator[b].key
         /\ authenticator'[a].count = authenticator[a].count + 1
         /\ \A b \in DOMAIN authenticator : b # a => authenticator'[b] = authenticator[b]
  <1>1. a \in DOMAIN authenticator /\ authenticator[a].count < MaxCount
    BY DEF CanAssert
  <1>2. authenticator \in Snapshots /\ authenticator \in Stores(WebAuthn, Credentials)
    BY DataIs DEF Snapshots
  <1>3. authenticator[a] \in Credentials
    BY <1>1, <1>2, StoreIs
  <1> DEFINE n == authenticator[a].count + 1
  <1>4. n \in 0..MaxCount
    BY <1>1, <1>3, DatasetAssumption DEF Credentials
  <1>5. Advanced(authenticator, a, n, Advance(authenticator, a, n))
    <2> HIDE DEF n
    <2> QED
      BY <1>1, <1>2, <1>4, CountedIs
  <1>6. authenticator' = Advance(authenticator, a, n)
    BY DEF Advance
  <1> QED
    BY <1>1, <1>5, <1>6 DEF Advanced

LEMMA DryVerifyStep ==
  ASSUME IInv, DryVerify, SameExperiment
  PROVE  IInv'
  <1> DEFINE a == run.account
             r == Answer(a)
  <1>1. /\ run.command = "provision" /\ run.at = "pending" /\ Same
        /\ Accepts(db, r) /\ db' = Serve(db, r) /\ late' = Standing(r)
        /\ authenticator' = IF a \in Totp THEN authenticator
                            ELSE [authenticator EXCEPT ![a].count = @ + 1]
        /\ Does(IF a \in Totp THEN "dryrun" ELSE "verified", run.todo \ {a})
        /\ UNCHANGED <<store, golden, active, dump, published, lock>>
    BY DEF DryVerify, At, Served, files
  <1>2. r \in Calls
    BY <1>1 DEF Calls, ProvisionCalls, At
  <1>3. a \in Keyed /\ CanAssert(a)
    BY <1>1 DEF IInv, EnrollmentSound
  <1> HIDE DEF a, r
  <1>4. CASE a \in Totp
    <2>1. /\ run' \in RunStates /\ run'.command = "provision" /\ run'.at = "dryrun"
          /\ run'.todo = run.todo \ {a}
      <3>1. "dryrun" \in Steps /\ run.todo \ {a} \in SUBSET (Accounts \union Files)
            /\ run \in RunStates /\ Does("dryrun", run.todo \ {a})
        BY <1>1, <1>4, ProvisionIs, DataIs DEF Steps, ControlTypeOK
      <3> QED
        BY <1>1, <3>1, DoesIs
    <2>2. ControlTypeOK' /\ RunSound' /\ EndSound'
      BY <1>1, <2>1, ProvisionIs, ProvisionGoesOn DEF AfterTotp
    <2>3. authenticator' = authenticator
      BY <1>1, <1>4
    <2>4. /\ DataInv' /\ db'.enrolled \cap Totp \subseteq DOMAIN store /\ Agree(db')
          /\ db.enrolled \subseteq db'.enrolled /\ db'.users = db.users
      BY <1>1, <1>2, <2>3, DataIs, ProvisionServed
    <2>5. ProvisionSound' /\ EnrollmentSound'
      BY <1>1, <2>1, <2>3, <2>4, ProvisionIs
         DEF ProvisionSound, EnrollmentSound, Agree, Linked, Present, BeforeWebAuthn, AfterTotp
    <2> QED
      BY <2>1, <2>2, <2>4, <2>5, ByProvision
  <1>5. CASE a \notin Totp
    <2>1. /\ run' \in RunStates /\ run'.command = "provision" /\ run'.at = "verified"
          /\ run'.todo = run.todo \ {a}
      <3>1. "verified" \in Steps /\ run.todo \ {a} \in SUBSET (Accounts \union Files)
            /\ run \in RunStates /\ Does("verified", run.todo \ {a})
        BY <1>1, <1>5, ProvisionIs, DataIs DEF Steps, ControlTypeOK
      <3> QED
        BY <1>1, <3>1, DoesIs
    <2>2. ControlTypeOK' /\ RunSound' /\ EndSound'
      BY <1>1, <2>1, ProvisionIs, ProvisionGoesOn DEF AfterTotp
    <2>3. a \in WebAuthn /\ authenticator' = [authenticator EXCEPT ![a].count = @ + 1]
      BY <1>1, <1>3, <1>5 DEF Keyed
    <2>4. /\ authenticator' \in Snapshots /\ DOMAIN authenticator' = DOMAIN authenticator
          /\ a \in DOMAIN authenticator
          /\ \A b \in DOMAIN authenticator : authenticator'[b].key = authenticator[b].key
      BY <1>3, <2>3, AssertedIs
    <2>5. /\ DataInv' /\ db'.enrolled \cap Totp \subseteq DOMAIN store /\ Agree(db')
          /\ db.enrolled \subseteq db'.enrolled /\ db'.users = db.users
      BY <1>1, <1>2, <2>4, ProvisionServed
    <2>6. Linked(dump, authenticator') => Linked(dump, authenticator)
      BY <2>4 DEF Linked
    <2>7. ProvisionSound' /\ EnrollmentSound'
      BY <1>1, <2>1, <2>4, <2>5, <2>6, ProvisionIs
         DEF ProvisionSound, EnrollmentSound, Agree, Linked, Present, BeforeWebAuthn, AfterTotp
    <2> QED
      BY <2>1, <2>2, <2>5, <2>7, ByProvision
  <1> QED
    BY <1>4, <1>5

LEMMA SaveDryRunStep ==
  ASSUME IInv, SaveDryRun, SameExperiment
  PROVE  IInv'
  <1>1. /\ run.command = "provision" /\ run.at = "verified" /\ Same /\ SaveGolden
        /\ Goes("clean") /\ golden' = authenticator
        /\ UNCHANGED <<db, late, store, active, dump, published, lock, authenticator>>
    BY DEF SaveDryRun, At, SaveGolden
  <1>2. /\ run' \in RunStates /\ run'.command = "provision" /\ run'.at = "clean"
        /\ run'.todo = run.todo
    <2>1. "clean" \in Steps /\ run \in RunStates
      BY DataIs DEF Steps, ControlTypeOK
    <2> QED
      BY <1>1, <2>1, GoesIs
  <1>3. ControlTypeOK' /\ RunSound' /\ EndSound'
    BY <1>1, <1>2, ProvisionIs, ProvisionGoesOn DEF AfterTotp
  <1>4. DataInv'
    BY <1>1, SaveGoldenKeepsData DEF IInv, EnrollmentSound
  <1>5. ProvisionSound' /\ EnrollmentSound'
    BY <1>1, <1>2, ProvisionIs
       DEF ProvisionSound, EnrollmentSound, Agree, Linked, Present, BeforeWebAuthn, AfterTotp
  <1> QED
    BY <1>2, <1>3, <1>4, <1>5, ByProvision

LEMMA CleanAfterDryRunStep ==
  ASSUME IInv, CleanAfterDryRun, SameExperiment
  PROVE  IInv'
  <1>1. /\ run.command = "provision" /\ run.at = "clean" /\ Same /\ Goes("publish")
        /\ db' = WithoutChallenges(db)
        /\ UNCHANGED <<late, store, golden, active, dump, published, lock, authenticator>>
    BY DEF CleanAfterDryRun, CleanUp, At, files
  <1>2. /\ run' \in RunStates /\ run'.command = "provision" /\ run'.at = "publish"
        /\ run'.todo = run.todo
    <2>1. "publish" \in Steps /\ run \in RunStates
      BY DataIs DEF Steps, ControlTypeOK
    <2> QED
      BY <1>1, <2>1, GoesIs
  <1>3. ControlTypeOK' /\ RunSound' /\ EndSound'
    BY <1>1, <1>2, ProvisionIs, ProvisionGoesOn DEF AfterTotp
  <1>4. DataInv'
    BY <1>1, DataIs, SideKept, CleanUpKeepsData
  <1>5. UNCHANGED <<db.users, db.enrolled, db.secret>>
    BY <1>1, DataIs, WithoutChallengesIs
  <1>6. ProvisionSound' /\ EnrollmentSound'
    BY <1>1, <1>2, <1>5, ProvisionIs
       DEF ProvisionSound, EnrollmentSound, Agree, Linked, Present, BeforeWebAuthn, AfterTotp
  <1> QED
    BY <1>2, <1>3, <1>4, <1>6, ByProvision

LEMMA PublishStep ==
  ASSUME IInv, Publish, SameExperiment
  PROVE  IInv'
  <1>1. /\ run.command = "provision" /\ run.at = "publish" /\ Same /\ Goes("validate")
        /\ published' = db.epoch
        /\ UNCHANGED <<db, late, store, golden, active, dump, lock, authenticator>>
    BY DEF Publish, At
  <1>2. /\ run' \in RunStates /\ run'.command = "provision" /\ run'.at = "validate"
        /\ run'.todo = run.todo
    <2>1. "validate" \in Steps /\ run \in RunStates
      BY DataIs DEF Steps, ControlTypeOK
    <2> QED
      BY <1>1, <2>1, GoesIs
  <1>3. ControlTypeOK' /\ RunSound' /\ EndSound'
    BY <1>1, <1>2, ProvisionIs, ProvisionGoesOn DEF AfterTotp
  <1>4. Side'
    BY <1>1, DataIs, TablesAre DEF Side
  <1>5. DataInv'
    BY <1>1, <1>4, SideKeepsData
  <1>6. ProvisionSound' /\ EnrollmentSound'
    BY <1>1, <1>2, ProvisionIs
       DEF ProvisionSound, EnrollmentSound, Agree, Linked, Present, BeforeWebAuthn, AfterTotp
  <1> QED
    BY <1>2, <1>3, <1>5, <1>6, ByProvision

LEMMA ValidateStep ==
  ASSUME IInv, Validate, SameExperiment
  PROVE  IInv'
  <1>1. /\ run.command = "provision" /\ run.at = "validate" /\ Same /\ Goes("dump")
        /\ ValidDataset
        /\ UNCHANGED <<db, late, store, golden, active, dump, published, lock, authenticator>>
    BY DEF Validate, At, SameData, datasetVars
  <1>2. /\ run' \in RunStates /\ run'.command = "provision" /\ run'.at = "dump"
        /\ run'.todo = run.todo
    <2>1. "dump" \in Steps /\ run \in RunStates
      BY DataIs DEF Steps, ControlTypeOK
    <2> QED
      BY <1>1, <2>1, GoesIs
  <1>3. ControlTypeOK' /\ RunSound'
    BY <1>1, <1>2, ProvisionIs, ProvisionGoesOn DEF AfterTotp
  <1>4. DataInv'
    BY <1>1, DataIs, SideKept, SideKeepsData
  <1>5. ProvisionSound' /\ EnrollmentSound'
    BY <1>1, <1>2, ProvisionIs
       DEF ProvisionSound, EnrollmentSound, Agree, Linked, Present, BeforeWebAuthn, AfterTotp
  <1>6. /\ Complete /\ Quiet /\ golden = db.credential
        /\ published = db.epoch /\ db.secret = store
    BY <1>1, ValidIs
  <1>7. EndSound'
    BY <1>1, <1>2, <1>6, IdleIs DEF EndSound, At, JustEnded, Complete, Quiet, Live
  <1> QED
    BY <1>2, <1>3, <1>4, <1>5, <1>7, ByProvision

\* The dump is made of a complete database.
LEMMA DumpKeepsData ==
  ASSUME IInv, db.enrolled = Accounts, dump' = db,
         UNCHANGED <<db, late, store, golden, active, published, lock>>,
         authenticator' \in Snapshots
  PROVE  DataInv'
  <1>1. Side'
    BY DataIs, SideKept
  <1>2. DatasetTypeOK' /\ KeptSound'
    BY <1>1, DataIs DEF DatasetTypeOK, KeptSound, DatabaseSound, DataInv, Side
  <1>3. LateSound'
    BY DataIs DEF DataInv, LateSound, CallSound, Live, Apart
  <1>4. SecretsFollow'
    BY DataIs DEF DataInv, SecretsFollow, Agree, Linked, Present
  <1> QED
    BY <1>2, <1>3, <1>4 DEF DataInv

LEMMA DumpProvisionedStep ==
  ASSUME IInv, DumpProvisioned, SameExperiment
  PROVE  IInv'
  <1>1. /\ run.command = "provision" /\ run.at = "dump" /\ Same /\ Goes("finally")
        /\ dump' = db
        /\ UNCHANGED <<db, late, store, golden, active, published, lock, authenticator>>
    BY DEF DumpProvisioned, WriteDump, At
  <1>2. /\ run' \in RunStates /\ run'.command = "provision" /\ run'.at = "finally"
        /\ run'.todo = run.todo
    <2>1. "finally" \in Steps /\ run \in RunStates
      BY DataIs DEF Steps, ControlTypeOK
    <2> QED
      BY <1>1, <2>1, GoesIs
  <1>3. ControlTypeOK' /\ RunSound'
    BY <1>1, <1>2, ProvisionIs, ProvisionGoesOn DEF AfterTotp
  <1>4. /\ Complete /\ Quiet /\ golden = db.credential
        /\ published = db.epoch /\ db.secret = store
    BY <1>1 DEF IInv, EndSound, At
  <1>5. DataInv'
    BY <1>1, <1>4, DataIs, DumpKeepsData DEF Complete
  <1>6. ProvisionSound' /\ EnrollmentSound'
    BY <1>1, <1>2, ProvisionIs
       DEF ProvisionSound, EnrollmentSound, Agree, Linked, Present, BeforeWebAuthn, AfterTotp
  <1>7. dump' # Absent
    BY <1>1, DataIs, AbsentAssumption
  <1>8. EndSound'
    BY <1>1, <1>2, <1>4, <1>7, IdleIs DEF EndSound, At, JustEnded, Complete, Quiet, Live
  <1> QED
    BY <1>2, <1>3, <1>5, <1>6, <1>8, ByProvision

LEMMA ProvisionEndStep ==
  ASSUME IInv, ProvisionEnd, SameExperiment
  PROVE  IInv'
  <1>1. /\ run.command = "provision" /\ run.at = "finally" /\ Completes
        /\ run' = Idle /\ authenticator' = Nothing /\ db' = WithoutChallenges(db)
        /\ UNCHANGED <<late, store, golden, active, dump, published, lock>>
        /\ UNCHANGED <<approved, round, invalid>>
    BY DEF ProvisionEnd, Completes, At, files, SameExperiment, experimentVars
  <1>2. DataInv'
    BY <1>1, NothingKept, SideKept, CleanUpKeepsData
  <1>3. ControlTypeOK' /\ last'.command = "provision"
    <2>1. approved' \subseteq Artifacts /\ round' \in 0..Rounds /\ invalid' \subseteq Accounts
      BY <1>1, DataIs DEF ControlTypeOK
    <2> QED
      BY <1>1, <2>1, CompletesControl
  <1>4. /\ Complete /\ Quiet /\ golden = db.credential
        /\ published = db.epoch /\ db.secret = store
        /\ dump # Absent /\ dump.epoch = db.epoch
        /\ dump.credential = golden /\ dump.secret = store
    BY <1>1 DEF IInv, EndSound, At
  <1>5. /\ UNCHANGED <<db.epoch, db.users, db.enrolled, db.secret, db.credential>>
        /\ DOMAIN db'.offered = {} /\ db'.logins = {}
    BY <1>1, DataIs, WithoutChallengesIs
  <1>6. EndSound'
    <2>1. Quiet'
      BY <1>5 DEF Quiet, Live
    <2> QED
      BY <1>1, <1>3, <1>4, <1>5, <2>1, IdleIs DEF EndSound, At, JustEnded, Complete
  <1> QED
    BY <1>1, <1>2, <1>3, <1>6, ByNobody

LEMMA ProvisionStep ==
  ASSUME IInv, Provision, SameExperiment
  PROVE  IInv'
  <1>1. CASE \E a \in Accounts :
               SwitchEmail(a) \/ StartTotp(a) \/ CreateCredential(a) \/ DryLogin(a)
    BY <1>1, SwitchEmailStep, StartTotpStep, CreateCredentialStep, DryLoginStep
  <1>2. CASE ProvisionStart \/ SeedBatch \/ SeedDone \/ EmailDone \/ WriteSecret \/ ConfirmTotp
    BY <1>2, ProvisionStartStep, SeedBatchStep, SeedDoneStep, EmailDoneStep,
       WriteSecretStep, ConfirmTotpStep
  <1>3. CASE LaunchBrowser \/ RegisterCredential \/ SaveEnrolled \/ WebAuthnDone \/ DryVerify
    BY <1>3, LaunchBrowserStep, RegisterCredentialStep, SaveEnrolledStep,
       WebAuthnDoneStep, DryVerifyStep
  <1>4. CASE SaveDryRun \/ CleanAfterDryRun \/ Publish \/ Validate \/ DumpProvisioned \/ ProvisionEnd
    BY <1>4, SaveDryRunStep, CleanAfterDryRunStep, PublishStep, ValidateStep,
       DumpProvisionedStep, ProvisionEndStep
  <1> QED
    BY <1>1, <1>2, <1>3, <1>4 DEF Provision

-----------------------------------------------------------------------------
(* snapshot, restore and reset                                             *)

LEMMA SnapshotStartStep ==
  ASSUME IInv, SnapshotStart, SameExperiment
  PROVE  IInv'
  <1>1. /\ ValidDataset /\ Begins("snapshot", "none", "dump", {})
        /\ UNCHANGED <<db, late, store, golden, active, dump, published, lock, authenticator>>
        /\ UNCHANGED <<approved, round, invalid>>
    BY DEF SnapshotStart, SameData, datasetVars, SameExperiment, experimentVars
  <1>2. /\ ControlTypeOK' /\ run'.command = "snapshot" /\ run'.at = "dump"
        /\ run'.todo = {} /\ last' = NoCommand
    <2>1. /\ "snapshot" \in Commands /\ "none" \in RunModes /\ "dump" \in Steps
          /\ {} \in SUBSET (Accounts \union Files)
      BY DEF Commands, RunModes, Steps
    <2>2. approved' \subseteq Artifacts /\ round' \in 0..Rounds /\ invalid' \subseteq Accounts
      BY <1>1, DataIs DEF ControlTypeOK
    <2> QED
      BY <1>1, <2>1, <2>2, BeginsControl
  <1>3. DataInv'
    BY <1>1, DataIs, SideKept, SideKeepsData
  <1>4. RunSound'
    BY <1>2 DEF RunSound, StepsOf
  <1>5. Complete /\ Quiet /\ golden = db.credential
    BY <1>1, ValidIs
  <1>6. EndSound'
    BY <1>1, <1>2, <1>5, IdleIs DEF EndSound, At, JustEnded, Complete, Quiet, Live
  <1> QED
    BY <1>2, <1>3, <1>4, <1>6, ByOthers

LEMMA SnapshotEndStep ==
  ASSUME IInv, SnapshotEnd, SameExperiment
  PROVE  IInv'
  <1>1. /\ run.command = "snapshot" /\ run.at = "dump" /\ Completes /\ dump' = db
        /\ run' = Idle /\ authenticator' = Nothing
        /\ UNCHANGED <<db, late, store, golden, active, published, lock>>
        /\ UNCHANGED <<approved, round, invalid>>
    BY DEF SnapshotEnd, WriteDump, Completes, At, SameExperiment, experimentVars
  <1>2. db.enrolled = Accounts
    BY <1>1 DEF IInv, EndSound, At, Complete
  <1>3. DataInv'
    BY <1>1, <1>2, NothingKept, DumpKeepsData
  <1>4. ControlTypeOK' /\ last'.command = "snapshot"
    <2>1. approved' \subseteq Artifacts /\ round' \in 0..Rounds /\ invalid' \subseteq Accounts
      BY <1>1, DataIs DEF ControlTypeOK
    <2> QED
      BY <1>1, <2>1, CompletesControl
  <1>5. EndSound'
    BY <1>1, <1>4, IdleIs DEF EndSound, At, JustEnded
  <1> QED
    BY <1>1, <1>3, <1>4, <1>5, ByNobody

LEMMA RestoreStartStep ==
  ASSUME IInv, RestoreStart, SameExperiment
  PROVE  IInv'
  <1>1. /\ dump # Absent /\ Begins("restore", "none", "restore", {})
        /\ UNCHANGED <<db, late, store, golden, active, dump, published, lock, authenticator>>
        /\ UNCHANGED <<approved, round, invalid>>
    BY DEF RestoreStart, SameData, datasetVars, SameExperiment, experimentVars
  <1>2. /\ ControlTypeOK' /\ run'.command = "restore" /\ run'.at = "restore"
        /\ run'.todo = {} /\ last' = NoCommand
    <2>1. /\ "restore" \in Commands /\ "none" \in RunModes /\ "restore" \in Steps
          /\ {} \in SUBSET (Accounts \union Files)
      BY DEF Commands, RunModes, Steps
    <2>2. approved' \subseteq Artifacts /\ round' \in 0..Rounds /\ invalid' \subseteq Accounts
      BY <1>1, DataIs DEF ControlTypeOK
    <2> QED
      BY <1>1, <2>1, <2>2, BeginsControl
  <1>3. DataInv'
    BY <1>1, DataIs, SideKept, SideKeepsData
  <1>4. RunSound'
    BY <1>1, <1>2 DEF RunSound, StepsOf
  <1>5. EndSound'
    BY <1>2, IdleIs DEF EndSound, At, JustEnded
  <1> QED
    BY <1>2, <1>3, <1>4, <1>5, ByOthers

\* A database whose secrets agree wherever the files leave them to agree, and
\* no calls under way.
LEMMA ReplacedKeepsData ==
  ASSUME IInv, db' \in Databases, DatabaseSound(db'), late' = {},
         UNCHANGED <<store, golden, active, dump, published, lock>>,
         authenticator' \in Snapshots,
         ~(WebAuthn \subseteq db'.enrolled) \/ Linked(db', Present(golden)) => Agree(db')
  PROVE  DataInv'
  <1>1. Side'
    BY DataIs, SideKept
  <1>2. Cardinality(late') <= MaxLate
    BY DataIs, FewerLate
  <1>3. DatasetTypeOK'
    BY <1>1, <1>2, DataIs DEF DatasetTypeOK, DataInv, Side
  <1>4. KeptSound'
    BY <1>1, DataIs DEF KeptSound, DatabaseSound, DataInv, Side
  <1>5. LateSound'
    BY DEF LateSound
  <1>6. SecretsFollow'
    BY DataIs DEF DataInv, SecretsFollow, Agree, Linked, Present
  <1> QED
    BY <1>3, <1>4, <1>5, <1>6 DEF DataInv

\* A database without an account.
LEMMA EmptyIs ==
  /\ Empty \in Databases /\ DatabaseSound(Empty) /\ Agree(Empty)
  /\ Empty.epoch = NoEpoch /\ Empty.users = {} /\ Empty.enrolled = {} /\ Empty.logins = {}
  /\ DOMAIN Empty.offered = {} /\ DOMAIN Empty.credential = {} /\ DOMAIN Empty.secret = {}
  <1>1. /\ Empty.epoch = NoEpoch /\ Empty.users = {} /\ Empty.enrolled = {}
        /\ Empty.logins = {} /\ Empty.offered = Nothing /\ Empty.credential = Nothing
        /\ Empty.secret = Nothing
    BY DEF Empty
  <1>2. /\ Nothing \in Stores(Totp, Keys) /\ Nothing \in Stores(Keyed, Keys)
        /\ Nothing \in Snapshots /\ DOMAIN Nothing = {}
    BY NothingIs, NothingKept
  <1>3. Empty \in Databases
    BY <1>2 DEF Empty, Databases
  <1>4. DatabaseSound(Empty) /\ Agree(Empty)
    BY <1>1, <1>2 DEF DatabaseSound, Agree
  <1> QED
    BY <1>1, <1>2, <1>3, <1>4

\* What a restore that stopped half-way leaves of the dump.
Broken(d) == [d EXCEPT !.credential = Nothing, !.offered = Nothing, !.logins = {}]

LEMMA BrokenIs ==
  ASSUME NEW d \in Databases, DatabaseSound(d), d.enrolled = Accounts
  PROVE  /\ Broken(d) \in Databases /\ DatabaseSound(Broken(d))
         /\ WebAuthn \subseteq Broken(d).enrolled /\ \A s : ~Linked(Broken(d), s)
  <1> DEFINE e == Broken(d)
  <1>1. /\ Nothing \in Snapshots /\ Nothing \in Stores(Keyed, Keys) /\ DOMAIN Nothing = {}
    BY NothingIs, NothingKept
  <1>2. e \in Databases
    BY <1>1 DEF Broken, Databases
  <1>3. /\ e.credential = Nothing /\ e.offered = Nothing /\ e.logins = {}
        /\ e.epoch = d.epoch /\ e.users = d.users /\ e.enrolled = d.enrolled
        /\ e.secret = d.secret
    BY DEF Broken, Databases
  <1> HIDE DEF e
  <1>4. DatabaseSound(e)
    BY <1>1, <1>3 DEF DatabaseSound
  <1>5. WebAuthn \subseteq e.enrolled
    BY <1>3 DEF Accounts
  <1>6. \A s : ~Linked(e, s)
    BY <1>1, <1>3 DEF Linked
  <1> QED
    BY <1>2, <1>4, <1>5, <1>6 DEF e

LEMMA DumpIs ==
  ASSUME IInv, dump # Absent
  PROVE  /\ dump \in Databases /\ DatabaseSound(dump) /\ dump.enrolled = Accounts
         /\ WebAuthn \subseteq dump.enrolled
         /\ Linked(dump, Present(golden)) => Agree(dump)
  BY DataIs DEF DataInv, DatasetTypeOK, KeptSound, SecretsFollow, Accounts

LEMMA RestoreEndStep ==
  ASSUME IInv, RestoreEnd, SameExperiment
  PROVE  IInv'
  <1>1. /\ run.command = "restore" /\ Completes /\ db' = dump /\ late' = {}
        /\ run' = Idle /\ authenticator' = Nothing
        /\ UNCHANGED <<store, golden, active, dump, published, lock>>
        /\ UNCHANGED <<approved, round, invalid>>
    BY DEF RestoreEnd, Completes, At, files, SameExperiment, experimentVars
  <1>2. dump # Absent
    BY <1>1, DataIs DEF RunSound
  <1>3. DataInv'
    BY <1>1, <1>2, DumpIs, NothingKept, ReplacedKeepsData
  <1>4. ControlTypeOK' /\ last'.command = "restore"
    <2>1. approved' \subseteq Artifacts /\ round' \in 0..Rounds /\ invalid' \subseteq Accounts
      BY <1>1, DataIs DEF ControlTypeOK
    <2> QED
      BY <1>1, <2>1, CompletesControl
  <1>5. EndSound'
    BY <1>1, <1>4, IdleIs DEF EndSound, At, JustEnded
  <1> QED
    BY <1>1, <1>3, <1>4, <1>5, ByNobody

\* The control of a step that ends a command without its promise.
LEMMA AbortsControl ==
  ASSUME IInv, Aborts, faults' = faults \/ Faulty,
         approved' \subseteq Artifacts, round' \in 0..Rounds, invalid' \subseteq Accounts
  PROVE  ControlTypeOK'
  <1>1. run' = Idle /\ UNCHANGED <<last, started>>
    BY DEF Aborts
  <1>2. faults' \in 0..MaxFaults
    BY DataIs, ProvisioningAssumption DEF ControlTypeOK, Faulty
  <1> QED
    BY <1>1, <1>2, DataIs, IdleIs DEF ControlTypeOK

LEMMA RestoreBrokenStep ==
  ASSUME IInv, RestoreBroken, SameExperiment
  PROVE  IInv'
  <1>1. /\ run.command = "restore" /\ Aborts /\ Faulty /\ late' = {}
        /\ authenticator' = Nothing
        /\ UNCHANGED <<store, golden, active, dump, published, lock>>
        /\ UNCHANGED <<approved, round, invalid>>
    BY DEF RestoreBroken, Aborts, At, files, SameExperiment, experimentVars
  <1>2. \/ db' = Empty
        \/ db' = [dump EXCEPT !.credential = Nothing, !.offered = Nothing, !.logins = {}]
    BY DEF RestoreBroken
  <1>3. dump # Absent
    BY <1>1, DataIs DEF RunSound
  <1>4. DataInv'
    <2>1. CASE db' = Empty
      BY <1>1, <2>1, EmptyIs, NothingKept, ReplacedKeepsData
    <2>2. CASE db' = [dump EXCEPT !.credential = Nothing, !.offered = Nothing, !.logins = {}]
      <3>1. db' = Broken(dump)
        BY <2>2 DEF Broken
      <3>2. dump \in Databases /\ DatabaseSound(dump) /\ dump.enrolled = Accounts
        BY <1>3, DumpIs
      <3>3. /\ db' \in Databases /\ DatabaseSound(db')
            /\ WebAuthn \subseteq db'.enrolled /\ ~Linked(db', Present(golden))
        BY <3>1, <3>2, BrokenIs
      <3> QED
        BY <1>1, <3>3, NothingKept, ReplacedKeepsData
    <2> QED
      BY <1>2, <2>1, <2>2
  <1>5. ControlTypeOK'
    <2>1. approved' \subseteq Artifacts /\ round' \in 0..Rounds /\ invalid' \subseteq Accounts
      BY <1>1, DataIs DEF ControlTypeOK
    <2> QED
      BY <1>1, <2>1, AbortsControl
  <1> QED
    BY <1>1, <1>4, <1>5, Aborted

LEMMA ResetStartStep ==
  ASSUME IInv, ResetStart, SameExperiment
  PROVE  IInv'
  <1>1. /\ Begins("reset", "none", "rows", Files)
        /\ UNCHANGED <<db, late, store, golden, active, dump, published, lock, authenticator>>
        /\ UNCHANGED <<approved, round, invalid>>
    BY DEF ResetStart, SameData, datasetVars, SameExperiment, experimentVars
  <1>2. /\ ControlTypeOK' /\ run'.command = "reset" /\ run'.at = "rows"
        /\ last' = NoCommand
    <2>1. /\ "reset" \in Commands /\ "none" \in RunModes /\ "rows" \in Steps
          /\ Files \in SUBSET (Accounts \union Files)
      BY DEF Commands, RunModes, Steps
    <2>2. approved' \subseteq Artifacts /\ round' \in 0..Rounds /\ invalid' \subseteq Accounts
      BY <1>1, DataIs DEF ControlTypeOK
    <2> QED
      BY <1>1, <2>1, <2>2, BeginsControl
  <1>3. DataInv'
    BY <1>1, DataIs, SideKept, SideKeepsData
  <1>4. RunSound'
    BY <1>2 DEF RunSound, StepsOf
  <1>5. EndSound'
    BY <1>2, IdleIs DEF EndSound, At, JustEnded
  <1> QED
    BY <1>2, <1>3, <1>4, <1>5, ByOthers

LEMMA ResetRowsStep ==
  ASSUME IInv, ResetRows, SameExperiment
  PROVE  IInv'
  <1>1. /\ run.command = "reset" /\ run.at = "rows" /\ Goes("files") /\ Same /\ db' = Empty
        /\ UNCHANGED <<late, store, golden, active, dump, published, lock, authenticator>>
    BY DEF ResetRows, At, files
  <1>2. /\ run' \in RunStates /\ run'.command = "reset" /\ run'.at = "files"
        /\ ControlTypeOK'
    <2>1. "files" \in Steps /\ run \in RunStates
      BY DataIs DEF Steps, ControlTypeOK
    <2> QED
      BY <1>1, <2>1, GoesIs, SameControl
  <1>3. RunSound'
    BY <1>1, <1>2, EmptyIs, DataIs DEF RunSound, StepsOf, Same
  <1>4. DataInv'
    <2>1. Side'
      BY <1>1, DataIs, SideKept
    <2>2. DatasetTypeOK' /\ KeptSound'
      BY <1>1, <2>1, EmptyIs, DataIs DEF DatasetTypeOK, KeptSound, DatabaseSound, DataInv, Side
    <2>3. LateSound'
      <3>1. ASSUME NEW r \in late
            PROVE  CallSound(r)'
        <4>1. r \in Requests /\ CallSound(r)
          BY <3>1, CallsSound
        <4>2. r.epoch # db'.epoch /\ ~Live(r)'
          BY <1>1, <4>1, EmptyIs DEF Requests, Epochs, NoEpoch, Live
        <4> QED
          BY <4>1, <4>2 DEF CallSound
      <3> QED
        BY <1>1, <3>1, DataIs DEF DataInv, LateSound, Apart
    <2>4. SecretsFollow'
      BY <1>1, EmptyIs, DataIs DEF DataInv, SecretsFollow, Agree, Linked, Present
    <2> QED
      BY <2>2, <2>3, <2>4 DEF DataInv
  <1>5. EndSound'
    BY <1>2, IdleIs DEF EndSound, At, JustEnded
  <1> QED
    BY <1>2, <1>3, <1>4, <1>5, ByOthers

LEMMA DeleteFileStep ==
  ASSUME IInv, NEW f \in Files, DeleteFile(f), SameExperiment
  PROVE  IInv'
  <1>1. /\ run.command = "reset" /\ run.at = "files" /\ Same
        /\ store' = IF f = "store" THEN Nothing ELSE store
        /\ golden' = IF f = "golden" THEN Absent ELSE golden
        /\ active' = IF f = "active" THEN Absent ELSE active
        /\ dump' = IF f = "dump" THEN Absent ELSE dump
        /\ lock' = (lock /\ f # "lock")
        /\ published' = IF f = "published" THEN NoEpoch ELSE published
        /\ Does("files", run.todo \ {f})
        /\ UNCHANGED <<db, late, authenticator>>
    BY DEF DeleteFile, At
  <1>2. /\ run' \in RunStates /\ run'.command = "reset" /\ run'.at = "files"
        /\ ControlTypeOK'
    <2>1. "files" \in Steps /\ run \in RunStates
          /\ run.todo \ {f} \in SUBSET (Accounts \union Files)
      BY DataIs DEF Steps, ControlTypeOK, RunStates, RunRecords
    <2> QED
      BY <1>1, <2>1, DoesIs, SameControl
  <1>3. db.users = {} /\ db.enrolled = {} /\ DOMAIN db.offered = {} /\ DOMAIN db.credential = {}
    <2>1. db.users = {}
      BY <1>1, DataIs DEF RunSound
    <2>2. db.enrolled = {}
      BY <2>1, DataIs DEF DatabaseSound
    <2> QED
      BY <2>1, <2>2, DataIs DEF DatabaseSound
  <1>4. RunSound'
    BY <1>1, <1>2, <1>3, DataIs DEF RunSound, StepsOf, Same
  <1>5. store' \in Stores(Totp, Keys) /\ \A a \in DOMAIN store' : store'[a] = store[a]
    BY <1>1, NothingIs, DataIs DEF DataInv, DatasetTypeOK
  <1>6. DataInv'
    <2>1. Side'
      BY <1>1, DataIs DEF Side
    <2>2. DatasetTypeOK'
      BY <1>1, <1>5, <2>1, DataIs DEF DatasetTypeOK, DataInv, Side
    <2>3. KeptSound'
      BY <1>1, <2>1, DataIs DEF KeptSound, DatabaseSound, DataInv, Side
    <2>4. LateSound'
      <3>1. ASSUME NEW r \in late
            PROVE  CallSound(r)'
        BY <1>1, <1>3, CallsSound DEF CallSound, Live
      <3> QED
        BY <1>1, <3>1, DataIs DEF DataInv, LateSound, Apart
    <2>5. SecretsFollow'
      <3>1. Agree(db)'
        BY <1>1, <1>3 DEF Agree
      <3>2. ASSUME dump' # Absent, Linked(dump', Present(golden'))
            PROVE  Agree(dump)'
        <4>1. dump' = dump /\ dump # Absent
          BY <1>1, <3>2
        <4>2. golden' = golden
          BY <1>1, <3>2, NothingKept DEF Linked, Present
        <4>3. Agree(dump)
          BY <3>2, <4>1, <4>2, DumpIs
        <4>4. DOMAIN store' \subseteq DOMAIN store
          BY <1>1, NothingKept
        <4> QED
          BY <1>5, <4>1, <4>3, <4>4 DEF Agree
      <3> QED
        BY <3>1, <3>2 DEF SecretsFollow
    <2> QED
      BY <2>2, <2>3, <2>4, <2>5 DEF DataInv
  <1>7. EndSound'
    BY <1>2, IdleIs DEF EndSound, At, JustEnded
  <1> QED
    BY <1>2, <1>4, <1>6, <1>7, ByOthers

LEMMA ResetEndStep ==
  ASSUME IInv, ResetEnd, SameExperiment
  PROVE  IInv'
  <1>1. /\ run.command = "reset" /\ Completes
        /\ run' = Idle /\ authenticator' = Nothing
        /\ UNCHANGED <<db, late, store, golden, active, dump, published, lock>>
        /\ UNCHANGED <<approved, round, invalid>>
    BY DEF ResetEnd, Completes, At, files, SameExperiment, experimentVars
  <1>2. DataInv'
    BY <1>1, NothingKept, SideKept, SideKeepsData
  <1>3. ControlTypeOK' /\ last'.command = "reset"
    <2>1. approved' \subseteq Artifacts /\ round' \in 0..Rounds /\ invalid' \subseteq Accounts
      BY <1>1, DataIs DEF ControlTypeOK
    <2> QED
      BY <1>1, <2>1, CompletesControl
  <1>4. EndSound'
    BY <1>1, <1>3, IdleIs DEF EndSound, At, JustEnded
  <1> QED
    BY <1>1, <1>2, <1>3, <1>4, ByNobody

LEMMA OthersStep ==
  ASSUME IInv, Snapshot \/ Restore \/ Reset, SameExperiment
  PROVE  IInv'
  <1>1. CASE Snapshot
    BY <1>1, SnapshotStartStep, SnapshotEndStep DEF Snapshot
  <1>2. CASE Restore
    BY <1>2, RestoreStartStep, RestoreEndStep, RestoreBrokenStep DEF Restore
  <1>3. CASE Reset
    BY <1>3, ResetStartStep, ResetRowsStep, DeleteFileStep, ResetEndStep DEF Reset
  <1> QED
    BY <1>1, <1>2, <1>3

-----------------------------------------------------------------------------
(* E1                                                                      *)

\* An experiment goes on.
LEMMA ExperimentGoesOn ==
  ASSUME IInv, run.command \in {"E1", "E2", "E3"}, run'.command = run.command,
         run'.at \in StepsOf(run.command), run'.todo \subseteq Accounts, last' = last
  PROVE  RunSound'
  BY DataIs DEF RunSound, Idle

\* An experiment begins.
LEMMA ExperimentBegins ==
  ASSUME NEW c \in {"E1", "E2", "E3"}, run'.command = c,
         run'.at \in StepsOf(c), run'.todo \subseteq Accounts, last' = NoCommand
  PROVE  RunSound'
  BY DEF RunSound, Idle

LEMMA TodoOfExperiment ==
  ASSUME IInv, run.command \in {"E1", "E2", "E3"}
  PROVE  run.todo \subseteq Accounts /\ run \in RunStates /\ last = NoCommand
  BY DataIs DEF RunSound, ControlTypeOK

LEMMA ByE1 ==
  ASSUME DataInv', ControlTypeOK', RunSound', run'.command = "E1", E1Sound'
  PROVE  IInv'
  <1>1. E2Sound' /\ BurstSound' /\ E3Sound'
    BY DEF E2Sound, BurstSound, E3Sound
  <1> QED
    BY <1>1, ByExperiment

LEMMA E1StartStep ==
  ASSUME IInv, NEW mode \in Modes, E1Start(mode)
  PROVE  IInv'
  <1>1. /\ Begins("E1", mode, "validate", Accounts) /\ db' = WithoutChallenges(db)
        /\ UNCHANGED <<late, store, golden, active, dump, published, lock, authenticator>>
        /\ UNCHANGED <<approved, round, invalid>>
    BY DEF E1Start, CleanUp, files, SameExperiment, experimentVars
  <1>2. /\ ControlTypeOK' /\ run'.command = "E1" /\ run'.at = "validate"
        /\ run'.todo = Accounts /\ last' = NoCommand
    <2>1. /\ "E1" \in Commands /\ mode \in RunModes /\ "validate" \in Steps
          /\ Accounts \in SUBSET (Accounts \union Files)
      BY DEF Commands, RunModes, Steps
    <2>2. approved' \subseteq Artifacts /\ round' \in 0..Rounds /\ invalid' \subseteq Accounts
      BY <1>1, DataIs DEF ControlTypeOK
    <2> QED
      BY <1>1, <2>1, <2>2, BeginsControl
  <1>3. DataInv'
    BY <1>1, DataIs, SideKept, CleanUpKeepsData
  <1>4. RunSound'
    BY <1>2, ExperimentBegins DEF StepsOf
  <1>5. E1Sound'
    BY <1>2 DEF E1Sound
  <1> QED
    BY <1>2, <1>3, <1>4, <1>5, ByE1

LEMMA E1CompletesStep ==
  ASSUME IInv, run.command = "E1", ValidDataset, Completes,
         UNCHANGED <<db, late, files>>, SameExperiment
  PROVE  IInv'
  <1>1. /\ run' = Idle /\ authenticator' = Nothing
        /\ UNCHANGED <<db, late, store, golden, active, dump, published, lock>>
        /\ UNCHANGED <<approved, round, invalid>>
    BY DEF Completes, files, SameExperiment, experimentVars
  <1>2. DataInv'
    BY <1>1, NothingKept, SideKept, SideKeepsData
  <1>3. ControlTypeOK' /\ last'.command = "E1"
    <2>1. approved' \subseteq Artifacts /\ round' \in 0..Rounds /\ invalid' \subseteq Accounts
      BY <1>1, DataIs DEF ControlTypeOK
    <2> QED
      BY <2>1, CompletesControl
  <1>4. Complete /\ Quiet /\ golden = db.credential
    BY ValidIs
  <1>5. EndSound'
    BY <1>1, <1>3, <1>4, IdleIs DEF EndSound, At, JustEnded, Complete, Quiet, Live
  <1> QED
    BY <1>1, <1>2, <1>3, <1>5, ByNobody

LEMMA E1ValidateStep ==
  ASSUME IInv, E1Validate
  PROVE  IInv'
  <1>1. /\ run.command = "E1" /\ run.at = "validate" /\ ValidDataset
        /\ UNCHANGED <<db, late, files>> /\ SameExperiment
        /\ IF run.mode = "preflight" THEN Completes
           ELSE Goes("logins") /\ UNCHANGED authenticator /\ Same
    BY DEF E1Validate, At
  <1>2. CASE run.mode = "preflight"
    BY <1>1, <1>2, E1CompletesStep
  <1>3. CASE run.mode # "preflight"
    <2>1. /\ Goes("logins") /\ Same
          /\ UNCHANGED <<db, late, store, golden, active, dump, published, lock, authenticator>>
      BY <1>1, <1>3 DEF files
    <2>2. /\ run' \in RunStates /\ run'.command = "E1" /\ run'.at = "logins"
          /\ run'.todo = run.todo /\ ControlTypeOK'
      <3>1. "logins" \in Steps /\ run \in RunStates
        BY DataIs DEF Steps, ControlTypeOK
      <3> QED
        BY <1>1, <2>1, <3>1, GoesIs, SameControl
    <2>3. DataInv'
      BY <2>1, DataIs, SideKept, SideKeepsData
    <2>4. RunSound'
      BY <1>1, <2>1, <2>2, TodoOfExperiment, ExperimentGoesOn DEF StepsOf, Same
    <2>5. E1Sound'
      BY <1>1, <2>1 DEF E1Sound, ValidDataset
    <2> QED
      BY <2>2, <2>3, <2>4, <2>5, ByE1
  <1> QED
    BY <1>2, <1>3

LEMMA E1LoginStep ==
  ASSUME IInv, NEW a \in Accounts, E1Login(a)
  PROVE  IInv'
  <1> DEFINE r == Req("login", a, NoKey, 0)
  <1>1. /\ run.command = "E1" /\ run.at = "logins" /\ a \in run.todo /\ Same /\ SameExperiment
        /\ Accepts(db, r) /\ db' = Serve(db, r) /\ late' = Standing(r)
        /\ UNCHANGED <<store, golden, active, dump, published, lock, authenticator>>
        /\ Does("logins", run.todo \ {a})
    BY DEF E1Login, At, Served, files
  <1>2. r \in Calls
    BY <1>1 DEF Calls, E1Calls, At
  <1> HIDE DEF r
  <1>3. /\ run' \in RunStates /\ run'.command = "E1" /\ run'.at = "logins"
        /\ run'.todo = run.todo \ {a} /\ ControlTypeOK'
    <2>1. /\ "logins" \in Steps /\ run \in RunStates
          /\ run.todo \ {a} \in SUBSET (Accounts \union Files)
      BY <1>1, TodoOfExperiment DEF Steps
    <2> QED
      BY <1>1, <2>1, DoesIs, SameControl
  <1>4. DataInv' /\ Effect(r, db')
    <2>1. late' \subseteq late /\ Side'
      BY <1>1, DataIs, SideKept DEF Standing
    <2> QED
      BY <1>1, <1>2, <2>1, ServedKeepsData
  <1>5. RunSound'
    BY <1>1, <1>3, TodoOfExperiment, ExperimentGoesOn DEF StepsOf, Same
  <1>6. E1Sound'
    BY <1>1, <1>4 DEF IInv, E1Sound, Effect
  <1> QED
    BY <1>3, <1>4, <1>5, <1>6, ByE1

\* One more fault.
LEMMA FaultyControl ==
  ASSUME IInv, Faulty, run' \in RunStates, last' = last, started' = started,
         approved' \subseteq Artifacts, round' \in 0..Rounds, invalid' \subseteq Accounts
  PROVE  ControlTypeOK'
  BY DataIs, ProvisioningAssumption DEF ControlTypeOK, Faulty

LEMMA E1MailFailsStep ==
  ASSUME IInv, NEW a \in Accounts, E1MailFails(a)
  PROVE  IInv'
  <1>1. /\ run.command = "E1" /\ run.at = "logins" /\ a \in run.todo /\ Faulty
        /\ late' \subseteq late /\ db' = [db EXCEPT !.logins = @ \ {a}]
        /\ UNCHANGED <<store, golden, active, dump, published, lock, authenticator>>
        /\ UNCHANGED <<last, started, approved, round, invalid>>
        /\ Does("logins", run.todo \ {a})
    BY DEF E1MailFails, Standing, At, files, SameExperiment, experimentVars
  <1>2. /\ db' \in Databases /\ db'.logins \subseteq db.logins
        /\ UNCHANGED <<db.epoch, db.users, db.enrolled, db.secret, db.credential, db.offered>>
    BY <1>1, DataIs DEF Databases
  <1>3. /\ run' \in RunStates /\ run'.command = "E1" /\ run'.at = "logins"
        /\ run'.todo = run.todo \ {a}
    <2>1. /\ "logins" \in Steps /\ run \in RunStates
          /\ run.todo \ {a} \in SUBSET (Accounts \union Files)
      BY <1>1, TodoOfExperiment DEF Steps
    <2> QED
      BY <1>1, <2>1, DoesIs
  <1>4. ControlTypeOK'
    <2>1. approved' \subseteq Artifacts /\ round' \in 0..Rounds /\ invalid' \subseteq Accounts
      BY <1>1, DataIs DEF ControlTypeOK
    <2> QED
      BY <1>1, <1>3, <2>1, FaultyControl
  <1>5. DataInv'
    BY <1>1, <1>2, DataIs, SideKept, FewerChallengesKeepData
  <1>6. RunSound'
    BY <1>1, <1>3, TodoOfExperiment, ExperimentGoesOn DEF StepsOf
  <1>7. E1Sound'
    BY <1>1, <1>2 DEF IInv, E1Sound
  <1> QED
    BY <1>3, <1>4, <1>5, <1>6, <1>7, ByE1

LEMMA E1FinalizeStep ==
  ASSUME IInv, E1Finalize
  PROVE  IInv'
  <1>1. /\ run.command = "E1" /\ run.at = "logins" /\ Goes("finalized") /\ Same
        /\ SameExperiment /\ db' = WithoutChallenges(db)
        /\ UNCHANGED <<late, store, golden, active, dump, published, lock, authenticator>>
    BY DEF E1Finalize, CleanUp, At, files
  <1>2. /\ run' \in RunStates /\ run'.command = "E1" /\ run'.at = "finalized"
        /\ run'.todo = run.todo /\ ControlTypeOK'
    <2>1. "finalized" \in Steps /\ run \in RunStates
      BY DataIs DEF Steps, ControlTypeOK
    <2> QED
      BY <1>1, <2>1, GoesIs, SameControl
  <1>3. DataInv'
    BY <1>1, DataIs, SideKept, CleanUpKeepsData
  <1>4. RunSound'
    BY <1>1, <1>2, TodoOfExperiment, ExperimentGoesOn DEF StepsOf, Same
  <1>5. E1Sound'
    BY <1>1, DataIs, WithoutChallengesIs DEF IInv, E1Sound
  <1> QED
    BY <1>2, <1>3, <1>4, <1>5, ByE1

LEMMA E1Step ==
  ASSUME IInv, E1
  PROVE  IInv'
  <1>1. ASSUME E1End PROVE IInv'
    BY <1>1, E1CompletesStep DEF E1End, At
  <1> QED
    BY <1>1, E1StartStep, E1ValidateStep, E1FinalizeStep, E1LoginStep, E1MailFailsStep DEF E1

-----------------------------------------------------------------------------
(* Failures and crashes                                                    *)

LEMMA FailStep ==
  ASSUME IInv, Fail
  PROVE  IInv'
  <1>1. /\ run.at # "idle" /\ Abandoned(Calls) /\ Faulty
        /\ IF run.command \in {"provision", "E1", "E2"}
           THEN Goes("closing") /\ UNCHANGED <<authenticator, last, started, invalid>>
           ELSE Aborts /\ invalid' = {}
        /\ UNCHANGED <<db, store, golden, active, dump, published, lock>>
        /\ UNCHANGED <<approved, round>>
    BY DEF Fail, files
  <1>2. late' \subseteq late \union Calls /\ Cardinality(late') <= MaxLate
    BY <1>1 DEF Abandoned
  <1>3. run.command # "none"
    BY <1>1, DataIs, IdleIs DEF RunSound
  <1>4. CASE run.command \in {"provision", "E1", "E2"}
    <2>1. /\ run' \in RunStates /\ run'.command = run.command /\ run'.at = "closing"
          /\ run'.todo = run.todo
      <3>1. "closing" \in Steps /\ run \in RunStates
        BY DataIs DEF Steps, ControlTypeOK
      <3> QED
        BY <1>1, <1>4, <3>1, GoesIs
    <2>2. ControlTypeOK'
      <3>1. approved' \subseteq Artifacts /\ round' \in 0..Rounds /\ invalid' \subseteq Accounts
        BY <1>1, <1>4, DataIs DEF ControlTypeOK
      <3> QED
        BY <1>1, <1>4, <2>1, <3>1, FaultyControl
    <2>3. DataInv'
      <3>1. Side'
        BY <1>1, <1>4, DataIs, SideKept
      <3> QED
        BY <1>1, <1>2, <3>1, AbandonedKeepsData
    <2>4. RunSound'
      BY <1>1, <1>4, <2>1, DataIs DEF RunSound, StepsOf
    <2>5. CASE run.command = "provision"
      <3>1. ProvisionSound'
        BY <1>1, <2>1, <2>5, ProvisionIs
           DEF ProvisionSound, Agree, Linked, Present, BeforeWebAuthn, AfterTotp
      <3>2. EnrollmentSound' /\ EndSound'
        BY <2>1, <2>5, IdleIs DEF EnrollmentSound, EndSound, At, JustEnded
      <3> QED
        BY <2>1, <2>2, <2>3, <2>4, <2>5, <3>1, <3>2, ByProvision
    <2>6. CASE run.command \in {"E1", "E2"}
      <3>1. E1Sound' /\ E2Sound' /\ BurstSound' /\ E3Sound'
        BY <2>1, <2>6 DEF E1Sound, E2Sound, BurstSound, E3Sound, LoadedSteps, BurstSteps
      <3> QED
        BY <2>1, <2>2, <2>3, <2>4, <2>6, <3>1, ByExperiment
    <2> QED
      BY <1>4, <2>5, <2>6
  <1>5. CASE run.command \notin {"provision", "E1", "E2"}
    <2>1. Aborts /\ invalid' = {} /\ authenticator' = Nothing
      BY <1>1, <1>5 DEF Aborts
    <2>2. DataInv'
      <3>1. Side'
        BY <1>1, <2>1, NothingKept, SideKept
      <3> QED
        BY <1>1, <1>2, <3>1, AbandonedKeepsData
    <2>3. ControlTypeOK'
      <3>1. approved' \subseteq Artifacts /\ round' \in 0..Rounds /\ invalid' \subseteq Accounts
        BY <1>1, <2>1, DataIs DEF ControlTypeOK
      <3> QED
        BY <1>1, <2>1, <3>1, AbortsControl
    <2> QED
      BY <1>3, <2>1, <2>2, <2>3, Aborted
  <1> QED
    BY <1>4, <1>5

LEMMA CrashStep ==
  ASSUME IInv, Crash
  PROVE  IInv'
  <1>1. /\ run.at # "idle" /\ Abandoned(Calls) /\ Faulty /\ Aborts
        /\ authenticator' = Nothing /\ round' = 0 /\ invalid' = {} /\ approved' = approved
        /\ UNCHANGED <<db, store, golden, active, dump, published, lock>>
    BY DEF Crash, Aborts, files
  <1>2. late' \subseteq late \union Calls /\ Cardinality(late') <= MaxLate
    BY <1>1 DEF Abandoned
  <1>3. run.command # "none"
    BY <1>1, DataIs, IdleIs DEF RunSound
  <1>4. DataInv'
    <2>1. Side'
      BY <1>1, NothingKept, SideKept
    <2> QED
      BY <1>1, <1>2, <2>1, AbandonedKeepsData
  <1>5. ControlTypeOK'
    <2>1. approved' \subseteq Artifacts /\ round' \in 0..Rounds /\ invalid' \subseteq Accounts
      BY <1>1, DataIs, ExperimentsAssumption DEF ControlTypeOK
    <2> QED
      BY <1>1, <2>1, AbortsControl
  <1> QED
    BY <1>1, <1>3, <1>4, <1>5, Aborted

LEMMA CloseStep ==
  ASSUME IInv, Close
  PROVE  IInv'
  <1>1. /\ run.at = "closing" /\ Aborts /\ authenticator' = Nothing /\ round' = 0
        /\ UNCHANGED <<late, store, golden, dump, published, faults, approved, invalid>>
        /\ IF run.command = "E2"
           THEN /\ active' \in {active} \union (IF authenticator = Nothing THEN {} ELSE {authenticator})
                /\ lock' = FALSE /\ UNCHANGED db
           ELSE /\ db' \in {db, WithoutChallenges(db)}
                /\ UNCHANGED <<active, lock>>
    BY DEF Close, Aborts
  <1>2. run.command # "none"
    BY <1>1, DataIs, IdleIs DEF RunSound
  <1>3. ControlTypeOK'
    <2>1. approved' \subseteq Artifacts /\ round' \in 0..Rounds /\ invalid' \subseteq Accounts
      BY <1>1, DataIs, ExperimentsAssumption DEF ControlTypeOK
    <2> QED
      BY <1>1, <2>1, AbortsControl
  <1>4. DataInv'
    <2>1. CASE run.command = "E2"
      <3>1. authenticator # Nothing => DOMAIN authenticator # {}
        BY DataIs, NothingIs DEF Snapshots
      <3>2. active' = active \/ (active' = authenticator /\ authenticator # Nothing)
        BY <1>1, <2>1
      <3>3. Side'
        BY <1>1, <2>1, <3>1, <3>2, DataIs, NothingKept DEF Side
      <3> QED
        BY <1>1, <2>1, <3>3, SideKeepsData
    <2>2. CASE run.command # "E2"
      <3>1. Side'
        BY <1>1, <2>2, NothingKept, SideKept
      <3> QED
        BY <1>1, <2>2, <3>1, SideKeepsData, CleanUpKeepsData
    <2> QED
      BY <2>1, <2>2
  <1> QED
    BY <1>1, <1>2, <1>3, <1>4, Aborted

-----------------------------------------------------------------------------
(* E2                                                                      *)

LEMMA ByE2 ==
  ASSUME DataInv', ControlTypeOK', RunSound', run'.command = "E2", E2Sound', BurstSound'
  PROVE  IInv'
  <1>1. E1Sound' /\ E3Sound'
    BY DEF E1Sound, E3Sound
  <1> QED
    BY <1>1, ByExperiment

\* Where E2 is, and what it relies on there.
LEMMA E2Is ==
  ASSUME IInv, run.command = "E2"
  PROVE  /\ run.todo \subseteq Accounts /\ run \in RunStates /\ last = NoCommand
         /\ run.at \in LoadedSteps => Complete /\ DOMAIN authenticator # {}
         /\ run.at \in BurstSteps =>
              /\ run.variant \in Variants /\ run.batch \subseteq run.variant
              /\ \A a \in run.variant : CanAnswer(a)
         /\ authenticator \in Snapshots
         /\ \A a \in DOMAIN authenticator :
              a \in WebAuthn /\ authenticator[a].count \in Nat
         /\ run.variant \subseteq Accounts /\ run.batch \subseteq Accounts
  <1>1. \A a \in DOMAIN authenticator : a \in WebAuthn /\ authenticator[a] \in Credentials
    BY DataIs, StoreIs DEF Snapshots
  <1>2. \A a \in DOMAIN authenticator : authenticator[a].count \in Nat
    BY <1>1 DEF Credentials
  <1>3. run.variant \subseteq Accounts /\ run.batch \subseteq Accounts
    BY DataIs DEF ControlTypeOK, RunStates, RunRecords, Variants, Accounts
  <1> QED
    BY <1>1, <1>2, <1>3, DataIs, TodoOfExperiment DEF IInv, E2Sound

\* A step of E2 that stays out of bursts, and keeps what was loaded.
LEMMA E2GoesOn ==
  ASSUME IInv, run.command = "E2", run' \in RunStates, run'.command = "E2",
         run'.at \in {"snapshot", "load"} \union LoadedSteps,
         run'.todo \subseteq Accounts, Same
  PROVE  RunSound'
  <1>1. run'.at \in StepsOf("E2")
    BY DEF StepsOf
  <1> QED
    BY <1>1, ExperimentGoesOn DEF Same

\* The results of a run that was valid.
LEMMA ApprovedIs ==
  ASSUME IInv, run.command \in {"E2", "E3"}
  PROVE  approved \union {<<run.command, run.mode>>} \subseteq Artifacts
  BY DataIs DEF IInv, ModeSound, ControlTypeOK, Artifacts

Plain == {"check", "limiter", "limited", "checked", "campaign"}

LEMMA ByLoadedE2 ==
  ASSUME DataInv', ControlTypeOK', RunSound', run'.command = "E2", run'.at \in Plain,
         Complete', DOMAIN authenticator' # {}
  PROVE  IInv'
  <1>1. E2Sound' /\ BurstSound'
    BY DEF E2Sound, BurstSound, BurstSteps, Plain
  <1> QED
    BY <1>1, ByE2

LEMMA E2StartStep ==
  ASSUME IInv, NEW mode \in Modes, E2Start(mode)
  PROVE  IInv'
  <1>1. /\ Begins("E2", mode, "snapshot", {}) /\ lock' = TRUE /\ round' = 1
        /\ UNCHANGED <<db, late, store, golden, active, dump, published, authenticator>>
        /\ UNCHANGED <<approved, invalid>>
    BY DEF E2Start
  <1>2. /\ ControlTypeOK' /\ run'.command = "E2" /\ run'.at = "snapshot"
        /\ run'.todo = {} /\ last' = NoCommand
    <2>1. /\ "E2" \in Commands /\ mode \in RunModes /\ "snapshot" \in Steps
          /\ {} \in SUBSET (Accounts \union Files)
      BY DEF Commands, RunModes, Steps
    <2>2. approved' \subseteq Artifacts /\ round' \in 0..Rounds /\ invalid' \subseteq Accounts
      BY <1>1, DataIs, ExperimentsAssumption DEF ControlTypeOK
    <2> QED
      BY <1>1, <2>1, <2>2, BeginsControl
  <1>3. DataInv'
    <2>1. Side'
      BY <1>1, DataIs DEF Side
    <2> QED
      BY <1>1, <2>1, SideKeepsData
  <1>4. RunSound'
    BY <1>2, ExperimentBegins DEF StepsOf
  <1>5. E2Sound' /\ BurstSound'
    BY <1>2 DEF E2Sound, BurstSound, LoadedSteps, BurstSteps
  <1> QED
    BY <1>2, <1>3, <1>4, <1>5, ByE2

LEMMA E2SnapshotStep ==
  ASSUME IInv, E2Snapshot
  PROVE  IInv'
  <1>1. /\ run.command = "E2" /\ run.at = "snapshot" /\ Goes("load") /\ Same /\ SameExperiment
        /\ IF active # Absent THEN active' = active ELSE golden # Absent /\ active' = golden
        /\ UNCHANGED <<db, late, store, golden, dump, published, lock, authenticator>>
    BY DEF E2Snapshot, At
  <1>2. /\ run' \in RunStates /\ run'.command = "E2" /\ run'.at = "load"
        /\ run'.todo = run.todo /\ ControlTypeOK'
    <2>1. "load" \in Steps /\ run \in RunStates
      BY DataIs DEF Steps, ControlTypeOK
    <2> QED
      BY <1>1, <2>1, GoesIs, SameControl
  <1>3. active' # Absent
    BY <1>1
  <1>4. DataInv'
    <2>1. golden # Absent => golden \in Snapshots /\ DOMAIN golden # {}
      BY DataIs DEF DataInv, DatasetTypeOK, KeptSound
    <2>2. Side'
      BY <1>1, <2>1, DataIs DEF Side
    <2> QED
      BY <1>1, <2>2, SideKeepsData
  <1>5. RunSound'
    BY <1>1, <1>2, E2Is, E2GoesOn
  <1>6. E2Sound' /\ BurstSound'
    BY <1>2, <1>3 DEF E2Sound, BurstSound, LoadedSteps, BurstSteps
  <1> QED
    BY <1>2, <1>4, <1>5, <1>6, ByE2

LEMMA E2LoadStep ==
  ASSUME IInv, E2Load
  PROVE  IInv'
  <1>1. /\ run.command = "E2" /\ run.at = "load" /\ Does("check", Accounts)
        /\ Same /\ SameExperiment /\ Complete /\ authenticator' = active
        /\ UNCHANGED <<db, late, store, golden, active, dump, published, lock>>
    BY DEF E2Load, At, AccountsLoadable, Complete, files
  <1>2. /\ run' \in RunStates /\ run'.command = "E2" /\ run'.at = "check"
        /\ run'.todo = Accounts /\ ControlTypeOK'
    <2>1. "check" \in Steps /\ run \in RunStates /\ Accounts \in SUBSET (Accounts \union Files)
      BY DataIs DEF Steps, ControlTypeOK
    <2> QED
      BY <1>1, <2>1, DoesIs, SameControl
  <1>3. authenticator' \in Snapshots /\ DOMAIN authenticator' # {}
    BY <1>1, DataIs DEF IInv, E2Sound, Side
  <1>4. DataInv'
    BY <1>1, <1>3, SideKept, SideKeepsData
  <1>5. RunSound'
    BY <1>1, <1>2, E2GoesOn DEF LoadedSteps
  <1>6. Complete'
    BY <1>1 DEF Complete
  <1> QED
    BY <1>2, <1>3, <1>4, <1>5, <1>6, ByLoadedE2 DEF Plain

\* A step that changes neither database nor files.
LEMMA E2MovesStep ==
  ASSUME IInv, run.command = "E2", run.at \in LoadedSteps, SameData,
         ControlTypeOK', RunSound', run'.command = "E2", run'.at \in Plain
  PROVE  IInv'
  <1>1. UNCHANGED <<db, late, store, golden, active, dump, published, lock, authenticator>>
    BY DEF SameData, datasetVars
  <1>2. DataInv'
    BY <1>1, DataIs, SideKept, SideKeepsData
  <1>3. Complete' /\ DOMAIN authenticator' # {}
    BY <1>1, E2Is DEF Complete
  <1> QED
    BY <1>2, <1>3, ByLoadedE2

LEMMA E2CheckStep ==
  ASSUME IInv, E2Check
  PROVE  IInv'
  <1> DEFINE s == IF run.mode = "preflight" THEN "limiter" ELSE "campaign"
  <1>1. run.command = "E2" /\ run.at = "check" /\ Goes(s) /\ Same /\ SameExperiment /\ SameData
    BY DEF E2Check, At
  <1>2. s \in Plain
    BY DEF Plain
  <1> HIDE DEF s
  <1>3. /\ run' \in RunStates /\ run'.command = "E2" /\ run'.at \in Plain
        /\ run'.todo = run.todo /\ ControlTypeOK'
    <2>1. s \in Steps /\ run \in RunStates
      BY <1>2, DataIs DEF Steps, Plain, ControlTypeOK
    <2> QED
      BY <1>1, <1>2, <2>1, GoesIs, SameControl
  <1>4. RunSound'
    BY <1>1, <1>3, E2Is, E2GoesOn DEF Plain, LoadedSteps
  <1> QED
    BY <1>1, <1>3, <1>4, E2MovesStep DEF LoadedSteps

LEMMA E2RoundStep ==
  ASSUME IInv, E2Round
  PROVE  IInv'
  <1>1. /\ run.command = "E2" /\ run.at = "campaign" /\ Does("campaign", Accounts)
        /\ Same /\ SameData /\ round < Rounds /\ round' = round + 1
        /\ UNCHANGED <<approved, invalid>>
    BY DEF E2Round, At
  <1>2. /\ run' \in RunStates /\ run'.command = "E2" /\ run'.at = "campaign"
        /\ run'.todo = Accounts
    <2>1. "campaign" \in Steps /\ run \in RunStates
          /\ Accounts \in SUBSET (Accounts \union Files)
      BY DataIs DEF Steps, ControlTypeOK
    <2> QED
      BY <1>1, <2>1, DoesIs
  <1>3. ControlTypeOK'
    BY <1>1, <1>2, DataIs, ExperimentsAssumption DEF ControlTypeOK, Same
  <1>4. RunSound'
    BY <1>1, <1>2, E2GoesOn DEF LoadedSteps
  <1> QED
    BY <1>1, <1>2, <1>3, <1>4, E2MovesStep DEF LoadedSteps, Plain

LEMMA E2LimiterStep ==
  ASSUME IInv, E2Limiter
  PROVE  IInv'
  <1>1. PICK a \in Sample \cap Totp : Served(Req("login", a, NoKey, 0))
    BY Zenon DEF E2Limiter
  <1> DEFINE r == Req("login", a, NoKey, 0)
  <1>2. /\ run.command = "E2" /\ run.at = "limiter" /\ Goes("limited")
        /\ Same /\ SameExperiment
        /\ Accepts(db, r) /\ db' = Serve(db, r) /\ late' = Standing(r)
        /\ UNCHANGED <<store, golden, active, dump, published, lock, authenticator>>
    BY <1>1 DEF E2Limiter, At, Served, files
  <1>3. r \in Calls /\ r.kind = "login"
    BY <1>2 DEF Calls, E2Calls, At, Req
  <1> HIDE DEF r
  <1>4. /\ run' \in RunStates /\ run'.command = "E2" /\ run'.at = "limited"
        /\ run'.todo = run.todo /\ ControlTypeOK'
    <2>1. "limited" \in Steps /\ run \in RunStates
      BY DataIs DEF Steps, ControlTypeOK
    <2> QED
      BY <1>2, <2>1, GoesIs, SameControl
  <1>5. DataInv' /\ Effect(r, db')
    <2>1. late' \subseteq late /\ Side'
      BY <1>2, DataIs, SideKept DEF Standing
    <2> QED
      BY <1>2, <1>3, <2>1, ServedKeepsData
  <1>6. RunSound'
    BY <1>2, <1>4, E2Is, E2GoesOn DEF LoadedSteps
  <1>7. Complete' /\ DOMAIN authenticator' # {}
    BY <1>2, <1>3, <1>5, E2Is DEF Complete, Effect, LoadedSteps
  <1> QED
    BY <1>4, <1>5, <1>6, <1>7, ByLoadedE2 DEF Plain

LEMMA E2LimitedStep ==
  ASSUME IInv, E2Limited
  PROVE  IInv'
  <1>1. /\ run.command = "E2" /\ run.at = "limited" /\ Goes("checked")
        /\ Same /\ SameExperiment
        /\ db' = [db EXCEPT !.logins = @ \ (Sample \cap Totp)]
        /\ UNCHANGED <<late, store, golden, active, dump, published, lock, authenticator>>
    BY DEF E2Limited, At, files
  <1>2. /\ run' \in RunStates /\ run'.command = "E2" /\ run'.at = "checked"
        /\ run'.todo = run.todo /\ ControlTypeOK'
    <2>1. "checked" \in Steps /\ run \in RunStates
      BY DataIs DEF Steps, ControlTypeOK
    <2> QED
      BY <1>1, <2>1, GoesIs, SameControl
  <1>3. /\ db' \in Databases /\ db'.logins \subseteq db.logins
        /\ UNCHANGED <<db.epoch, db.users, db.enrolled, db.secret, db.credential, db.offered>>
    BY <1>1, DataIs DEF Databases
  <1>4. DataInv'
    BY <1>1, <1>3, DataIs, SideKept, FewerChallengesKeepData
  <1>5. RunSound'
    BY <1>1, <1>2, E2Is, E2GoesOn DEF LoadedSteps
  <1>6. Complete' /\ DOMAIN authenticator' # {}
    BY <1>1, <1>3, E2Is DEF Complete, LoadedSteps
  <1> QED
    BY <1>2, <1>4, <1>5, <1>6, ByLoadedE2 DEF Plain

-----------------------------------------------------------------------------
(* The bursts of E2                                                        *)

LEMMA E2BurstStep ==
  ASSUME IInv, NEW V \in Variants, E2Burst(V)
  PROVE  IInv'
  <1>1. /\ run.command = "E2" /\ run.at = "campaign" /\ Same /\ SameExperiment
        /\ V \cap db.logins = {}
        /\ V = WebAuthn => db.credential = authenticator
        /\ \A a \in V : CanAnswer(a)
        /\ run' = [run EXCEPT !.at = "logins", !.variant = V, !.batch = V,
                              !.todo = run.todo \ V]
        /\ UNCHANGED <<db, late, store, golden, active, dump, published, lock, authenticator>>
    BY DEF E2Burst, At, SameData, datasetVars
  <1>2. /\ run' \in RunStates /\ run'.command = "E2" /\ run'.at = "logins"
        /\ run'.variant = V /\ run'.batch = V /\ run'.todo = run.todo \ V
        /\ run.todo \subseteq Accounts
    <2>1. /\ "logins" \in Steps /\ V \in SUBSET Accounts /\ run \in RunStates
          /\ run.todo \ V \in SUBSET (Accounts \union Files) /\ run.todo \subseteq Accounts
      BY <1>1, E2Is DEF Steps, Variants, Accounts
    <2> QED
      BY <1>1, <2>1 DEF RunStates, RunRecords
  <1>control. ControlTypeOK' /\ RunSound'
    BY <1>1, <1>2, E2GoesOn, SameControl DEF LoadedSteps
  <1>3. DataInv'
    BY <1>1, DataIs, SideKept, SideKeepsData
  <1>4. E2Sound'
    BY <1>1, <1>2, E2Is DEF E2Sound, LoadedSteps, BurstSteps, Complete, CanAnswer
  <1>5. BurstSound'
    <2>1. CASE V = WebAuthn
      <3>1. Ahead({})
        BY <1>1, <2>1, E2Is DEF Ahead
      <3> QED
        BY <1>1, <1>2, <2>1, <3>1 DEF BurstSound, Ahead
    <2>2. CASE V # WebAuthn
      BY <1>2, <2>2 DEF BurstSound
    <2> QED
      BY <2>1, <2>2
  <1> QED
    BY <1>2, <1>control, <1>3, <1>4, <1>5, ByE2

LEMMA E2LoginStep ==
  ASSUME IInv, NEW a \in Accounts, E2Login(a)
  PROVE  IInv'
  <1> DEFINE r == Req("login", a, NoKey, 0)
  <1>1. /\ run.command = "E2" /\ run.at = "logins" /\ a \in run.batch
        /\ Same /\ SameExperiment
        /\ Accepts(db, r) /\ db' = Serve(db, r) /\ late' = Standing(r)
        /\ run' = [run EXCEPT !.batch = run.batch \ {a}]
        /\ UNCHANGED <<store, golden, active, dump, published, lock, authenticator>>
    BY DEF E2Login, At, Served, files
  <1>2. r \in Calls /\ r.kind = "login" /\ r.account = a
    BY <1>1 DEF Calls, E2Calls, At, Req
  <1> HIDE DEF r
  <1>3. /\ run' \in RunStates /\ run'.command = "E2" /\ run'.at = "logins"
        /\ run'.variant = run.variant /\ run'.batch = run.batch \ {a} /\ run'.todo = run.todo
    <2>1. run.batch \ {a} \in SUBSET Accounts /\ run \in RunStates
      BY <1>1, E2Is
    <2> QED
      BY <1>1, <2>1 DEF RunStates, RunRecords
  <1>4. ControlTypeOK' /\ RunSound'
    BY <1>1, <1>3, E2Is, E2GoesOn, SameControl DEF LoadedSteps
  <1>5. DataInv' /\ Effect(r, db') /\ late' \subseteq late
    <2>1. late' \subseteq late /\ Side'
      BY <1>1, DataIs, SideKept DEF Standing
    <2> QED
      BY <1>1, <1>2, <2>1, ServedKeepsData
  <1>6. /\ db'.logins = db.logins \union {a} /\ db'.credential = db.credential
        /\ db'.enrolled = db.enrolled /\ db'.users = db.users
    BY <1>2, <1>5 DEF Effect
  <1>7. E2Sound'
    BY <1>1, <1>3, <1>6, E2Is DEF E2Sound, LoadedSteps, BurstSteps, Complete, CanAnswer
  <1>8. BurstSound'
    <2>1. ASSUME run.variant = WebAuthn
          PROVE  /\ \A q \in late' : q.kind = "verify" /\ q.account \in WebAuthn =>
                                       q.account \notin db'.logins
                 /\ Ahead({})
      <3>1. /\ \A q \in late : q.kind = "verify" /\ q.account \in WebAuthn =>
                                 q.account \notin db.logins
            /\ Ahead({})
        BY <1>1, <2>1 DEF IInv, BurstSound, BurstSteps
      <3>2. \A q \in late' : ~(q.kind = "verify" /\ q.account = a)
        BY <1>1, <1>2 DEF Standing
      <3> QED
        BY <1>5, <1>6, <3>1, <3>2
    <2> QED
      BY <1>1, <1>3, <1>6, <2>1 DEF BurstSound, Ahead
  <1> QED
    BY <1>3, <1>4, <1>5, <1>7, <1>8, ByE2

LEMMA E2PreparedStep ==
  ASSUME IInv, E2Prepared
  PROVE  IInv'
  <1> DEFINE s == IF run.variant = WebAuthn THEN "assert" ELSE "release"
  <1>1. /\ run.command = "E2" /\ run.at = "logins" /\ Same /\ SameExperiment
        /\ run' = [run EXCEPT !.at = s, !.batch = run.variant]
        /\ UNCHANGED <<db, late, store, golden, active, dump, published, lock, authenticator>>
    BY DEF E2Prepared, At, SameData, datasetVars
  <1>2. /\ s \in {"assert", "release"} /\ s \in Steps /\ s \in LoadedSteps /\ s \in BurstSteps
        /\ s = "assert" <=> run.variant = WebAuthn
    BY DEF Steps, LoadedSteps, BurstSteps
  <1> HIDE DEF s
  <1>3. /\ run' \in RunStates /\ run'.command = "E2" /\ run'.at = s
        /\ run'.variant = run.variant /\ run'.batch = run.variant /\ run'.todo = run.todo
    <2>1. run.variant \in SUBSET Accounts /\ run \in RunStates
      BY <1>1, E2Is
    <2> QED
      BY <1>1, <1>2, <2>1 DEF RunStates, RunRecords
  <1>4. ControlTypeOK' /\ RunSound'
    BY <1>1, <1>2, <1>3, E2Is, E2GoesOn, SameControl
  <1>5. DataInv'
    BY <1>1, DataIs, SideKept, SideKeepsData
  <1>6. E2Sound'
    BY <1>1, <1>2, <1>3, E2Is DEF E2Sound, LoadedSteps, BurstSteps, Complete, CanAnswer
  <1>7. BurstSound'
    <2>1. CASE run.variant = WebAuthn
      <3>1. /\ \A q \in late : q.kind = "verify" /\ q.account \in WebAuthn =>
                                 q.account \notin db.logins
            /\ Ahead({})
        BY <1>1, <2>1 DEF IInv, BurstSound, BurstSteps
      <3>2. Ahead(WebAuthn \ run'.batch) /\ WebAuthn \ run'.batch \subseteq DOMAIN authenticator
        <4>1. WebAuthn \ run'.batch = {}
          BY <1>3, <2>1
        <4> QED
          BY <3>1, <4>1
      <3> QED
        BY <1>1, <1>2, <1>3, <2>1, <3>1, <3>2 DEF BurstSound, Ahead
    <2>2. CASE run.variant # WebAuthn
      BY <1>3, <2>2 DEF BurstSound
    <2> QED
      BY <2>1, <2>2
  <1> QED
    BY <1>3, <1>4, <1>5, <1>6, <1>7, ByE2

LEMMA E2AssertStep ==
  ASSUME IInv, NEW a \in Accounts, E2Assert(a)
  PROVE  IInv'
  <1>1. /\ run.command = "E2" /\ run.at = "assert" /\ a \in run.batch /\ CanAssert(a)
        /\ Same /\ SameExperiment
        /\ authenticator' = [authenticator EXCEPT ![a].count = @ + 1]
        /\ run' = IF run.batch = {a}
                  THEN [run EXCEPT !.at = "release", !.batch = WebAuthn]
                  ELSE [run EXCEPT !.batch = run.batch \ {a}]
        /\ UNCHANGED <<db, late, store, golden, active, dump, published, lock>>
    BY DEF E2Assert, At, files
  <1>2. run.variant = WebAuthn /\ run.batch \subseteq WebAuthn /\ a \in WebAuthn
    BY <1>1, E2Is DEF IInv, E2Sound, BurstSteps
  <1>3. /\ authenticator' \in Snapshots /\ DOMAIN authenticator' = DOMAIN authenticator
        /\ a \in DOMAIN authenticator
        /\ \A b \in DOMAIN authenticator : authenticator'[b].key = authenticator[b].key
        /\ authenticator'[a].count = authenticator[a].count + 1
        /\ \A b \in DOMAIN authenticator : b # a => authenticator'[b] = authenticator[b]
    BY <1>1, <1>2, AssertedIs
  <1>4. /\ run' \in RunStates /\ run'.command = "E2" /\ run'.at \in {"assert", "release"}
        /\ run'.variant = WebAuthn /\ run'.todo = run.todo
        /\ run'.at = "assert" => run'.batch = run.batch \ {a}
        /\ run'.at = "release" => run'.batch = WebAuthn /\ run.batch = {a}
        /\ run'.batch \subseteq WebAuthn
    <2>1. /\ run \in RunStates /\ "release" \in Steps /\ WebAuthn \in SUBSET Accounts
          /\ run.batch \ {a} \in SUBSET Accounts
      BY <1>1, E2Is DEF Steps, Accounts
    <2>2. CASE run.batch = {a}
      BY <1>1, <1>2, <2>1, <2>2 DEF RunStates, RunRecords
    <2>3. CASE run.batch # {a}
      BY <1>1, <1>2, <2>1, <2>3 DEF RunStates, RunRecords
    <2> QED
      BY <2>2, <2>3
  <1>5. ControlTypeOK' /\ RunSound'
    BY <1>1, <1>4, E2Is, E2GoesOn, SameControl DEF LoadedSteps
  <1>6. DataInv'
    BY <1>1, <1>3, SideKept, SideKeepsData
  <1>7. E2Sound'
    <2>1. Complete' /\ DOMAIN authenticator' # {}
      BY <1>1, <1>3, E2Is DEF Complete, LoadedSteps
    <2>2. \A b \in WebAuthn : CanAnswer(b)'
      BY <1>1, <1>2, E2Is DEF BurstSteps, CanAnswer
    <2> QED
      BY <1>4, <2>1, <2>2 DEF E2Sound, Variants
  <1>8. BurstSound'
    <2>done. PICK done : done = WebAuthn \ run.batch
      OBVIOUS
    <2>1. /\ \A q \in late : q.kind = "verify" /\ q.account \in WebAuthn =>
                               q.account \notin db.logins
          /\ Ahead(done) /\ done \subseteq DOMAIN authenticator
      BY <1>1, <1>2, <2>done DEF IInv, BurstSound, BurstSteps
    <2>2. a \notin done
      BY <1>1, <2>done
    <2>3. db'.credential = db.credential
      BY <1>1
    <2>4. /\ DOMAIN authenticator = DOMAIN db.credential
          /\ \A b \in DOMAIN authenticator :
               /\ authenticator[b].key = db.credential[b].key
               /\ authenticator[b].count =
                    db.credential[b].count + (IF b \in done THEN 1 ELSE 0)
      BY <2>1 DEF Ahead
    <2>5. ASSUME NEW b \in DOMAIN authenticator'
          PROVE  /\ authenticator'[b].key = db'.credential[b].key
                 /\ authenticator'[b].count =
                      db'.credential[b].count + (IF b \in done \union {a} THEN 1 ELSE 0)
      <3>1. CASE b = a
        <4>1. authenticator[a].count = db.credential[a].count + 0
          BY <1>3, <2>2, <2>4
        <4>2. authenticator[a].count \in Nat
          BY <1>1, <1>3, E2Is
        <4>3. db.credential[a].count \in Nat
          <5>1. a \in DOMAIN db.credential
            BY <1>3, <2>4
          <5>2. db.credential[a] \in Credentials
            BY <5>1, DataIs, TablesAre
          <5> QED
            BY <5>2 DEF Credentials
        <4> QED
          BY <1>3, <2>3, <2>4, <3>1, <4>1, <4>2, <4>3
      <3>2. CASE b # a
        BY <1>3, <2>3, <2>4, <2>5, <3>2
      <3> QED
        BY <3>1, <3>2
    <2>6. Ahead(done \union {a})'
      BY <1>3, <2>3, <2>4, <2>5 DEF Ahead
    <2>7. done \union {a} \subseteq DOMAIN authenticator'
      BY <1>3, <2>1
    <2>8. CASE run'.at = "assert"
      <3>1. WebAuthn \ run'.batch = done \union {a}
        BY <1>1, <1>2, <1>4, <2>8, <2>done
      <3> QED
        BY <1>1, <1>4, <2>1, <2>6, <2>7, <2>8, <3>1 DEF BurstSound, Ahead
    <2>9. CASE run'.at = "release"
      <3>1. run'.batch = done \union {a} /\ WebAuthn = done \union {a}
        BY <1>1, <1>2, <1>4, <2>9, <2>done
      <3> QED
        BY <1>1, <1>4, <2>1, <2>6, <2>7, <2>9, <3>1 DEF BurstSound, Ahead
    <2> QED
      BY <1>4, <2>8, <2>9
  <1> QED
    BY <1>4, <1>5, <1>6, <1>7, <1>8, ByE2

LEMMA E2VerifyStep ==
  ASSUME IInv, NEW a \in Accounts, E2Verify(a)
  PROVE  IInv'
  <1> DEFINE r == Prepared(a)
  <1>1. /\ run.command = "E2" /\ run.at = "release" /\ a \in run.batch
        /\ Same /\ SameExperiment
        /\ Accepts(db, r) /\ db' = Serve(db, r) /\ late' = Standing(r)
        /\ run' = [run EXCEPT !.batch = run.batch \ {a}]
        /\ UNCHANGED <<store, golden, active, dump, published, lock, authenticator>>
    BY DEF E2Verify, At, Served, files
  <1>2. r \in Calls /\ r.kind = "verify" /\ r.account = a
    <2>1. r \in E2Calls
      BY <1>1 DEF E2Calls, At
    <2> QED
      BY <1>1, <2>1, PreparedIs DEF Calls, At
  <1>3. a \in WebAuthn => r.count = authenticator[a].count
    BY DEF Prepared, Req
  <1> HIDE DEF r
  <1>4. /\ run' \in RunStates /\ run'.command = "E2" /\ run'.at = "release"
        /\ run'.variant = run.variant /\ run'.batch = run.batch \ {a} /\ run'.todo = run.todo
    <2>1. run.batch \ {a} \in SUBSET Accounts /\ run \in RunStates
      BY <1>1, E2Is
    <2> QED
      BY <1>1, <2>1 DEF RunStates, RunRecords
  <1>5. ControlTypeOK' /\ RunSound'
    BY <1>1, <1>4, E2Is, E2GoesOn, SameControl DEF LoadedSteps
  <1>6. late' = late
    BY <1>1, <1>2 DEF Standing
  <1>7. DataInv' /\ Effect(r, db')
    <2>1. Side'
      BY <1>1, DataIs, SideKept
    <2> QED
      BY <1>1, <1>2, <1>6, <2>1, ServedKeepsData
  <1>8. db'.logins = db.logins \ {a} /\ db'.enrolled = db.enrolled /\ db'.users = db.users
    BY <1>2, <1>7 DEF Effect
  <1>9. E2Sound'
    BY <1>1, <1>4, <1>8, E2Is DEF E2Sound, LoadedSteps, BurstSteps, Complete, CanAnswer
  <1>10. BurstSound'
    <2>1. CASE run.variant = WebAuthn
      <3>1. /\ \A q \in late : q.kind = "verify" /\ q.account \in WebAuthn =>
                                 q.account \notin db.logins
            /\ Ahead(run.batch) /\ WebAuthn \subseteq DOMAIN authenticator
        BY <1>1, <2>1 DEF IInv, BurstSound, BurstSteps
      <3>2. a \in WebAuthn /\ a \in DOMAIN db.credential
        BY <1>1, <2>1, <3>1, E2Is DEF BurstSteps, Ahead
      <3>3. /\ db'.credential = [db.credential EXCEPT ![a].count = authenticator[a].count]
            /\ DOMAIN db'.credential = DOMAIN db.credential
            /\ \A b \in DOMAIN db.credential : db'.credential[b].key = db.credential[b].key
        BY <1>2, <1>3, <1>7, <3>2 DEF Effect
      <3>4. Advanced(db.credential, a, authenticator[a].count, db'.credential)
        <4>1. db.credential \in Snapshots /\ authenticator[a].count \in 0..MaxCount
          <5>1. authenticator[a] \in Credentials
            BY <3>1, <3>2, DataIs, StoreIs DEF Snapshots
          <5> QED
            BY <5>1, DataIs, TablesAre DEF Credentials
        <4>2. db'.credential = Advance(db.credential, a, authenticator[a].count)
          BY <3>3 DEF Advance
        <4> QED
          BY <3>2, <4>1, <4>2, CountedIs
      <3>5. db'.credential[a].count = authenticator[a].count
            /\ \A b \in DOMAIN db.credential : b # a => db'.credential[b] = db.credential[b]
        BY <3>4 DEF Advanced
      <3>6. PICK batch : batch = run.batch
        OBVIOUS
      <3>7. /\ DOMAIN authenticator = DOMAIN db.credential
            /\ \A b \in DOMAIN authenticator :
                 /\ authenticator[b].key = db.credential[b].key
                 /\ authenticator[b].count =
                      db.credential[b].count + (IF b \in batch THEN 1 ELSE 0)
        BY <3>1, <3>6 DEF Ahead
      <3>8. ASSUME NEW b \in DOMAIN authenticator
            PROVE  /\ authenticator[b].key = db'.credential[b].key
                   /\ authenticator[b].count =
                        db'.credential[b].count + (IF b \in batch \ {a} THEN 1 ELSE 0)
        <4>1. CASE b = a
          <5>1. authenticator[a].count \in Nat
            BY <1>1, <3>8, <4>1, E2Is
          <5> QED
            BY <3>3, <3>5, <3>7, <4>1, <5>1
        <4>2. CASE b # a
          BY <3>5, <3>7, <3>8, <4>2
        <4> QED
          BY <4>1, <4>2
      <3>9. Ahead(run.batch)'
        <4>1. run'.batch = batch \ {a}
          BY <1>4, <3>6
        <4> QED
          BY <1>1, <3>3, <3>7, <3>8, <4>1 DEF Ahead
      <3> QED
        BY <1>1, <1>4, <1>6, <1>8, <3>1, <3>9 DEF BurstSound
    <2>2. CASE run.variant # WebAuthn
      BY <1>4, <2>2 DEF BurstSound
    <2> QED
      BY <2>1, <2>2
  <1> QED
    BY <1>4, <1>5, <1>7, <1>9, <1>10, ByE2

LEMMA E2PostconditionStep ==
  ASSUME IInv, E2Postcondition
  PROVE  IInv'
  <1>1. /\ run.command = "E2" /\ run.at = "release" /\ Same /\ SameExperiment
        /\ active' = IF run.variant = WebAuthn THEN authenticator ELSE active
        /\ run' = [run EXCEPT !.at = "campaign", !.variant = {}]
        /\ UNCHANGED <<db, late, store, golden, dump, published, lock, authenticator>>
    BY DEF E2Postcondition, At
  <1>2. /\ run' \in RunStates /\ run'.command = "E2" /\ run'.at = "campaign"
        /\ run'.todo = run.todo
    <2>1. run \in RunStates /\ "campaign" \in Steps
      BY <1>1, E2Is DEF Steps
    <2> QED
      BY <1>1, <2>1 DEF RunStates, RunRecords
  <1>3. ControlTypeOK' /\ RunSound'
    BY <1>1, <1>2, E2Is, E2GoesOn, SameControl DEF LoadedSteps
  <1>4. Complete /\ DOMAIN authenticator # {}
    BY <1>1, E2Is DEF LoadedSteps
  <1>5. DataInv'
    <2>1. Side'
      BY <1>1, <1>4, DataIs DEF Side
    <2> QED
      BY <1>1, <2>1, SideKeepsData
  <1>6. Complete' /\ DOMAIN authenticator' # {}
    BY <1>1, <1>4 DEF Complete
  <1> QED
    BY <1>2, <1>3, <1>5, <1>6, ByLoadedE2 DEF Plain

-----------------------------------------------------------------------------
(* The end of E2                                                           *)

LEMMA ByClosingE2 ==
  ASSUME DataInv', ControlTypeOK', RunSound', run'.command = "E2",
         run'.at \in {"close", "status", "unlock"},
         Complete', DOMAIN authenticator' # {}, Quiet', db'.credential = authenticator',
         run'.at \in {"status", "unlock"} /\ run'.mode # "preflight" =>
           active' = authenticator'
  PROVE  IInv'
  <1>1. E2Sound' /\ BurstSound'
    BY DEF E2Sound, BurstSound, BurstSteps
  <1> QED
    BY <1>1, ByE2

\* Nothing can change a credential once every account has enrolled, and no
\* login waits for its answer.
LEMMA CleanIsQuiet ==
  ASSUME IInv, Complete, db.logins = {}
  PROVE  Quiet
  <1>1. \A r \in late : r.account \in Accounts
    BY DataIs DEF Requests
  <1> QED
    BY <1>1 DEF Quiet, Complete

LEMMA E2CompletedStep ==
  ASSUME IInv, E2Completed
  PROVE  IInv'
  <1>1. /\ run.command = "E2" /\ run.at \in {"checked", "campaign"} /\ Same /\ SameExperiment
        /\ Goes("close") /\ db.logins = {} /\ db.credential = authenticator
        /\ UNCHANGED <<db, late, store, golden, active, dump, published, lock, authenticator>>
    BY DEF E2Completed, At, CleanState, SameData, datasetVars
  <1>2. /\ run' \in RunStates /\ run'.command = "E2" /\ run'.at = "close"
        /\ run'.todo = run.todo /\ ControlTypeOK'
    <2>1. "close" \in Steps /\ run \in RunStates
      BY DataIs DEF Steps, ControlTypeOK
    <2> QED
      BY <1>1, <2>1, GoesIs, SameControl
  <1>3. RunSound'
    BY <1>1, <1>2, E2Is, E2GoesOn DEF LoadedSteps
  <1>4. Complete /\ DOMAIN authenticator # {} /\ Quiet
    BY <1>1, E2Is, CleanIsQuiet DEF LoadedSteps
  <1>5. DataInv'
    BY <1>1, DataIs, SideKept, SideKeepsData
  <1>6. Complete' /\ Quiet' /\ db'.credential = authenticator' /\ DOMAIN authenticator' # {}
    BY <1>1, <1>4 DEF Complete, Quiet, Live
  <1> QED
    BY <1>2, <1>3, <1>5, <1>6, ByClosingE2

LEMMA E2ClosingIs ==
  ASSUME IInv, run.command = "E2", run.at \in {"close", "status", "unlock"}
  PROVE  /\ Complete /\ DOMAIN authenticator # {} /\ Quiet /\ db.credential = authenticator
         /\ run.at \in {"status", "unlock"} /\ run.mode # "preflight" =>
              active = authenticator
  BY E2Is DEF IInv, E2Sound, LoadedSteps

LEMMA E2CloseStep ==
  ASSUME IInv, E2Close
  PROVE  IInv'
  <1>1. /\ run.command = "E2" /\ run.at = "close" /\ Same /\ SameExperiment
        /\ Goes("status")
        /\ IF run.mode = "preflight" THEN active' = active ELSE active' = authenticator
        /\ UNCHANGED <<db, late, store, golden, dump, published, lock, authenticator>>
    BY DEF E2Close, At
  <1>2. /\ run' \in RunStates /\ run'.command = "E2" /\ run'.at = "status"
        /\ run'.mode = run.mode /\ run'.todo = run.todo /\ ControlTypeOK'
    <2>1. "status" \in Steps /\ run \in RunStates
      BY DataIs DEF Steps, ControlTypeOK
    <2> QED
      BY <1>1, <2>1, GoesIs, SameControl
  <1>3. RunSound'
    BY <1>1, <1>2, E2Is, E2GoesOn DEF LoadedSteps
  <1>4. Complete /\ DOMAIN authenticator # {} /\ Quiet /\ db.credential = authenticator
    BY <1>1, E2ClosingIs
  <1>5. DataInv'
    <2>1. Side'
      BY <1>1, <1>4, DataIs DEF Side
    <2> QED
      BY <1>1, <2>1, SideKeepsData
  <1>6. Complete' /\ Quiet' /\ db'.credential = authenticator' /\ DOMAIN authenticator' # {}
    BY <1>1, <1>4 DEF Complete, Quiet, Live
  <1>7. run'.mode # "preflight" => active' = authenticator'
    BY <1>1, <1>2
  <1> QED
    BY <1>2, <1>3, <1>5, <1>6, <1>7, ByClosingE2

LEMMA E2StatusStep ==
  ASSUME IInv, E2Status
  PROVE  IInv'
  <1>1. /\ run.command = "E2" /\ run.at = "status" /\ Same /\ Goes("unlock")
        /\ approved' = approved \union {<<"E2", run.mode>>} /\ UNCHANGED <<round, invalid>>
        /\ UNCHANGED <<db, late, store, golden, active, dump, published, lock, authenticator>>
    BY DEF E2Status, At, SameData, datasetVars
  <1>2. /\ run' \in RunStates /\ run'.command = "E2" /\ run'.at = "unlock"
        /\ run'.mode = run.mode /\ run'.todo = run.todo
    <2>1. "unlock" \in Steps /\ run \in RunStates
      BY DataIs DEF Steps, ControlTypeOK
    <2> QED
      BY <1>1, <2>1, GoesIs
  <1>3. approved' \subseteq Artifacts
    BY <1>1, ApprovedIs
  <1>4. ControlTypeOK'
    BY <1>1, <1>2, <1>3, DataIs DEF ControlTypeOK, Same
  <1>5. RunSound'
    BY <1>1, <1>2, E2Is, E2GoesOn DEF LoadedSteps
  <1>6. /\ Complete /\ DOMAIN authenticator # {} /\ Quiet /\ db.credential = authenticator
        /\ run.mode # "preflight" => active = authenticator
    BY <1>1, E2ClosingIs
  <1>7. DataInv'
    BY <1>1, DataIs, SideKept, SideKeepsData
  <1>8. /\ Complete' /\ Quiet' /\ db'.credential = authenticator' /\ DOMAIN authenticator' # {}
        /\ run'.mode # "preflight" => active' = authenticator'
    BY <1>1, <1>2, <1>6 DEF Complete, Quiet, Live
  <1> QED
    BY <1>2, <1>4, <1>5, <1>7, <1>8, ByClosingE2

LEMMA E2UnlockStep ==
  ASSUME IInv, E2Unlock
  PROVE  IInv'
  <1>1. /\ run.command = "E2" /\ run.at = "unlock" /\ Completes
        /\ lock' = FALSE /\ round' = 0 /\ UNCHANGED <<approved, invalid>>
        /\ run' = Idle /\ authenticator' = Nothing
        /\ UNCHANGED <<db, late, store, golden, active, dump, published>>
    BY DEF E2Unlock, At, Completes
  <1>2. DataInv'
    <2>1. Side'
      BY <1>1, DataIs, NothingKept DEF Side
    <2> QED
      BY <1>1, <2>1, SideKeepsData
  <1>3. ControlTypeOK' /\ last'.command = "E2" /\ last'.mode = run.mode
    <2>1. approved' \subseteq Artifacts /\ round' \in 0..Rounds /\ invalid' \subseteq Accounts
      BY <1>1, DataIs, ExperimentsAssumption DEF ControlTypeOK
    <2> QED
      BY <1>1, <2>1, CompletesControl
  <1>4. Quiet /\ (run.mode # "preflight" => active = db.credential)
    BY <1>1, E2ClosingIs
  <1>5. EndSound'
    BY <1>1, <1>3, <1>4, IdleIs DEF EndSound, At, JustEnded, Quiet, Live
  <1> QED
    BY <1>1, <1>2, <1>3, <1>5, ByNobody

LEMMA E2Step ==
  ASSUME IInv, E2
  PROVE  IInv'
  <1>1. CASE \E mode \in Modes : E2Start(mode)
    BY <1>1, E2StartStep
  <1>2. CASE E2Snapshot \/ E2Load \/ E2Check \/ E2Limiter \/ E2Limited
    BY <1>2, E2SnapshotStep, E2LoadStep, E2CheckStep, E2LimiterStep, E2LimitedStep
  <1>3. CASE \/ \E V \in Variants : E2Burst(V)
             \/ \E a \in Accounts : E2Login(a) \/ E2Assert(a) \/ E2Verify(a)
    BY <1>3, E2BurstStep, E2LoginStep, E2AssertStep, E2VerifyStep
  <1>4. CASE \/ E2Prepared \/ E2Postcondition \/ E2Round \/ E2Completed
             \/ E2Close \/ E2Status \/ E2Unlock
    BY <1>4, E2PreparedStep, E2PostconditionStep, E2RoundStep, E2CompletedStep,
       E2CloseStep, E2StatusStep, E2UnlockStep
  <1> QED
    BY <1>1, <1>2, <1>3, <1>4 DEF E2

-----------------------------------------------------------------------------
(* E3                                                                      *)

LEMMA ByE3 ==
  ASSUME DataInv', ControlTypeOK', RunSound', run'.command = "E3", E3Sound'
  PROVE  IInv'
  <1>1. E1Sound' /\ E2Sound' /\ BurstSound'
    BY DEF E1Sound, E2Sound, BurstSound
  <1> QED
    BY <1>1, ByExperiment

LEMMA E3Is ==
  ASSUME IInv, run.command = "E3"
  PROVE  /\ db.epoch # NoEpoch /\ DOMAIN authenticator # {}
         /\ run.at \in {"journey", "accepted"} =>
              run.account \in Accounts /\ CanAssert(run.account)
         /\ run.at = "accepted" => run.account \in WebAuthn
         /\ invalid = {} =>
              /\ Quiet /\ active = authenticator
              /\ IF run.at = "accepted" THEN Accepted1 ELSE db.credential = active
         /\ run.todo \subseteq Accounts /\ run \in RunStates /\ last = NoCommand
         /\ authenticator \in Snapshots /\ invalid \subseteq Accounts
         /\ run.at \in JourneySteps
  BY DataIs, TodoOfExperiment, StepsAre DEF IInv, E3Sound, ControlTypeOK

LEMMA E3StartStep ==
  ASSUME IInv, NEW mode \in Modes, E3Start(mode)
  PROVE  IInv'
  <1> DEFINE T == IF mode = "preflight" THEN Sample ELSE Accounts
  <1>1. /\ active # Absent /\ Preflight(active) /\ Begins("E3", mode, "journeys", T)
        /\ authenticator' = active /\ invalid' = {} /\ UNCHANGED <<approved, round>>
        /\ UNCHANGED <<db, late, store, golden, active, dump, published, lock>>
    BY DEF E3Start, files
  <1>2. T \in SUBSET (Accounts \union Files) /\ T \subseteq Accounts
    BY ProvisioningAssumption
  <1> HIDE DEF T
  <1>3. /\ ControlTypeOK' /\ run'.command = "E3" /\ run'.at = "journeys"
        /\ run'.todo = T /\ last' = NoCommand
    <2>1. "E3" \in Commands /\ mode \in RunModes /\ "journeys" \in Steps
      BY DEF Commands, RunModes, Steps
    <2>2. approved' \subseteq Artifacts /\ round' \in 0..Rounds /\ invalid' \subseteq Accounts
      BY <1>1, DataIs DEF ControlTypeOK
    <2> QED
      BY <1>1, <1>2, <2>1, <2>2, BeginsControl
  <1>4. authenticator' \in Snapshots /\ DOMAIN authenticator' # {}
    BY <1>1, DataIs DEF Side
  <1>5. DataInv'
    BY <1>1, <1>4, SideKept, SideKeepsData
  <1>6. RunSound'
    BY <1>2, <1>3, ExperimentBegins DEF StepsOf, JourneySteps
  <1>7. db.credential = active /\ Quiet
    BY <1>1, NothingPending DEF Preflight, Present
  <1>8. db.epoch # NoEpoch
    <2>1. DOMAIN db.credential # {}
      BY <1>1, <1>4, <1>7
    <2> QED
      BY <2>1, DataIs DEF DatabaseSound
  <1>9. E3Sound'
    BY <1>1, <1>3, <1>4, <1>7, <1>8 DEF E3Sound, Quiet, Live
  <1> QED
    BY <1>3, <1>5, <1>6, <1>9, ByE3

LEMMA JourneyLoginStep ==
  ASSUME IInv, NEW a \in Accounts, JourneyLogin(a)
  PROVE  IInv'
  <1> DEFINE r == Req("login", a, NoKey, 0)
  <1>1. /\ run.command = "E3" /\ run.at = "journeys" /\ a \in run.todo /\ CanAssert(a)
        /\ Same /\ SameExperiment
        /\ Accepts(db, r) /\ db' = Serve(db, r) /\ late' = Standing(r)
        /\ run' = [run EXCEPT !.at = "journey", !.account = a]
        /\ UNCHANGED <<store, golden, active, dump, published, lock, authenticator>>
    BY DEF JourneyLogin, At, Served, files
  <1>2. r \in Calls /\ r.kind = "login"
    BY <1>1 DEF Calls, E3Calls, At, Req
  <1> HIDE DEF r
  <1>3. /\ run' \in RunStates /\ run'.command = "E3" /\ run'.at = "journey"
        /\ run'.account = a /\ run'.todo = run.todo
    <2>1. run \in RunStates /\ "journey" \in Steps
      BY <1>1, E3Is DEF Steps
    <2> QED
      BY <1>1, <2>1 DEF RunStates, RunRecords
  <1>4. ControlTypeOK' /\ RunSound'
    <2>1. run'.at \in StepsOf(run.command)
      BY <1>1, <1>3 DEF StepsOf, JourneySteps
    <2> QED
      BY <1>1, <1>3, <2>1, E3Is, SameControl, ExperimentGoesOn DEF Same
  <1>5. DataInv' /\ Effect(r, db')
    <2>1. late' \subseteq late /\ Side'
      BY <1>1, DataIs, SideKept DEF Standing
    <2> QED
      BY <1>1, <1>2, <2>1, ServedKeepsData
  <1>6. db'.credential = db.credential /\ db'.epoch = db.epoch
    BY <1>2, <1>5 DEF Effect
  <1>7. Quiet => Quiet'
    BY <1>1, <1>2, QuietKept
  <1>8. invalid' = invalid
    BY <1>1 DEF SameExperiment, experimentVars
  <1>9. E3Sound'
    BY <1>1, <1>3, <1>6, <1>7, <1>8, E3Is DEF E3Sound, CanAssert
  <1> QED
    BY <1>3, <1>4, <1>5, <1>9, ByE3

\* What is measured after a journey.
LEMMA MeasuredIs ==
  ASSUME IInv, run.command = "E3", NEW a \in Accounts, Measured(a)
  PROVE  /\ ControlTypeOK' /\ RunSound' /\ run'.command = "E3" /\ run'.at = "journeys"
         /\ invalid' = {} => invalid = {}
  <1>1. /\ \/ UNCHANGED <<invalid, faults>>
           \/ invalid' = invalid \union {a} /\ Faulty
        /\ Does("journeys", run.todo \ {a})
        /\ UNCHANGED <<approved, round, last, started>>
    BY DEF Measured
  <1>2. /\ run' \in RunStates /\ run'.command = "E3" /\ run'.at = "journeys"
        /\ run'.todo = run.todo \ {a}
    <2>1. /\ "journeys" \in Steps /\ run \in RunStates
          /\ run.todo \ {a} \in SUBSET (Accounts \union Files)
      BY E3Is DEF Steps
    <2> QED
      BY <1>1, <2>1, DoesIs
  <1>3. invalid' \subseteq Accounts /\ faults' \in 0..MaxFaults
    BY <1>1, DataIs, ProvisioningAssumption DEF ControlTypeOK, Faulty
  <1>4. ControlTypeOK'
    BY <1>1, <1>2, <1>3, DataIs DEF ControlTypeOK
  <1>5. RunSound'
    <2>1. run'.at \in StepsOf(run.command)
      BY <1>2 DEF StepsOf, JourneySteps
    <2> QED
      BY <1>1, <1>2, <2>1, E3Is, ExperimentGoesOn
  <1> QED
    BY <1>1, <1>2, <1>4, <1>5

LEMMA JourneyVerifyStep ==
  ASSUME IInv, JourneyVerify
  PROVE  IInv'
  <1> DEFINE a == run.account
             r == Answer(a)
  <1>1. /\ run.command = "E3" /\ run.at = "journey" /\ CanAnswer(a)
        /\ Accepts(db, r) /\ db' = Serve(db, r) /\ late' = Standing(r)
        /\ IF a \in WebAuthn THEN Goes("accepted") /\ SameExperiment /\ Same
           ELSE Measured(a)
        /\ UNCHANGED <<store, golden, active, dump, published, lock, authenticator>>
    BY DEF JourneyVerify, At, Served, files
  <1>2. a \in Accounts /\ CanAssert(a)
    BY <1>1, E3Is
  <1>3. r \in Calls /\ r.kind = "verify" /\ r.account = a
    <2>1. r \in E3Calls
      BY <1>1 DEF E3Calls, At
    <2> QED
      BY <1>1, <1>2, <2>1, E3Is, DataIs, AnswerIs DEF Calls
  <1>4. a \in WebAuthn => r.count = authenticator[a].count + 1
    BY DEF Answer, Assertion, Req
  <1>5. CASE a \in WebAuthn
    <2> HIDE DEF r
    <2>1. DataInv' /\ Effect(r, db')
      <3>1. late' \subseteq late /\ Side'
        BY <1>1, DataIs, SideKept DEF Standing
      <3> QED
        BY <1>1, <1>3, <3>1, ServedKeepsData
    <2>2. Quiet => Quiet'
      BY <1>1, <1>3, QuietKept
    <2>3. Goes("accepted") /\ SameExperiment /\ Same /\ invalid' = invalid
      BY <1>1, <1>5 DEF SameExperiment, experimentVars
    <2>4. /\ run' \in RunStates /\ run'.command = "E3" /\ run'.at = "accepted"
          /\ run'.account = run.account /\ run'.todo = run.todo /\ ControlTypeOK'
      <3>1. "accepted" \in Steps /\ run \in RunStates
        BY DataIs DEF Steps, ControlTypeOK
      <3> QED
        BY <1>1, <2>3, <3>1, GoesIs, SameControl
    <2>5. RunSound'
      <3>1. run'.at \in StepsOf(run.command)
        BY <1>1, <2>4 DEF StepsOf, JourneySteps
      <3> QED
        BY <1>1, <2>3, <2>4, <3>1, E3Is, ExperimentGoesOn DEF Same
    <2>6. ASSUME invalid = {}
          PROVE  Accepted1'
      <3>1. db.credential = authenticator
        BY <1>1, <2>6, E3Is
      <3>2. db'.credential = [db.credential EXCEPT ![a].count = r.count]
        BY <1>3, <1>5, <2>1 DEF Effect
      <3>3. db'.credential = [authenticator EXCEPT ![a].count = authenticator[a].count + 1]
        BY <1>4, <1>5, <3>1, <3>2
      <3>4. run'.account = a /\ authenticator' = authenticator
        BY <1>1, <2>4
      <3> QED
        BY <3>3, <3>4 DEF Accepted1
    <2>7. db'.epoch = db.epoch
      BY <2>1 DEF Effect
    <2>8. E3Sound'
      BY <1>1, <1>2, <1>5, <2>2, <2>3, <2>4, <2>6, <2>7, E3Is DEF E3Sound, CanAssert
    <2> QED
      BY <2>1, <2>4, <2>5, <2>8, ByE3
  <1>6. CASE a \notin WebAuthn
    <2> HIDE DEF r
    <2>1. DataInv' /\ Effect(r, db')
      <3>1. late' \subseteq late /\ Side'
        BY <1>1, DataIs, SideKept DEF Standing
      <3> QED
        BY <1>1, <1>3, <3>1, ServedKeepsData
    <2>2. Quiet => Quiet'
      BY <1>1, <1>3, QuietKept
    <2>3. /\ ControlTypeOK' /\ RunSound' /\ run'.command = "E3" /\ run'.at = "journeys"
          /\ invalid' = {} => invalid = {}
      BY <1>1, <1>2, <1>6, MeasuredIs
    <2>4. db'.credential = db.credential /\ db'.epoch = db.epoch
      BY <1>3, <1>6, <2>1 DEF Effect
    <2>5. E3Sound'
      BY <1>1, <2>2, <2>3, <2>4, E3Is DEF E3Sound
    <2> QED
      BY <2>1, <2>3, <2>5, ByE3
  <1> QED
    BY <1>5, <1>6

LEMMA JourneyCommitStep ==
  ASSUME IInv, JourneyCommit
  PROVE  IInv'
  <1> DEFINE a == run.account
  <1>1. /\ run.command = "E3" /\ run.at = "accepted" /\ Measured(a)
        /\ authenticator' = [authenticator EXCEPT ![a].count = @ + 1]
        /\ active' = authenticator'
        /\ UNCHANGED <<db, late, store, golden, dump, published, lock>>
    BY DEF JourneyCommit, At
  <1>2. a \in Accounts /\ a \in WebAuthn /\ CanAssert(a)
    BY <1>1, E3Is
  <1>3. authenticator' \in Snapshots /\ DOMAIN authenticator' = DOMAIN authenticator
    BY <1>1, <1>2, AssertedIs
  <1>4. DOMAIN authenticator' # {}
    BY <1>1, <1>3, E3Is
  <1>5. DataInv'
    <2>1. Side'
      BY <1>1, <1>3, <1>4, DataIs DEF Side
    <2> QED
      BY <1>1, <2>1, SideKeepsData
  <1>6. /\ ControlTypeOK' /\ RunSound' /\ run'.command = "E3" /\ run'.at = "journeys"
        /\ invalid' = {} => invalid = {}
    BY <1>1, <1>2, MeasuredIs
  <1>7. ASSUME invalid = {}
        PROVE  Quiet' /\ db'.credential = active'
    <2>1. Quiet /\ Accepted1
      BY <1>1, <1>7, E3Is
    <2>2. db.credential = authenticator'
      BY <1>1, <2>1 DEF Accepted1
    <2> QED
      BY <1>1, <2>1, <2>2 DEF Quiet, Live
  <1>8. E3Sound'
    BY <1>1, <1>4, <1>6, <1>7, E3Is DEF E3Sound
  <1> QED
    BY <1>5, <1>6, <1>8, ByE3

LEMMA JourneyInvalidStep ==
  ASSUME IInv, NEW a \in Accounts, JourneyInvalid(a)
  PROVE  IInv'
  <1>1. /\ run.command = "E3" /\ Faulty /\ Abandoned({r \in E3Calls : r.account = a})
        /\ \/ UNCHANGED authenticator
           \/ /\ run.at = "accepted" /\ a = run.account
              /\ authenticator' = [authenticator EXCEPT ![a].count = @ + 1]
        /\ invalid' = invalid \union {a}
        /\ Does("journeys", run.todo \ {a})
        /\ UNCHANGED <<db, store, golden, active, dump, published, lock>>
        /\ UNCHANGED <<approved, round, last, started>>
    BY DEF JourneyInvalid, files
  <1>2. late' \subseteq late \union Calls /\ Cardinality(late') <= MaxLate
    BY <1>1 DEF Abandoned, Calls
  <1>3. authenticator' \in Snapshots /\ DOMAIN authenticator' = DOMAIN authenticator
    <2>1. CASE UNCHANGED authenticator
      BY <2>1, DataIs
    <2>2. CASE /\ run.at = "accepted" /\ a = run.account
               /\ authenticator' = [authenticator EXCEPT ![a].count = @ + 1]
      BY <1>1, <2>2, E3Is, AssertedIs
    <2> QED
      BY <1>1, <2>1, <2>2
  <1>4. /\ run' \in RunStates /\ run'.command = "E3" /\ run'.at = "journeys"
        /\ run'.todo = run.todo \ {a}
    <2>1. /\ "journeys" \in Steps /\ run \in RunStates
          /\ run.todo \ {a} \in SUBSET (Accounts \union Files)
      BY <1>1, E3Is DEF Steps
    <2> QED
      BY <1>1, <2>1, DoesIs
  <1>5. ControlTypeOK'
    <2>1. approved' \subseteq Artifacts /\ round' \in 0..Rounds /\ invalid' \subseteq Accounts
      BY <1>1, DataIs DEF ControlTypeOK
    <2> QED
      BY <1>1, <1>4, <2>1, FaultyControl
  <1>6. RunSound'
    <2>1. run'.at \in StepsOf(run.command)
      BY <1>1, <1>4 DEF StepsOf, JourneySteps
    <2> QED
      BY <1>1, <1>4, <2>1, E3Is, ExperimentGoesOn
  <1>7. DataInv'
    <2>1. Side'
      BY <1>1, <1>3, SideKept
    <2> QED
      BY <1>1, <1>2, <2>1, AbandonedKeepsData
  <1>8. E3Sound'
    BY <1>1, <1>3, <1>4, E3Is DEF E3Sound
  <1> QED
    BY <1>4, <1>5, <1>6, <1>7, <1>8, ByE3

LEMMA E3EndStep ==
  ASSUME IInv, E3End
  PROVE  IInv'
  <1>1. /\ run.command = "E3" /\ run.at = "journeys" /\ E3Passed /\ Completes
        /\ approved' = approved \union {<<"E3", run.mode>>} /\ invalid' = {} /\ round' = round
        /\ run' = Idle /\ authenticator' = Nothing
        /\ UNCHANGED <<db, late, store, golden, active, dump, published, lock>>
    BY DEF E3End, At, Completes, files
  <1>2. DataInv'
    BY <1>1, NothingKept, SideKept, SideKeepsData
  <1>3. ControlTypeOK' /\ last'.command = "E3" /\ last'.mode = run.mode
    <2>1. approved' \subseteq Artifacts /\ round' \in 0..Rounds /\ invalid' \subseteq Accounts
      BY <1>1, ApprovedIs, DataIs DEF ControlTypeOK
    <2> QED
      BY <1>1, <2>1, CompletesControl
  <1>4. run.mode = "pilot" => Quiet /\ active = db.credential
    BY <1>1, E3Is DEF E3Passed
  <1>5. EndSound'
    BY <1>1, <1>3, <1>4, IdleIs DEF EndSound, At, JustEnded, Quiet, Live
  <1> QED
    BY <1>1, <1>2, <1>3, <1>5, ByNobody

LEMMA E3Step ==
  ASSUME IInv, E3
  PROVE  IInv'
  BY E3StartStep, JourneyLoginStep, JourneyInvalidStep, JourneyVerifyStep,
     JourneyCommitStep, E3EndStep DEF E3

-----------------------------------------------------------------------------
(* The invariant                                                           *)

LEMMA InitIInv ==
  ASSUME Init
  PROVE  IInv
  <1>1. /\ db = Empty /\ late = {} /\ store = Nothing /\ golden = Absent /\ active = Absent
        /\ dump = Absent /\ published = NoEpoch /\ lock = FALSE /\ authenticator = Nothing
        /\ run = Idle /\ last = NoCommand /\ started = 0 /\ faults = 0
        /\ approved = Earlier /\ round = 0 /\ invalid = {}
    BY DEF Init, ProvisioningInit, DatasetInit
  <1>2. Nothing \in Stores(Totp, Keys) /\ Nothing \in Snapshots /\ Cardinality({}) = 0
    BY NothingIs, NothingKept, FS_EmptySet
  <1>3. DatasetTypeOK
    <2>1. db \in Databases /\ store \in Stores(Totp, Keys) /\ authenticator \in Snapshots
      BY <1>1, <1>2, EmptyIs
    <2>2. late \in SUBSET Requests /\ Cardinality(late) <= MaxLate
      BY <1>1, <1>2, DatasetAssumption
    <2>3. /\ golden \in Snapshots \union {Absent} /\ active \in Snapshots \union {Absent}
          /\ dump \in Databases \union {Absent}
          /\ published \in Epochs \union {NoEpoch} /\ lock \in BOOLEAN
      BY <1>1
    <2> QED
      BY <2>1, <2>2, <2>3 DEF DatasetTypeOK
  <1>4. KeptSound /\ LateSound /\ SecretsFollow
    BY <1>1, EmptyIs DEF KeptSound, LateSound, SecretsFollow, Agree
  <1>5. ControlTypeOK
    <2>1. last \in [command : Commands, mode : RunModes]
      BY <1>1 DEF NoCommand, Commands, RunModes
    <2> QED
      BY <1>1, <2>1, IdleIs, ProvisioningAssumption, ExperimentsAssumption DEF ControlTypeOK
  <1>6. TypeOK
    BY <1>3, <1>5 DEF TypeOK, ControlTypeOK, RunStates, RunRecords
  <1>7. RunSound /\ ModeSound
    BY <1>1, IdleIs DEF RunSound, StepsOf, ModeSound
  <1>8. /\ ProvisionSound /\ EnrollmentSound /\ E1Sound /\ E2Sound /\ BurstSound /\ E3Sound
    BY <1>1, IdleIs
       DEF ProvisionSound, EnrollmentSound, E1Sound, E2Sound, BurstSound, E3Sound
  <1>9. EndSound
    BY <1>1, IdleIs DEF EndSound, At, JustEnded, NoCommand
  <1> QED
    BY <1>4, <1>6, <1>7, <1>8, <1>9 DEF IInv

LEMMA NextIInv ==
  ASSUME IInv, [Next]_vars
  PROVE  IInv'
  <1>1. CASE Provision /\ SameExperiment
    BY <1>1, ProvisionStep
  <1>2. CASE (Snapshot \/ Restore \/ Reset) /\ SameExperiment
    BY <1>2, OthersStep
  <1>3. CASE E1 \/ E2 \/ E3
    BY <1>3, E1Step, E2Step, E3Step
  <1>4. CASE Fail \/ Close \/ Crash
    BY <1>4, FailStep, CloseStep, CrashStep
  <1>5. CASE Backend
    BY <1>5, BackendStep
  <1>6. CASE UNCHANGED vars
    <2>1. UNCHANGED <<db, late, files, authenticator, run, last, started, faults,
                      approved, round, invalid>>
      BY <1>6 DEF vars, provisioningVars, datasetVars, experimentVars, files
    <2> QED
      BY <2>1, FewerLateStep
  <1> QED
    BY <1>1, <1>2, <1>3, <1>4, <1>5, <1>6 DEF Next

\* Database, files and calls under way belong together in every state, as the
\* step of the command that runs has them.
THEOREM AlwaysSound == Spec => []IInv
  <1>1. Init => IInv
    BY InitIInv
  <1>2. IInv /\ [Next]_vars => IInv'
    BY NextIInv
  <1> QED
    BY <1>1, <1>2, PTL DEF Spec

\* Every variable keeps its type, and no bound is passed: the late calls, the
\* commands, the faults, the rounds.
THEOREM TypeCorrect == Spec => []TypeOK
  <1>1. IInv => TypeOK
    BY DEF IInv
  <1> QED
    BY <1>1, AlwaysSound, PTL

\* When a check would accept the dataset, the TOTP secrets on disk are those the
\* database keeps, which no check can see.
THEOREM SecretsAlwaysAgree == Spec => []SecretsAgree
  <1>1. IInv => SecretsAgree
    <2>1. ASSUME IInv, Preflight(golden) \/ ValidDataset,
                 NEW a \in db.enrolled \cap Totp
          PROVE  a \in DOMAIN db.secret /\ store[a] = db.secret[a]
      <3>1. Agree(db) /\ a \in DOMAIN store
        BY <2>1, ChecksAgree
      <3>2. DOMAIN db.secret = db.enrolled \cap Totp
        BY <2>1, DataIs DEF DatabaseSound
      <3> QED
        BY <2>1, <3>1, <3>2 DEF Agree
    <2> QED
      BY <2>1 DEF SecretsAgree
  <1> QED
    BY <1>1, AlwaysSound, PTL

\* A campaign or pilot of E2 that was valid, and a pilot of E3 that passed, leave
\* the active snapshot with the counters of the database.
THEOREM CountersAlwaysTogether == Spec => []CountersTogether
  <1>1. IInv => CountersTogether
    BY DEF IInv, EndSound, CountersTogether
  <1> QED
    BY <1>1, AlwaysSound, PTL

\* E1 that completed gives the dataset back.
THEOREM E1AlwaysGivesBack == Spec => []E1GivesBack
  <1>1. IInv => E1GivesBack
    BY DEF IInv, EndSound, E1GivesBack
  <1> QED
    BY <1>1, AlwaysSound, PTL

\* provision that completed leaves a whole golden dataset.
THEOREM DatasetAlwaysGolden == Spec => []GoldenDataset
  <1>1. IInv => GoldenDataset
    BY DEF IInv, EndSound, GoldenDataset, Complete
  <1> QED
    BY <1>1, AlwaysSound, PTL

\* An assertion E2 prepared is accepted while its challenge is there.
THEOREM PreparedAlwaysAccepted == Spec => []PreparedAccepted
  <1>1. ASSUME IInv, At("E2", "release"), NEW a \in run.batch \cap db.logins \cap WebAuthn
        PROVE  Accepts(db, Prepared(a))
    <2>1. run.command = "E2" /\ run.at \in BurstSteps /\ run.at \in LoadedSteps
          /\ run.at = "release"
      BY <1>1 DEF At, BurstSteps, LoadedSteps
    <2>2. Complete /\ run.variant \in Variants /\ a \in run.variant
      BY <1>1, <2>1, E2Is
    <2>3. run.variant = WebAuthn
      BY <2>2, DatasetAssumption DEF Variants
    <2>4. Ahead(run.batch) /\ WebAuthn \subseteq DOMAIN authenticator
      BY <1>1, <2>1, <2>3 DEF IInv, BurstSound
    <2>5. /\ a \in DOMAIN authenticator /\ a \in DOMAIN db.credential
          /\ authenticator[a].key = db.credential[a].key
          /\ authenticator[a].count = db.credential[a].count + 1
      BY <1>1, <2>4 DEF Ahead
    <2>6. db.credential[a].count \in Nat
      <3>1. db.credential[a] \in Credentials
        BY <1>1, <2>5, DataIs, TablesAre
      <3> QED
        BY <3>1 DEF Credentials
    <2> DEFINE r == Prepared(a)
    <2>7. /\ r.kind = "verify" /\ r.account = a /\ r.epoch = db.epoch
          /\ r.key = authenticator[a].key /\ r.count = authenticator[a].count
      BY <1>1 DEF Prepared, Req
    <2> HIDE DEF r
    <2>8. a \in db.users /\ a \notin Totp
      BY <1>1, <2>2, DatasetAssumption DEF Complete, Accounts
    <2>9. RightAnswer(db, r)
      BY <1>1, <2>5, <2>6, <2>7, <2>8 DEF RightAnswer
    <2> QED
      BY <2>7, <2>8, <2>9 DEF Accepts, r
  <1>2. IInv => PreparedAccepted
    BY <1>1 DEF PreparedAccepted
  <1> QED
    BY <1>2, AlwaysSound, PTL

-----------------------------------------------------------------------------
(* The pair of dump and golden snapshot                                    *)

\* Only snapshot and reset touch the pair, provision aside.
LEMMA PairUntouched ==
  ASSUME IInv, [Next]_vars, run.command # "provision", ~SnapshotEnd,
         \A f \in Files : ~DeleteFile(f)
  PROVE  UNCHANGED <<dump, golden>>
  <1>1. CASE Provision
    <2>1. CASE ProvisionStart
      BY <2>1 DEF ProvisionStart, SameData, datasetVars
    <2>2. CASE \E a \in Accounts :
                 SwitchEmail(a) \/ StartTotp(a) \/ CreateCredential(a) \/ DryLogin(a)
      BY <2>2, Zenon DEF SwitchEmail, StartTotp, CreateCredential, DryLogin, At
    <2>3. CASE SeedBatch \/ SeedDone \/ EmailDone \/ WriteSecret \/ ConfirmTotp
      BY <2>3, Zenon DEF SeedBatch, SeedDone, EmailDone, WriteSecret, ConfirmTotp, At
    <2>4. CASE LaunchBrowser \/ RegisterCredential \/ SaveEnrolled \/ WebAuthnDone \/ DryVerify
      BY <2>4, Zenon DEF LaunchBrowser, RegisterCredential, SaveEnrolled, WebAuthnDone,
         DryVerify, At
    <2>5. CASE SaveDryRun \/ CleanAfterDryRun \/ Publish \/ Validate \/ DumpProvisioned \/ ProvisionEnd
      BY <2>5, Zenon DEF SaveDryRun, CleanAfterDryRun, Publish, Validate, DumpProvisioned,
         ProvisionEnd, At
    <2> QED
      BY <1>1, <2>1, <2>2, <2>3, <2>4, <2>5 DEF Provision
  <1>2. CASE Snapshot \/ Restore \/ Reset
    BY <1>2 DEF Snapshot, Restore, Reset, SnapshotStart, RestoreStart, RestoreEnd,
       RestoreBroken, ResetStart, ResetRows, ResetEnd, SameData, datasetVars, files
  <1>3. CASE E1
    BY <1>3 DEF E1, E1Start, E1Validate, E1Login, E1MailFails, E1Finalize, E1End, CleanUp, files
  <1>4. CASE E2
    <2>1. CASE \E mode \in Modes : E2Start(mode)
      BY <2>1 DEF E2Start
    <2>2. CASE E2Snapshot \/ E2Load \/ E2Check \/ E2Limiter \/ E2Limited
      BY <2>2 DEF E2Snapshot, E2Load, E2Check, E2Limiter, E2Limited, SameData, datasetVars, files
    <2>3. CASE \E V \in Variants : E2Burst(V)
      BY <2>3 DEF E2Burst, SameData, datasetVars
    <2>4. CASE \E a \in Accounts : E2Login(a) \/ E2Assert(a) \/ E2Verify(a)
      BY <2>4 DEF E2Login, E2Assert, E2Verify, files
    <2>5. CASE E2Prepared \/ E2Postcondition \/ E2Round \/ E2Completed
      BY <2>5 DEF E2Prepared, E2Postcondition, E2Round, E2Completed, SameData, datasetVars
    <2>6. CASE E2Close \/ E2Status \/ E2Unlock
      BY <2>6 DEF E2Close, E2Status, E2Unlock, SameData, datasetVars
    <2> QED
      BY <1>4, <2>1, <2>2, <2>3, <2>4, <2>5, <2>6 DEF E2
  <1>5. CASE E3
    <2>1. CASE \E mode \in Modes : E3Start(mode)
      BY <2>1 DEF E3Start, files
    <2>2. CASE \E a \in Accounts : JourneyLogin(a) \/ JourneyInvalid(a)
      BY <2>2 DEF JourneyLogin, JourneyInvalid, files
    <2>3. CASE JourneyVerify \/ JourneyCommit \/ E3End
      BY <2>3 DEF JourneyVerify, JourneyCommit, E3End, files
    <2> QED
      BY <1>5, <2>1, <2>2, <2>3 DEF E3
  <1>6. CASE Fail \/ Close \/ Crash
    BY <1>6 DEF Fail, Close, Crash, files
  <1>7. CASE Backend
    BY <1>7 DEF Backend, LateServed, LateLost, files
  <1>8. CASE UNCHANGED vars
    BY <1>8 DEF vars, provisioningVars, datasetVars
  <1> QED
    BY <1>1, <1>2, <1>3, <1>4, <1>5, <1>6, <1>7, <1>8 DEF Next

\* Dump and golden snapshot are a pair that no command but provision and reset takes
\* apart, neither by completing nor by a crash, a broken restore or a call served
\* late; and a reset leaves no two that do not fit, wherever it dies.
THEOREM PairAlwaysKept == Spec => PairKept
  <1> DEFINE Kept == run.command # "provision" =>
                       /\ Fits => Fits'
                       /\ run.command # "reset" /\ Paired => Paired'
  <1>1. ASSUME IInv, [Next]_vars, run.command # "provision"
        PROVE  Kept
    <2>1. CASE SnapshotEnd
      <3>1. At("snapshot", "dump") /\ dump' = db /\ golden' = golden
        BY <2>1 DEF SnapshotEnd, WriteDump
      <3>2. golden = db.credential
        BY <1>1, <3>1 DEF IInv, EndSound
      <3>3. db # Absent /\ golden # Absent
        BY <1>1, <3>2, DataIs, TablesAre, AbsentAssumption
      <3>4. Paired'
        BY <3>1, <3>2, <3>3 DEF Paired, Fits
      <3> QED
        BY <3>4 DEF Paired
    <2>2. CASE \E f \in Files : DeleteFile(f)
      <3>1. run.command = "reset"
        BY <2>2 DEF DeleteFile, At
      <3>2. dump' \in {dump, Absent} /\ golden' \in {golden, Absent}
        BY <2>2 DEF DeleteFile
      <3> QED
        BY <3>1, <3>2 DEF Fits
    <2>3. CASE ~SnapshotEnd /\ \A f \in Files : ~DeleteFile(f)
      BY <1>1, <2>3, PairUntouched DEF Paired, Fits
    <2> QED
      BY <2>1, <2>2, <2>3
  <1>2. IInv /\ [Next]_vars => [Kept]_vars
    BY <1>1
  <1> QED
    BY <1>2, AlwaysSound, PTL DEF Spec, PairKept
=============================================================================
