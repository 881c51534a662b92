------------------------------ MODULE Dataset ------------------------------
(***************************************************************************)
(* The research dataset: the accounts the backend knows, the files that    *)
(* hold the other half of their second factors, and the checks that decide *)
(* whether the two halves still belong together (research/dataset.ts,      *)
(* research/runtime.ts).  The commands that change them are added by       *)
(* Provisioning and Experiments.                                           *)
(*                                                                         *)
(* A command runs alone, started by one operator.  It may crash at any     *)
(* step.  Each call it makes to the backend is served, refused, or given   *)
(* up: a call given up may be served much later, or never.                 *)
(*                                                                         *)
(* Accounts without a second factor hold no such state and are left out.   *)
(* An epoch names one set of user ids: the accounts seeded after a reset   *)
(* have the same addresses and other ids.                                  *)
(***************************************************************************)
EXTENDS Integers, FiniteSets, Functions

CONSTANTS
  Email, Totp, WebAuthn,  \* the accounts of each variant
  NoAccount,
  Absent,        \* stands for a file that is not there
  MaxKey,        \* bound on the secrets and credentials in use at one time
  MaxCount,      \* bound on signature counters
  MaxEpoch,      \* bound on the epochs in use at one time
  MaxLate        \* bound on the calls given up and not yet served

ASSUME DatasetAssumption ==
  /\ Email \cap Totp = {} /\ Email \cap WebAuthn = {} /\ Totp \cap WebAuthn = {}
  /\ NoAccount \notin Email \union Totp \union WebAuthn
  /\ IsFiniteSet(Email \union Totp \union WebAuthn)
  /\ MaxKey \in Nat /\ MaxCount \in Nat /\ MaxEpoch \in Nat /\ MaxLate \in Nat

Accounts == Email \union Totp \union WebAuthn
Keyed == Totp \union WebAuthn
Keys == 1..MaxKey
NoKey == 0
Epochs == 1..MaxEpoch
NoEpoch == 0

\* A sparse store: some of the accounts of S, each with a value.
Stores(S, V) == UNION {[T -> V] : T \in SUBSET S}
Nothing == [a \in {} |-> NoKey]
With(store, a, v) ==
  [b \in DOMAIN store \union {a} |-> IF b = a THEN v ELSE store[b]]

\* A credential, in the database and in an authenticator.
Credentials == [key : Keys, count : 0..MaxCount]
Snapshots == Stores(WebAuthn, Credentials)

\* Tables users, webauthn_credentials and mfa_challenges: the enrollment
\* challenge of an account offers a key, a login challenge is just there.
Databases ==
  [epoch : Epochs \union {NoEpoch},
   users : SUBSET Accounts,
   enrolled : SUBSET Accounts,
   secret : Stores(Totp, Keys),
   credential : Snapshots,
   offered : Stores(Keyed, Keys),
   logins : SUBSET Accounts]

ASSUME AbsentAssumption == Absent \notin Databases /\ Absent \notin Snapshots

Empty == [epoch |-> NoEpoch, users |-> {}, enrolled |-> {}, secret |-> Nothing,
          credential |-> Nothing, offered |-> Nothing, logins |-> {}]

Requests ==
  [kind : {"switch", "start", "confirm", "login", "verify"},
   epoch : Epochs, account : Accounts,
   key : Keys \union {NoKey}, count : 0..MaxCount]

VARIABLES
  db,            \* the database
  late,          \* calls whose client gave up, not yet served
  store,         \* secrets/totp-secrets.json
  golden,        \* snapshots/webauthn-authenticator.json
  active,        \* snapshots/e2-webauthn-current.json
  dump,          \* snapshots/research-db.dump
  published,     \* the epoch of dataset/accounts.csv
  lock,          \* is snapshots/e2-live.lock there?
  authenticator  \* the credentials in the memory of the running command

datasetVars == <<db, late, store, golden, active, dump, published, lock,
                 authenticator>>
files == <<store, golden, active, dump, published, lock>>

-----------------------------------------------------------------------------
(* The backend, as these commands use it.                                  *)

Req(kind, a, k, n) ==
  [kind |-> kind, epoch |-> db.epoch, account |-> a, key |-> k, count |-> n]

\* The answer to a challenge: a counter must grow.
RightAnswer(d, r) ==
  /\ r.account \in d.logins
  /\ r.account \in Totp => r.key = d.secret[r.account]
  /\ r.account \in WebAuthn =>
       /\ r.account \in DOMAIN d.credential
       /\ r.key = d.credential[r.account].key
       /\ r.count > d.credential[r.account].count

\* Tokens name the user id, a login the address.
Accepts(d, r) ==
  /\ r.account \in d.users
  /\ \/ r.kind = "login" /\ r.account \in d.enrolled
     \/ /\ r.kind \in {"switch", "start"}
        /\ r.epoch = d.epoch /\ r.account \notin d.enrolled
     \/ /\ r.kind = "confirm"
        /\ r.epoch = d.epoch /\ r.account \notin d.enrolled
        /\ r.account \in DOMAIN d.offered /\ d.offered[r.account] = r.key
     \/ r.kind = "verify" /\ r.epoch = d.epoch /\ RightAnswer(d, r)

Confirmed(d, a, k) ==
  LET e == [d EXCEPT !.enrolled = @ \union {a},
                     !.offered = Restrict(@, DOMAIN @ \ {a})]
  IN  IF a \in Totp THEN [e EXCEPT !.secret = With(@, a, k)]
      ELSE [e EXCEPT !.credential = With(@, a, [key |-> k, count |-> 0])]

Verified(d, a, n) ==
  LET e == [d EXCEPT !.logins = @ \ {a}]
  IN  IF a \in WebAuthn THEN [e EXCEPT !.credential[a].count = n] ELSE e

Serve(d, r) ==
  IF r.kind = "login" THEN [d EXCEPT !.logins = @ \union {r.account}]
  ELSE IF r.kind = "switch" THEN [d EXCEPT !.enrolled = @ \union {r.account}]
  ELSE IF r.kind = "start" THEN [d EXCEPT !.offered = With(@, r.account, r.key)]
  ELSE IF r.kind = "confirm" THEN Confirmed(d, r.account, r.key)
  ELSE Verified(d, r.account, r.count)

\* A new login replaces the challenge: answers to the former one are void.
Standing(r) ==
  IF r.kind = "login"
  THEN {l \in late : ~(l.kind = "verify" /\ l.account = r.account)}
  ELSE late

\* The call is served, and its client gets the response.
Served(r) ==
  /\ Accepts(db, r)
  /\ db' = Serve(db, r)
  /\ late' = Standing(r)

\* A call given up is served after all, or is found to be void.
LateServed ==
  \E r \in late :
    /\ db' = IF Accepts(db, r) THEN Serve(db, r) ELSE db
    /\ late' = (IF Accepts(db, r) THEN Standing(r) ELSE late) \ {r}
    /\ UNCHANGED <<files, authenticator>>

\* A call given up is lost.
LateLost ==
  \E r \in late : late' = late \ {r} /\ UNCHANGED <<db, files, authenticator>>

WithoutChallenges(d) == [d EXCEPT !.offered = Nothing, !.logins = {}]
NoChallenges(d) == DOMAIN d.offered = {} /\ d.logins = {}

-----------------------------------------------------------------------------
(* The checks of the commands.                                             *)

Present(snapshot) == IF snapshot = Absent THEN Nothing ELSE snapshot

\* preflight of runtime.ts: provisioning gives it the golden snapshot, E3 the
\* active one.  TOTP secrets are only asked to be there.
Preflight(snapshot) ==
  /\ NoChallenges(db)
  /\ db.enrolled \cap Totp \subseteq DOMAIN store
  /\ db.enrolled \cap WebAuthn = DOMAIN db.credential
  /\ db.credential = Present(snapshot)

\* A mutant: the counters of the snapshot are not compared.
ValidByCredential ==
  /\ db.users = Accounts /\ db.enrolled = Accounts
  /\ NoChallenges(db)
  /\ DOMAIN store = Totp
  /\ golden # Absent /\ DOMAIN golden = WebAuthn
  /\ \A a \in WebAuthn :
       a \in DOMAIN db.credential /\ golden[a].key = db.credential[a].key
  /\ published = db.epoch

\* validateDataset.  It cannot compare the encrypted TOTP secrets either.
ValidDataset ==
  /\ db.users = Accounts /\ db.enrolled = Accounts
  /\ NoChallenges(db)
  /\ DOMAIN store = Totp
  /\ golden # Absent /\ golden = db.credential /\ DOMAIN golden = WebAuthn
  /\ published = db.epoch

\* loadAccounts of E2.
AccountsLoadable ==
  db.users = Accounts /\ db.enrolled = Accounts /\ published = db.epoch

\* captureState and assertCleanState of E2.
CleanState ==
  /\ db.logins = {}
  /\ DOMAIN db.credential = WebAuthn /\ db.credential = authenticator

-----------------------------------------------------------------------------
KeysIn(snapshot) == {snapshot[a].key : a \in DOMAIN snapshot}

KeysOf(d) == Range(d.secret) \union KeysIn(d.credential) \union Range(d.offered)

\* A random secret is unlike any in use.
FreshKeys ==
  LET inUse == KeysOf(db) \union Range(store) \union KeysIn(Present(golden))
                 \union KeysIn(Present(active)) \union KeysIn(authenticator)
                 \union {r.key : r \in late}
                 \union (IF dump = Absent THEN {} ELSE KeysOf(dump))
      free == Keys \ inUse
  IN  {k \in free : \A l \in free : k <= l}

\* So are new user ids.
FreshEpochs ==
  LET inUse == {db.epoch, published} \union {r.epoch : r \in late}
                 \union (IF dump = Absent THEN {} ELSE {dump.epoch})
      free == Epochs \ inUse
  IN  {e \in free : \A f \in free : e <= f}

DatasetInit ==
  /\ db = Empty /\ late = {}
  /\ store = Nothing /\ golden = Absent /\ active = Absent
  /\ dump = Absent /\ published = NoEpoch /\ lock = FALSE
  /\ authenticator = Nothing

DatasetTypeOK ==
  /\ db \in Databases
  /\ late \in SUBSET Requests /\ Cardinality(late) <= MaxLate
  /\ store \in Stores(Totp, Keys)
  /\ golden \in Snapshots \union {Absent}
  /\ active \in Snapshots \union {Absent}
  /\ dump \in Databases \union {Absent}
  /\ published \in Epochs \union {NoEpoch} /\ lock \in BOOLEAN
  /\ authenticator \in Snapshots
=============================================================================
