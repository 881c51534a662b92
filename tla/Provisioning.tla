--------------------------- MODULE Provisioning ----------------------------
(***************************************************************************)
(* The commands that make, save, restore and remove the dataset            *)
(* (research/scripts): provision, snapshot, restore and reset, step by     *)
(* step, with the calls they make to the backend.                          *)
(***************************************************************************)
EXTENDS Dataset

CONSTANTS
  Sample,       \* the account of each variant that dry runs log in
  MaxCommands,  \* bound on the commands started
  MaxFaults     \* bound on what goes wrong: a failure, a crash, a call or journey lost

ASSUME ProvisioningAssumption ==
  /\ Sample \subseteq Accounts
  /\ \A V \in {Email, Totp, WebAuthn} : Cardinality(Sample \cap V) = 1
  /\ MaxCommands \in Nat /\ MaxFaults \in Nat

VARIABLES
  run,       \* the command that runs, where it is and what it holds
  last,      \* the command that has just completed, if one has
  started,   \* how many commands were started
  faults     \* how much has gone wrong

provisioningVars == <<datasetVars, run, last, started, faults>>

Files == {"store", "golden", "active", "dump", "lock", "published"}

\* todo: the accounts, or files, still to do; batch: those of one burst, of
\* the variant given.
Idle == [command |-> "none", mode |-> "none", at |-> "idle", todo |-> {},
         variant |-> {}, batch |-> {}, account |-> NoAccount, key |-> NoKey]

At(command, at) == run.command = command /\ run.at = at
Goes(at) == run' = [run EXCEPT !.at = at]
Does(at, accounts) == run' = [run EXCEPT !.at = at, !.todo = accounts]

NoCommand == [command |-> "none", mode |-> "none"]

Begins(command, mode, at, todo) ==
  /\ run = Idle /\ started < MaxCommands
  /\ run' = [Idle EXCEPT !.command = command, !.mode = mode,
                         !.at = at, !.todo = todo]
  /\ last' = NoCommand
  /\ started' = started + 1 /\ UNCHANGED faults

Completes ==
  /\ run' = Idle /\ authenticator' = Nothing
  /\ last' = [command |-> run.command, mode |-> run.mode]
  /\ UNCHANGED <<started, faults>>

\* It fails or crashes: what it held in memory is lost.
Aborts ==
  /\ run' = Idle /\ authenticator' = Nothing
  /\ UNCHANGED <<last, started>>

Same == UNCHANGED <<last, started, faults>>
SameData == UNCHANGED datasetVars

Faulty == faults < MaxFaults /\ faults' = faults + 1

\* The assertion for a login: the counter of the credential, plus one.
Assertion(a) ==
  Req("verify", a, authenticator[a].key, authenticator[a].count + 1)

\* The answer the command gives for account a.
Answer(a) ==
  IF a \in WebAuthn THEN Assertion(a)
  ELSE IF a \in Totp THEN Req("verify", a, store[a], 0)
  ELSE Req("verify", a, NoKey, 0)

\* Is there a secret to answer with?
CanAnswer(a) == a \in Totp => a \in DOMAIN store

\* The bound on counters.
CanAssert(a) ==
  a \in WebAuthn => a \in DOMAIN authenticator /\ authenticator[a].count < MaxCount

-----------------------------------------------------------------------------
(* provision: main of provision-dataset.ts.                                *)

ProvisionStart ==
  /\ Preflight(golden)
  /\ Begins("provision", "none", "seed", Accounts \ db.users)
  /\ SameData

\* A batch of the accounts that are missing.
SeedBatch ==
  /\ At("provision", "seed")
  /\ \E batch \in SUBSET run.todo \ {{}}, e \in FreshEpochs :
       /\ db' = [db EXCEPT !.users = @ \union batch,
                           !.epoch = IF db.users = {} THEN e ELSE @]
       /\ Does("seed", run.todo \ batch)
  /\ UNCHANGED <<late, files, authenticator>> /\ Same

SeedDone ==
  /\ At("provision", "seed") /\ run.todo = {}
  /\ Does("email", Email \ db.enrolled)
  /\ SameData /\ Same

SwitchEmail(a) ==
  /\ At("provision", "email") /\ a \in run.todo
  /\ Served(Req("switch", a, NoKey, 0))
  /\ Does("email", run.todo \ {a})
  /\ UNCHANGED <<files, authenticator>> /\ Same

EmailDone ==
  /\ At("provision", "email") /\ run.todo = {}
  /\ db.enrolled \cap Totp \subseteq DOMAIN store
  /\ Does("totp", Totp \ db.enrolled)
  /\ SameData /\ Same

StartTotp(a) ==
  /\ At("provision", "totp") /\ a \in run.todo
  /\ \E k \in FreshKeys :
       /\ Served(Req("start", a, k, 0))
       /\ run' = [run EXCEPT !.at = "offered", !.account = a, !.key = k]
  /\ UNCHANGED <<files, authenticator>> /\ Same

\* A mutant: an entry that is there is kept.
WriteSecretOnce ==
  /\ At("provision", "offered")
  /\ store' = IF run.account \in DOMAIN store THEN store
              ELSE With(store, run.account, run.key)
  /\ Goes("written")
  /\ UNCHANGED <<db, late, golden, active, dump, published, lock, authenticator>> /\ Same

\* The secret is on disk before the backend is asked to confirm it.
WriteSecret ==
  /\ At("provision", "offered")
  /\ store' = With(store, run.account, run.key)
  /\ Goes("written")
  /\ UNCHANGED <<db, late, golden, active, dump, published, lock, authenticator>> /\ Same

ConfirmTotp ==
  /\ At("provision", "written")
  /\ Served(Req("confirm", run.account, run.key, 0))
  /\ Does("totp", run.todo \ {run.account})
  /\ UNCHANGED <<files, authenticator>> /\ Same

\* The browser starts with the credentials of the golden snapshot.
LaunchBrowser ==
  /\ At("provision", "totp") /\ run.todo = {}
  /\ \A a \in DOMAIN db.credential :
       a \in DOMAIN Present(golden) /\ golden[a].key = db.credential[a].key
  /\ authenticator' = Present(golden)
  /\ Does("webauthn", WebAuthn \ db.enrolled)
  /\ UNCHANGED <<db, late, files>> /\ Same

\* The options are served, and the browser creates a credential for them.
CreateCredential(a) ==
  /\ At("provision", "webauthn") /\ a \in run.todo
  /\ \E k \in FreshKeys :
       /\ Served(Req("start", a, k, 0))
       /\ authenticator' = With(authenticator, a, [key |-> k, count |-> 0])
       /\ run' = [run EXCEPT !.at = "created", !.account = a, !.key = k]
  /\ UNCHANGED files /\ Same

RegisterCredential ==
  /\ At("provision", "created")
  /\ Served(Req("confirm", run.account, run.key, 0))
  /\ Goes("registered")
  /\ UNCHANGED <<files, authenticator>> /\ Same

SaveGolden ==
  /\ golden' = authenticator
  /\ UNCHANGED <<db, late, store, active, dump, published, lock,
                 authenticator>>

SaveEnrolled ==
  /\ At("provision", "registered")
  /\ SaveGolden
  /\ Does("webauthn", run.todo \ {run.account})
  /\ Same

WebAuthnDone ==
  /\ At("provision", "webauthn") /\ run.todo = {}
  /\ Does("dryrun", Sample)
  /\ SameData /\ Same

\* EMAIL_OTP first, then TOTP, then WEBAUTHN.
NextInDryRun(a) ==
  /\ a \in run.todo
  /\ a \notin Email => run.todo \cap Email = {}
  /\ a \in WebAuthn => run.todo \cap Totp = {}

\* The login of EMAIL_OTP is left pending.
DryLogin(a) ==
  /\ At("provision", "dryrun") /\ NextInDryRun(a) /\ CanAssert(a)
  /\ Served(Req("login", a, NoKey, 0))
  /\ IF a \in Email THEN Does("dryrun", run.todo \ {a})
     ELSE run' = [run EXCEPT !.at = "pending", !.account = a]
  /\ UNCHANGED <<files, authenticator>> /\ Same

DryVerify ==
  LET a == run.account
  IN  /\ At("provision", "pending")
      /\ Served(Answer(a))
      /\ authenticator' = IF a \in Totp THEN authenticator
                          ELSE [authenticator EXCEPT ![a].count = @ + 1]
      /\ Does(IF a \in Totp THEN "dryrun" ELSE "verified", run.todo \ {a})
      /\ UNCHANGED files /\ Same

SaveDryRun ==
  /\ At("provision", "verified")
  /\ SaveGolden
  /\ Goes("clean") /\ Same

CleanUp == db' = WithoutChallenges(db) /\ UNCHANGED <<late, files, authenticator>>

CleanAfterDryRun ==
  /\ At("provision", "clean")
  /\ CleanUp
  /\ Goes("publish") /\ Same

\* accounts.csv and dataset.json.
Publish ==
  /\ At("provision", "publish")
  /\ published' = db.epoch
  /\ Goes("validate")
  /\ UNCHANGED <<db, late, store, golden, active, dump, lock, authenticator>> /\ Same

Validate ==
  /\ At("provision", "validate") /\ ValidDataset
  /\ Goes("dump")
  /\ SameData /\ Same

WriteDump ==
  /\ dump' = db
  /\ UNCHANGED <<db, late, store, golden, active, published, lock>>

\* A mutant: a dump that is there is kept.
DumpOnce ==
  /\ At("provision", "dump")
  /\ dump' = IF dump = Absent THEN db ELSE dump
  /\ UNCHANGED <<db, late, store, golden, active, published, lock, authenticator>>
  /\ Goes("finally") /\ Same

DumpProvisioned ==
  /\ At("provision", "dump")
  /\ WriteDump /\ UNCHANGED authenticator
  /\ Goes("finally") /\ Same

\* The finally block cleans up once more.
ProvisionEnd ==
  /\ At("provision", "finally")
  /\ db' = WithoutChallenges(db) /\ UNCHANGED <<late, files>>
  /\ Completes

Provision ==
  \/ ProvisionStart \/ SeedBatch \/ SeedDone \/ EmailDone
  \/ \E a \in Accounts :
       \/ SwitchEmail(a) \/ StartTotp(a) \/ CreateCredential(a) \/ DryLogin(a)
  \/ WriteSecret \/ ConfirmTotp
  \/ LaunchBrowser \/ RegisterCredential \/ SaveEnrolled \/ WebAuthnDone
  \/ DryVerify \/ SaveDryRun \/ CleanAfterDryRun
  \/ Publish \/ Validate \/ DumpProvisioned \/ ProvisionEnd

\* The calls of provision that may be on their way.
ProvisionCalls ==
  IF At("provision", "email") THEN {Req("switch", a, NoKey, 0) : a \in run.todo}
  ELSE IF At("provision", "totp") \/ At("provision", "webauthn")
  THEN {Req("start", a, k, 0) : a \in run.todo, k \in FreshKeys}
  ELSE IF At("provision", "written") \/ At("provision", "created")
  THEN {Req("confirm", run.account, run.key, 0)}
  ELSE IF At("provision", "dryrun")
  THEN {Req("login", a, NoKey, 0) : a \in {b \in run.todo : NextInDryRun(b)}}
  ELSE IF At("provision", "pending") THEN {Answer(run.account)}
  ELSE {}

-----------------------------------------------------------------------------
(* snapshot and restore: database-snapshot.ts.                             *)

\* Mutant: the dataset is not validated before it is dumped.
SnapshotUnchecked ==
  /\ Begins("snapshot", "none", "dump", {})
  /\ SameData

SnapshotStart ==
  /\ ValidDataset
  /\ Begins("snapshot", "none", "dump", {})
  /\ SameData

SnapshotEnd ==
  /\ At("snapshot", "dump")
  /\ WriteDump
  /\ Completes

\* Restoring asks for a stopped backend: no call survives it.
RestoreStart ==
  /\ dump # Absent
  /\ Begins("restore", "none", "restore", {})
  /\ SameData

RestoreEnd ==
  /\ At("restore", "restore")
  /\ db' = dump /\ late' = {} /\ UNCHANGED files
  /\ Completes

\* pg_restore stops at its first error, with the tables it got to.
RestoreBroken ==
  /\ At("restore", "restore")
  /\ db' \in {Empty, [dump EXCEPT !.credential = Nothing, !.offered = Nothing,
                                 !.logins = {}]}
  /\ late' = {} /\ UNCHANGED files
  /\ Aborts /\ Faulty

Snapshot == SnapshotStart \/ SnapshotEnd
Restore == RestoreStart \/ RestoreEnd \/ RestoreBroken

-----------------------------------------------------------------------------
(* reset: resetDataset.                                                    *)

ResetStart ==
  /\ Begins("reset", "none", "rows", Files)
  /\ SameData

\* One transaction deletes the challenges, the credentials and the users.
ResetRows ==
  /\ At("reset", "rows")
  /\ db' = Empty
  /\ Goes("files")
  /\ UNCHANGED <<late, files, authenticator>> /\ Same

\* The secrets first, then the snapshots as readdir lists them, accounts.csv
\* last.
DeleteFile(f) ==
  /\ At("reset", "files") /\ f \in run.todo
  /\ f # "store" => "store" \notin run.todo
  /\ f = "published" => run.todo = {"published"}
  /\ store' = IF f = "store" THEN Nothing ELSE store
  /\ golden' = IF f = "golden" THEN Absent ELSE golden
  /\ active' = IF f = "active" THEN Absent ELSE active
  /\ dump' = IF f = "dump" THEN Absent ELSE dump
  /\ lock' = (lock /\ f # "lock")
  /\ published' = IF f = "published" THEN NoEpoch ELSE published
  /\ Does("files", run.todo \ {f})
  /\ UNCHANGED <<db, late, authenticator>> /\ Same

ResetEnd ==
  /\ At("reset", "files") /\ run.todo = {}
  /\ UNCHANGED <<db, late, files>>
  /\ Completes

Reset == ResetStart \/ ResetRows \/ ResetEnd \/ \E f \in Files : DeleteFile(f)

ProvisioningInit ==
  /\ DatasetInit
  /\ run = Idle /\ started = 0 /\ faults = 0
  /\ last = NoCommand
=============================================================================
