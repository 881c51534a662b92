---------------------------- MODULE Experiments ----------------------------
(***************************************************************************)
(* The experiments that wear the dataset out: E1 logs every account in, E2 *)
(* verifies in bursts and E3 in single journeys.  E1 is to give the        *)
(* dataset back as it was; E2 and E3 advance the WebAuthn counters of the  *)
(* database and of the active snapshot, which must stay together.          *)
(*                                                                         *)
(* What happens inside one burst of E2 is the business of module Burst.    *)
(***************************************************************************)
EXTENDS Provisioning

CONSTANTS
  Earlier,       \* runs on datasets before this one: a reset leaves their results
  Rounds,        \* rounds of bursts in a full campaign of E2, warm-up included
  InvalidLimit   \* invalid journeys that make a scenario of E3 invalid

Modes == {"preflight", "pilot", "full"}
Artifacts == {"E2", "E3"} \X Modes

ASSUME ExperimentsAssumption ==
  Earlier \subseteq Artifacts /\ Rounds \in Nat \ {0} /\ InvalidLimit \in Nat \ {0}

VARIABLES
  approved,  \* artifacts of runs that may be cited by the next stage
  round,     \* of the campaign of E2
  invalid    \* the accounts whose journey of E3 was invalid

experimentVars == <<approved, round, invalid>>
vars == <<provisioningVars, experimentVars>>

SameExperiment == UNCHANGED experimentVars

\* pilot cites a preflight and full a pilot, by the directory of its results.
Cites(experiment, mode) ==
  /\ mode = "pilot" => <<experiment, "preflight">> \in approved
  /\ mode = "full" => <<experiment, "pilot">> \in approved

-----------------------------------------------------------------------------
(* E1: main of run-e1.ts.                                                  *)

\* accounts.csv is read, and stale challenges are deleted before validation.
E1Start(mode) ==
  /\ published # NoEpoch
  /\ Begins("E1", mode, "validate", Accounts)
  /\ CleanUp /\ SameExperiment

\* The preflight only logs in accounts without a second factor.
E1Validate ==
  /\ At("E1", "validate") /\ ValidDataset
  /\ IF run.mode = "preflight" THEN Completes
     ELSE Goes("logins") /\ UNCHANGED authenticator /\ Same
  /\ UNCHANGED <<db, late, files>> /\ SameExperiment

E1Login(a) ==
  /\ At("E1", "logins") /\ a \in run.todo
  /\ Served(Req("login", a, NoKey, 0))
  /\ Does("logins", run.todo \ {a})
  /\ UNCHANGED <<files, authenticator>> /\ Same /\ SameExperiment

\* assertBurst forgives a measured burst the mails that could not be sent (503): the
\* login has replaced the challenge that was there, and its own was removed again.
E1MailFails(a) ==
  LET login == Req("login", a, NoKey, 0)
  IN  /\ At("E1", "logins") /\ a \in run.todo \cap Email /\ run.mode = "full"
      /\ Accepts(db, login)
      /\ db' = [db EXCEPT !.logins = @ \ {a}]
      /\ late' = Standing(login)
      /\ Does("logins", run.todo \ {a})
      /\ Faulty
      /\ UNCHANGED <<files, authenticator, last, started>> /\ SameExperiment

\* finalizeDataset: the challenges are deleted, the dataset must be valid.
E1Finalize ==
  /\ At("E1", "logins") /\ run.todo = {}
  /\ CleanUp
  /\ Goes("finalized") /\ Same /\ SameExperiment

\* assertAuthStatePreserved compares the counters with those at the start: both
\* are those of the golden snapshot, by validateDataset.
E1End ==
  /\ At("E1", "finalized") /\ ValidDataset
  /\ UNCHANGED <<db, late, files>>
  /\ Completes /\ SameExperiment

E1 == \/ \E mode \in Modes : E1Start(mode)
      \/ E1Validate \/ E1Finalize \/ E1End
      \/ \E a \in Accounts : E1Login(a) \/ E1MailFails(a)

E1Calls ==
  IF At("E1", "logins") THEN {Req("login", a, NoKey, 0) : a \in run.todo} ELSE {}

-----------------------------------------------------------------------------
(* E2: main and executeLive of runner.ts.                                  *)

Variants == {Email, Totp, WebAuthn}

\* open with wx: the lock must not be there.
E2Start(mode) ==
  /\ Cites("E2", mode) /\ ~lock
  /\ Begins("E2", mode, "snapshot", {})
  /\ lock' = TRUE /\ round' = 1
  /\ UNCHANGED <<db, late, store, golden, active, dump, published, authenticator,
                 approved, invalid>>

\* ensureActiveSnapshot: only a preflight may copy the golden snapshot.
E2Snapshot ==
  /\ At("E2", "snapshot")
  /\ IF active # Absent THEN active' = active
     ELSE run.mode = "preflight" /\ golden # Absent /\ active' = golden
  /\ Goes("load")
  /\ UNCHANGED <<db, late, store, golden, dump, published, lock, authenticator>>
  /\ Same /\ SameExperiment

E2Load ==
  /\ At("E2", "load") /\ AccountsLoadable
  /\ authenticator' = active
  /\ Does("check", Accounts)
  /\ UNCHANGED <<db, late, files>> /\ Same /\ SameExperiment

\* A full campaign checks after its warm-up.
E2Check ==
  /\ At("E2", "check")
  /\ run.mode # "full" => CleanState
  /\ run.mode = "preflight" => \A a \in Accounts : CanAnswer(a)
  /\ Goes(IF run.mode = "preflight" THEN "limiter" ELSE "campaign")
  /\ SameData /\ Same /\ SameExperiment

\* The limiter check logs one account in, and deletes its challenge.
E2Limiter ==
  /\ At("E2", "limiter")
  /\ \E a \in Sample \cap Totp :
       /\ a \notin db.logins
       /\ Served(Req("login", a, NoKey, 0))
  /\ Goes("limited")
  /\ UNCHANGED <<files, authenticator>> /\ Same /\ SameExperiment

E2Limited ==
  /\ At("E2", "limited") /\ Sample \cap Totp \subseteq db.logins
  /\ db' = [db EXCEPT !.logins = @ \ (Sample \cap Totp)]
  /\ Goes("checked")
  /\ UNCHANGED <<late, files, authenticator>> /\ Same /\ SameExperiment

\* The bursts of a round, one per variant.
E2Burst(V) ==
  /\ At("E2", "campaign") /\ V \subseteq run.todo
  /\ V \cap db.logins = {}
  /\ V = WebAuthn => db.credential = authenticator
  /\ \A a \in V : CanAnswer(a)
  /\ run' = [run EXCEPT !.at = "logins", !.variant = V, !.batch = V, !.todo = @ \ V]
  /\ SameData /\ Same /\ SameExperiment

E2Login(a) ==
  /\ At("E2", "logins") /\ a \in run.batch
  /\ Served(Req("login", a, NoKey, 0))
  /\ run' = [run EXCEPT !.batch = @ \ {a}]
  /\ UNCHANGED <<files, authenticator>> /\ Same /\ SameExperiment

\* Every login left its challenge.
E2Prepared ==
  /\ At("E2", "logins") /\ run.batch = {} /\ run.variant \subseteq db.logins
  /\ run' = [run EXCEPT !.at = IF run.variant = WebAuthn THEN "assert" ELSE "release",
                        !.batch = run.variant]
  /\ SameData /\ Same /\ SameExperiment

\* A mutant: the assertion is made from the golden snapshot.
E2AssertGolden(a) ==
  /\ At("E2", "assert") /\ a \in run.batch /\ CanAssert(a)
  /\ a \in DOMAIN Present(golden)
  /\ authenticator' = [authenticator EXCEPT ![a].count = golden[a].count + 1]
  /\ run' = IF run.batch = {a}
            THEN [run EXCEPT !.at = "release", !.batch = WebAuthn]
            ELSE [run EXCEPT !.batch = @ \ {a}]
  /\ UNCHANGED <<db, late, files>> /\ Same /\ SameExperiment

\* generateAssertions: every assertion advances its credential in memory.
E2Assert(a) ==
  /\ At("E2", "assert") /\ a \in run.batch /\ CanAssert(a)
  /\ authenticator' = [authenticator EXCEPT ![a].count = @ + 1]
  /\ run' = IF run.batch = {a}
            THEN [run EXCEPT !.at = "release", !.batch = WebAuthn]
            ELSE [run EXCEPT !.batch = @ \ {a}]
  /\ UNCHANGED <<db, late, files>> /\ Same /\ SameExperiment

\* The answer prepared for a: its assertion is in the package already.
Prepared(a) ==
  IF a \in WebAuthn THEN Req("verify", a, authenticator[a].key, authenticator[a].count)
  ELSE Answer(a)

E2Verify(a) ==
  /\ At("E2", "release") /\ a \in run.batch
  /\ Served(Prepared(a))
  /\ run' = [run EXCEPT !.batch = @ \ {a}]
  /\ UNCHANGED <<files, authenticator>> /\ Same /\ SameExperiment

\* The postcondition of a burst, and the checkpoint of a burst of WEBAUTHN.
E2Postcondition ==
  /\ At("E2", "release") /\ run.batch = {}
  /\ run.variant \cap db.logins = {}
  /\ run.variant = WebAuthn => db.credential = authenticator
  /\ active' = IF run.variant = WebAuthn THEN authenticator ELSE active
  /\ run' = [run EXCEPT !.at = "campaign", !.variant = {}]
  /\ UNCHANGED <<db, late, store, golden, dump, published, lock, authenticator>>
  /\ Same /\ SameExperiment

\* A mutant: one round too many.
E2RoundMore ==
  /\ At("E2", "campaign") /\ run.todo = {} /\ CleanState
  /\ run.mode = "full" /\ round <= Rounds
  /\ Does("campaign", Accounts) /\ round' = round + 1
  /\ SameData /\ Same /\ UNCHANGED <<approved, invalid>>

\* A round is over; a full campaign has several.
E2Round ==
  /\ At("E2", "campaign") /\ run.todo = {} /\ CleanState
  /\ run.mode = "full" /\ round < Rounds
  /\ Does("campaign", Accounts) /\ round' = round + 1
  /\ SameData /\ Same /\ UNCHANGED <<approved, invalid>>

\* progression also asks every counter to have grown by one a round: bursts
\* that met their postconditions, and this CleanState, leave no other case.
E2Completed ==
  /\ \/ At("E2", "checked")
     \/ /\ At("E2", "campaign") /\ run.todo = {}
        /\ run.mode = "full" => round = Rounds
  /\ CleanState
  /\ Goes("close")
  /\ SameData /\ Same /\ SameExperiment

\* closeRuntime checkpoints, except after a preflight.
E2Close ==
  /\ At("E2", "close")
  /\ IF run.mode = "preflight" THEN active' = active ELSE active' = authenticator
  /\ Goes("status")
  /\ UNCHANGED <<db, late, store, golden, dump, published, lock, authenticator>>
  /\ Same /\ SameExperiment

\* status.json says VALID, and the directory is sealed.
E2Status ==
  /\ At("E2", "status")
  /\ approved' = approved \union {<<"E2", run.mode>>}
  /\ Goes("unlock")
  /\ SameData /\ Same /\ UNCHANGED <<round, invalid>>

E2Unlock ==
  /\ At("E2", "unlock")
  /\ lock' = FALSE /\ round' = 0
  /\ UNCHANGED <<db, late, store, golden, active, dump, published>>
  /\ Completes /\ UNCHANGED <<approved, invalid>>

E2 == \/ \E mode \in Modes : E2Start(mode)
      \/ E2Snapshot \/ E2Load \/ E2Check \/ E2Limiter \/ E2Limited
      \/ \E V \in Variants : E2Burst(V)
      \/ \E a \in Accounts : E2Login(a) \/ E2Assert(a) \/ E2Verify(a)
      \/ E2Prepared \/ E2Postcondition \/ E2Round \/ E2Completed
      \/ E2Close \/ E2Status \/ E2Unlock

E2Calls ==
  IF At("E2", "limiter") THEN {Req("login", a, NoKey, 0) : a \in Sample \cap Totp}
  ELSE IF At("E2", "logins") THEN {Req("login", a, NoKey, 0) : a \in run.batch}
  ELSE IF At("E2", "release") THEN {Prepared(a) : a \in run.batch}
  ELSE {}

-----------------------------------------------------------------------------
(* E3: main of preflight.ts, pilot.ts and full.ts; runJourney.             *)

E3Start(mode) ==
  /\ Cites("E3", mode) /\ active # Absent /\ Preflight(active)
  /\ Begins("E3", mode, "journeys", IF mode = "preflight" THEN Sample ELSE Accounts)
  /\ authenticator' = active /\ invalid' = {}
  /\ UNCHANGED <<db, late, files, approved, round>>

JourneyLogin(a) ==
  /\ At("E3", "journeys") /\ a \in run.todo /\ CanAssert(a)
  /\ Served(Req("login", a, NoKey, 0))
  /\ run' = [run EXCEPT !.at = "journey", !.account = a]
  /\ UNCHANGED <<files, authenticator>> /\ Same /\ SameExperiment

\* What is measured afterwards may still make the journey invalid.
Measured(a) ==
  /\ \/ UNCHANGED <<invalid, faults>>
     \/ run.mode # "preflight" /\ invalid' = invalid \union {a} /\ Faulty
  /\ Does("journeys", run.todo \ {a})
  /\ UNCHANGED <<approved, round, last, started>>

JourneyVerify ==
  LET a == run.account
  IN  /\ At("E3", "journey") /\ CanAnswer(a)
      /\ Served(Answer(a))
      /\ IF a \in WebAuthn THEN Goes("accepted") /\ SameExperiment /\ Same
         ELSE Measured(a)
      /\ UNCHANGED <<files, authenticator>>

\* The credential of the page replaces the one in memory, which is then
\* written, with all the others.
JourneyCommit ==
  /\ At("E3", "accepted")
  /\ authenticator' = [authenticator EXCEPT ![run.account].count = @ + 1]
  /\ active' = authenticator'
  /\ Measured(run.account)
  /\ UNCHANGED <<db, late, store, golden, dump, published, lock>>

E3Calls ==
  IF At("E3", "journeys") THEN {Req("login", a, NoKey, 0) : a \in run.todo}
  ELSE IF At("E3", "journey") THEN {Answer(a) : a \in {b \in {run.account} : CanAnswer(b)}}
  ELSE {}

\* A set of calls is given up; the bound on late ones.
Abandoned(calls) ==
  \E S \in SUBSET calls : late' = late \union S /\ Cardinality(late') <= MaxLate

\* A pilot or a campaign notes the failure of a journey and goes on.  The
\* memory may be ahead of the file by then.
JourneyInvalid(a) ==
  /\ run.command = "E3" /\ run.mode # "preflight" /\ a \in db.users
  /\ \/ run.at = "journeys" /\ a \in run.todo
     \/ run.at \in {"journey", "accepted"} /\ a = run.account
  /\ Abandoned({r \in E3Calls : r.account = a})
  /\ \/ UNCHANGED authenticator
     \/ /\ run.at = "accepted"
        /\ authenticator' = [authenticator EXCEPT ![a].count = @ + 1]
  /\ invalid' = invalid \union {a}
  /\ Does("journeys", run.todo \ {a})
  /\ Faulty
  /\ UNCHANGED <<db, files, approved, round, last, started>>

\* A mutant: nobody counts the invalid journeys of a pilot.
E3PassedUnchecked ==
  run.mode = "full" => \A V \in Variants : Cardinality(invalid \cap V) < InvalidLimit

\* A pilot tolerates no invalid journey, a campaign a few of each scenario.
E3Passed ==
  IF run.mode = "full"
  THEN \A V \in Variants : Cardinality(invalid \cap V) < InvalidLimit
  ELSE invalid = {}

E3End ==
  /\ At("E3", "journeys") /\ run.todo = {}
  /\ E3Passed
  /\ approved' = approved \union {<<"E3", run.mode>>}
  /\ invalid' = {}
  /\ UNCHANGED <<db, late, files>>
  /\ Completes /\ UNCHANGED <<round>>

E3 == \/ \E mode \in Modes : E3Start(mode)
      \/ \E a \in Accounts : JourneyLogin(a) \/ JourneyInvalid(a)
      \/ JourneyVerify \/ JourneyCommit \/ E3End

-----------------------------------------------------------------------------
(* What may go wrong at any step.                                          *)

Calls == ProvisionCalls \union E1Calls \union E2Calls \union E3Calls

\* A call is refused or given up, or the command meets any other error:
\* provision, E1 and E2 clean up first.
Fail ==
  /\ run.at \notin {"idle", "closing", "unlock", "restore"}
  /\ Abandoned(Calls)
  /\ IF run.command \in {"provision", "E1", "E2"}
     THEN Goes("closing") /\ UNCHANGED <<authenticator, last, started, invalid>>
     ELSE Aborts /\ invalid' = {}
  /\ Faulty
  /\ UNCHANGED <<db, files, approved, round>>

\* provision and E1 delete the challenges, E2 checkpoints: or that fails too.
Close ==
  /\ run.at = "closing"
  /\ IF run.command = "E2"
     THEN /\ active' \in {active} \union (IF authenticator = Nothing THEN {} ELSE {authenticator})
          /\ lock' = FALSE /\ UNCHANGED db
     ELSE /\ db' \in {db, WithoutChallenges(db)}
          /\ UNCHANGED <<active, lock>>
  /\ round' = 0
  /\ Aborts
  /\ UNCHANGED <<late, store, golden, dump, published, faults, approved, invalid>>

\* The process is killed: what it held in memory is lost.
Crash ==
  /\ run.at \notin {"idle", "restore"}
  /\ Abandoned(Calls)
  /\ Aborts
  /\ Faulty
  /\ round' = 0 /\ invalid' = {}
  /\ UNCHANGED <<db, files, approved>>

Backend == (LateServed \/ LateLost) /\ UNCHANGED run /\ Same /\ SameExperiment

Init ==
  /\ ProvisioningInit
  /\ approved = Earlier /\ round = 0 /\ invalid = {}

Next ==
  \/ (Provision \/ Snapshot \/ Restore \/ Reset) /\ SameExperiment
  \/ E1 \/ E2 \/ E3
  \/ Fail \/ Close \/ Crash
  \/ Backend

Spec == Init /\ [][Next]_vars

-----------------------------------------------------------------------------
Steps ==
  {"idle", "seed", "email", "totp", "offered", "written", "webauthn", "created",
   "registered", "dryrun", "pending", "verified", "clean", "publish", "validate",
   "dump", "finally", "restore", "rows", "files", "logins", "finalized",
   "snapshot", "load", "check", "limiter", "limited", "checked", "campaign",
   "assert", "release", "close", "status", "unlock", "journeys", "journey",
   "accepted", "closing"}
Commands == {"none", "provision", "snapshot", "restore", "reset", "E1", "E2", "E3"}
RunModes == Modes \union {"none"}

TypeOK ==
  /\ DatasetTypeOK
  /\ run \in [command : Commands, mode : RunModes, at : Steps,
               todo : SUBSET (Accounts \union Files),
               variant : {{}} \union Variants, batch : SUBSET Accounts,
               account : Accounts \union {NoAccount}, key : Keys \union {NoKey}]
  /\ last \in [command : Commands, mode : RunModes]
  /\ started \in 0..MaxCommands /\ faults \in 0..MaxFaults
  /\ approved \subseteq Artifacts
  /\ round \in 0..Rounds /\ invalid \subseteq Accounts

JustEnded(command, modes) ==
  run = Idle /\ last.command = command /\ last.mode \in modes

(* No check compares a TOTP secret with the one the database keeps         *)
(* encrypted.  Even so, when provision, snapshot or E1 would accept the    *)
(* dataset the two are the same, whatever crashed and however late calls   *)
(* are served: the secret is written before it is confirmed.               *)
SecretsAgree ==
  Preflight(golden) \/ ValidDataset =>
    \A a \in db.enrolled \cap Totp : a \in DOMAIN db.secret /\ store[a] = db.secret[a]

(* A run of E2 that was VALID, and a pilot of E3 that passed, leave the    *)
(* active snapshot with the counters of the database.                      *)
CountersTogether ==
  JustEnded("E2", {"pilot", "full"}) \/ JustEnded("E3", {"pilot"}) =>
    active = db.credential

(* E1 that completed gives the dataset back: the golden snapshot still     *)
(* fits the database.                                                      *)
E1GivesBack == JustEnded("E1", Modes) => golden = db.credential

(* provision that completed leaves a whole golden dataset: database, dump, *)
(* snapshot, secrets and accounts.csv of one epoch and one state.          *)
GoldenDataset ==
  JustEnded("provision", {"none"}) =>
    /\ db.users = Accounts /\ db.enrolled = Accounts
    /\ golden = db.credential /\ published = db.epoch
    /\ dump # Absent /\ dump.epoch = db.epoch
    /\ dump.credential = golden /\ dump.secret = store

(* The assertions E2 prepared are never refused for a stale counter or     *)
(* another credential: while its challenge is there, one is accepted.      *)
PreparedAccepted ==
  At("E2", "release") =>
    \A a \in run.batch \cap db.logins \cap WebAuthn : Accepts(db, Prepared(a))

\* A restore of the dump fits the golden snapshot, where both are there.
Fits == dump # Absent /\ golden # Absent => dump.credential = golden

\* Both files are there and fit, or neither is.
Paired == Fits /\ (dump = Absent <=> golden = Absent)

(* research/README.md: the dump and webauthn-authenticator.json are an     *)
(* inseparable pair.  No command but provision and reset takes them apart, *)
(* neither by completing nor by a crash, a broken restore or a call served *)
(* late; and no command but provision leaves two that do not fit.          *)
(* (provision does: its dry run saves the golden snapshot, and it makes    *)
(* the dump anew three steps later.  reset removes one after the other,    *)
(* and may die in between.)                                                *)
PairKept ==
  [][run.command # "provision" =>
       /\ Fits => Fits'
       /\ run.command # "reset" /\ Paired => Paired']_vars
=============================================================================
