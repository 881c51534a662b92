# Zielony Koszyk backend: TLA+ specifications and proofs

The repository holds a shop backend (NestJS, TypeORM, PostgreSQL: `src/src/`)
and a research harness that measures its second factors (`src/research/`).
These modules model the parts of it where several requests, transactions and
failures meet. TLC checks them on small instances; TLAPS proves the main
invariants for all values of the constants.

Source paths below are relative to `src/`.

## 1. Inventory

### Backend

| Component | State | Operations | Talks to |
|---|---|---|---|
| MFA challenges (`src/auth/mfa.service.ts`) | table `mfa_challenges`, one row per (user, purpose): id, method, `attempt_count`, `expires_at`, secret or challenge value | `createChallenge`, `createEmailOtpChallenge`, `assertChallenge`, `consumeChallenge`, the purge in `updateMethod` | PostgreSQL locks, mail |
| Accounts and their method (`mfa.service.ts`, `auth.service.ts`, controllers, `webauthn.service.ts`) | `users.mfa_method`, TOTP secret and last used step, `webauthn_credentials` | login, three verifications, two enrollments with their confirmations, `updateMethod`, deletion of a user | challenges, tokens |
| Tokens and cookies (`jwt-auth.guard.ts`, `jwt.strategy.ts`) | none on the server: what a token claims | full token with the method claim, MFA token naming a challenge, refresh cookie | accounts |
| Users and addresses (`user.service.ts`) | `users`, `addresses` with a default flag per type | register, edit, password change, add and change an address, delete | accounts, orders |
| Products (`product.service.ts`) | `products` with stock and image path, image files in the upload directory | CRUD, upload of an image, removal of the old one | orders |
| Orders (`order.service.ts`, `invoice.service.ts`, `order-item.*`, `order-item.subscriber.ts`) | `orders`, `order_items`, stock, invoice files, `total_amount` | POST (transaction, then invoice, path, mail), PUT, DELETE, item endpoints, recalculation of totals | products, mail, disk |
| Mail (`mail.service.ts`) | none | send, fail | SMTP |
| Throttling (`app.module.ts`, `@Throttle`) | hits and block per address and endpoint | refuse with 429 and Retry-After | every endpoint, the pacing of the harness |
| Configuration, DTOs, seeds | none after the start | validation | - |

### Research harness

| Component | State | Operations |
|---|---|---|
| Runtime (`research/runtime.ts`, `ThrottleScheduler` of `e3/protocol.ts`) | the places reserved in the present window | loading of accounts, preflight, removal of challenges, pacing under the rate limits, tries and timeouts |
| Dataset (`research/dataset.ts`, `research/scripts/`) | `totp-secrets.json`, `webauthn-authenticator.json` (the golden snapshot), `e2-webauthn-current.json` (the active one), `research-db.dump`, `accounts.csv`, and the accounts in the database | provision (resumable), validate, snapshot, restore, reset |
| E1 (`research/dataset/e1/`) | results of a run | preflight, pilot and full: bursts of logins per method, then the dataset as it was |
| E2 broker (`research/dataset/e2/broker.ts`) | packages, taken, ready, samples, waiters, three signals | a rendezvous of 50 JMeter threads and the runner |
| E2 monitor (`research/dataset/e2/monitor.ts`) | a process of its own: baseline, memory samples | start, sample, stop |
| E2 burst (`runBurst` of `runner.ts`, `protocol.ts`, `e2-verify.jmx`) | phase of the burst, run directory | prepare, release, judge, validate, seal, clean up |
| E2 campaigns (`executeLive`, `runPilotCampaign`, `runFullCampaign` of `runner.ts`, `preparation.ts`, `artifacts.ts`) | lock file, active snapshot, authenticators in memory, run directories | preflight, pilot, full run, each approved by the one before; no resume |
| E3 (`research/e3/`) | active snapshot, one browser per journey, artifacts | preflight, pilot, full run: a journey after the other, invalid ones noted |
| Analyses of E2 and E3 | artifacts | quantiles, confidence intervals, exclusion rules |

### What is hard, and what makes each part correct

* **Challenges.** Many requests on one row, through three kinds of locks
  (`FOR UPDATE` on a row that may not exist, an advisory lock that only email
  codes take, the implicit locks of UPSERT and DELETE), with a mail between a
  commit and its compensation. Correct means: used once, only while current,
  at most `MFA_MAX_ATTEMPTS` wrong answers in a window, a cooldown between
  mails, and no row removed by a cleanup that was meant for an older one.
* **Accounts.** A method, a secret and a credential in two tables, switched by
  endpoints that read before they lock; deletion that cascades. Correct means:
  method and keys agree, a login is accepted with the present method only, no
  TOTP step twice, a change only for a session that passed the method, nothing
  left behind by a deletion.
* **Orders.** Stock is read without a lock and written as an absolute value;
  after the commit four things may fail one by one; whole rows are saved from
  old reads. Correct means: no unit lost or sold twice, an invoice path that
  names a file, carts in opposite orders all answered.
* **Items and totals.** A subscriber recalculates the total inside the
  transaction of each item, blind to the transactions of others, and saves the
  order with all its items. Correct means: total and items agree, and a request
  writes nobody else's item.
* **Users.** Check-then-insert on the email, user and addresses in two
  transactions, one default per type kept by hand over three more. Correct
  means: one account per email, one default address of either type.
* **Products.** An upload reads the product, removes the old image in the
  background, writes the new one and saves the whole row. Correct means: the
  stock adds up, and the image a product names is there.
* **Throttling.** The harness counts places when it reserves them, the backend
  requests when they arrive; a block refuses everything for a minute. Correct
  means: a paced process is not blocked, and no call waits for ever.
* **E2 broker and runner.** Barriers with timeouts, an abort that must reach
  everyone who waits, responses released only after validation.
* **The dataset and what wears it.** Half of every second factor is in the
  database, the other half in files; every verification of a passkey advances a
  counter that is in both. Commands crash between the two writes, calls that
  were given up are served later, a dump takes one half back in time. Correct
  means: what the checks accept belongs together, a provision that completed
  leaves one whole dataset, E1 gives it back, E2 and E3 keep database and active
  snapshot in step.

Every such point is listed, at its line, under `hazards` in `PROJECT.json`.

## 2. Modules

| Module | What it is |
|---|---|
| `OneTimeChallenge` | abstract specification: what challenges promise, every operation atomic |
| `MfaChallenge` | the challenge table, its locks, the requests on it, crash and clock |
| `MfaAccount` | extends `MfaChallenge`: accounts, sessions, endpoints; every step on a challenge is a step of `MfaChallenge` |
| `Orders` | stock, orders, invoice files, the requests that write them, saves of whole orders by the items' subscriber |
| `OrderTotals` | order items, the subscriber, the total of an order |
| `Catalogue` | products, their stock and images: creation, upload, sale, edit, deletion |
| `Users` | accounts and addresses: registration, changes, default addresses, deletion |
| `Throttle` | one throttled endpoint and a process that paces itself against it |
| `Broker` | the request broker of E2: each method one step |
| `CertifiedBurst` | abstract specification: what a measured burst promises |
| `Burst` | extends `Broker`: JMeter threads, monitor process and `runBurst` around it |
| `Dataset` | the database as the harness sees it, the files, the checks of the commands, calls served late |
| `Provisioning` | extends `Dataset`: provision, snapshot, restore and reset, step by step |
| `Experiments` | extends `Provisioning`: E1, E2 and E3, failures and crashes; the properties of the dataset |
| `MC*` | the instances for TLC: carts, stock, symmetry of requests and clients |
| `OrdersProofs`, `OrderTotalsProofs`, `CatalogueProofs`, `UsersProofs`, `ThrottleProofs`, `BurstProofs`, `ExperimentsProofs` | theorems and proofs, each about the module it is named for |
| `MfaProofs` | theorems and proofs about `MfaChallenge` and `MfaAccount` |

### MfaChallenge

A step is what a request does between two points at which another can be seen
to act. A SQL statement that takes a lock is a step; once a transaction has its
locks, the rest of it up to the commit is one step, because nobody sees its
writes before. PostgreSQL runs at READ COMMITTED, so a statement that waited
evaluates its WHERE again: `DeleteById`, `Matches` look at the row as it is
when the lock is granted.

| Code | Actions |
|---|---|
| `createChallenge` 94-155 | `CreateSelect` (advisory lock for email, `FOR UPDATE` if the row exists, limits), `CreateUpsert` (`ON CONFLICT DO UPDATE` and commit) |
| `createEmailOtpChallenge` 711-735 | `MailSent`, `MailFailed`, `Unsend` |
| `assertLoginChallenge`, `assertChallenge` 578-598 | `AssertUsable`, `AssertExpired`, `ExpireDelete` |
| `consumeChallenge` 600-644 | `ConsumeLock`, `ConsumeExpired`, `ConsumeRefused`, `Accept`, `Reject` |
| `updateMethod` 202-236 | `PurgeDelete`, `PurgeCommit` |
| failures | `Throw` (rollback), `Crash` (all locks and requests gone, the table stays) |

`accepts` and `tries` are history variables: how often an id was accepted, how
many wrong answers were evaluated in the present window of a slot. A row lock is
kept only for a row that exists, which is the reason for the finding of section 5.

### OneTimeChallenge

A slot has at most one live id, ids are fresh, a wrong answer counts, a right
one spends the id; ids may be withdrawn or never issued. `MfaChallenge` maps
`live` to the ids in the table, `wrong` to the attempts, `used` to the ids
drawn except those a `createChallenge` is still about to write, `spent` to the
accepted ones.

### MfaAccount

`task[r]` is the endpoint a request serves and what it has read of the account;
`request[r]` is its place in the work on the challenge. What an endpoint does is
an action that conjoins the step of `MfaChallenge` with its effect on the
account: `LoginRead`, `LoginPlain`, `LoginCheck`, `LoginCreate` (auth/login);
`Answer`, `Consume`, `AcceptEmailOtp`, `AcceptTotp`, `AcceptWebAuthn`,
`RejectAnswer`, `Complete` (the verifications); `EnrollRead`, `EnrollCreate`,
`Confirm`, `AcceptConfirm`, `RejectConfirm` (the enrollments); `Update`,
`UpdateCommit`; `Remove`, `RemoveCascade`, `RemoveCommit`. `Forbidden`,
`Fails`, `Refused`, `Lost`, `RemoveFails` are the ways out with an error. The
foreign key of the challenges on the user is `Reference`: an insert waits for a
deletion under way and fails after it, an update of a row does not.

A key (secret or credential) goes by the id of the enrollment challenge it was
confirmed with. One tick is one TOTP period, so `CodeSteps` is the window of
`acceptedTotpStep` for `MFA_TOTP_WINDOW = 1`.

### Orders

`Create`, then for each line `ReadProduct` and `SaveProduct` or
`SaveUnchanged`, then `Commit`; `Rollback` for 409, 404 and any failure. After
the commit `WriteInvoice`, `SavePath`, `SendConfirmation`, or
`FailAfterCommit`. `EditRead`, `EditSave` are PUT, `Remove` is DELETE.
`RecalcRead`, `RecalcSave` are `recalcOrderTotal` of the subscriber, which runs
in every request that writes an order item and saves the whole order it read;
here it can change the status and the invoice path, the total is a matter of
`OrderTotals`. `CopyLost` is either one that fails before its save. `View` is what a statement of a transaction reads: its own write or the
last commit. TypeORM's `save()` reads the row again and writes only columns
that differ, hence `SaveUnchanged`, which takes no lock. An order saved after
it was deleted is inserted again (`SavePath`, `EditSave`, `RecalcSave` set
`exists`).
Quantities are natural numbers: the DTO declares `number` without a validator,
and the model is about carts that a shop can fill.

Three history variables say which requests overlapped in the way that matters:
`overwritten` (a committed order saved a product on a read that had become
old), `readEarly` (a PUT or a request for an item read the order before its
invoice path was saved) and `edited` (a PUT that had read the path has saved,
and no request for an item has since written an older copy).

### OrderTotals

An item is written and its total recalculated in one transaction, which others
do not see before its commit: `written` and `mine` are what it has written,
`View` what its statements read.

| Code | Actions |
|---|---|
| `create` of `order.service.ts`, its second save | `Create`, then `SaveReads` |
| `order-item.service.ts` | `Change` (POST and PUT), `RemoveItem`, `Commit`, `Rollback` |
| `afterInsert`, `afterUpdate`, `afterRemove`, `recalcOrderTotal` of the subscriber | `Recalculate` |
| `save()` of the order with its items | `SaveReads`, `SaveWrites`, and `Recalculate` again for the items it wrote |
| PUT `/orders/:id` | `PutReads`, `PutSaves` |

`save()` of an order compares the copy with the rows: an item that was changed
meanwhile is set back, one that was removed is inserted again, one that was
added makes it fail. `afterRemove` looks for the item by an id that TypeORM has
already cleared, so it finds some item of some order and recalculates that
order instead (`RemoveItem` picks it). Prices are one, so that a total is a
number of units; how orders are deleted is left to `Orders`. `off` (history) is
the set of orders whose requests have met or which have lost an item: there two
requests miss each other's uncommitted item, and the total of one is lost.

### Catalogue

| Code | Actions |
|---|---|
| `create` of `product.service.ts` | `Create`, with a file then `WriteFile`, `SaveReads`, `SaveWrites` |
| `uploadProductImage` | `ReadForUpload`, `WriteFile` (which begins the removal of the old image) or `WriteFileFails`, `SaveReads`, `SaveWrites` or `SaveFails` |
| the callback of `fs.rm` | `Removed` |
| a line of an order | `Sell`, then the same save |
| `update`, `remove` | `Update` (stock, image or both), `Remove` |
| the end of the process | `Crash`, and `Removed` of a file that is gone |

The old image is sought under the directory of the compiled file. In the
production image that is `/app/dist`, where no upload is ever found: nothing is
removed and old files stay for good. Run from the sources the path may lead to
the upload directory; then an upload to a product that has the default image
removes `uploads/placeholder.jpg`, which every new product names. `resolves` is
chosen in `Init`, so both are checked. The callback of a second removal of one
file throws, nobody catches it, and the process ends: `Removed` does that, too.
A sale is one line of an order and commits with its save; a cart of several
lines is `Orders`.

`update` writes whatever a `Partial<Product>` says. `BodyImages` are the images
a body may name: none, one that is not there, another product's, but not a uuid
that a request in flight has not told anybody yet. `lent` remembers the images
that bodies gave to products; about those `ImageOnDisk` says nothing, since
nothing in the code does.

### Users

| Code | Actions |
|---|---|
| `create`, `createUserFromAdmin` | `Register` (the email is free), `InsertUser` (the unique index), `InsertAddresses` |
| `update` | `UpdateDetails` |
| `addAddressToUser` | `AddAddress` |
| `updateUserDetails` | `ChangeReads`, `Search`, `Clear`, `ChangeSaves` |
| `remove` | `Remove`, with the cascade |
| the addresses of an order | `PlaceOrder` |
| an error or the end of the process between two transactions | `Breaks` |

The search for another default address (`user.service.ts:254`) is restricted to
the type, not to the account: `Found` holds the defaults of every account and of
every order, whose address columns default to TRUE. `muddled` (history) names
the accounts that lose or gain a default by it, and by overlaps. The SELECT and
the UPDATE of one `save()` are one step. The change of a password and the mail
with a generated one touch none of this state and are left out, and so are the
addresses of a guest's order. An order of an account forbids its removal; orders
are not kept, and may have been removed before.

### Throttle

One endpoint and one address: the throttler keeps every other pair apart. The
server is `Arrive` (counted, refused, or the one that turns on the block); the
process is `Start` (one mode after the other), `Call`, `Reserve`, `GiveUp` and
`Retry` (`ResearchHttp`), the same without `Retry` (a journey of E3), and
`StartBatch`, `Enroll` (the browser of `provision-dataset.ts`). A request on its
way arrives or is lost, in any order. Time is counted in ages, so runs have no
end.

What the model shows of the code: a place is reserved before the page is loaded
and the form filled in, so the lags of two requests differ, and when they differ
by more than the second between the windows of 60 s and 61 s the throttler may
block although the process has kept to its pace. A journey of E3 has no second
try then. `unpaced` (history) are the requests no window counts: second tries,
and those of a process that has ended without waiting. `full.ts:309` starts
without the `clearWindow` that `pilot.ts:264` and `preflight.ts:503` call. A
request of E3 may also wait for its place longer than its TOTP code is good for,
since `guardTotpStep` comes before the reservation; codes are not part of this
module.

### Broker and Burst

`Broker` has one action per method of `InMemoryRequestBroker`: `TakePackage`,
`MarkReady`, `Release`, `SubmitSampleEnd`, `ResolveSemantics`, `Abort`. Its three
`Deferred`s are `signals`; a promise handed to a thread is `semantic[s]`. The
broker lives in the event loop of the runner, so a method is atomic.

`Burst` composes it with the three parties of a burst.

| Code | Actions |
|---|---|
| thread of `e2-verify.jmx` | `FetchPackage`, `ReportReady`, `LearnRelease`, `Sample`, `ReportSample`, `LearnCode`; refusals and timeouts are `NoPackage`, `Stray`, `SampleFails`, the test stopped for all is `Stopped` |
| JMeter process | `JmeterExits`, `JmeterDies` |
| `CgroupMonitor` in its child process | `TakeBaseline`, `TakeFinalSample` (each may be refused), `MonitorDies` |
| `runBurst`, one action from an await to the next | `Prepare`, `StartMonitor`, `ReleaseClients`, `StopMonitor`, `JudgeResponses`, `AcceptJmeter`, `CloseBroker`, `WriteRun`, `Rescan`, `Seal` |
| its errors | `PrepareFails`, `WaitFails`, `TooLate`, `MonitorFails`, `RejectJmeter`, `ArtifactFails`, all through `Catch`, then `CleanUp` and `Record` |

Four details of the code shape the model. The runner terminates the command it
spawned, not the JVM's threads, so threads go on after `jmeter = "dead"` until
they fail. `StartMonitor` sets READY and the phase MONITORING passes inside
`ReleaseClients`, where no await separates it from RELEASED. `Release` throws
unless `Releasable`; that it never blocks the runner is part of `BurstEnds`.
JMeter logs the exception of a preprocessor or a timer and goes on, so a thread
that has its package and whose `/ready` or `/release` call fails is not stopped
by that: `Stray` makes it `loose`, from where it sends its request whether the
clients have been released or not, and `strayed` remembers it. A thread without
a package has no endpoint to send to and fails in the sampler (`NoPackage`).
The synchronising timer of JMeter gives up after 15 seconds and holds nobody
back; how close together the requests leave is a matter of time the model does
not measure.

`CertifiedBurst` has one window: it opens before the first request of a client
that has not lost the broker, closes after the last request of all, and the
burst is certified when every client has learnt that its own response was the
expected one. A `stray` may send before the window opens, and nothing in the
code tells its response from another's; it cannot send after the window. A burst in which the monitor has been
refused or has died is mapped to `rejected`: nothing can certify it any more.

### Dataset, Provisioning and Experiments

A command is a sequence of calls to the backend and writes of files, run by one
operator, one command at a time. `run` says which command runs, where it is
(`at`), which accounts or files are still to do (`todo`), and what it holds in
memory besides `authenticator`. Each action is one call served or one file
written, with the checks the code makes before it.

| Code | Actions |
|---|---|
| the backend's endpoints, as these commands use them | `Accepts`, `Serve`, with what `MfaAccount` shows in detail reduced to one step; `Served` is a call whose client gets the response |
| a client that gave up (`ResearchHttp`, JMeter, the browser) | the call is put in `late`; `LateServed`, `LateLost` |
| `main` of `provision-dataset.ts` | `ProvisionStart`, `SeedBatch`, `SwitchEmail`; `StartTotp`, `WriteSecret`, `ConfirmTotp`; `LaunchBrowser`, `CreateCredential`, `RegisterCredential`, `SaveEnrolled`; `DryLogin`, `DryVerify`, `SaveDryRun`, `CleanAfterDryRun`; `Publish`, `Validate`, `DumpProvisioned`, `ProvisionEnd` |
| `database-snapshot.ts` | `SnapshotStart`, `SnapshotEnd`; `RestoreStart`, `RestoreEnd`, `RestoreBroken` |
| `reset-dataset.ts` | `ResetStart`, `ResetRows` (one transaction), `DeleteFile`, `ResetEnd` |
| `run-e1.ts` | `E1Start` (deletes challenges, then validates), `E1Validate`, `E1Login`, `E1MailFails`, `E1Finalize`, `E1End` |
| `executeLive` of `runner.ts` | `E2Start` (the lock), `E2Snapshot`, `E2Load`, `E2Check`, `E2Limiter`, `E2Limited`; per burst `E2Burst`, `E2Login`, `E2Prepared`, `E2Assert`, `E2Verify`, `E2Postcondition`; `E2Round`, `E2Completed`, `E2Close`, `E2Status`, `E2Unlock` |
| `full.ts`, `pilot.ts`, `preflight.ts`, `runJourney` of E3 | `E3Start`, `JourneyLogin`, `JourneyVerify`, `JourneyCommit`, `JourneyInvalid`, `E3End` |
| an error or a kill at any step | `Fail` and then `Close` (what the `finally` blocks do, or fail to do), `Crash` |

A secret or a credential is a number, new ones being the smallest not in use
anywhere; an epoch names one set of user ids, since accounts seeded after a
reset have the old addresses and new ids. The dump is a copy of the database.
The order of the accounts within a phase is left open where the code runs them
concurrently or the order does not matter to anything kept.

Assumed or abstracted: one operator who never starts two commands at once (E2
alone has a lock); restore with the backend stopped, as the command demands, so
no late call survives it; a `pg_restore` that fails leaves the database empty or
without the tables restored last; accounts without a second factor hold nothing
that must agree and are left out, and so are the last steps of TOTP, which
`MfaAccount` models; containers, mails and the contents of artifacts are left
out, only "this run may be cited by the next stage" (`approved`) is kept.

## 3. Runs

Requests are interchangeable, so `SYMMETRY` is declared for them in the runs
without liveness. All numbers are in ticks.

| Run | Bounds | What it shows |
|---|---|---|
| `challenge_email` | 1 user, 2 requests, 3 ids, 5 ticks, `LoginTtl` 2, cooldown 1, 2 attempts | with email codes the attempt limit, the lockout and the cooldown hold over replacements |
| `challenge_all` | 2 methods, both purposes, 3 ids, 4 ticks | single use, acceptance only while current, removal for a reason, refinement of `OneTimeChallenge` |
| `challenge_totp_lockout` | TOTP only | **violation**: a lockout can be overwritten (section 5) |
| `account` | three methods, 1 user, 2 requests, 3 ids, 3 ticks | method and keys agree, keys come only from confirmed enrollments, current method, TOTP steps, verified changes, deletion |
| `account_live` | no second factor, email and TOTP, 2 ids, 2 ticks: logins, changes of method and deletions against each other | every endpoint ends, PostgreSQL breaking deadlocks |
| `orders` | 2 products (4 and 2 units), 2 requests, 2 orders, 2 carts in opposite orders, one of them naming a product twice | no lost unit, the stock exact unless a read was old, invoice on disk, path and status kept but for a PUT or an item request that read early; every request is answered |
| `order_totals` | 2 requests, 2 orders of 2 items and 1, up to 2 units | total and items agree, nobody else's item is written, unless requests of an order meet or an item is removed |
| `catalogue` | 2 requests, 1 seeded product with 1 unit, 1 created, 2 uploads, a shared default image, bodies that give one image (not there, another product's, the default, none) and stock 0 | the stock adds up, the image is there unless a body gave it |
| `users` | 2 requests, 2 accounts, 2 emails, 3 addresses | one account per email, one default per type |
| `throttle` | 2 requests in 3 units of time, window of 4, lags up to 4, 3 requests remembered | blocked only for a lag or an unpaced request; no call waits for ever |
| `burst` | 3 clients, anything may fail | the barrier, but for a client that lost the broker; VALID is earned, no forgotten waiter; refinement of `CertifiedBurst`; a burst ends, and its threads with it |
| `research` | accounts: 1 email, 1 TOTP, 2 WebAuthn; 4 commands, 2 things that go wrong, 1 late call at a time, 2 rounds | secrets agree when accepted, counters together, E1 gives back, golden dataset, prepared assertions accepted; only provision and reset take dump and golden snapshot apart, and only provision so that they do not fit |

The type invariants and a few others (`Consistent`, `CreationSerialised`,
`AttemptsCoverWindow`, `CopiesConsistent`, `RecordAgrees`,
`JudgedAfterTheWindow`) are proved and need no run. `TypeOK` of `Experiments` is
proved as well; the run keeps it as its type invariant.

Why the bounds are enough for what they show. All rows, locks and counters of
the challenges belong to one (user, purpose), and only `updateMethod` and the
deletion touch both purposes of a user: one user with both slots has every
interaction. Two requests are enough for every conflict of two transactions;
the third party (the request that created what they fight over) has been
answered before. Three ids give a challenge, its replacement and one more, so a
delete by an old id meets a row two generations on. The clock covers two
windows, so carried attempts meet an expired and a live row. For the properties
proved below the bounds do not matter.

In `catalogue` one seeded product and one created share the default image, two
uploads let a file be written while the other is named, and two requests are an
upload or a sale and what overlaps it. Bodies give one image, as often as they
like, before or after the other steps: it takes one to be missing, or to be
removed with the other product's. In `users` three addresses are those of a
registration and one more, an order's or another account's, which a search may
take instead. In `order_totals` two orders let `afterRemove` hit the wrong one,
two items of one order miss each other. In `throttle` a limit of two with three
requests is the least in which one request is too many, the lag may be as long
as the window, and the margin between the windows is one unit as in the code.

Slots of a burst are alike, and its conditions are about all slots or one: two
clients already have one that is ahead and one that lags, the third is one that
has failed meanwhile.

Four commands are a provision and a full E2 with the two it cites, or a provision,
the E2 preflight that makes the active snapshot and a pilot of E3 with the
preflight it cites, or a provision, a reset, another provision and a restore or
an experiment; failed commands count, too. A full E3 cites the pilot of an
earlier dataset (`Earlier`: a reset leaves results where they are, and nothing in
a result names the dataset). `MaxFaults` counts commands that fail or crash,
logins of E1 without an answer and invalid journeys: two of them are the pairs
that meet, such as a crash in provisioning and a call served late, or two
provisions cut short. Two passkeys let one be
ahead while the other is not; one account of each other method is enough, as
their state does not cross accounts. `MaxKey`, `MaxCount` and `MaxEpoch` bound
values in use and are not in the code: actions that would exceed them are cut.
`Rounds` is 2 for the warm-up and 12 measured rounds, every round being checked
like the one before; `InvalidLimit` is 2 for the 3 invalid journeys that spoil a
scenario, so that a campaign passes with one and fails with two.

`CHECK_DEADLOCK FALSE` is said for `MfaAccount`, `Orders`, `Catalogue`, `Burst`
and `Experiments` only: the commands within the bound may have been used up, the
only account, or the last order or product within the bound, may have been
deleted, and a burst comes to its end.

### Fairness

`AccountFairSpec` and Orders' `FairSpec` ask strong fairness for
the next step of every request under way, and nothing of new requests, failures
or crashes. Strong, not weak, because a step that waits for a lock is enabled
and disabled as others take it; PostgreSQL's lock queues serve waiters in turn,
and Node.js resumes every request whose statement has returned.
`DeadlockVictim` is fair because PostgreSQL looks for circles after
`deadlock_timeout` and fails a transaction in each. In `Orders` the 409 of
`createOrderItems` is `Refuse`, the part of `Rollback` that the code is bound to
take.

`FairSpec` of `Throttle` asks weak fairness of the clock, of the two timers of
the process (`Reserve`, `Retry`: both are sleeps that end) and of every request
on its way, which arrives or is lost: `ResearchHttp` has a timeout for each.
That a refused call is answered in the end is no matter of fairness alone; its
second try must come after the block.

`LiveSpec` of `Burst` asks weak fairness of each thread (every call of the test
plan has a timeout), of JMeter's exit once its threads have ended, of the
monitor's answer (one synchronous handler per message) and of the runner, whose
awaits are on these, on timers, or on the disk. No party is asked to succeed:
`Stray`, `SampleFails`, `WaitFails` and the other errors are among the steps of the fair
actions, and a monitor that dies need not be noticed by anybody but the runner.

## 4. Proofs

The theorems hold for all sets of users, requests, products and carts, all
times, limits and bounds that satisfy the named assumptions (`Nobody` is not a
request, the cooldown is not longer than the window, `MaxAttempts` is positive,
carts are sequences of lines, the accounts of the dataset are finitely many,
`Absent` is neither a database nor a snapshot, ...).

**MfaProofs, challenges.** `Consistent` is inductive (`AlwaysConsistent`):
* `TypeOK` and `RequestsFormed`, the shape of rows and requests;
* `LockDiscipline`: a locked row exists and its holder is in a transaction on
  that slot, and a verifier sees the row as it was read. Without it `Reject`
  could count past `MaxAttempts` and `Accept` could delete another challenge;
* `IdsUnique`: an id is in one place, and not accepted while it is in a row.
  Without it `SingleUse` is not inductive.

From it follow `TypeCorrect`, `ChallengeUsedOnce`, `AcceptedOnlyWhileCurrent`,
and `ChallengeRefinement`: `Spec => Promise!Spec`, each action being a step of
`OneTimeChallenge` or a stutter.

`ExpiryKnown` is what a cleanup relies on when it deletes by id long after it has
read: a row that still has the id it read is that row, and expired. It is
inductive with `Consistent` and gives `ChallengesRemovedForAReason`.

With `LoginMethods \subseteq {EMAIL_OTP}` and `EnrollMethods = {}` the slots are
those of email codes, and `CreationSerialised` is inductive as well: whoever is
about to write holds the advisory lock, so an empty slot stays empty and a row
stays locked until the upsert. It gives `EmailAttemptsCoverWindow`,
`EmailTriesBounded`, `EmailLockoutHolds`, `EmailCooldownKept`. The assumption
cannot be dropped: `challenge_totp_lockout` is the counterexample.

**OrdersProofs.** `CopiesConsistent` is inductive (`AlwaysCopiesConsistent`).
Its heart is `UnitsAccounted`: a value computed from an old read, plus the units
of the order so far, plus what has been sold since, covers the initial stock.
Sold units only grow, so the inequality survives however old the read becomes,
and no lock is needed for it; it is the converse inequality that fails
in general. `InvoicesFollowed` says the same of the copies of an
order: each one that names an invoice is of an order whose file exists. From it
follow `StockTyped`, `NoUnitEverLost`, `InvoiceAlwaysOnDisk`. `WritesAccounted`
adds the lock: what a transaction has written it holds, so the committed value
cannot move under it, and unless its read was old the value it writes is exact
(`StockExactUnlessOverwritten`). `PathSavedOnce` and `PathsFollowed` say who may
still hold a copy without the path (`InvoicePathStays`, `StatusStays`).

**MfaProofs, accounts.** For any users, methods and requests. `AccountsImplementChallenges`
shows that every step of an endpoint is a step of `MfaChallenge` or leaves its
variables alone, so that what is proved of challenges holds of the accounts.
The invariant `IInv` (`AccountsAlwaysSound`) adds what two statements of one
endpoint may rely on: which request holds the lock of an account that is being
deleted, that the method of an account and its keys are written together, that
the challenge a task works on was made for the method the task has read, and
that steps and ids in use are none of the future. From it follow
`AccountTypeCorrect`, `AccountsStayEquipped`, `RemovalIsComplete`, and the action
properties `LoginsNeedCurrentMethod`, `TotpCodesUsedOnce`,
`KeysComeFromEnrollment`, `MethodChangesVerified`, each by the few actions that
can change an account or accept a challenge.

**OrderTotalsProofs.** For any requests, orders and items. The sum of the items
is taken as a function of the items alone (two copies that agree on the items of
an order have one sum), for what the library's fold computes is out of reach.
`Met` says that two requests of an order know of each other; `Exact` that one
which nobody has met, on an order whose total is right, has read the items as
they will be committed and has nothing to set back. From it `TypeCorrect`,
`TotalsAgree` and `OthersItemsStay`.

**CatalogueProofs.** For any requests, files and products. `Priced` says what
save() finds to differ, `StockKept` is inductive with it. The images rest on three
facts: `Owned`, no two products have an uploaded file in common, not even in a
copy that is still to be saved, unless a body has given it to one of them; `AllPrivate`, a file whose name is about to be
saved is its own and nobody removes it; `Guarded`, a file that a product names
goes only when the product's upload is under way or stopped half way. Without
`Owned` the removal of one product's old image could be another's. From them
`TypeCorrect`, `StockAlwaysKept`, `ImagesStayOnDisk`.

**UsersProofs.** For any requests, accounts and addresses. The invariant follows
a change through its three transactions and says how far it has brought the
defaults of an account that nobody has muddled: `EmailsStayUnique`,
`DefaultsStaySingle`, `TypeCorrect`.

**ThrottleProofs.** For every limit and every length of the two windows. `Spread`
says that of more paced requests than the limit, on their way or counted, two
were reserved a `Window` apart: a place is given only while the window has room,
and one leaves the window only at that age. When the throttler counts one too
many, the two both arrived within `Ttl`, so their lags differ by more than the
margin (`BlockedOnlyForALag`).

**BurstProofs.** For any set of slots. The invariant `IInv` ties the four places
that know how far a burst is: `PhaseAgrees` (phase, await of the runner and
monitor), `ReleaseAgrees` (the release signal, the flag, the barrier behind it;
who has not strayed is past it only when it is open), `ResponsesAgree` (a client
that is past the request has a response, one that got it before the release has
strayed, and all have one once the runner is past `awaitSamples`), `CodesAgree` (codes are handed out
by `JudgeResponses` only, and each is the client's own), `AcceptedEarned` (past
`AcceptJmeter` every client has passed) and `FileAgrees` (run.json against the
await). None of them is inductive alone: `AcceptedEarned` needs `CodesAgree` to
know that a passed thread has the right response, `FileAgrees` needs the await.
From it follow `AlwaysNobodyEarly`, `AlwaysJudgedAfterTheWindow`,
`AlwaysValidRunEarned`, `AlwaysRecordAgrees` and `Refinement`. `WaitersKnown`,
inductive with `IInv`, says that a response on its way to be judged is among
those an abort rejects, and that an aborted broker has none left and has settled
every signal (`AlwaysNobodyLeftWaiting`).

**ExperimentsProofs.** For any finite sets of accounts of the three methods, any
rounds and any bounds on commands, faults, late calls, keys, counters and epochs.
`IInv` (`AlwaysSound`) has three layers.

* The data. `KeptSound`: the tables of the database and of the dump belong
  together, and no account with a passkey is enrolled before all those with TOTP.
  `LateSound`: what a call that was given up can still do, whenever it is served;
  a confirmation of TOTP that would still be accepted carries the secret that is
  on disk, and no enrolment still to be started has the key of one that is to be
  confirmed. `SecretsFollow`: as soon as a check could accept the database or the
  dump, that is when all passkeys are enrolled or one is that of the golden
  snapshot, the TOTP secrets on disk are those of the tables. The checks look at
  passkeys only, so this is what makes `SecretsAgree` true.
* The commands. `ProvisionSound` and `EnrollmentSound` say what each step of
  provision has reached and that the key it enrols is nobody else's; `E1Sound`,
  `E2Sound` and `E3Sound` what an experiment holds in memory against the
  database; `BurstSound` by how much the counter of each authenticator is ahead:
  by one between an assertion and its verification, and by nothing otherwise.
  A call given up would break that, so `BurstSound` also says that none can
  still be accepted for an account of the burst.
* The end. `EndSound` is what a command has established when it completes. It
  lasts until the next command only because of `Quiet`: no call under way can
  change a passkey, its challenge having been used or deleted. Without `Quiet`
  the claims about an ended command are not inductive: a late verification would
  move the counters apart.

TLC checked `IInv` on the bounds of `research` (688,799 states) and on larger ones
(7 keys, 3 faults, 2 late calls; 5,101,377 states of an earlier form, without
`ModeSound`) before the proof. The proof has one lemma for each step of a command,
one for what a served call does to each part of the data, and one each for
`Fail`, `Close`, `Crash` and the backend. From `IInv` follow `TypeCorrect`,
`SecretsAlwaysAgree`, `CountersAlwaysTogether`, `E1AlwaysGivesBack`,
`DatasetAlwaysGolden`, `PreparedAlwaysAccepted` and the action property
`PairAlwaysKept`, whose two parts rest on what `EndSound` says of the dump a
snapshot is about to write, and on `PairUntouched`: nothing else but provision
and reset writes either file.

**Model-checked only.** Liveness under fairness and `ENABLED` are outside the
prover's reach (`EveryRequestAnswered`, `EveryTaskEnds`, `BurstEnds`,
`CallsAnswered`); every other property that a passing run checks is proved, about
the same definitions that the runs check.

## 5. Findings

`mfa.service.ts:152`: two logins of a TOTP or WebAuthn account started at the
same time both find no challenge; no lock covers an empty slot, and the second
upsert overwrites a challenge whose attempts have been used up meanwhile, with
`attempt_count` 0. The test `mfa-foundation.spec.ts:252` expects 429.

The following contradict no doc, comment or test, and the properties state the
condition instead:

* `order.service.ts:144`: two orders that overlap on a product read the same
  stock and each saves what it computed; together they sell more than there was.
  `SoldFromStock` shows that nothing else does.
* `order.service.ts:128` and `order-item.subscriber.ts:108`: a PUT of the order,
  or a request for one of its items, that read the order before its invoice path
  was saved writes the missing path back (`InvoicePathKept` shows that nothing
  else loses a path).
* `order.service.ts:106`: the POST saves the order as it left it, so a status
  that a PUT set before is set back, and a request for an item that read the
  order before the PUT does the same (`StatusKept` is about PUTs that had read
  the path, until such a request).
* `product.service.ts:135`: an upload saves the whole product it read, and units
  sold in between come back (`StockKept`).
* `product.service.ts:168`: a PUT writes whatever image its body names, so a
  product can name a file that is not there, or share one with another product,
  whose next upload removes it (`ImageOnDisk` is about the images that no body
  gave).
* `order-item.subscriber.ts:94`: two requests of one order miss each other's
  item; `order-item.subscriber.ts:70`: the removal of an item recalculates some
  other order, if any (`TotalOfItems`).
* `user.service.ts:254`: the search for another default takes the address of
  another account or of an order (`OneDefaultPerType`).
* `research/dataset/e2/jmeter/e2-verify.jmx:61`: the preprocessor throws when a
  call to the broker fails, which JMeter logs and survives. A thread that was
  ready and missed the release sends its request up to 15 s later, possibly
  before the monitor has its baseline; when the release comes before its report,
  the burst can still be certified, since the validation of the JTL
  (`protocol.ts:239`) does not compare times with the monitor's. `NobodyEarly`
  and `CertifiedBurst` state what is left: whoever still has the broker waits,
  and nobody sends after the window.
* `research/dataset/e2/monitor.ts:282`: when the monitor process has exited
  between START and STOP, sending STOP to it raises an `error` event that nobody
  listens to, and the runner dies without its catch block: no run.json, no abort
  of the broker. `BurstEnds` and the refinement hold all the same: such a burst
  is not certified.
* `research/scripts/provision-dataset.ts:323`: provisioning a complete dataset
  again saves the golden snapshot with an advanced counter, and the dump is made
  anew only at line 398. After a crash in between, restoring the dump gives
  counters behind the snapshot, which neither provision nor the validation
  accepts. `PairKept` shows that no other command leaves two that do not fit.
* `research/scripts/reset-dataset.ts:37`: a reset deletes the snapshots one by
  one, and one that dies in between leaves the dump without the golden snapshot,
  or the snapshot without the dump. `PairKept` shows that no command but reset
  and provision does.
* `research/dataset/e2/runner.ts:2503`: a runner that is killed leaves its lock
  file, and every later E2 is refused until somebody removes it.

One thing to know about TOTP secrets: no check can compare them with the
encrypted ones of the database. `SecretsAgree` holds for whatever provision,
snapshot or E1 accepts, since their checks also compare the golden snapshot. E3
compares the active one: after a reset that was interrupted before it deleted
dump and active snapshot, a new provision and a restore of the old dump, it
starts with secrets that do not match, and its journeys with TOTP fail. The code
promises nothing else, so this is a hazard and no finding.

One thing to know when reading artifacts, no disagreement with any doc: a burst
invalidated while its directory is scanned again or sealed keeps its run.json
with VALID, because `atomicWrite` never overwrites. `RecordAgrees` (proved) says
no more than the code gives; `ValidRunEarned` shows that such a run.json is
still true of the responses.

## 6. Not modelled

* Secret encryption (AES-GCM), a pure conversion whose promise is external.
* Tokens and cookies beyond what a token claims: the end of their lifetime only
  ever refuses a request, which every endpoint may meet anyway (`Fails`).
* The sign counter of WebAuthn in the backend's own verification is modelled
  with the dataset (`Dataset`), not with the accounts; the change of a password
  touches a column nothing else here depends on.
* The layout of mails and invoices, the validation of DTOs, Swagger metadata,
  configuration at start, templates: data, and no state afterwards.
* E1's bursts, its SMTP diagnostics and its artifacts; the browser of E3, the
  order of its trials and its measurements; the metrics of the E2 monitor: they
  measure times, which a model of interleavings says nothing about.
* The analyses of E2 and E3, the schedules of `protocol.ts` and the validation
  of a JTL: pure computations, over floating-point samples for the most part,
  that share no state with anything.
* A PUT of a product that gives it another `product_id`, and a POST with columns
  that `CreateProductDto` does not have; columns of a product other than its
  stock and its image.
* One database, one backend process: the modules about requests let them
  interleave and let the process die, but do not run two processes.
