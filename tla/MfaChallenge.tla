---------------------------- MODULE MfaChallenge ----------------------------
(***************************************************************************)
(* The one-time MFA challenges of src/src/auth/mfa.service.ts: the table   *)
(* mfa_challenges, which holds at most one row for a (user, purpose), and  *)
(* the requests of the backend that create, guard, consume and delete its  *)
(* rows.  A step of a request is what it does between two points at which  *)
(* another request can be seen to act: a SQL statement that takes a lock   *)
(* is a step, and so is the rest of a transaction once it holds its locks  *)
(* (nobody sees its writes before the commit, which releases the locks).   *)
(* PostgreSQL runs at READ COMMITTED: a statement that waited for a row    *)
(* evaluates its WHERE again on what the row has become.                   *)
(*                                                                         *)
(* A request that answers an error and has changed nothing takes no step   *)
(* here: 429 of createChallenge, 401 for an identity that no row has.      *)
(***************************************************************************)
EXTENDS Naturals, FiniteSets

CONSTANTS
  Users,          \* accounts (user_id)
  Requests,       \* HTTP requests in flight at once
  Nobody,         \* the holder of a lock that is free
  LoginMethods,   \* methods of the LOGIN challenges that are created
  EnrollMethods,  \* methods of the ENROLLMENT challenges that are created
  LoginTtl,       \* MFA_LOGIN_CHALLENGE_TTL_MS, in ticks
  EnrollmentTtl,  \* MFA_ENROLLMENT_CHALLENGE_TTL_MS, in ticks
  Cooldown,       \* MFA_EMAIL_OTP_RESEND_COOLDOWN_MS, in ticks
  MaxAttempts,    \* MFA_MAX_ATTEMPTS
  MaxIds,         \* bound: challenge ids that are ever drawn
  MaxTime         \* bound: the last tick of the clock

EMAIL_OTP == "EMAIL_OTP"
TOTP == "TOTP"
WEBAUTHN == "WEBAUTHN"
ActiveMethods == {EMAIL_OTP, TOTP, WEBAUTHN}

Purposes == {"LOGIN", "ENROLLMENT"}

\* The pairs the unique constraint of the table ranges over.
Slots == Users \X Purposes
User(s) == s[1]
Purpose(s) == s[2]
SlotsOf(u) == {u} \X Purposes

ASSUME NobodyAssumption == Nobody \notin Requests
ASSUME MethodsAssumption ==
  /\ LoginMethods \subseteq ActiveMethods
  /\ EnrollMethods \subseteq {TOTP, WEBAUTHN}
ASSUME NumbersAssumption ==
  /\ LoginTtl \in Nat /\ EnrollmentTtl \in Nat /\ Cooldown \in Nat
  /\ Cooldown <= LoginTtl
  /\ MaxAttempts \in Nat \ {0}
  /\ MaxIds \in Nat /\ MaxTime \in Nat

VARIABLES
  row,       \* row[s]: the committed row of slot s, or Absent
  rowLock,   \* rowLock[s]: the request whose transaction locks the row of s
  advLock,   \* advLock[s]: the holder of pg_advisory_xact_lock(user:purpose)
  request,   \* request[r]: where request r is and what it remembers
  issued,    \* how many challenge ids have been drawn by randomUUID()
  now,       \* the clock, Date.now()
  accepts,   \* history: accepts[i], how often challenge i was accepted
  tries      \* history: tries[s], wrong answers given in the current window

vars == <<row, rowLock, advLock, request, issued, now, accepts, tries>>

-----------------------------------------------------------------------------
(* Rows.  Challenge ids are drawn in order, 1, 2, ...; 0 is no id.         *)

Ids == 1 .. MaxIds

Row == [id: 0 .. MaxIds, method: ActiveMethods \cup {"NONE"},
        attempts: 0 .. MaxAttempts, expires: Nat]

Absent == [id |-> 0, method |-> "NONE", attempts |-> 0, expires |-> 0]

Present(s) == row[s].id # 0
Expired(s) == row[s].expires <= now

\* Mutant: one attempt too many.
ExhaustedLate(s) == row[s].attempts > MaxAttempts
Exhausted(s) == row[s].attempts >= MaxAttempts

\* A row that counts for the attempt limit of the next challenge.
InWindow(s) == Present(s) /\ row[s].expires > now

\* Mutant: a new challenge is made however many attempts were used up.
NeverLockedOut(s) == FALSE
LockedOut(s) == InWindow(s) /\ Exhausted(s)

\* Mutant: a replacement starts counting from zero.
ForgetAttempts(s) == 0
CarriedAttempts(s) == IF InWindow(s) THEN row[s].attempts ELSE 0

Ttl(s) == IF Purpose(s) = "LOGIN" THEN LoginTtl ELSE EnrollmentTtl
MethodsFor(s) == IF Purpose(s) = "LOGIN" THEN LoginMethods ELSE EnrollMethods

\* Mutant: the cooldown is measured from the end of the window.
CoolingDownLate(s) ==
  /\ row[s].method = EMAIL_OTP
  /\ row[s].expires > now + Ttl(s)

\* An email sent less than Cooldown ago, which refuses a new challenge of
\* any method in the slot.
CoolingDown(s) ==
  /\ row[s].method = EMAIL_OTP
  /\ row[s].expires + Cooldown > now + Ttl(s)

-----------------------------------------------------------------------------
(* Requests.  pc says which statement comes next:                          *)
(*   idle     no request, or one that has been answered                    *)
(*   upsert   createChallenge has read the slot and decided to write       *)
(*   mail     the challenge is committed, sendMfaOtp has not answered      *)
(*   unsend   sendMfaOtp failed, the challenge is to be deleted            *)
(*   expire   the guard read an expired row and is to delete it            *)
(*   consume  the identity is known and consumeChallenge is to lock it     *)
(*   verify   consumeChallenge holds the row and runs its verifier         *)
(*   purge    updateMethod has deleted the user's rows, uncommitted        *)

Steps == {"idle", "upsert", "mail", "unsend", "expire", "consume", "verify",
          "purge"}

NoSlot == <<>>

Request == [pc: Steps, slot: Slots \cup {NoSlot}, id: 0 .. MaxIds,
            method: ActiveMethods \cup {"NONE"},
            attempts: 0 .. MaxAttempts, expires: Nat]

Idle == [pc |-> "idle", slot |-> NoSlot, id |-> 0, method |-> "NONE",
         attempts |-> 0, expires |-> 0]

At(r, step) == request[r].pc = step
Become(r, state) == request' = [request EXCEPT ![r] = state]
Finish(r) == Become(r, Idle)

\* Mutant: no pessimistic_write, nobody waits for the lock of a row.
CanLockAlways(r, s) == TRUE

\* The lock of a row can be had by r; a row that is not there has no lock.
CanLock(r, s) == rowLock[s] \in {Nobody, r}

\* Mutant: the challenge is looked up by user and purpose only.
MatchesSlot(r) == Present(request[r].slot)

\* The row has the identity (challenge_id, user_id, method, purpose) that r
\* looks for.
Matches(r) ==
  LET s == request[r].slot
  IN  Present(s) /\ row[s].id = request[r].id /\ row[s].method = request[r].method

\* Mutant: the transaction is never ended.
ReleaseNothing(lock, r) == lock
Release(lock, r) == [s \in Slots |-> IF lock[s] = r THEN Nobody ELSE lock[s]]

Init ==
  /\ row = [s \in Slots |-> Absent]
  /\ rowLock = [s \in Slots |-> Nobody]
  /\ advLock = [s \in Slots |-> Nobody]
  /\ request = [r \in Requests |-> Idle]
  /\ issued = 0
  /\ now = 0
  /\ accepts = [i \in Ids |-> 0]
  /\ tries = [s \in Slots |-> 0]

-----------------------------------------------------------------------------
(* createChallenge                                                         *)

(* The transaction up to its decision: an EMAIL_OTP challenge takes the    *)
(* advisory lock of the slot, the row of the slot is read FOR UPDATE (with *)
(* no row there is nothing to lock), and neither the attempt limit nor the *)
(* cooldown refuses.  What is to be written is computed from this read.    *)
CreateSelect(r, s, m) ==
  /\ At(r, "idle")
  /\ m \in MethodsFor(s)
  /\ issued < MaxIds
  /\ m = EMAIL_OTP => advLock[s] = Nobody
  /\ CanLock(r, s)
  /\ ~LockedOut(s)
  /\ ~CoolingDown(s)
  /\ issued' = issued + 1
  /\ rowLock' = IF Present(s) THEN [rowLock EXCEPT ![s] = r] ELSE rowLock
  /\ advLock' = IF m = EMAIL_OTP THEN [advLock EXCEPT ![s] = r] ELSE advLock
  /\ Become(r, [pc |-> "upsert", slot |-> s, id |-> issued + 1, method |-> m,
                attempts |-> CarriedAttempts(s),
                expires |-> now + Ttl(s)])
  /\ UNCHANGED <<row, now, accepts, tries>>

(* INSERT ... ON CONFLICT (user_id, purpose) DO UPDATE, then the commit.   *)
(* It waits for whoever locks the row of the slot, and replaces whatever   *)
(* row is there by then.  The wrong answers given in the slot count on     *)
(* while the row it replaces is in its window.                             *)
CreateUpsert(r) ==
  LET s == request[r].slot
  IN  /\ At(r, "upsert")
      /\ CanLock(r, s)
      /\ row' = [row EXCEPT ![s] =
                   [id |-> request[r].id, method |-> request[r].method,
                    attempts |-> request[r].attempts,
                    expires |-> request[r].expires]]
      /\ tries' = IF InWindow(s) THEN tries ELSE [tries EXCEPT ![s] = 0]
      /\ rowLock' = Release(rowLock, r)
      /\ advLock' = Release(advLock, r)
      /\ IF request[r].method = EMAIL_OTP
         THEN Become(r, [request[r] EXCEPT !.pc = "mail"])
         ELSE Finish(r)
      /\ UNCHANGED <<issued, now, accepts>>

\* createEmailOtpChallenge: sendMfaOtp succeeded.
MailSent(r) ==
  /\ At(r, "mail")
  /\ Finish(r)
  /\ UNCHANGED <<row, rowLock, advLock, issued, now, accepts, tries>>

\* createEmailOtpChallenge: sendMfaOtp threw.
MailFailed(r) ==
  /\ At(r, "mail")
  /\ Become(r, [request[r] EXCEPT !.pc = "unsend"])
  /\ UNCHANGED <<row, rowLock, advLock, issued, now, accepts, tries>>

\* Mutant: whatever challenge is in the slot by now is deleted.
DeleteBySlot(r) ==
  LET s == request[r].slot
  IN  /\ CanLock(r, s)
      /\ row' = [row EXCEPT ![s] = Absent]
      /\ tries' = [tries EXCEPT ![s] = 0]

(* DELETE by challenge_id, on its own: no row has the id any more if the   *)
(* challenge has been replaced or consumed.  Shared by the compensation of *)
(* createEmailOtpChallenge and the cleanup of assertChallenge.             *)
DeleteById(r) ==
  LET s == request[r].slot
  IN  IF Present(s) /\ row[s].id = request[r].id
      THEN /\ CanLock(r, s)
           /\ row' = [row EXCEPT ![s] = Absent]
           /\ tries' = [tries EXCEPT ![s] = 0]
      ELSE UNCHANGED <<row, tries>>

\* createEmailOtpChallenge, catch: the challenge is deleted, 503 answered.
Unsend(r) ==
  /\ At(r, "unsend")
  /\ DeleteById(r)
  /\ Finish(r)
  /\ UNCHANGED <<rowLock, advLock, issued, now, accepts>>

-----------------------------------------------------------------------------
(* assertChallenge, consumeChallenge                                       *)

(* The guard of the MFA endpoints (JwtMfaGuard) reads the challenge of a   *)
(* token without a lock; usable, the request goes on to consume it.        *)
AssertUsable(r, s) ==
  /\ At(r, "idle")
  /\ Purpose(s) = "LOGIN"
  /\ Present(s) /\ ~Expired(s) /\ ~Exhausted(s)
  /\ Become(r, [Idle EXCEPT !.pc = "consume", !.slot = s, !.id = row[s].id,
                            !.method = row[s].method])
  /\ UNCHANGED <<row, rowLock, advLock, issued, now, accepts, tries>>

\* The guard reads an expired row: it deletes the row in another statement.
AssertExpired(r, s) ==
  /\ At(r, "idle")
  /\ Purpose(s) = "LOGIN"
  /\ Present(s) /\ Expired(s)
  /\ Become(r, [Idle EXCEPT !.pc = "expire", !.slot = s, !.id = row[s].id])
  /\ UNCHANGED <<row, rowLock, advLock, issued, now, accepts, tries>>

ExpireDelete(r) ==
  /\ At(r, "expire")
  /\ DeleteById(r)
  /\ Finish(r)
  /\ UNCHANGED <<rowLock, advLock, issued, now, accepts>>

(* The enrollment endpoints have no challenge guard: the session names the *)
(* user and the body the challenge, which the client got from the start of *)
(* the enrollment.                                                         *)
PresentEnrollment(r, s) ==
  /\ At(r, "idle")
  /\ Purpose(s) = "ENROLLMENT"
  /\ Present(s)
  /\ Become(r, [Idle EXCEPT !.pc = "consume", !.slot = s, !.id = row[s].id,
                            !.method = row[s].method])
  /\ UNCHANGED <<row, rowLock, advLock, issued, now, accepts, tries>>

(* SELECT ... FOR UPDATE by the identity: the row is usable, and its lock  *)
(* is held while the verifier runs.                                        *)
ConsumeLock(r) ==
  LET s == request[r].slot
  IN  /\ At(r, "consume")
      /\ Matches(r)
      /\ CanLock(r, s)
      /\ ~Expired(s) /\ ~Exhausted(s)
      /\ rowLock' = [rowLock EXCEPT ![s] = r]
      /\ Become(r, [request[r] EXCEPT !.pc = "verify",
                                      !.attempts = row[s].attempts])
      /\ UNCHANGED <<row, advLock, issued, now, accepts, tries>>

\* The row is locked and has expired: it is deleted and 401 answered.
ConsumeExpired(r) ==
  LET s == request[r].slot
  IN  /\ At(r, "consume")
      /\ Matches(r)
      /\ CanLock(r, s)
      /\ Expired(s)
      /\ row' = [row EXCEPT ![s] = Absent]
      /\ tries' = [tries EXCEPT ![s] = 0]
      /\ Finish(r)
      /\ UNCHANGED <<rowLock, advLock, issued, now, accepts>>

\* 401: no row has the identity, or the row has no attempts left.
ConsumeRefused(r) ==
  LET s == request[r].slot
  IN  /\ At(r, "consume")
      /\ Matches(r) => CanLock(r, s) /\ ~Expired(s) /\ Exhausted(s)
      /\ Finish(r)
      /\ UNCHANGED <<row, rowLock, advLock, issued, now, accepts, tries>>

\* The verifier returned true: the row is deleted with its commit.
Accept(r) ==
  LET s == request[r].slot
  IN  /\ At(r, "verify")
      /\ row' = [row EXCEPT ![s] = Absent]
      /\ tries' = [tries EXCEPT ![s] = 0]
      /\ accepts' = [accepts EXCEPT ![request[r].id] = @ + 1]
      /\ rowLock' = Release(rowLock, r)
      /\ Finish(r)
      /\ UNCHANGED <<advLock, issued, now>>

(* The verifier returned false: the entity read under the lock is saved    *)
(* with one attempt more.                                                  *)
Reject(r) ==
  LET s == request[r].slot
  IN  /\ At(r, "verify")
      /\ row' = [row EXCEPT ![s].attempts = request[r].attempts + 1]
      /\ tries' = [tries EXCEPT ![s] = @ + 1]
      /\ rowLock' = Release(rowLock, r)
      /\ Finish(r)
      /\ UNCHANGED <<advLock, issued, now, accepts>>

-----------------------------------------------------------------------------
(* updateMethod, failures and time                                         *)

(* The first statement of updateMethod: DELETE of every row of the user.   *)
(* The rows it finds are locked until the commit; a row that another       *)
(* transaction inserts afterwards is not among them.                       *)
PurgeDelete(r, u) ==
  /\ At(r, "idle")
  /\ \A s \in SlotsOf(u) : Present(s) => CanLock(r, s)
  /\ rowLock' = [s \in Slots |-> IF s \in SlotsOf(u) /\ Present(s)
                                 THEN r ELSE rowLock[s]]
  /\ Become(r, [Idle EXCEPT !.pc = "purge", !.slot = <<u, "LOGIN">>])
  /\ UNCHANGED <<row, advLock, issued, now, accepts, tries>>

\* The password and the verified method were right: the rows are gone.
PurgeCommit(r) ==
  /\ At(r, "purge")
  /\ row' = [s \in Slots |-> IF rowLock[s] = r THEN Absent ELSE row[s]]
  /\ tries' = [s \in Slots |-> IF rowLock[s] = r THEN 0 ELSE tries[s]]
  /\ rowLock' = Release(rowLock, r)
  /\ Finish(r)
  /\ UNCHANGED <<advLock, issued, now, accepts>>

(* A request that throws before its commit leaves no trace, and counts no  *)
(* attempt: 403 of updateMethod and of a verifier                          *)
(* (assertCurrentMfaVerified), a secret that does not decrypt, a body that *)
(* validation refuses after the guard, a connection that is lost.          *)
Throw(r) ==
  /\ request[r].pc \in {"upsert", "consume", "verify", "purge"}
  /\ rowLock' = Release(rowLock, r)
  /\ advLock' = Release(advLock, r)
  /\ Finish(r)
  /\ UNCHANGED <<row, issued, now, accepts, tries>>

\* The backend process dies and is started again: only the table survives.
Crash ==
  /\ \E r \in Requests : ~At(r, "idle")
  /\ request' = [r \in Requests |-> Idle]
  /\ rowLock' = [s \in Slots |-> Nobody]
  /\ advLock' = [s \in Slots |-> Nobody]
  /\ UNCHANGED <<row, issued, now, accepts, tries>>

Tick ==
  /\ now < MaxTime
  /\ now' = now + 1
  /\ UNCHANGED <<row, rowLock, advLock, request, issued, accepts, tries>>

-----------------------------------------------------------------------------

\* A new HTTP request begins.
Begin(r) ==
  \/ \E s \in Slots, m \in ActiveMethods : CreateSelect(r, s, m)
  \/ \E s \in Slots : \/ AssertUsable(r, s)
                      \/ AssertExpired(r, s)
                      \/ PresentEnrollment(r, s)
  \/ \E u \in Users : PurgeDelete(r, u)

\* A request under way takes its next step.
Continue(r) ==
  \/ CreateUpsert(r) \/ MailSent(r) \/ MailFailed(r) \/ Unsend(r)
  \/ ExpireDelete(r)
  \/ ConsumeLock(r) \/ ConsumeExpired(r) \/ ConsumeRefused(r)
  \/ Accept(r) \/ Reject(r)
  \/ PurgeCommit(r)

Next ==
  \/ \E r \in Requests : Begin(r) \/ Continue(r) \/ Throw(r)
  \/ Crash
  \/ Tick

Spec == Init /\ [][Next]_vars

-----------------------------------------------------------------------------
(* Properties                                                              *)

\* Every variable has the type its column or its role gives it.
TypeOK ==
  /\ row \in [Slots -> Row]
  /\ rowLock \in [Slots -> Requests \cup {Nobody}]
  /\ advLock \in [Slots -> Requests \cup {Nobody}]
  /\ request \in [Requests -> Request]
  /\ issued \in 0 .. MaxIds
  /\ now \in Nat
  /\ accepts \in [Ids -> Nat]
  /\ tries \in [Slots -> Nat]

(* The locks, as the requests rely on them: a row lock protects a row that *)
(* exists and is held by a transaction under way on that slot; a verifier  *)
(* runs on the row exactly as consumeChallenge read it.                    *)
LockDiscipline ==
  /\ \A s \in Slots : rowLock[s] # Nobody =>
       /\ Present(s)
       /\ request[rowLock[s]].pc \in {"upsert", "verify", "purge"}
       /\ ~At(rowLock[s], "purge") => request[rowLock[s]].slot = s
  /\ \A r \in Requests : At(r, "verify") =>
       /\ rowLock[request[r].slot] = r
       /\ row[request[r].slot].id = request[r].id
       /\ row[request[r].slot].attempts = request[r].attempts
       /\ request[r].attempts < MaxAttempts

(* An id is in one place: about to be written by one createChallenge, or   *)
(* in one row, and then it has not been accepted.                          *)
IdsUnique ==
  /\ \A i \in Ids : accepts[i] <= 1 /\ (i > issued => accepts[i] = 0)
  /\ \A s \in Slots : Present(s) => row[s].id <= issued /\ accepts[row[s].id] = 0
  /\ \A s, z \in Slots : Present(s) /\ row[s].id = row[z].id => s = z
  /\ \A r \in Requests : At(r, "upsert") =>
       /\ request[r].id <= issued
       /\ request[r].attempts < MaxAttempts
       /\ accepts[request[r].id] = 0
       /\ \A s \in Slots : row[s].id # request[r].id
       /\ \A q \in Requests : At(q, "upsert") /\ request[q].id = request[r].id
                               => q = r

\* A request under way works on a slot and on a challenge that was drawn.
RequestsFormed ==
  \A r \in Requests : ~At(r, "idle") =>
    /\ request[r].slot \in Slots
    /\ ~At(r, "purge") => request[r].id \in Ids

(* The invariant that TypeOK and SingleUse rest on: what the code assumes  *)
(* of the table and of the other requests between two of its statements.   *)
Consistent == TypeOK /\ RequestsFormed /\ LockDiscipline /\ IdsUnique

(* A challenge is accepted at most once, whatever requests present it at   *)
(* the same time: consumeChallenge checks and deletes it under one lock.   *)
SingleUse == \A i \in Ids : accepts[i] <= 1

(* A challenge is accepted only while it is the challenge of its slot and  *)
(* has attempts left: once a newer challenge, updateMethod or a cleanup    *)
(* took its row away, an answer under way is not accepted any more.        *)
AcceptedWhileCurrent ==
  [][\A i \in Ids : accepts'[i] > accepts[i] =>
       \E s \in Slots : /\ row[s].id = i
                       /\ row[s].attempts < MaxAttempts
                       /\ row'[s].id # i]_vars

(* The wrong answers given in a window are all in the attempt_count of the *)
(* row, whatever challenges followed one another in the slot: no increment *)
(* is lost between requests, none is forgotten by a replacement.           *)
AttemptsCoverWindow ==
  \A s \in Slots : Present(s) => row[s].attempts >= tries[s]

\* No more than MFA_MAX_ATTEMPTS answers are ever evaluated in a window.
TriesBounded == \A s \in Slots : tries[s] <= MaxAttempts

(* Why email codes count every wrong answer: whoever is about to write a   *)
(* challenge holds the advisory lock of the slot, so the slot is still as  *)
(* it was read, empty or locked: the attempts carried over are the ones in *)
(* the row, and no code was mailed a moment ago.                           *)
CreationSerialised ==
  /\ \A s \in Slots : ~Present(s) => tries[s] = 0
  /\ \A r \in Requests : At(r, "upsert") =>
       LET s == request[r].slot
       IN  /\ advLock[s] = r
           /\ Present(s) => rowLock[s] = r /\ ~CoolingDown(s)
           /\ InWindow(s) => request[r].attempts = row[s].attempts

(* A slot that has used up its attempts stays as it is until its window    *)
(* ends: no new challenge takes its place, only updateMethod or a failed   *)
(* mail may remove it.                                                     *)
LockoutHolds ==
  [][\A s \in Slots :
       InWindow(s) /\ Exhausted(s) => row'[s] \in {row[s], Absent}]_vars

(* A code that was mailed is not replaced by another challenge before the  *)
(* cooldown is over, however many logins are started at the same time.     *)
CooldownKept ==
  [][\A s \in Slots :
       (/\ Present(s) /\ row[s].method = EMAIL_OTP
        /\ now + Ttl(s) < row[s].expires + Cooldown)
         => row'[s].id \in {0, row[s].id}]_vars

(* A row goes away for a reason of its own: its challenge was accepted, or *)
(* expired, or could not be mailed, or its user's method is updated.  The  *)
(* cleanup of an older challenge, decided on an earlier read, never takes  *)
(* away the challenge that replaced it.                                    *)
RemovedForAReason ==
  [][\A s \in Slots :
       Present(s) /\ row'[s] = Absent =>
         \/ accepts'[row[s].id] > accepts[row[s].id]
         \/ Expired(s)
         \/ \E r \in Requests : At(r, "unsend") /\ request[r].id = row[s].id
         \/ \E r \in Requests : At(r, "purge") /\ rowLock[s] = r]_vars

-----------------------------------------------------------------------------
(* The challenges implement OneTimeChallenge: a row is the live challenge  *)
(* of its slot, an id is used once no createChallenge is about to write it.*)
LiveIds == [s \in Slots |-> row[s].id]
WrongAnswers == [s \in Slots |-> row[s].attempts]
AboutToBeWritten == {request[r].id : r \in {q \in Requests : At(q, "upsert")}}
UsedIds == (1 .. issued) \ AboutToBeWritten
SpentIds == {i \in Ids : accepts[i] > 0}

Promise == INSTANCE OneTimeChallenge WITH
  live <- LiveIds, wrong <- WrongAnswers, used <- UsedIds, spent <- SpentIds

\* Every behaviour of the requests, seen through the table, is a behaviour of
\* the abstract one-time challenge.
ImplementsOneTimeChallenge == Promise!Spec
=============================================================================
