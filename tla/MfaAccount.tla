----------------------------- MODULE MfaAccount -----------------------------
(***************************************************************************)
(* The accounts of the backend and the endpoints that change them, on top  *)
(* of the challenges of MfaChallenge: auth/login, the three verifications  *)
(* of a login, the two enrollments, PUT users/me/mfa and DELETE users/:id. *)
(* A request r is one in both modules: request[r] is where it is in the    *)
(* work on its challenge, task[r] the endpoint it serves.                  *)
(*                                                                         *)
(* A transaction that locks the user's row (FOR UPDATE) waits for nothing  *)
(* afterwards: taking that lock, what it guards and the commit are one     *)
(* step.  Only DELETE users/:id keeps the lock across steps: it waits for  *)
(* the locks of the challenges its cascade deletes.                        *)
(*                                                                         *)
(* A TOTP secret and a WebAuthn credential go by the id of the enrollment  *)
(* challenge they were confirmed with.  One tick is one TOTP period.       *)
(***************************************************************************)
EXTENDS MfaChallenge

CONSTANTS
  InitialMethods,  \* methods the accounts may have to begin with
  Targets          \* methods that PUT users/me/mfa is asked for

NONE == "NONE"
Methods == ActiveMethods \cup {NONE}

ASSUME AccountAssumption ==
  /\ InitialMethods \subseteq Methods
  /\ Targets \subseteq {NONE, EMAIL_OTP}

VARIABLES
  account,    \* account[u]: the row of users, with its credential
  userLock,   \* userLock[u]: the deletion that locks the row of users
  task,       \* task[r]: the endpoint request r serves, what it has read
  sessions,   \* sessions[u]: the method claims of the tokens handed out
  proven      \* history: proven[u], methods whose challenge was accepted

accountVars == <<account, userLock, task, sessions, proven>>
allVars == <<vars, accountVars>>

-----------------------------------------------------------------------------
(* Accounts                                                                *)

\* The key of an enrollment that was confirmed before the model begins.
OldKey == MaxIds + 1
Keys == 0 .. OldKey

(* The columns mfa_method, totp_secret_encrypted, totp_last_used_step of   *)
(* users and the row of webauthn_credentials; 0 is no secret, no step      *)
(* (steps are counted from 1) and no credential.                           *)
Account == [exists: BOOLEAN, method: Methods, secret: Keys, lastStep: Nat,
            credential: Keys]

AccountWith(m, key, step) ==
  [exists |-> TRUE, method |-> m,
   secret |-> IF m = TOTP THEN key ELSE 0,
   lastStep |-> IF m = TOTP THEN step ELSE 0,
   credential |-> IF m = WEBAUTHN THEN key ELSE 0]

Removed == [exists |-> FALSE, method |-> NONE, secret |-> 0, lastStep |-> 0,
            credential |-> 0]

\* The steps whose codes acceptedTotpStep takes now: MFA_TOTP_WINDOW is 1.
CodeSteps == {t \in 1 .. now + 2 : t >= now}

\* Mutant: the step of the last accepted code is accepted again.
FreshStepsAgain(u) == {t \in CodeSteps : t >= account[u].lastStep}
FreshSteps(u) == {t \in CodeSteps : t > account[u].lastStep}

\* Mutant: the method of the session does not matter.
AnyVerified(u, claim) == TRUE
\* assertCurrentMfaVerified: an account with MFA wants a session with it.
CurrentVerified(u, claim) == account[u].method \in {NONE, claim}

-----------------------------------------------------------------------------
(* Tasks.  What the request is about to do:                                *)
(*   login     auth/login has read the account                             *)
(*   checked   ... and that its TOTP secret or credential is there         *)
(*   enroll    the start of an enrollment has read the account             *)
(*   create    createChallenge and the mail                                *)
(*   answer    an answer to a login challenge is verified                  *)
(*   complete  it was accepted, completeMfa is to read the account         *)
(*   confirm   an answer to an enrollment challenge is verified            *)
(*   update    updateMethod                                                *)
(*   remove    DELETE users/:id holds the row of the user                  *)
(*   cascade   ... and the rows of its challenges                          *)

Kinds == {"free", "login", "checked", "enroll", "create", "answer",
          "complete", "confirm", "update", "remove", "cascade"}

NoUser == <<>>
Task == [kind: Kinds, user: Users \cup {NoUser}, method: Methods, claim: Methods]

Free == [kind |-> "free", user |-> NoUser, method |-> NONE, claim |-> NONE]
Serve(kind, u, m, claim) ==
  [kind |-> kind, user |-> u, method |-> m, claim |-> claim]

Does(r, kind) == task[r].kind = kind
Goes(r, t) == task' = [task EXCEPT ![r] = t]

\* The request is answered when its work on the challenge ends.
Follow(r) == Goes(r, IF request'[r].pc = "idle" THEN Free ELSE task[r])

\* The lock of the user's row can be had, for a moment.
UserFree(u) == userLock[u] = Nobody

AccountInit ==
  /\ Init
  /\ account \in [Users -> {AccountWith(m, OldKey, 1) : m \in InitialMethods}]
  /\ userLock = [u \in Users |-> Nobody]
  /\ task = [r \in Requests |-> Free]
  /\ sessions = [u \in Users |-> {}]
  /\ proven = [u \in Users |-> {}]

-----------------------------------------------------------------------------
(* auth/login                                                              *)

\* validateUser reads the account; the password is right.
LoginRead(r, u) ==
  /\ Does(r, "free")
  /\ account[u].exists
  /\ Goes(r, Serve("login", u, account[u].method, NONE))
  /\ UNCHANGED <<vars, account, userLock, sessions, proven>>

\* No MFA by what was read: the tokens are handed out at once.
LoginPlain(r) ==
  /\ Does(r, "login") /\ task[r].method = NONE
  /\ sessions' = [sessions EXCEPT ![task[r].user] = @ \cup {NONE}]
  /\ Goes(r, Free)
  /\ UNCHANGED <<vars, account, userLock, proven>>

(* createLoginChallenge reads the account once more: assertTotpConfigured, *)
(* requireCredential.  401 if that is not there any more.                  *)
LoginCheck(r) ==
  LET u == task[r].user
      configured == IF task[r].method = TOTP
                    THEN account[u].method = TOTP /\ account[u].secret # 0
                    ELSE account[u].credential # 0
  IN  /\ Does(r, "login") /\ task[r].method \in {TOTP, WEBAUTHN}
      /\ Goes(r, IF configured THEN [task[r] EXCEPT !.kind = "checked"] ELSE Free)
      /\ UNCHANGED <<vars, account, userLock, sessions, proven>>

LoginCreate(r) ==
  /\ \/ Does(r, "login") /\ task[r].method = EMAIL_OTP
     \/ Does(r, "checked")
  /\ CreateSelect(r, <<task[r].user, "LOGIN">>, task[r].method)
  /\ Goes(r, [task[r] EXCEPT !.kind = "create"])
  /\ UNCHANGED <<account, userLock, sessions, proven>>

(* startTotpEnrollment and startWebAuthnRegistration read the account, its *)
(* password is right, and so is the claim of the session.                  *)
EnrollRead(r, u, m, claim) ==
  /\ Does(r, "free")
  /\ claim \in sessions[u]
  /\ account[u].exists /\ CurrentVerified(u, claim)
  /\ m \in EnrollMethods
  /\ Goes(r, Serve("enroll", u, m, claim))
  /\ UNCHANGED <<vars, account, userLock, sessions, proven>>

EnrollCreate(r) ==
  /\ Does(r, "enroll")
  /\ CreateSelect(r, <<task[r].user, "ENROLLMENT">>, task[r].method)
  /\ Goes(r, [task[r] EXCEPT !.kind = "create"])
  /\ UNCHANGED <<account, userLock, sessions, proven>>

\* createChallenge answers 429 (or the bound on ids is reached).
Refused(r) ==
  LET s == <<task[r].user, IF Does(r, "enroll") THEN "ENROLLMENT" ELSE "LOGIN">>
  IN  /\ \/ task[r].kind \in {"checked", "enroll"}
         \/ Does(r, "login") /\ task[r].method = EMAIL_OTP
      /\ CanLock(r, s)
      /\ LockedOut(s) \/ CoolingDown(s) \/ issued = MaxIds
      /\ Goes(r, Free)
      /\ UNCHANGED <<vars, account, userLock, sessions, proven>>

\* The connection is lost: what was read is forgotten.
Lost(r) ==
  /\ task[r].kind \in {"login", "checked", "enroll", "complete"}
  /\ Goes(r, Free)
  /\ UNCHANGED <<vars, account, userLock, sessions, proven>>

\* Mutant: mfa_challenges has no foreign key to users.
NoReference(u, s) == TRUE
(* An insert refers to the user's row and waits for who is deleting it; an *)
(* update of the row of the slot does not.                                 *)
Reference(u, s) == Present(s) \/ (UserFree(u) /\ account[u].exists)

Upsert(r) ==
  /\ Does(r, "create")
  /\ Reference(task[r].user, request[r].slot)
  /\ CreateUpsert(r)
  /\ Follow(r)
  /\ UNCHANGED <<account, userLock, sessions, proven>>

\* The foreign key fails: the user has been deleted meanwhile.
UpsertOrphan(r) ==
  /\ Does(r, "create") /\ At(r, "upsert")
  /\ ~Present(request[r].slot) /\ UserFree(task[r].user)
  /\ ~account[task[r].user].exists
  /\ Throw(r)
  /\ Follow(r)
  /\ UNCHANGED <<account, userLock, sessions, proven>>

Mail(r) ==
  /\ MailSent(r) \/ MailFailed(r) \/ Unsend(r)
  /\ Follow(r)
  /\ UNCHANGED <<account, userLock, sessions, proven>>

-----------------------------------------------------------------------------
(* auth/mfa/.../verify                                                     *)

\* The guard reads the challenge of the token.
Answer(r, u) ==
  /\ Does(r, "free")
  /\ AssertUsable(r, <<u, "LOGIN">>) \/ AssertExpired(r, <<u, "LOGIN">>)
  /\ Goes(r, Serve("answer", u, row[<<u, "LOGIN">>].method, NONE))
  /\ UNCHANGED <<account, userLock, sessions, proven>>

\* consumeChallenge up to the verifier, and the cleanup of the guard.
Consume(r) ==
  /\ ConsumeLock(r) \/ ConsumeExpired(r) \/ ConsumeRefused(r) \/ ExpireDelete(r)
  /\ Follow(r)
  /\ UNCHANGED <<account, userLock, sessions, proven>>

\* The answer was accepted; the challenge is gone and the tokens are to come.
Accepted(r) ==
  /\ Accept(r)
  /\ Goes(r, [task[r] EXCEPT !.kind = "complete"])
  /\ proven' = [proven EXCEPT ![task[r].user] = @ \cup {task[r].method}]
  /\ UNCHANGED <<userLock, sessions>>

\* Mutant: a code is right whatever the method of the account is by now.
AnyMethod(u, m) == TRUE
\* The account, read under its lock, still has the method of the challenge.
StillHas(u, m) == account[u].method = m

\* verifyEmailOtp: the code is the one that was mailed.
AcceptEmailOtp(r) ==
  LET u == task[r].user
  IN  /\ Does(r, "answer") /\ task[r].method = EMAIL_OTP
      /\ UserFree(u) /\ account[u].exists /\ StillHas(u, EMAIL_OTP)
      /\ Accepted(r)
      /\ UNCHANGED account

\* verifyTotp: the code is that of a step after the last one used.
AcceptTotp(r) ==
  LET u == task[r].user
  IN  /\ Does(r, "answer") /\ task[r].method = TOTP
      /\ UserFree(u) /\ account[u].exists
      /\ StillHas(u, TOTP) /\ account[u].secret # 0
      /\ \E t \in FreshSteps(u) :
           account' = [account EXCEPT ![u].lastStep = t]
      /\ Accepted(r)

\* The credential of the assertion is the one of the account.
SameCredential(u) == account[u].credential # 0

(* verifyWebAuthnAuthentication locks the row of the credential, not that  *)
(* of the user.                                                            *)
AcceptWebAuthn(r) ==
  LET u == task[r].user
  IN  /\ Does(r, "answer") /\ task[r].method = WEBAUTHN
      /\ SameCredential(u)
      /\ Accepted(r)
      /\ UNCHANGED account

\* A wrong code, or an account that has changed: an attempt is counted.
RejectAnswer(r) ==
  /\ Does(r, "answer")
  /\ task[r].method # WEBAUTHN => UserFree(task[r].user)
  /\ Reject(r)
  /\ Follow(r)
  /\ UNCHANGED <<account, userLock, sessions, proven>>

\* completeMfa: the tokens claim the method, 401 if the user is gone.
Complete(r) ==
  LET u == task[r].user
  IN  /\ Does(r, "complete")
      /\ sessions' = IF account[u].exists
                     THEN [sessions EXCEPT ![u] = @ \cup {task[r].method}]
                     ELSE sessions
      /\ Goes(r, Free)
      /\ UNCHANGED <<vars, account, userLock, proven>>

-----------------------------------------------------------------------------
(* users/me/mfa/.../verify                                                 *)

Confirm(r, u, claim) ==
  /\ Does(r, "free")
  /\ claim \in sessions[u]
  /\ PresentEnrollment(r, <<u, "ENROLLMENT">>)
  /\ Goes(r, Serve("confirm", u, row[<<u, "ENROLLMENT">>].method, claim))
  /\ UNCHANGED <<account, userLock, sessions, proven>>

\* Mutant: the credential of the former method stays.
Activated(u, m, key, step) ==
  [AccountWith(m, key, step) EXCEPT !.credential =
     IF m = WEBAUTHN THEN key ELSE account[u].credential]
\* The account gets the new method, and loses what the former one needed.
Activate(u, m, key, step) == AccountWith(m, key, step)

(* verifyTotpEnrollment, verifyWebAuthnRegistration: the first code of the *)
(* secret, or the new credential, is right.                                *)
AcceptConfirm(r) ==
  LET u == task[r].user
  IN  /\ Does(r, "confirm")
      /\ UserFree(u) /\ account[u].exists /\ CurrentVerified(u, task[r].claim)
      /\ \E t \in CodeSteps :
           account' = [account EXCEPT ![u] =
                         Activate(u, task[r].method, request[r].id, t)]
      /\ Accept(r)
      /\ Goes(r, Free)
      /\ UNCHANGED <<userLock, sessions, proven>>

(* A wrong answer.  TOTP asks for the account first: its method must have  *)
(* been verified.  WEBAUTHN verifies the answer first.                     *)
RejectConfirm(r) ==
  LET u == task[r].user
  IN  /\ Does(r, "confirm")
      /\ task[r].method = TOTP =>
           /\ UserFree(u)
           /\ account[u].exists => CurrentVerified(u, task[r].claim)
      /\ Reject(r)
      /\ Follow(r)
      /\ UNCHANGED <<account, userLock, sessions, proven>>

\* 403 of assertCurrentMfaVerified rolls the transaction back.
Forbidden(r) ==
  LET u == task[r].user
  IN  /\ \/ Does(r, "confirm") /\ At(r, "verify") /\ account[u].exists
         \/ Does(r, "update") /\ At(r, "purge")
      /\ UserFree(u)
      /\ ~(account[u].exists /\ CurrentVerified(u, task[r].claim))
      /\ Throw(r)
      /\ Follow(r)
      /\ UNCHANGED <<account, userLock, sessions, proven>>

\* Any other failure before the commit: a wrong password, a lost connection.
Fails(r) ==
  /\ ~Does(r, "cascade")
  /\ Throw(r)
  /\ Follow(r)
  /\ UNCHANGED <<account, userLock, sessions, proven>>

-----------------------------------------------------------------------------
(* PUT users/me/mfa, DELETE users/:id                                      *)

Update(r, u, m, claim) ==
  /\ Does(r, "free")
  /\ claim \in sessions[u]
  /\ PurgeDelete(r, u)
  /\ Goes(r, Serve("update", u, m, claim))
  /\ UNCHANGED <<account, userLock, sessions, proven>>

UpdateCommit(r) ==
  LET u == task[r].user
  IN  /\ Does(r, "update")
      /\ UserFree(u) /\ account[u].exists /\ CurrentVerified(u, task[r].claim)
      /\ account' = [account EXCEPT ![u] = Activate(u, task[r].method, 0, 0)]
      /\ PurgeCommit(r)
      /\ Goes(r, Free)
      /\ UNCHANGED <<userLock, sessions, proven>>

\* usersRepository.delete locks the row of the user ...
Remove(r, u) ==
  /\ Does(r, "free") /\ At(r, "idle")
  /\ account[u].exists /\ UserFree(u)
  /\ userLock' = [userLock EXCEPT ![u] = r]
  /\ Goes(r, Serve("remove", u, NONE, NONE))
  /\ UNCHANGED <<vars, account, sessions, proven>>

\* ... and its cascade those of the challenges.
RemoveCascade(r) ==
  /\ Does(r, "remove")
  /\ PurgeDelete(r, task[r].user)
  /\ Goes(r, [task[r] EXCEPT !.kind = "cascade"])
  /\ UNCHANGED <<account, userLock, sessions, proven>>

RemoveCommit(r) ==
  LET u == task[r].user
  IN  /\ Does(r, "cascade")
      /\ PurgeCommit(r)
      /\ account' = [account EXCEPT ![u] = Removed]
      /\ userLock' = [userLock EXCEPT ![u] = Nobody]
      /\ Goes(r, Free)
      /\ UNCHANGED <<sessions, proven>>

\* The user has orders, or the connection is lost: nothing is deleted.
RemoveFails(r) ==
  /\ \/ Does(r, "remove") /\ UNCHANGED vars
     \/ Does(r, "cascade") /\ Throw(r)
  /\ userLock' = [userLock EXCEPT ![task[r].user] = Nobody]
  /\ Goes(r, Free)
  /\ UNCHANGED <<account, sessions, proven>>

(* A deletion and the transaction of an answer, or of updateMethod, wait   *)
(* for one another: the one has locked the user and wants the challenges,  *)
(* the other has locked a challenge and wants the user.                    *)
Deadlocked(r, q) ==
  /\ Does(r, "remove") /\ q # r
  /\ task[q].kind \in {"answer", "confirm", "update"}
  /\ \E s \in SlotsOf(task[r].user) : rowLock[s] = q

\* PostgreSQL fails one of the two (deadlock_timeout).
DeadlockVictim(r) ==
  \E q \in Requests : Deadlocked(r, q) /\ (RemoveFails(r) \/ Fails(q))

-----------------------------------------------------------------------------

AccountBegin(r) ==
  \/ \E u \in Users : LoginRead(r, u) \/ Answer(r, u) \/ Remove(r, u)
  \/ \E u \in Users, claim \in Methods :
       \/ Confirm(r, u, claim)
       \/ \E m \in ActiveMethods : EnrollRead(r, u, m, claim)
       \/ \E m \in Targets : Update(r, u, m, claim)

AccountContinue(r) ==
  \/ LoginPlain(r) \/ LoginCheck(r) \/ LoginCreate(r) \/ EnrollCreate(r)
  \/ Refused(r) \/ Upsert(r) \/ UpsertOrphan(r) \/ Mail(r)
  \/ Consume(r)
  \/ AcceptEmailOtp(r) \/ AcceptTotp(r) \/ AcceptWebAuthn(r) \/ RejectAnswer(r)
  \/ Complete(r)
  \/ AcceptConfirm(r) \/ RejectConfirm(r) \/ Forbidden(r)
  \/ UpdateCommit(r)
  \/ RemoveCascade(r) \/ RemoveCommit(r)

AccountCrash ==
  /\ \E r \in Requests : ~Does(r, "free")
  /\ IF \E r \in Requests : ~At(r, "idle") THEN Crash ELSE UNCHANGED vars
  /\ task' = [r \in Requests |-> Free]
  /\ userLock' = [u \in Users |-> Nobody]
  /\ UNCHANGED <<account, sessions, proven>>

AccountTick == Tick /\ UNCHANGED accountVars

AccountNext ==
  \/ \E r \in Requests :
       \/ AccountBegin(r) \/ AccountContinue(r)
       \/ Fails(r) \/ RemoveFails(r) \/ Lost(r)
  \/ AccountCrash
  \/ AccountTick

AccountSpec == AccountInit /\ [][AccountNext]_allVars

(* PostgreSQL queues those who wait for a lock, serves them in turn and    *)
(* breaks up those who wait for one another, so a request that can go on   *)
(* again and again does: strong fairness.  Nothing obliges the backend to  *)
(* begin requests, to fail, or to crash.                                   *)
AccountFairSpec ==
  AccountSpec /\ \A r \in Requests : /\ SF_allVars(AccountContinue(r))
                                    /\ SF_allVars(DeadlockVictim(r))

-----------------------------------------------------------------------------
(* Properties                                                              *)

(* Every variable has its type; work on a challenge is done for the task   *)
(* of the request and its user, and only a deletion keeps a user locked.   *)
AccountTypeOK ==
  /\ account \in [Users -> Account]
  /\ userLock \in [Users -> Requests \cup {Nobody}]
  /\ task \in [Requests -> Task]
  /\ sessions \in [Users -> SUBSET Methods]
  /\ proven \in [Users -> SUBSET ActiveMethods]
  /\ \A r \in Requests :
       /\ ~At(r, "idle") =>
            /\ task[r].kind \in {"create", "answer", "confirm", "update", "cascade"}
            /\ request[r].slot \in SlotsOf(task[r].user)
       /\ ~Does(r, "free") => task[r].user \in Users
  /\ \A u \in Users, r \in Requests :
       userLock[u] = r <=> /\ task[r].kind \in {"remove", "cascade"}
                           /\ task[r].user = u

(* The method of an account and what it needs go together at all times: a  *)
(* TOTP secret with a last step iff the method is TOTP, a credential iff   *)
(* it is WEBAUTHN.  The three endpoints that switch methods each write two *)
(* tables.                                                                 *)
MethodEquipped ==
  \A u \in Users :
    /\ account[u].secret # 0 <=> account[u].method = TOTP
    /\ account[u].lastStep # 0 <=> account[u].method = TOTP
    /\ account[u].credential # 0 <=> account[u].method = WEBAUTHN

\* The step accepts the login challenge of u, which is one of method m.
LoginAccepted(u, m) ==
  LET s == <<u, "LOGIN">>
  IN  /\ Present(s) /\ row[s].method = m
      /\ accepts'[row[s].id] > accepts[row[s].id]

(* A login is accepted with the method the account has at that moment: a   *)
(* challenge made for a method that has been given up since, even in the   *)
(* middle of createChallenge or of the answer, is worth nothing.           *)
AcceptedWithCurrentMethod ==
  [][\A u \in Users, m \in ActiveMethods :
       LoginAccepted(u, m) => account[u].exists /\ account[u].method = m]_allVars

(* No TOTP code is accepted twice: while the secret stays, the last used   *)
(* step never goes back, and every login accepted with it moves it on.     *)
TotpStepsAdvance ==
  [][\A u \in Users :
       account[u].secret # 0 /\ account'[u].secret = account[u].secret =>
         /\ account'[u].lastStep >= account[u].lastStep
         /\ LoginAccepted(u, TOTP) =>
              account'[u].lastStep > account[u].lastStep]_allVars

(* A secret or credential comes into use only in the step that accepts the *)
(* enrollment challenge it was made for, and that challenge is used up.    *)
KeysConfirmed ==
  [][\A u \in Users :
       \A key \in {account'[u].secret, account'[u].credential} :
         key \notin {0, account[u].secret, account[u].credential} =>
           /\ row[<<u, "ENROLLMENT">>].id = key
           /\ accepts'[key] > accepts[key]]_allVars

(* The method of an account with MFA changes only on behalf of a session   *)
(* that has passed this very method, at the time of the change.            *)
ChangeVerified ==
  [][\A u \in Users :
       account'[u].exists /\ account'[u] # account[u]
         /\ account'[u].method # account[u].method
         /\ account[u].method # NONE =>
           account[u].method \in sessions[u] \cap proven[u]]_allVars

(* Nothing of a user survives its deletion: no challenge, no credential,   *)
(* not even one whose creation was under way.                              *)
NothingLeftBehind ==
  \A u \in Users : ~account[u].exists =>
    /\ account[u].credential = 0
    /\ \A s \in SlotsOf(u) : ~Present(s)

\* Every request is answered, deletions and their deadlocks included.
EveryTaskEnds == \A r \in Requests : (~Does(r, "free")) ~> Does(r, "free")
=============================================================================
