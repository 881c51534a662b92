-------------------------- MODULE OneTimeChallenge --------------------------
(***************************************************************************)
(* What the MFA challenges promise to the rest of the backend, with every  *)
(* operation atomic: a slot has at most one live challenge, an issued id   *)
(* is new, a live challenge stands a bounded number of wrong answers, and  *)
(* an id is accepted once, while it is live.  Who runs the operations, in  *)
(* which transactions, under which locks and at which time is left open.   *)
(***************************************************************************)
EXTENDS Naturals

CONSTANTS Slots, Ids, MaxAttempts

VARIABLES
  live,     \* live[s]: the id of the live challenge of slot s, 0 if none
  wrong,    \* wrong[s]: wrong answers counted against the live challenge
  used,     \* ids that have been issued or will never be
  spent     \* ids that have been accepted

oneTimeVars == <<live, wrong, used, spent>>

Init ==
  /\ live = [s \in Slots |-> 0]
  /\ wrong = [s \in Slots |-> 0]
  /\ used = {}
  /\ spent = {}

\* A new challenge takes the slot; it may inherit the wrong answers given
\* before it, as long as one attempt is left.
Issue(s) ==
  /\ \E i \in Ids \ used, n \in 0 .. MaxAttempts - 1 :
       /\ live' = [live EXCEPT ![s] = i]
       /\ wrong' = [wrong EXCEPT ![s] = n]
       /\ used' = used \cup {i}
  /\ UNCHANGED spent

Fail(s) ==
  /\ live[s] # 0
  /\ wrong[s] < MaxAttempts
  /\ wrong' = [wrong EXCEPT ![s] = @ + 1]
  /\ UNCHANGED <<live, used, spent>>

Accept(s) ==
  /\ live[s] \in used \ spent
  /\ wrong[s] < MaxAttempts
  /\ spent' = spent \cup {live[s]}
  /\ live' = [live EXCEPT ![s] = 0]
  /\ wrong' = [wrong EXCEPT ![s] = 0]
  /\ UNCHANGED used

\* Challenges are given up unanswered: expired, not delivered, revoked.
Withdraw ==
  /\ \E S \in SUBSET Slots :
       /\ live' = [s \in Slots |-> IF s \in S THEN 0 ELSE live[s]]
       /\ wrong' = [s \in Slots |-> IF s \in S THEN 0 ELSE wrong[s]]
  /\ UNCHANGED <<used, spent>>

\* Ids that were drawn for challenges that are never issued.
Discard ==
  /\ \E D \in SUBSET (Ids \ used) : used' = used \cup D
  /\ UNCHANGED <<live, wrong, spent>>

Next ==
  \/ \E s \in Slots : Issue(s) \/ Fail(s) \/ Accept(s)
  \/ Withdraw
  \/ Discard

Spec == Init /\ [][Next]_oneTimeVars
=============================================================================
