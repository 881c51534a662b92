------------------------------ MODULE Throttle ------------------------------
(***************************************************************************)
(* One throttled endpoint of the backend and a research process that paces *)
(* itself against it: five requests in 60 s are served, the next one turns *)
(* on a block of 60 s (app.module.ts, auth.controller.ts, mfa.controller.ts*)
(* and the throttler of NestJS), while the process reserves a place among  *)
(* five in 61 s before it sends (research/runtime.ts, e3/protocol.ts).     *)
(*                                                                         *)
(* The place is taken before the request is sent: a page is loaded and a   *)
(* form filled in between, or the network is slow.  The second between the *)
(* two windows must make up for it, and the model says how far it does.    *)
(* A process works in one mode at a time:                                  *)
(*   http      ResearchHttp: a place, a request, and a wait and another    *)
(*             try when it is answered 429                                 *)
(*   journey   a journey of E3: a place, and no other try                  *)
(*   batch     the browser of provisioning: five places at once, every 61 s*)
(* Time is counted in ages, so it needs no bound.                          *)
(***************************************************************************)
EXTENDS Integers, FiniteSetsExt

CONSTANTS
  Limit,    \* requests served in Ttl: limit, and REQUESTS_PER_WINDOW
  Ttl,      \* ttl of the throttler, and how long it blocks
  Window,   \* WINDOW_MS and THROTTLE_WINDOW_MS of the research code
  MaxLag,   \* bound: age of a place when its request arrives or is lost
  MaxIds    \* bound: requests that are remembered at once

ASSUME ThrottleAssumption ==
  /\ Limit \in Nat \ {0} /\ Ttl \in Nat \ {0} /\ Window \in Nat /\ MaxLag \in Nat
  /\ MaxIds \in Nat
  /\ Ttl <= Window

VARIABLES
  mode,      \* what the process does
  client,    \* its request: where it is, which one, how long it has to wait
  window,    \* the places the process counts, those reserved within Window
  places,    \* places of a batch that no request has taken yet
  flying,    \* requests on their way
  age,       \* age[i]: time since place i was reserved, while it matters
  hit,       \* hit[i]: time since request i arrived and was counted, or NoHit
  lag,       \* lag[i]: age of its place then
  blocked,   \* how long the throttler will refuse everything
  unpaced    \* history: requests that no window counts: tried again, or of a
             \* process that ended without waiting for its window

clientVars == <<mode, client, window, places>>
serverVars == <<hit, lag, blocked>>
vars == <<clientVars, flying, age, serverVars, unpaced>>

-----------------------------------------------------------------------------
Ids == 1 .. MaxIds
None == 0
NoHit == -1
Modes == {"http", "journey", "batch"}
Margin == Window - Ttl

Client == [pc: {"ready", "pacing", "sending", "waiting"}, id: {None} \cup Ids,
           wait: 0 .. Ttl]
Ready == [pc |-> "ready", id |-> None, wait |-> 0]

Counted == {i \in Ids : hit[i] # NoHit}

\* Ids that are like no id in use; the least stands for the next.
Free == Ids \ (window \cup places \cup flying \cup Counted \cup {client.id})
Least(i, S) == i \in S /\ \A j \in S : i <= j

Init ==
  /\ mode \in Modes
  /\ client = Ready
  /\ window = {} /\ places = {} /\ flying = {} /\ unpaced = {}
  /\ age = [i \in Ids |-> 0]
  /\ hit = [i \in Ids |-> NoHit] /\ lag = [i \in Ids |-> 0]
  /\ blocked = 0

-----------------------------------------------------------------------------
(* The process                                                             *)

(* A process starts, or the one that runs goes on in another mode.  Where  *)
(* clearWindow came before, or the wait for the end of a batch, its window *)
(* is empty; a process that crashed, or E3 in full, does not wait.         *)
Start(m) ==
  /\ mode' = m /\ client' = Ready /\ window' = {} /\ places' = {}
  /\ unpaced' = unpaced \cup (window \ places)
  /\ UNCHANGED <<flying, age, serverVars>>

\* A request is to be made.
Call ==
  /\ client.pc = "ready" /\ mode # "batch"
  /\ client' = [client EXCEPT !.pc = "pacing"]
  /\ UNCHANGED <<mode, window, places, flying, age, serverVars, unpaced>>

(* pace and reserve: there is a place, and the request goes out, at once   *)
(* or after the page is loaded and filled in.  Otherwise they sleep.       *)
Reserve ==
  /\ client.pc = "pacing" /\ Cardinality(window) < Limit
  /\ \E i \in Ids :
       /\ Least(i, Free)
       /\ client' = [client EXCEPT !.pc = "sending", !.id = i]
       /\ window' = window \cup {i}
       /\ flying' = flying \cup {i}
       /\ age' = [age EXCEPT ![i] = 0]
       /\ unpaced' = unpaced \ {i}
  /\ UNCHANGED <<mode, places, serverVars>>

\* provisionWebAuthn begins a batch, 61 s after it began the one before.
StartBatch ==
  /\ mode = "batch" /\ client.pc = "ready" /\ window = {} /\ places = {}
  /\ \E P \in kSubset(Limit, Free) :
       /\ window' = P /\ places' = P
       /\ age' = [i \in Ids |-> IF i \in P THEN 0 ELSE age[i]]
       /\ unpaced' = unpaced \ P
  /\ UNCHANGED <<mode, client, flying, serverVars>>

\* The browser logs in, for the next account of the batch.
Enroll ==
  /\ mode = "batch" /\ client.pc = "ready"
  /\ \E i \in Ids :
       /\ Least(i, places)
       /\ client' = [client EXCEPT !.pc = "sending", !.id = i]
       /\ places' = places \ {i}
       /\ flying' = flying \cup {i}
  /\ UNCHANGED <<mode, window, age, serverVars, unpaced>>

\* A timeout of the process: the request may arrive all the same.
GiveUp ==
  /\ client.pc = "sending"
  /\ client' = Ready
  /\ UNCHANGED <<mode, window, places, flying, age, serverVars, unpaced>>

\* ResearchHttp has slept as long as Retry-After said; it reserves no place.
Retry ==
  /\ client.pc = "waiting" /\ client.wait = 0
  /\ client' = [client EXCEPT !.pc = "sending"]
  /\ flying' = flying \cup {client.id}
  /\ age' = [age EXCEPT ![client.id] = 0]
  /\ unpaced' = unpaced \cup {client.id}
  /\ window' = window \ {client.id}
  /\ UNCHANGED <<mode, places, serverVars>>

-----------------------------------------------------------------------------
(* The throttler                                                           *)

\* Retry-After: what is left of the block.
RetryAfter(left) == left

\* Mutant: a request that is refused is neither tried again nor reported.
AnswerServed(i, refused, left) ==
  client' = IF client.id # i \/ client.pc # "sending" \/ refused THEN client ELSE Ready

\* What the process learns, if it still waits for request i.
Answer(i, refused, left) ==
  client' = IF client.id # i \/ client.pc # "sending" THEN client
            ELSE IF refused /\ mode = "http"
            THEN [client EXCEPT !.pc = "waiting", !.wait = RetryAfter(left)]
            ELSE Ready

(* A request arrives.  While the endpoint is blocked it is refused and not *)
(* counted; otherwise it is counted, and turns the block on if it is one   *)
(* too many.                                                               *)
Arrive(i) ==
  /\ i \in flying
  /\ flying' = flying \ {i}
  /\ \/ /\ blocked > 0
        /\ Answer(i, TRUE, blocked)
        /\ UNCHANGED serverVars
     \/ /\ blocked = 0
        /\ hit' = [hit EXCEPT ![i] = 0]
        /\ lag' = [lag EXCEPT ![i] = age[i]]
        /\ blocked' = IF Cardinality(Counted \cup {i}) > Limit THEN Ttl ELSE 0
        /\ Answer(i, blocked' > 0, blocked')
  /\ UNCHANGED <<mode, window, places, age, unpaced>>

\* The request is lost; the process learns of it, if it still waits.
Lose(i) ==
  /\ i \in flying
  /\ flying' = flying \ {i}
  /\ client' = IF client.id = i THEN Ready ELSE client
  /\ UNCHANGED <<mode, window, places, age, serverVars, unpaced>>

-----------------------------------------------------------------------------
(* Time                                                                    *)

\* Mutant: the window of the process is as short as that of the throttler.
InTtl(i) == age[i] + 1 < Ttl
\* The timestamp of place i still counts when the clock has moved on.
InWindow(i) == age[i] + 1 < Window

Expired(i) == hit[i] = NoHit \/ hit[i] + 1 >= Ttl
Left(n) == IF n = 0 THEN 0 ELSE n - 1

Tick ==
  /\ \A i \in flying \cup places : age[i] < MaxLag
  /\ window' = {i \in window : InWindow(i)}
  /\ age' = [i \in Ids |-> IF i \in window' \cup places \cup flying THEN age[i] + 1 ELSE 0]
  /\ hit' = [i \in Ids |-> IF Expired(i) THEN NoHit ELSE hit[i] + 1]
  /\ lag' = [i \in Ids |-> IF Expired(i) THEN 0 ELSE lag[i]]
  /\ blocked' = Left(blocked)
  /\ client' = [client EXCEPT !.wait = Left(@)]
  /\ unpaced' = {i \in unpaced : ~Expired(i) \/ i \in flying}
  /\ UNCHANGED <<mode, places, flying>>

Next ==
  \/ \E m \in Modes : Start(m)
  \/ Call \/ Reserve \/ StartBatch \/ Enroll \/ GiveUp \/ Retry
  \/ \E i \in Ids : Arrive(i) \/ Lose(i)
  \/ Tick

Spec == Init /\ [][Next]_vars

(* The clock runs, the timers of the process fire, and a request that is   *)
(* on its way arrives or is lost.                                          *)
Fairness ==
  /\ WF_vars(Tick) /\ WF_vars(Reserve) /\ WF_vars(Retry)
  /\ \A i \in Ids : WF_vars(Arrive(i) \/ Lose(i))

FairSpec == Spec /\ Fairness

-----------------------------------------------------------------------------
(* Properties                                                              *)

TypeOK ==
  /\ mode \in Modes /\ client \in Client
  /\ window \subseteq Ids /\ places \subseteq Ids
  /\ flying \subseteq Ids /\ unpaced \subseteq Ids
  /\ age \in [Ids -> Nat]
  /\ hit \in [Ids -> {NoHit} \cup 0 .. Ttl - 1] /\ lag \in [Ids -> Nat]
  /\ blocked \in 0 .. Ttl

(* The throttler turns a block on only if, of the requests it counts, one  *)
(* no window counts, or one took longer from its place to its arrival than *)
(* one that reserved later, by more than the second between the windows.   *)
BlockedForALag ==
  [][blocked = 0 /\ blocked' > 0 =>
       \/ Counted' \cap unpaced # {}
       \/ \E i, j \in Counted' :
            /\ hit'[i] + lag'[i] >= hit'[j] + lag'[j]
            /\ lag'[i] > lag'[j] + Margin]_vars

(* A request that is to be made is answered, or given up by the process:   *)
(* neither the wait for a place nor that for the end of a block lasts for  *)
(* ever, nor are the tries without end.                                    *)
CallsAnswered == client.pc # "ready" ~> client.pc = "ready"
=============================================================================
