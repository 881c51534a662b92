--------------------------- MODULE CertifiedBurst ---------------------------
(***************************************************************************)
(* What a measured burst promises: every client sends its request inside   *)
(* one window of resource monitoring, unless it has lost the broker, when  *)
(* it may send before the window opens; the window closes after the last   *)
(* request, and the burst is certified only if every client then learns    *)
(* that its own response was the expected one.  A burst that goes wrong is *)
(* rejected, once and for all; its clients may then do as they like.       *)
(***************************************************************************)
CONSTANT Slots  \* the clients of the burst

VARIABLES
  stage,  \* before, open, closed; certified or rejected in the end
  stray,  \* clients that have lost the broker before they sent their request
  fired,  \* clients that have sent their request
  passed  \* clients that know their response was the expected one

vars == <<stage, stray, fired, passed>>

Stages == {"before", "open", "closed", "certified", "rejected"}

TypeOK ==
  /\ stage \in Stages
  /\ stray \subseteq Slots
  /\ fired \subseteq Slots
  /\ passed \subseteq Slots

Init ==
  /\ stage = "before"
  /\ stray = {}
  /\ fired = {}
  /\ passed = {}

Stray(s) ==
  /\ stage \in {"before", "open", "rejected"}
  /\ s \notin stray \cup fired
  /\ stray' = stray \cup {s}
  /\ UNCHANGED <<stage, fired, passed>>

\* The monitor has its baseline: the window opens, only strays have sent requests.
Open ==
  /\ stage = "before"
  /\ fired \subseteq stray
  /\ stage' = "open"
  /\ UNCHANGED <<stray, fired, passed>>

Fire(s) ==
  /\ \/ stage \in {"open", "rejected"}
     \/ stage = "before" /\ s \in stray
  /\ s \notin fired
  /\ fired' = fired \cup {s}
  /\ UNCHANGED <<stage, stray, passed>>

\* The monitor has its final sample: nobody is still to send.
Close ==
  /\ stage = "open"
  /\ fired = Slots
  /\ stage' = "closed"
  /\ UNCHANGED <<stray, fired, passed>>

Pass(s) ==
  /\ stage \in {"closed", "rejected"}
  /\ s \in fired \ passed
  /\ passed' = passed \cup {s}
  /\ UNCHANGED <<stage, stray, fired>>

Certify ==
  /\ stage = "closed"
  /\ passed = Slots
  /\ stage' = "certified"
  /\ UNCHANGED <<stray, fired, passed>>

Reject ==
  /\ stage \in {"before", "open", "closed"}
  /\ stage' = "rejected"
  /\ UNCHANGED <<stray, fired, passed>>

Next ==
  \/ Open
  \/ \E s \in Slots : Stray(s) \/ Fire(s) \/ Pass(s)
  \/ Close
  \/ Certify
  \/ Reject

Spec == Init /\ [][Next]_vars
=============================================================================
