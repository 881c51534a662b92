------------------------------- MODULE Broker -------------------------------
(***************************************************************************)
(* The in-memory request broker of experiment E2, InMemoryRequestBroker of *)
(* src/research/dataset/e2/broker.ts.  It hands every client its request   *)
(* package once, counts the clients that are ready, releases them all at   *)
(* once, collects their responses and answers each with the semantic code  *)
(* of its response.  The broker runs in the event loop of the runner, so   *)
(* every operation is one step.                                            *)
(***************************************************************************)
EXTENDS Naturals

CONSTANT Slots  \* CLIENT_SLOTS, CLIENTS of them

VARIABLES
  packages,    \* slots whose package has not been fetched
  taken,       \* slots whose package has been fetched
  readySlots,  \* slots that have reported ready
  sampleEnds,  \* slots whose response is held; semanticWaiters has the same keys
  semantic,    \* semantic[s]: the outcome of the promise that slot s waits on
  signals,     \* state of the promises allReady, releaseSignal, allSamplesEnded
  released,
  aborted

brokerVars ==
  <<packages, taken, readySlots, sampleEnds, semantic, signals, released, aborted>>

Signals == {"allReady", "releaseSignal", "allSamplesEnded"}
Codes == {"OK", "BAD"}  \* every code but OK is a failure of one category

BrokerTypeOK ==
  /\ packages \subseteq Slots
  /\ taken \subseteq Slots
  /\ readySlots \subseteq Slots
  /\ sampleEnds \subseteq Slots
  /\ semantic \in [Slots -> Codes \cup {"pending", "rejected"}]
  /\ signals \in [Signals -> {"pending", "resolved", "rejected"}]
  /\ released \in BOOLEAN
  /\ aborted \in BOOLEAN

-----------------------------------------------------------------------------
\* A promise that is settled stays as it is.
Resolve(signal) ==
  [signals EXCEPT ![signal] = IF @ = "pending" THEN "resolved" ELSE @]

\* The runner fills the broker with one package for every slot.
BrokerInit ==
  /\ packages = Slots
  /\ taken = {}
  /\ readySlots = {}
  /\ sampleEnds = {}
  /\ semantic = [s \in Slots |-> "pending"]
  /\ signals = [x \in Signals |-> "pending"]
  /\ released = FALSE
  /\ aborted = FALSE

TakePackage(s) ==
  /\ ~aborted
  /\ s \in packages \ taken
  /\ packages' = packages \ {s}
  /\ taken' = taken \cup {s}
  /\ UNCHANGED <<readySlots, sampleEnds, semantic, signals, released, aborted>>

MarkReady(s) ==
  /\ ~aborted
  /\ s \in taken \ readySlots
  /\ readySlots' = readySlots \cup {s}
  /\ signals' = IF readySlots' = Slots THEN Resolve("allReady") ELSE signals
  /\ UNCHANGED <<packages, taken, sampleEnds, semantic, released, aborted>>

\* release throws unless all of this holds.
Releasable ==
  /\ ~aborted
  /\ ~released
  /\ readySlots = Slots
  /\ packages = {}

Release ==
  /\ Releasable
  /\ released' = TRUE
  /\ signals' = Resolve("releaseSignal")
  /\ UNCHANGED <<packages, taken, readySlots, sampleEnds, semantic, aborted>>

\* The response is kept and a promise of its code made.
SubmitSampleEnd(s) ==
  /\ ~aborted
  /\ released
  /\ s \in readySlots \ sampleEnds
  /\ sampleEnds' = sampleEnds \cup {s}
  /\ semantic' = [semantic EXCEPT ![s] = "pending"]
  /\ signals' = IF sampleEnds' = Slots THEN Resolve("allSamplesEnded") ELSE signals
  /\ UNCHANGED <<packages, taken, readySlots, released, aborted>>

\* Every slot has a response, so every slot has a code and a waiter.
ResolveSemantics(codes) ==
  /\ sampleEnds = Slots
  /\ semantic' = codes
  /\ sampleEnds' = {}
  /\ UNCHANGED <<packages, taken, readySlots, signals, released, aborted>>

\* A mutant: an aborted broker leaves its waiters waiting.
AbortSilently ==
  /\ aborted' = TRUE
  /\ signals' = [x \in Signals |->
                   IF signals[x] = "pending" THEN "rejected" ELSE signals[x]]
  /\ packages' = {}
  /\ sampleEnds' = {}
  /\ UNCHANGED <<taken, readySlots, semantic, released>>

\* Everybody who waits is told so; a second abort does nothing.
Abort ==
  IF aborted THEN UNCHANGED brokerVars ELSE
  /\ aborted' = TRUE
  /\ signals' = [x \in Signals |->
                   IF signals[x] = "pending" THEN "rejected" ELSE signals[x]]
  /\ semantic' = [s \in Slots |->
                    IF s \in sampleEnds THEN "rejected" ELSE semantic[s]]
  /\ packages' = {}
  /\ sampleEnds' = {}
  /\ UNCHANGED <<taken, readySlots, released>>
=============================================================================
