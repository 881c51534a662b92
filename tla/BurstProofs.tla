---------------------------- MODULE BurstProofs -----------------------------
(***************************************************************************)
(* Proofs about Burst, for every set of clients.  The inductive invariant  *)
(* says where the burst, its monitor and its clients are when the runner   *)
(* is at one of its awaits; the properties and the refinement of           *)
(* CertifiedBurst follow from it.                                          *)
(***************************************************************************)
EXTENDS Burst, TLAPS

-----------------------------------------------------------------------------
(* The inductive invariant                                                 *)

Catching == {"cleanUp", "record", "threw"}
Judged == {"awaitJmeter", "close", "write", "rescan", "seal", "returned"}
Accepted == {"close", "write", "rescan", "seal", "returned"}

\* Phase and monitor at every await of the runner.
PhaseAgrees ==
  /\ runner \in {"prepare", "awaitReady"} => phase = "PREPARATION" /\ monitor = "absent"
  /\ runner = "startMonitor" =>
       phase = "READY" /\ monitor \in {"starting", "recording", "refused", "dead"}
  /\ runner = "awaitSamples" => phase = "RELEASED" /\ monitor \in {"recording", "dead"}
  /\ runner = "stopMonitor" =>
       /\ phase = "RESPONSES_COMPLETE"
       /\ monitor \in {"stopping", "stopped", "refused", "dead"}
  /\ runner \in Judged \ {"returned"} => phase = "VALIDATING" /\ monitor = "absent"
  /\ runner = "returned" => phase = "VALID" /\ monitor = "absent"
  /\ runner \in Catching => phase = "INVALID"
  /\ runner = "crashed" => phase = "RESPONSES_COMPLETE" /\ monitor = "dead"

\* What the release rests on.
ReleaseAgrees ==
  /\ readySlots \subseteq taken
  /\ released => readySlots = Slots
  /\ signals["releaseSignal"] = "resolved" => released
  /\ \A s \in Slots : Beyond(s) /\ s \notin strayed => released
  /\ \A s \in Slots : client[s] \in {"reporting", Passed} => released
  /\ \A s \in Slots : client[s] = "loose" => s \in strayed
  /\ runner \in {"prepare", "awaitReady", "startMonitor"} => ~released

\* What is known of the response of a client.
ResponsesAgree ==
  /\ \A s \in Slots : client[s] \in {"start", "taken", "polling", "released", "loose"}
                        => response[s] = "none"
  /\ \A s \in Slots : client[s] \in {"sampled", "reporting", Passed}
                        => response[s] # "none"
  /\ \A s \in Slots : response[s] # "none" /\ s \notin strayed => released
  /\ \A s \in sampleEnds : response[s] # "none"
  /\ \A s \in Slots : semantic[s] \in Codes => response[s] = semantic[s]
  /\ signals["allSamplesEnded"] = "resolved" => \A s \in Slots : response[s] # "none"
  /\ runner \in {"stopMonitor", "crashed"} \cup Judged =>
       \A s \in Slots : response[s] # "none"

\* Codes are sent only when the runner is past the monitor.
CodesAgree ==
  (\E s \in Slots : semantic[s] \in Codes) =>
    /\ runner \in Judged \cup Catching
    /\ monitor = "absent"
    /\ \A s \in Slots : response[s] # "none"

\* An accepted burst has earned its run.json.
AcceptedEarned ==
  (runner \in Accepted \/ runJson = "VALID") =>
     \A s \in Slots : client[s] = Passed /\ response[s] = "OK"

\* The file at every await of the runner.
FileAgrees ==
  /\ runJson = "VALID" => runner \in {"rescan", "seal", "returned"} \cup Catching
  /\ runner \in {"rescan", "seal", "returned"} => runJson = "VALID"
  /\ runJson = "INVALID" => runner = "threw"

IInv ==
  /\ TypeOK
  /\ PhaseAgrees
  /\ ReleaseAgrees
  /\ ResponsesAgree
  /\ CodesAgree
  /\ AcceptedEarned
  /\ FileAgrees

-----------------------------------------------------------------------------
(* Types                                                                   *)

\* Settling a promise leaves the promises promises.
LEMMA ResolveType ==
  ASSUME NEW x \in Signals, TypeOK
  PROVE  Resolve(x) \in [Signals -> {"pending", "resolved", "rejected"}]
BY DEF TypeOK, BrokerTypeOK, Resolve

LEMMA AbortType ==
  ASSUME TypeOK, Abort
  PROVE  BrokerTypeOK'
BY DEF TypeOK, BrokerTypeOK, Abort, brokerVars

LEMMA TypeInit == Init => TypeOK
<1> SUFFICES ASSUME Init PROVE TypeOK
  OBVIOUS
<1>1. BrokerTypeOK
  BY DEF Init, BrokerInit, BrokerTypeOK
<1>2. client \in [Slots -> ClientSteps]
  BY DEF Init, ClientSteps
<1>3. response \in [Slots -> Codes \cup {"none"}]
  BY DEF Init
<1> QED
  BY <1>1, <1>2, <1>3 DEF Init, TypeOK, MonitorStates, RunnerSteps, Phases

\* A step of a thread.
LEMMA ClientType ==
  ASSUME NEW s \in Slots, TypeOK, ClientStep(s)
  PROVE  TypeOK'
<1> USE DEF TypeOK, BrokerTypeOK, Goes, ClientSteps, Passed, Failed
<1>1. CASE FetchPackage(s)
  BY <1>1 DEF FetchPackage, TakePackage
<1>2. CASE ReportReady(s)
  <2>1. signals' \in [Signals -> {"pending", "resolved", "rejected"}]
    BY <1>2, ResolveType DEF ReportReady, MarkReady, Signals
  <2> QED
    BY <1>2, <2>1 DEF ReportReady, MarkReady
<1>3. CASE LearnRelease(s)
  BY <1>3 DEF LearnRelease, brokerVars
<1>4. CASE Sample(s)
  BY <1>4 DEF Sample, brokerVars
<1>5. CASE ReportSample(s)
  <2>1. signals' \in [Signals -> {"pending", "resolved", "rejected"}]
    BY <1>5, ResolveType DEF ReportSample, SubmitSampleEnd, Signals
  <2> QED
    BY <1>5, <2>1 DEF ReportSample, SubmitSampleEnd
<1>6. CASE LearnCode(s)
  BY <1>6 DEF LearnCode, brokerVars
<1>7. CASE Stray(s)
  BY <1>7 DEF Stray, brokerVars
<1>8. CASE NoPackage(s) \/ SampleFails(s) \/ Stopped(s)
  BY <1>8 DEF NoPackage, SampleFails, Stopped, brokerVars
<1> QED
  BY <1>1, <1>2, <1>3, <1>4, <1>5, <1>6, <1>7, <1>8 DEF ClientStep

\* A step of JMeter or of the monitor.
LEMMA ProcessType ==
  ASSUME TypeOK,
         JmeterExits \/ JmeterDies \/ TakeBaseline \/ TakeFinalSample \/ MonitorDies
  PROVE  TypeOK'
BY DEF TypeOK, BrokerTypeOK, JmeterExits, JmeterDies, TakeBaseline, TakeFinalSample,
       MonitorDies, MonitorBecomes, MonitorStates, brokerVars

\* A step of the runner.
LEMMA RunnerType ==
  ASSUME TypeOK, ResponsesAgree, PhaseAgrees, RunnerStep
  PROVE  TypeOK'
<1> USE DEF TypeOK, RunnerSteps, Phases, MonitorStates
<1>1. CASE Prepare \/ PrepareFails \/ WaitFails \/ TooLate \/ MonitorFails \/ RejectJmeter
  BY <1>1 DEF Prepare, PrepareFails, WaitFails, TooLate, MonitorFails, RejectJmeter,
              Catch, BrokerTypeOK, brokerVars
<1>2. CASE StartMonitor \/ StopMonitor \/ AcceptJmeter
  BY <1>2 DEF StartMonitor, StopMonitor, AcceptJmeter, BrokerTypeOK, brokerVars
<1>3. CASE WriteRun
  BY <1>3 DEF WriteRun, BrokerTypeOK, brokerVars
<1>10. CASE Rescan
  BY <1>10 DEF Rescan, BrokerTypeOK, brokerVars
<1>11. CASE Seal
  BY <1>11 DEF Seal, BrokerTypeOK, brokerVars
<1>8. CASE ArtifactFails
  BY <1>8 DEF ArtifactFails, Catch, BrokerTypeOK, brokerVars
<1>9. CASE Record
  <2>1. runJson' \in {"absent", "VALID", "INVALID"}
    BY <1>9 DEF Record
  <2> QED
    BY <1>9, <2>1 DEF Record, BrokerTypeOK, brokerVars
<1>4. CASE ReleaseClients
  <2>1. signals' \in [Signals -> {"pending", "resolved", "rejected"}]
    BY <1>4, ResolveType DEF ReleaseClients, Release, Signals
  <2> QED
    BY <1>4, <2>1 DEF ReleaseClients, Release, BrokerTypeOK
<1>5. CASE JudgeResponses
  <2>1. response \in [Slots -> Codes]
    BY <1>5 DEF JudgeResponses, ResponsesAgree
  <2> QED
    BY <1>5, <2>1 DEF JudgeResponses, ResolveSemantics, BrokerTypeOK
<1>6. CASE CloseBroker
  BY <1>6, AbortType DEF CloseBroker
<1>7. CASE CleanUp
  <2>1. BrokerTypeOK'
    BY <1>7, AbortType DEF CleanUp, BrokerTypeOK, brokerVars
  <2> QED
    BY <1>7, <2>1 DEF CleanUp
<1> QED
  BY <1>1, <1>2, <1>3, <1>4, <1>5, <1>6, <1>7, <1>8, <1>9,
     <1>10, <1>11 DEF RunnerStep

LEMMA TypeStep == IInv /\ [Next]_vars => TypeOK'
<1>1. ASSUME TypeOK, UNCHANGED vars PROVE TypeOK'
  BY <1>1 DEF TypeOK, BrokerTypeOK, vars, brokerVars, burstVars
<1> QED
  BY <1>1, ClientType, ProcessType, RunnerType DEF IInv, Next

-----------------------------------------------------------------------------
(* The parts of the invariant, one by one                                  *)

\* What the steps of a thread, of JMeter and of the monitor leave to the runner.
LEMMA OthersLeave ==
  /\ \A s \in Slots : ClientStep(s) =>
       UNCHANGED <<jmeter, monitor, runner, phase, runJson, runWritten>>
  /\ JmeterExits \/ JmeterDies => UNCHANGED <<monitor, runner, phase, runJson>>
  /\ TakeBaseline \/ TakeFinalSample \/ MonitorDies =>
       UNCHANGED <<runner, phase, runJson>>
BY DEF ClientStep, FetchPackage, ReportReady, LearnRelease, Sample, ReportSample,
       LearnCode, Stray, NoPackage, SampleFails, Stopped, Goes, JmeterExits, JmeterDies,
       TakeBaseline, TakeFinalSample, MonitorDies, MonitorBecomes

LEMMA PhaseStep == IInv /\ [Next]_vars => PhaseAgrees'
<1> SUFFICES ASSUME TypeOK, PhaseAgrees, [Next]_vars PROVE PhaseAgrees'
  BY DEF IInv
<1> USE DEF PhaseAgrees, Judged, Catching
<1>1. CASE UNCHANGED <<monitor, runner, phase>>
  BY <1>1
<1>2. CASE TakeBaseline \/ TakeFinalSample \/ MonitorDies
  BY <1>2 DEF TakeBaseline, TakeFinalSample, MonitorDies, MonitorBecomes,
              TypeOK, RunnerSteps
<1>3. CASE RunnerStep
  <2> USE DEF Catch
  <2>1. CASE Prepare \/ PrepareFails \/ WaitFails \/ TooLate \/ MonitorFails
    BY <1>3, <2>1 DEF Prepare, PrepareFails, WaitFails, TooLate, MonitorFails
  <2>2. CASE StartMonitor \/ ReleaseClients \/ StopMonitor \/ JudgeResponses
    BY <1>3, <2>2 DEF StartMonitor, ReleaseClients, StopMonitor, JudgeResponses
  <2>3. CASE AcceptJmeter \/ RejectJmeter \/ CloseBroker \/ WriteRun
    BY <1>3, <2>3 DEF AcceptJmeter, RejectJmeter, CloseBroker, WriteRun
  <2>4. CASE Rescan \/ Seal \/ ArtifactFails \/ CleanUp \/ Record
    BY <1>3, <2>4 DEF Rescan, Seal, ArtifactFails, CleanUp, Record
  <2> QED
    BY <1>3, <2>1, <2>2, <2>3, <2>4 DEF RunnerStep
<1> QED
  BY <1>1, <1>2, <1>3, OthersLeave DEF Next, vars, burstVars

\* The broker's memory of the barrier, whoever uses the broker.
LEMMA ReleaseStep == IInv /\ [Next]_vars => ReleaseAgrees'
<1> SUFFICES ASSUME TypeOK, BrokerTypeOK, ReleaseAgrees, [Next]_vars PROVE ReleaseAgrees'
  BY DEF IInv, TypeOK
<1> USE DEF ReleaseAgrees, Beyond
<1>1. CASE UNCHANGED vars
  BY <1>1 DEF vars, brokerVars, burstVars
<1>2. ASSUME NEW s \in Slots, ClientStep(s) PROVE ReleaseAgrees'
  <2> USE DEF TypeOK, Goes, Passed, Failed
  <2>1. CASE FetchPackage(s)
    BY <2>1 DEF FetchPackage, TakePackage
  <2>2. CASE ReportReady(s)
    BY <2>2 DEF ReportReady, MarkReady, Resolve, BrokerTypeOK, Signals
  <2>3. CASE LearnRelease(s)
    BY <2>3 DEF LearnRelease, brokerVars
  <2>4. CASE Sample(s)
    BY <2>4 DEF Sample, brokerVars
  <2>5. CASE ReportSample(s)
    BY <2>5 DEF ReportSample, SubmitSampleEnd, Resolve, BrokerTypeOK, Signals
  <2>6. CASE LearnCode(s)
    BY <2>6 DEF LearnCode, brokerVars
  <2>7. CASE Stray(s)
    BY <2>7 DEF Stray, brokerVars
  <2>8. CASE NoPackage(s) \/ SampleFails(s) \/ Stopped(s)
    BY <2>8 DEF NoPackage, SampleFails, Stopped, brokerVars
  <2> QED
    BY <1>2, <2>1, <2>2, <2>3, <2>4, <2>5, <2>6, <2>7, <2>8 DEF ClientStep
<1>3. CASE JmeterExits \/ JmeterDies \/ TakeBaseline \/ TakeFinalSample \/ MonitorDies
  BY <1>3 DEF JmeterExits, JmeterDies, TakeBaseline, TakeFinalSample, MonitorDies,
              MonitorBecomes, brokerVars
<1>4. CASE RunnerStep
  <2>1. CASE UNCHANGED brokerVars
    <3>1. runner' \in {"prepare", "awaitReady", "startMonitor"} =>
            runner \in {"prepare", "awaitReady", "startMonitor"}
      BY <1>4, <2>1 DEF RunnerStep, Prepare, PrepareFails, WaitFails, TooLate,
           StartMonitor, ReleaseClients, MonitorFails, StopMonitor, JudgeResponses,
           AcceptJmeter, RejectJmeter, CloseBroker, WriteRun, Rescan, Seal,
           ArtifactFails, CleanUp, Record, Catch
    <3>2. UNCHANGED <<client, strayed>>
      BY <1>4 DEF RunnerStep, Prepare, PrepareFails, WaitFails, TooLate,
           StartMonitor, ReleaseClients, MonitorFails, StopMonitor, JudgeResponses,
           AcceptJmeter, RejectJmeter, CloseBroker, WriteRun, Rescan, Seal,
           ArtifactFails, CleanUp, Record
    <3> QED
      BY <2>1, <3>1, <3>2 DEF brokerVars
  <2>2. CASE ReleaseClients
    BY <2>2 DEF ReleaseClients, Release, Releasable, Resolve, BrokerTypeOK, Signals
  <2>3. CASE JudgeResponses
    BY <2>3 DEF JudgeResponses, ResolveSemantics
  <2>4. CASE CloseBroker \/ CleanUp
    BY <2>1, <2>4 DEF CloseBroker, CleanUp, Abort, BrokerTypeOK, Signals
  <2> QED
    BY <1>4, <2>1, <2>2, <2>3, <2>4 DEF RunnerStep, Prepare, PrepareFails, WaitFails,
       TooLate, StartMonitor, MonitorFails, StopMonitor, AcceptJmeter, RejectJmeter,
       WriteRun, Rescan, Seal, ArtifactFails, Record
<1> QED
  BY <1>1, <1>2, <1>3, <1>4 DEF Next

LEMMA ResponsesStep == IInv /\ [Next]_vars => ResponsesAgree'
<1> SUFFICES ASSUME TypeOK, BrokerTypeOK, PhaseAgrees, ReleaseAgrees, ResponsesAgree,
                    [Next]_vars
             PROVE  ResponsesAgree'
  BY DEF IInv, TypeOK
<1> USE DEF ResponsesAgree
<1>1. CASE UNCHANGED vars
  BY <1>1 DEF vars, brokerVars, burstVars
<1>2. ASSUME NEW s \in Slots, ClientStep(s) PROVE ResponsesAgree'
  <2> USE DEF TypeOK, Goes, Passed, Failed
  <2>1. CASE FetchPackage(s)
    BY <2>1 DEF FetchPackage, TakePackage
  <2>2. CASE ReportReady(s)
    BY <2>2 DEF ReportReady, MarkReady, Resolve, BrokerTypeOK, Signals
  <2>3. CASE LearnRelease(s)
    BY <2>3 DEF LearnRelease, brokerVars
  <2>4. CASE Sample(s)
    <3>1. response[s] = "none" /\ (s \in strayed \/ released)
      BY <2>4 DEF Sample, ReleaseAgrees, Beyond
    <3>2. semantic[s] \notin Codes
      BY <3>1 DEF Codes
    <3>3. response'[s] \in Codes /\ \A t \in Slots \ {s} : response'[t] = response[t]
      BY <2>4 DEF Sample
    <3>4. UNCHANGED <<sampleEnds, semantic, signals, released, runner, strayed>>
      BY <2>4 DEF Sample, brokerVars
    <3>5. client'[s] = "sampled" /\ \A t \in Slots \ {s} : client'[t] = client[t]
      BY <2>4 DEF Sample
    <3> QED
      BY <3>1, <3>2, <3>3, <3>4, <3>5 DEF Codes, BrokerTypeOK
  <2>5. CASE ReportSample(s)
    BY <2>5 DEF ReportSample, SubmitSampleEnd, Resolve, BrokerTypeOK, Signals, Codes
  <2>6. CASE LearnCode(s)
    BY <2>6 DEF LearnCode, brokerVars
  <2>7. CASE Stray(s)
    BY <2>7 DEF Stray, brokerVars
  <2>8. CASE NoPackage(s) \/ SampleFails(s) \/ Stopped(s)
    BY <2>8 DEF NoPackage, SampleFails, Stopped, brokerVars
  <2> QED
    BY <1>2, <2>1, <2>2, <2>3, <2>4, <2>5, <2>6, <2>7, <2>8 DEF ClientStep
<1>3. CASE JmeterExits \/ JmeterDies \/ TakeBaseline \/ TakeFinalSample \/ MonitorDies
  BY <1>3 DEF JmeterExits, JmeterDies, TakeBaseline, TakeFinalSample, MonitorDies,
              MonitorBecomes, brokerVars
<1>4. CASE RunnerStep
  <2>1. UNCHANGED <<client, response, strayed>>
    BY <1>4 DEF RunnerStep, Prepare, PrepareFails, WaitFails, TooLate,
         StartMonitor, ReleaseClients, MonitorFails, StopMonitor, JudgeResponses,
         AcceptJmeter, RejectJmeter, CloseBroker, WriteRun, Rescan, Seal,
         ArtifactFails, CleanUp, Record
  <2>2. CASE UNCHANGED brokerVars
    <3>1. \/ runner' \notin {"stopMonitor", "crashed"} \cup Judged
          \/ runner \in {"stopMonitor", "crashed"} \cup Judged
          \/ signals["allSamplesEnded"] = "resolved"
      BY <1>4 DEF RunnerStep, Prepare, PrepareFails, WaitFails, TooLate,
           StartMonitor, ReleaseClients, MonitorFails, StopMonitor, JudgeResponses,
           AcceptJmeter, RejectJmeter, CloseBroker, WriteRun, Rescan, Seal,
           ArtifactFails, CleanUp, Record, Catch, Judged
    <3> QED
      BY <2>1, <2>2, <3>1 DEF brokerVars
  <2>3. CASE ReleaseClients
    BY <2>3 DEF ReleaseClients, Release, Resolve, BrokerTypeOK, Signals, Judged
  <2>4. CASE JudgeResponses
    BY <2>4 DEF JudgeResponses, ResolveSemantics, Judged
  <2>5. CASE CloseBroker \/ CleanUp
    BY <2>2, <2>5 DEF CloseBroker, CleanUp, Abort, BrokerTypeOK, Signals, Codes, Judged
  <2> QED
    BY <1>4, <2>2, <2>3, <2>4, <2>5 DEF RunnerStep, Prepare, PrepareFails, WaitFails,
       TooLate, StartMonitor, MonitorFails, StopMonitor, AcceptJmeter, RejectJmeter,
       WriteRun, Rescan, Seal, ArtifactFails, Record
<1> QED
  BY <1>1, <1>2, <1>3, <1>4 DEF Next

LEMMA CodesStep == IInv /\ [Next]_vars => CodesAgree'
<1> SUFFICES ASSUME IInv, [Next]_vars, NEW c \in Slots, semantic'[c] \in Codes
             PROVE  /\ runner' \in Judged \cup Catching
                    /\ monitor' = "absent"
                    /\ \A s \in Slots : response'[s] # "none"
  BY DEF CodesAgree
<1> USE DEF IInv
<1>1. CASE JudgeResponses
  BY <1>1 DEF JudgeResponses, ResponsesAgree, Judged
<1>2. CASE ~JudgeResponses
  <2>1. semantic[c] \in Codes
    <3>1. CASE semantic' = semantic
      BY <3>1
    <3>2. CASE Abort
      BY <3>2 DEF Abort, brokerVars, Codes
    <3>3. ASSUME NEW s \in Slots, SubmitSampleEnd(s) PROVE semantic[c] \in Codes
      BY <3>3 DEF SubmitSampleEnd, Codes, TypeOK, BrokerTypeOK
    <3> QED
      BY <1>2, <3>1, <3>2, <3>3 DEF Next, vars, brokerVars, ClientStep, FetchPackage,
         TakePackage, ReportReady, MarkReady, LearnRelease, Sample, ReportSample,
         LearnCode, Stray, NoPackage, SampleFails, Stopped, JmeterExits, JmeterDies,
         TakeBaseline, TakeFinalSample, MonitorDies, MonitorBecomes, RunnerStep,
         Prepare, PrepareFails, WaitFails, TooLate, StartMonitor,
         ReleaseClients, Release, MonitorFails, StopMonitor,
         AcceptJmeter, RejectJmeter, CloseBroker, WriteRun, Rescan, Seal,
         ArtifactFails, CleanUp, Record
  <2>2. /\ runner \in Judged \cup Catching
        /\ monitor = "absent"
        /\ \A s \in Slots : response[s] # "none"
    BY <2>1 DEF CodesAgree
  <2>3. response' = response \/ \E s \in Slots : Sample(s)
    BY DEF Next, vars, burstVars, ClientStep, FetchPackage, ReportReady, LearnRelease,
       ReportSample, LearnCode, Stray, NoPackage, SampleFails, Stopped,
       JmeterExits, JmeterDies, TakeBaseline, TakeFinalSample, MonitorDies,
       MonitorBecomes, RunnerStep, Prepare, PrepareFails, WaitFails, TooLate,
       StartMonitor, ReleaseClients, MonitorFails, StopMonitor,
       JudgeResponses, AcceptJmeter, RejectJmeter, CloseBroker, WriteRun, Rescan, Seal,
       ArtifactFails, CleanUp, Record
  <2>4. response' = response
    BY <2>2, <2>3 DEF Sample, Goes, ResponsesAgree
  <2>5. monitor' = "absent"
    BY <2>2 DEF Next, vars, burstVars, JmeterExits, JmeterDies, TakeBaseline,
       TakeFinalSample, MonitorDies, MonitorBecomes, ClientStep, FetchPackage,
       ReportReady, LearnRelease, Sample, ReportSample, LearnCode, Stray, NoPackage,
       SampleFails, Stopped, Goes,
       RunnerStep, Prepare, PrepareFails, WaitFails, TooLate, StartMonitor,
       ReleaseClients, MonitorFails, StopMonitor, JudgeResponses, AcceptJmeter,
       RejectJmeter, CloseBroker, WriteRun, Rescan, Seal, ArtifactFails, CleanUp,
       Record, Judged, Catching
  <2>6. runner' \in Judged \cup Catching
    BY <2>2, OthersLeave DEF Next, vars, burstVars, RunnerStep, Prepare, PrepareFails,
       WaitFails, TooLate, StartMonitor, ReleaseClients, MonitorFails, StopMonitor,
       JudgeResponses, AcceptJmeter, RejectJmeter, CloseBroker, WriteRun, Rescan, Seal,
       ArtifactFails, CleanUp, Record, Catch, Judged, Catching
  <2> QED
    BY <2>2, <2>4, <2>5, <2>6
<1> QED
  BY <1>1, <1>2

\* A thread that has passed stays so, and its response stays what it was.
LEMMA PassedStays ==
  ASSUME NEW s \in Slots, TypeOK, client[s] = Passed, [Next]_vars
  PROVE  client'[s] = Passed /\ response'[s] = response[s]
<1>1. ASSUME NEW t \in Slots, ClientStep(t)
      PROVE  client'[s] = Passed /\ response'[s] = response[s]
  BY <1>1 DEF ClientStep, FetchPackage, ReportReady, LearnRelease, Sample, ReportSample,
     LearnCode, Stray, NoPackage, SampleFails, Stopped, Goes, TypeOK, Passed, Failed
<1> QED
  BY <1>1 DEF Next, vars, burstVars, JmeterExits, JmeterDies, TakeBaseline,
     TakeFinalSample, MonitorDies, MonitorBecomes, RunnerStep, Prepare, PrepareFails,
     WaitFails, TooLate, StartMonitor, ReleaseClients, MonitorFails, StopMonitor,
     JudgeResponses, AcceptJmeter, RejectJmeter, CloseBroker, WriteRun, Rescan, Seal,
     ArtifactFails, CleanUp, Record

LEMMA AcceptedStep == IInv /\ [Next]_vars => AcceptedEarned'
<1> SUFFICES ASSUME IInv, [Next]_vars, runner' \in Accepted \/ runJson' = "VALID"
             PROVE  \A s \in Slots : client'[s] = Passed /\ response'[s] = "OK"
  BY DEF AcceptedEarned
<1>1. CASE AcceptJmeter
  BY <1>1, PassedStays DEF AcceptJmeter, JtlValid, IInv, ResponsesAgree, Codes
<1>2. CASE ~AcceptJmeter
  <2>1. runner \in Accepted \/ runJson = "VALID"
    BY <1>2, OthersLeave DEF Next, vars, burstVars, RunnerStep, Prepare, PrepareFails,
       WaitFails, TooLate, StartMonitor, ReleaseClients, MonitorFails, StopMonitor,
       JudgeResponses, RejectJmeter, CloseBroker, WriteRun, Rescan, Seal,
       ArtifactFails, CleanUp, Record, Catch, Accepted
  <2> QED
    BY <2>1, PassedStays DEF IInv, AcceptedEarned
<1> QED
  BY <1>1, <1>2

LEMMA FileStep == IInv /\ [Next]_vars => FileAgrees'
<1> SUFFICES ASSUME IInv, [Next]_vars PROVE FileAgrees'
  OBVIOUS
<1> USE DEF IInv, FileAgrees, Catching
<1>1. CASE UNCHANGED <<runner, runJson>>
  BY <1>1
<1>2. CASE RunnerStep
  BY <1>2 DEF RunnerStep, Prepare, PrepareFails, WaitFails, TooLate, StartMonitor,
     ReleaseClients, MonitorFails, StopMonitor, JudgeResponses, AcceptJmeter,
     RejectJmeter, CloseBroker, WriteRun, Rescan, Seal, ArtifactFails, CleanUp, Record,
     Catch
<1> QED
  BY <1>1, <1>2, OthersLeave DEF Next, vars, burstVars

LEMMA IInvInit == Init => IInv
<1> SUFFICES ASSUME Init PROVE IInv
  OBVIOUS
<1>1. TypeOK
  BY TypeInit
<1>2. PhaseAgrees
  BY DEF Init, PhaseAgrees, Judged, Catching
<1>3. ReleaseAgrees
  BY DEF Init, BrokerInit, ReleaseAgrees, Beyond, Signals, Passed
<1>4. ResponsesAgree
  BY DEF Init, BrokerInit, ResponsesAgree, Signals, Codes, Judged, Passed
<1>5. CodesAgree
  BY DEF Init, BrokerInit, CodesAgree, Codes
<1>6. AcceptedEarned /\ FileAgrees
  BY DEF Init, AcceptedEarned, Accepted, FileAgrees
<1> QED
  BY <1>1, <1>2, <1>3, <1>4, <1>5, <1>6 DEF IInv

LEMMA Inductive == Spec => []IInv
<1>1. IInv /\ [Next]_vars => IInv'
  BY TypeStep, PhaseStep, ReleaseStep, ResponsesStep, CodesStep, AcceptedStep, FileStep
     DEF IInv
<1> QED
  BY IInvInit, <1>1, PTL DEF Spec

-----------------------------------------------------------------------------
(* The theorems                                                            *)

\* Every variable keeps its type, whatever the number of clients.
THEOREM AlwaysTyped == Spec => []TypeOK
<1>1. IInv => TypeOK
  BY DEF IInv
<1> QED
  BY Inductive, <1>1, PTL

\* Of any number of clients, none that still has the broker gets past the release
\* before all of them are ready, and the response of none is taken before.
THEOREM AlwaysNobodyEarly == Spec => []NobodyEarly
<1>1. IInv => NobodyEarly
  BY DEF IInv, TypeOK, BrokerTypeOK, ReleaseAgrees, NobodyEarly
<1> QED
  BY Inductive, <1>1, PTL

\* Responses are judged only after the window of the measurement.
THEOREM AlwaysJudgedAfterTheWindow == Spec => []JudgedAfterTheWindow
<1>1. IInv => JudgedAfterTheWindow
  BY DEF IInv, CodesAgree, JudgedAfterTheWindow
<1> QED
  BY Inductive, <1>1, PTL

\* A run.json that says VALID is true of every client.
THEOREM AlwaysValidRunEarned == Spec => []ValidRunEarned
<1>1. IInv => ValidRunEarned
  BY DEF IInv, AcceptedEarned, ValidRunEarned
<1> QED
  BY Inductive, <1>1, PTL

\* What is kept of a burst agrees with how it ended.
THEOREM AlwaysRecordAgrees == Spec => []RecordAgrees
<1>1. IInv => RecordAgrees
  BY DEF IInv, TypeOK, RunnerSteps, PhaseAgrees, FileAgrees, RecordAgrees, Judged, Catching
<1> QED
  BY Inductive, <1>1, PTL

-----------------------------------------------------------------------------
(* Nobody is left waiting                                                  *)

(* A response that is on its way to be judged is among those the broker    *)
(* would reject; an aborted broker has none left and has settled all its   *)
(* signals.                                                                *)
WaitersKnown ==
  /\ \A s \in Slots :
       client[s] = "reporting" /\ semantic[s] = "pending" => s \in sampleEnds
  /\ aborted => sampleEnds = {} /\ \A x \in Signals : signals[x] # "pending"

\* Once settled, signals stay settled.
LEMMA SettledStay ==
  ASSUME TypeOK, NEW x \in Signals
  PROVE  \A y \in Signals : signals[y] # "pending" => Resolve(x)[y] # "pending"
BY DEF TypeOK, BrokerTypeOK, Resolve

\* An abort rejects whoever waits.
LEMMA AbortTellsAll ==
  ASSUME TypeOK, WaitersKnown, Abort, UNCHANGED client
  PROVE  WaitersKnown'
BY DEF TypeOK, BrokerTypeOK, WaitersKnown, Abort, brokerVars

LEMMA WaitersStep ==
  ASSUME IInv, WaitersKnown, [Next]_vars
  PROVE  WaitersKnown'
<1> USE DEF IInv, WaitersKnown
<1>1. CASE UNCHANGED <<brokerVars, client>>
  BY <1>1 DEF brokerVars
<1>2. ASSUME NEW s \in Slots, ClientStep(s)
      PROVE  WaitersKnown'
  <2> USE DEF Goes, TypeOK, BrokerTypeOK
  <2>1. CASE FetchPackage(s)
    BY <2>1 DEF FetchPackage, TakePackage
  <2>2. CASE ReportReady(s)
    BY <2>2 DEF ReportReady, MarkReady
  <2>3. CASE ReportSample(s)
    BY <2>3 DEF ReportSample, SubmitSampleEnd
  <2>4. CASE LearnRelease(s) \/ Sample(s) \/ LearnCode(s) \/ Stray(s)
    BY <2>4 DEF LearnRelease, Sample, LearnCode, Stray, brokerVars, Passed, Failed
  <2>5. CASE NoPackage(s) \/ SampleFails(s) \/ Stopped(s)
    BY <2>5 DEF NoPackage, SampleFails, Stopped, brokerVars, Failed
  <2> QED
    BY <1>2, <2>1, <2>2, <2>3, <2>4, <2>5 DEF ClientStep
<1>3. CASE RunnerStep
  <2>1. CASE ReleaseClients
    BY <2>1 DEF ReleaseClients, Release, Releasable
  <2>2. CASE JudgeResponses
    <3>1. \A s \in Slots : semantic'[s] \in Codes
      BY <2>2 DEF JudgeResponses, ResolveSemantics, ResponsesAgree, TypeOK
    <3> QED
      BY <2>2, <3>1 DEF JudgeResponses, ResolveSemantics, Codes
  <2>3. CASE CloseBroker \/ CleanUp
    <3>1. Abort \/ UNCHANGED brokerVars
      BY <2>3 DEF CloseBroker, CleanUp
    <3>2. UNCHANGED <<client, strayed>>
      BY <2>3 DEF CloseBroker, CleanUp
    <3> QED
      BY <3>1, <3>2, <1>1, AbortTellsAll
  <2>4. CASE ~ReleaseClients /\ ~JudgeResponses /\ ~CloseBroker /\ ~CleanUp
    BY <1>1, <1>3, <2>4 DEF RunnerStep, Prepare, PrepareFails, WaitFails, TooLate,
       StartMonitor, MonitorFails, StopMonitor, AcceptJmeter, RejectJmeter, WriteRun,
       Rescan, Seal, ArtifactFails, Record
  <2> QED
    BY <2>1, <2>2, <2>3, <2>4
<1> QED
  BY <1>1, <1>2, <1>3 DEF Next, vars, burstVars, JmeterExits,
     JmeterDies, TakeBaseline, TakeFinalSample, MonitorDies, MonitorBecomes

(* Whoever waits for a code or for the release when the broker is aborted, *)
(* has been told: no response is reported without being kept for judgement. *)
THEOREM AlwaysNobodyLeftWaiting == Spec => []NobodyLeftWaiting
<1>1. Init => WaitersKnown
  BY DEF Init, BrokerInit, WaitersKnown
<1>2. IInv /\ WaitersKnown /\ [Next]_vars => WaitersKnown'
  BY WaitersStep
<1>3. Spec => []WaitersKnown
  BY Inductive, <1>1, <1>2, PTL DEF Spec
<1>4. WaitersKnown => NobodyLeftWaiting
  BY DEF WaitersKnown, NobodyLeftWaiting, Signals
<1> QED
  BY <1>3, <1>4, PTL

-----------------------------------------------------------------------------
(* The refinement                                                          *)

LEMMA RefinesInit == Init => Certified!Init
<1> SUFFICES ASSUME Init PROVE Certified!Init
  OBVIOUS
<1>1. StageSeen = "before"
  BY DEF Init, StageSeen
<1>2. strayed = {} /\ FiredSeen = {} /\ PassedSeen = {}
  BY DEF Init, FiredSeen, PassedSeen, Passed
<1> QED
  BY <1>1, <1>2 DEF Certified!Init

\* The stage only depends on the runner, its phase and the monitor.
LEMMA StageFollows ==
  ASSUME UNCHANGED <<phase, monitor, runner>>
  PROVE  StageSeen' = StageSeen
BY DEF StageSeen

\* While a client is still to send its request the window cannot have closed; a
\* client that was released finds it open, or the burst rejected.
LEMMA StageOfSample ==
  ASSUME NEW s \in Slots, IInv, client[s] \in {"taken", "polling", "released", "loose"}
  PROVE  /\ StageSeen \in {"before", "open", "rejected"}
         /\ s \notin strayed /\ client[s] = "released" => StageSeen # "before"
<1>1. response[s] = "none" /\ (s \notin strayed /\ client[s] = "released" => released)
  BY DEF IInv, ReleaseAgrees, ResponsesAgree, Beyond
<1>2. runner \in {"prepare", "awaitReady", "startMonitor", "awaitSamples"} \cup Catching
  BY <1>1 DEF IInv, TypeOK, RunnerSteps, ReleaseAgrees, ResponsesAgree, Judged, Catching
<1>3. CASE runner \in {"awaitSamples"} \cup Catching
  <2>1. phase = "INVALID" \/ (phase = "RELEASED" /\ monitor \in {"recording", "dead"})
    BY <1>3 DEF IInv, PhaseAgrees, Catching
  <2> QED
    BY <2>1 DEF StageSeen
<1>4. CASE runner \in {"prepare", "awaitReady", "startMonitor"}
  <2>1. phase \in {"PREPARATION", "READY"} /\ ~released
    BY <1>4 DEF IInv, PhaseAgrees, ReleaseAgrees
  <2> QED
    BY <1>1, <2>1 DEF StageSeen
<1> QED
  BY <1>2, <1>3, <1>4

LEMMA StageOfCode ==
  ASSUME NEW s \in Slots, IInv, semantic[s] \in Codes, client[s] = "reporting"
  PROVE  StageSeen \in {"closed", "rejected"}
<1>1. runner \in (Judged \cup Catching) /\ monitor = "absent"
  BY DEF IInv, CodesAgree
<1>2. runner # "returned"
  BY DEF IInv, AcceptedEarned, Accepted, Passed
<1>3. phase = "INVALID" \/ phase = "VALIDATING"
  BY <1>1, <1>2 DEF IInv, PhaseAgrees
<1>4. runner # "crashed"
  BY <1>1 DEF Judged, Catching
<1> QED
  BY <1>1, <1>3, <1>4 DEF StageSeen

LEMMA RefinesClient ==
  ASSUME NEW s \in Slots, IInv, ClientStep(s)
  PROVE  [Certified!Next]_Certified!vars
<1>0. StageSeen' = StageSeen
  BY StageFollows, OthersLeave
<1>1. CASE Sample(s)
  <2>1. /\ client[s] \in {"released", "loose"}
        /\ response[s] = "none"
        /\ client[s] = "loose" => s \in strayed
    BY <1>1 DEF Sample, Goes, IInv, ResponsesAgree, ReleaseAgrees
  <2>2. FiredSeen' = FiredSeen \cup {s} /\ s \notin FiredSeen
    BY <1>1, <2>1 DEF Sample, FiredSeen, IInv, TypeOK, Codes
  <2>3. PassedSeen' = PassedSeen
    BY <1>1, <2>1 DEF Sample, Goes, PassedSeen, Passed, IInv, TypeOK
  <2>4. strayed' = strayed
    BY <1>1 DEF Sample
  <2>5. /\ StageSeen \in {"before", "open", "rejected"}
        /\ s \notin strayed => StageSeen # "before"
    BY <2>1, StageOfSample
  <2>6. Certified!Fire(s)
    BY <1>0, <2>2, <2>3, <2>4, <2>5 DEF Certified!Fire
  <2> QED
    BY <2>6 DEF Certified!Next
<1>2. CASE LearnCode(s) /\ semantic[s] = "OK"
  <2>1. client[s] = "reporting" /\ semantic[s] \in Codes /\ response' = response
    BY <1>2 DEF LearnCode, Goes
  <2>2. FiredSeen' = FiredSeen /\ s \in FiredSeen
    BY <2>1 DEF FiredSeen, IInv, ResponsesAgree
  <2>3. PassedSeen' = PassedSeen \cup {s} /\ s \notin PassedSeen
    BY <1>2, <2>1 DEF LearnCode, Goes, PassedSeen, Passed, IInv, TypeOK
  <2>4. strayed' = strayed
    BY <1>2 DEF LearnCode
  <2>5. Certified!Pass(s)
    BY <1>0, <2>1, <2>2, <2>3, <2>4, StageOfCode DEF Certified!Pass
  <2> QED
    BY <2>5 DEF Certified!Next
<1>3. CASE Stray(s)
  <2>1. client[s] \in {"taken", "polling"} /\ response[s] = "none"
    BY <1>3 DEF Stray, Goes, IInv, ResponsesAgree
  <2>2. FiredSeen' = FiredSeen /\ s \notin FiredSeen
    BY <1>3, <2>1 DEF Stray, FiredSeen
  <2>3. PassedSeen' = PassedSeen
    BY <1>3, <2>1 DEF Stray, Goes, PassedSeen, Passed, IInv, TypeOK
  <2>4. StageSeen \in {"before", "open", "rejected"}
    BY <2>1, StageOfSample
  <2>5. strayed' = strayed \cup {s}
    BY <1>3 DEF Stray
  <2>6. CASE s \in strayed
    BY <1>0, <2>2, <2>3, <2>5, <2>6 DEF Certified!vars
  <2>7. CASE s \notin strayed
    BY <1>0, <2>2, <2>3, <2>4, <2>5, <2>7 DEF Certified!Stray, Certified!Next
  <2> QED
    BY <2>6, <2>7
<1>4. CASE ~Sample(s) /\ ~(LearnCode(s) /\ semantic[s] = "OK") /\ ~Stray(s)
  <2>1. response' = response /\ strayed' = strayed
    BY <1>4 DEF ClientStep, FetchPackage, ReportReady, LearnRelease, ReportSample,
       LearnCode, NoPackage, SampleFails, Stopped
  <2>2. \E to \in ClientSteps \ {Passed} :
          client[s] # Passed /\ client' = [client EXCEPT ![s] = to]
    BY <1>4 DEF ClientStep, FetchPackage, ReportReady, LearnRelease, ReportSample,
       LearnCode, NoPackage, SampleFails, Stopped, Goes, ClientSteps, Passed, Failed
  <2>3. PassedSeen' = PassedSeen
    BY <2>2 DEF PassedSeen, IInv, TypeOK
  <2>4. FiredSeen' = FiredSeen
    BY <2>1 DEF FiredSeen
  <2> QED
    BY <1>0, <2>1, <2>3, <2>4 DEF Certified!vars
<1> QED
  BY <1>1, <1>2, <1>3, <1>4

\* A step that leaves the clients alone moves the stage or nothing.
LEMMA RefinesOther ==
  ASSUME IInv, UNCHANGED <<client, response, strayed>>,
         \/ StageSeen' = StageSeen
         \/ StageSeen = "before" /\ StageSeen' = "open" /\ FiredSeen \subseteq strayed
         \/ StageSeen = "open" /\ StageSeen' = "closed" /\ FiredSeen = Slots
         \/ StageSeen = "closed" /\ StageSeen' = "certified" /\ PassedSeen = Slots
         \/ StageSeen \in {"before", "open", "closed"} /\ StageSeen' = "rejected"
  PROVE  [Certified!Next]_Certified!vars
<1>1. FiredSeen' = FiredSeen /\ PassedSeen' = PassedSeen
  BY DEF FiredSeen, PassedSeen
<1> QED
  BY <1>1 DEF Certified!Next, Certified!Open, Certified!Close, Certified!Certify,
              Certified!Reject, Certified!vars

LEMMA RefinesMonitor ==
  ASSUME IInv, TakeBaseline \/ TakeFinalSample \/ MonitorDies
  PROVE  [Certified!Next]_Certified!vars
<1> USE DEF MonitorBecomes
<1>1. UNCHANGED <<client, response, strayed, phase, runner>>
  BY DEF TakeBaseline, TakeFinalSample, MonitorDies
<1>2. CASE monitor' \in {"refused", "dead"}
  <2>1. phase # "VALID"
    BY DEF TakeBaseline, TakeFinalSample, MonitorDies, IInv, TypeOK, RunnerSteps,
           PhaseAgrees, Judged, Catching
  <2>2. StageSeen' = "rejected"
    BY <1>1, <1>2, <2>1 DEF StageSeen
  <2>3. StageSeen \in {"before", "open", "closed", "rejected"}
    BY <2>1 DEF StageSeen
  <2> QED
    BY <1>1, <2>2, <2>3, RefinesOther
<1>3. CASE monitor = "starting" /\ monitor' = "recording"
  <2>1. phase \in {"READY", "INVALID"} /\ runner # "crashed"
    BY <1>3 DEF IInv, TypeOK, RunnerSteps, PhaseAgrees, Judged, Catching
  <2>2. StageSeen' = StageSeen
    BY <1>1, <1>3, <2>1 DEF StageSeen
  <2> QED
    BY <1>1, <2>2, RefinesOther
<1>4. CASE monitor = "stopping" /\ monitor' = "stopped"
  <2>1. (runner = "stopMonitor" /\ phase = "RESPONSES_COMPLETE") \/ phase = "INVALID"
    BY <1>4 DEF IInv, TypeOK, RunnerSteps, PhaseAgrees, Judged, Catching
  <2>2. CASE phase = "INVALID"
    BY <1>1, <2>2, RefinesOther DEF StageSeen
  <2>3. CASE runner = "stopMonitor" /\ phase = "RESPONSES_COMPLETE"
    <3>1. StageSeen = "open" /\ StageSeen' = "closed"
      BY <1>1, <1>4, <2>3 DEF StageSeen
    <3>2. FiredSeen = Slots
      BY <2>3 DEF FiredSeen, IInv, ResponsesAgree
    <3> QED
      BY <1>1, <3>1, <3>2, RefinesOther
  <2> QED
    BY <2>1, <2>2, <2>3
<1> QED
  BY <1>2, <1>3, <1>4 DEF TakeBaseline, TakeFinalSample, MonitorDies

LEMMA RefinesRunner ==
  ASSUME IInv, RunnerStep
  PROVE  [Certified!Next]_Certified!vars
<1>1. UNCHANGED <<client, response, strayed>>
  BY DEF RunnerStep, Prepare, PrepareFails, WaitFails, TooLate, StartMonitor,
     ReleaseClients, MonitorFails, StopMonitor, JudgeResponses, AcceptJmeter,
     RejectJmeter, CloseBroker, WriteRun, Rescan, Seal, ArtifactFails, CleanUp, Record
<1>2. CASE phase' = "INVALID"
  <2>1. StageSeen' = "rejected"
    BY <1>2 DEF StageSeen
  <2>2. phase # "VALID"
    BY <1>2 DEF IInv, TypeOK, RunnerSteps, PhaseAgrees, Judged, Catching, RunnerStep,
       Prepare, PrepareFails, WaitFails, TooLate, StartMonitor, ReleaseClients,
       MonitorFails, StopMonitor, JudgeResponses, AcceptJmeter, RejectJmeter,
       CloseBroker, WriteRun, Rescan, Seal, ArtifactFails, CleanUp, Record
  <2>3. StageSeen \in {"before", "open", "closed", "rejected"}
    BY <2>2 DEF StageSeen
  <2> QED
    BY <1>1, <2>1, <2>3, RefinesOther
<1>3. CASE ReleaseClients
  <2>1. StageSeen = "before" /\ StageSeen' = "open"
    BY <1>3 DEF ReleaseClients, StageSeen, IInv, PhaseAgrees
  <2>2. FiredSeen \subseteq strayed
    BY <1>3 DEF ReleaseClients, Release, Releasable, FiredSeen, IInv, ResponsesAgree
  <2> QED
    BY <1>1, <2>1, <2>2, RefinesOther
<1>4. CASE Seal
  <2>1. StageSeen = "closed" /\ StageSeen' = "certified"
    BY <1>4 DEF Seal, StageSeen, IInv, PhaseAgrees, Judged
  <2>2. PassedSeen = Slots
    BY <1>4 DEF Seal, PassedSeen, IInv, AcceptedEarned, Accepted
  <2> QED
    BY <1>1, <2>1, <2>2, RefinesOther
<1>5. CASE phase' # "INVALID" /\ ~ReleaseClients /\ ~Seal
  <2>1. CASE Prepare \/ StartMonitor
    BY <1>1, <2>1, RefinesOther DEF Prepare, StartMonitor, StageSeen, IInv, PhaseAgrees
  <2>2. CASE StopMonitor
    BY <1>1, <2>2, RefinesOther DEF StopMonitor, StageSeen, IInv, PhaseAgrees
  <2>3. CASE JudgeResponses
    BY <1>1, <2>3, RefinesOther DEF JudgeResponses, StageSeen, IInv, PhaseAgrees
  <2>4. CASE AcceptJmeter \/ CloseBroker \/ WriteRun \/ Rescan
    BY <1>1, <2>4, RefinesOther DEF AcceptJmeter, CloseBroker, WriteRun, Rescan,
       StageSeen, IInv, PhaseAgrees, Judged
  <2> QED
    BY <1>5, <2>1, <2>2, <2>3, <2>4 DEF RunnerStep, PrepareFails, WaitFails, TooLate,
       MonitorFails, RejectJmeter, ArtifactFails, CleanUp, Record, Catch,
       IInv, PhaseAgrees, Catching
<1> QED
  BY <1>2, <1>3, <1>4, <1>5

\* A burst of any number of clients implements CertifiedBurst.
THEOREM Refinement == Spec => ImplementsCertifiedBurst
<1>1. IInv /\ [Next]_vars => [Certified!Next]_Certified!vars
  <2> SUFFICES ASSUME IInv, [Next]_vars PROVE [Certified!Next]_Certified!vars
    OBVIOUS
  <2>1. CASE UNCHANGED vars \/ JmeterExits \/ JmeterDies
    <3>1. UNCHANGED <<client, response, strayed, phase, monitor, runner>>
      BY <2>1 DEF vars, burstVars, JmeterExits, JmeterDies
    <3> QED
      BY <3>1, StageFollows, RefinesOther
  <2> QED
    BY <2>1, RefinesClient, RefinesMonitor, RefinesRunner DEF Next
<1> QED
  BY RefinesInit, <1>1, Inductive, PTL DEF Spec, ImplementsCertifiedBurst, Certified!Spec
=============================================================================
