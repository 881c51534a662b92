------------------------------- MODULE Burst --------------------------------
(***************************************************************************)
(* One measured burst of experiment E2: runBurst of                        *)
(* src/research/dataset/e2/runner.ts with its broker (module Broker), the  *)
(* threads of JMeter (e2-verify.jmx), the monitor in a process of its own  *)
(* (monitor.ts) and the state machine of the burst (protocol.ts).  The     *)
(* runner is one asynchronous function: a step is what it does from one    *)
(* await to the next.  JMeter threads and the monitor run beside it, fail  *)
(* and time out whenever they like.                                        *)
(***************************************************************************)
EXTENDS Broker

VARIABLES
  client,      \* client[s]: where the JMeter thread of slot s is
  response,    \* response[s]: the code that the answer of the backend deserves
  jmeter,      \* the JMeter process: off, running, exited with 0, or dead
  monitor,     \* the monitor process
  runner,      \* the await that runBurst is at
  phase,       \* BurstStateMachine.phase
  runJson,     \* status in run.json, "absent" without the file
  runWritten,  \* the variable of this name
  strayed      \* history: slots whose call to the broker failed after their package

burstVars == <<client, response, jmeter, monitor, runner, phase, runJson, runWritten,
               strayed>>
vars == <<brokerVars, burstVars>>

(* A thread fetches its package, reports ready, polls for the release,     *)
(* sends its request, reports the response and learns its code.  JMeter    *)
(* logs the exception of a preprocessor or a timer and goes on: a thread   *)
(* that has its package and whose next call fails is loose, it sends its   *)
(* request without having learnt of the release.  The timer that lets the  *)
(* threads go together gives up after 15 seconds, so it holds nobody back. *)
Passed == "passed"
Failed == "failed"
ClientSteps == {"start", "taken", "polling", "released", "loose", "sampled",
                "reporting", Passed, Failed}

(* starting and stopping: START or STOP has been sent and not answered;    *)
(* refused: it was answered with ERROR.                                    *)
MonitorStates == {"absent", "starting", "recording", "stopping", "stopped",
                  "refused", "dead"}

(* The awaits of the try block, those of the catch block, and the ends: it *)
(* returns, it throws, or the whole runner process dies.                   *)
RunnerSteps == {"prepare", "awaitReady", "startMonitor", "awaitSamples",
                "stopMonitor", "awaitJmeter", "close", "write", "rescan", "seal",
                "cleanUp", "record", "returned", "threw", "crashed"}
Ended == {"returned", "threw", "crashed"}

Phases == {"PREPARATION", "READY", "MONITORING", "RELEASED", "RESPONSES_COMPLETE",
           "VALIDATING", "VALID", "INVALID"}

TypeOK ==
  /\ BrokerTypeOK
  /\ client \in [Slots -> ClientSteps]
  /\ response \in [Slots -> Codes \cup {"none"}]
  /\ jmeter \in {"off", "running", "exited", "dead"}
  /\ monitor \in MonitorStates
  /\ runner \in RunnerSteps
  /\ phase \in Phases
  /\ runJson \in {"absent", "VALID", "INVALID"}
  /\ runWritten \in BOOLEAN
  /\ strayed \subseteq Slots

Init ==
  /\ BrokerInit
  /\ client = [s \in Slots |-> "start"]
  /\ response = [s \in Slots |-> "none"]
  /\ jmeter = "off"
  /\ monitor = "absent"
  /\ runner = "prepare"
  /\ phase = "PREPARATION"
  /\ runJson = "absent"
  /\ runWritten = FALSE
  /\ strayed = {}

-----------------------------------------------------------------------------
(* JMeter                                                                  *)

Goes(s, from, to) ==
  /\ jmeter # "off"
  /\ client[s] = from
  /\ client' = [client EXCEPT ![s] = to]
  /\ UNCHANGED <<jmeter, monitor, runner, phase, runJson, runWritten>>

FetchPackage(s) ==
  /\ TakePackage(s)
  /\ Goes(s, "start", "taken")
  /\ UNCHANGED <<response, strayed>>

ReportReady(s) ==
  /\ MarkReady(s)
  /\ Goes(s, "taken", "polling")
  /\ UNCHANGED <<response, strayed>>

\* A mutant: the poll is answered without waiting for the release.
LearnReleaseAtOnce(s) ==
  /\ signals["releaseSignal"] # "rejected"
  /\ Goes(s, "polling", "released")
  /\ UNCHANGED <<brokerVars, response, strayed>>

\* The answer to GET /release/:slot arrives.
LearnRelease(s) ==
  /\ signals["releaseSignal"] = "resolved"
  /\ Goes(s, "polling", "released")
  /\ UNCHANGED <<brokerVars, response, strayed>>

(* POST /ready/:slot or GET /release/:slot is refused, breaks or times out *)
(* after a minute: the preprocessor throws, and the thread goes on.        *)
Stray(s) ==
  /\ Goes(s, "taken", "loose") \/ Goes(s, "polling", "loose")
  /\ strayed' = strayed \cup {s}
  /\ UNCHANGED <<brokerVars, response>>

\* The request goes to the backend and is answered, as expected or not.
Sample(s) ==
  /\ Goes(s, "released", "sampled") \/ Goes(s, "loose", "sampled")
  /\ \E code \in Codes : response' = [response EXCEPT ![s] = code]
  /\ UNCHANGED <<brokerVars, strayed>>

ReportSample(s) ==
  /\ SubmitSampleEnd(s)
  /\ Goes(s, "sampled", "reporting")
  /\ UNCHANGED <<response, strayed>>

\* The answer to POST /sample-end/:slot arrives: the sample passes or fails.
LearnCode(s) ==
  /\ semantic[s] \in Codes
  /\ Goes(s, "reporting", IF semantic[s] = "OK" THEN Passed ELSE Failed)
  /\ UNCHANGED <<brokerVars, response, strayed>>

(* The package, or the answer with it, does not arrive: without endpoint   *)
(* and source address the sampler fails before it has sent anything.       *)
NoPackage(s) ==
  /\ Goes(s, "start", Failed) \/ Goes(s, "taken", Failed)
  /\ UNCHANGED <<brokerVars, response, strayed>>

\* The request gets no answer, or its report is refused, breaks or times out.
SampleFails(s) ==
  /\ \E from \in {"released", "loose", "sampled", "reporting"} : Goes(s, from, Failed)
  /\ UNCHANGED <<brokerVars, response, strayed>>

\* stoptestnow: the sample of another thread failed, or JMeter is told to terminate.
Stopped(s) ==
  /\ jmeter = "dead" \/ \E t \in Slots : client[t] = Failed
  /\ client[s] \notin {Passed, Failed}
  /\ Goes(s, client[s], Failed)
  /\ UNCHANGED <<brokerVars, response, strayed>>

JmeterExits ==
  /\ jmeter = "running"
  /\ \A s \in Slots : client[s] \in {Passed, Failed}
  /\ jmeter' = "exited"
  /\ UNCHANGED <<brokerVars, client, response, monitor, runner, phase, runJson,
                 runWritten, strayed>>

\* It is killed or exits with another code, whatever its threads were doing.
JmeterDies ==
  /\ jmeter = "running"
  /\ jmeter' = "dead"
  /\ UNCHANGED <<brokerVars, client, response, monitor, runner, phase, runJson,
                 runWritten, strayed>>

-----------------------------------------------------------------------------
(* The monitor                                                             *)

MonitorBecomes(from, to) ==
  /\ monitor = from
  /\ monitor' = to
  /\ UNCHANGED <<brokerVars, client, response, jmeter, runner, phase, runJson,
                 runWritten, strayed>>

\* CgroupMonitor.start takes the baseline, or fails to read it.
TakeBaseline == MonitorBecomes("starting", "recording") \/ MonitorBecomes("starting", "refused")

\* CgroupMonitor.stop takes the final sample, or finds a gap or a failed read.
TakeFinalSample == MonitorBecomes("stopping", "stopped") \/ MonitorBecomes("stopping", "refused")

MonitorDies ==
  \E from \in {"starting", "recording", "stopping"} : MonitorBecomes(from, "dead")

-----------------------------------------------------------------------------
(* The runner: what went wrong                                             *)

(* The catch block up to its first await: the burst is invalid unless it   *)
(* has reached its end, and a JMeter that runs is told to terminate.  What *)
(* terminates is the command that was started: its threads may go on until *)
(* they fail.                                                              *)
Catch ==
  /\ runner' = "cleanUp"
  /\ phase' = "INVALID"
  /\ jmeter' = IF jmeter = "running" THEN "dead" ELSE jmeter

\* The monitor is killed, the broker aborted and closed.
CleanUp ==
  /\ runner = "cleanUp"
  /\ runner' = "record"
  /\ monitor' = "absent"
  /\ IF jmeter = "off" THEN UNCHANGED brokerVars ELSE Abort
  /\ UNCHANGED <<client, response, jmeter, phase, runJson, runWritten, strayed>>

(* The scan may remove run.json; a run.json that is there is never written *)
(* again, and a failure to write one is swallowed.                         *)
Record ==
  /\ runner = "record"
  /\ runner' = "threw"
  /\ \E kept \in {runJson, "absent"} :
       IF runWritten \/ kept # "absent" THEN runJson' = kept
       ELSE runJson' \in {"INVALID", "absent"}
  /\ UNCHANGED <<brokerVars, client, response, jmeter, monitor, phase, runWritten, strayed>>

-----------------------------------------------------------------------------
(* The runner: the burst                                                   *)

(* The logins are prepared, the broker is filled (BrokerInit) and listens, *)
(* and JMeter is started.                                                  *)
Prepare ==
  /\ runner = "prepare"
  /\ runner' = "awaitReady"
  /\ jmeter' = "running"
  /\ UNCHANGED <<brokerVars, client, response, monitor, phase, runJson, runWritten, strayed>>

PrepareFails ==
  /\ runner = "prepare"
  /\ Catch
  /\ UNCHANGED <<brokerVars, client, response, monitor, runJson, runWritten, strayed>>

\* A mutant: nobody watches JMeter and the clock before the release.
WaitForSamplesFails ==
  /\ runner = "awaitSamples"
  /\ Catch
  /\ UNCHANGED <<brokerVars, client, response, monitor, runJson, runWritten, strayed>>

\* waitWithProcess: the broker's timeout is over, or JMeter has ended early.
WaitFails ==
  /\ runner \in {"awaitReady", "awaitSamples"}
  /\ Catch
  /\ UNCHANGED <<brokerVars, client, response, monitor, runJson, runWritten, strayed>>

\* Every client is ready: the monitor is forked and told to start.
StartMonitor ==
  /\ runner = "awaitReady"
  /\ signals["allReady"] = "resolved"
  /\ runner' = "startMonitor"
  /\ phase' = "READY"
  /\ monitor' = "starting"
  /\ UNCHANGED <<brokerVars, client, response, jmeter, runJson, runWritten, strayed>>

\* The logins are too old or the TOTP step too far on, before or after the baseline.
TooLate ==
  /\ \/ runner = "awaitReady" /\ signals["allReady"] = "resolved"
     \/ runner = "startMonitor" /\ monitor = "recording"
  /\ Catch
  /\ UNCHANGED <<brokerVars, client, response, monitor, runJson, runWritten, strayed>>

\* A mutant: the clients are released while the monitor is still starting.
ReleaseBeforeBaseline ==
  /\ runner = "startMonitor"
  /\ monitor \in {"starting", "recording"}
  /\ Release
  /\ runner' = "awaitSamples"
  /\ phase' = "RELEASED"
  /\ UNCHANGED <<client, response, jmeter, monitor, runJson, runWritten, strayed>>

\* The monitor has its baseline: the clients are released in the same step.
ReleaseClients ==
  /\ runner = "startMonitor"
  /\ monitor = "recording"
  /\ Release
  /\ runner' = "awaitSamples"
  /\ phase' = "RELEASED"
  /\ UNCHANGED <<client, response, jmeter, monitor, runJson, runWritten, strayed>>

\* The monitor answered ERROR, or exited without an answer.
MonitorFails ==
  /\ runner \in {"startMonitor", "stopMonitor"}
  /\ monitor \in {"refused", "dead"}
  /\ Catch
  /\ UNCHANGED <<brokerVars, client, response, monitor, runJson, runWritten, strayed>>

(* Every response is in: the monitor is told to stop.  Sending to a child  *)
(* that has died raises an error event nobody listens to, which ends the   *)
(* runner: no catch block runs.                                            *)
StopMonitor ==
  /\ runner = "awaitSamples"
  /\ signals["allSamplesEnded"] = "resolved"
  /\ phase' = "RESPONSES_COMPLETE"
  /\ IF monitor = "dead"
     THEN runner' = "crashed" /\ monitor' = monitor
     ELSE runner' = "stopMonitor" /\ monitor' = "stopping"
  /\ UNCHANGED <<brokerVars, client, response, jmeter, runJson, runWritten, strayed>>

\* The monitor is stopped; only now are the responses judged and the codes sent.
JudgeResponses ==
  /\ runner = "stopMonitor"
  /\ monitor = "stopped"
  /\ ResolveSemantics(response)
  /\ runner' = "awaitJmeter"
  /\ phase' = "VALIDATING"
  /\ monitor' = "absent"
  /\ UNCHANGED <<client, response, jmeter, runJson, runWritten, strayed>>

\* A mutant: the JTL is not looked at.
JtlUnchecked == TRUE

\* validateJtl: one successful sample of every slot.
JtlValid == \A s \in Slots : client[s] = Passed

\* JMeter has exited with 0, and codes, samples and database are as they should.
AcceptJmeter ==
  /\ runner = "awaitJmeter"
  /\ jmeter = "exited"
  /\ \A s \in Slots : semantic[s] = "OK"
  /\ JtlValid
  /\ runner' = "close"
  /\ UNCHANGED <<brokerVars, client, response, jmeter, monitor, phase, runJson,
                 runWritten, strayed>>

\* One of these checks fails, that of the accounts or of Mailpit among them.
RejectJmeter ==
  /\ runner = "awaitJmeter"
  /\ jmeter \in {"exited", "dead"}
  /\ Catch
  /\ UNCHANGED <<brokerVars, client, response, monitor, runJson, runWritten, strayed>>

CloseBroker ==
  /\ runner = "close"
  /\ Abort
  /\ runner' = "write"
  /\ UNCHANGED <<client, response, jmeter, monitor, phase, runJson, runWritten, strayed>>

WriteRun ==
  /\ runner = "write"
  /\ runner' = "rescan"
  /\ runJson' = "VALID"
  /\ UNCHANGED <<brokerVars, client, response, jmeter, monitor, phase, runWritten, strayed>>

Rescan ==
  /\ runner = "rescan"
  /\ runner' = "seal"
  /\ runWritten' = TRUE
  /\ UNCHANGED <<brokerVars, client, response, jmeter, monitor, phase, runJson, strayed>>

Seal ==
  /\ runner = "seal"
  /\ runner' = "returned"
  /\ phase' = "VALID"
  /\ UNCHANGED <<brokerVars, client, response, jmeter, monitor, runJson, runWritten, strayed>>

(* A file cannot be written, a scan finds a secret (and removes its file,  *)
(* which may be run.json) or the directory cannot be sealed.               *)
ArtifactFails ==
  /\ runner \in {"write", "rescan", "seal"}
  /\ Catch
  /\ runJson' \in {runJson, "absent"}
  /\ UNCHANGED <<brokerVars, client, response, monitor, runWritten, strayed>>

-----------------------------------------------------------------------------
ClientStep(s) ==
  \/ FetchPackage(s) \/ ReportReady(s) \/ LearnRelease(s) \/ Stray(s)
  \/ Sample(s) \/ ReportSample(s) \/ LearnCode(s)
  \/ NoPackage(s) \/ SampleFails(s) \/ Stopped(s)

RunnerStep ==
  \/ Prepare \/ PrepareFails \/ WaitFails \/ TooLate
  \/ StartMonitor \/ ReleaseClients \/ MonitorFails
  \/ StopMonitor \/ JudgeResponses \/ AcceptJmeter \/ RejectJmeter
  \/ CloseBroker \/ WriteRun \/ Rescan \/ Seal \/ ArtifactFails
  \/ CleanUp \/ Record

Next ==
  \/ \E s \in Slots : ClientStep(s)
  \/ JmeterExits \/ JmeterDies
  \/ TakeBaseline \/ TakeFinalSample \/ MonitorDies
  \/ RunnerStep

Spec == Init /\ [][Next]_vars

(* Every call of a thread has a timeout, so a thread always moves on;      *)
(* JMeter exits when its threads have ended; the monitor answers a message *)
(* in one synchronous handler; every await of the runner is on one of      *)
(* these, on a timer, or on the disk.                                      *)
LiveSpec ==
  /\ Spec
  /\ \A s \in Slots : WF_vars(ClientStep(s))
  /\ WF_vars(JmeterExits)
  /\ WF_vars(TakeBaseline \/ TakeFinalSample)
  /\ WF_vars(RunnerStep)

-----------------------------------------------------------------------------
(* Properties                                                              *)

Beyond(s) == client[s] \in {"released", "sampled", "reporting", Passed}

\* No thread goes to its request before every package has been fetched and every
\* client is ready, whatever fails or times out at the same moment, but for one that
\* went on after its own call to the broker had failed; and even its response is not
\* taken before.
NobodyEarly ==
  \A s \in Slots :
    (Beyond(s) /\ s \notin strayed) \/ client[s] \in {"reporting", Passed} =>
      /\ released
      /\ readySlots = Slots
      /\ taken = Slots

\* A client is told a code only when no client is still to send its request and
\* the monitor is stopped: the work of judging is never part of the measurement.
JudgedAfterTheWindow ==
  (\E s \in Slots : semantic[s] \in Codes) =>
    /\ \A s \in Slots : response[s] # "none"
    /\ monitor = "absent"

\* A run.json that says VALID is true of the burst even if the burst was
\* invalidated while it was sealed: every client got the response it should and
\* was told so.
ValidRunEarned ==
  runJson = "VALID" => \A s \in Slots : client[s] = Passed /\ response[s] = "OK"

\* What is kept of a burst agrees with how it ended: runBurst returns only with a
\* run.json that is VALID, and a run.json that is INVALID belongs to a burst that
\* threw.
RecordAgrees ==
  /\ phase = "VALID" => runner = "returned" /\ runJson = "VALID"
  /\ runner = "returned" => phase = "VALID"
  /\ runJson = "INVALID" => runner = "threw" /\ phase = "INVALID"

\* Whoever waits on an aborted broker is told that it was aborted.
NobodyLeftWaiting ==
  aborted => \A s \in Slots : /\ client[s] = "reporting" => semantic[s] # "pending"
                              /\ client[s] = "polling" =>
                                   signals["releaseSignal"] # "pending"

\* A burst ends, with its threads, whatever fails, exits or dies on the way.
BurstEnds == <>[](runner \in Ended /\ \A s \in Slots :
                    jmeter = "off" \/ client[s] \in {Passed, Failed})

-----------------------------------------------------------------------------
(* The burst as CertifiedBurst sees it: once the monitor has failed the    *)
(* burst can only be rejected.                                             *)

StageSeen ==
  IF phase = "VALID" THEN "certified"
  ELSE IF phase = "INVALID" \/ runner = "crashed" \/ monitor \in {"refused", "dead"}
  THEN "rejected"
  ELSE IF phase \in {"PREPARATION", "READY"} THEN "before"
  ELSE IF phase \in {"RELEASED", "RESPONSES_COMPLETE"} /\ monitor # "stopped"
  THEN "open"
  ELSE "closed"

FiredSeen == {s \in Slots : response[s] # "none"}
PassedSeen == {s \in Slots : client[s] = Passed}

Certified == INSTANCE CertifiedBurst WITH
  stage <- StageSeen, stray <- strayed, fired <- FiredSeen, passed <- PassedSeen

\* The burst implements CertifiedBurst: the requests fall into one window of
\* monitoring, but for those of clients whose calls to the broker failed, which may
\* come before it and never after; only a burst whose clients all passed is certified.
ImplementsCertifiedBurst == Certified!Spec
=============================================================================
