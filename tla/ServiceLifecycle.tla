--------------------------- MODULE ServiceLifecycle ---------------------------
(***************************************************************************)
(* The Windows service (deploy/jt_agent.py, JTSnmpdService and run_agent). *)
(* Three threads share stop_event and two auto-reset events: the main      *)
(* thread waits in SvcDoRun, the agent thread runs run_agent, and the      *)
(* service control handler runs SvcStop.  The service control manager      *)
(* restarts a service that reports a non-zero exit code, as the installer  *)
(* configures it.                                                          *)
(***************************************************************************)
EXTENDS Naturals

CONSTANTS
    MaxFailures, \* bound: times the agent fails to start
    MaxStops     \* bound: times the operator stops the service

ASSUME BoundAssumption == MaxFailures \in Nat /\ MaxStops \in Nat

VARIABLES
    scm,        \* the state the service control manager shows
    exit,       \* the exit code last reported to it
    main,       \* SvcDoRun: waiting, woken by hdead, exiting, or off
    agent,      \* run_agent, and "gone" once its finally has run
    cause,      \* what ended the agent thread
    handler,    \* how far SvcStop is
    stopEvent,  \* stop_event
    hstop,      \* hstop is signalled
    hdead,      \* hdead is signalled
    failures,   \* how much of MaxFailures is used up
    stops       \* how much of MaxStops is used up

threads == <<main, agent, cause, handler>>
events == <<stopEvent, hstop, hdead>>
bounds == <<failures, stops>>
vars == <<scm, exit, threads, events, bounds>>

ERROR_EXCEPTION_IN_SERVICE == 1064

Init ==
    /\ scm = "stopped" /\ exit = 0
    /\ main = "off" /\ agent = "off" /\ cause = "none" /\ handler = "idle"
    /\ stopEvent = FALSE /\ hstop = FALSE /\ hdead = FALSE
    /\ failures = 0 /\ stops = 0

-----------------------------------------------------------------------------
(* The service control manager *)

\* A new process: __init__ creates the events, SvcDoRun starts the agent
\* thread and waits.
Launch ==
    /\ scm = "stopped" /\ scm' = "running"
    /\ main' = "waiting" /\ agent' = "starting" /\ cause' = "none"
    /\ handler' = "idle"
    /\ stopEvent' = FALSE /\ hstop' = FALSE /\ hdead' = FALSE
    /\ UNCHANGED bounds

\* An operator or the boot starts the service; exit keeps the last code.
Start == Launch /\ UNCHANGED exit

\* sc failure ... restart/60000, failureflag 1: the recovery action.
Recover == exit # 0 /\ Launch /\ exit' = 0

\* The process ends with the code, whatever its other threads are doing.
Stopped(code) ==
    /\ scm' = "stopped" /\ exit' = code
    /\ main' = "off" /\ agent' = "off"
    /\ UNCHANGED <<cause, handler, events, bounds>>

-----------------------------------------------------------------------------
(* SvcStop, on the control handler's thread: three steps *)

\* ReportServiceStatus(SERVICE_STOP_PENDING)
StopPending ==
    /\ scm = "running" /\ handler = "idle" /\ stops < MaxStops
    /\ scm' = "stopping" /\ handler' = "reported" /\ stops' = stops + 1
    /\ UNCHANGED <<exit, main, agent, cause, events, failures>>

\* stop_event.set()
SetStopEvent ==
    /\ main # "off" /\ handler = "reported"
    /\ stopEvent' = TRUE /\ handler' = "flagged"
    /\ UNCHANGED <<scm, exit, main, agent, cause, hstop, hdead, bounds>>

\* SetEvent(hstop)
SignalStop ==
    /\ main # "off" /\ handler = "flagged"
    /\ hstop' = TRUE /\ handler' = "done"
    /\ UNCHANGED <<scm, exit, main, agent, cause, stopEvent, hdead, bounds>>

-----------------------------------------------------------------------------
(* run_agent, on the agent thread *)

AgentStep == UNCHANGED <<scm, exit, main, handler, events, bounds>>

\* The first snapshot is built, the transport bound, the users registered.
Listen ==
    /\ agent = "starting" /\ agent' = "looping"
    /\ UNCHANGED cause /\ AgentStep

\* No community, v3_only without a user (both SystemExit), or an exception.
FailToStart ==
    /\ agent = "starting" /\ failures < MaxFailures
    /\ agent' = "ended" /\ cause' = "failure" /\ failures' = failures + 1
    /\ UNCHANGED <<scm, exit, main, handler, events, stops>>

\* while not stop_event.is_set(): sleep, and otherwise leave main_co.
Sleep ==
    /\ agent = "looping" /\ ~stopEvent
    /\ agent' = "asleep"
    /\ UNCHANGED cause /\ AgentStep

SeeStop ==
    /\ agent = "looping" /\ stopEvent
    /\ agent' = "ended" /\ cause' = "stop"
    /\ AgentStep

\* The build on the executor thread, awaited; it may block.
StartBuild ==
    /\ agent = "asleep" /\ agent' = "building"
    /\ UNCHANGED cause /\ AgentStep

\* The snapshot is swapped or the failure counted.
EndBuild ==
    /\ agent = "building" /\ agent' = "looping"
    /\ UNCHANGED cause /\ AgentStep

\* Mutation of SignalDeath: not in a finally, so only a normal return does it.
SignalDeathOnReturn ==
    /\ agent = "ended" /\ agent' = "gone"
    /\ hdead' = (cause = "stop")
    /\ UNCHANGED <<scm, exit, main, cause, handler, stopEvent, hstop, bounds>>

\* _worker's finally: SetEvent(hdead).
SignalDeath ==
    /\ agent = "ended" /\ agent' = "gone"
    /\ hdead' = TRUE
    /\ UNCHANGED <<scm, exit, main, cause, handler, stopEvent, hstop, bounds>>

-----------------------------------------------------------------------------
(* SvcDoRun, on the main thread *)

\* Mutation of WakeForStop: only the end of the agent ends the service.
WakeForStopOnceAgentGone ==
    /\ main = "waiting" /\ hstop /\ agent = "gone"
    /\ main' = "leaving" /\ hstop' = FALSE
    /\ UNCHANGED <<scm, exit, agent, cause, handler, stopEvent, hdead, bounds>>

\* WaitForMultipleObjects returns the lowest signalled index and resets it.
WakeForStop ==
    /\ main = "waiting" /\ hstop
    /\ main' = "leaving" /\ hstop' = FALSE
    /\ UNCHANGED <<scm, exit, agent, cause, handler, stopEvent, hdead, bounds>>

WakeForDeath ==
    /\ main = "waiting" /\ hdead /\ ~hstop
    /\ main' = "woken" /\ hdead' = FALSE
    /\ UNCHANGED <<scm, exit, agent, cause, handler, stopEvent, hstop, bounds>>

\* Mutation of CheckStop: any end of the agent counts as unexpected.
CheckStopNever ==
    /\ main = "woken" /\ main' = "crashing"
    /\ UNCHANGED <<scm, exit, agent, cause, handler, events, bounds>>

\* and not self.stop_event.is_set()
CheckStop ==
    /\ main = "woken"
    /\ main' = IF stopEvent THEN "leaving" ELSE "crashing"
    /\ UNCHANGED <<scm, exit, agent, cause, handler, events, bounds>>

\* SvcDoRun returns and the service reports STOPPED without an error.
Leave == main = "leaving" /\ Stopped(0)

\* Mutation of Crash: the thread just returns, as if it had been stopped.
CrashQuietly == main = "crashing" /\ Stopped(0)

\* Mutation of Crash: the status is not reported, and os._exit(1) is all.
CrashUnreported == main = "crashing" /\ Stopped(1)

\* ReportServiceStatus(SERVICE_STOPPED, 1064) and os._exit(1).
Crash == main = "crashing" /\ Stopped(ERROR_EXCEPTION_IN_SERVICE)

-----------------------------------------------------------------------------
SvcStop == StopPending \/ SetStopEvent \/ SignalStop

RunAgent ==
    \/ Listen \/ FailToStart \/ Sleep \/ SeeStop
    \/ StartBuild \/ EndBuild \/ SignalDeath

SvcDoRun == WakeForStop \/ WakeForDeath \/ CheckStop \/ Leave \/ Crash

Next == Start \/ Recover \/ SvcStop \/ RunAgent \/ SvcDoRun

\* The threads are scheduled, and the manager runs the recovery action it was
\* given.  Nothing is assumed of a start or a build: either may block for ever.
Fairness ==
    /\ WF_vars(SetStopEvent) /\ WF_vars(SignalStop)
    /\ WF_vars(SignalDeath) /\ WF_vars(SvcDoRun)
    /\ WF_vars(Recover)

Spec == Init /\ [][Next]_vars /\ Fairness

-----------------------------------------------------------------------------
(* Properties *)

TypeOK ==
    /\ scm \in {"stopped", "running", "stopping"}
    /\ exit \in {0, ERROR_EXCEPTION_IN_SERVICE}
    /\ main \in {"off", "waiting", "woken", "leaving", "crashing"}
    /\ agent \in {"off", "starting", "looping", "asleep", "building",
                  "ended", "gone"}
    /\ cause \in {"none", "failure", "stop"}
    /\ handler \in {"idle", "reported", "flagged", "done"}
    /\ stopEvent \in BOOLEAN /\ hstop \in BOOLEAN /\ hdead \in BOOLEAN
    /\ failures \in Nat /\ stops \in Nat

\* A stop never looks like a crash to the service control manager, so that
\* recovery does not undo it: the agent may see the stop and end, and the main
\* thread wake up for that, before SvcStop has signalled hstop.
StopIsNoCrash ==
    [][exit' = ERROR_EXCEPTION_IN_SERVICE /\ exit # exit'
           => cause = "failure"]_vars

\* "Alive but dead": the service does not stay Running without its agent.
NeverAliveButDead == agent = "ended" ~> scm = "stopped"

\* A stop ends the service even while the agent is blocked in a build.
StopEndsService == handler # "idle" ~> scm = "stopped"

\* An agent that died is started again, unless the operator stops the service.
DeathIsRecovered ==
    cause = "failure" ~> agent = "starting" \/ handler # "idle"
===============================================================================
