------------------------ MODULE ServiceLifecycleProofs ------------------------
(***************************************************************************)
(* Proofs about ServiceLifecycle: its types, and that a stop is never      *)
(* reported as a crash.  The second needs to know why the main thread can  *)
(* be on its way to report one: hdead is only ever signalled by an agent   *)
(* thread that is over, and one that ended for the stop had seen           *)
(* stop_event set, which stays set.                                        *)
(***************************************************************************)
EXTENDS ServiceLifecycle, TLAPS

\* The agent thread that is over has a cause, and "stop" only after the flag.
CauseInv ==
    /\ cause = "stop" => stopEvent
    /\ agent \in {"ended", "gone"} => cause # "none"

\* What the main thread knows when hdead wakes it.
WokenInv ==
    /\ main # "off" /\ hdead => agent = "gone"
    /\ main \in {"woken", "crashing"} => agent = "gone"
    /\ main = "crashing" => cause = "failure"

IInv == TypeOK /\ CauseInv /\ WokenInv

\* The invariant holds before the service was ever started.
LEMMA InitIInv == Init => IInv
<1> SUFFICES ASSUME Init PROVE IInv
    OBVIOUS
<1>1. TypeOK
      BY DEF Init, TypeOK, ERROR_EXCEPTION_IN_SERVICE
<1>2. CauseInv /\ WokenInv
      BY DEF Init, CauseInv, WokenInv
<1>3. QED
      BY <1>1, <1>2 DEF IInv

\* Every step of the service, of its manager and of the operator keeps it.
LEMMA NextIInv == IInv /\ [Next]_vars => IInv'
<1> SUFFICES ASSUME IInv, [Next]_vars PROVE IInv'
    OBVIOUS
<1> USE DEF IInv, TypeOK, CauseInv, WokenInv, ERROR_EXCEPTION_IN_SERVICE
<1>1. CASE Start
      BY <1>1 DEF Start, Launch, bounds
<1>2. CASE Recover
      BY <1>2 DEF Recover, Launch, bounds
<1>3. CASE StopPending
      BY <1>3 DEF StopPending, events
<1>4. CASE SetStopEvent
      BY <1>4 DEF SetStopEvent, bounds
<1>5. CASE SignalStop
      BY <1>5 DEF SignalStop, bounds
<1>6. CASE Listen \/ Sleep \/ StartBuild \/ EndBuild
      BY <1>6 DEF Listen, Sleep, StartBuild, EndBuild, AgentStep, events, bounds
<1>7. CASE FailToStart
      BY <1>7 DEF FailToStart, events
<1>8. CASE SeeStop
  <2>1. /\ agent = "looping" /\ stopEvent /\ agent' = "ended"
        /\ cause' = "stop"
        /\ UNCHANGED <<scm, exit, main, handler, stopEvent, hstop, hdead,
                       failures, stops>>
        BY <1>8 DEF SeeStop, AgentStep, events, bounds
  <2>2. TypeOK'
        BY <2>1
  <2>3. CauseInv'
        BY <2>1, Zenon
  <2>4. WokenInv'
        BY <2>1
  <2>5. QED
        BY <2>2, <2>3, <2>4
<1>9. CASE SignalDeath
      BY <1>9 DEF SignalDeath, bounds
<1>10. CASE WakeForStop
  <2>1. /\ main = "waiting" /\ main' = "leaving" /\ hstop' = FALSE
        /\ UNCHANGED <<scm, exit, agent, cause, handler, stopEvent, hdead,
                       failures, stops>>
        BY <1>10 DEF WakeForStop, bounds
  <2>2. TypeOK'
    <3>1. stopEvent' \in BOOLEAN /\ hstop' \in BOOLEAN /\ hdead' \in BOOLEAN
          BY <2>1, Zenon
    <3>2. QED
          BY <2>1, <3>1
  <2>3. CauseInv'
        BY <2>1, Zenon
  <2>4. WokenInv'
        BY <2>1, Zenon
  <2>5. QED
        BY <2>2, <2>3, <2>4
<1>11. CASE WakeForDeath
  <2>1. /\ main = "waiting" /\ hdead /\ main' = "woken" /\ hdead' = FALSE
        /\ UNCHANGED <<scm, exit, agent, cause, handler, stopEvent, hstop,
                       failures, stops>>
        BY <1>11 DEF WakeForDeath, bounds
  <2>2. agent = "gone"
        BY <2>1, Zenon
  <2>3. TypeOK'
    <3>1. stopEvent' \in BOOLEAN /\ hstop' \in BOOLEAN /\ hdead' \in BOOLEAN
          BY <2>1, Zenon
    <3>2. QED
          BY <2>1, <3>1
  <2>4. CauseInv'
        BY <2>1, Zenon
  <2>5. WokenInv'
        BY <2>1, <2>2
  <2>6. QED
        BY <2>3, <2>4, <2>5
<1>12. CASE CheckStop
      BY <1>12 DEF CheckStop, events, bounds
<1>13. CASE Leave \/ Crash
      BY <1>13 DEF Leave, Crash, Stopped, events, bounds
<1>14. CASE UNCHANGED vars
      BY <1>14 DEF vars, threads, events, bounds
<1>15. QED
      BY <1>1, <1>2, <1>3, <1>4, <1>5, <1>6, <1>7, <1>8, <1>9, <1>10, <1>11,
         <1>12, <1>13, <1>14
      DEF Next, SvcStop, RunAgent, SvcDoRun

\* The invariant of the whole specification, which the theorems follow from.
LEMMA Inductive == Spec => []IInv
<1>1. QED
      BY InitIInv, NextIInv, PTL DEF Spec

\* The variables keep their types, for any bounds.
THEOREM TypeCorrect == Spec => []TypeOK
<1>1. IInv => TypeOK
      BY DEF IInv
<1>2. QED
      BY <1>1, Inductive, PTL

\* Error 1064 is only ever reported for an agent that failed by itself, so the
\* recovery actions never undo a stop that the agent obeyed.
THEOREM StopNotUndone == Spec => StopIsNoCrash
<1> DEFINE Step == exit' = ERROR_EXCEPTION_IN_SERVICE /\ exit # exit'
                       => cause = "failure"
<1>1. IInv /\ [Next]_vars => Step
  <2> SUFFICES ASSUME IInv, [Next]_vars, exit # exit',
                      exit' = ERROR_EXCEPTION_IN_SERVICE
               PROVE  cause = "failure"
      OBVIOUS
  <2>1. Crash \/ Recover \/ Leave
      BY DEF Next, SvcStop, RunAgent, SvcDoRun, Start, StopPending,
             SetStopEvent, SignalStop, Listen, FailToStart, Sleep, SeeStop,
             StartBuild, EndBuild, SignalDeath, AgentStep, WakeForStop,
             WakeForDeath, CheckStop, vars
  <2>2. CASE Crash
      BY <2>2 DEF Crash, IInv, WokenInv
  <2>3. QED
      BY <2>1, <2>2 DEF Recover, Leave, Stopped, ERROR_EXCEPTION_IN_SERVICE
<1>2. IInv /\ [Next]_vars => [Step]_vars
      BY <1>1
<1>3. QED
      BY <1>2, Inductive, PTL DEF Spec, StopIsNoCrash
===============================================================================
