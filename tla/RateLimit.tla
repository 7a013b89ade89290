------------------------------ MODULE RateLimit ------------------------------
(***************************************************************************)
(* What the pre-authentication gate promises about rates: an ideal limiter *)
(* with one token bucket for every address there is, which it remembers    *)
(* for ever.  The gate (PreAuthGate) has a table of bounded size and       *)
(* forgets idle addresses, and is shown to implement this.                 *)
(***************************************************************************)
EXTENDS Integers

CONSTANTS
    Sources,   \* addresses a packet can come from
    Rate,      \* allowance gained per unit of time
    Burst,     \* most allowance a source can save up
    Cost       \* allowance one packet takes

VARIABLES
    level,     \* per source, the allowance it has
    answer     \* the packet this step answered: its source and the verdict

vars == <<level, answer>>

Least(a, b) == IF a < b THEN a ELSE b

\* Verdicts reached after the limiter let the packet through, and before it.
Charged == {"passed", "malformed"}
Unmetered == {"acl", "oversize", "source_table_full"}

NoAnswer == [source |-> "none", verdict |-> "none"]

Init ==
    /\ level = [s \in Sources |-> Burst]
    /\ answer = NoAnswer

\* Every source earns Rate, up to Burst.
Tick ==
    /\ level' = [s \in Sources |-> Least(Burst, level[s] + Rate)]
    /\ answer' = NoAnswer

\* A step that is about no packet changes no allowance.
Rest ==
    /\ answer' = NoAnswer
    /\ UNCHANGED level

\* A packet that goes on pays for itself.
Admit(s) ==
    /\ level[s] >= Cost
    /\ level' = [level EXCEPT ![s] = @ - Cost]
    /\ \E v \in Charged : answer' = [source |-> s, verdict |-> v]

\* A packet is refused for its rate only when its own source cannot pay.
Refuse(s) ==
    /\ level[s] < Cost
    /\ answer' = [source |-> s, verdict |-> "rate_limit"]
    /\ UNCHANGED level

\* A packet turned away for another reason costs nothing.
TurnAway(s) ==
    /\ \E v \in Unmetered : answer' = [source |-> s, verdict |-> v]
    /\ UNCHANGED level

Next == Tick \/ Rest \/ \E s \in Sources : Admit(s) \/ Refuse(s) \/ TurnAway(s)

Spec == Init /\ [][Next]_vars
==============================================================================
