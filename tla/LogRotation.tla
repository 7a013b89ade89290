----------------------------- MODULE LogRotation ------------------------------
(***************************************************************************)
(* The log file and its rotation (deploy/jt_agent.py: log, _rotate_log).   *)
(* The threads of the service and the commands beside it all append to one *)
(* file, and whoever finds it too long rotates it, with no lock between    *)
(* them.  A line is its number, a file the lines in it.  As on Windows, a  *)
(* file that anyone has open can be written and truncated, but not renamed *)
(* or removed.                                                             *)
(***************************************************************************)
EXTENDS Integers, Sequences, FiniteSets

CONSTANTS
    Writers,        \* the threads and processes that log
    None,           \* a file that is not there, nothing held
    LOG_MAX,        \* LOG_MAX_BYTES, in lines
    LOG_KEEP,       \* jt-snmpd.log.1 to .LOG_KEEP
    MaxLines,       \* bound on the lines
    MaxFaults       \* bound on crashes and on truncations that fail

ASSUME LogAssumption ==
    /\ IsFiniteSet(Writers)
    /\ LOG_MAX \in Nat \ {0}
    /\ LOG_KEEP \in Nat \ {0}

\* A file that is not there is not one without lines.
ASSUME NoneAssumption == None \notin Seq(Nat)

VARIABLES
    file,       \* file[0]: jt-snmpd.log, file[n]: jt-snmpd.log.n
    pc,         \* what each writer does next
    slot,       \* the file its rotation has come to
    held,       \* the file antivirus or a backup has open
    line,       \* the last line
    faults,     \* writers that died, truncations that failed
    trouble     \* a rotation failed, or was not alone

vars == <<file, pc, slot, held, line, faults, trouble>>

Slots == 0..LOG_KEEP

Rotating == {w \in Writers : pc[w] \in {"look", "move", "truncate"}}

Busy(n) ==
    \/ held = n
    \/ n = 0 /\ \E w \in Writers : pc[w] \in {"open", "written"}

Init ==
    /\ file = [n \in Slots |-> None]
    /\ pc = [w \in Writers |-> "idle"]
    /\ slot = [w \in Writers |-> 0]
    /\ held = None
    /\ line = 0 /\ faults = 0 /\ trouble = FALSE

-----------------------------------------------------------------------------
(* log *)

Content(n) == IF file[n] = None THEN <<>> ELSE file[n]

Open(w) ==
    /\ pc[w] = "idle"
    /\ pc' = [pc EXCEPT ![w] = "open"]
    /\ file' = [file EXCEPT ![0] = Content(0)]
    /\ UNCHANGED <<slot, held, line, faults, trouble>>

Write(w) ==
    /\ pc[w] = "open"
    /\ line < MaxLines
    /\ line' = line + 1
    /\ file' = [file EXCEPT ![0] = Append(Content(0), line + 1)]
    /\ slot' = [slot EXCEPT ![w] = Len(Content(0)) + 1]
    /\ pc' = [pc EXCEPT ![w] = "written"]
    /\ UNCHANGED <<held, faults, trouble>>

\* The end of the with block; the size is the one tell() returned before.
Close(w) ==
    /\ pc[w] = "written"
    /\ IF slot[w] > LOG_MAX
       THEN /\ pc' = [pc EXCEPT ![w] = "look"]
            /\ slot' = [slot EXCEPT ![w] = LOG_KEEP]
            /\ trouble' = (trouble \/ Rotating # {})
       ELSE /\ pc' = [pc EXCEPT ![w] = "idle"]
            /\ slot' = [slot EXCEPT ![w] = 0]
            /\ UNCHANGED trouble
    /\ UNCHANGED <<file, held, line, faults>>

-----------------------------------------------------------------------------
(* _rotate_log: from .LOG_KEEP, which is removed, down to the log itself *)

\* The log itself is not looked for.
Look(w) ==
    /\ pc[w] = "look"
    /\ IF slot[w] = 0 \/ file[slot[w]] # None
       THEN pc' = [pc EXCEPT ![w] = "move"] /\ UNCHANGED slot
       ELSE slot' = [slot EXCEPT ![w] = @ - 1] /\ UNCHANGED pc
    /\ UNCHANGED <<file, held, line, faults, trouble>>

\* What os.remove and os.replace need: the file, and no one who has it open or
\* the one it replaces.
Movable(n) ==
    /\ file[n] # None /\ ~Busy(n)
    /\ n < LOG_KEEP => ~(Busy(n + 1) /\ file[n + 1] # None)

\* Mutation of Moved: a file replaces the oldest one.
MovedToOldest(n) == [file EXCEPT ![LOG_KEEP] = file[n], ![n] = None]

\* The oldest file is removed, another one replaces the next.
Moved(n) ==
    IF n = LOG_KEEP THEN [file EXCEPT ![n] = None]
    ELSE [file EXCEPT ![n + 1] = file[n], ![n] = None]

Move(w) ==
    /\ pc[w] = "move"
    /\ IF Movable(slot[w])
       THEN /\ file' = Moved(slot[w])
            /\ pc' = [pc EXCEPT ![w] = IF slot[w] = 0 THEN "idle" ELSE "look"]
            /\ slot' = [slot EXCEPT ![w] = IF slot[w] = 0 THEN 0 ELSE @ - 1]
            /\ UNCHANGED trouble
       ELSE /\ pc' = [pc EXCEPT ![w] = "truncate"]
            /\ trouble' = TRUE
            /\ UNCHANGED <<file, slot>>
    /\ UNCHANGED <<held, line, faults>>

\* Mutation of Truncate: the log is left to grow.
TruncateNever(w) ==
    /\ pc[w] = "truncate"
    /\ pc' = [pc EXCEPT ![w] = "idle"]
    /\ slot' = [slot EXCEPT ![w] = 0]
    /\ UNCHANGED <<file, held, line, faults, trouble>>

\* One line says why; there may be no room for it, or no access.
Truncate(w) ==
    /\ pc[w] = "truncate"
    /\ \/ /\ line < MaxLines
          /\ line' = line + 1
          /\ file' = [file EXCEPT ![0] = <<line + 1>>]
          /\ UNCHANGED faults
       \/ /\ faults < MaxFaults
          /\ faults' = faults + 1
          /\ UNCHANGED <<file, line>>
    /\ pc' = [pc EXCEPT ![w] = "idle"]
    /\ slot' = [slot EXCEPT ![w] = 0]
    /\ UNCHANGED <<held, trouble>>

-----------------------------------------------------------------------------
(* Others *)

Hold(n) ==
    /\ held = None /\ file[n] # None
    /\ held' = n
    /\ UNCHANGED <<file, pc, slot, line, faults, trouble>>

Release ==
    /\ held # None
    /\ held' = None
    /\ UNCHANGED <<file, pc, slot, line, faults, trouble>>

\* A process ends wherever it is.
Crash(w) ==
    /\ pc[w] # "idle"
    /\ faults < MaxFaults
    /\ faults' = faults + 1
    /\ trouble' = TRUE
    /\ pc' = [pc EXCEPT ![w] = "idle"]
    /\ slot' = [slot EXCEPT ![w] = 0]
    /\ UNCHANGED <<file, held, line>>

Next ==
    \/ \E w \in Writers :
           Open(w) \/ Write(w) \/ Close(w) \/ Look(w) \/ Move(w) \/ Truncate(w)
           \/ Crash(w)
    \/ \E n \in Slots : Hold(n)
    \/ Release

Spec == Init /\ [][Next]_vars

-----------------------------------------------------------------------------
(* Properties *)

\* Every variable has its type; in particular no rotation runs past the log
\* itself, whatever another one has taken away from under it.
TypeOK ==
    /\ file \in [Slots -> Seq(Nat) \cup {None}]
    /\ pc \in [Writers -> {"idle", "open", "written", "look", "move",
                          "truncate"}]
    /\ slot \in [Writers -> Nat]
    /\ \A w \in Writers : pc[w] \in {"look", "move"} => slot[w] \in Slots
    /\ held \in Slots \cup {None}
    /\ line \in Nat /\ faults \in Nat /\ trouble \in BOOLEAN

\* "A monitoring agent must not be able to fill the disk of the host": no file
\* outgrows its limit by more lines than there are writers and faults, whatever
\* is held open by whom and however many of them rotate at once.
LogBounded ==
    \A n \in Slots :
        Len(Content(n)) <= LOG_MAX + Cardinality(Writers) + faults

\* Every line is older than those behind it and those in a newer file.
InOrder ==
    \A m, n \in Slots : \A j \in DOMAIN Content(m), k \in DOMAIN Content(n) :
        m > n \/ (m = n /\ j < k) => Content(m)[j] < Content(n)[k]

Lines == UNION {{Content(n)[k] : k \in DOMAIN Content(n)} : n \in Slots}

\* An older file holds older lines only, in their order, however many rotate at
\* once; and where a rotation is alone and finds no file open, nothing is lost
\* but the oldest file: the lines that are there are the last ones without a
\* gap, LOG_KEEP files full of them.
RecentKept ==
    /\ InOrder
    /\ ~trouble =>
           /\ Lines = (line - Cardinality(Lines) + 1)..line
           /\ Cardinality(Lines) = line
              \/ Cardinality(Lines) >= LOG_KEEP * (LOG_MAX + 1)
===============================================================================
