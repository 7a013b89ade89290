--------------------------- MODULE EngineIdentity ---------------------------
(***************************************************************************)
(* The SNMPv3 engine identity of jt-snmpd: engine.json, its .bak and .tmp, *)
(* and every process that resolves the identity from them (deploy/         *)
(* jt_agent.py, _machine_guid to _engine_boots).  The service resolves it  *)
(* once per process and publishes engineID and snmpEngineBoots; the `user` *)
(* command line runs the same code in a process of its own.                *)
(*                                                                         *)
(* The environment reboots the machine, kills processes between any two    *)
(* file operations, and, for the kinds listed in Faults, clones the        *)
(* machine, renames it, damages a file, or makes a call fail.  `happened'  *)
(* records which of these a behaviour has met, so that a property can say  *)
(* which of them it survives.                                              *)
(***************************************************************************)
EXTENDS Integers, FiniteSets

CONSTANTS
    Procs,      \* processes that call _engine_state: the service, the CLI
    Service,    \* the process that publishes the identity over SNMP
    Guids,      \* MachineGuid values
    Hosts,      \* host names, the fallback basis of the identity
    BootsMax,   \* ENGINE_BOOTS_MAX, 2^31-1 in the code
    Faults,     \* kinds of environment fault that may happen
    MaxBoot,    \* bound: system boots
    MaxStarts,  \* bound: process starts
    MaxFaults,  \* bound: steps in which a fault happens
    Absent,     \* a file that does not exist
    Damaged,    \* a file that is not a readable JSON object
    None        \* a missing key of the state file, or no state at all

\* What the environment can do, and what the processes can run into by
\* themselves: two of them resolving at once, the counter at its ceiling.
FaultKinds == {"clone", "rename", "guid", "damage", "read", "save", "backup",
               "jitter", "clock"}
EventKinds == FaultKinds \cup {"race", "ceiling"}

ASSUME ServiceAssumption == Service \in Procs
ASSUME FaultsAssumption == Faults \subseteq FaultKinds
ASSUME BoundsAssumption ==
    /\ BootsMax \in Nat \ {0}
    /\ MaxBoot \in Nat /\ MaxStarts \in Nat /\ MaxFaults \in Nat
ASSUME BasisAssumption == Guids # {} /\ Hosts # {} /\ Guids \cap Hosts = {}

VARIABLES
    guid,       \* the machine's MachineGuid
    usedGuids,  \* every MachineGuid this disk image has lived under
    host,       \* the machine's host name
    boot,       \* ordinal of the current system boot
    instant,    \* the wall clock minus the uptime, in units of ten seconds
    main, bak, tmp,  \* engine.json, engine.json.bak, engine.json.tmp
    pc,         \* where each process is inside _engine_state
    basis,      \* the (value, source) pair _machine_guid returned
    key,        \* the boot_key the process computed
    prev,       \* the state _load_engine_state returned
    state,      \* the planned state; _engine_cache once pc is "up"
    last,       \* history: per engineID, what the service last published
    happened,   \* history: the kinds of event so far
    starts, faults   \* how much of the bounds is used up

files == <<main, bak, tmp>>
machine == <<guid, usedGuids, host, boot, instant>>
locals == <<basis, key, prev, state>>
events == <<happened, faults>>
vars == <<machine, files, pc, locals, last, events, starts>>

-----------------------------------------------------------------------------
(* Values *)

Basis == Guids \cup Hosts
Sources == {"machine-guid", "hostname"}

\* The engineID is a header and a digest of the basis.  The digest tells two
\* bases apart and is the same every time it is computed for the same one.
NewEngineId(g) == <<"rfc3411-text", g>>

EngineIds == {NewEngineId(g) : g \in Basis}

\* What engine.json holds.  Schema 1 recorded the boot only: no identity.
State == [guid : Basis \cup {None}, id : EngineIds \cup {None}, key : Nat,
          boots : Nat, source : Sources \cup {None}]

ASSUME NoneAssumption ==
    /\ None \notin Basis /\ None \notin EngineIds /\ None \notin State
    /\ None \notin [value : Basis, source : Sources]
    /\ Absent \notin State /\ Damaged \notin State
    /\ None # Absent /\ None # Damaged /\ Absent # Damaged

Readable(file) == file \notin {Absent, Damaged}

\* Faults ev happen in this step, and the events noted with them.
Happens(ev, noted) ==
    /\ ev \subseteq Faults
    /\ ev # {} => faults < MaxFaults
    /\ faults' = IF ev = {} THEN faults ELSE faults + 1
    /\ happened' = happened \cup ev \cup noted

Goto(p, label) == pc' = [pc EXCEPT ![p] = label]

-----------------------------------------------------------------------------
(* The decision: _plan_engine_state *)

\* Mutation of Foreign: the recorded MachineGuid is not compared.
ForeignNotDetected(s, g) == FALSE

\* Mutation of PlanEngineState: a new boot does not move the counter.
PlanWithoutCounting(s, g, k) ==
    [guid |-> g.value, id |-> NewEngineId(g.value), key |-> k,
     boots |-> IF s = None THEN 1 ELSE s.boots, source |-> g.source]

\* Mutation of PlanEngineState: every start counts as a new boot.
PlanCountsEveryStart(s, g, k) ==
    [guid |-> g.value, id |-> NewEngineId(g.value), key |-> k,
     boots |-> IF s = None THEN 1 ELSE s.boots + 1, source |-> g.source]

HasId(s) == s # None /\ s.id # None
Foreign(s, g) == HasId(s) /\ s.guid # g.value
Saturated(s, g) == HasId(s) /\ s.guid = g.value /\ s.boots >= BootsMax

PlanEngineState(s, g, k) ==
    LET reset == Foreign(s, g) \/ Saturated(s, g)
        counted == IF s = None \/ reset THEN 0 ELSE s.boots
        boots == IF s # None /\ s.key = k THEN counted ELSE counted + 1
        capped == IF boots > BootsMax THEN BootsMax ELSE boots
    IN [guid |-> g.value,
        id |-> IF HasId(s) /\ ~reset THEN s.id ELSE NewEngineId(g.value),
        key |-> k,
        boots |-> IF capped < 1 THEN 1 ELSE capped,
        source |-> g.source]

\* What the except branch of _engine_state caches, without saving it.
VolatileState(g) ==
    [guid |-> g.value, id |-> NewEngineId(g.value), key |-> 0, boots |-> 1,
     source |-> g.source]

\* _machine_guid: the registry value, or the host name when the read fails.
MachineGuid(ev) ==
    IF "guid" \in ev THEN [value |-> host, source |-> "hostname"]
                     ELSE [value |-> guid, source |-> "machine-guid"]

\* The boot instant in units of ten seconds, as the wall clock and the uptime
\* of this moment give it.  Two samples taken in one boot differ when the
\* instant lies at the edge of a unit, or when the clock is set in between.
BootKey(ev) == instant + (IF "jitter" \in ev THEN 1 ELSE 0)

\* The values the agent publishes from here on: build_snapshot and SnmpEngine
\* read them from the cache.
Publish(p, s) ==
    last' = IF p = Service
            THEN [last EXCEPT ![s.id] = [boot |-> boot, boots |-> s.boots]]
            ELSE last

-----------------------------------------------------------------------------
Init ==
    /\ guid \in Guids /\ usedGuids = {guid}
    /\ host \in Hosts
    /\ boot = 1 /\ instant = 2
    /\ main \in {Absent, [guid |-> None, id |-> None, key |-> 0, boots |-> 1,
                          source |-> None]}
    /\ bak = Absent /\ tmp = Absent
    /\ pc = [p \in Procs |-> "down"]
    /\ basis = [p \in Procs |-> None]
    /\ key = [p \in Procs |-> 0]
    /\ prev = [p \in Procs |-> None]
    /\ state = [p \in Procs |-> None]
    /\ last = [i \in EngineIds |-> [boot |-> 0, boots |-> 0]]
    /\ happened = {} /\ faults = 0 /\ starts = 0

-----------------------------------------------------------------------------
(* A process resolving the identity: _engine_state *)

\* The process is inside _engine_state.
Resolving(p) == pc[p] \notin {"down", "up"}

\* Process start: read MachineGuid, then compute boot_key.
Start(p) ==
    /\ pc[p] = "down" /\ starts < MaxStarts
    /\ starts' = starts + 1
    /\ \E ev \in SUBSET {"guid", "jitter"} :
           /\ Happens(ev, IF \E q \in Procs \ {p} : Resolving(q)
                          THEN {"race"} ELSE {})
           /\ basis' = [basis EXCEPT ![p] = MachineGuid(ev)]
           /\ key' = [key EXCEPT ![p] = BootKey(ev)]
    /\ Goto(p, "load")
    /\ UNCHANGED <<machine, files, prev, state, last>>

\* _load_engine_state, first path: a good file is used, unless it cannot be
\* opened or read this once.
LoadMain(p) ==
    /\ pc[p] = "load"
    /\ \/ /\ Readable(main)
          /\ prev' = [prev EXCEPT ![p] = main] /\ Goto(p, "plan")
          /\ UNCHANGED events
       \/ /\ ~Readable(main)
          /\ prev' = prev /\ Goto(p, "loadbak")
          /\ UNCHANGED events
       \/ /\ Readable(main) /\ Happens({"read"}, {})
          /\ prev' = prev /\ Goto(p, "loadbak")
    /\ UNCHANGED <<machine, files, basis, key, state, last, starts>>

\* Mutation of LoadBak: a .bak that cannot be parsed is returned as it is.
LoadBakUnchecked(p) ==
    /\ pc[p] = "loadbak"
    /\ prev' = [prev EXCEPT ![p] = bak]
    /\ Goto(p, "plan")
    /\ UNCHANGED <<machine, files, basis, key, state, last, starts, events>>

\* Mutation of LoadBak: the .bak is kept but never consulted.
LoadBakIgnored(p) ==
    /\ pc[p] = "loadbak"
    /\ prev' = [prev EXCEPT ![p] = None]
    /\ Goto(p, "plan")
    /\ UNCHANGED <<machine, files, basis, key, state, last, starts, events>>

\* _load_engine_state, the .bak, or {} when it is unusable too.
LoadBak(p) ==
    /\ pc[p] = "loadbak"
    /\ \/ /\ prev' = [prev EXCEPT ![p] = IF Readable(bak) THEN bak ELSE None]
          /\ UNCHANGED events
       \/ /\ Readable(bak) /\ Happens({"read"}, {})
          /\ prev' = [prev EXCEPT ![p] = None]
    /\ Goto(p, "plan")
    /\ UNCHANGED <<machine, files, basis, key, state, last, starts>>

\* Plan, and save only when the state differs from what was read.
Plan(p) ==
    LET s == PlanEngineState(prev[p], basis[p], key[p]) IN
    /\ pc[p] = "plan"
    /\ Happens({}, IF Saturated(prev[p], basis[p]) THEN {"ceiling"} ELSE {})
    /\ state' = [state EXCEPT ![p] = s]
    /\ IF s = prev[p]
       THEN Goto(p, "up") /\ Publish(p, s)
       ELSE Goto(p, "open") /\ UNCHANGED last
    /\ UNCHANGED <<machine, files, basis, key, prev, starts>>

\* _save_engine_state: opening the .tmp truncates it ...
OpenTmp(p) ==
    /\ pc[p] = "open"
    /\ tmp' = Damaged
    /\ Goto(p, "write")
    /\ UNCHANGED <<machine, main, bak, locals, last, starts, events>>

\* ... the JSON is written, flushed and the handle closed ...
WriteTmp(p) ==
    /\ pc[p] = "write"
    /\ tmp' = state[p]
    /\ Goto(p, "backup")
    /\ UNCHANGED <<machine, main, bak, locals, last, starts, events>>

\* Mutation of Backup: the old file is removed instead of kept.
BackupRemoves(p) ==
    /\ pc[p] = "backup"
    /\ main' = Absent
    /\ Goto(p, "replace")
    /\ UNCHANGED <<machine, bak, tmp, locals, last, starts, events>>

\* ... an existing engine.json becomes the .bak; a failure is ignored ...
Backup(p) ==
    /\ pc[p] = "backup"
    /\ \/ /\ main # Absent
          /\ bak' = main /\ main' = Absent
          /\ UNCHANGED events
       \/ /\ main = Absent
          /\ UNCHANGED <<main, bak, events>>
       \/ /\ main # Absent /\ Happens({"backup"}, {})
          /\ UNCHANGED <<main, bak>>
    /\ Goto(p, "replace")
    /\ UNCHANGED <<machine, tmp, locals, last, starts>>

\* A file another process holds open for writing cannot be renamed (Windows).
Writing(p) == pc[p] = "write"
CanRename(p) == tmp # Absent /\ \A q \in Procs \ {p} : ~Writing(q)

\* ... and the .tmp becomes engine.json.  Then _engine_cache is set.
Replace(p) ==
    /\ pc[p] = "replace"
    /\ CanRename(p)
    /\ main' = tmp /\ tmp' = Absent
    /\ Goto(p, "up") /\ Publish(p, state[p])
    /\ UNCHANGED <<machine, bak, locals, starts, events>>

\* An OSError anywhere in the save: the except branch reads MachineGuid again
\* and caches a volatile identity.
SaveFails(p) ==
    /\ \E ev \in SUBSET {"save", "guid"} :
           /\ \/ pc[p] = "replace" /\ (CanRename(p) <=> "save" \in ev)
              \/ pc[p] \in {"open", "write"} /\ "save" \in ev
           /\ Happens(ev, {})
           /\ basis' = [basis EXCEPT ![p] = MachineGuid(ev)]
           /\ state' = [state EXCEPT ![p] = VolatileState(MachineGuid(ev))]
           /\ Publish(p, VolatileState(MachineGuid(ev)))
    /\ Goto(p, "up")
    /\ UNCHANGED <<machine, files, key, prev, starts>>

-----------------------------------------------------------------------------
(* The environment *)

Forget(ps) ==
    /\ pc' = [p \in Procs |-> IF p \in ps THEN "down" ELSE pc[p]]
    /\ basis' = [p \in Procs |-> IF p \in ps THEN None ELSE basis[p]]
    /\ key' = [p \in Procs |-> IF p \in ps THEN 0 ELSE key[p]]
    /\ prev' = [p \in Procs |-> IF p \in ps THEN None ELSE prev[p]]
    /\ state' = [p \in Procs |-> IF p \in ps THEN None ELSE state[p]]

\* The process ends: service stop, crash, or the CLI command is done.
Exit(p) ==
    /\ pc[p] # "down"
    /\ Forget({p})
    /\ UNCHANGED <<machine, files, last, starts, events>>

\* The next system boot.  Two boots are more than twenty seconds apart on a
\* clock that nobody sets.
NextBoot ==
    /\ boot < MaxBoot
    /\ boot' = boot + 1 /\ instant' = instant + 2

\* Restart or power loss, with a process possibly in the middle of a save.
Reboot ==
    /\ NextBoot
    /\ Forget(Procs)
    /\ UNCHANGED <<guid, usedGuids, host, files, last, starts, events>>

\* The disk image comes up as a machine with a MachineGuid of its own.
Clone ==
    /\ Happens({"clone"}, {})
    /\ NextBoot
    /\ \E g \in Guids \ usedGuids :
           guid' = g /\ usedGuids' = usedGuids \cup {g}
    /\ Forget(Procs)
    /\ UNCHANGED <<host, files, last, starts>>

\* The machine is renamed, which takes a reboot.
Rename ==
    /\ Happens({"rename"}, {})
    /\ NextBoot
    /\ \E h \in Hosts \ {host} : host' = h
    /\ Forget(Procs)
    /\ UNCHANGED <<guid, usedGuids, files, last, starts>>

\* The wall clock is set, forward or back, by an operator, by time
\* synchronisation, or by a hardware clock that starts from a fixed date; the
\* uptime is not affected, so the boot instant moves with it.
SetClock ==
    /\ Happens({"clock"}, {})
    /\ \E i \in 0 .. 2 * MaxBoot : instant' = i
    /\ UNCHANGED <<guid, usedGuids, host, boot, files, pc, locals, last,
                   starts>>

\* A file stops being readable.
Damage ==
    /\ Happens({"damage"}, {})
    /\ \/ Readable(main) /\ main' = Damaged /\ UNCHANGED bak
       \/ Readable(bak) /\ bak' = Damaged /\ UNCHANGED main
    /\ UNCHANGED <<machine, tmp, pc, locals, last, starts>>

Resolve(p) ==
    \/ Start(p) \/ LoadMain(p) \/ LoadBak(p) \/ Plan(p)
    \/ OpenTmp(p) \/ WriteTmp(p) \/ Backup(p) \/ Replace(p) \/ SaveFails(p)

Next ==
    \/ \E p \in Procs : Resolve(p)
    \/ \E p \in Procs : Exit(p)
    \/ Reboot \/ Clone \/ Rename \/ SetClock \/ Damage

Spec == Init /\ [][Next]_vars

-----------------------------------------------------------------------------
(* Properties *)

Labels == {"down", "load", "loadbak", "plan", "open", "write", "backup",
           "replace", "up"}
File == State \cup {Absent, Damaged}

TypeOK ==
    /\ guid \in Guids /\ usedGuids \subseteq Guids /\ host \in Hosts
    /\ boot \in Nat /\ instant \in Nat /\ starts \in Nat /\ faults \in Nat
    /\ happened \subseteq EventKinds
    /\ main \in File /\ bak \in File /\ tmp \in File
    /\ pc \in [Procs -> Labels]
    /\ basis \in [Procs -> [value : Basis, source : Sources] \cup {None}]
    /\ key \in [Procs -> Nat]
    /\ prev \in [Procs -> State \cup {None}]
    /\ state \in [Procs -> State \cup {None}]
    /\ last \in [EngineIds -> [boot : Nat, boots : Nat]]

\* "An engineID must not be shared between machines": whatever files a
\* template, a clone, an interrupted save or a racing process left behind, a
\* process whose registry read succeeded runs under the engineID derived from
\* the MachineGuid of the machine it runs on.
EngineIdIsThisMachines ==
    \A p \in Procs :
        pc[p] = "up" /\ basis[p].source = "machine-guid"
            => state[p].id = NewEngineId(guid)

\* The events after which the count is not kept: the identity was derived
\* from the host name, a file was damaged or a good one could not be read, a
\* save failed, two processes resolved at once, or the counter reached its
\* ceiling.
Harmful == {"guid", "damage", "read", "save", "race", "ceiling"}
Unharmed == happened \cap Harmful = {}

\* Nobody has set the wall clock.  Without this a later boot can have the key
\* of the boot before, and then does not count as a boot at all.
ClockKept == "clock" \notin happened

\* For one engineID, the service never publishes a smaller count than before.
NeverLower == \A i \in EngineIds : last'[i].boots >= last[i].boots

\* The pair (snmpEngineBoots, snmpEngineTime) never repeats: engine time starts
\* over with each system boot, so a later boot publishes a larger count.
NeverRepeated ==
    \A i \in EngineIds :
        last[i].boots > 0 /\ last'[i].boot > last[i].boot
            => last'[i].boots > last[i].boots

\* "snmpEngineBoots must never go backwards" (_plan_engine_state): kept across
\* restarts, reboots, crashes between any two file operations of a save, a
\* failed .bak, clones, renames, jitter of the boot key and a clock set
\* forward or back at any time.
BootsNeverLower == [][Unharmed' => NeverLower]_vars

\* "the pair still increases strictly across a restart" (_plan_engine_state),
\* in the same cases, as long as nobody sets the wall clock.
PairNeverRepeats == [][Unharmed' /\ ClockKept' => NeverRepeated]_vars

\* The counter moves on a new boot "and not on a service restart", when the
\* boot instant is not at the edge of a unit and the wall clock is not set: a
\* correction of the clock within a boot has the effect of jitter.
RestartKeepsBoots ==
    [][Unharmed' /\ ClockKept' /\ "jitter" \notin happened' =>
         \A i \in EngineIds :
             last[i].boots > 0 /\ last'[i].boot = last[i].boot
                 => last'[i].boots = last[i].boots]_vars

\* The claims as the code states them, without conditions: the count never
\* goes backwards, and the pair increases strictly from boot to boot.
BootsNeverBackwards == [][NeverLower]_vars
PairIncreases == [][NeverRepeated]_vars

-----------------------------------------------------------------------------
(* The invariant behind BootsNeverLower and PairNeverRepeats *)

\* What a process that starts now would load.
Recoverable == IF Readable(main) THEN main
               ELSE IF Readable(bak) THEN bak ELSE None

\* The boot a boot_key was computed in.
BootOf(k) == k \div 2

\* s accounts for everything published: it counts at least as far and, unless
\* the clock was set, further when it was made in a later boot than the last
\* publication.
Covers(s) ==
    LET pub == last[NewEngineId(guid)] IN
    pub.boots > 0 =>
        /\ s # None /\ s.guid = guid /\ s.id = NewEngineId(guid)
        /\ s.boots >= pub.boots
        /\ ClockKept /\ BootOf(s.key) > pub.boot => s.boots > pub.boots

\* What is on disk covers what was published, at every point of a save: the
\* file operations of _save_engine_state never leave a moment in which a
\* crash would make the next start count from behind.
DiskCoversPublished == Unharmed => Covers(Recoverable)

-----------------------------------------------------------------------------
(* The inductive invariant.  Its first part holds whatever happens: every  *)
(* record on disk or in a process pairs an engineID with the MachineGuid it *)
(* was derived from.  The second part holds until something harmful         *)
(* happens: one process resolves at a time, what it loaded is still what a  *)
(* restart would load, and what it is about to save follows from that.      *)

Planned == {"open", "write", "backup", "replace", "up"}
Loaded == {"plan", "open", "write", "backup", "replace"}

IdMatches(r) == r.id \in {None, NewEngineId(r.guid)}

IdentityInv ==
    /\ main \in State => IdMatches(main)
    /\ bak \in State => IdMatches(bak)
    /\ tmp \in State => IdMatches(tmp)
    /\ \A p \in Procs :
        /\ prev[p] # None => IdMatches(prev[p])
        /\ pc[p] # "down" =>
               /\ basis[p] # None
               /\ basis[p].source = "machine-guid" => basis[p].value = guid
               /\ basis[p].source = "hostname" => basis[p].value \in Hosts
        /\ pc[p] \in Planned =>
               /\ state[p] # None
               /\ state[p].guid = basis[p].value
               /\ state[p].id = NewEngineId(basis[p].value)

\* Boots and identities already published belong to the past.
HistoryInv ==
    /\ guid \in usedGuids
    /\ \A i \in EngineIds : last[i].boot <= boot
    /\ \A g \in Guids \ usedGuids : last[NewEngineId(g)].boots = 0

ResolvingInv(p) ==
    /\ basis[p] = [value |-> guid, source |-> "machine-guid"]
    /\ ClockKept => BootOf(key[p]) = boot
    /\ pc[p] = "loadbak" => ~Readable(main)
    /\ pc[p] \in Loaded => prev[p] = Recoverable
    /\ pc[p] \in Planned =>
           /\ state[p] = PlanEngineState(prev[p], basis[p], key[p])
           /\ ~Saturated(prev[p], basis[p])
    /\ pc[p] \in {"backup", "replace"} => tmp = state[p]

CountInv ==
    /\ \A p, q \in Procs : Resolving(p) /\ Resolving(q) => p = q
    /\ main # Damaged /\ bak # Damaged
    /\ ClockKept => instant = 2 * boot
    /\ Covers(Recoverable)
    /\ \A p \in Procs : Resolving(p) => ResolvingInv(p)

IInv == TypeOK /\ IdentityInv /\ HistoryInv /\ (Unharmed => CountInv)

=============================================================================
