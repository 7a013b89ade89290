------------------------ MODULE EngineIdentityProofs ------------------------
(* What TLAPS proves of EngineIdentity, for every set of processes, every   *)
(* set of faults and every value of the bounds.                             *)
EXTENDS EngineIdentity, TLAPS

BasisRecord == [value : Basis, source : Sources]

\* The digest is taken over the basis: an engineID exists for each basis, and
\* two bases never share one.
LEMMA EngineIdOf ==
    /\ \A g \in Basis : NewEngineId(g) \in EngineIds
    /\ \A g, h \in Basis : NewEngineId(g) = NewEngineId(h) => g = h
BY DEF EngineIds, NewEngineId

\* A readable file is a state record.
LEMMA ReadableIsState ==
    ASSUME NEW f \in File
    PROVE  Readable(f) <=> f \in State
BY NoneAssumption DEF Readable, File

\* What _plan_engine_state returns: a complete record for this machine and
\* boot, with a count of at least one and no more than the ceiling.
LEMMA PlanType ==
    ASSUME NEW s \in State \cup {None}, NEW g \in BasisRecord, NEW k \in Nat
    PROVE  /\ PlanEngineState(s, g, k) \in State
           /\ PlanEngineState(s, g, k) # None
           /\ PlanEngineState(s, g, k).guid = g.value
           /\ PlanEngineState(s, g, k).key = k
           /\ PlanEngineState(s, g, k).boots \in 1 .. BootsMax
<1>1. g.value \in Basis /\ g.source \in Sources
  BY DEF BasisRecord
<1>2. NewEngineId(g.value) \in EngineIds
  BY <1>1, EngineIdOf
<1>3. BootsMax \in Nat \ {0}
  BY BoundsAssumption
<1>4. s # None => s \in State /\ s.boots \in Nat /\ s.id \in EngineIds \cup {None}
  BY DEF State
<1>5. PlanEngineState(s, g, k) \in State
  BY <1>1, <1>2, <1>3, <1>4 DEF PlanEngineState, HasId, Foreign, Saturated, State
<1>6. PlanEngineState(s, g, k) # None
  BY <1>5, NoneAssumption
<1>7. PlanEngineState(s, g, k).boots \in 1 .. BootsMax
  BY <1>3, <1>4 DEF PlanEngineState
<1>8. QED
  BY <1>5, <1>6, <1>7 DEF PlanEngineState

\* The planned engineID is the one derived from the basis that was read, if
\* the record it was planned from pairs its own engineID and basis.
LEMMA PlanIdentity ==
    ASSUME NEW s \in State \cup {None}, NEW g \in BasisRecord, NEW k \in Nat,
           s # None => IdMatches(s)
    PROVE  PlanEngineState(s, g, k).id = NewEngineId(g.value)
BY DEF PlanEngineState, HasId, Foreign, Saturated, IdMatches

\* The planned count continues the one it was planned from, and exceeds it in
\* a new boot, unless the record is foreign or at the ceiling.
LEMMA PlanCount ==
    ASSUME NEW s \in State, NEW g \in BasisRecord, NEW k \in Nat,
           ~Foreign(s, g), s.boots < BootsMax
    PROVE  /\ PlanEngineState(s, g, k).boots >= s.boots
           /\ s.key # k => PlanEngineState(s, g, k).boots > s.boots
<1>1. BootsMax \in Nat \ {0} /\ s.boots \in Nat /\ s # None
  BY BoundsAssumption, NoneAssumption DEF State
<1>2. ~Saturated(s, g)
  BY <1>1 DEF Saturated
<1>3. QED
  BY <1>1, <1>2 DEF PlanEngineState

\* _machine_guid returns a basis and its source.
LEMMA MachineGuidType ==
    ASSUME TypeOK, NEW ev
    PROVE  /\ MachineGuid(ev) \in BasisRecord
           /\ MachineGuid(ev) # None
           /\ MachineGuid(ev).value \in Basis
           /\ VolatileState(MachineGuid(ev)) \in State
           /\ VolatileState(MachineGuid(ev)) # None
           /\ IdMatches(VolatileState(MachineGuid(ev)))
<1>1. MachineGuid(ev) \in BasisRecord
  BY DEF TypeOK, MachineGuid, BasisRecord, Basis, Sources
<1>2. MachineGuid(ev).value \in Basis /\ MachineGuid(ev).source \in Sources
  BY <1>1 DEF BasisRecord
<1>3. NewEngineId(MachineGuid(ev).value) \in EngineIds
  BY <1>2, EngineIdOf
<1>4. VolatileState(MachineGuid(ev)) \in State
  BY <1>2, <1>3 DEF VolatileState, State
<1>5. VolatileState(MachineGuid(ev)) # None
  BY <1>4, NoneAssumption
<1>6. IdMatches(VolatileState(MachineGuid(ev)))
  BY DEF IdMatches, VolatileState
<1>7. QED
  BY <1>1, <1>2, <1>4, <1>5, <1>6, NoneAssumption DEF BasisRecord

-----------------------------------------------------------------------------
(* Type correctness and the pairing of engineID and MachineGuid *)

LEMMA InitIdentity == Init => TypeOK /\ IdentityInv
<1> SUFFICES ASSUME Init PROVE TypeOK /\ IdentityInv
  OBVIOUS
<1>1. main \in File /\ (main \in State => IdMatches(main))
  BY NoneAssumption DEF Init, File, State, IdMatches
<1>2. TypeOK
  BY <1>1 DEF Init, TypeOK, File, Labels, EngineIds, Basis
<1>3. IdentityInv
  BY <1>1, NoneAssumption DEF Init, IdentityInv, Planned
<1>4. QED
  BY <1>2, <1>3

\* Events keep their type.
LEMMA HappensType ==
    ASSUME TypeOK, NEW ev \in SUBSET FaultKinds,
           NEW noted \in SUBSET EventKinds, Happens(ev, noted)
    PROVE  faults' \in Nat /\ happened' \subseteq EventKinds
BY DEF TypeOK, Happens, EventKinds

\* Publishing keeps the type of the history.
LEMMA PublishType ==
    ASSUME TypeOK, NEW p \in Procs, NEW s \in State, s.id \in EngineIds,
           Publish(p, s)
    PROVE  last' \in [EngineIds -> [boot : Nat, boots : Nat]]
<1>1. s.boots \in Nat
  BY DEF State
<1>2. QED
  BY <1>1 DEF TypeOK, Publish

\* Ending processes keeps types and pairings: an ended process holds nothing.
LEMMA ForgetIdentity ==
    ASSUME TypeOK, IdentityInv, NEW ps \in SUBSET Procs, Forget(ps),
           UNCHANGED files, ps # Procs => UNCHANGED guid
    PROVE  /\ pc' \in [Procs -> Labels]
           /\ basis' \in [Procs -> BasisRecord \cup {None}]
           /\ key' \in [Procs -> Nat]
           /\ prev' \in [Procs -> State \cup {None}]
           /\ state' \in [Procs -> State \cup {None}]
           /\ IdentityInv'
<1>1. /\ pc' \in [Procs -> Labels]
      /\ basis' \in [Procs -> BasisRecord \cup {None}]
      /\ key' \in [Procs -> Nat]
      /\ prev' \in [Procs -> State \cup {None}]
      /\ state' \in [Procs -> State \cup {None}]
  BY DEF Forget, TypeOK, Labels, BasisRecord
<1>2. ASSUME NEW p \in Procs
      PROVE  /\ prev'[p] # None => IdMatches(prev'[p])
             /\ pc'[p] # "down" =>
                    /\ basis'[p] # None
                    /\ basis'[p].source = "machine-guid" => basis'[p].value = guid'
                    /\ basis'[p].source = "hostname" => basis'[p].value \in Hosts
             /\ pc'[p] \in Planned =>
                    /\ state'[p] # None
                    /\ state'[p].guid = basis'[p].value
                    /\ state'[p].id = NewEngineId(basis'[p].value)
  <2>1. CASE p \in ps
    BY <2>1 DEF Forget, Planned
  <2>2. CASE p \notin ps
    <3>1. ps # Procs /\ guid' = guid
      BY <2>2
    <3>2. /\ pc'[p] = pc[p] /\ basis'[p] = basis[p] /\ prev'[p] = prev[p]
          /\ state'[p] = state[p]
      BY <2>2 DEF Forget
    <3>3. QED
      BY <3>1, <3>2 DEF IdentityInv
  <2>3. QED
    BY <2>1, <2>2
<1>3. IdentityInv'
  BY <1>2 DEF IdentityInv, files, IdMatches
<1>4. QED
  BY <1>1, <1>3

LEMMA StepIdentity == TypeOK /\ IdentityInv /\ [Next]_vars => TypeOK' /\ IdentityInv'
<1> SUFFICES ASSUME TypeOK, IdentityInv, [Next]_vars
             PROVE  TypeOK' /\ IdentityInv'
  OBVIOUS
<1>a. FaultKinds \subseteq EventKinds /\ {"race"} \subseteq EventKinds
      /\ {"ceiling"} \subseteq EventKinds
  BY DEF EventKinds, FaultKinds
<1>b. ASSUME NEW p \in Procs, pc[p] # "down"
      PROVE  basis[p] \in BasisRecord /\ basis[p].value \in Basis
  BY <1>b DEF TypeOK, IdentityInv, BasisRecord
<1>1. ASSUME NEW p \in Procs, Start(p)
      PROVE  TypeOK' /\ IdentityInv'
  <2>1. PICK ev \in SUBSET {"guid", "jitter"} :
           /\ Happens(ev, IF \E q \in Procs \ {p} : Resolving(q)
                          THEN {"race"} ELSE {})
           /\ basis' = [basis EXCEPT ![p] = MachineGuid(ev)]
           /\ key' = [key EXCEPT ![p] = BootKey(ev)]
    BY <1>1 DEF Start
  <2>2. faults' \in Nat /\ happened' \subseteq EventKinds
    BY <2>1, <1>a, HappensType DEF FaultKinds
  <2>3. MachineGuid(ev) \in BasisRecord /\ MachineGuid(ev) # None
    BY MachineGuidType
  <2>4. BootKey(ev) \in Nat
    BY DEF TypeOK, BootKey
  <2>5. TypeOK'
    BY <1>1, <2>1, <2>2, <2>3, <2>4
    DEF Start, TypeOK, Goto, Labels, machine, files, BasisRecord
  <2>6. IdentityInv'
    BY <1>1, <2>1, <2>3
    DEF Start, TypeOK, IdentityInv, Goto, machine, files, Planned, MachineGuid,
        IdMatches
  <2>7. QED
    BY <2>5, <2>6
<1>2. ASSUME NEW p \in Procs, LoadMain(p)
      PROVE  TypeOK' /\ IdentityInv'
  <2>1. Readable(main) => main \in State
    BY ReadableIsState DEF TypeOK
  <2>a. faults' \in Nat /\ happened' \subseteq EventKinds
    BY <1>2, <1>a, HappensType DEF LoadMain, events, TypeOK, FaultKinds
  <2>2. TypeOK'
    BY <1>2, <2>1, <2>a
    DEF LoadMain, TypeOK, Goto, Labels, machine, files
  <2>3. IdentityInv'
    BY <1>2, <2>1
    DEF LoadMain, TypeOK, IdentityInv, Goto, machine, files, Planned, IdMatches
  <2>4. QED
    BY <2>2, <2>3
<1>3. ASSUME NEW p \in Procs, LoadBak(p)
      PROVE  TypeOK' /\ IdentityInv'
  <2>1. Readable(bak) => bak \in State
    BY ReadableIsState DEF TypeOK
  <2>a. faults' \in Nat /\ happened' \subseteq EventKinds
    BY <1>3, <1>a, HappensType DEF LoadBak, events, TypeOK, FaultKinds
  <2>2. TypeOK'
    BY <1>3, <2>1, <2>a
    DEF LoadBak, TypeOK, Goto, Labels, machine, files
  <2>3. IdentityInv'
    BY <1>3, <2>1
    DEF LoadBak, TypeOK, IdentityInv, Goto, machine, files, Planned, IdMatches
  <2>4. QED
    BY <2>2, <2>3
<1>4. ASSUME NEW p \in Procs, Plan(p)
      PROVE  TypeOK' /\ IdentityInv'
  <2> DEFINE s == PlanEngineState(prev[p], basis[p], key[p])
  <2>1. basis[p] \in BasisRecord /\ basis[p].value \in Basis
    BY <1>4, <1>b DEF Plan
  <2>2. prev[p] \in State \cup {None} /\ key[p] \in Nat
    BY DEF TypeOK
  <2>3. s \in State /\ s # None /\ s.guid = basis[p].value
    BY <2>1, <2>2, PlanType
  <2>4. s.id = NewEngineId(basis[p].value)
    BY <2>1, <2>2, PlanIdentity DEF IdentityInv
  <2>5. s.id \in EngineIds
    BY <2>1, <2>4, EngineIdOf
  <2>6. faults' \in Nat /\ happened' \subseteq EventKinds
    BY <1>4, <1>a, HappensType DEF Plan
  <2>7. last' \in [EngineIds -> [boot : Nat, boots : Nat]]
    <3>1. CASE s = prev[p]
      BY <1>4, <2>3, <2>5, <3>1, PublishType DEF Plan
    <3>2. CASE s # prev[p]
      BY <1>4, <3>2 DEF Plan, TypeOK
    <3>3. QED
      BY <3>1, <3>2
  <2>8. pc' \in [Procs -> Labels] /\ state' = [state EXCEPT ![p] = s]
        /\ \A q \in Procs \ {p} : pc'[q] = pc[q]
    BY <1>4 DEF Plan, Goto, TypeOK, Labels
  <2> HIDE DEF s
  <2>9. TypeOK'
    BY <1>4, <2>3, <2>6, <2>7, <2>8 DEF Plan, TypeOK, machine, files
  <2>10. IdentityInv'
    BY <1>4, <2>3, <2>4, <2>8
    DEF Plan, TypeOK, IdentityInv, machine, files, IdMatches
  <2>11. QED
    BY <2>9, <2>10
<1>5. ASSUME NEW p \in Procs, OpenTmp(p)
      PROVE  TypeOK' /\ IdentityInv'
  <2>1. TypeOK'
    BY <1>5 DEF OpenTmp, TypeOK, Goto, Labels, File, machine, locals, events
  <2>2. IdentityInv'
    BY <1>5, NoneAssumption
    DEF OpenTmp, TypeOK, IdentityInv, Goto, machine, locals, Planned, IdMatches
  <2>3. QED
    BY <2>1, <2>2
<1>6. ASSUME NEW p \in Procs, WriteTmp(p)
      PROVE  TypeOK' /\ IdentityInv'
  <2>1. state[p] \in State /\ IdMatches(state[p])
    BY <1>6 DEF WriteTmp, TypeOK, IdentityInv, Planned, IdMatches
  <2>2. TypeOK'
    BY <1>6, <2>1
    DEF WriteTmp, TypeOK, Goto, Labels, File, machine, locals, events
  <2>3. IdentityInv'
    BY <1>6, <2>1
    DEF WriteTmp, TypeOK, IdentityInv, Goto, machine, locals, Planned, IdMatches
  <2>4. QED
    BY <2>2, <2>3
<1>7. ASSUME NEW p \in Procs, Backup(p)
      PROVE  TypeOK' /\ IdentityInv'
  <2>1. faults' \in Nat /\ happened' \subseteq EventKinds
    BY <1>7, <1>a, HappensType DEF Backup, events, TypeOK, FaultKinds
  <2>2. TypeOK'
    BY <1>7, <2>1
    DEF Backup, TypeOK, Goto, Labels, File, machine, locals
  <2>3. IdentityInv'
    BY <1>7, NoneAssumption
    DEF Backup, TypeOK, IdentityInv, Goto, machine, locals, Planned, IdMatches
  <2>4. QED
    BY <2>2, <2>3
<1>8. ASSUME NEW p \in Procs, Replace(p)
      PROVE  TypeOK' /\ IdentityInv'
  <2>1. state[p] \in State /\ basis[p].value \in Basis
        /\ state[p].id = NewEngineId(basis[p].value)
    BY <1>8, <1>b DEF Replace, TypeOK, IdentityInv, Planned
  <2>2. last' \in [EngineIds -> [boot : Nat, boots : Nat]]
    BY <1>8, <2>1, EngineIdOf, PublishType DEF Replace
  <2>3. TypeOK'
    BY <1>8, <2>2
    DEF Replace, TypeOK, Goto, Labels, File, machine, locals, events
  <2>4. IdentityInv'
    BY <1>8, NoneAssumption
    DEF Replace, TypeOK, IdentityInv, Goto, machine, locals, Planned, IdMatches
  <2>5. QED
    BY <2>3, <2>4
<1>9. ASSUME NEW p \in Procs, SaveFails(p)
      PROVE  TypeOK' /\ IdentityInv'
  <2>1. PICK ev \in SUBSET {"save", "guid"} :
           /\ Happens(ev, {})
           /\ basis' = [basis EXCEPT ![p] = MachineGuid(ev)]
           /\ state' = [state EXCEPT ![p] = VolatileState(MachineGuid(ev))]
           /\ Publish(p, VolatileState(MachineGuid(ev)))
    BY <1>9 DEF SaveFails
  <2> DEFINE g == MachineGuid(ev)
  <2>2. /\ g \in BasisRecord /\ g # None /\ g.value \in Basis
        /\ VolatileState(g) \in State /\ VolatileState(g) # None
    BY MachineGuidType
  <2>3. VolatileState(g).guid = g.value /\ VolatileState(g).id = NewEngineId(g.value)
    BY DEF VolatileState
  <2>4. faults' \in Nat /\ happened' \subseteq EventKinds
    BY <2>1, HappensType DEF FaultKinds
  <2>5. last' \in [EngineIds -> [boot : Nat, boots : Nat]]
    BY <2>1, <2>2, <2>3, EngineIdOf, PublishType
  <2>6. /\ g.source = "machine-guid" => g.value = guid
        /\ g.source = "hostname" => g.value \in Hosts
    BY DEF MachineGuid, TypeOK
  <2> HIDE DEF g
  <2>7. TypeOK'
    BY <1>9, <2>1, <2>2, <2>4, <2>5
    DEF SaveFails, TypeOK, Goto, Labels, machine, files, BasisRecord, g
  <2>8. IdentityInv'
    BY <1>9, <2>1, <2>2, <2>3, <2>6
    DEF SaveFails, TypeOK, IdentityInv, Goto, machine, files, Planned, IdMatches, g
  <2>9. QED
    BY <2>7, <2>8
<1>10. ASSUME NEW p \in Procs, Exit(p)
       PROVE  TypeOK' /\ IdentityInv'
  <2>1. {p} \in SUBSET Procs /\ Forget({p}) /\ UNCHANGED files /\ UNCHANGED guid
    BY <1>10 DEF Exit, machine
  <2>2. QED
    BY <1>10, <2>1, ForgetIdentity
    DEF Exit, TypeOK, machine, files, events, BasisRecord
<1>11. ASSUME Reboot \/ Clone \/ Rename
       PROVE  TypeOK' /\ IdentityInv'
  <2>1. Procs \in SUBSET Procs /\ Forget(Procs) /\ UNCHANGED files
    BY <1>11 DEF Reboot, Clone, Rename
  <2>a. boot' \in Nat /\ instant' \in Nat
    BY <1>11 DEF Reboot, Clone, Rename, NextBoot, TypeOK
  <2>2. faults' \in Nat /\ happened' \subseteq EventKinds
    <3>1. CASE Reboot
      BY <3>1 DEF Reboot, events, TypeOK
    <3>2. ASSUME NEW k \in {"clone", "rename"}, Happens({k}, {})
          PROVE  faults' \in Nat /\ happened' \subseteq EventKinds
      BY <3>2, HappensType DEF FaultKinds
    <3>3. QED
      BY <1>11, <3>1, <3>2 DEF Clone, Rename
  <2>3. guid' \in Guids /\ usedGuids' \subseteq Guids /\ host' \in Hosts
        /\ starts' \in Nat /\ last' = last
    BY <1>11 DEF Reboot, Clone, Rename, TypeOK
  <2>4. QED
    BY <2>1, <2>a, <2>2, <2>3, ForgetIdentity DEF TypeOK, files, BasisRecord
<1>s. ASSUME SetClock
      PROVE  TypeOK' /\ IdentityInv'
  <2>1. faults' \in Nat /\ happened' \subseteq EventKinds
    BY <1>s, HappensType DEF SetClock, FaultKinds
  <2>2. instant' \in Nat
    BY <1>s, BoundsAssumption DEF SetClock
  <2>3. TypeOK'
    BY <1>s, <2>1, <2>2 DEF SetClock, TypeOK, files, locals
  <2>4. IdentityInv'
    BY <1>s DEF SetClock, IdentityInv, files, locals, IdMatches
  <2>5. QED
    BY <2>3, <2>4
<1>12. ASSUME Damage
       PROVE  TypeOK' /\ IdentityInv'
  <2>1. faults' \in Nat /\ happened' \subseteq EventKinds
    BY <1>12, HappensType DEF Damage, FaultKinds
  <2>2. TypeOK'
    BY <1>12, <2>1 DEF Damage, TypeOK, File, machine, locals
  <2>3. IdentityInv'
    BY <1>12, NoneAssumption
    DEF Damage, IdentityInv, machine, locals, IdMatches
  <2>4. QED
    BY <2>2, <2>3
<1>13. CASE UNCHANGED vars
  BY <1>13
  DEF vars, TypeOK, IdentityInv, machine, files, locals, events, IdMatches
<1>14. QED
  BY <1>1, <1>2, <1>3, <1>4, <1>5, <1>6, <1>7, <1>8, <1>9, <1>10, <1>11, <1>s,
     <1>12, <1>13 DEF Next, Resolve

\* Every variable keeps its type.
THEOREM TypeCorrect == Spec => []TypeOK
<1>1. Spec => [](TypeOK /\ IdentityInv)
  BY InitIdentity, StepIdentity, PTL DEF Spec
<1>2. QED
  BY <1>1, PTL

\* A process that could read the registry runs under the engineID of the
\* machine it runs on: whatever was cloned, damaged, lost or raced, a clone
\* never answers with the engineID of its template.
THEOREM EngineIdNotShared == Spec => []EngineIdIsThisMachines
<1>1. IdentityInv => EngineIdIsThisMachines
  BY DEF IdentityInv, EngineIdIsThisMachines, Planned
<1>2. Spec => [](TypeOK /\ IdentityInv)
  BY InitIdentity, StepIdentity, PTL DEF Spec
<1>3. QED
  BY <1>1, <1>2, PTL

-----------------------------------------------------------------------------
(* The count *)

\* Nothing forgets what has happened.
LEMMA HappenedGrows ==
    ASSUME [Next]_vars
    PROVE  /\ happened \subseteq happened'
           /\ Unharmed' => Unharmed
           /\ ClockKept' => ClockKept
<1>1. happened \subseteq happened'
  <2>1. ASSUME NEW p \in Procs, Resolve(p)
        PROVE  happened \subseteq happened'
    BY <2>1
    DEF Resolve, Start, LoadMain, LoadBak, Plan, OpenTmp, WriteTmp, Backup,
        Replace, SaveFails, Happens, events
  <2>2. QED
    BY <2>1
    DEF Next, Exit, Reboot, Clone, Rename, SetClock, Damage, Happens, events, vars
<1>2. QED
  BY <1>1 DEF Unharmed, ClockKept

\* A publication touches one engineID only.
LEMMA PublishOne ==
    ASSUME TypeOK, NEW p \in Procs, NEW s \in State, s.id \in EngineIds,
           Publish(p, s)
    PROVE  /\ \A i \in EngineIds \ {s.id} : last'[i] = last[i]
           /\ p = Service => last'[s.id] = [boot |-> boot, boots |-> s.boots]
           /\ p # Service => last' = last
BY DEF TypeOK, Publish

\* Who publishes, publishes an identity of this machine: derived from its
\* MachineGuid or from a host name, never from a MachineGuid still to come.
LEMMA PublishHistory ==
    ASSUME TypeOK, HistoryInv, NEW p \in Procs, NEW g \in Guids \cup Hosts,
           g \in Guids => g = guid,
           NEW s \in State, s.id = NewEngineId(g), Publish(p, s),
           boot' = boot, guid' = guid, usedGuids' = usedGuids
    PROVE  HistoryInv'
<1>1. s.id \in EngineIds
  BY EngineIdOf DEF Basis
<1>a. \A i \in EngineIds \ {s.id} : last'[i] = last[i]
  BY <1>1, PublishOne
<1>b. last'[s.id].boot = boot \/ last'[s.id] = last[s.id]
  <2>1. CASE p = Service
    <3>1. last'[s.id] = [boot |-> boot, boots |-> s.boots]
      BY <1>1, <2>1, PublishOne
    <3>2. QED
      BY <3>1
  <2>2. CASE p # Service
    BY <1>1, <2>2, PublishOne
  <2>3. QED
    BY <2>1, <2>2
<1>2. \A i \in EngineIds : last'[i].boot <= boot
  BY <1>1, <1>a, <1>b DEF TypeOK, HistoryInv
<1>3. ASSUME NEW h \in Guids \ usedGuids
      PROVE  last'[NewEngineId(h)].boots = 0
  <2>1. h # g
    BY BasisAssumption DEF HistoryInv
  <2>2. NewEngineId(h) # s.id /\ NewEngineId(h) \in EngineIds
    BY <2>1, EngineIdOf DEF Basis
  <2>3. QED
    BY <1>a, <2>2 DEF HistoryInv
<1>4. QED
  BY <1>2, <1>3 DEF HistoryInv

LEMMA StepHistory ==
    TypeOK /\ IdentityInv /\ HistoryInv /\ [Next]_vars => HistoryInv'
<1> SUFFICES ASSUME TypeOK, IdentityInv, HistoryInv, [Next]_vars
             PROVE  HistoryInv'
  OBVIOUS
<1>a. ASSUME NEW p \in Procs, pc[p] # "down"
      PROVE  /\ basis[p] \in BasisRecord
             /\ basis[p].value \in Guids \cup Hosts
             /\ basis[p].value \in Guids => basis[p].value = guid
  BY <1>a, BasisAssumption DEF TypeOK, IdentityInv, BasisRecord, Basis, Sources
<1>1. ASSUME NEW p \in Procs,
             Start(p) \/ LoadMain(p) \/ LoadBak(p) \/ OpenTmp(p) \/ WriteTmp(p)
               \/ Backup(p) \/ Exit(p)
      PROVE  HistoryInv'
  BY <1>1
  DEF Start, LoadMain, LoadBak, OpenTmp, WriteTmp, Backup, Exit, HistoryInv, machine
<1>2. ASSUME NEW p \in Procs, Plan(p)
      PROVE  HistoryInv'
  <2> DEFINE s == PlanEngineState(prev[p], basis[p], key[p])
  <2>1. basis[p] \in BasisRecord /\ prev[p] \in State \cup {None} /\ key[p] \in Nat
    BY <1>2, <1>a DEF Plan, TypeOK
  <2>2. s \in State /\ s.id = NewEngineId(basis[p].value)
    BY <2>1, PlanType, PlanIdentity DEF IdentityInv
  <2>3. boot' = boot /\ guid' = guid /\ usedGuids' = usedGuids
    BY <1>2 DEF Plan, machine
  <2>4. CASE Publish(p, s)
    BY <1>2, <1>a, <2>2, <2>3, <2>4, PublishHistory DEF Plan
  <2>5. CASE last' = last
    BY <2>3, <2>5 DEF HistoryInv
  <2>6. QED
    BY <1>2, <2>4, <2>5 DEF Plan
<1>3. ASSUME NEW p \in Procs, Replace(p)
      PROVE  HistoryInv'
  <2>1. state[p] \in State /\ state[p].id = NewEngineId(basis[p].value)
    BY <1>3 DEF Replace, TypeOK, IdentityInv, Planned
  <2>2. QED
    BY <1>3, <1>a, <2>1, PublishHistory DEF Replace, machine
<1>4. ASSUME NEW p \in Procs, SaveFails(p)
      PROVE  HistoryInv'
  <2>1. PICK ev : Publish(p, VolatileState(MachineGuid(ev)))
    BY <1>4 DEF SaveFails
  <2>2. /\ MachineGuid(ev).value \in Guids \cup Hosts
        /\ MachineGuid(ev).value \in Guids => MachineGuid(ev).value = guid
    BY BasisAssumption DEF MachineGuid, TypeOK
  <2>3. VolatileState(MachineGuid(ev)) \in State
    BY MachineGuidType
  <2>4. VolatileState(MachineGuid(ev)).id = NewEngineId(MachineGuid(ev).value)
    BY DEF VolatileState
  <2>5. QED
    BY <1>4, <2>1, <2>2, <2>3, <2>4, PublishHistory DEF SaveFails, machine
<1>5. CASE Reboot \/ Clone \/ Rename
  BY <1>5 DEF Reboot, Clone, Rename, NextBoot, HistoryInv, TypeOK
<1>6. CASE SetClock \/ Damage
  BY <1>6 DEF SetClock, Damage, HistoryInv, machine
<1>7. CASE UNCHANGED vars
  BY <1>7 DEF vars, HistoryInv, machine
<1>8. QED
  BY <1>1, <1>2, <1>3, <1>4, <1>5, <1>6, <1>7 DEF Next, Resolve

\* This machine's own engineID.
MyId == NewEngineId(guid)

\* What may be published without the count falling behind: an identity of this
\* machine that accounts for the last publication.
Follows(s) ==
    /\ s \in State /\ s.guid = guid /\ s.id = MyId
    /\ ClockKept => BootOf(s.key) = boot
    /\ last[MyId].boots > 0 =>
           /\ s.boots >= last[MyId].boots
           /\ ClockKept /\ boot > last[MyId].boot => s.boots > last[MyId].boots

\* Planning from a record that covers what was published.
LEMMA PlanFollows ==
    ASSUME TypeOK, NEW s \in State \cup {None}, s # None => IdMatches(s),
           Covers(s), NEW k \in Nat, ClockKept => BootOf(k) = boot,
           NEW g, g = [value |-> guid, source |-> "machine-guid"],
           ~Saturated(s, g)
    PROVE  Follows(PlanEngineState(s, g, k))
<1> DEFINE n == PlanEngineState(s, g, k)
<1>1. g \in BasisRecord /\ g.value = guid
  BY DEF BasisRecord, TypeOK, Basis, Sources
<1>2. n \in State /\ n.guid = guid /\ n.key = k /\ n.id = MyId
  BY <1>1, PlanType, PlanIdentity DEF MyId
<1>3. MyId \in EngineIds /\ MyId # None
  BY <1>1, EngineIdOf, NoneAssumption DEF MyId, BasisRecord
<1>4. last[MyId].boots \in Nat /\ last[MyId].boot \in Nat
  BY <1>3 DEF TypeOK
<1>5. ASSUME last[MyId].boots > 0
      PROVE  /\ n.boots >= last[MyId].boots
             /\ ClockKept /\ boot > last[MyId].boot => n.boots > last[MyId].boots
  <2>1. /\ s # None /\ s \in State /\ s.guid = guid /\ s.id = MyId
        /\ s.boots >= last[MyId].boots
        /\ ClockKept /\ BootOf(s.key) > last[MyId].boot
               => s.boots > last[MyId].boots
    BY <1>5 DEF Covers, MyId
  <2>2. s.boots < BootsMax
    BY <2>1, <1>1, <1>3, BoundsAssumption DEF Saturated, HasId, State
  <2>3. ~Foreign(s, g)
    BY <2>1, <1>1 DEF Foreign
  <2>4. n.boots >= s.boots /\ (s.key # k => n.boots > s.boots)
    BY <2>1, <2>2, <2>3, <1>1, PlanCount
  <2>5. n.boots \in Nat /\ s.boots \in Nat
    BY <1>2, <2>1 DEF State
  <2> HIDE DEF n
  <2>6. QED
    BY <2>1, <2>4, <2>5, <1>4
<1>6. QED
  BY <1>2, <1>5 DEF Follows

\* Publishing what follows lowers no count and repeats no pair, and a record
\* that follows covers the publication.
LEMMA PublishFollows ==
    ASSUME TypeOK, HistoryInv, NEW p \in Procs, NEW s, Follows(s), Publish(p, s),
           guid' = guid, boot' = boot, ClockKept' => ClockKept
    PROVE  /\ NeverLower /\ (ClockKept' => NeverRepeated)
           /\ last'[MyId].boots > 0 =>
                  /\ s.boots >= last'[MyId].boots
                  /\ ClockKept' /\ BootOf(s.key) > last'[MyId].boot
                         => s.boots > last'[MyId].boots
<1>1. s \in State /\ s.id = MyId /\ s.boots \in Nat /\ MyId \in EngineIds
  BY EngineIdOf DEF Follows, State, MyId, TypeOK, Basis
<1>2. /\ last \in [EngineIds -> [boot : Nat, boots : Nat]]
      /\ \A i \in EngineIds : /\ last[i].boots \in Nat /\ last[i].boot \in Nat
                               /\ last[i].boot <= boot
      /\ boot \in Nat
  BY DEF TypeOK, HistoryInv
<1>3. \A i \in EngineIds \ {MyId} : last'[i] = last[i]
  BY <1>1, PublishOne
<1>4. CASE p = Service
  <2>1. last'[MyId] = [boot |-> boot, boots |-> s.boots]
    BY <1>1, <1>4, PublishOne
  <2>2. last'[MyId].boot = boot /\ last'[MyId].boots = s.boots
    BY <2>1
  <2>3. /\ last[MyId].boots > 0 =>
             /\ s.boots >= last[MyId].boots
             /\ ClockKept /\ boot > last[MyId].boot => s.boots > last[MyId].boots
        /\ ClockKept => BootOf(s.key) = boot
    BY DEF Follows
  <2>4. NeverLower
    <3>1. s.boots >= last[MyId].boots
      BY <1>1, <1>2, <2>3
    <3>2. QED
      BY <1>1, <1>2, <1>3, <2>2, <3>1 DEF NeverLower
  <2>5. ClockKept' => NeverRepeated
    BY <1>1, <1>2, <1>3, <2>2, <2>3 DEF NeverRepeated
  <2>6. QED
    BY <1>1, <1>2, <2>2, <2>3, <2>4, <2>5
<1>5. CASE p # Service
  <2>1. last' = last
    BY <1>1, <1>5, PublishOne
  <2>2. NeverLower /\ NeverRepeated
    BY <1>2, <2>1 DEF NeverLower, NeverRepeated
  <2>3. QED
    BY <2>1, <2>2 DEF Follows
<1>6. QED
  BY <1>4, <1>5

\* While one process resolves, the others have not started or are done.
LEMMA OthersIdle ==
    ASSUME TypeOK, CountInv, NEW p \in Procs, Resolving(p), NEW l, Goto(p, l)
    PROVE  /\ pc'[p] = l
           /\ \A q \in Procs : Resolving(q)' => q = p
           /\ \A q \in Procs \ {p} : ~Resolving(q) /\ pc'[q] = pc[q]
BY DEF TypeOK, CountInv, Goto, Resolving

LEMMA InitCount == Init => CountInv
<1> SUFFICES ASSUME Init PROVE CountInv
  OBVIOUS
<1>1. \A p \in Procs : ~Resolving(p)
  BY DEF Init, Resolving
<1>2. main # Damaged /\ bak # Damaged
  BY NoneAssumption DEF Init, State
<1>3. last[NewEngineId(guid)].boots = 0
  BY EngineIdOf DEF Init, Basis
<1>4. Covers(Recoverable)
  BY <1>3 DEF Covers
<1>5. QED
  BY <1>1, <1>2, <1>4 DEF CountInv, Init

\* A step of a process inside the save, or loading: published counts stay, and
\* what is on disk still covers them.
LEMMA ResolvingStep ==
    ASSUME TypeOK, CountInv, NEW p \in Procs, Resolving(p), NEW l, Goto(p, l),
           UNCHANGED <<guid, boot, instant, last>>, ClockKept' => ClockKept,
           Recoverable' = Recoverable, main' # Damaged, bak' # Damaged,
           l \notin {"down", "up"} => ResolvingInv(p)'
    PROVE  CountInv'
<1>1. \A q \in Procs : Resolving(q)' => q = p /\ l \notin {"down", "up"}
  BY OthersIdle DEF Resolving
<1>2. Covers(Recoverable)'
  BY DEF CountInv, Covers
<1>3. QED
  BY <1>1, <1>2 DEF CountInv

\* The last step of a process: it publishes what follows, and that is what is
\* on disk.
LEMMA ResolvedStep ==
    ASSUME TypeOK, HistoryInv, CountInv, NEW p \in Procs, Resolving(p),
           Goto(p, "up"), NEW s, Follows(s), Publish(p, s),
           UNCHANGED <<guid, boot, instant>>, ClockKept' => ClockKept,
           Recoverable' = s, main' # Damaged, bak' # Damaged
    PROVE  CountInv' /\ NeverLower /\ (ClockKept' => NeverRepeated)
<1>1. \A q \in Procs : ~Resolving(q)'
  <2>1. \A q \in Procs : Resolving(q)' => q = p
    BY OthersIdle
  <2>2. ~Resolving(p)'
    BY OthersIdle DEF Resolving
  <2>3. QED
    BY <2>1, <2>2
<1>2. /\ NeverLower /\ (ClockKept' => NeverRepeated)
      /\ last'[MyId].boots > 0 =>
             /\ s.boots >= last'[MyId].boots
             /\ ClockKept' /\ BootOf(s.key) > last'[MyId].boot
                    => s.boots > last'[MyId].boots
  BY PublishFollows
<1>3. Covers(Recoverable)'
  BY <1>2, NoneAssumption DEF Covers, Follows, MyId
<1>4. QED
  BY <1>1, <1>2, <1>3 DEF CountInv

\* Processes end; the machine may restart, or come up as another one.
LEMMA ForgetCount ==
    ASSUME TypeOK, HistoryInv, CountInv, NEW ps \in SUBSET Procs, Forget(ps),
           UNCHANGED <<files, last>>, ClockKept' => ClockKept,
           \/ UNCHANGED <<boot, instant>>
           \/ ps = Procs /\ boot' = boot + 1 /\ instant' = instant + 2,
           guid' = guid \/ (guid' \in Guids \ usedGuids /\ ps = Procs)
    PROVE  CountInv'
<1>1. \A q \in Procs : Resolving(q)' =>
         /\ q \notin ps /\ Resolving(q)
         /\ UNCHANGED <<pc[q], basis[q], key[q], prev[q], state[q]>>
  BY DEF Forget, Resolving
<1>2. Recoverable' = Recoverable
  BY DEF Recoverable, Readable, files
<1>3. Covers(Recoverable)'
  <2>1. CASE guid' = guid
    BY <1>2, <2>1 DEF CountInv, Covers
  <2>2. CASE guid' \in Guids \ usedGuids
    <3>1. last'[NewEngineId(guid')].boots = 0
      BY <2>2 DEF HistoryInv
    <3>2. QED
      BY <3>1 DEF Covers
  <2>3. QED
    BY <2>1, <2>2
<1>4. ASSUME NEW q \in Procs, Resolving(q)'
      PROVE  ResolvingInv(q)'
  <2>1. ps # Procs /\ guid' = guid /\ boot' = boot /\ instant' = instant
    BY <1>1, <1>4
  <2>2. ResolvingInv(q)
    BY <1>1, <1>4 DEF CountInv
  <2>3. main' = main /\ tmp' = tmp
    BY DEF files
  <2>4. QED
    BY <1>1, <1>2, <1>4, <2>1, <2>2, <2>3 DEF ResolvingInv, Readable
<1>5. ClockKept' => instant' = 2 * boot'
  BY DEF CountInv, TypeOK
<1>6. QED
  BY <1>1, <1>3, <1>4, <1>5 DEF CountInv, files

\* A save that fails is harmful: the rename is never refused to the only
\* process that resolves.
LEMMA NoSaveFails ==
    ASSUME TypeOK, IdentityInv, CountInv, Unharmed', NEW p \in Procs, SaveFails(p)
    PROVE  FALSE
<1>1. PICK ev \in SUBSET {"save", "guid"} :
         /\ \/ pc[p] = "replace" /\ (CanRename(p) <=> "save" \in ev)
            \/ pc[p] \in {"open", "write"} /\ "save" \in ev
         /\ Happens(ev, {})
  BY DEF SaveFails
<1>2. "save" \notin ev
  BY <1>1 DEF Happens, Unharmed, Harmful
<1>3. pc[p] = "replace" /\ ~CanRename(p)
  BY <1>1, <1>2
<1>4. Resolving(p) /\ ResolvingInv(p)
  BY <1>3 DEF CountInv, Resolving
<1>5. tmp = state[p] /\ state[p] \in State
  BY <1>3, <1>4 DEF ResolvingInv, TypeOK, IdentityInv, Planned
<1>6. \A q \in Procs \ {p} : ~Writing(q)
  BY <1>3 DEF CountInv, Resolving, Writing
<1>7. QED
  BY <1>3, <1>5, <1>6, NoneAssumption DEF CanRename

LEMMA StepCount ==
    ASSUME TypeOK, IdentityInv, HistoryInv, Unharmed => CountInv, [Next]_vars,
           Unharmed'
    PROVE  CountInv' /\ NeverLower /\ (ClockKept' => NeverRepeated)
<1>1. Unharmed /\ CountInv /\ (ClockKept' => ClockKept)
  BY HappenedGrows
<1>a. ASSUME last' = last PROVE NeverLower /\ NeverRepeated
  BY <1>a DEF NeverLower, NeverRepeated, TypeOK
<1>b. ASSUME NEW p \in Procs, Resolving(p)
      PROVE  ResolvingInv(p)
  BY <1>1, <1>b DEF CountInv
<1>c. ASSUME NEW p \in Procs, NEW l, Goto(p, l) PROVE pc'[p] = l
  BY <1>c DEF Goto, TypeOK
<1>2. ASSUME NEW p \in Procs, Start(p)
      PROVE  CountInv' /\ last' = last
  <2>1. PICK ev \in SUBSET {"guid", "jitter"} :
           /\ Happens(ev, IF \E q \in Procs \ {p} : Resolving(q)
                          THEN {"race"} ELSE {})
           /\ basis' = [basis EXCEPT ![p] = MachineGuid(ev)]
           /\ key' = [key EXCEPT ![p] = BootKey(ev)]
    BY <1>2 DEF Start
  <2>2. "guid" \notin ev /\ \A q \in Procs \ {p} : ~Resolving(q)
    BY <2>1 DEF Happens, Unharmed, Harmful
  <2>3. pc'[p] = "load" /\ \A q \in Procs \ {p} : ~Resolving(q)'
    BY <1>2, <2>2 DEF Start, Goto, Resolving, TypeOK
  <2>4. basis'[p] = [value |-> guid, source |-> "machine-guid"]
    BY <2>1, <2>2 DEF MachineGuid, TypeOK
  <2>5. ClockKept => BootOf(key'[p]) = boot
    <3>1. ClockKept => BootKey(ev) \in {2 * boot, 2 * boot + 1}
      BY <1>1 DEF BootKey, CountInv, TypeOK
    <3>2. boot \in Nat /\ key'[p] = BootKey(ev)
      BY <2>1 DEF TypeOK
    <3>3. QED
      BY <3>1, <3>2 DEF BootOf
  <2>6. ResolvingInv(p)'
    BY <1>1, <1>2, <2>3, <2>4, <2>5 DEF Start, ResolvingInv, Loaded, Planned, machine
  <2>7. Covers(Recoverable)' /\ main' # Damaged /\ bak' # Damaged
    BY <1>1, <1>2
    DEF Start, CountInv, Covers, Recoverable, Readable, machine, files
  <2>8. QED
    BY <1>1, <1>2, <2>3, <2>6, <2>7 DEF CountInv, Start, machine
<1>3. ASSUME NEW p \in Procs, LoadMain(p)
      PROVE  CountInv' /\ last' = last
  <2>1. Resolving(p) /\ ResolvingInv(p)
    BY <1>3, <1>b DEF LoadMain, Resolving
  <2>2. Recoverable' = Recoverable /\ UNCHANGED <<guid, boot, instant, last>>
        /\ main' # Damaged /\ bak' # Damaged
    BY <1>1, <1>3 DEF LoadMain, Recoverable, Readable, CountInv, machine, files
  <2>a. ~Happens({"read"}, {})
    BY DEF Happens, Unharmed, Harmful
  <2>3. CASE Readable(main)
    <3>1. Goto(p, "plan") /\ prev'[p] = main
      BY <1>3, <2>a, <2>3 DEF LoadMain, TypeOK
    <3>2. ResolvingInv(p)'
      BY <1>1, <1>3, <1>c, <2>1, <2>2, <2>3, <3>1
      DEF LoadMain, ResolvingInv, Recoverable, Loaded, Planned
    <3>3. QED
      BY <1>1, <2>1, <2>2, <3>1, <3>2, ResolvingStep
  <2>4. CASE ~Readable(main)
    <3>1. Goto(p, "loadbak") /\ ~Readable(main')
      BY <1>3, <2>4 DEF LoadMain, files
    <3>2. ResolvingInv(p)'
      BY <1>1, <1>3, <1>c, <2>1, <2>2, <3>1
      DEF LoadMain, ResolvingInv, Loaded, Planned, Readable
    <3>3. QED
      BY <1>1, <2>1, <2>2, <3>1, <3>2, ResolvingStep
  <2>5. QED
    BY <2>3, <2>4
<1>4. ASSUME NEW p \in Procs, LoadBak(p)
      PROVE  CountInv' /\ last' = last
  <2>1. Resolving(p) /\ ResolvingInv(p) /\ ~Readable(main)
    BY <1>4, <1>b DEF LoadBak, Resolving, ResolvingInv
  <2>2. Recoverable' = Recoverable /\ UNCHANGED <<guid, boot, instant, last>>
        /\ main' # Damaged /\ bak' # Damaged
    BY <1>1, <1>4 DEF LoadBak, Recoverable, Readable, CountInv, machine, files
  <2>3. prev'[p] = Recoverable
    BY <1>4, <2>1 DEF LoadBak, TypeOK, Recoverable, Happens, Unharmed, Harmful
  <2>4. ResolvingInv(p)'
    BY <1>1, <1>4, <1>c, <2>1, <2>2, <2>3 DEF LoadBak, ResolvingInv, Loaded, Planned
  <2>5. QED
    BY <1>1, <1>4, <2>1, <2>2, <2>4, ResolvingStep DEF LoadBak
<1>5. ASSUME NEW p \in Procs, Plan(p)
      PROVE  CountInv' /\ NeverLower /\ (ClockKept' => NeverRepeated)
  <2> DEFINE s == PlanEngineState(prev[p], basis[p], key[p])
  <2>1. Resolving(p) /\ ResolvingInv(p) /\ prev[p] = Recoverable
    BY <1>5, <1>b DEF Plan, Resolving, ResolvingInv, Loaded
  <2>2. ~Saturated(prev[p], basis[p])
    BY <1>5 DEF Plan, Happens, Unharmed, Harmful
  <2>3. prev[p] \in State \cup {None} /\ (prev[p] # None => IdMatches(prev[p]))
        /\ key[p] \in Nat
    BY DEF TypeOK, IdentityInv
  <2>4. Covers(prev[p])
    BY <1>1, <2>1 DEF CountInv
  <2>5. Follows(s)
    BY <2>1, <2>2, <2>3, <2>4, PlanFollows DEF ResolvingInv
  <2>6. Recoverable' = Recoverable /\ UNCHANGED <<guid, boot, instant, files>>
        /\ main' # Damaged /\ bak' # Damaged
    BY <1>1, <1>5 DEF Plan, Recoverable, Readable, CountInv, machine, files
  <2>7. CASE s = prev[p]
    <3>1. Goto(p, "up") /\ Publish(p, s)
      BY <1>5, <2>7 DEF Plan
    <3>2. QED
      BY <1>1, <2>1, <2>5, <2>6, <2>7, <3>1, ResolvedStep
  <2>8. CASE s # prev[p]
    <3>1. Goto(p, "open") /\ last' = last /\ state'[p] = s
          /\ prev' = prev /\ basis' = basis /\ key' = key
      BY <1>5, <2>8 DEF Plan, TypeOK
    <3>2. ResolvingInv(p)'
      BY <1>1, <1>c, <2>1, <2>2, <2>6, <3>1 DEF ResolvingInv, Planned
    <3>3. QED
      BY <1>1, <1>a, <2>1, <2>6, <3>1, <3>2, ResolvingStep
  <2>9. QED
    BY <2>7, <2>8
<1>6. ASSUME NEW p \in Procs, OpenTmp(p) \/ WriteTmp(p)
      PROVE  CountInv' /\ last' = last
  <2>1. Resolving(p) /\ ResolvingInv(p) /\ pc[p] \in {"open", "write"}
    BY <1>6, <1>b DEF OpenTmp, WriteTmp, Resolving
  <2>2. Recoverable' = Recoverable /\ UNCHANGED <<guid, boot, instant, last, main, locals>>
        /\ main' # Damaged /\ bak' # Damaged
    BY <1>1, <1>6 DEF OpenTmp, WriteTmp, Recoverable, Readable, CountInv, machine
  <2>3. CASE OpenTmp(p)
    <3>1. ResolvingInv(p)'
      BY <1>1, <1>c, <2>1, <2>2, <2>3 DEF OpenTmp, ResolvingInv, Loaded, Planned, locals
    <3>2. QED
      BY <1>1, <2>1, <2>2, <2>3, <3>1, ResolvingStep DEF OpenTmp
  <2>4. CASE WriteTmp(p)
    <3>1. ResolvingInv(p)'
      BY <1>1, <1>c, <2>1, <2>2, <2>4 DEF WriteTmp, ResolvingInv, Loaded, Planned, locals
    <3>2. QED
      BY <1>1, <2>1, <2>2, <2>4, <3>1, ResolvingStep DEF WriteTmp
  <2>5. QED
    BY <1>6, <2>3, <2>4
<1>7. ASSUME NEW p \in Procs, Backup(p)
      PROVE  CountInv' /\ last' = last
  <2>1. Resolving(p) /\ ResolvingInv(p) /\ pc[p] = "backup"
    BY <1>7, <1>b DEF Backup, Resolving
  <2>2. main # Damaged /\ bak # Damaged
    BY <1>1 DEF CountInv
  <2>3. Recoverable' = Recoverable /\ main' # Damaged /\ bak' # Damaged
    BY <1>7, <2>2, NoneAssumption DEF Backup, Recoverable, Readable
  <2>4. UNCHANGED <<guid, boot, instant, last, tmp, locals>>
    BY <1>7 DEF Backup, machine
  <2>5. ResolvingInv(p)'
    BY <1>1, <1>7, <1>c, <2>1, <2>3, <2>4 DEF Backup, ResolvingInv, Loaded, Planned, locals
  <2>6. QED
    BY <1>1, <1>7, <2>1, <2>3, <2>4, <2>5, ResolvingStep DEF Backup
<1>8. ASSUME NEW p \in Procs, Replace(p)
      PROVE  CountInv' /\ NeverLower /\ (ClockKept' => NeverRepeated)
  <2>1. /\ Resolving(p) /\ ResolvingInv(p)
        /\ prev[p] = Recoverable /\ tmp = state[p]
        /\ state[p] = PlanEngineState(prev[p], basis[p], key[p])
        /\ ~Saturated(prev[p], basis[p])
    BY <1>8, <1>b DEF Replace, Resolving, ResolvingInv, Loaded, Planned
  <2>2. prev[p] \in State \cup {None} /\ (prev[p] # None => IdMatches(prev[p]))
        /\ key[p] \in Nat
    BY DEF TypeOK, IdentityInv
  <2>3. Covers(prev[p])
    BY <1>1, <2>1 DEF CountInv
  <2>4. Follows(state[p])
    BY <2>1, <2>2, <2>3, PlanFollows DEF ResolvingInv
  <2>5. main' = state[p] /\ bak' = bak /\ state[p] \in State
    BY <1>8, <2>1, <2>4 DEF Replace, Follows
  <2>6. Recoverable' = state[p] /\ main' # Damaged /\ bak' # Damaged
    BY <1>1, <2>5, NoneAssumption DEF Recoverable, Readable, CountInv
  <2>7. QED
    BY <1>1, <1>8, <2>1, <2>4, <2>6, ResolvedStep DEF Replace, machine
<1>9. ASSUME NEW p \in Procs, SaveFails(p)
      PROVE  FALSE
  BY <1>1, <1>9, NoSaveFails
<1>10. ASSUME NEW p \in Procs, Exit(p)
       PROVE  CountInv' /\ last' = last
  <2> DEFINE ps == {p}
  <2>1. Forget(ps) /\ UNCHANGED <<files, last>>
    BY <1>10 DEF Exit
  <2>2. UNCHANGED <<boot, instant>> /\ guid' = guid
    BY <1>10 DEF Exit, machine
  <2>3. ps \in SUBSET Procs /\ last' = last
    BY <2>1
  <2> HIDE DEF ps
  <2>4. \/ UNCHANGED <<boot, instant>>
        \/ ps = Procs /\ boot' = boot + 1 /\ instant' = instant + 2
    BY <2>2
  <2>5. guid' = guid \/ (guid' \in Guids \ usedGuids /\ ps = Procs)
    BY <2>2
  <2>6. CountInv'
    BY <1>1, <2>1, <2>3, <2>4, <2>5, ForgetCount
  <2>7. QED
    BY <2>3, <2>6
<1>11. ASSUME Reboot \/ Clone \/ Rename
       PROVE  CountInv' /\ last' = last
  <2>1. /\ Forget(Procs) /\ UNCHANGED <<files, last>>
        /\ guid' = guid \/ guid' \in Guids \ usedGuids
    BY <1>11 DEF Reboot, Clone, Rename, files
  <2>a. boot' = boot + 1 /\ instant' = instant + 2
    BY <1>11 DEF Reboot, Clone, Rename, NextBoot
  <2>2. QED
    BY <1>1, <2>1, <2>a, ForgetCount
<1>s. ASSUME SetClock
      PROVE  CountInv' /\ last' = last
  <2>1. ~ClockKept'
    BY <1>s DEF SetClock, Happens, ClockKept
  <2>2. UNCHANGED <<guid, boot, files, pc, locals, last>>
    BY <1>s DEF SetClock
  <2>3. Recoverable' = Recoverable /\ main' # Damaged /\ bak' # Damaged
    BY <1>1, <2>2 DEF Recoverable, Readable, CountInv, files
  <2>4. ASSUME NEW q \in Procs, Resolving(q)'
        PROVE  ResolvingInv(q)'
    BY <1>b, <2>1, <2>2, <2>3, <2>4
    DEF ResolvingInv, Resolving, Readable, files, locals
  <2>5. Covers(Recoverable)'
    BY <1>1, <2>1, <2>2, <2>3 DEF CountInv, Covers
  <2>6. QED
    BY <1>1, <2>1, <2>2, <2>3, <2>4, <2>5 DEF CountInv, Resolving
<1>12. ASSUME Damage
       PROVE  FALSE
  BY <1>12 DEF Damage, Happens, Unharmed, Harmful
<1>13. CASE UNCHANGED vars
  <2>1. CountInv'
    BY <1>1, <1>13
    DEF vars, machine, files, locals, events, CountInv, ResolvingInv, Resolving,
        Covers, Recoverable, Readable, ClockKept
  <2>2. QED
    BY <1>13, <1>a, <2>1 DEF vars
<1>14. QED
  BY <1>2, <1>3, <1>4, <1>5, <1>6, <1>7, <1>8, <1>9, <1>10, <1>11, <1>s, <1>12,
     <1>13, <1>a DEF Next, Resolve

LEMMA InvariantHolds == Spec => []IInv
<1>1. Init => IInv
  <2>1. Init => HistoryInv
    BY EngineIdOf DEF Init, HistoryInv, Basis
  <2>2. QED
    BY <2>1, InitIdentity, InitCount DEF IInv
<1>2. IInv /\ [Next]_vars => IInv'
  BY StepIdentity, StepHistory, StepCount DEF IInv
<1>3. QED
  BY <1>1, <1>2, PTL DEF Spec

\* Until something harmful happens, the service never publishes a smaller
\* count than before.
THEOREM CountNeverFalls == Spec => BootsNeverLower
<1>1. IInv /\ [Next]_vars => [Unharmed' => NeverLower]_vars
  BY StepCount DEF IInv
<1>2. QED
  BY <1>1, InvariantHolds, PTL DEF Spec, BootsNeverLower

\* ... nor, as long as nobody sets the wall clock, the same count in a later
\* boot.
THEOREM CountNeverRepeats == Spec => PairNeverRepeats
<1>1. IInv /\ [Next]_vars => [Unharmed' /\ ClockKept' => NeverRepeated]_vars
  BY StepCount DEF IInv
<1>2. QED
  BY <1>1, InvariantHolds, PTL DEF Spec, PairNeverRepeats

\* At every point of a save, what a restart would load accounts for what was
\* published.
THEOREM CrashSafe == Spec => []DiskCoversPublished
<1>1. IInv => DiskCoversPublished
  BY DEF IInv, CountInv, DiskCoversPublished
<1>2. QED
  BY <1>1, InvariantHolds, PTL

-----------------------------------------------------------------------------
(* A restart within one boot *)

\* While no boot instant was sampled at the edge of its unit and nobody set the
\* clock, all keys of a boot are the same, and once the service has published in
\* a boot the record on disk is the one of that boot.
SteadyInv ==
    /\ \A p \in Procs : Resolving(p) => key[p] = 2 * boot
    /\ last[MyId].boots > 0 /\ last[MyId].boot = boot =>
           /\ Recoverable.key = 2 * boot
           /\ Recoverable.boots = last[MyId].boots

\* What RestartKeepsBoots says of a step.
KeepsBoots ==
    \A i \in EngineIds :
        last[i].boots > 0 /\ last'[i].boot = last[i].boot
            => last'[i].boots = last[i].boots

\* What may be published without a restart being counted.
Repeats(s) ==
    /\ s \in State /\ s.id = MyId /\ s.key = 2 * boot
    /\ last[MyId].boots > 0 /\ last[MyId].boot = boot =>
           s.boots = last[MyId].boots

\* Planning from a record of this boot changes no count.
LEMMA PlanRepeats ==
    ASSUME TypeOK, IdentityInv, CountInv, SteadyInv, NEW p \in Procs,
           Resolving(p), ResolvingInv(p), prev[p] = Recoverable,
           ~Saturated(prev[p], basis[p])
    PROVE  Repeats(PlanEngineState(prev[p], basis[p], key[p]))
<1> DEFINE s == prev[p]
           g == basis[p]
           n == PlanEngineState(s, g, key[p])
<1>1. g = [value |-> guid, source |-> "machine-guid"]
  BY DEF ResolvingInv
<1>2. g \in BasisRecord /\ g.value = guid
  BY <1>1 DEF BasisRecord, TypeOK, Basis, Sources
<1>3. key[p] = 2 * boot /\ key[p] \in Nat
  BY DEF SteadyInv, TypeOK
<1>4. s \in State \cup {None} /\ (s # None => IdMatches(s))
  BY DEF TypeOK, IdentityInv
<1>5. n \in State /\ n.key = key[p] /\ n.id = MyId
  BY <1>2, <1>3, <1>4, PlanType, PlanIdentity DEF MyId
<1>6. ASSUME last[MyId].boots > 0, last[MyId].boot = boot
      PROVE  n.boots = last[MyId].boots
  <2>1. /\ s # None /\ s \in State /\ s.guid = guid /\ s.id = MyId
        /\ s.boots >= last[MyId].boots
    BY <1>4, <1>6 DEF CountInv, Covers, MyId
  <2>2. s.key = key[p] /\ s.boots = last[MyId].boots
    BY <1>3, <1>6 DEF SteadyInv
  <2>3. MyId # None
    BY <1>2, EngineIdOf, NoneAssumption DEF MyId, BasisRecord
  <2>4. HasId(s) /\ ~Foreign(s, g)
    BY <1>2, <2>1, <2>3 DEF HasId, Foreign
  <2>5. s.boots \in Nat /\ BootsMax \in Nat \ {0}
    BY <2>1, BoundsAssumption DEF State
  <2>6. s.boots < BootsMax
    BY <1>2, <2>1, <2>4, <2>5 DEF Saturated
  <2>7. s.boots >= 1
    BY <1>6, <2>2, <2>5
  <2>8. n.boots = s.boots
    BY <2>1, <2>2, <2>4, <2>5, <2>6, <2>7 DEF PlanEngineState
  <2>9. QED
    BY <2>2, <2>8
<1>7. QED
  BY <1>3, <1>5, <1>6 DEF Repeats

\* The last step of a process: it publishes what is on disk.
LEMMA SteadyResolved ==
    ASSUME TypeOK, CountInv, NEW p \in Procs, Resolving(p),
           Goto(p, "up"), NEW s, Repeats(s), Publish(p, s),
           UNCHANGED <<guid, boot>>, Recoverable' = s
    PROVE  SteadyInv' /\ KeepsBoots
<1>1. \A q \in Procs : ~Resolving(q)'
  BY OthersIdle DEF Resolving
<1>2. s \in State /\ s.id = MyId /\ MyId \in EngineIds /\ MyId' = MyId
  BY EngineIdOf DEF Repeats, MyId, TypeOK, Basis
<1>3. \A i \in EngineIds \ {MyId} : last'[i] = last[i]
  BY <1>2, PublishOne
<1>4. CASE p = Service
  <2>1. last'[MyId] = [boot |-> boot, boots |-> s.boots]
    BY <1>2, <1>4, PublishOne
  <2>2. last'[MyId].boot = boot /\ last'[MyId].boots = s.boots
    BY <2>1
  <2>3. SteadyInv'
    BY <1>1, <1>2, <2>2 DEF SteadyInv, Repeats
  <2>4. KeepsBoots
    BY <1>3, <2>2 DEF KeepsBoots, Repeats
  <2>5. QED
    BY <2>3, <2>4
<1>5. CASE p # Service
  <2>1. last' = last
    BY <1>2, <1>5, PublishOne
  <2>2. SteadyInv'
    BY <1>1, <1>2, <2>1 DEF SteadyInv, Repeats
  <2>3. QED
    BY <2>1, <2>2 DEF KeepsBoots
<1>6. QED
  BY <1>4, <1>5

\* A step that publishes nothing and leaves the record on disk.
LEMMA SteadyKept ==
    ASSUME SteadyInv, UNCHANGED <<guid, boot, last>>, Recoverable' = Recoverable,
           \A q \in Procs : Resolving(q)' => key'[q] = 2 * boot
    PROVE  SteadyInv' /\ KeepsBoots
BY DEF SteadyInv, KeepsBoots, MyId

\* A new boot makes what was published that of an earlier one.
LEMMA SteadyReboot ==
    ASSUME TypeOK, HistoryInv, Forget(Procs), boot' = boot + 1, last' = last,
           guid' \in Guids
    PROVE  SteadyInv' /\ KeepsBoots
<1>1. \A q \in Procs : ~Resolving(q)'
  BY DEF Forget, Resolving
<1>2. MyId' \in EngineIds
  BY EngineIdOf DEF MyId, Basis
<1>3. last'[MyId'].boot <= boot /\ last'[MyId'].boot \in Nat /\ boot \in Nat
  BY <1>2 DEF TypeOK, HistoryInv
<1>4. QED
  BY <1>1, <1>3 DEF SteadyInv, KeepsBoots

LEMMA StepSteady ==
    ASSUME TypeOK, IdentityInv, HistoryInv, CountInv, SteadyInv, [Next]_vars,
           Unharmed', ClockKept', "jitter" \notin happened'
    PROVE  SteadyInv' /\ KeepsBoots
<1>a. ASSUME NEW p \in Procs, Resolving(p)
      PROVE  ResolvingInv(p) /\ key[p] = 2 * boot
  BY <1>a DEF CountInv, SteadyInv
<1>b. main # Damaged /\ bak # Damaged
  BY DEF CountInv
<1>1. ASSUME NEW p \in Procs, Start(p)
      PROVE  SteadyInv' /\ KeepsBoots
  <2>1. PICK ev \in SUBSET {"guid", "jitter"} :
           /\ Happens(ev, IF \E q \in Procs \ {p} : Resolving(q)
                          THEN {"race"} ELSE {})
           /\ key' = [key EXCEPT ![p] = BootKey(ev)]
    BY <1>1 DEF Start
  <2>2. "jitter" \notin ev /\ \A q \in Procs \ {p} : ~Resolving(q)
    BY <2>1 DEF Happens, Unharmed, Harmful
  <2>3. \A q \in Procs \ {p} : ~Resolving(q)'
    BY <1>1, <2>2 DEF Start, Goto, Resolving, TypeOK
  <2>4. key'[p] = 2 * boot
    <3>1. instant = 2 * boot
      BY HappenedGrows DEF CountInv
    <3>2. QED
      BY <2>1, <2>2, <3>1 DEF BootKey, TypeOK
  <2>5. Recoverable' = Recoverable /\ UNCHANGED <<guid, boot, last>>
    BY <1>1 DEF Start, Recoverable, Readable, machine, files
  <2>6. QED
    BY <2>3, <2>4, <2>5, SteadyKept
<1>2. ASSUME NEW p \in Procs, Resolving(p), NEW l, Goto(p, l), key' = key,
             UNCHANGED <<guid, boot, last>>, Recoverable' = Recoverable
      PROVE  SteadyInv' /\ KeepsBoots
  <2>1. \A q \in Procs : Resolving(q)' => q = p
    BY <1>2, OthersIdle
  <2>2. QED
    BY <1>2, <1>a, <2>1, SteadyKept
<1>3. ASSUME NEW p \in Procs, LoadMain(p) \/ LoadBak(p)
      PROVE  SteadyInv' /\ KeepsBoots
  <2>1. Resolving(p) /\ \E l : Goto(p, l)
    BY <1>3 DEF LoadMain, LoadBak, Resolving
  <2>2. key' = key /\ UNCHANGED <<guid, boot, last>> /\ Recoverable' = Recoverable
    BY <1>3 DEF LoadMain, LoadBak, machine, files, Recoverable, Readable
  <2>3. QED
    BY <1>2, <2>1, <2>2
<1>4. ASSUME NEW p \in Procs, Plan(p)
      PROVE  SteadyInv' /\ KeepsBoots
  <2> DEFINE s == PlanEngineState(prev[p], basis[p], key[p])
  <2>1. Resolving(p) /\ ResolvingInv(p) /\ prev[p] = Recoverable
    BY <1>4, <1>a DEF Plan, Resolving, ResolvingInv, Loaded
  <2>2. ~Saturated(prev[p], basis[p])
    BY <1>4 DEF Plan, Happens, Unharmed, Harmful
  <2>3. Repeats(s)
    BY <2>1, <2>2, PlanRepeats
  <2>4. Recoverable' = Recoverable /\ key' = key /\ UNCHANGED <<guid, boot>>
    BY <1>4 DEF Plan, Recoverable, Readable, machine, files
  <2>5. CASE s = prev[p]
    <3>1. Goto(p, "up") /\ Publish(p, s)
      BY <1>4, <2>5 DEF Plan
    <3>2. QED
      BY <2>1, <2>3, <2>4, <2>5, <3>1, SteadyResolved
  <2>6. CASE s # prev[p]
    <3>1. Goto(p, "open") /\ last' = last
      BY <1>4, <2>6 DEF Plan
    <3>2. QED
      BY <1>2, <2>1, <2>4, <3>1
  <2>7. QED
    BY <2>5, <2>6
<1>5. ASSUME NEW p \in Procs, OpenTmp(p) \/ WriteTmp(p)
      PROVE  SteadyInv' /\ KeepsBoots
  <2>1. Resolving(p) /\ \E l : Goto(p, l)
    BY <1>5 DEF OpenTmp, WriteTmp, Resolving
  <2>2. key' = key /\ UNCHANGED <<guid, boot, last>> /\ Recoverable' = Recoverable
    BY <1>5 DEF OpenTmp, WriteTmp, machine, locals, Recoverable, Readable
  <2>3. QED
    BY <1>2, <2>1, <2>2
<1>6. ASSUME NEW p \in Procs, Backup(p)
      PROVE  SteadyInv' /\ KeepsBoots
  <2>1. Resolving(p) /\ Goto(p, "replace")
    BY <1>6 DEF Backup, Resolving
  <2>2. Recoverable' = Recoverable
    BY <1>6, <1>b, NoneAssumption DEF Backup, Recoverable, Readable
  <2>3. key' = key /\ UNCHANGED <<guid, boot, last>>
    BY <1>6 DEF Backup, machine, locals
  <2>4. QED
    BY <1>2, <2>1, <2>2, <2>3
<1>7. ASSUME NEW p \in Procs, Replace(p)
      PROVE  SteadyInv' /\ KeepsBoots
  <2>1. /\ Resolving(p) /\ ResolvingInv(p)
        /\ prev[p] = Recoverable /\ tmp = state[p]
        /\ state[p] = PlanEngineState(prev[p], basis[p], key[p])
        /\ ~Saturated(prev[p], basis[p])
    BY <1>7, <1>a DEF Replace, Resolving, ResolvingInv, Loaded, Planned
  <2>2. Repeats(state[p])
    BY <2>1, PlanRepeats
  <2>3. main' = state[p] /\ state[p] \in State
    BY <1>7, <2>1, <2>2 DEF Replace, Repeats
  <2>4. Recoverable' = state[p]
    BY <2>3, NoneAssumption DEF Recoverable, Readable
  <2>5. QED
    BY <1>7, <2>1, <2>2, <2>4, SteadyResolved DEF Replace, machine
<1>8. ASSUME NEW p \in Procs, SaveFails(p)
      PROVE  FALSE
  BY <1>8, NoSaveFails
<1>9. ASSUME NEW p \in Procs, Exit(p)
      PROVE  SteadyInv' /\ KeepsBoots
  <2>1. \A q \in Procs : Resolving(q)' => Resolving(q) /\ key'[q] = key[q]
    BY <1>9 DEF Exit, Forget, Resolving
  <2>2. Recoverable' = Recoverable /\ UNCHANGED <<guid, boot, last>>
    BY <1>9 DEF Exit, machine, files, Recoverable, Readable
  <2>3. QED
    BY <1>a, <2>1, <2>2, SteadyKept
<1>10. ASSUME Reboot \/ Clone \/ Rename
       PROVE  SteadyInv' /\ KeepsBoots
  <2>1. /\ Forget(Procs) /\ boot' = boot + 1 /\ last' = last /\ guid' \in Guids
    BY <1>10 DEF Reboot, Clone, Rename, NextBoot, TypeOK
  <2>2. QED
    BY <2>1, SteadyReboot
<1>s. ASSUME SetClock
      PROVE  FALSE
  BY <1>s DEF SetClock, Happens, ClockKept
<1>11. ASSUME Damage
       PROVE  FALSE
  BY <1>11 DEF Damage, Happens, Unharmed, Harmful
<1>12. CASE UNCHANGED vars
  <2>1. /\ Recoverable' = Recoverable /\ UNCHANGED <<guid, boot, last, key>>
        /\ \A q \in Procs : Resolving(q)' => Resolving(q)
    BY <1>12 DEF vars, machine, files, locals, Recoverable, Readable, Resolving
  <2>2. QED
    BY <1>a, <2>1, SteadyKept
<1>13. QED
  BY <1>1, <1>3, <1>4, <1>5, <1>6, <1>7, <1>8, <1>9, <1>10, <1>s, <1>11,
     <1>12
  DEF Next, Resolve

LEMMA InitSteady == Init => SteadyInv
<1> SUFFICES ASSUME Init PROVE SteadyInv
  OBVIOUS
<1>1. \A p \in Procs : ~Resolving(p)
  BY DEF Init, Resolving
<1>2. last[MyId].boots = 0
  BY EngineIdOf DEF Init, Basis, MyId
<1>3. QED
  BY <1>1, <1>2 DEF SteadyInv

\* Until something harmful happens, a boot instant is sampled at the edge of
\* its unit or the wall clock is set, the service publishes one count within
\* one boot, however often it restarts or another process saves the identity in
\* between.
THEOREM RestartNotCounted == Spec => RestartKeepsBoots
<1> DEFINE Steady == Unharmed /\ ClockKept /\ "jitter" \notin happened => SteadyInv
<1>1. Init => Steady
  BY InitSteady
<1>2. IInv /\ Steady /\ [Next]_vars =>
          Steady' /\ [Unharmed' /\ ClockKept' /\ "jitter" \notin happened'
                          => KeepsBoots]_vars
  <2>1. [Next]_vars => /\ happened \subseteq happened'
                       /\ (Unharmed' => Unharmed) /\ (ClockKept' => ClockKept)
    BY HappenedGrows
  <2>2. QED
    BY <2>1, StepSteady DEF IInv
<1>3. QED
  BY <1>1, <1>2, InvariantHolds, PTL DEF Spec, RestartKeepsBoots, KeepsBoots

=============================================================================
