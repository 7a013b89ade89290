--------------------------- MODULE IndexMapProofs ---------------------------
(* What TLAPS proves of IndexMap, for every set of adapters, every set of   *)
(* faults and every value of the bounds.                                    *)
EXTENDS IndexMap, TLAPS

\* A readable file is a map.
LEMMA ReadableIsMap ==
    ASSUME NEW f \in Map \cup {Absent, Damaged}
    PROVE  Readable(f) <=> f \in Map
BY FilesAssumption DEF Readable

\* The map a host starts with is one, and well formed.
LEMMA EmptyMapWellFormed == EmptyMap \in Map /\ WellFormed(EmptyMap)
BY DEF EmptyMap, Map, WellFormed, Distinct

\* What a rebuild loads is always a well formed map.
LEMMA RecoverableWellFormed ==
    ASSUME TypeOK, MapsInv
    PROVE  Recoverable \in Map /\ WellFormed(Recoverable)
BY ReadableIsMap, EmptyMapWellFormed DEF TypeOK, MapsInv, Recoverable

\* Giving a new adapter the next index keeps the map well formed, and keeps
\* the entries of the other adapters.
LEMMA AssignWellFormed ==
    ASSUME NEW m \in Map, WellFormed(m), NEW l \in Luids, m.index[l] = 0,
           NEW n, n = [index |-> [m.index EXCEPT ![l] = m.next],
                       next |-> m.next + 1]
    PROVE  /\ n \in Map /\ WellFormed(n)
           /\ n.index[l] # 0
           /\ \A k \in Luids : k # l => n.index[k] = m.index[k]
<1>1. m.index \in [Luids -> Nat] /\ m.next \in Nat /\ m.next # 0
  BY DEF Map
<1>2. n.index = [m.index EXCEPT ![l] = m.next] /\ n.next = m.next + 1
  OBVIOUS
<1>3. n.index \in [Luids -> Nat] /\ n.next \in Nat \ {0}
  BY <1>1, <1>2
<1>4. n \in Map
  BY <1>2, <1>3 DEF Map
<1>5. n.index[l] = m.next /\ \A k \in Luids : k # l => n.index[k] = m.index[k]
  BY <1>1, <1>2
<1>6. \A k \in Luids : m.index[k] \in Nat /\ m.index[k] < m.next
  BY <1>1 DEF WellFormed
<1>7. \A k \in Luids : n.index[k] < n.next
  BY <1>1, <1>2, <1>5, <1>6
<1>8. Distinct(n.index)
  BY <1>1, <1>5, <1>6 DEF WellFormed, Distinct
<1>9. QED
  BY <1>1, <1>4, <1>5, <1>7, <1>8 DEF WellFormed

-----------------------------------------------------------------------------
(* Types *)

LEMMA InitType == Init => TypeOK
<1> SUFFICES ASSUME Init PROVE TypeOK
  OBVIOUS
<1>1. changed \in BOOLEAN
  BY Zenon DEF Init
<1>2. imap \in Map
  BY EmptyMapWellFormed DEF Init
<1>3. served \in [Luids -> Nat] /\ given \in [Luids -> Nat]
  BY DEF Init
<1>4. QED
  BY <1>1, <1>2, <1>3 DEF Init, TypeOK

\* A fault is one of the kinds there are.
LEMMA FaultType ==
    ASSUME TypeOK, NEW kind, Fault(kind)
    PROVE  happened' \subseteq FaultKinds /\ faults' \in Nat
BY FaultsAssumption DEF TypeOK, Fault

LEMMA NextType ==
    ASSUME TypeOK, [Next]_vars
    PROVE  TypeOK'
<1> USE DEF TypeOK
<1>1. CASE Enumerate
  BY <1>1 DEF Enumerate, files, published, events, bounds
<1>2. CASE EnumerateFails
  BY <1>2, FaultType DEF EnumerateFails, files, locals, bounds
<1>3. CASE LoadMain
  BY <1>3, ReadableIsMap, FaultType
  DEF LoadMain, TryBak, Loaded, files, published, events, bounds
<1>4. CASE LoadBak
  BY <1>4, ReadableIsMap, EmptyMapWellFormed, FaultType
  DEF LoadBak, Loaded, files, published, events, bounds
<1>5. ASSUME NEW l \in Luids, Known(l) PROVE TypeOK'
  BY <1>5 DEF Known, files, published, events, bounds
<1>6. ASSUME NEW l \in Luids, Assign(l) PROVE TypeOK'
  <2>1. imap' \in Map
    BY <1>6 DEF Assign, NextIndex, Map
  <2>2. QED
    BY <1>6, <2>1 DEF Assign, files, published, events, bounds
<1>7. CASE Assigned
  BY <1>7 DEF Assigned, files, locals, published, events, bounds
<1>8. CASE OpenTmp
  BY <1>8 DEF OpenTmp, SaveStep, locals, published, events, bounds
<1>9. CASE WriteTmp
  BY <1>9 DEF WriteTmp, SaveStep, locals, published, events, bounds
<1>10. CASE Backup
  BY <1>10, FaultType DEF Backup, SaveStep, locals, published, events, bounds
<1>11. CASE Replace
  BY <1>11 DEF Replace, SaveStep, locals, published, events, bounds
<1>12. CASE SaveFails
  BY <1>12, FaultType DEF SaveFails, SaveStep, files, locals, published, bounds
<1>13. CASE Publish
  <2>1. imap.index \in [Luids -> Nat]
    BY DEF Map
  <2>2. served' \in [Luids -> Nat] /\ given' \in [Luids -> Nat]
    BY <1>13, <2>1 DEF Publish
  <2>3. QED
    BY <1>13, <2>2 DEF Publish, files, locals, events, bounds
<1>14. CASE RebuildFails
  BY <1>14 DEF RebuildFails, files, locals, published, events, bounds
<1>15. CASE Plug
  BY <1>15 DEF Plug, files, locals, published, events
<1>16. CASE Crash
  <2>1. changed' \in BOOLEAN
    BY <1>16, Zenon DEF Crash
  <2>2. served' \in [Luids -> Nat] /\ imap' \in Map
    BY <1>16, EmptyMapWellFormed DEF Crash
  <2>3. QED
    BY <1>16, <2>1, <2>2 DEF Crash, files, events
<1>17. CASE Damage
  BY <1>17, FaultType DEF Damage, locals, published, bounds
<1>18. CASE UNCHANGED vars
  BY <1>18 DEF vars, files, locals, published, events, bounds
<1>19. QED
  BY <1>1, <1>2, <1>3, <1>4, <1>5, <1>6, <1>7, <1>8, <1>9, <1>10, <1>11,
     <1>12, <1>13, <1>14, <1>15, <1>16, <1>17, <1>18
  DEF Next, GetInterfaces

\* Every state is one of the states the module describes: a rebuild always
\* works on a complete map, also when the file it read was damaged or half
\* written.
THEOREM TypeCorrect == Spec => []TypeOK
<1>1. Init => TypeOK
  BY InitType
<1>2. TypeOK /\ [Next]_vars => TypeOK'
  BY NextType
<1>3. QED
  BY <1>1, <1>2, PTL DEF Spec

-----------------------------------------------------------------------------
(* The maps *)

LEMMA InitMaps == Init => MapsInv
BY EmptyMapWellFormed, FilesAssumption DEF Init, MapsInv, Distinct

LEMMA NextMaps ==
    ASSUME TypeOK, MapsInv, [Next]_vars
    PROVE  MapsInv'
<1> USE DEF MapsInv
<1>1. CASE Enumerate
  BY <1>1 DEF Enumerate, files, published
<1>2. CASE EnumerateFails
  BY <1>2 DEF EnumerateFails, files, locals, Distinct
<1>3. CASE LoadMain
  <2>1. Readable(main) => WellFormed(main)
    BY ReadableIsMap DEF TypeOK
  <2>2. WellFormed(imap')
    BY <1>3, <2>1 DEF LoadMain, TryBak, Loaded
  <2>3. QED
    BY <1>3, <2>2 DEF LoadMain, TryBak, Loaded, files, published
<1>4. CASE LoadBak
  <2>1. Readable(bak) => WellFormed(bak)
    BY ReadableIsMap DEF TypeOK
  <2>2. WellFormed(imap')
    BY <1>4, <2>1, EmptyMapWellFormed DEF LoadBak, Loaded
  <2>3. QED
    BY <1>4, <2>2 DEF LoadBak, Loaded, files, published
<1>5. ASSUME NEW l \in Luids, Known(l) PROVE MapsInv'
  BY <1>5 DEF Known, files, published
<1>6. ASSUME NEW l \in Luids, Assign(l) PROVE MapsInv'
  <2>1. WellFormed(imap')
    BY <1>6, AssignWellFormed DEF TypeOK, Assign, NextIndex
  <2>2. imap'.index[l] # 0
    BY <1>6, Zenon, AssignWellFormed DEF TypeOK, MapsInv, Assign, NextIndex
  <2>3. \A k \in Luids : k # l => imap'.index[k] = imap.index[k]
    BY <1>6, AssignWellFormed DEF TypeOK, Assign, NextIndex
  <2>4. \A k \in rows' \ todo' : imap'.index[k] # 0
    BY <1>6, <2>2, <2>3 DEF TypeOK, Assign
  <2>5. QED
    BY <1>6, <2>1, <2>4 DEF Assign, files, published
<1>7. CASE Assigned
  BY <1>7 DEF Assigned, files, locals, published
<1>8. CASE OpenTmp
  BY <1>8, FilesAssumption DEF OpenTmp, SaveStep, locals, published
<1>9. CASE WriteTmp
  BY <1>9 DEF WriteTmp, SaveStep, locals, published
<1>10. CASE Backup
  BY <1>10, FilesAssumption DEF Backup, SaveStep, locals, published
<1>11. CASE Replace
  BY <1>11, FilesAssumption DEF Replace, SaveStep, locals, published
<1>12. CASE SaveFails
  BY <1>12 DEF SaveFails, SaveStep, files, locals, published
<1>13. CASE Publish
  <2>1. Distinct(served')
    BY <1>13 DEF Publish, WellFormed, Distinct
  <2>2. QED
    BY <1>13, <2>1 DEF Publish, files, locals
<1>14. CASE RebuildFails
  BY <1>14 DEF RebuildFails, files, locals, published
<1>15. CASE Plug
  BY <1>15 DEF Plug, files, locals, published
<1>16. CASE Crash
  BY <1>16, EmptyMapWellFormed DEF Crash, files, Distinct
<1>17. CASE Damage
  BY <1>17, FilesAssumption DEF Damage, locals, published
<1>18. CASE UNCHANGED vars
  BY <1>18 DEF vars, files, locals, published
<1>19. QED
  BY <1>1, <1>2, <1>3, <1>4, <1>5, <1>6, <1>7, <1>8, <1>9, <1>10, <1>11,
     <1>12, <1>13, <1>14, <1>15, <1>16, <1>17, <1>18
  DEF Next, GetInterfaces

-----------------------------------------------------------------------------
(* The published indices *)

LEMMA InitKept == Init => KeptInv
BY FilesAssumption DEF Init, KeptInv, Covers

\* What happened is not forgotten.
LEMMA StillUnharmed ==
    ASSUME [Next]_vars, Unharmed'
    PROVE  Unharmed
<1>1. happened \subseteq happened'
  BY DEF Next, GetInterfaces, Enumerate, EnumerateFails, LoadMain, TryBak,
         LoadBak, Loaded, Known, Assign, Assigned, OpenTmp, WriteTmp, Backup, Replace, SaveFails,
         Publish, RebuildFails, Plug, Crash, Damage, Fault, vars, events
<1>2. QED
  BY <1>1 DEF Unharmed

LEMMA NextKept ==
    ASSUME TypeOK, MapsInv, KeptInv, [Next]_vars, Unharmed'
    PROVE  KeptInv'
<1> USE DEF KeptInv
<1>1. CASE Enumerate
  BY <1>1 DEF Enumerate, files, published, Recoverable, Readable, Covers
<1>2. CASE EnumerateFails
  BY <1>2 DEF EnumerateFails, files, locals, Recoverable, Readable, Covers
<1>a. ~Fault("read")
  BY DEF Fault, Unharmed, Harmful
<1>3. CASE LoadMain
  BY <1>3, <1>a
  DEF LoadMain, TryBak, Loaded, files, published, Recoverable, Readable, Covers
<1>4. CASE LoadBak
  BY <1>4, <1>a
  DEF LoadBak, Loaded, files, published, Recoverable, Readable, Covers
<1>5. ASSUME NEW l \in Luids, Known(l) PROVE KeptInv'
  BY <1>5 DEF Known, files, published, Recoverable, Readable, Covers
<1>6. ASSUME NEW l \in Luids, Assign(l) PROVE KeptInv'
  <2>1. \A k \in Luids : k # l => imap'.index[k] = imap.index[k]
    BY <1>6, AssignWellFormed DEF TypeOK, MapsInv, Assign, NextIndex
  <2>2. given[l] = 0
    BY <1>6 DEF Assign, Covers
  <2>3. Covers(imap)'
    BY <1>6, <2>1, <2>2 DEF Assign, published, Covers
  <2>4. QED
    BY <1>6, <2>3 DEF Assign, files, published, Recoverable, Readable, Covers
<1>7. CASE Assigned
  BY <1>7 DEF Assigned, files, locals, published, Recoverable, Readable, Covers
<1>8. CASE OpenTmp
  BY <1>8
  DEF OpenTmp, SaveStep, locals, published, Recoverable, Readable, Covers
<1>9. CASE WriteTmp
  BY <1>9
  DEF WriteTmp, SaveStep, locals, published, Recoverable, Readable, Covers
<1>10. CASE Backup
  BY <1>10, FilesAssumption
  DEF Backup, SaveStep, locals, published, Recoverable, Readable, Covers
<1>11. CASE Replace
  <2>1. main' = imap /\ imap \in Map
    BY <1>11 DEF TypeOK, Replace
  <2>2. Recoverable' = imap
    BY <2>1, FilesAssumption DEF Recoverable, Readable
  <2>3. QED
    BY <1>11, <2>1, <2>2, FilesAssumption
    DEF Replace, SaveStep, locals, published, Covers
<1>12. CASE SaveFails
  <2>1. "save" \in happened'
    BY <1>12 DEF SaveFails, Fault
  <2>2. QED
    BY <2>1 DEF Unharmed, Harmful
<1>13. CASE Publish
  <2>1. Recoverable' = Recoverable /\ Recoverable = imap
    BY <1>13 DEF Publish, files, Recoverable, Readable
  <2>2. \A l \in Luids : given'[l] = IF l \in rows THEN imap.index[l]
                                                  ELSE given[l]
    BY <1>13 DEF Publish
  <2>3. Covers(Recoverable)'
    BY <2>1, <2>2 DEF Covers
  <2>4. QED
    BY <1>13, <2>3 DEF Publish, files, Recoverable, Readable
<1>14. CASE RebuildFails
  BY <1>14
  DEF RebuildFails, files, locals, published, Recoverable, Readable, Covers
<1>15. CASE Plug
  BY <1>15 DEF Plug, files, locals, published, Recoverable, Readable, Covers
<1>16. CASE Crash
  BY <1>16 DEF Crash, files, Recoverable, Readable, Covers
<1>17. CASE Damage
  <2>1. "damage" \in happened'
    BY <1>17 DEF Damage, Fault
  <2>2. QED
    BY <2>1 DEF Unharmed, Harmful
<1>18. CASE UNCHANGED vars
  BY <1>18 DEF vars, files, locals, published, Recoverable, Readable, Covers
<1>19. QED
  BY <1>1, <1>2, <1>3, <1>4, <1>5, <1>6, <1>7, <1>8, <1>9, <1>10, <1>11,
     <1>12, <1>13, <1>14, <1>15, <1>16, <1>17, <1>18
  DEF Next, GetInterfaces

-----------------------------------------------------------------------------
LEMMA InitInductive == Init => IInv
BY InitType, InitMaps, InitKept DEF IInv

LEMMA NextInductive ==
    ASSUME IInv, [Next]_vars
    PROVE  IInv'
<1>1. TypeOK' /\ MapsInv'
  BY NextType, NextMaps DEF IInv
<1>2. Unharmed' => KeptInv'
  BY StillUnharmed, NextKept DEF IInv
<1>3. QED
  BY <1>1, <1>2 DEF IInv

\* The maps on disk and in the rebuild are well formed in every state, and
\* until a save fails, a file is damaged or a good one cannot be read, the next
\* rebuild can load a map with every index ever published.
THEOREM Inductive == Spec => []IInv
<1>1. QED
  BY InitInductive, NextInductive, PTL DEF Spec

\* Two interfaces of one snapshot never share an ifIndex, whichever file the
\* map came from and whatever failed or was damaged before.
THEOREM SharedIndexNever == Spec => []NoSharedIndex
<1>1. IInv => NoSharedIndex
  BY DEF IInv, MapsInv, NoSharedIndex
<1>2. QED
  BY <1>1, Inductive, PTL

\* Until a save fails, a file is damaged or a good one cannot be read, no adapter
\* gets the index another one was published with.
THEOREM ReusedIndexNever == Spec => []IndexNotReused
<1>1. ASSUME IInv PROVE IndexNotReused
  <2>1. SUFFICES ASSUME Unharmed PROVE Distinct(given)
    BY DEF IndexNotReused
  <2>2. Covers(Recoverable) /\ WellFormed(Recoverable)
    BY <1>1, <2>1, RecoverableWellFormed DEF IInv, KeptInv
  <2>3. QED
    BY <2>2 DEF Covers, WellFormed, Distinct
<1>2. QED
  BY <1>1, Inductive, PTL

\* Until a save fails, a file is damaged or a good one cannot be read, an adapter
\* keeps the index it was first published with, across crashes anywhere in a
\* save.
THEOREM IndexKeptAlways == Spec => IndexKept
<1>1. ASSUME IInv, [Next]_vars, Unharmed', NEW l \in Luids
      PROVE  given[l] \in {0, given'[l]}
  <2>1. KeptInv
    BY <1>1, StillUnharmed DEF IInv
  <2>2. CASE Publish
    BY <2>1, <2>2 DEF Publish, KeptInv, Covers
  <2>3. CASE ~Publish
    <3>1. given' = given
      BY <1>1, <2>3
      DEF Next, GetInterfaces, Enumerate, EnumerateFails, LoadMain, TryBak,
          LoadBak, Loaded, Known, Assign, Assigned, OpenTmp, WriteTmp, Backup, Replace,
          SaveFails, RebuildFails, Plug, Crash, Damage, SaveStep, vars,
          published
    <3>2. QED
      BY <3>1
  <2>4. QED
    BY <2>2, <2>3
<1>2. IInv /\ [Next]_vars
      => [Unharmed' => KeepsIndex]_vars
  BY <1>1 DEF KeepsIndex
<1>3. QED
  BY <1>2, Inductive, PTL DEF Spec, IndexKept
===============================================================================
