--------------------------- MODULE UsmStoreProofs ---------------------------
(* What TLAPS proves of UsmStore, for every set of accounts, passphrases    *)
(* and commands, every set of faults and every value of the bounds.         *)
EXTENDS UsmStore, TLAPS

\* Commands and the service are different processes.
LEMMA ServiceIsProcess ==
    Service \in Procs /\ \A p \in Clis : p \in Procs /\ p # Service
BY ServiceAssumption DEF Procs

LEMMA NoUsersType == NoUsers \in Table /\ \A id : Fits(NoUsers, id)
BY ValuesAssumption DEF NoUsers, Table, Fits

LEMMA NoUsersAt == \A n \in Names : NoUsers[n] = None
BY DEF NoUsers

\* What a file holds when it is a store.
LEMMA StoreType ==
    ASSUME NEW f \in Store
    PROVE  f.users \in Table /\ f.engine \in Nat
BY DEF Store

\* Kinds of fault that a step meets are kinds there are.
LEMMA HappensType ==
    ASSUME TypeOK, NEW kinds, NEW noted, Happens(kinds, noted),
           noted \subseteq EventKinds
    PROVE  happened' \subseteq EventKinds /\ faults' \in Nat
BY FaultsAssumption DEF TypeOK, Happens, EventKinds

LEMMA TogetherType == \A p : Together(p) \subseteq EventKinds
BY DEF Together, EventKinds

LEMMA LeftoverType == \A ps : Leftover(ps) \subseteq EventKinds
BY DEF Leftover, EventKinds

-----------------------------------------------------------------------------
(* Types, in two parts: the variables that hold files and histories, and    *)
(* those that hold a value for each process.                                *)

LocalsType ==
    /\ pc \in [Procs -> Labels] /\ job \in [Procs -> Jobs]
    /\ \A p \in Clis : pc[p] # "down" => job[p] # None
    /\ eid \in [Procs -> Nat] /\ users \in [Procs -> Table]

LEMMA GotoType ==
    ASSUME TypeOK, NEW p \in Procs, NEW label \in Labels, Goto(p, label)
    PROVE  pc' \in [Procs -> Labels]
BY DEF TypeOK, Goto

LEMMA EndOrType ==
    ASSUME TypeOK, NEW p \in Procs, NEW label \in Labels, EndOr(p, label)
    PROVE  LocalsType'
<1>1. (IF p = Service THEN label ELSE "down") \in Labels
  BY DEF Labels
<1>2. pc' \in [Procs -> Labels]
  BY <1>1, GotoType DEF EndOr
<1>3. CASE p = Service
  BY <1>2, <1>3, ServiceIsProcess DEF EndOr, Goto, LocalsType, locals, TypeOK
<1>4. CASE p # Service
  <2>1. job' \in [Procs -> Jobs]
    BY <1>4 DEF EndOr, TypeOK, Jobs
  <2>2. eid' \in [Procs -> Nat] /\ users' \in [Procs -> Table]
    BY <1>4, NoUsersType DEF EndOr, TypeOK, HostEngine
  <2>3. \A q \in Clis : pc'[q] # "down" => job'[q] # None
    BY <1>4, ServiceIsProcess DEF EndOr, Goto, TypeOK
  <2>4. QED
    BY <1>2, <2>1, <2>2, <2>3 DEF LocalsType
<1>5. QED
  BY <1>3, <1>4

LEMMA EndType ==
    ASSUME TypeOK, NEW ps, End(ps)
    PROVE  LocalsType' /\ entries' \in Entries /\ seen' \subseteq Table
<1>1. pc' \in [Procs -> Labels]
  BY DEF TypeOK, End, Labels
<1>2. job' \in [Procs -> Jobs]
  BY DEF TypeOK, End, Jobs
<1>3. eid' \in [Procs -> Nat]
  BY DEF TypeOK, End, HostEngine
<1>4. users' \in [Procs -> Table]
  BY NoUsersType DEF TypeOK, End
<1>5. entries' \in Entries
  BY DEF TypeOK, End, NoEntries, Entries
<1>6. seen' \subseteq Table
  BY DEF TypeOK, End
<1>7. \A q \in Clis : pc'[q] # "down" => job'[q] # None
  BY ServiceIsProcess DEF End, TypeOK
<1>8. QED
  BY <1>1, <1>2, <1>3, <1>4, <1>5, <1>6, <1>7 DEF LocalsType

LEMMA LoadedType ==
    ASSUME TypeOK, NEW p \in Procs, NEW table \in Table, Loaded(p, table)
    PROVE  pc' \in [Procs -> Labels] /\ users' \in [Procs -> Table]
<1>1. (IF pc[p] \in {"load", "loadbak"} THEN "change" ELSE "register") \in Labels
  BY DEF Labels
<1>2. QED
  BY <1>1 DEF TypeOK, Loaded, Goto

LEMMA KeyType ==
    ASSUME TypeOK, NEW p \in Procs, NEW pass \in Passes
    PROVE  KeyFor(p, pass) \in Keys
BY DEF TypeOK, KeyFor, Keys

LEMMA ConfirmedType ==
    ASSUME TypeOK, NEW p \in Procs, p # Service => job[p] # None
    PROVE  Confirmed(p) \in Table
<1>1. CASE p = Service
  <2>1. \A n \in Names : entries[n] # None => KeyFor(p, entries[n]) \in Keys
    BY KeyType DEF TypeOK, Entries
  <2>2. QED
    BY <1>1, <2>1 DEF TypeOK, Confirmed, Table
<1>2. CASE p # Service
  <2>1. job[p].name \in Names
    BY <1>2 DEF TypeOK, Jobs
  <2>2. users[p][job[p].name] \in Keys \cup {None}
    BY <2>1 DEF TypeOK, Table
  <2>3. QED
    BY <1>2, <2>1, <2>2 DEF TypeOK, Confirmed, Table
<1>3. QED
  BY <1>1, <1>2

LEMMA InitType == Init => TypeOK
<1> SUFFICES ASSUME Init PROVE TypeOK
  OBVIOUS
<1>1. spent \in BOOLEAN /\ late \in BOOLEAN
  BY Zenon DEF Init
<1>2. users \in [Procs -> Table] /\ promised \in Table
  BY NoUsersType DEF Init
<1>3. entries \in Entries
  BY DEF Init, NoEntries, Entries
<1>4. LocalsType
  BY <1>2, ServiceIsProcess DEF Init, LocalsType, Labels, Jobs, HostEngine
<1>5. engine \in Nat \ {HostEngine}
  BY DEF Init, HostEngine
<1>6. QED
  BY <1>1, <1>2, <1>3, <1>4, <1>5 DEF Init, TypeOK, LocalsType, File, Drop

LEMMA NextFlags ==
    ASSUME TypeOK, [Next]_vars
    PROVE  spent' \in BOOLEAN /\ late' \in BOOLEAN
BY Zenon
DEF TypeOK, Next, Command, Storing, Provisioning, StartService, StartCommand,
    LoadMain, LoadBak, Refused, Change, Merge, OpenTmp, WriteTmp, Backup,
    Replace, SaveFails, Look, ReadDrop, Overwrite, Remove, ShredFails,
    Register, Exit, Clone, DropFile, Damage, vars, provisioning

\* TypeOK without the flags.
ValuesType ==
    /\ engine \in Nat \ {HostEngine}
    /\ main \in File /\ bak \in File /\ tmp \in File
    /\ drop \in Drop /\ entries \in Entries
    /\ promised \in Table /\ seen \subseteq Table
    /\ happened \subseteq EventKinds
    /\ starts \in Nat /\ drops \in Nat /\ faults \in Nat

LEMMA TypeParts ==
    TypeOK <=> /\ ValuesType /\ LocalsType
               /\ spent \in BOOLEAN /\ late \in BOOLEAN
BY Zenon DEF TypeOK, ValuesType, LocalsType

LEMMA NextValues ==
    ASSUME TypeOK, [Next]_vars
    PROVE  ValuesType' /\ LocalsType'
<1> USE ServiceIsProcess
<1> USE DEF TypeOK, ValuesType
<1>1. CASE StartService
  <2>1. PICK kinds \in {{}, {"identity"}} : Begin(Service, kinds, {})
    BY <1>1 DEF StartService
  <2>2. happened' \subseteq EventKinds /\ faults' \in Nat
    BY <2>1, HappensType DEF Begin
  <2>3. pc' \in [Procs -> Labels]
    BY <1>1 DEF StartService, Goto, Labels
  <2>4. eid' \in [Procs -> Nat]
    BY <2>1 DEF Begin, HostEngine
  <2>5. LocalsType'
    BY <1>1, <2>3, <2>4 DEF StartService, Goto, LocalsType
  <2>6. ValuesType'
    BY <1>1, <2>1, <2>2 DEF StartService, Begin, files, history
  <2>7. QED
    BY <2>5, <2>6
<1>2. ASSUME NEW p \in Clis, StartCommand(p) PROVE ValuesType' /\ LocalsType'
  <2>1. PICK kinds \in {{}, {"identity"}} : Begin(p, kinds, Together(p))
    BY <1>2 DEF StartCommand
  <2>2. happened' \subseteq EventKinds /\ faults' \in Nat
    BY <2>1, HappensType, TogetherType DEF Begin
  <2>3. pc' \in [Procs -> Labels]
    BY <1>2 DEF StartCommand, Goto, Labels
  <2>4. eid' \in [Procs -> Nat]
    BY <2>1 DEF Begin, HostEngine
  <2>5. job' \in [Procs -> Jobs] /\ job'[p] # None
        /\ \A q \in Procs : q # p => job'[q] = job[q]
    BY <1>2 DEF StartCommand
  <2>6. LocalsType'
    BY <1>2, <2>3, <2>4, <2>5 DEF StartCommand, Goto, LocalsType
  <2>7. ValuesType'
    BY <1>2, <2>1, <2>2 DEF StartCommand, Begin, files, history, provisioning
  <2>8. QED
    BY <2>6, <2>7
<1>3. ASSUME NEW p \in Procs, LoadMain(p) PROVE ValuesType' /\ LocalsType'
  <2>1. Usable(main, eid[p]) => main.users \in Table
    BY StoreType DEF Usable
  <2>2. pc' \in [Procs -> Labels] /\ users' \in [Procs -> Table]
    BY <1>3, <2>1, LoadedType DEF LoadMain, Goto, Labels
  <2>3. happened' \subseteq EventKinds /\ faults' \in Nat
    BY <1>3, HappensType DEF LoadMain, events
  <2>4. \A q \in Clis : pc'[q] # "down" => pc[q] # "down"
    BY <1>3 DEF LoadMain, Loaded, Goto
  <2>5. QED
    BY <1>3, <2>2, <2>3, <2>4
    DEF LoadMain, LocalsType, files, provisioning, history, bounds
<1>4. ASSUME NEW p \in Procs, LoadBak(p) PROVE ValuesType' /\ LocalsType'
  <2>1. (IF Usable(bak, eid[p]) THEN bak.users ELSE NoUsers) \in Table
    BY StoreType, NoUsersType DEF Usable
  <2>2. pc' \in [Procs -> Labels] /\ users' \in [Procs -> Table]
    BY <1>4, <2>1, LoadedType DEF LoadBak
  <2>3. \A q \in Clis : pc'[q] # "down" => pc[q] # "down"
    BY <1>4 DEF LoadBak, Loaded, Goto
  <2>4. QED
    BY <1>4, <2>2, <2>3
    DEF LoadBak, LocalsType, files, provisioning, history, events, bounds
<1>5. ASSUME NEW p \in Clis, Refused(p) PROVE ValuesType' /\ LocalsType'
  <2>1. LocalsType'
    BY <1>5, EndOrType DEF Refused, Labels
  <2>2. QED
    BY <1>5, <2>1 DEF Refused, files, provisioning, history, events, bounds
<1>6. ASSUME NEW p \in Clis, Change(p) PROVE ValuesType' /\ LocalsType'
  <2>1. job[p].name \in Names /\ job[p].pass \in Passes
    BY <1>6 DEF Change, Jobs
  <2>2. (IF job[p].op = "add" THEN KeyFor(p, job[p].pass) ELSE None)
           \in Keys \cup {None}
    BY <2>1, KeyType
  <2>3. users' \in [Procs -> Table]
    BY <1>6, <2>1, <2>2 DEF Change, Table
  <2>4. LocalsType'
    BY <1>6, <2>3 DEF Change, Goto, LocalsType, Labels
  <2>5. QED
    BY <1>6, <2>4 DEF Change, files, provisioning, history, events, bounds
<1>7. CASE Merge
  <2>1. \A n \in Names : entries[n] # None => KeyFor(Service, entries[n]) \in Keys
    BY KeyType DEF Entries
  <2>2. users' \in [Procs -> Table]
    BY <1>7, <2>1 DEF Merge, Table
  <2>3. LocalsType'
    BY <1>7, <2>2 DEF Merge, Goto, LocalsType, Labels
  <2>4. QED
    BY <1>7, <2>3 DEF Merge, files, provisioning, history, events, bounds
<1>8. ASSUME NEW p \in Procs, OpenTmp(p) PROVE ValuesType' /\ LocalsType'
  <2>1. LocalsType'
    BY <1>8 DEF OpenTmp, Goto, LocalsType, Labels, locals
  <2>2. QED
    BY <1>8, <2>1
    DEF OpenTmp, File, provisioning, history, events, bounds
<1>9. ASSUME NEW p \in Procs, WriteTmp(p) PROVE ValuesType' /\ LocalsType'
  <2>1. LocalsType'
    BY <1>9 DEF WriteTmp, Goto, LocalsType, Labels, locals
  <2>2. tmp' \in File
    BY <1>9 DEF WriteTmp, File, Store
  <2>3. QED
    BY <1>9, <2>1, <2>2
    DEF WriteTmp, provisioning, history, events, bounds
<1>10. ASSUME NEW p \in Procs, Backup(p) PROVE ValuesType' /\ LocalsType'
  <2>1. LocalsType'
    BY <1>10 DEF Backup, Goto, LocalsType, Labels, locals
  <2>2. happened' \subseteq EventKinds /\ faults' \in Nat
    BY <1>10, HappensType DEF Backup, events
  <2>3. QED
    BY <1>10, <2>1, <2>2 DEF Backup, File, provisioning, history, bounds
<1>11. ASSUME NEW p \in Procs, Replace(p) PROVE ValuesType' /\ LocalsType'
  <2>1. LocalsType'
    BY <1>11, EndOrType DEF Replace, Labels
  <2>2. promised' \in Table
    BY <1>11, ConfirmedType DEF Replace, Procs
  <2>3. seen' \subseteq Table
    BY <1>11, <2>2 DEF Replace
  <2>4. QED
    BY <1>11, <2>1, <2>2, <2>3 DEF Replace, File, events, bounds
<1>12. ASSUME NEW p \in Procs, SaveFails(p) PROVE ValuesType' /\ LocalsType'
  <2>1. LocalsType'
    BY <1>12, EndOrType DEF SaveFails, Labels
  <2>2. happened' \subseteq EventKinds /\ faults' \in Nat
    BY <1>12, HappensType DEF SaveFails, events
  <2>3. QED
    BY <1>12, <2>1, <2>2 DEF SaveFails, files, provisioning, history, bounds
<1>13. CASE Look
  <2>1. LocalsType'
    BY <1>13 DEF Look, StartLoad, Goto, LocalsType, Labels, locals
  <2>2. QED
    BY <1>13, <2>1 DEF Look, StartLoad, files, provisioning, events, bounds
<1>14. CASE ReadDrop
  <2>1. LocalsType'
    BY <1>14 DEF ReadDrop, Goto, LocalsType, Labels, locals
  <2>2. happened' \subseteq EventKinds /\ faults' \in Nat
    BY <1>14, HappensType, TogetherType DEF ReadDrop, events
  <2>3. QED
    BY <1>14, <2>1, <2>2 DEF ReadDrop, files, history, bounds
<1>15. CASE Overwrite
  <2>1. LocalsType'
    BY <1>15 DEF Overwrite, Goto, LocalsType, Labels, locals
  <2>2. QED
    BY <1>15, <2>1 DEF Overwrite, Drop, files, history, events, bounds
<1>16. CASE Remove
  <2>1. LocalsType'
    BY <1>16 DEF Remove, StartLoad, Goto, LocalsType, Labels, locals
  <2>2. QED
    BY <1>16, <2>1
    DEF Remove, StartLoad, Drop, NoEntries, Entries, files, events, bounds
<1>17. CASE ShredFails
  <2>1. LocalsType'
    BY <1>17 DEF ShredFails, StartLoad, Goto, LocalsType, Labels, locals
  <2>2. (IF spent THEN {"leftover"} ELSE {}) \subseteq EventKinds
    BY DEF EventKinds
  <2>3. happened' \subseteq EventKinds /\ faults' \in Nat
    BY <1>17, <2>2, HappensType DEF ShredFails
  <2>4. QED
    BY <1>17, <2>1, <2>3
    DEF ShredFails, StartLoad, NoEntries, Entries, files, bounds
<1>18. CASE Register
  <2>1. LocalsType'
    BY <1>18 DEF Register, Goto, LocalsType, Labels, locals
  <2>2. QED
    BY <1>18, <2>1 DEF Register, files, provisioning, events, bounds
<1>19. ASSUME NEW p \in Procs, Exit(p) PROVE ValuesType' /\ LocalsType'
  <2>1. happened' \subseteq EventKinds /\ faults' \in Nat
    BY <1>19, HappensType, LeftoverType DEF Exit
  <2>2. QED
    BY <1>19, <2>1, EndType DEF Exit, files, bounds
<1>20. CASE Clone
  <2>1. happened' \subseteq EventKinds /\ faults' \in Nat
    BY <1>20, HappensType, LeftoverType DEF Clone
  <2>2. QED
    BY <1>20, <2>1, EndType, NoUsersType DEF Clone, files, bounds, HostEngine
<1>21. CASE DropFile
  BY <1>21 DEF DropFile, LocalsType, Drop, files, locals, history, events
<1>22. CASE Damage
  <2>1. happened' \subseteq EventKinds /\ faults' \in Nat
    BY <1>22, HappensType DEF Damage
  <2>2. QED
    BY <1>22, <2>1
    DEF Damage, LocalsType, File, locals, provisioning, history, bounds
<1>23. CASE UNCHANGED vars
  BY <1>23
  DEF vars, LocalsType, files, locals, provisioning, history, events, bounds
<1>24. QED
  BY <1>1, <1>2, <1>3, <1>4, <1>5, <1>6, <1>7, <1>8, <1>9, <1>10, <1>11,
     <1>12, <1>13, <1>14, <1>15, <1>16, <1>17, <1>18, <1>19, <1>20, <1>21,
     <1>22, <1>23
  DEF Next, Command, Storing, Provisioning

LEMMA NextType ==
    ASSUME TypeOK, [Next]_vars
    PROVE  TypeOK'
<1>1. ValuesType' /\ LocalsType' /\ spent' \in BOOLEAN /\ late' \in BOOLEAN
  BY NextValues, NextFlags
<1>2. QED
  BY <1>1, Zenon DEF TypeOK, ValuesType, LocalsType

\* A process never works on anything but a table of accounts, whatever the
\* files it reads have become.
THEOREM TypeCorrect == Spec => []TypeOK
<1>1. QED
  BY InitType, NextType, PTL DEF Spec

-----------------------------------------------------------------------------
(* Keys *)

\* The three facts of KeysInv are about the files and about the processes.
LEMMA InitKeys == Init => KeysInv
BY NoUsersType, ValuesAssumption DEF Init, KeysInv

LEMMA KeyFits ==
    ASSUME NEW p, NEW pass
    PROVE  KeyFor(p, pass).engine = eid[p]
BY DEF KeyFor

\* A process that loads gets accounts that fit the engineID it asks for.
LEMMA LoadFits ==
    ASSUME KeysInv, NEW id
    PROVE  /\ Usable(main, id) => Fits(main.users, id)
           /\ Fits(IF Usable(bak, id) THEN bak.users ELSE NoUsers, id)
BY NoUsersType DEF KeysInv, Usable

\* A process that ends has no accounts left.
LEMMA EndKeys ==
    ASSUME TypeOK, KeysInv, NEW ps, End(ps)
    PROVE  /\ \A p \in Procs : Fits(users[p], eid[p])'
           /\ \A p \in Procs : pc'[p] = "down" => users'[p] = NoUsers
BY NoUsersType DEF TypeOK, KeysInv, End, Fits

LEMMA EndOrKeys ==
    ASSUME TypeOK, KeysInv, NEW p \in Procs, NEW label, label # "down",
           EndOr(p, label)
    PROVE  /\ \A q \in Procs : Fits(users[q], eid[q])'
           /\ \A q \in Procs : pc'[q] = "down" => users'[q] = NoUsers
<1>1. CASE p = Service
  BY <1>1 DEF TypeOK, KeysInv, EndOr, Goto, Fits, locals
<1>2. CASE p # Service
  <2>1. \A q \in Procs : users'[q] = IF q = p THEN NoUsers ELSE users[q]
    BY <1>2 DEF TypeOK, EndOr
  <2>2. \A q \in Procs : q # p => eid'[q] = eid[q] /\ pc'[q] = pc[q]
    BY <1>2 DEF TypeOK, EndOr, Goto
  <2>3. \A q \in Procs : Fits(users[q], eid[q])'
    <3>1. ASSUME NEW q \in Procs, NEW n \in Names, users'[q][n] # None
          PROVE  users'[q][n].engine = eid'[q]
      <4>1. q # p
        BY <3>1, <2>1, NoUsersAt
      <4>2. QED
        BY <3>1, <4>1, <2>1, <2>2 DEF KeysInv, Fits
    <3>2. QED
      BY <3>1 DEF Fits
  <2>4. QED
    BY <2>1, <2>2, <2>3 DEF KeysInv
<1>3. QED
  BY <1>1, <1>2

LEMMA LoadKeys ==
    ASSUME TypeOK, KeysInv, NEW p \in Procs, NEW table, Fits(table, eid[p]),
           Loaded(p, table), eid' = eid
    PROVE  /\ \A q \in Procs : Fits(users[q], eid[q])'
           /\ \A q \in Procs : pc'[q] = "down" => users'[q] = NoUsers
<1>1. \A q \in Procs : users'[q] = IF q = p THEN table ELSE users[q]
  BY DEF TypeOK, Loaded
<1>2. pc'[p] # "down" /\ \A q \in Procs : q # p => pc'[q] = pc[q]
  BY DEF TypeOK, Loaded, Goto
<1>3. QED
  BY <1>1, <1>2 DEF KeysInv, Fits

LEMMA NextKeys ==
    ASSUME TypeOK, KeysInv, [Next]_vars
    PROVE  KeysInv'
<1> USE ServiceIsProcess
<1> USE DEF KeysInv, Fits
<1>1. CASE StartService
  <2>1. users[Service] = NoUsers /\ \A q \in Procs : q # Service => eid'[q] = eid[q]
    BY <1>1 DEF TypeOK, StartService, Begin
  <2>2. users' = users
    BY <1>1 DEF StartService
  <2>3. \A q \in Procs : Fits(users[q], eid[q])'
    BY <2>1, <2>2, NoUsersAt
  <2>4. \A q \in Procs : pc'[q] = "down" => pc[q] = "down"
    BY <1>1 DEF TypeOK, StartService, Goto
  <2>5. QED
    BY <1>1, <2>2, <2>3, <2>4 DEF StartService, files
<1>2. ASSUME NEW p \in Clis, StartCommand(p) PROVE KeysInv'
  <2>1. users[p] = NoUsers /\ \A q \in Procs : q # p => eid'[q] = eid[q]
    BY <1>2 DEF TypeOK, StartCommand, Begin
  <2>2. users' = users
    BY <1>2 DEF StartCommand
  <2>3. \A q \in Procs : Fits(users[q], eid[q])'
    BY <2>1, <2>2, NoUsersAt
  <2>4. \A q \in Procs : pc'[q] = "down" => pc[q] = "down"
    BY <1>2 DEF TypeOK, StartCommand, Goto
  <2>5. QED
    BY <1>2, <2>2, <2>3, <2>4 DEF StartCommand, files
<1>3. ASSUME NEW p \in Procs, LoadMain(p) PROVE KeysInv'
  <2>1. CASE ~(Usable(main, eid[p]) /\ Loaded(p, main.users))
    <3>1. users' = users /\ \A q \in Procs : pc'[q] = "down" => pc[q] = "down"
      BY <1>3, <2>1 DEF TypeOK, LoadMain, Goto
    <3>2. QED
      BY <1>3, <2>1, <3>1 DEF LoadMain, files
  <2>2. CASE Usable(main, eid[p]) /\ Loaded(p, main.users)
    BY <1>3, <2>2, LoadKeys, LoadFits DEF LoadMain, files
  <2>3. QED
    BY <2>1, <2>2
<1>4. ASSUME NEW p \in Procs, LoadBak(p) PROVE KeysInv'
  BY <1>4, LoadKeys, LoadFits DEF LoadBak, files
<1>5. ASSUME NEW p \in Clis, Refused(p) PROVE KeysInv'
  <2>1. EndOr(p, "reload") /\ p \in Procs
    BY <1>5 DEF Refused, EndOr
  <2>2. QED
    BY <1>5, <2>1, EndOrKeys DEF Refused, files
<1>6. ASSUME NEW p \in Clis, Change(p) PROVE KeysInv'
  <2>1. job[p].name \in Names
    BY <1>6 DEF TypeOK, Change, Jobs
  <2>2. \A n \in Names : users'[p][n] # None => users'[p][n].engine = eid[p]
    BY <1>6, <2>1, KeyFits DEF TypeOK, Table, Change
  <2>3. QED
    BY <1>6, <2>2 DEF TypeOK, Change, Goto, files
<1>7. CASE Merge
  <2>1. \A n \in Names : users'[Service][n] # None
                             => users'[Service][n].engine = eid[Service]
    BY <1>7, KeyFits DEF TypeOK, Merge
  <2>2. QED
    BY <1>7, <2>1 DEF TypeOK, Merge, Goto, files
<1>8. ASSUME NEW p \in Procs, OpenTmp(p) PROVE KeysInv'
  BY <1>8, ValuesAssumption DEF TypeOK, OpenTmp, Goto, locals
<1>9. ASSUME NEW p \in Procs, WriteTmp(p) PROVE KeysInv'
  <2>1. tmp'.users = users[p] /\ tmp'.engine = eid[p]
    BY <1>9 DEF WriteTmp
  <2>2. Fits(tmp'.users, tmp'.engine)
    BY <2>1
  <2>3. QED
    BY <1>9, <2>2 DEF TypeOK, WriteTmp, Goto, locals
<1>10. ASSUME NEW p \in Procs, Backup(p) PROVE KeysInv'
  BY <1>10, ValuesAssumption DEF TypeOK, Backup, Goto, locals
<1>11. ASSUME NEW p \in Procs, Replace(p) PROVE KeysInv'
  BY <1>11, EndOrKeys, ValuesAssumption DEF Replace
<1>12. ASSUME NEW p \in Procs, SaveFails(p) PROVE KeysInv'
  BY <1>12, EndOrKeys DEF SaveFails, files
<1>13. CASE Look
  BY <1>13 DEF TypeOK, Look, StartLoad, Goto, locals, files
<1>14. CASE ReadDrop
  BY <1>14 DEF TypeOK, ReadDrop, Goto, locals, files
<1>15. CASE Overwrite
  BY <1>15 DEF TypeOK, Overwrite, Goto, locals, files
<1>16. CASE Remove
  BY <1>16 DEF TypeOK, Remove, StartLoad, Goto, locals, files
<1>17. CASE ShredFails
  BY <1>17 DEF TypeOK, ShredFails, StartLoad, Goto, locals, files
<1>18. CASE Register
  BY <1>18 DEF TypeOK, Register, Goto, locals, files
<1>19. ASSUME NEW p \in Procs, Exit(p) PROVE KeysInv'
  BY <1>19, EndKeys DEF Exit, files
<1>20. CASE Clone
  BY <1>20, EndKeys DEF Clone, files
<1>21. CASE DropFile
  BY <1>21 DEF DropFile, files, locals
<1>22. CASE Damage
  BY <1>22, ValuesAssumption DEF Damage, locals
<1>23. CASE UNCHANGED vars
  BY <1>23 DEF vars, files, locals
<1>24. QED
  BY <1>1, <1>2, <1>3, <1>4, <1>5, <1>6, <1>7, <1>8, <1>9, <1>10, <1>11,
     <1>12, <1>13, <1>14, <1>15, <1>16, <1>17, <1>18, <1>19, <1>20, <1>21,
     <1>22, <1>23
  DEF Next, Command, Storing, Provisioning

\* A service only ever registers keys that were localized for the engineID it
\* runs under: after clones, failed registry reads and any damage.
THEOREM KeysAlwaysFit == Spec => []KeysFitEngine
<1>1. Init => TypeOK /\ KeysInv
  BY InitType, InitKeys
<1>2. TypeOK /\ KeysInv /\ [Next]_vars => (TypeOK /\ KeysInv)'
  BY NextType, NextKeys
<1>3. KeysInv => KeysFitEngine
  BY ServiceIsProcess DEF KeysInv, KeysFitEngine, Fits
<1>4. QED
  BY <1>1, <1>2, <1>3, PTL DEF Spec

-----------------------------------------------------------------------------
(* The provisioning file *)

\* What happened is not forgotten.
LEMMA HappenedGrows ==
    ASSUME [Next]_vars
    PROVE  happened \subseteq happened'
BY DEF Next, Command, Storing, Provisioning, StartService, StartCommand, Begin,
       LoadMain, LoadBak, Refused, Change, Merge, OpenTmp, WriteTmp, Backup,
       Replace, SaveFails, Look, ReadDrop, Overwrite, Remove, ShredFails,
       Register, Exit, Clone, DropFile, Damage, Happens, vars, events

\* The service has been through with the provisioning file.
PastShred(label) == label \in {"reload", "reloadbak", "register", "up"}

LEMMA InitShred == Init => NoPassphraseLeft /\ SpentInv
BY ServiceIsProcess, Zenon DEF Init, NoPassphraseLeft, SpentInv

\* Every step that leaves the file alone and does not pass the deletion.
LEMMA ShredKept ==
    ASSUME NoPassphraseLeft, [Next]_vars, drop' = drop, late' = late,
           PastShred(pc'[Service]) => PastShred(pc[Service])
    PROVE  NoPassphraseLeft'
<1>1. happened \subseteq happened'
  BY HappenedGrows
<1>2. QED
  BY <1>1 DEF NoPassphraseLeft, PastShred

LEMMA NextShred ==
    ASSUME TypeOK, NoPassphraseLeft, [Next]_vars
    PROVE  NoPassphraseLeft'
<1> USE ServiceIsProcess
<1> USE DEF TypeOK
<1>1. CASE StartService
  BY <1>1 DEF StartService, Goto, NoPassphraseLeft
<1>2. ASSUME NEW p \in Clis, StartCommand(p) PROVE NoPassphraseLeft'
  BY <1>2, ShredKept DEF StartCommand, Goto, provisioning
<1>3. ASSUME NEW p \in Procs, LoadMain(p) PROVE NoPassphraseLeft'
  <2>1. PastShred(pc'[Service]) => PastShred(pc[Service])
    BY <1>3 DEF LoadMain, Loaded, Goto, PastShred
  <2>2. QED
    BY <1>3, <2>1, ShredKept DEF LoadMain, provisioning
<1>4. ASSUME NEW p \in Procs, LoadBak(p) PROVE NoPassphraseLeft'
  <2>1. PastShred(pc'[Service]) => PastShred(pc[Service])
    BY <1>4 DEF LoadBak, Loaded, Goto, PastShred
  <2>2. QED
    BY <1>4, <2>1, ShredKept DEF LoadBak, provisioning
<1>5. ASSUME NEW p \in Clis, Refused(p) PROVE NoPassphraseLeft'
  BY <1>5, ShredKept DEF Refused, EndOr, Goto, provisioning
<1>6. ASSUME NEW p \in Clis, Change(p) PROVE NoPassphraseLeft'
  BY <1>6, ShredKept DEF Change, Goto, provisioning
<1>7. CASE Merge
  BY <1>7, ShredKept DEF Merge, Goto, PastShred, provisioning
<1>8. ASSUME NEW p \in Procs, OpenTmp(p) \/ WriteTmp(p) \/ Backup(p)
      PROVE  NoPassphraseLeft'
  BY <1>8, ShredKept
  DEF OpenTmp, WriteTmp, Backup, Goto, PastShred, provisioning
<1>9. ASSUME NEW p \in Procs, Replace(p) PROVE NoPassphraseLeft'
  BY <1>9, ShredKept DEF Replace, EndOr, Goto, PastShred
<1>10. ASSUME NEW p \in Procs, SaveFails(p) PROVE NoPassphraseLeft'
  BY <1>10, ShredKept DEF SaveFails, EndOr, Goto, PastShred, provisioning
<1>11. CASE Look
  <2>1. CASE drop = Absent
    BY <1>11, <2>1 DEF Look, NoPassphraseLeft, provisioning
  <2>2. CASE drop # Absent
    BY <1>11, <2>2 DEF Look, Goto, NoPassphraseLeft
  <2>3. QED
    BY <2>1, <2>2
<1>12. CASE ReadDrop
  BY <1>12 DEF ReadDrop, Goto, NoPassphraseLeft
<1>13. CASE Overwrite
  BY <1>13 DEF Overwrite, Goto, NoPassphraseLeft
<1>14. CASE Remove
  BY <1>14 DEF Remove, NoPassphraseLeft
<1>15. CASE ShredFails
  BY <1>15 DEF ShredFails, Happens, NoPassphraseLeft
<1>16. CASE Register
  BY <1>16, ShredKept DEF Register, Goto, PastShred, provisioning
<1>17. ASSUME NEW p \in Procs, Exit(p) PROVE NoPassphraseLeft'
  BY <1>17, ShredKept DEF Exit, End, PastShred
<1>18. CASE Clone
  BY <1>18, ShredKept DEF Clone, End, PastShred
<1>19. CASE DropFile
  <2>1. pc' = pc
    BY <1>19 DEF DropFile
  <2>2. pc[Service] # "down" => late'
    BY <1>19, Zenon DEF DropFile
  <2>3. PastShred(pc[Service]) => pc[Service] # "down"
    BY DEF PastShred
  <2>4. QED
    BY <2>1, <2>2, <2>3, Zenon DEF NoPassphraseLeft, PastShred
<1>20. CASE Damage
  BY <1>20, ShredKept DEF Damage, provisioning
<1>21. CASE UNCHANGED vars
  BY <1>21, ShredKept DEF vars, provisioning
<1>22. QED
  BY <1>1, <1>2, <1>3, <1>4, <1>5, <1>6, <1>7, <1>8, <1>9, <1>10, <1>11,
     <1>12, <1>13, <1>14, <1>15, <1>16, <1>17, <1>18, <1>19, <1>20, <1>21
  DEF Next, Command, Storing, Provisioning

\* When the service serves, no provisioning file with passphrases is left from
\* before its start, unless its deletion failed.
THEOREM PassphrasesGone == Spec => []NoPassphraseLeft
<1>1. TypeOK /\ NoPassphraseLeft /\ [Next]_vars => NoPassphraseLeft'
  BY NextShred
<1>2. QED
  BY <1>1, InitShred, TypeCorrect, PTL DEF Spec

LEMMA NextSpent ==
    ASSUME TypeOK, SpentInv, [Next]_vars
    PROVE  SpentInv'
<1> SUFFICES ASSUME "leftover" \notin happened', spent'
             PROVE  pc'[Service] = "shred"
  BY DEF SpentInv
<1> USE ServiceIsProcess
<1>a. "leftover" \notin happened
  BY HappenedGrows
<1>b. spent => pc[Service] = "shred"
  BY <1>a DEF SpentInv
<1>1. CASE spent' = spent /\ pc'[Service] = pc[Service]
  BY <1>1, <1>b
<1>2. ASSUME NEW p \in Procs, Replace(p) PROVE pc'[Service] = "shred"
  <2>1. CASE p = Service
    BY <1>2, <2>1 DEF TypeOK, Replace, EndOr, Goto
  <2>2. CASE p # Service
    BY <1>2, <2>2, <1>b DEF TypeOK, Replace, EndOr, Goto
  <2>3. QED
    BY <2>1, <2>2
<1>3. ASSUME NEW ps, Happens({}, Leftover(ps)) \/ Happens({"clone"}, Leftover(ps)),
             End(ps), spent' = spent
      PROVE  pc'[Service] = "shred"
  <2>1. spent
    BY <1>3
  <2>2. Service \notin ps
    BY <1>3, <2>1, <1>b DEF Happens, Leftover
  <2>3. QED
    BY <1>3, <2>1, <2>2, <1>b DEF End
<1>4. CASE ShredFails
  BY <1>4 DEF ShredFails, Happens, provisioning
<1>5. CASE Overwrite \/ Remove \/ DropFile
  BY <1>5 DEF Overwrite, Remove, DropFile
\* The other steps leave the flag alone and move a process from elsewhere.
<1>6. ASSUME NEW p \in Procs, NEW label, Goto(p, label), pc[p] # "shred",
             spent' = spent
      PROVE  pc'[Service] = "shred"
  BY <1>6, <1>b DEF TypeOK, Goto
<1>7. CASE StartService
  BY <1>7, <1>6 DEF StartService, Begin
<1>8. ASSUME NEW p \in Clis, Command(p) PROVE pc'[Service] = "shred"
  <2>1. CASE StartCommand(p) \/ Change(p)
    BY <1>8, <2>1, <1>6 DEF StartCommand, Begin, Change, provisioning
  <2>2. CASE Refused(p)
    BY <2>2, <1>6 DEF Refused, EndOr, provisioning
  <2>3. QED
    BY <1>8, <2>1, <2>2 DEF Command
<1>9. ASSUME NEW p \in Procs, Storing(p) PROVE pc'[Service] = "shred"
  <2>1. CASE LoadMain(p)
    BY <2>1, <1>6 DEF LoadMain, Loaded, provisioning
  <2>2. CASE LoadBak(p)
    BY <2>2, <1>6 DEF LoadBak, Loaded, provisioning
  <2>3. CASE OpenTmp(p) \/ WriteTmp(p) \/ Backup(p)
    BY <2>3, <1>6 DEF OpenTmp, WriteTmp, Backup, provisioning
  <2>4. CASE SaveFails(p)
    BY <2>4, <1>6 DEF SaveFails, EndOr, provisioning
  <2>5. QED
    BY <1>9, <1>2, <2>1, <2>2, <2>3, <2>4 DEF Storing
<1>10. CASE Look \/ ReadDrop \/ Merge \/ Register
  BY <1>10, <1>6
  DEF Look, StartLoad, ReadDrop, Merge, Register, provisioning
<1>11. CASE Provisioning
  BY <1>11, <1>4, <1>5, <1>7, <1>10 DEF Provisioning
<1>12. ASSUME NEW p \in Procs, Exit(p) PROVE pc'[Service] = "shred"
  BY <1>12, <1>3 DEF Exit
<1>13. CASE Clone
  BY <1>13, <1>3 DEF Clone
<1>14. CASE Damage \/ UNCHANGED vars
  BY <1>14, <1>1 DEF Damage, vars, provisioning
<1>15. QED
  BY <1>5, <1>8, <1>9, <1>11, <1>12, <1>13, <1>14 DEF Next

-----------------------------------------------------------------------------
(* The store and the process that changes it, until something harmful       *)
(* happens                                                                  *)

LEMMA StillUnharmed ==
    ASSUME [Next]_vars, Unharmed'
    PROVE  Unharmed
BY HappenedGrows DEF Unharmed

\* A step that meets this kind of event is harmful.
LEMMA HarmfulStep ==
    ASSUME NEW kinds, NEW noted, Happens(kinds, noted),
           (kinds \cup noted) \cap Harmful # {}
    PROVE  ~Unharmed'
BY DEF Happens, Unharmed

LEMMA InitUnharmed == Init => StoreInv /\ UpdatesInv /\ SeenInv
<1> SUFFICES ASSUME Init PROVE StoreInv /\ UpdatesInv /\ SeenInv
  OBVIOUS
<1>1. StoreInv
  BY ValuesAssumption DEF Init, StoreInv, Loadable, Usable
<1>2. UpdatesInv
  BY DEF Init, UpdatesInv, Updating
<1>3. SeenInv
  BY ServiceIsProcess DEF Init, SeenInv
<1>4. QED
  BY <1>1, <1>2, <1>3

LEMMA StoreStable ==
    ASSUME StoreInv, UNCHANGED <<engine, main, bak, promised>>
    PROVE  StoreInv'
BY DEF StoreInv, Loadable, Usable

\* The process is where it was, with what it had.
Same(q) ==
    /\ pc'[q] = pc[q] /\ job'[q] = job[q]
    /\ eid'[q] = eid[q] /\ users'[q] = users[q]

LEMMA UpdateStable ==
    ASSUME NEW q \in Procs, UpdateInv(q), Same(q),
           UNCHANGED <<engine, main, tmp, promised>>,
           q = Service => UNCHANGED entries
    PROVE  UpdateInv(q)'
<1>1. Confirmed(q)' = Confirmed(q)
  BY DEF Confirmed, KeyFor, Same
<1>2. Usable(main, engine)' = Usable(main, engine)
  BY DEF Usable
<1>3. QED
  BY <1>1, <1>2 DEF UpdateInv, Same

\* A step of one process keeps UpdatesInv if it keeps it for that process, and
\* leaves what another one that changes the store relies on.
LEMMA UpdatesKept ==
    ASSUME UpdatesInv, NEW p \in Procs,
           \A q \in Procs : q # p => Same(q),
           UNCHANGED engine,
           pc'[p] # "down" => eid'[p] = engine,
           \A q \in Procs : q # p /\ Updating(q) =>
               /\ ~Updating(p)'
               /\ UNCHANGED <<main, tmp, promised>>
               /\ q = Service => UNCHANGED entries,
           Updating(p)' => UpdateInv(p)'
    PROVE  UpdatesInv'
<1>1. \A q \in Procs : q # p => (Updating(q)' <=> Updating(q))
  BY DEF Updating, Same
<1>2. \A q \in Procs : pc'[q] # "down" => eid'[q] = engine'
  BY DEF UpdatesInv, Same
<1>3. \A q, r \in Procs : Updating(q)' /\ Updating(r)' => q = r
  BY <1>1 DEF UpdatesInv
<1>4. ASSUME NEW q \in Procs, Updating(q)' PROVE UpdateInv(q)'
  <2>1. CASE q = p
    BY <2>1, <1>4
  <2>2. CASE q # p
    BY <2>2, <1>1, <1>4, UpdateStable DEF UpdatesInv
  <2>3. QED
    BY <2>1, <2>2
<1>5. QED
  BY <1>2, <1>3, <1>4 DEF UpdatesInv

\* How the actions move a process.
LEMMA GotoSame ==
    ASSUME TypeOK, NEW p \in Procs, NEW label, Goto(p, label),
           UNCHANGED locals
    PROVE  /\ pc'[p] = label /\ users'[p] = users[p]
           /\ eid'[p] = eid[p] /\ job'[p] = job[p]
           /\ \A q \in Procs : q # p => Same(q)
BY DEF TypeOK, Goto, Same, locals

LEMMA LoadedSame ==
    ASSUME TypeOK, NEW p \in Procs, NEW table, Loaded(p, table),
           UNCHANGED <<job, eid>>
    PROVE  /\ pc'[p] = IF pc[p] \in {"load", "loadbak"} THEN "change"
                                                         ELSE "register"
           /\ users'[p] = table /\ eid'[p] = eid[p] /\ job'[p] = job[p]
           /\ \A q \in Procs : q # p => Same(q)
BY DEF TypeOK, Loaded, Goto, Same

LEMMA EndOrSame ==
    ASSUME TypeOK, NEW p \in Procs, NEW label, EndOr(p, label)
    PROVE  /\ pc'[p] = IF p = Service THEN label ELSE "down"
           /\ p = Service => UNCHANGED locals
           /\ \A q \in Procs : q # p => Same(q)
BY DEF TypeOK, EndOr, Goto, Same, locals

LEMMA BackupStore ==
    ASSUME TypeOK, StoreInv, NEW p \in Procs, Backup(p)
    PROVE  StoreInv'
<1>1. CASE UNCHANGED <<main, bak>>
  BY <1>1, StoreStable DEF Backup, history
<1>2. CASE main # Absent /\ bak' = main /\ main' = Absent
  <2>1. main \in Store
    BY <1>2 DEF TypeOK, File, StoreInv
  <2>2. engine' = engine /\ promised' = promised /\ Absent \notin Store
    BY <1>2, ValuesAssumption DEF Backup, history
  <2>3. Usable(main, engine) => main.users = promised
    BY DEF StoreInv, Loadable
  <2>4. ~Usable(main, engine) => NoUsers = promised
    BY <2>1 DEF StoreInv, Loadable
  <2>5. Loadable(engine)' = promised
    BY <1>2, <2>2, <2>3, <2>4 DEF Loadable, Usable
  <2>6. QED
    BY <1>2, <2>1, <2>2, <2>5, ValuesAssumption DEF StoreInv, Usable
<1>3. QED
  BY <1>1, <1>2 DEF Backup

LEMMA ReplaceStore ==
    ASSUME TypeOK, StoreInv, UpdatesInv, NEW p \in Procs, Replace(p)
    PROVE  StoreInv'
<1>1. UpdateInv(p) /\ pc[p] = "replace"
  BY DEF Replace, UpdatesInv, Updating
<1>2. main' = [engine |-> engine, users |-> users[p]] /\ promised' = users[p]
  BY <1>1 DEF Replace, UpdateInv
<1>3. main' \in Store /\ main'.engine = engine /\ main'.users = promised'
  BY <1>2 DEF TypeOK, Store
<1>4. engine' = engine /\ bak' = bak
  BY DEF Replace
<1>5. engine \in Nat
  BY DEF TypeOK
<1>6. QED
  BY <1>3, <1>4, <1>5, ValuesAssumption DEF StoreInv, Loadable, Usable

LEMMA CloneStore ==
    ASSUME TypeOK, StoreInv, Clone
    PROVE  StoreInv'
<1>1. engine \in Nat /\ engine' = engine + 1 /\ main' = main /\ bak' = bak
      /\ promised' = NoUsers
  BY DEF TypeOK, Clone, files
<1>2. \A f \in {main, bak} :
          f \in Store => f.engine \in Nat /\ f.engine <= engine
  BY StoreType DEF StoreInv
<1>3. \A f \in {main, bak} : ~Usable(f, engine')
  BY <1>1, <1>2 DEF Usable
<1>4. \A f \in {main, bak} : f \in Store => f.engine <= engine'
  BY <1>1, <1>2
<1>5. QED
  BY <1>1, <1>3, <1>4 DEF StoreInv, Loadable

LEMMA NextStore ==
    ASSUME TypeOK, StoreInv, UpdatesInv, [Next]_vars, Unharmed'
    PROVE  StoreInv'
<1>1. ASSUME NEW p \in Procs, Backup(p) \/ Replace(p) PROVE StoreInv'
  BY <1>1, BackupStore, ReplaceStore
<1>2. CASE Clone
  BY <1>2, CloneStore
<1>3. CASE Damage
  BY <1>3, HarmfulStep DEF Damage, Harmful
<1>4. ASSUME NEW p \in Procs, Storing(p) \/ Exit(p) PROVE StoreInv'
  BY <1>4, <1>1, StoreStable
  DEF Storing, LoadMain, LoadBak, OpenTmp, WriteTmp, SaveFails, Exit, files,
      history
<1>5. ASSUME NEW p \in Clis, Command(p) PROVE StoreInv'
  BY <1>5, StoreStable
  DEF Command, StartCommand, Refused, Change, files, history
<1>6. CASE Provisioning
  BY <1>6, StoreStable
  DEF Provisioning, StartService, Look, ReadDrop, Merge, Overwrite, Remove,
      ShredFails, Register, files, history
<1>7. CASE DropFile \/ UNCHANGED vars
  BY <1>7, StoreStable DEF DropFile, vars, files, history
<1>8. QED
  BY <1>2, <1>3, <1>4, <1>5, <1>6, <1>7 DEF Next

LEMMA NextUpdates ==
    ASSUME TypeOK, StoreInv, UpdatesInv, [Next]_vars, Unharmed'
    PROVE  UpdatesInv'
<1> USE ServiceIsProcess
\* Two processes that change the store are one.
<1>a. \A p, q \in Procs : Updating(p) /\ q # p => ~Updating(q)
  BY DEF UpdatesInv
<1>b. \A p \in Procs : pc[p] # "down" => eid[p] = engine
  BY DEF UpdatesInv
<1>1. CASE StartService
  <2>1. PICK kinds \in {{}, {"identity"}} : Begin(Service, kinds, {})
    BY <1>1 DEF StartService
  <2>2. eid'[Service] = engine
    BY <2>1, HarmfulStep DEF TypeOK, Begin, Harmful
  <2>3. \A q \in Procs : q # Service => Same(q)
    BY <1>1, <2>1 DEF TypeOK, StartService, Begin, Goto, Same
  <2>4. ~Updating(Service)'
    BY <1>1 DEF TypeOK, StartService, Goto, Updating
  <2>5. QED
    BY <1>1, <2>2, <2>3, <2>4, UpdatesKept DEF StartService, files, history
<1>2. ASSUME NEW p \in Clis, StartCommand(p) PROVE UpdatesInv'
  <2>1. PICK kinds \in {{}, {"identity"}} : Begin(p, kinds, Together(p))
    BY <1>2 DEF StartCommand
  <2>2. eid'[p] = engine
    BY <2>1, HarmfulStep DEF TypeOK, Begin, Harmful
  <2>3. \A q \in Procs : q # p => Same(q)
    BY <1>2, <2>1 DEF TypeOK, StartCommand, Begin, Goto, Same
  <2>4. \A q \in Procs : q # p => ~Updating(q)
    BY <2>1, HarmfulStep DEF Begin, Together, Harmful
  <2>5. pc'[p] = "load"
    BY <1>2 DEF TypeOK, StartCommand, Goto
  <2>6. UpdateInv(p)'
    BY <2>5 DEF UpdateInv
  <2>7. QED
    BY <1>2, <2>2, <2>3, <2>4, <2>6, UpdatesKept DEF StartCommand
<1>3. ASSUME NEW p \in Procs, LoadMain(p) PROVE UpdatesInv'
  <2>1. UNCHANGED <<engine, main, tmp, promised, entries, job, eid>>
    BY <1>3 DEF LoadMain, files, provisioning, history
  <2>2. eid[p] = engine
    BY <1>3, <1>b DEF LoadMain
  <2>3. CASE Usable(main, eid[p]) /\ Loaded(p, main.users)
    <3>1. Updating(p)' => Updating(p) /\ UpdateInv(p)'
      BY <2>1, <2>2, <2>3, LoadedSame, <1>3
      DEF StoreInv, Loadable, LoadMain, Updating, UpdateInv
    <3>2. QED
      BY <2>1, <2>2, <2>3, <3>1, <1>a, LoadedSame, UpdatesKept
  <2>4. CASE ~(Usable(main, eid[p]) /\ Loaded(p, main.users))
    <3>1. ~Usable(main, engine)
      BY <1>3, <2>2, <2>4, HarmfulStep DEF LoadMain, Harmful
    <3>2. UNCHANGED locals
      BY <1>3, <2>4 DEF LoadMain, locals
    <3>3. Goto(p, IF pc[p] = "load" THEN "loadbak" ELSE "reloadbak")
      BY <1>3, <2>4 DEF LoadMain
    <3>4. Updating(p)' => Updating(p) /\ UpdateInv(p)'
      BY <2>1, <3>1, <3>2, <3>3, GotoSame, <1>3
      DEF LoadMain, Updating, UpdateInv, Usable
    <3>5. QED
      BY <2>1, <2>2, <3>2, <3>3, <3>4, <1>a, GotoSame, UpdatesKept
  <2>5. QED
    BY <2>3, <2>4
<1>4. ASSUME NEW p \in Procs, LoadBak(p) PROVE UpdatesInv'
  <2>1. UNCHANGED <<engine, main, tmp, promised, entries, job, eid>>
    BY <1>4 DEF LoadBak, files, provisioning, history
  <2>2. eid[p] = engine
    BY <1>4, <1>b DEF LoadBak
  <2>3. Loaded(p, IF Usable(bak, engine) THEN bak.users ELSE NoUsers)
    BY <1>4, <2>2 DEF LoadBak
  <2>4. Updating(p)' => pc[p] = "loadbak"
    BY <1>4, <2>1, <2>3, LoadedSame DEF LoadBak, Updating
  <2>5. pc[p] = "loadbak" => Updating(p) /\ ~Usable(main, engine)
    BY DEF UpdatesInv, UpdateInv, Updating
  <2>6. pc[p] = "loadbak" => users'[p] = promised /\ pc'[p] = "change"
    BY <2>1, <2>3, <2>5, LoadedSame DEF StoreInv, Loadable
  <2>7. Updating(p)' => UpdateInv(p)'
    BY <2>1, <2>4, <2>6 DEF UpdateInv
  <2>8. QED
    BY <2>1, <2>2, <2>3, <2>4, <2>5, <2>7, <1>a, LoadedSame, UpdatesKept
<1>5. ASSUME NEW p \in Procs, Refused(p) \/ SaveFails(p) PROVE UpdatesInv'
  <2>1. UNCHANGED <<engine, main, tmp, promised, entries>>
    BY <1>5 DEF Refused, SaveFails, files, provisioning, history
  <2>2. PICK label \in {"down", "shred"} : EndOr(p, label)
    BY <1>5 DEF Refused, SaveFails
  <2>3. ~Updating(p)'
    BY <2>2, EndOrSame DEF Updating
  <2>4. pc'[p] # "down" => eid'[p] = engine
    BY <1>5, <2>2, <1>b, EndOrSame DEF Refused, SaveFails, locals
  <2>5. QED
    BY <2>1, <2>2, <2>3, <2>4, EndOrSame, UpdatesKept
<1>6. ASSUME NEW p \in Clis, Change(p) PROVE UpdatesInv'
  <2>1. UNCHANGED <<engine, main, tmp, promised, entries, job, eid>>
    BY <1>6 DEF Change, files, provisioning, history
  <2>2. Updating(p) /\ users[p] = promised /\ eid[p] = engine
    BY <1>6, <1>b DEF Change, UpdatesInv, UpdateInv, Updating
  <2>3. pc'[p] = "open" /\ \A q \in Procs : q # p => Same(q)
    BY <1>6 DEF TypeOK, Change, Goto, Same
  <2>4. job[p].name \in Names /\ job[p].pass \in Passes
    BY <1>6 DEF TypeOK, Change, Jobs
  <2>5. KeyFor(p, job[p].pass) # None
    BY <2>4, KeyType, ValuesAssumption
  <2>6. users'[p] = [promised EXCEPT ![job[p].name] =
                         IF job[p].op = "add" THEN KeyFor(p, job[p].pass)
                                              ELSE None]
    BY <1>6, <2>2 DEF TypeOK, Change
  <2>7. users'[p] = Confirmed(p)'
    BY <2>1, <2>4, <2>6 DEF TypeOK, Table, Confirmed
  <2>8. (job[p].op = "add") <=> (users'[p][job[p].name] # None)
    BY <2>4, <2>5, <2>6 DEF TypeOK, Table
  <2>9. UpdateInv(p)'
    BY <2>1, <2>3, <2>7, <2>8 DEF UpdateInv
  <2>10. QED
    BY <2>1, <2>2, <2>3, <2>9, <1>a, UpdatesKept
<1>7. CASE Merge
  <2>1. UNCHANGED <<engine, main, tmp, promised, entries, job, eid>>
    BY <1>7 DEF Merge, files, provisioning, history
  <2>2. Updating(Service) /\ users[Service] = promised /\ eid[Service] = engine
    BY <1>7, <1>b DEF Merge, UpdatesInv, UpdateInv, Updating
  <2>3. pc'[Service] \in {"shred", "open"}
        /\ \A q \in Procs : q # Service => Same(q)
    BY <1>7 DEF TypeOK, Merge, Goto, Same
  <2>4. users'[Service] = Confirmed(Service)'
    BY <1>7, <2>1, <2>2 DEF TypeOK, Merge, Confirmed, KeyFor
  <2>5. UpdateInv(Service)'
    BY <2>3, <2>4 DEF UpdateInv
  <2>6. QED
    BY <2>1, <2>2, <2>3, <2>5, <1>a, UpdatesKept
<1>8. ASSUME NEW p \in Procs, OpenTmp(p) \/ WriteTmp(p) \/ Backup(p)
      PROVE  UpdatesInv'
  <2>1. UNCHANGED <<engine, promised, entries>> /\ UNCHANGED locals
    BY <1>8 DEF OpenTmp, WriteTmp, Backup, provisioning, history
  <2>2. Updating(p) /\ UpdateInv(p) /\ eid[p] = engine
    BY <1>8, <1>b DEF OpenTmp, WriteTmp, Backup, UpdatesInv, Updating
  <2>3. PICK label \in {"write", "backup", "replace"} : Goto(p, label)
    BY <1>8 DEF OpenTmp, WriteTmp, Backup
  <2>4. pc'[p] = label /\ users'[p] = users[p] /\ eid'[p] = eid[p]
        /\ job'[p] = job[p] /\ \A q \in Procs : q # p => Same(q)
    BY <2>1, <2>3, GotoSame
  <2>5. Confirmed(p)' = Confirmed(p)
    BY <2>1, <2>4 DEF Confirmed, KeyFor
  <2>6. users[p] = Confirmed(p)
        /\ (p # Service =>
               ((job[p].op = "add") <=> (users[p][job[p].name] # None)))
    BY <1>8, <2>2 DEF OpenTmp, WriteTmp, Backup, UpdateInv
  <2>7. pc'[p] \in {"backup", "replace"} =>
            tmp' = [engine |-> engine, users |-> users[p]]
    <3>1. CASE OpenTmp(p)
      BY <3>1 DEF TypeOK, OpenTmp, Goto
    <3>2. CASE WriteTmp(p)
      BY <3>2, <2>2 DEF WriteTmp
    <3>3. CASE Backup(p)
      BY <3>3, <2>2 DEF Backup, UpdateInv
    <3>4. QED
      BY <1>8, <3>1, <3>2, <3>3
  <2>8. UpdateInv(p)'
    BY <2>1, <2>3, <2>4, <2>5, <2>6, <2>7 DEF UpdateInv
  <2>9. QED
    BY <2>1, <2>2, <2>4, <2>8, <1>a, UpdatesKept
<1>9. ASSUME NEW p \in Procs, Replace(p) PROVE UpdatesInv'
  <2>1. UNCHANGED <<engine, entries>> /\ EndOr(p, "shred")
    BY <1>9 DEF Replace
  <2>2. Updating(p) /\ eid[p] = engine
    BY <1>9, <1>b DEF Replace, Updating
  <2>3. ~Updating(p)'
    BY <2>1, EndOrSame DEF Updating
  <2>4. pc'[p] # "down" => eid'[p] = engine
    BY <2>1, <2>2, EndOrSame DEF locals
  <2>5. QED
    BY <2>1, <2>2, <2>3, <2>4, <1>a, EndOrSame, UpdatesKept
<1>10. CASE ReadDrop
  <2>1. UNCHANGED <<engine, main, tmp, promised>> /\ UNCHANGED locals
    BY <1>10 DEF ReadDrop, files, history
  <2>2. PICK label \in {"load", "shred"} : Goto(Service, label)
    BY <1>10 DEF ReadDrop
  <2>3. eid[Service] = engine
    BY <1>10, <1>b DEF ReadDrop
  <2>4. label = "load" => \A q \in Procs : q # Service => ~Updating(q)
    BY <1>10, <2>2, HarmfulStep DEF TypeOK, ReadDrop, Goto, Together, Harmful
  <2>5. pc'[Service] = label /\ eid'[Service] = eid[Service]
        /\ \A q \in Procs : q # Service => Same(q)
    BY <2>1, <2>2, GotoSame
  <2>6. Updating(Service)' => label = "load" /\ UpdateInv(Service)'
    BY <2>2, <2>5 DEF Updating, UpdateInv
  <2>7. QED
    BY <2>1, <2>3, <2>4, <2>5, <2>6, UpdatesKept
<1>11. CASE Look \/ Overwrite \/ Remove \/ ShredFails \/ Register
  <2>1. UNCHANGED <<engine, main, tmp, promised>> /\ UNCHANGED locals
    BY <1>11
    DEF Look, Overwrite, Remove, ShredFails, Register, files, history
  <2>2. PICK label \in {"read", "reload", "remove", "up"} : Goto(Service, label)
    BY <1>11 DEF Look, Overwrite, Remove, ShredFails, Register, StartLoad
  <2>3. eid[Service] = engine
    BY <1>11, <1>b DEF Look, Overwrite, Remove, ShredFails, Register
  <2>4. pc'[Service] = label /\ eid'[Service] = eid[Service]
        /\ \A q \in Procs : q # Service => Same(q)
    BY <2>1, <2>2, GotoSame
  <2>5. ~Updating(Service)'
    BY <2>2, <2>4 DEF Updating
  <2>6. QED
    BY <2>1, <2>3, <2>4, <2>5, UpdatesKept
<1>12. ASSUME NEW p \in Procs, Exit(p) PROVE UpdatesInv'
  <2>1. UNCHANGED <<engine, main, tmp, promised>>
    BY <1>12 DEF Exit, files
  <2>2. pc'[p] = "down" /\ \A q \in Procs : q # p => Same(q)
    BY <1>12 DEF TypeOK, Exit, End, Same
  <2>3. p # Service => UNCHANGED entries
    BY <1>12 DEF Exit, End
  <2>4. ~Updating(p)'
    BY <2>2 DEF Updating
  <2>5. QED
    BY <2>1, <2>2, <2>3, <2>4, UpdatesKept
<1>13. CASE Clone
  <2>1. \A q \in Procs : pc'[q] = "down"
    BY <1>13 DEF Clone, End
  <2>2. QED
    BY <2>1 DEF UpdatesInv, Updating
<1>14. CASE Damage
  BY <1>14, HarmfulStep DEF Damage, Harmful
<1>15. CASE DropFile \/ UNCHANGED vars
  <2>1. UNCHANGED <<engine, main, tmp, promised, entries, pc>>
        /\ UNCHANGED locals
    BY <1>15 DEF DropFile, vars, files, history, provisioning
  <2>2. \A q \in Procs : Same(q)
    BY <2>1 DEF Same, locals
  <2>3. \A q \in Procs : Updating(q)' <=> Updating(q)
    BY <2>1 DEF Updating
  <2>4. QED
    BY <2>1, <2>2, <2>3, UpdateStable DEF UpdatesInv, Same
<1>16. QED
  BY <1>1, <1>2, <1>3, <1>4, <1>5, <1>6, <1>7, <1>8, <1>9, <1>10, <1>11,
     <1>12, <1>13, <1>14, <1>15
  DEF Next, Command, Storing, Provisioning

-----------------------------------------------------------------------------
(* What the service registers *)

\* Steps that leave the service where it is, and the .bak, and forget nothing.
LEMMA SeenStable ==
    ASSUME SeenInv, UNCHANGED <<engine, bak>>, Same(Service),
           seen \subseteq seen',
           promised' = promised \/ (Registering => promised' \in seen')
    PROVE  SeenInv'
BY DEF SeenInv, Same, Usable, Registering

\* The service is not loading accounts to register.
LEMMA SeenVacuous ==
    ASSUME ~Registering'
    PROVE  SeenInv'
BY DEF SeenInv, Registering

\* The service begins to load.
LEMMA SeenStart ==
    ASSUME TypeOK, StartLoad, UNCHANGED promised
    PROVE  SeenInv'
BY ServiceIsProcess DEF TypeOK, StartLoad, Goto, SeenInv

\* A .bak that becomes the only copy is what was confirmed last.
LEMMA SeenBackup ==
    ASSUME TypeOK, StoreInv, SeenInv, NEW p \in Procs, Backup(p)
    PROVE  SeenInv'
<1>1. UNCHANGED <<engine, promised, seen>> /\ UNCHANGED locals
  BY DEF Backup, history
<1>2. pc[p] = "backup" /\ pc'[p] = "replace"
  BY DEF TypeOK, Backup, Goto
<1>3. CASE p = Service
  BY <1>2, <1>3, SeenVacuous DEF Registering
<1>4. CASE p # Service
  <2>1. Same(Service)
    BY <1>1, <1>4, ServiceIsProcess, GotoSame DEF Backup
  <2>2. CASE bak' = bak
    BY <1>1, <2>1, <2>2, SeenStable
  <2>3. CASE main # Absent /\ bak' = main
    <3>1. main \in Store
      BY <2>3 DEF TypeOK, File, StoreInv
    <3>2. CASE Usable(main, engine)
      <4>1. main.users = promised
        BY <3>2 DEF StoreInv, Loadable
      <4>2. QED
        BY <1>1, <2>1, <2>3, <3>2, <4>1 DEF SeenInv, Same, Usable
    <3>3. CASE ~Usable(main, engine)
      <4>1. ~Usable(bak, engine)
        BY <3>1, <3>3 DEF StoreInv
      <4>2. QED
        BY <1>1, <2>1, <2>3, <3>3, <4>1 DEF SeenInv, Same, Usable
    <3>4. QED
      BY <3>2, <3>3
  <2>4. QED
    BY <2>2, <2>3 DEF Backup
<1>5. QED
  BY <1>3, <1>4

LEMMA NextSeen ==
    ASSUME TypeOK, StoreInv, UpdatesInv, SeenInv, [Next]_vars, Unharmed'
    PROVE  SeenInv'
<1> USE ServiceIsProcess
<1>1. CASE StartService
  BY <1>1, SeenVacuous DEF TypeOK, StartService, Goto, Registering
<1>2. ASSUME NEW p \in Clis, StartCommand(p) PROVE SeenInv'
  <2>1. Same(Service)
    BY <1>2 DEF TypeOK, StartCommand, Begin, Goto, Same
  <2>2. QED
    BY <1>2, <2>1, SeenStable DEF StartCommand, files, history
<1>3. ASSUME NEW p \in Procs, LoadMain(p) PROVE SeenInv'
  <2>1. UNCHANGED <<engine, main, bak, promised, seen, job, eid>>
    BY <1>3 DEF LoadMain, files, history
  <2>2. eid[p] = engine
    BY <1>3 DEF LoadMain, UpdatesInv
  <2>3. CASE p # Service
    <3>1. Same(Service)
      BY <1>3, <2>3 DEF TypeOK, LoadMain, Loaded, Goto, Same
    <3>2. QED
      BY <2>1, <3>1, SeenStable
  <2>4. CASE p = Service /\ pc[p] = "load"
    BY <1>3, <2>4, SeenVacuous
    DEF TypeOK, LoadMain, Loaded, Goto, Registering
  <2>5. CASE p = Service /\ pc[p] = "reload"
    <3>1. promised \in seen
      BY <2>5 DEF SeenInv
    <3>2. CASE Usable(main, eid[p]) /\ Loaded(p, main.users)
      <4>1. users'[p] = promised /\ pc'[p] = "register"
        BY <2>1, <2>2, <2>5, <3>2, LoadedSame DEF StoreInv, Loadable
      <4>2. QED
        BY <2>1, <2>5, <3>1, <4>1 DEF SeenInv
    <3>3. CASE ~(Usable(main, eid[p]) /\ Loaded(p, main.users))
      <4>1. ~Usable(main, engine)
        BY <1>3, <2>2, <3>3, HarmfulStep DEF LoadMain, Harmful
      <4>2. (IF Usable(bak, engine) THEN bak.users ELSE NoUsers) = promised
        BY <4>1 DEF StoreInv, Loadable
      <4>3. pc'[p] = "reloadbak"
        BY <1>3, <2>5, <3>3 DEF TypeOK, LoadMain, Goto
      <4>4. QED
        BY <2>1, <2>5, <3>1, <4>2, <4>3 DEF SeenInv, Usable
    <3>4. QED
      BY <3>2, <3>3
  <2>6. QED
    BY <1>3, <2>3, <2>4, <2>5 DEF LoadMain
<1>4. ASSUME NEW p \in Procs, LoadBak(p) PROVE SeenInv'
  <2>1. UNCHANGED <<engine, bak, promised, seen, job, eid>>
    BY <1>4 DEF LoadBak, files, history
  <2>2. eid[p] = engine
    BY <1>4 DEF LoadBak, UpdatesInv
  <2>3. Loaded(p, IF Usable(bak, engine) THEN bak.users ELSE NoUsers)
    BY <1>4, <2>2 DEF LoadBak
  <2>4. CASE p # Service
    <3>1. Same(Service)
      BY <2>1, <2>3, <2>4, LoadedSame
    <3>2. QED
      BY <2>1, <3>1, SeenStable
  <2>5. CASE p = Service /\ pc[p] = "loadbak"
    BY <2>1, <2>3, <2>5, LoadedSame, SeenVacuous DEF Registering
  <2>6. CASE p = Service /\ pc[p] = "reloadbak"
    <3>1. users'[p] \in seen /\ pc'[p] = "register"
      BY <2>1, <2>3, <2>6, LoadedSame DEF SeenInv
    <3>2. QED
      BY <2>1, <2>6, <3>1 DEF SeenInv
  <2>7. QED
    BY <1>4, <2>4, <2>5, <2>6 DEF LoadBak
<1>5. ASSUME NEW p \in Clis, Refused(p) \/ Change(p) PROVE SeenInv'
  <2>1. Same(Service)
    BY <1>5 DEF TypeOK, Refused, Change, EndOr, Goto, Same
  <2>2. QED
    BY <1>5, <2>1, SeenStable DEF Refused, Change, files, history
<1>6. CASE Merge
  BY <1>6, SeenVacuous DEF TypeOK, Merge, Goto, Registering
<1>7. ASSUME NEW p \in Procs, OpenTmp(p) \/ WriteTmp(p) PROVE SeenInv'
  <2>1. CASE p = Service
    BY <1>7, <2>1, SeenVacuous DEF TypeOK, OpenTmp, WriteTmp, Goto, Registering
  <2>2. CASE p # Service
    <3>1. Same(Service)
      BY <1>7, <2>2, GotoSame DEF OpenTmp, WriteTmp
    <3>2. QED
      BY <1>7, <3>1, SeenStable DEF OpenTmp, WriteTmp, history
  <2>3. QED
    BY <2>1, <2>2
<1>8. ASSUME NEW p \in Procs, Backup(p) PROVE SeenInv'
  BY <1>8, SeenBackup
<1>9. ASSUME NEW p \in Procs, Replace(p) PROVE SeenInv'
  <2>1. CASE p = Service
    BY <1>9, <2>1, EndOrSame, SeenVacuous DEF Replace, Registering
  <2>2. CASE p # Service
    <3>1. Same(Service)
      BY <1>9, <2>2, EndOrSame DEF Replace
    <3>2. seen \subseteq seen' /\ (Registering => promised' \in seen')
      BY <1>9 DEF Replace
    <3>3. QED
      BY <1>9, <3>1, <3>2, SeenStable DEF Replace
  <2>3. QED
    BY <2>1, <2>2
<1>10. ASSUME NEW p \in Procs, SaveFails(p) PROVE SeenInv'
  <2>1. CASE p = Service
    BY <1>10, <2>1, EndOrSame, SeenVacuous DEF SaveFails, Registering
  <2>2. CASE p # Service
    <3>1. Same(Service)
      BY <1>10, <2>2, EndOrSame DEF SaveFails
    <3>2. QED
      BY <1>10, <3>1, SeenStable DEF SaveFails, files, history
  <2>3. QED
    BY <2>1, <2>2
<1>11. CASE Look
  <2>1. CASE StartLoad
    BY <1>11, <2>1, SeenStart DEF Look
  <2>2. CASE Goto(Service, "read")
    BY <2>2, SeenVacuous DEF TypeOK, Goto, Registering
  <2>3. QED
    BY <1>11, <2>1, <2>2 DEF Look
<1>12. CASE ReadDrop \/ Overwrite
  BY <1>12, SeenVacuous DEF TypeOK, ReadDrop, Overwrite, Goto, Registering
<1>13. CASE Remove \/ ShredFails
  BY <1>13, SeenStart DEF Remove, ShredFails
<1>14. CASE Register
  BY <1>14, SeenVacuous DEF TypeOK, Register, Goto, Registering
<1>15. ASSUME NEW p \in Procs, Exit(p) PROVE SeenInv'
  <2>1. CASE p = Service
    BY <1>15, <2>1, SeenVacuous DEF Exit, End, Registering
  <2>2. CASE p # Service
    <3>1. Same(Service) /\ seen' = seen
      BY <1>15, <2>2 DEF Exit, End, Same
    <3>2. QED
      BY <1>15, <3>1, SeenStable DEF Exit, files
  <2>3. QED
    BY <2>1, <2>2
<1>16. CASE Clone
  BY <1>16, SeenVacuous DEF Clone, End, Registering
<1>17. CASE Damage
  BY <1>17, HarmfulStep DEF Damage, Harmful
<1>18. CASE DropFile \/ UNCHANGED vars
  <2>1. Same(Service)
    BY <1>18 DEF DropFile, vars, locals, Same
  <2>2. QED
    BY <1>18, <2>1, SeenStable DEF DropFile, vars, files, history
<1>19. QED
  BY <1>1, <1>2, <1>3, <1>4, <1>5, <1>6, <1>7, <1>8, <1>9, <1>10, <1>11,
     <1>12, <1>13, <1>14, <1>15, <1>16, <1>17, <1>18
  DEF Next, Command, Storing, Provisioning

-----------------------------------------------------------------------------
LEMMA InitInductive == Init => IInv
BY InitType, InitKeys, InitShred, InitUnharmed DEF IInv

LEMMA NextInductive ==
    ASSUME IInv, [Next]_vars
    PROVE  IInv'
<1>1. TypeOK' /\ KeysInv' /\ NoPassphraseLeft' /\ SpentInv'
  BY NextType, NextKeys, NextShred, NextSpent DEF IInv
<1>2. Unharmed' => StoreInv' /\ UpdatesInv' /\ SeenInv'
  BY StillUnharmed, NextStore, NextUpdates, NextSeen DEF IInv
<1>3. QED
  BY <1>1, <1>2 DEF IInv

\* Until something harmful happens, one process changes the store at a time,
\* and what it is about to save is what was confirmed with its own change.
THEOREM Inductive == Spec => []IInv
<1>1. QED
  BY InitInductive, NextInductive, PTL DEF Spec

\* Until something harmful happens, what a restart would load is exactly what
\* was confirmed, at every point of a save and after every interruption.
THEOREM PromisesAlwaysKept == Spec => []PromisesKept
<1>1. IInv => PromisesKept
  BY DEF IInv, StoreInv, PromisesKept
<1>2. QED
  BY <1>1, Inductive, PTL

\* Until something harmful happens, a service registers the accounts of one
\* moment of its load, while commands rename the files under it.
THEOREM ConfirmedAlwaysRegistered == Spec => []RegisteredWasConfirmed
<1>1. IInv => RegisteredWasConfirmed
  BY DEF IInv, SeenInv, RegisteredWasConfirmed
<1>2. QED
  BY <1>1, Inductive, PTL

\* A removed account comes back only by a new command or a new file, unless a
\* provisioning file outlived its use.
THEOREM RemovedAlwaysStaysRemoved == Spec => RemovedStaysRemoved
<1>1. ASSUME IInv, IInv', [Next]_vars, Unharmed', "leftover" \notin happened',
             NEW n \in Names,
             Loadable(engine)[n] = None, Loadable(engine)'[n] # None
      PROVE  \/ \E p \in Clis :
                    /\ pc[p] = "replace"
                    /\ job[p].op = "add" /\ job[p].name = n
             \/ pc[Service] = "replace" /\ entries[n] # None /\ ~spent
  <2>1. promised[n] = None /\ promised'[n] # None
    BY <1>1, StillUnharmed DEF IInv, StoreInv
  <2>2. "leftover" \notin happened
    BY <1>1, HappenedGrows
  <2>3. ASSUME NEW p \in Procs, Replace(p)
        PROVE  \/ \E q \in Clis :
                      /\ pc[q] = "replace"
                      /\ job[q].op = "add" /\ job[q].name = n
               \/ pc[Service] = "replace" /\ entries[n] # None /\ ~spent
    <3>1. pc[p] = "replace" /\ promised' = Confirmed(p)
      BY <2>3 DEF Replace
    <3>2. CASE p = Service
      <4>1. entries[n] # None
        BY <2>1, <3>1, <3>2 DEF Confirmed
      <4>2. ~spent
        BY <1>1, <2>2, <3>1, <3>2 DEF IInv, SpentInv
      <4>3. QED
        BY <3>1, <3>2, <4>1, <4>2
    <3>3. CASE p # Service
      <4>1. p \in Clis
        BY <3>3 DEF Procs
      <4>2. UpdateInv(p)
        BY <1>1, <3>1, StillUnharmed DEF IInv, UpdatesInv, Updating
      <4>3. job[p].name = n /\ users[p][n] # None
        BY <1>1, <2>1, <3>1, <3>3 DEF IInv, TypeOK, Table, Confirmed
      <4>4. job[p].op = "add"
        BY <3>1, <3>3, <4>2, <4>3 DEF UpdateInv
      <4>5. QED
        BY <3>1, <4>1, <4>3, <4>4
    <3>4. QED
      BY <3>2, <3>3
  <2>4. CASE Clone
    BY <2>1, <2>4, NoUsersAt DEF Clone
  <2>5. CASE ~Clone /\ \A p \in Procs : ~Replace(p)
    <3>1. promised' = promised
      BY <1>1, <2>5
      DEF Next, Command, Storing, Provisioning, StartService, StartCommand,
          LoadMain, LoadBak, Refused, Change, Merge, OpenTmp, WriteTmp, Backup,
          SaveFails, Look, ReadDrop, Overwrite, Remove, ShredFails, Register,
          Exit, DropFile, Damage, vars, history
    <3>2. QED
      BY <2>1, <3>1
  <2>6. QED
    BY <2>3, <2>4, <2>5
<1>2. IInv /\ IInv' /\ [Next]_vars
      => [Unharmed' /\ "leftover" \notin happened' =>
            \A n \in Names :
                Loadable(engine)[n] = None /\ Loadable(engine)'[n] # None
                    => \/ \E p \in Clis :
                              /\ pc[p] = "replace"
                              /\ job[p].op = "add" /\ job[p].name = n
                       \/ /\ pc[Service] = "replace"
                          /\ entries[n] # None /\ ~spent]_vars
  BY <1>1
<1>3. QED
  BY <1>2, Inductive, PTL DEF Spec, RemovedStaysRemoved
===============================================================================
