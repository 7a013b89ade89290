------------------------------- MODULE IndexMap -------------------------------
(***************************************************************************)
(* The interface index map (deploy/jt_agent.py, _load_index_map,           *)
(* _save_index_map and get_interfaces).  Each snapshot rebuild enumerates  *)
(* the interfaces, reads index-map.json, gives every new interface the     *)
(* next index, saves the map when it changed and publishes the indices.    *)
(* Nothing is kept in memory between two rebuilds.                         *)
(*                                                                         *)
(* The environment adds and removes adapters, enumerates them in any       *)
(* order, kills the process between any two steps, and, for the kinds in   *)
(* Faults, makes a call fail or damages a file.                            *)
(***************************************************************************)
EXTENDS Naturals, FiniteSets

CONSTANTS
    Luids,      \* NET_LUIDs of the adapters there can be
    Faults,     \* kinds of environment fault that may happen
    MaxChanges, \* bound: adapters added or removed
    MaxCrashes, \* bound: ends of the process
    MaxFaults,  \* bound: faults
    Absent,     \* a file that does not exist
    Damaged     \* a file that is not a readable map

\* "table": GetIfTable2 fails; "save": a call in a save fails; "backup": the
\* rename to .bak fails; "damage": a file stops being readable; "read": a good
\* file cannot be opened or read this once.
FaultKinds == {"table", "save", "backup", "damage", "read"}

ASSUME FaultsAssumption == Faults \subseteq FaultKinds
ASSUME LuidsAssumption == IsFiniteSet(Luids)
ASSUME BoundsAssumption ==
    MaxChanges \in Nat /\ MaxCrashes \in Nat /\ MaxFaults \in Nat

VARIABLES
    plugged,    \* the adapters in the machine that get_interfaces would emit
    main, bak, tmp,  \* index-map.json, its .bak and .tmp
    pc,         \* where the rebuild is
    rows,       \* what GetIfTable2 returned, filtered
    todo,       \* the rows not looked up yet
    imap,       \* the map the rebuild works on
    changed,    \* the map has to be saved
    served,     \* the indices in the current snapshot, 0 for no row
    given,      \* history: the index each adapter was last published with
    happened,   \* history: the kinds of fault so far
    changes, crashes, faults   \* how much of the bounds is used up

files == <<main, bak, tmp>>
locals == <<rows, todo, imap, changed>>
published == <<served, given>>
events == <<happened, faults>>
bounds == <<changes, crashes>>
vars == <<plugged, files, pc, locals, published, events, bounds>>

-----------------------------------------------------------------------------
(* Maps *)

\* "interfaces", 0 where there is no entry, and "next_if_index".
Map == [index : [Luids -> Nat], next : Nat \ {0}]

ASSUME FilesAssumption ==
    Absent \notin Map /\ Damaged \notin Map /\ Absent # Damaged

EmptyMap == [index |-> [l \in Luids |-> 0], next |-> 1]

Readable(file) == file \notin {Absent, Damaged}

\* One fault of this kind happens in the step.
Fault(kind) ==
    /\ kind \in Faults /\ faults < MaxFaults
    /\ faults' = faults + 1 /\ happened' = happened \cup {kind}

-----------------------------------------------------------------------------
Init ==
    /\ plugged \in SUBSET Luids
    /\ main = Absent /\ bak = Absent /\ tmp = Absent
    /\ pc = "idle" /\ rows = {} /\ todo = {} /\ imap = EmptyMap
    /\ changed = FALSE
    /\ served = [l \in Luids |-> 0] /\ given = [l \in Luids |-> 0]
    /\ happened = {} /\ faults = 0 /\ changes = 0 /\ crashes = 0

-----------------------------------------------------------------------------
(* A rebuild: get_interfaces *)

\* GetIfTable2 and the filters.
Enumerate ==
    /\ pc = "idle"
    /\ rows' = plugged /\ todo' = plugged
    /\ pc' = "load"
    /\ UNCHANGED <<plugged, files, imap, changed, published, events, bounds>>

\* GetIfTable2 fails: no rows at all in this snapshot.
EnumerateFails ==
    /\ pc = "idle" /\ Fault("table")
    /\ served' = [l \in Luids |-> 0]
    /\ UNCHANGED <<plugged, files, pc, locals, given, bounds>>

Loaded(m) == imap' = m /\ changed' = FALSE /\ pc' = "assign"

\* On to the .bak, because the file is not usable, or was not this once.
TryBak == pc' = "loadbak" /\ UNCHANGED <<imap, changed>>

\* _load_index_map, first path.
LoadMain ==
    /\ pc = "load"
    /\ \/ Readable(main) /\ Loaded(main) /\ UNCHANGED events
       \/ ~Readable(main) /\ TryBak /\ UNCHANGED events
       \/ Readable(main) /\ Fault("read") /\ TryBak
    /\ UNCHANGED <<plugged, files, rows, todo, published, bounds>>

\* Mutation of LoadBak: the .bak is taken as it is.
LoadBakUnchecked ==
    /\ pc = "loadbak" /\ Loaded(bak)
    /\ UNCHANGED <<plugged, files, rows, todo, published, events, bounds>>

\* Mutation of LoadBak: the .bak is kept but never read.
LoadBakIgnored ==
    /\ pc = "loadbak" /\ Loaded(EmptyMap)
    /\ UNCHANGED <<plugged, files, rows, todo, published, events, bounds>>

\* _load_index_map, the .bak, or an empty map.
LoadBak ==
    /\ pc = "loadbak"
    /\ \/ Readable(bak) /\ Loaded(bak) /\ UNCHANGED events
       \/ ~Readable(bak) /\ Loaded(EmptyMap) /\ UNCHANGED events
       \/ Readable(bak) /\ Fault("read") /\ Loaded(EmptyMap)
    /\ UNCHANGED <<plugged, files, rows, todo, published, bounds>>

\* The row has an entry.
Known(l) ==
    /\ pc = "assign" /\ l \in todo /\ imap.index[l] # 0
    /\ todo' = todo \ {l}
    /\ UNCHANGED <<plugged, files, pc, rows, imap, changed, published, events,
                   bounds>>

\* Mutation of NextIndex: an index no adapter in the machine has.
NextFree == CHOOSE i \in 1..(Cardinality(Luids) + 1) :
                \A l \in rows : imap.index[l] # i

\* next_if_index
NextIndex == imap.next

\* Mutation of Assign: the counter is not moved on.
AssignWithoutAdvance(l) ==
    /\ pc = "assign" /\ l \in todo /\ imap.index[l] = 0
    /\ imap' = [imap EXCEPT !.index[l] = NextIndex]
    /\ changed' = TRUE /\ todo' = todo \ {l}
    /\ UNCHANGED <<plugged, files, pc, rows, published, events, bounds>>

\* The row is new.
Assign(l) ==
    /\ pc = "assign" /\ l \in todo /\ imap.index[l] = 0
    /\ imap' = [index |-> [imap.index EXCEPT ![l] = NextIndex],
                next |-> imap.next + 1]
    /\ changed' = TRUE /\ todo' = todo \ {l}
    /\ UNCHANGED <<plugged, files, pc, rows, published, events, bounds>>

\* The end of the loop.
Assigned ==
    /\ pc = "assign" /\ todo = {}
    /\ pc' = IF changed THEN "open" ELSE "publish"
    /\ UNCHANGED <<plugged, files, locals, published, events, bounds>>

-----------------------------------------------------------------------------
(* _save_index_map *)

SaveStep == UNCHANGED <<plugged, locals, published, bounds>>

\* Opening the .tmp truncates it ...
OpenTmp ==
    /\ pc = "open" /\ pc' = "write"
    /\ tmp' = Damaged
    /\ UNCHANGED <<main, bak, events>> /\ SaveStep

\* ... it is written and flushed to the disk ...
WriteTmp ==
    /\ pc = "write" /\ pc' = "backup"
    /\ tmp' = imap
    /\ UNCHANGED <<main, bak, events>> /\ SaveStep

\* ... an existing file becomes the .bak, or stays if that fails ...
Backup ==
    /\ pc = "backup" /\ pc' = "replace"
    /\ \/ main # Absent /\ bak' = main /\ main' = Absent /\ UNCHANGED events
       \/ main = Absent /\ UNCHANGED <<main, bak, events>>
       \/ main # Absent /\ Fault("backup") /\ UNCHANGED <<main, bak>>
    /\ UNCHANGED tmp /\ SaveStep

\* ... and the .tmp becomes the file.
Replace ==
    /\ pc = "replace" /\ pc' = "publish"
    /\ main' = tmp /\ tmp' = Absent
    /\ UNCHANGED <<bak, events>> /\ SaveStep

\* An OSError or UnicodeError in any of these is logged; the rebuild goes on.
SaveFails ==
    /\ pc \in {"open", "write", "replace"} /\ pc' = "publish"
    /\ Fault("save")
    /\ UNCHANGED files /\ SaveStep

\* get_interfaces returns, and the snapshot is swapped in.
Publish ==
    /\ pc = "publish" /\ pc' = "idle"
    /\ served' = [l \in Luids |-> IF l \in rows THEN imap.index[l] ELSE 0]
    /\ given' = [l \in Luids |-> IF l \in rows THEN imap.index[l]
                                               ELSE given[l]]
    /\ UNCHANGED <<plugged, files, locals, events, bounds>>

\* build_snapshot raises later on: the previous snapshot stays.
RebuildFails ==
    /\ pc = "publish" /\ pc' = "idle"
    /\ UNCHANGED <<plugged, files, locals, published, events, bounds>>

-----------------------------------------------------------------------------
(* The environment *)

\* An adapter is added, removed, or put back.
Plug ==
    /\ changes < MaxChanges /\ changes' = changes + 1
    /\ \E l \in Luids : plugged' = IF l \in plugged THEN plugged \ {l}
                                                    ELSE plugged \cup {l}
    /\ UNCHANGED <<files, pc, locals, published, events, crashes>>

\* The process ends, is killed, or loses power, and starts again later.
Crash ==
    /\ crashes < MaxCrashes /\ crashes' = crashes + 1
    /\ pc' = "idle" /\ rows' = {} /\ todo' = {} /\ imap' = EmptyMap
    /\ changed' = FALSE /\ served' = [l \in Luids |-> 0]
    /\ UNCHANGED <<plugged, files, given, events, changes>>

\* A file stops being readable.
Damage ==
    /\ Fault("damage")
    /\ \/ Readable(main) /\ main' = Damaged /\ UNCHANGED bak
       \/ Readable(bak) /\ bak' = Damaged /\ UNCHANGED main
    /\ UNCHANGED <<plugged, tmp, pc, locals, published, bounds>>

-----------------------------------------------------------------------------
GetInterfaces ==
    \/ Enumerate \/ EnumerateFails \/ LoadMain \/ LoadBak
    \/ \E l \in Luids : Known(l) \/ Assign(l)
    \/ Assigned \/ OpenTmp \/ WriteTmp \/ Backup \/ Replace \/ SaveFails
    \/ Publish \/ RebuildFails

Next == GetInterfaces \/ Plug \/ Crash \/ Damage

Spec == Init /\ [][Next]_vars

-----------------------------------------------------------------------------
(* Properties *)

TypeOK ==
    /\ plugged \subseteq Luids /\ rows \subseteq Luids /\ todo \subseteq Luids
    /\ main \in Map \cup {Absent, Damaged} /\ bak \in Map \cup {Absent, Damaged}
    /\ tmp \in Map \cup {Absent, Damaged} /\ imap \in Map
    /\ pc \in {"idle", "load", "loadbak", "assign", "open", "write", "backup",
               "replace", "publish"}
    /\ changed \in BOOLEAN
    /\ served \in [Luids -> Nat] /\ given \in [Luids -> Nat]
    /\ happened \subseteq FaultKinds
    /\ faults \in Nat /\ changes \in Nat /\ crashes \in Nat

\* No two adapters have the same index.
Distinct(f) == \A l, k \in Luids : l # k /\ f[l] # 0 => f[l] # f[k]

\* Two interfaces of one snapshot never share an ifIndex, whichever file the
\* map came from and whatever failed before; if they did, build_snapshot would
\* find a duplicate OID and every rebuild would fail.
NoSharedIndex == Distinct(served)

\* The faults after which indices are not kept: a save failed, a file was
\* damaged, or a good one could not be read once and an older map, or none, was
\* taken for it.  The rename to .bak may fail, and so may GetIfTable2.
Harmful == {"save", "damage", "read"}
Unharmed == happened \cap Harmful = {}

\* An index once published is kept across rebuilds, removals, and crashes
\* anywhere in a save, until one of these faults happens.
KeepsIndex == \A l \in Luids : given[l] \in {0, given'[l]}
IndexKept == [][Unharmed' => KeepsIndex]_vars

\* The index of an adapter that is gone is not given to another one, for which
\* a monitoring system would continue its history, until then.
IndexNotReused == Unharmed => Distinct(given)

-----------------------------------------------------------------------------
(* The inductive invariant *)

\* Every index in the map is below the one that is next.
WellFormed(m) == Distinct(m.index) /\ \A l \in Luids : m.index[l] < m.next

\* All maps, on disk and in the rebuild, are well formed, whatever happened.
MapsInv ==
    /\ \A m \in {main, bak, tmp} : m \in Map => WellFormed(m)
    /\ WellFormed(imap) /\ Distinct(served)
    /\ todo \subseteq rows
    /\ pc \in {"load", "loadbak"} => todo = rows
    /\ pc \in {"open", "write", "backup", "replace", "publish"} =>
           \A l \in rows : imap.index[l] # 0
    /\ pc = "assign" => \A l \in rows \ todo : imap.index[l] # 0

\* What a rebuild that starts now would load.
Recoverable == IF Readable(main) THEN main
               ELSE IF Readable(bak) THEN bak ELSE EmptyMap

\* The map gives every adapter the index it was published with.
Covers(m) ==
    \A l \in Luids : given[l] # 0 => m.index[l] = given[l]

KeptInv ==
    /\ main # Damaged /\ bak # Damaged
    /\ Covers(Recoverable)
    /\ pc = "loadbak" => ~Readable(main)
    /\ pc \notin {"idle", "load", "loadbak"} => Covers(imap)
    /\ pc \in {"backup", "replace"} => tmp = imap
    /\ pc = "assign" /\ ~changed => imap = Recoverable
    /\ pc = "publish" => imap = Recoverable

IInv == TypeOK /\ MapsInv /\ (Unharmed => KeptInv)
===============================================================================
