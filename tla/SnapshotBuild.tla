----------------------------- MODULE SnapshotBuild -----------------------------
(***************************************************************************)
(* The building of snapshots (deploy/jt_agent.py: build_snapshot with      *)
(* _collector, get_inventory and observed_max_temp), by one process after  *)
(* another.  The collectors run one after the other while the machine      *)
(* under them changes, and each of them may fail; what they returned is    *)
(* made into rows, which replace the served snapshot or end the build.     *)
(* SnapshotServer has the loop around the builds and the requests.         *)
(***************************************************************************)
EXTENDS Collectors

CONSTANTS
    Machines,           \* what the collectors can find
    Fallible,           \* the collectors whose failures are explored
    enable_arp_table,   \* the configuration
    Misshapen,          \* a maximum file that is JSON of another shape
    MaxBuilds,          \* bound on the builds
    MaxEvents           \* bound on failures, changes, damages and crashes

\* What a machine can be: its adapters have an ifIndex each and Windows indexes
\* of their own, it has disks among the sixteen that are looked for, fewer than
\* a thousand sockets and memory modules, and one entry for each neighbour.
MachineType(m) ==
    /\ DOMAIN m.nics \subseteq DOMAIN IfIndex
    /\ \A l \in DOMAIN m.nics :
           /\ m.nics[l].win \in Nat /\ m.nics[l].speed \in Nat
           /\ \A k \in DOMAIN m.nics : m.nics[k].win = m.nics[l].win => k = l
    /\ m.pools \in Nat /\ m.volumes \in Nat /\ m.cpus \in Nat
    /\ m.frequencies \in Nat /\ m.zones.inst_count \in Nat
    /\ m.zones.claimed \in Nat /\ m.zones.held \in Nat
    /\ DOMAIN m.disks \subseteq 0..15
    /\ \A d \in DOMAIN m.disks : ReadingType(m.disks[d])
    /\ processors(m.smbios) \in Nat /\ processors(m.smbios) < 1000
    /\ memory_devices(m.smbios) \in Nat /\ memory_devices(m.smbios) < 1000
    /\ \A e \in m.addresses \cup m.neighbors \cup m.routes :
           {"luid", "win"} \subseteq DOMAIN e
    /\ \A e \in m.neighbors : "addr" \in DOMAIN e
    /\ \A e \in m.routes : "metric" \in DOMAIN e /\ e.metric \in Nat
    /\ \A e, f \in m.neighbors : e.luid = f.luid /\ e.addr = f.addr => e = f

\* None is no word, no number and no table of maxima.
ASSUME NoneAssumption ==
    /\ None \notin {"speed", "maxima", "guard", "pass", "fail"}
    /\ None \notin Int
    /\ \A D \in SUBSET (0..15) : None \notin [D -> Int]

\* An exception is no result: Raised is what the two collectors that look at
\* their call make of a failure, and nothing a machine can say.
ASSUME RaisedAssumption ==
    /\ Raised \notin Int /\ Raised # None
    /\ \A m \in Machines, ok \in BOOLEAN, name \in Lists \cup {"inventory"} :
           Returns(name, m, ok) # Raised

ASSUME BoundsAssumption == MaxBuilds \in Nat /\ MaxEvents \in Nat

ASSUME MachinesAssumption == \A m \in Machines : MachineType(m)

VARIABLES
    machine,        \* the machine at this moment
    up,             \* "down", "starting" (first build) or "serving"
    at,             \* the collector of BuildOrder that is next, 0: no build
    got,            \* what the collectors of this build returned
    mishap,         \* how those of them ended that did not end as they should
    moved,          \* a Windows index changed since the interfaces were read
    status,         \* _health["collectors"]
    inventory,      \* _inventory_cache, and the build it was read in
    cache,          \* _maxtemp_cache, None: not loaded
    observed,       \* max_temp of the disks of this build
    maxfile,        \* disk-maxtemp.json
    unsaved,        \* it lacks a maximum the process knew
    peak,           \* the highest temperature ever published, of each disk
    served,         \* the snapshot, None: there is none
    failed,         \* why the last build ended without one, or None
    builds, events

process == <<status, inventory, cache>>
build == <<got, mishap, moved, observed>>
vars == <<machine, up, at, build, process, maxfile, unsaved, peak, served,
          failed, builds, events>>

\* f[key] = value, for a dictionary.
Put(f, key, value) ==
    [k \in DOMAIN f \cup {key} |-> IF k = key THEN value ELSE f[k]]

Unread == [name \in Names |-> Default(name)]

Forget == /\ status' = Nothing
          /\ inventory' = None
          /\ cache' = None

Happens == events < MaxEvents /\ events' = events + 1

Init ==
    /\ machine \in Machines
    /\ up = "down" /\ at = 0
    /\ got = Unread /\ mishap = Nothing /\ moved = FALSE /\ observed = Nothing
    /\ status = Nothing /\ inventory = None /\ cache = None
    /\ maxfile = Nothing /\ unsaved = FALSE /\ peak = Nothing
    /\ served = None /\ failed = None
    /\ builds = 0 /\ events = 0

-----------------------------------------------------------------------------
(* A build *)

\* The first one when the process starts, the others every five seconds.
StartBuild ==
    /\ at = 0
    /\ builds < MaxBuilds
    /\ builds' = builds + 1
    /\ up' = IF up = "down" THEN "starting" ELSE up
    /\ at' = 1
    /\ got' = Unread
    /\ mishap' = Nothing /\ moved' = FALSE /\ observed' = Nothing
    /\ failed' = None
    /\ UNCHANGED <<machine, process, maxfile, unsaved, peak, served, events>>

Running(name) == at > 0 /\ at <= Len(BuildOrder) /\ BuildOrder[at] = name

\* The first build that fails ends the process, a later one leaves the
\* snapshot of an earlier build.
BuildFails(why) ==
    /\ at' = 0
    /\ failed' = why
    /\ up' = IF up = "starting" THEN "down" ELSE up
    /\ IF up = "starting" THEN Forget ELSE UNCHANGED process
    /\ UNCHANGED <<machine, build, maxfile, unsaved, peak, served, builds,
                   events>>

\* The rows of the interfaces are made before the next collector runs.
SpeedUnencodable ==
    /\ at = 2
    /\ ~Encodable(got)
    /\ BuildFails("speed")

\* The fallback for the process count, and the neighbours by configuration.
Skipped(name) ==
    \/ name = "processes" /\ got["perf_info"] # None
    \/ name = "ip_neighbors" /\ ~enable_arp_table

Skip(name) ==
    /\ Running(name)
    /\ Skipped(name)
    /\ at' = at + 1
    /\ UNCHANGED <<machine, up, build, process, maxfile, unsaved, peak, served,
                   failed, builds, events>>

\* The default where the collector raised.
Kept(name, result) == IF result = Raised THEN Default(name) ELSE result

\* Mutation of Health: only a failure sets the status.
HealthUnset(result) == IF result = Raised THEN "failed" ELSE None

Health(result) == IF result = Raised THEN "failed" ELSE "ok"

\* Mutation of _collector: what a collector's status was stays.
_collectorOnce(name, result) ==
    /\ got' = [got EXCEPT ![name] = Kept(name, result)]
    /\ status' = status @@ name :> Health(result)

\* The status shows whether the collector raised this time.
_collector(name, result) ==
    /\ got' = [got EXCEPT ![name] = Kept(name, result)]
    /\ status' = Put(status, name, Health(result))

\* How a collector's call can end: as it should, with an error the collector
\* looks at or not, or with an exception.
Outcome(name, outcome) ==
    IF outcome = "fine" THEN UNCHANGED <<mishap, events>>
    ELSE /\ name \in Fallible
         /\ Happens
         /\ mishap' = Put(mishap, name, outcome)

Result(name, outcome) ==
    IF outcome = "raises" THEN Raised
                          ELSE Returns(name, machine, outcome = "fine")

Collect(name) ==
    /\ Running(name)
    /\ name \notin {"inventory", "observe"}
    /\ at = 2 => Encodable(got)
    /\ ~Skipped(name)
    /\ at' = at + 1
    /\ \E outcome \in {"fine", "fails", "raises"} :
           /\ Outcome(name, outcome)
           /\ _collector(name, Result(name, outcome))
    /\ UNCHANGED <<machine, up, moved, observed, inventory, cache, maxfile,
                   unsaved, peak, served, failed, builds>>

\* get_inventory reads once; it is cached unless the disks raised.
CollectInventory ==
    /\ Running("inventory")
    /\ at' = at + 1
    /\ IF inventory # None
       THEN /\ _collector("inventory", inventory.found)
            /\ UNCHANGED <<inventory, mishap, events>>
       ELSE \E outcome \in {"fine", "fails", "raises"} :
                /\ Outcome("inventory", outcome)
                /\ _collector("inventory", Result("inventory", outcome))
                /\ inventory' =
                       IF outcome = "raises" THEN None
                       ELSE [found |-> Result("inventory", outcome),
                             readings |-> machine.disks, at |-> builds]
    /\ UNCHANGED <<machine, up, moved, observed, cache, maxfile, unsaved, peak,
                   served, failed, builds>>

-----------------------------------------------------------------------------
(* The highest temperatures *)

\* What the file holds is read once.
Known == IF cache = None THEN maxfile ELSE cache

Valid(t) == t # None /\ 0 < t /\ t < 150

Rises(last, t) == Valid(t) /\ (IF last = None THEN TRUE ELSE t > last)

\* A file of another shape raises where no collector catches it.
MaximaUnreadable ==
    /\ Running("observe")
    /\ Answering(got) # {}
    /\ cache = None /\ maxfile = Misshapen
    /\ BuildFails("maxima")

\* A file that cannot be opened or read this once is no file to this process,
\* and what it observes is written over it: nothing is left to promise.
MaximaNotRead ==
    /\ Running("observe")
    /\ Answering(got) \ DOMAIN observed # {}
    /\ cache = None
    /\ Happens
    /\ cache' = Nothing
    /\ peak' = Nothing
    /\ UNCHANGED <<machine, up, at, build, status, inventory, maxfile, unsaved,
                   served, failed, builds>>

\* Mutation of Maxima: the file is written for this disk alone.
MaximaOfOne(known, d, t) == d :> t

\* The maxima when d has risen to t; all of them are written.
Maxima(known, d, t) == Put(known, d, t)

\* observed_max_temp for the next disk.  A maximum that is not saved is kept by
\* this process only; with the file gone there is nothing left to promise.
Observe ==
    /\ Running("observe")
    /\ Answering(got) \ DOMAIN observed # {}
    /\ ~(cache = None /\ maxfile = Misshapen)
    /\ LET d == Min(Answering(got) \ DOMAIN observed)
           t == TempOf(Disks(got)[d])
           last == IF d \in DOMAIN Known THEN Known[d] ELSE None
       IN \/ /\ Rises(last, t)
             /\ observed' = Put(observed, d, t)
             /\ cache' = Put(Known, d, t)
             /\ \/ /\ maxfile' = Maxima(Known, d, t)
                   /\ unsaved' = FALSE
                   /\ UNCHANGED events
                \/ /\ Happens
                   /\ unsaved' = TRUE
                   /\ UNCHANGED maxfile
          \/ /\ ~Rises(last, t)
             /\ observed' = Put(observed, d, last)
             /\ cache' = Known
             /\ unsaved' = (unsaved /\ cache # None)
             /\ UNCHANGED <<maxfile, events>>
    /\ peak' = IF cache = None /\ unsaved THEN Nothing ELSE peak
    /\ UNCHANGED <<machine, up, at, got, mishap, moved, status, inventory,
                   served, failed, builds>>

AllObserved ==
    /\ Running("observe")
    /\ Answering(got) \subseteq DOMAIN observed
    /\ at' = at + 1
    /\ UNCHANGED <<machine, up, build, process, maxfile, unsaved, peak, served,
                   failed, builds, events>>

-----------------------------------------------------------------------------
(* The end of a build *)

Guard ==
    /\ at > Len(BuildOrder)
    /\ DuplicateOid(Rows(got))
    /\ BuildFails("guard")

Higher(d, t) == IF d \in DOMAIN peak THEN Max({t, peak[d]}) ELSE t

Publish ==
    /\ at > Len(BuildOrder)
    /\ ~DuplicateOid(Rows(got))
    /\ at' = 0
    /\ up' = "serving"
    /\ served' = [build |-> builds, got |-> got, mishap |-> mishap,
                  moved |-> moved, status |-> status, inventory |-> inventory,
                  max_temp |-> [d \in SmartDisks(got) |-> observed[d]]]
    /\ peak' = [d \in {d \in SmartDisks(got) : observed[d] # None} |->
                    Higher(d, observed[d])] ++ peak
    /\ UNCHANGED <<machine, build, process, maxfile, unsaved, failed, builds,
                   events>>

-----------------------------------------------------------------------------
(* What happens around it *)

Passed(m) ==
    \E n \in got["interfaces"] : \E l \in DOMAIN m.nics \ {n.luid} :
        m.nics[l].win = n.win

Change ==
    /\ Happens
    /\ machine' \in Machines \ {machine}
    /\ moved' = (moved \/ (at > 0 /\ Passed(machine')))
    /\ UNCHANGED <<up, at, got, mishap, observed, process, maxfile, unsaved,
                   peak, served, failed, builds>>

\* Another program's doing, or an administrator's.
Damage ==
    /\ Happens
    /\ maxfile' \in {Nothing, Misshapen} \ {maxfile}
    /\ unsaved' = TRUE
    /\ UNCHANGED <<machine, up, at, build, process, peak, served, failed,
                   builds>>

\* The process ends, between any two steps.
Crash ==
    /\ up # "down"
    /\ Happens
    /\ up' = "down" /\ at' = 0
    /\ Forget
    /\ served' = None /\ failed' = None
    /\ UNCHANGED <<machine, build, maxfile, unsaved, peak, builds>>

Next ==
    \/ StartBuild
    \/ SpeedUnencodable
    \/ \E name \in Names : Skip(name)
    \/ \E name \in Names : Collect(name)
    \/ CollectInventory
    \/ MaximaUnreadable
    \/ MaximaNotRead
    \/ Observe
    \/ AllObserved
    \/ Guard
    \/ Publish
    \/ Change
    \/ Damage
    \/ Crash

Spec == Init /\ [][Next]_vars

-----------------------------------------------------------------------------
(* Properties *)

Interfaces == [luid : DOMAIN IfIndex, win : Nat, speed : Nat]

\* What a collector's result is made of.
ResultType(name, result) ==
    CASE name = "interfaces" -> result \subseteq Interfaces
      [] name \in Lists \ {"interfaces"} ->
             \A e \in result : e.luid \in DOMAIN IfIndex /\ e.win \in Nat
      [] name \in Counts \cup {"memory", "cpu_name"} -> result \in Nat
      [] name = "inventory" ->
             \/ result = None
             \/ /\ DOMAIN result.disks \subseteq 0..15
                /\ result.smbios.processors \in Nat
                /\ result.smbios.memory \in Nat
      [] OTHER -> result = None \/ result \in Nat

\* Every variable has its type.
TypeOK ==
    /\ machine \in Machines
    /\ up \in {"down", "starting", "serving"}
    /\ at \in 0..(Len(BuildOrder) + 1)
    /\ DOMAIN got = Names /\ \A name \in Names : ResultType(name, got[name])
    /\ DOMAIN mishap \subseteq Fallible /\ moved \in BOOLEAN
    /\ DOMAIN status \subseteq Names
    /\ \A name \in DOMAIN status : status[name] \in {"ok", "failed"}
    /\ inventory # None => inventory.at \in 1..builds
    /\ unsaved \in BOOLEAN
    /\ served # None => served.build \in 1..builds
    /\ failed \in {None, "speed", "maxima", "guard"}
    /\ builds \in 0..MaxBuilds /\ events \in 0..MaxEvents

\* Two published interfaces have one address.
SharedAddress(g) ==
    \E p, q \in Bound(g, g.ip_addresses) :
        /\ p # q
        /\ p[1].version = q[1].version /\ p[1].addr = q[1].addr

\* The duplicate-OID guard, which ends the process in the first build and
\* freezes the snapshot in a later one, never ends a build for what the tables
\* make of each other: only for one address on two interfaces.
GuardOnlyForShared == failed = "guard" => SharedAddress(got)

\* The rows that are referred to though nothing says that they exist: the
\* chassis and the mainboard of a firmware without them, and the first disk of
\* a machine whose disks cannot be opened.
Hollow(g) ==
    (IF Smbios(g).system THEN {} ELSE {Ref("entPhysical", <<ENT_SYSTEM>>)})
    \cup (IF HasBoard(Smbios(g).board) THEN {}
          ELSE {Ref("entPhysical", <<ENT_MAINBOARD>>)})
    \cup (IF DOMAIN Disks(g) # {} THEN {}
          ELSE {Ref("hrDevice", <<DEV_BASE_DISK>>)})

\* A column that names a row of another table names one of the same snapshot,
\* whichever collectors failed and whatever the machine did between them; and
\* an address, a neighbour or a route is put on the interface it was read from,
\* unless a Windows index passed to another adapter during this build.
RowsPointRight ==
    at = 0 /\ served # None =>
        LET g == served.got
            rows == Rows(g)
            keys == {Key(r) : r \in rows} \cup Hollow(g)
        IN \A r \in rows :
               /\ r.ref = None \/ r.ref \in keys
               /\ r.of[1] = "entry" /\ ~served.moved =>
                      r.ref = Ref("ifTable", <<IfIndex[r.of[2].luid]>>)

\* The rows, by what they are about or by table, that a collector answers for.
Marks(name) ==
    CASE name = "interfaces" -> {"if"}
      [] name = "volumes" -> {"volume"}
      [] name = "diskio" -> {"io"}
      [] name = "inventory" -> {"system", "board", "socket", "dimm"}
      [] name = "ip_addresses" -> {"ipAddrTable", "ipAddress"}
      [] name = "ip_neighbors" -> {"ipNetToPhysical"}
      [] name = "routes" -> {"ipRoute"}
      [] name = "thermal_zones" -> {"zone"}
      [] name = "cpu_frequency" -> {"frequency"}
      [] name \in {"perf_info", "cpu_name", "memory"} -> {}
      [] OTHER -> {name}

\* Only these two look at the result of their call and raise.
Raises(name, outcome) ==
    outcome = "raises" \/ name \in {"cpu", "processes"}

\* The rows of a collector whose call failed are not in the snapshot, so that
\* nothing in it was made up - except for the sessions, which are then none,
\* and the memory, which is then zero; and the collector table of the snapshot
\* says of each collector that ran whether it raised in this very build.
FailureIsShown ==
    at = 0 /\ served # None =>
        LET rows == Rows(served.got)
            ill == DOMAIN served.mishap
        IN /\ \A name \in ill : \A r \in rows :
                  \/ {r.of[1], r.table} \cap Marks(name) = {}
                  \/ name = "sessions" /\ served.mishap[name] = "fails"
           /\ \A name \in DOMAIN served.status :
                  \/ name = "processes" /\ served.got["perf_info"] # None
                  \/ served.status[name] = "failed" <=>
                         name \in ill /\ Raises(name, served.mishap[name])

Condemned(r) == r.status = "fail" \/ (r.nvme # None /\ r.nvme.warning # 0)

BadSectors(r) ==
    /\ r.ata # None
    /\ \E id \in {5, 197, 198} \cap Ids(r.ata) : Raw(r.ata, id) % U32 > 0

\* A disk that answers the commands of one kind.
OneProtocol(r) == r.nvme = None \/ (r.ata = None /\ r.status = None)

\* The two verdicts on a disk, jtDiskHealthState and the SMART application's,
\* do not contradict each other or the firmware: a disk the firmware condemns is
\* critical in both and no other is, one that is ok passed its own test and is
\* cooler than 70 degrees, and a bad sector shows in both.
DiskVerdict ==
    at = 0 /\ served # None =>
        \A d \in SmartDisks(served.got) :
            LET r == served.inventory.readings[d]
                state == Grade(Disks(served.got)[d])
                smart == SmartJson(served.got)
            IN OneProtocol(r) =>
               /\ Condemned(r) <=> state = "critical"
               /\ state = "critical" <=> smart.health_pass[d] = 0
               /\ state = "ok" =>
                      /\ smart.health_pass[d] = 1
                      /\ TempOf(Disks(served.got)[d]) = None
                         \/ TempOf(Disks(served.got)[d]) < 70
               /\ BadSectors(r) => d \in smart.unhealthy /\ state # "ok"

\* The published maximum of a disk is at least its temperature, and never lower
\* than one published before, by this process or an earlier one - unless the
\* file lost it: a save that failed, or damage, and no later save, or a read
\* that failed.
MaxKept ==
    at = 0 /\ served # None =>
        \A d \in DOMAIN served.max_temp :
            LET max_temp == served.max_temp[d]
                t == TempOf(Disks(served.got)[d])
            IN /\ Valid(t) => max_temp # None /\ max_temp >= t
               /\ d \in DOMAIN peak => max_temp # None /\ max_temp >= peak[d]

\* What a disk said is served by the build that read it, as the comment on the
\* time stamp of the sensors says.
ReadingsCurrent ==
    served # None /\ served.inventory # None =>
        served.inventory.at = served.build
===============================================================================
