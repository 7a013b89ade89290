----------------------------- MODULE SnapshotRows -----------------------------
(***************************************************************************)
(* The rows of a snapshot (deploy/jt_agent.py, build_snapshot), from what  *)
(* the collectors returned.  A row stands for the objects of one table     *)
(* that share an index; its columns are left out, but for the one that     *)
(* names a row of another table.                                           *)
(***************************************************************************)
EXTENDS DiskHealth, Firmware

CONSTANTS
    IfIndex,      \* the ifIndex of each adapter, from the index map
    Mega,         \* 1_000_000
    SmartFits     \* disks whose SMART output is within MAX_EXTEND_BYTES

DEV_BASE_CPU == 196608
DEV_BASE_NET == 262144
DEV_BASE_DISK == 327680
ENT_SYSTEM == 1000
ENT_MAINBOARD == 1100
ENT_CPU_BASE == 2000
ENT_DIMM_BASE == 3000
ENT_DISK_BASE == 4000
ENT_SENSOR_BASE == 5000
ENT_THERMAL_BASE == 5500
ENT_CPUFREQ_BASE == 5900

IfIndexMax == DEV_BASE_DISK - DEV_BASE_NET - 1

\* What the ranges of the indexes have room for, and no two adapters with the
\* same ifIndex.
ASSUME IndexAssumption ==
    /\ MAX_INSTANCES <= ENT_CPUFREQ_BASE - ENT_THERMAL_BASE
    /\ \A l \in DOMAIN IfIndex :
           /\ IfIndex[l] \in 1..IfIndexMax
           /\ \A k \in DOMAIN IfIndex : IfIndex[k] = IfIndex[l] => k = l

\* ref: the row a column of this one refers to; of: what the row is about.
Row(table, index, ref, of) ==
    [table |-> table, index |-> index, ref |-> ref, of |-> of]

Ref(table, index) == <<table, index>>

Upto(n) == 0..(n - 1)

-----------------------------------------------------------------------------
(* IF-MIB and the devices; g has what each collector returned *)

IfTable(g) ==
    {Row("ifTable", <<IfIndex[n.luid]>>, None, <<"if", n.luid>>) :
         n \in g.interfaces}

\* hrStorageTable: the rows are numbered as they come: two for the memory,
\* those GetPerformanceInfo adds, and the volumes.
HrStorage(g) ==
    LET extra == IF g.perf_info = None THEN 0 ELSE g.perf_info
    IN {Row("hrStorage", <<i>>, None, <<"storage", i>>) :
            i \in 1..(2 + extra + g.volumes)}

HrProcessors(g) ==
    {Row("hrDevice", <<DEV_BASE_CPU + i>>, None, <<"cpu", i>>) :
         i \in Upto(g.cpu)}

HrNetwork(g) ==
    {Row("hrDevice", <<DEV_BASE_NET + IfIndex[n.luid]>>,
         Ref("ifTable", <<IfIndex[n.luid]>>), <<"if", n.luid>>) :
         n \in g.interfaces}

\* The disks get_inventory found; none where the collector failed.
Disks(g) == IF g.inventory = None THEN Nothing ELSE g.inventory.disks

HrDisks(g) ==
    {Row("hrDevice", <<DEV_BASE_DISK + d>>, None, <<"disk", d>>) :
         d \in DOMAIN Disks(g)}

-----------------------------------------------------------------------------
(* ENTITY-MIB *)

Entity(index, parent, of) ==
    Row("entPhysical", <<index>>, Ref("entPhysical", <<parent>>), of)

NoSmbios == collect(<<>>)

Smbios(g) == IF g.inventory = None THEN NoSmbios ELSE g.inventory.smbios

HasBoard(b) == b.product # "" \/ b.maker # ""

\* Sockets and memory are on the mainboard if that has a name.
OnBoard(b) == IF b.product # "" THEN ENT_MAINBOARD ELSE ENT_SYSTEM

Entities(g) ==
    LET s == Smbios(g)
    IN (IF s.system
        THEN {Row("entPhysical", <<ENT_SYSTEM>>, None, <<"system">>)} ELSE {})
       \cup (IF HasBoard(s.board)
             THEN {Entity(ENT_MAINBOARD, ENT_SYSTEM, <<"board">>)} ELSE {})
       \cup {Entity(ENT_CPU_BASE + i, OnBoard(s.board), <<"socket", i>>) :
                 i \in Upto(s.processors)}
       \cup {Entity(ENT_DIMM_BASE + i, OnBoard(s.board), <<"dimm", i>>) :
                 i \in Upto(s.memory)}
       \cup {Entity(ENT_DISK_BASE + d, ENT_SYSTEM, <<"disk", d>>) :
                 d \in DOMAIN Disks(g)}

-----------------------------------------------------------------------------
(* ENTITY-SENSOR-MIB: a sensor has a row in both tables *)

Sensor(index, parent, of) ==
    {Entity(index, parent, of),
     Row("entPhySensor", <<index>>, Ref("entPhysical", <<index>>), of)}

\* avail_spare_pct is looked up too, and never there.
SensorsOfDisk(d, h) ==
    LET keys == <<"temp_c", "percentage_used", "avail_spare_pct">>
    IN UNION {Sensor(ENT_SENSOR_BASE + d * 10 + k, ENT_DISK_BASE + d,
                     <<"sensor", d, k>>) :
                  k \in {j \in 0..2 : Has(h, keys[j + 1])}}

DiskSensors(g) ==
    UNION {SensorsOfDisk(d, Disks(g)[d]) : d \in DOMAIN Disks(g)}

ThermalSensors(g) ==
    UNION {Sensor(ENT_THERMAL_BASE + z, ENT_MAINBOARD, <<"zone", z>>) :
               z \in Upto(g.thermal_zones)}

\* One sensor for all processors.
FrequencySensor(g) ==
    IF g.cpu_frequency = 0 THEN {}
    ELSE Sensor(ENT_CPUFREQ_BASE, ENT_MAINBOARD, <<"frequency">>)

-----------------------------------------------------------------------------
(* Addresses, neighbours and routes *)

\* _win2if: the entries whose Windows index an interface of this snapshot has,
\* each with that interface.
Bound(g, entries) ==
    {p \in entries \X g.interfaces : p[1].win = p[2].win}

ToIf(n) == Ref("ifTable", <<IfIndex[n.luid]>>)

\* ipAddrTable knows no IPv6; the index has no interface in it in either.
IpAddresses(g) ==
    {Row("ipAddrTable", <<p[1].addr>>, ToIf(p[2]), <<"entry", p[1]>>) :
         p \in {q \in Bound(g, g.ip_addresses) : q[1].version = 4}}
    \cup {Row("ipAddress", <<p[1].version, p[1].addr>>, ToIf(p[2]),
              <<"entry", p[1]>>) : p \in Bound(g, g.ip_addresses)}

IpNeighbors(g) ==
    {Row("ipNetToPhysical", <<IfIndex[p[2].luid], p[1].addr>>, ToIf(p[2]),
         <<"entry", p[1]>>) : p \in Bound(g, g.ip_neighbors)}

\* The first of the lowest metric of each destination.
BestRoute(g, dest) ==
    CHOOSE p \in Bound(g, g.routes) :
        /\ p[1].dest = dest
        /\ \A q \in Bound(g, g.routes) :
               q[1].dest = dest => p[1].metric <= q[1].metric

\* Mutation of IpRoutes: every route has a row.
IpRoutesAll(g) ==
    {Row("ipRoute", <<p[1].dest>>, ToIf(p[2]), <<"entry", p[1]>>) :
         p \in Bound(g, g.routes)}

\* The index is the destination alone.
IpRoutes(g) ==
    {Row("ipRoute", <<dest>>, ToIf(BestRoute(g, dest)[2]),
         <<"entry", BestRoute(g, dest)[1]>>) :
         dest \in {p[1].dest : p \in Bound(g, g.routes)}}

-----------------------------------------------------------------------------
(* Volumes, disks and the rest *)

\* Mutation of PartitionDevice: the first disk is number 0.
PartitionDeviceZero(g) == DEV_BASE_DISK

\* All partitions are put on the first disk, or where it would be.
PartitionDevice(g) ==
    DEV_BASE_DISK + (IF DOMAIN Disks(g) = {} THEN 0 ELSE Min(DOMAIN Disks(g)))

Partitions(g) ==
    {Row("hrPartition", <<PartitionDevice(g), v>>,
         Ref("hrDevice", <<PartitionDevice(g)>>), <<"volume", v>>) :
         v \in 1..g.volumes}
    \cup {Row("hrFS", <<v>>, None, <<"volume", v>>) : v \in 1..g.volumes}

DiskIo(g) == {Row("diskIO", <<i>>, None, <<"io", i>>) : i \in 1..g.diskio}

\* Disks that answered; the others have no row.
Answering(g) == {d \in DOMAIN Disks(g) : Disks(g)[d] # Nothing}

JtDiskHealth(g) ==
    {Row("jtDiskHealth", <<d>>, None, <<"disk", d>>) : d \in Answering(g)}

\* The disks the SMART output has room for, the first of them.
SmartDisks(g) ==
    {d \in Answering(g) :
        Cardinality({e \in Answering(g) : e <= d}) <= SmartFits}

SmartJson(g) == build_smart_json([d \in SmartDisks(g) |-> Disks(g)[d]])

\* The groups without an index, of one collector each: netstats, systemStats
\* of UCD-SNMP-MIB, the battery, and two objects of HOST-RESOURCES-MIB.
NetStats == {"ip_stats", "icmp_stats", "tcp_stats", "udp_stats"}
SystemStats == {"sys_perf", "cpu_times"}
Scalars == {"sessions", "memory", "battery"} \cup NetStats \cup SystemStats

\* hrSystemProcesses comes from the one or the other.
ScalarRows(g) ==
    {Row(c, <<0>>, None, <<c>>) : c \in {c \in Scalars : g[c] # None}}
    \cup (IF g.perf_info = None /\ g.processes = None THEN {}
          ELSE {Row("processes", <<0>>, None, <<"processes">>)})

Rows(g) ==
    UNION {IfTable(g), HrStorage(g), HrProcessors(g), HrNetwork(g), HrDisks(g),
           Entities(g), DiskSensors(g), ThermalSensors(g), FrequencySensor(g),
           IpAddresses(g), IpNeighbors(g), IpRoutes(g), Partitions(g),
           DiskIo(g), JtDiskHealth(g), ScalarRows(g)}

-----------------------------------------------------------------------------
(* What stops a build *)

Key(r) == Ref(r.table, r.index)

\* The guard behind the sort: two rows with one OID.
DuplicateOid(rows) == \E r, s \in rows : r # s /\ Key(r) = Key(s)

\* Every value is within its type, but for ifHighSpeed, which is not clamped:
\* Gauge32 raises on an adapter whose speed is unknown, all ones.
Encodable(g) == \A n \in g.interfaces : n.speed \div Mega < U32
===============================================================================
