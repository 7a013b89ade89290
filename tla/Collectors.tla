------------------------------ MODULE Collectors ------------------------------
(***************************************************************************)
(* The collectors (deploy/jt_agent.py): what each returns, from the        *)
(* machine m it reads and from whether its Windows call succeeds (ok).     *)
(* Most of them take a failed call for an empty result; two raise.  A      *)
(* block of counters is the value 1, a list without an index is its size.  *)
(***************************************************************************)
EXTENDS SnapshotRows

CONSTANT Raised   \* the result of a collector that raises by itself

\* The filters leave hardware interfaces that are no members of a team.  ok
\* includes the index map: IndexMap has what becomes of that when it fails.
get_interfaces(m, ok) ==
    IF ~ok THEN {}
    ELSE {[luid |-> l, win |-> m.nics[l].win, speed |-> m.nics[l].speed] :
              l \in {l \in DOMAIN m.nics : m.nics[l].hardware}}

\* The rows it adds to the storage table: three, or four with a page file.
get_perf_info(m, ok) == IF ok THEN m.pools ELSE None

\* A failure is counted as no session.
get_session_count(ok) == IF ok THEN 1 ELSE 0

get_process_count(ok) == IF ok THEN 1 ELSE Raised

\* Whether the call succeeds is not looked at: the zeros of the empty structure
\* are what is returned otherwise.
get_memory(ok) == IF ok THEN 1 ELSE 0

get_fixed_volumes(m, ok) == IF ok THEN m.volumes ELSE 0

\* Each disk that can be opened, with what it answers to the four paths; one
\* that cannot be probed is in the list without health.
get_physical_disks(m) ==
    [d \in DOMAIN m.disks |-> probe(m.disks[d])]

\* An error in the SMBIOS table costs that part of it.
get_inventory(m, ok) ==
    [smbios |-> IF ok THEN collect(m.smbios) ELSE NoSmbios,
     disks |-> get_physical_disks(m)]

\* The name is a default where the registry has none.
get_cpu_name(ok) == 1

MAX_PROCESSORS == 512

\* Of all processor groups, at least one and up to the ceiling.
active_cpu_count(m) == Min({Max({m.cpus, 1}), MAX_PROCESSORS})

get_cpu_loads(m, ok) == IF ok THEN active_cpu_count(m) ELSE Raised

get_disk_io(m, ok) == IF ok THEN Cardinality(DOMAIN m.disks) ELSE 0

\* GetIpStatisticsEx, GetTcpStatisticsEx, GetUdpStatisticsEx, GetIcmpStatistics
get_ip_stats(ok) == IF ok THEN 1 ELSE None

\* The entry carries the Windows index its adapter has at this moment.
Entries(m, table) ==
    {[e EXCEPT !.win = m.nics[e.luid].win] :
         e \in {e \in table : e.luid \in DOMAIN m.nics}}

get_ip_addresses(m, ok) == IF ok THEN Entries(m, m.addresses) ELSE {}

get_ip_neighbors(m, ok) == IF ok THEN Entries(m, m.neighbors) ELSE {}

get_routes(m, ok) == IF ok THEN Entries(m, m.routes) ELSE {}

\* The zones in what the driver returned.
read_thermal_zones(m, ok) == IF ok THEN Cardinality(Zones(m.zones)) ELSE 0

read_cpu_frequencies(m, ok) == IF ok THEN m.frequencies ELSE 0

read_battery(m, ok) == IF ok /\ m.battery THEN 1 ELSE None

get_system_perf(ok) == IF ok THEN 1 ELSE None

get_cpu_times_total(ok) == IF ok THEN 1 ELSE None

-----------------------------------------------------------------------------
\* The collectors in the order build_snapshot calls them.
BuildOrder == <<
    "interfaces", "perf_info", "sessions", "processes", "memory", "volumes",
    "inventory", "cpu_name", "cpu", "diskio", "ip_stats", "icmp_stats",
    "tcp_stats", "udp_stats", "ip_addresses", "ip_neighbors", "routes",
    "thermal_zones", "cpu_frequency", "battery", "observe", "sys_perf",
    "cpu_times">>

Names == {BuildOrder[k] : k \in DOMAIN BuildOrder} \ {"observe"}

Lists == {"interfaces", "ip_addresses", "ip_neighbors", "routes"}
Counts == {"volumes", "cpu", "diskio", "thermal_zones", "cpu_frequency"}

\* What _collector returns for one that raised: an empty list, or None.  The
\* memory's None is replaced by zeros, the processor's name has a default.
Default(name) ==
    CASE name \in Lists -> {}
      [] name \in Counts -> 0
      [] name = "memory" -> 0
      [] name = "cpu_name" -> 1
      [] OTHER -> None

Returns(name, m, ok) ==
    CASE name = "interfaces" -> get_interfaces(m, ok)
      [] name = "perf_info" -> get_perf_info(m, ok)
      [] name = "sessions" -> get_session_count(ok)
      [] name = "processes" -> get_process_count(ok)
      [] name = "memory" -> get_memory(ok)
      [] name = "volumes" -> get_fixed_volumes(m, ok)
      [] name = "inventory" -> get_inventory(m, ok)
      [] name = "cpu_name" -> get_cpu_name(ok)
      [] name = "cpu" -> get_cpu_loads(m, ok)
      [] name = "diskio" -> get_disk_io(m, ok)
      [] name \in {"ip_stats", "icmp_stats", "tcp_stats", "udp_stats"} ->
             get_ip_stats(ok)
      [] name = "ip_addresses" -> get_ip_addresses(m, ok)
      [] name = "ip_neighbors" -> get_ip_neighbors(m, ok)
      [] name = "routes" -> get_routes(m, ok)
      [] name = "thermal_zones" -> read_thermal_zones(m, ok)
      [] name = "cpu_frequency" -> read_cpu_frequencies(m, ok)
      [] name = "battery" -> read_battery(m, ok)
      [] name = "sys_perf" -> get_system_perf(ok)
      [] name = "cpu_times" -> get_cpu_times_total(ok)
===============================================================================
