# jt-snmpd in TLA+

jt-snmpd is an SNMP agent for Windows: one Python service that collects what
the machine can tell about itself, keeps it as a snapshot, and answers SNMP
requests from that. These modules model its parts as state machines. TLC checks
them on small instances and TLAPS proves the most important facts about them for
every instance. Everything is translated from the source (`deploy/jt_agent.py`
where no file is named); `PROJECT.json` gives the lines of each definition.

## The system

| Component | State | Operations | Interacts with |
|---|---|---|---|
| Engine identity (1557-1796) | `engine.json`, its `.bak` and `.tmp`; `_engine_cache` per process | `_engine_state`: read MachineGuid and boot instant, load, plan, save | service and `user` CLI share the files; user keys are bound to the engineID |
| Pre-authentication gate (`deploy/preauth.py`, 3391-3420) | token buckets per source, drop counters | `check` for each datagram, `prune` after each rebuild | in front of pysnmp; pruned by the main loop |
| Snapshot build (2288-3197) | list of (OID, value), `_health` | `build_snapshot` on the executor thread | calls every collector; reads the gate's counters, identity, index map |
| MIB controller and responders (3203-3387) | `ctrl.oids`, `ctrl.vals` | GET, GETNEXT, GETBULK (slice path with a byte budget) | read on the event loop, replaced by the main loop |
| Agent runtime (3423-3552) | the asyncio loop | start up; every five seconds rebuild, swap, prune; stop | everything above |
| Windows service (3565-3757) | `stop_event`, `hstop`, `hdead` | `SvcDoRun`, `SvcStop`, the agent thread | the service control manager and its recovery actions |
| Interface index map (1892-2015) | `index-map.json`, `.bak`, `.tmp` | load, assign, save on every rebuild | ifTable, IP and ARP tables |
| SNMPv3 users (`deploy/usm.py`, 1431-1541, 1799-1841, 3760-3867) | `usm.dat`, `.bak`, `.tmp`, the provisioning file | load, save, provision and shred at start, `user add/list/remove` | engineID; the service reads at start only |
| Disk health (`deploy/diskhealth.py`, `deploy/smartjson.py`, 2954-2978) | readings per disk, cached with the inventory | NVMe and ATA queries, grading | snapshot |
| Observed maximum temperature (1847-1889) | `disk-maxtemp.json` and its cache | record and save a new maximum | snapshot |
| Collectors and self-health (661-749) | status, errors and age per collector | `_collector`, cached inventory | snapshot |
| Log (161-310) | log file and its rotations | append, rotate at a size | every process |
| Configuration (77-141) | `CFG` | merged once at start | startup checks, gate |
| Sensors, SMBIOS (`deploy/sensors.py`, `deploy/smbios.py`) | none | parse binary tables | snapshot |
| Installer (`packaging/`) | files, service, registry | configure, migrate, probe, remove | service recovery, configuration |

What is hard here: three threads of the service and a second process on the same
files; files replaced in several steps with crashes in between; walks that last
longer than a snapshot; system calls that block for as long as they like; a
table that outsiders can try to fill; values that are computed before they are
served. The `hazards` of `PROJECT.json` list them line by line.

What makes each part correct: an engineID belongs to one machine and its boot
count never falls; the gate bounds its memory, does not lose the managers it
knows and limits each source by its own rate only; a walk returns every lasting
row once and ends; a service that is stopped stays stopped and one that died is
started again; an interface keeps its index; a removed account stays removed and
a provisioned one is not lost; a failure is never shown as a healthy value.

## Modules

| Module | What it is |
|---|---|
| `EngineIdentity` | `_engine_state` in any number of processes, file operation by file operation, and the environment: reboots, crashes, clones, renames, the clock, damage |
| `EngineIdentityProofs` | its theorems |
| `RateLimit` | what the gate promises: a limiter that remembers every source for ever |
| `PreAuthGate` | `check` and `prune`; implements `RateLimit` |
| `PreAuthGateProofs` | its theorems, among them the implementation |
| `BulkSlice` | `read_next_slice` as the loop it is |
| `SnapshotServer` | rebuild, swap, GET, GETNEXT and GETBULK, a manager that walks, and UDP |
| `SnapshotServerProofs` | its theorems |
| `ServiceLifecycle` | `SvcDoRun`, `SvcStop`, the agent thread and the service control manager |
| `ServiceLifecycleProofs` | its theorems |
| `IndexMap` | the rebuilds of one process, as far as they touch `index-map.json` |
| `IndexMapProofs` | its theorems |
| `UsmStore` | the account store through service starts, provisioning and the `user` command line, each process file operation by file operation |
| `UsmStoreProofs` | its theorems |
| `DiskHealth` | what is read from a disk, and the two verdicts on it |
| `Firmware` | what is taken from the tables of SMBIOS and of the thermal driver |
| `SnapshotRows` | the rows of a snapshot, table by table, from the results of the collectors |
| `Collectors` | what each collector returns, and the order in which they run |
| `SnapshotBuild` | builds, one after another, collector by collector, on a machine that changes; EXTENDS the four above |
| `SnapshotBuildProofs` | its theorems |
| `LogRotation` | writers that append to the log and rotate it, file operation by file operation |
| `LogRotationProofs` | its theorems |
| `MC...` | the instances for TLC, where a `.cfg` alone does not do |

Definitions named `...` plus a description and introduced by "Mutation of" are
not part of the specifications: each is the form a definition would have with a
plausible bug in it, kept to show that a property notices.

### EngineIdentity

One action per step that can be interrupted. `Start` reads MachineGuid (or falls
back to the host name) and computes `boot_key`; `LoadMain`, `LoadBak`, `Plan`
follow; `OpenTmp`, `WriteTmp`, `Backup`, `Replace` are the file operations of
`_save_engine_state`; `SaveFails` is its `except` branch, which serves a volatile
identity. `last` records what the service last published for each engineID, and
`happened` which faults a behaviour has met, so that properties can say which
they survive. They are *harmful* if the count is not kept after them: the
MachineGuid could not be read, a file was damaged, a good file could not be opened
or read this once (1720), a save failed, two processes resolved at once, or the
counter was at its ceiling (1690), where the "new" engineID is derived from the
same MachineGuid and so is the old one. The code loses the count, or repeats a
pair, after each of the six; `engine_damage` shows it for one.

`boot_key` is the wall clock minus the uptime (1759), in units of ten seconds:
`instant` in the model, which a boot moves on by two, jitter by one for one
sample, and `SetClock` to anywhere: an operator, time synchronisation or a
hardware clock that starts from a fixed date can give a later boot the key of an
earlier one, which is then not counted (1697). The count does not fall by this
(`BootsNeverLower` holds whatever the clock does), but the pair repeats, so
`PairNeverRepeats` and `RestartKeepsBoots` also require that nobody has set the
clock (`ClockKept`). Within one boot a correction of the clock has the effect of
jitter: the counter moves without a boot.

Run `engine`: two processes, two machines, two host names, three boots, four
process starts, one fault of any kind. Three boots are what a repeated pair
needs (publish, reboot, lose, reboot); four starts let both processes be
interrupted and come back. `engine_damage` checks the claim "snmpEngineBoots
must never go backwards" as written, and `engine_clock` that "the pair still
increases strictly across a restart"; both are violated.

### PreAuthGate

`Check(s)` is one datagram from `s`, as one disjunct per return of `check`. Buckets
have a token count and a time; `Prune` is the call after a rebuild, and `MakeRoom`
the one inside `check`. `answer` is the packet this very step answered, with the
verdict that the counters count, or `NoAnswer`; so a property can say of the step
that turns a source away what it may rest on (`TurnedAwayOnlyWhenBusy`: the table is
full of sources heard from of late, after the second look). `_tlv_sane` is a choice
between `passed` and `malformed`: both cost a token, which is what the model is
about.

Run `gate`: two buckets for five sources (loopback, three managers, a stranger),
refilled in exactly the time after which they are forgotten, seven units of time:
enough to fill the table, age it, prune it and fill it again. The property
`RateLimited` is refinement: with `level` mapped to what each source could spend
now, every step of the gate is a step of `RateLimit`; a `Prune` is one that rests.
It needs `RefillAssumption`, Rate * Idle >= Burst, which the defaults satisfy (50
per second, 300 seconds, a burst of 300) and which `config.json` need not: a
`rate_burst` above 300 times `rate_pps` is accepted, and a pruned source then gets
tokens back sooner than its rate earns them.

### SnapshotServer

`StartBuild`, `Collect`, `Swap` and `BuildFails` are the main loop around the
`await`; `HandleBulk`, `HandleNext` and `HandleGet` answer from `served` at any
point in between, as the event loop does. A snapshot is a set of OIDs that contains
`Stable`, with the failure count that was current when it was built. The manager
walks with GETBULK or with GETNEXT of one name, and sends, retransmits and accepts
as SNMP managers do (by request id); the network
loses, duplicates and delays. The slice is a set here; `BulkSlice` has the loop,
and `SliceIsTheLoop` says that they agree on every snapshot that can be served.
Every manager may read everything here: the access check inside the loop
(3316-3321), which skips a row without counting it, is left out.

Run `snapshot`: four OIDs of which three last, one row larger than the whole
budget, two rebuilds, two losses, duplications or early timeouts. Fairness: the
event loop answers the datagrams it has, the manager reads its answer and asks
again when nothing is under way. Nothing is assumed of a rebuild, so `WalkEnds`
includes a collector that blocks for ever. `snapshot_health` checks
a sentence of the source and finds it violated. Another one, that responses are
capped at 1400 bytes (3203), is true of the slice path only: a GET of several
objects (`HandleGet`) is answered without a budget (3275-3285).

### ServiceLifecycle

The steps of `SvcStop` (report, set, signal), of `SvcDoRun` (wake, look at
`stop_event`, report) and of the agent thread are separate actions. The events
are auto-reset, and `WaitForMultipleObjects` prefers `hstop`. `FailToStart` is
every way `run_agent` ends before it serves; after that its loop catches every
exception, so only a stop ends it. `Recover` is the recovery action that
`msi-configure.ps1` sets up.

Run `service`: two failed starts and two stops. Fairness: the control handler
and the main thread are scheduled, `finally` runs, and the service control
manager does what it was configured to do. A start or a build may block for
ever. A stop that arrives between the test of `stop_event` and the report is
answered with error 1064; the model has this race, and `StopIsNoCrash` allows it
because the agent had in fact failed by itself. `StopIsNoCrash` looks at a change
of the exit code, so it does not see a second 1064 that directly follows one.

### IndexMap

A rebuild is `Enumerate`, `LoadMain` and `LoadBak`, `Known` or `Assign` for each
row in any order (the enumeration promises none), then the file operations of
`_save_index_map` if something is new, then `Publish`, or `RebuildFails` when a
later collector raises. `Crash` can come between any two; `Plug` adds and removes
adapters. `served` is the current snapshot, `given` what each adapter was last
published with. The faults come in kinds: a failed enumeration and a failed
rename to `.bak` do no harm, a failed save, a damaged file, and a good file that
cannot be opened or read once do (`Harmful`): after a save that failed (1941) the
next rebuild hands the same indices out again, in the order of its enumeration;
and a read that fails (1917) sends it to an older `.bak` or, on a machine that
saved the map only once and has none yet, to the empty map, and the result is
saved over the good file.

Run `index`: three adapters, so that a removed, a kept and a new one meet in one
rebuild; three changes, two ends of the process, one fault of any kind. No
fairness: nothing here has to happen. The documentation says that an ifIndex never changes (comparison-vs-builtin-snmp.md:286);
without `Harmful` TLC finds each of its three kinds to break that.

### UsmStore

The service and each `user add` or `user remove` are processes on the same files.
All of them `Begin` by resolving an engineID (what `EngineIdentity` models is a
number here, or `HostEngine` if the registry could not be read), load the store
(`LoadMain`, `LoadBak`), change it and save it (`OpenTmp`, `WriteTmp`, `Backup`,
`Replace`, `SaveFails`). A command is `Refused` or makes a `Change`; the prompts
lie between its load and its save, so any other process can come in between. The
service looks for a provisioning file (`Look`, `ReadDrop`), `Merge`s it, saves,
and overwrites and removes it (`Overwrite`, `Remove`, `ShredFails`) whether it
could be stored or not; then it loads once more, without the lock the code does
not have, and registers (`Register`). A key is a passphrase with the engineID it
was localized for. `promised` is what operators were told, `seen` the promises
made while a service loads.

Failed saves, failed renames to `.bak`, failed deletions and clones are survived.
*Harmful* are a damaged store, a store that cannot be read once (both make the
next save build on less than there was), a process under another engineID, and
two processes that change the store at the same time (`together`: the last save
wins). Each is excluded because the code does lose an account, or bring a removed
one back, after it. `KeysFitEngine` and `NoPassphraseLeft` hold in spite of all of
them. A service that ends between the save and the deletion will provision the
same file again (`leftover`), also an account that was removed in the meantime;
`RemovedStaysRemoved` excludes this, `PromisesKept` does not need to.

Run `usm`: two accounts, two pairs of passphrases, one command at a time and the
service, three process starts, one provisioning file, one fault of any kind. Three
starts are an addition, its removal, and a service that might bring it back; the
command and the service overlap in every way. With four starts TLC finds nothing
more. Names and passphrases are interchangeable, hence the symmetry. No fairness:
nothing here has to happen.

### SnapshotBuild

One action per collector, in the order of `build_snapshot` (`BuildOrder`):
`Collect`, `Skip` where the code does not call it, `CollectInventory` for the cached
one, and `Observe`, disk by disk, for `observed_max_temp`, with the temperature
cache and its file. `got` is what the collectors have returned so far, `status` the
dictionary behind `jtCollectorTable`. Between any two steps the machine may
`Change`, the file be lost or damaged (`Damage`), the process end (`Crash`). A
process that cannot open the file once starts from no maxima and writes those over
it (`MaximaNotRead`). A build ends in `Publish`; or it fails because a speed cannot
be encoded (`SpeedUnencodable`), because the maximum file is JSON of a shape the
code does not expect (`MaximaUnreadable`), or at the guard against OIDs that occur
twice (`Guard`). If it was the first, the process ends.

A collector ends as it should, with a call that fails, or with an exception
(`Outcome`); `Collectors` says what each returns then, and few of them notice: most
make an empty result of a failed call, `get_memory` and `get_session_count`
make zeros of it, two raise. `SnapshotRows` has one operator for each table. A row
is a table, an index, the row that a column of it names (`ref`) and what it is
about (`of`). `DiskHealth` has the paths of `probe` and how they are merged,
`_grade` and `build_smart_json`; `Firmware` the walks over the tables that
firmware supplies, with the limits put on what they claim.

The machines are constants. `MachineType` says what is assumed of one: a Windows
index for each adapter, the disks among the sixteen the code looks for, fewer
than a thousand sockets and memory modules, one entry for each neighbour of an
interface. `IndexAssumption` bounds ifIndex by the room between the device
ranges: above 65535 a network device would get the index of a disk.

Run `build`: six machines, made to disagree with each other: Windows indexes that
change places, an adapter that is not published under the index of one that was,
one address on two interfaces, an unknown speed, a machine with next to nothing,
disks that are sound, hot, worn, failing, silent or absurd. Two builds are what a
change, a status that must be overwritten, a cache, and a maximum that must
survive a restart need; two events (failures, changes, damage, crashes) let one
fault meet another. Seven collectors can fail, at least one of each way of
handling it. 2^32 is 65536 and a million is 10, so that a speed is still
too large and a raw counter can have only high bytes; the SMART output has room
for two disks of three. No fairness: nothing here has to happen.
`build_current` checks that what a disk said is served by the build that read it,
and finds the cache in between.

`RowsPointRight` names what it does not claim in `Hollow`: thermal and frequency
sensors, and disks, name the mainboard or the chassis as their parent also where
the firmware describes none, and partitions are put on device 327680 where there
is no disk. `FailureIsShown` names its exceptions too: the status of `processes`
stays what it was once `perf_info` succeeds; a count of sessions that failed
is served as 0, though 2383-2386 says it is left out; and the rows of the memory
are always there (`Marks` has none for it), with zeros when its call failed
(2401-2413), though 728-730 says that they disappear.
`MaxKept` promises nothing of a maximum after a save that failed, damage, or a read
that failed, until a later save.
`DiskVerdict` is restricted to disks that answer the commands of one kind
(`OneProtocol`), which is what the hardware does.

What reading and checking these modules showed besides, none of it excluded
where it is not said:

* An adapter that does not know its speed reports all ones; `ifHighSpeed` is not
  clamped as `ifSpeed` is, so the build ends with an exception, every time.
* An IPv6 link-local address that two interfaces share makes one OID twice, and the
  guard ends every build (`SharedAddress`). Nothing else makes it do so.
* `disk-maxtemp.json` with valid JSON of another shape ends every build too, and
  the agent does not start.
* Addresses, neighbours and routes are put on interfaces by their Windows index,
  though their LUID is at hand; an index that passes to another adapter between
  two collectors puts them on the wrong one (`moved`).
* A sound NVMe disk is graded unknown: a `critical_warning` of 0 is left out of
  what is read, and there is no `health_pass`. A disk that answers nothing has no row
  rather than that grade.
* Temperatures that ATA firmware packs with minimum and maximum into 48 bits make
  the SMART entry say that a cool disk was too hot.
* A counter with only its high bytes set is unhealthy to the SMART application
  and of no weight to the grade. The spare capacity of an NVMe disk is looked up
  under a name it is not stored under (2889; `diskhealth.py` 229), so that its
  sensor never has a row.
* Rows of `hrStorageTable` and `jtCollectorTable` are numbered as they come, so a
  collector that fails shifts those behind it.

### LogRotation

The service's threads and the commands append to one file, and whoever finds it
too long rotates it: `Open`, `Write`, `Close`, then `Look` and `Move` from the
oldest file down, or `Truncate` when a file cannot be moved. A file that anyone
has open cannot be renamed or removed, as Windows has it; `Hold` and `Release`
are antivirus or a backup. An append is one step, as one write of a line in
append mode is. `trouble` is set when a rotation failed, was cut short or was
not alone: two at once can lose the file that was just rotated, though never mix
the order of the lines.

Run `log`: three writers, so that two rotate while one writes; two rotated files,
so that one has an older and a newer one; a line per file more than fits; eight
lines, enough to fill all files and lose one; one fault. No fairness.

## What is proved

All theorems hold for every value of the constants that satisfies the
assumptions named in the modules.

* **EngineIdentity.** `TypeCorrect`, `EngineIdNotShared`, `CountNeverFalls`,
  `CountNeverRepeats`, `RestartNotCounted`, `CrashSafe`. The inductive invariant
  `IInv` has four parts. `TypeOK`; `IdentityInv`: every record, on disk or in a
  process, pairs an engineID with the MachineGuid it was derived from; `HistoryInv`:
  what was published belongs to the past and to MachineGuids the image has had; and,
  as long as nothing harmful happened, `CountInv`: one process resolves at a time,
  what it loaded is still what a restart would load, what it saves follows from
  that, and what a restart would load covers everything published (`Covers`). The
  last is the point: between the two renames of a save only the `.bak` exists, and
  it is enough, because boot count and publication are ordered by the save. What it
  says of later boots it says while nobody has set the clock: only then does a key
  tell its boot (`instant = 2 * boot`). So `CountNeverFalls` has no condition on the
  clock, and `CountNeverRepeats` has. `RestartNotCounted` adds `SteadyInv`: without
  jitter and with the clock left alone all keys of a boot are equal, and once the
  service has published in a boot, the record on disk has that boot's key and the
  count that was published, also after another process saved.
* **PreAuthGate.** `TypeCorrect`, `FloodBounded`, `OutsidersExcluded`,
  `KnownSourceSafe`, `QuietMakesRoom`, and `RateLimitedCorrect`, the refinement.
  `TypeOK` and `OutsidersLeaveNoTrace` are inductive together. `QuietMakesRoom` is about
  the steps: of all ways to answer, only `DropTableFull` says "source_table_full", its
  source has no bucket, and what its second look counted is within what was active
  before the step (`PrunedIsActive`, `TurnedAwayStep`). The refinement
  needs that a bucket older than `Idle` is full (`RefillAssumption`).
* **SnapshotServer.** `TypeCorrect`, `WalkIsComplete`, `WalkHasNoRepeats` and
  `SlicesAreTheLoop`. `IInv`
  says that requests and replies carry the position they were asked at
  (`RequestInv`, `ReplyInv`), and that the walk has every lasting row up to its
  position and none beyond it (`WalkInv`). A reply to the current request then
  extends the walk by a gapless page, from whichever snapshot it came. The
  lemma `SliceIsPage` states what a slice is for any rows, sizes and budget, and
  `NextRowIsPage` the same of the one row of a GETNEXT. `SlicesAreTheLoop` is about
  the scan in `read_next_slice`, a fold over the sorted array, and the induction is
  over sets of naturals and of finite sets (`AllNaturals`, `AllSubsets`), which
  first-order provers can do: the function that a fold chooses exists
  (`FoldExists`), so a sum does not depend on its order (`BytesWithout`), bisect
  leaves the array of what follows (`RestIsArray`), after k turns the loop has the
  longest prefix of k entries that fits (`LoopInv`), and that prefix is the slice
  (`SliceIsPrefix`).
* **ServiceLifecycle.** `TypeCorrect` and `StopNotUndone`. The invariant says why
  the main thread may be on its way to report a crash: `hdead` is signalled only
  by an agent thread that is over, and one that ended for the stop had seen
  `stop_event`, which stays set (`CauseInv`, `WokenInv`).
* **IndexMap.** `TypeCorrect`, `SharedIndexNever`, `ReusedIndexNever`,
  `IndexKeptAlways`, from `Inductive`. `IInv` has three parts. `TypeOK`; `MapsInv`:
  every map, on disk or in the rebuild, is well formed, that is, has distinct
  indices below its counter, whatever failed before; and, until a save fails, a file
  is damaged or a good one cannot be read, `KeptInv`: what a rebuild starting now
  would load (`Recoverable`: the file, else its `.bak`) gives every adapter the
  index it was published with. Between the renames of a save that is the `.bak`, and
  publication comes only after the save.
* **UsmStore.** `TypeCorrect`, `KeysAlwaysFit`, `PassphrasesGone`, and from
  `Inductive`: `PromisesAlwaysKept`, `ConfirmedAlwaysRegistered`,
  `RemovedAlwaysStaysRemoved`. Whatever happens, all keys on disk and in the
  processes fit the engineID they are kept with (`KeysInv`), and a stored
  provisioning file is about to be deleted or left over (`SpentInv`). Until
  something harmful happens: the `.bak` is needed only where there is no store,
  or a foreign one that came with it, and what can be loaded is what was promised
  (`StoreInv`); one process changes the store, and from its load to its last
  rename it differs from the promise by its own change alone (`UpdatesInv`); what
  a loading service finds next was promised during its load (`SeenInv`). The
  second is why the first survives the last rename, which alone changes what can
  be loaded.

* **SnapshotBuild.** Everything run `build` checks, for any machines within
  `MachineType`, whichever collectors fail and however often the machine changes;
  one invariant for each theorem, each on top of the one before.
  * `BuildTypeCorrect` and `GuardIsForShared`: the guard ends a build for nothing but
    an address that two interfaces share. The invariant (`BuildInv`) is that every
    result in `got`, and the cached inventory, is one that a machine within
    `MachineType` can give, or the default. From there it is a fact about `Rows`
    (`OnlyShared`): rows of different tables have different keys, and within a table
    each kind of row has a range of indexes of its own, which the others do not reach.
  * `RowsPointRightAlways`. That the row referred to exists is again a fact about
    `Rows`, table by table (`RowPoints`). That it is the right one is not: an address
    is joined to an interface by a Windows index, and `TraceInv` says why it is
    that of the adapter it was read from: between the first collector and the last,
    unless `moved`, no adapter has the index that a published interface had when
    it was read.
  * `FailureIsAlwaysShown`, from `ShownInv`: it holds of a build in progress for the
    collectors that were called so far (`Done`), so that a status left by the build
    before is overwritten before anyone can see it, and a cached inventory is never
    one that raised. The rows are those that `Marks` assigns to the collector, which are
    none for the memory, and the zero of the sessions is excepted. What a collector's
    failed call leaves of its table is looked up
    collector by collector (`Barren`).
  * `DiskVerdictAlways`, from `ReadInv`: what the snapshot says of the disks is what
    `probe` makes of the readings cached with it. The rest is about `probe`, `Grade`
    and `SmartJson` (`GradeOf`, `BadSectorsSeen`).
  * `MaxKeptAlways`, from `KeptInv`: what the process knows (`cache`) is at least
    `peak`, and so is the file unless a save is outstanding (`KnownWell`); a disk that
    was observed in this build is at least that and its temperature
    (`ObservingWell`), and so is the snapshot (`PublishedWell`). The file alone would
    not do, since saves fail, nor the cache, since processes end. A read that
    fails ends what was promised (`KeptNotRead`).

  Assumed are `MachinesAssumption`, `IndexAssumption`, `CeilingsAssumption`,
  `U32Assumption`, `BoundsAssumption`, `NoneAssumption` and `RaisedAssumption`; the last
  two say that None and an exception are not mistaken for a result.
* **LogRotation.** `LogTypeCorrect`, `LogIsBounded`, `RecentLinesKept`, under
  `LogAssumption` and `NoneAssumption`. For the bound, each line over the limit has a
  writer that will rotate, or a fault that kept one from it (`LengthInv`). For the
  order, no file holds a line beyond the last one written (`OrderInv`), and a file
  moves only to the slot of the next older one. For the rest, while nothing went
  wrong: a rotation is alone, the log is full, and the slot its next move goes to is
  empty (`QuietInv`); the lines of file n are older than n - 1 full files, and than
  the log as well while the rotation has not come past it (`AgeInv`); so what goes
  with the oldest file is older than LOG_KEEP full files and than every line that
  stays (`GoneInv`). No sum over the files is needed: each move makes a file one
  full log older.

Only model-checked: the liveness properties (`WalkEnds`, `NeverAliveButDead`,
`StopEndsService`, `DeathIsRecovered`), which TLAPS cannot prove.

## Findings

* `engine_damage`: a damaged `engine.json` is renamed over the good `.bak` it was
  just recovered from; a crash before the next rename loses the counter.
* `engine_clock`: a new boot is told by wall clock minus uptime; with the clock set
  back a later boot can pass for an earlier one, is not counted, and pairs of boots
  and time that were used are used again (1695-1697).
* `snapshot_health`: the failure count and the age are served from inside the
  snapshot, so they stop changing exactly when rebuilds stop succeeding.
* `build_current`: disk temperatures and health are cached with the inventory for
  the lifetime of the process, and served with the present sysUpTime as the time
  they were read (2843-2844).

## Not modelled

`PROJECT.json` lists every component.

* The installer: one sequential script for each event, run by Windows Installer
  and not by the agent. What the agent relies on is in the models that need it:
  the recovery action in `ServiceLifecycle`, the provisioning file in `UsmStore`.
* `load_config`, one sequential merge of a file into defaults; its results are
  constants of the models.
* The BER arithmetic of sizes (3219-3265): the size of a row is a constant of
  `SnapshotServer`.
* The access check of the slice path (3316-3321): one view of everything.
* pysnmp's own path for a GETBULK with several repeaters, and a GETNEXT of several
  names.
* The columns of rows, but for those that name other rows; the system group and
  the agent's own counters, which are there in every snapshot under fixed OIDs;
  texts, in SMBIOS and in what Windows returns; the decoding of structures.
* The build scripts, tools and benchmarks, which are not part of the running
  system.

Outside the repository and not assumed to be anything in particular: how pysnmp
reports a failed bind, and how long a stopped process lingers at its exit while
a build still blocks.

## Plan

What is left: an abstract table of indices that never forgets, which `IndexMap`
implements until something harmful happens.
