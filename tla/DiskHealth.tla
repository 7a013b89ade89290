------------------------------ MODULE DiskHealth ------------------------------
(***************************************************************************)
(* From what a disk's firmware answers to what is said of the disk         *)
(* (deploy/diskhealth.py, deploy/smartjson.py and the grading in           *)
(* deploy/jt_agent.py).  Python's dictionaries are functions; a key that   *)
(* is absent is outside the domain.                                        *)
(***************************************************************************)
EXTENDS Integers, Sequences, FiniteSets, TLC, FiniteSetsExt

CONSTANTS
    None,       \* a path that does not answer, a value that is not there
    U32         \* 0xFFFFFFFF + 1

ASSUME U32Assumption == U32 \in Nat \ {0}

\* A reading is what the four paths find: a temperature (property), the NVMe
\* health log (nvme), the ATA attributes in the order of the table (ata), and
\* the firmware's own verdict (status); opens: the disk can be opened.
ReadingType(r) ==
    /\ r.opens \in BOOLEAN
    /\ r.property \in Int \cup {None}
    /\ r.nvme = None \/ (r.nvme.warning \in Nat /\ r.nvme.kelvin \in Nat)
    /\ r.ata = None \/ r.ata \in Seq([id : Nat, raw : Nat])
    /\ r.status \in {"pass", "fail", None}

Nothing == [k \in {} |-> None]

Only(condition, dict) == IF condition THEN dict ELSE Nothing

\* The entries of f, and those of h whose keys f does not have.
f ++ h == [k \in DOMAIN f \cup DOMAIN h |-> IF k \in DOMAIN f THEN f[k] ELSE h[k]]

Has(dict, key) == key \in DOMAIN dict

-----------------------------------------------------------------------------
(* diskhealth.py *)

temp_via_storage_property(r) ==
    Only(r.property # None /\ r.property > -273 /\ r.property # 0,
         [temp_c |-> r.property])

\* A warning that is not raised is left out, as is a temperature of zero.
health_via_nvme(r) ==
    IF r.nvme = None THEN Nothing
    ELSE Only(r.nvme.warning # 0, [critical_warning |-> r.nvme.warning])
         ++ Only(r.nvme.kelvin > 273, [temp_c |-> r.nvme.kelvin - 273])
         ++ [percentage_used |-> r.nvme.used, available_spare_pct |-> r.nvme.spare,
             power_on_hours |-> r.nvme.hours, media_errors |-> r.nvme.errors]

SMART_TEMP_IDS == {194, 190, 231}
SMART_ATTR_IDS == {5, 9, 12, 170, 177, 179, 190, 194, 197, 198, 231, 233, 241}

Ids(table) == {table[k].id : k \in DOMAIN table}

\* The last entry of an id replaces an earlier one.
Raw(table, id) == table[Max({k \in DOMAIN table : table[k].id = id})].raw

\* The first entry with a plausible low byte is the temperature.
TempEntries(table) ==
    {k \in DOMAIN table : /\ table[k].id \in SMART_TEMP_IDS
                          /\ table[k].raw % 256 \in 1..149}

\* smart keeps the whole raw value of the attributes with a name, smart_by_id
\* the low word of all of them.
health_via_ata_smart(r) ==
    IF r.ata = None \/ Ids(r.ata) \cap SMART_ATTR_IDS = {} THEN Nothing
    ELSE [smart |-> [id \in Ids(r.ata) \cap SMART_ATTR_IDS |-> Raw(r.ata, id)],
          smart_by_id |-> [id \in Ids(r.ata) |-> Raw(r.ata, id) % U32]]
         ++ Only(TempEntries(r.ata) # {},
                 [temp_c |-> r.ata[Min(TempEntries(r.ata))].raw % 256])

smart_overall_health(r) ==
    Only(r.status # None, [health_pass |-> r.status = "pass"])

\* Mutation of probe: a path without an answer ends the probe.
ProbeUntilSilence(r) ==
    LET t == temp_via_storage_property(r)
        n == health_via_nvme(r)
        a == health_via_ata_smart(r)
    IN t ++ Only(t # Nothing, n ++ Only(n # Nothing, a ++ Only(a # Nothing,
           smart_overall_health(r))))

\* Every path is tried, and of two that find the same key the first one wins.
probe(r) ==
    IF ~r.opens THEN Nothing
    ELSE temp_via_storage_property(r) ++ health_via_nvme(r)
         ++ health_via_ata_smart(r) ++ smart_overall_health(r)

-----------------------------------------------------------------------------
(* smartjson.py *)

LIBRENMS_SMART_IDS == {5, 9, 10, 173, 177, 183, 184, 187, 188, 190, 194, 196,
                       197, 198, 199, 231, 232, 233}

\* The names SMART_ATTR_NAMES gives and the ids they are given back.
ATA_NAME_TO_SMART_ID ==
    [id \in {5, 9, 170, 177, 190, 194, 197, 198, 231, 233} |->
         IF id = 170 THEN 232 ELSE id]

\* available_spare_pct is not among them: it is looked up by another name.
NVME_TO_SMART_ID ==
    [power_on_hours |-> 9, temp_c |-> 194, media_errors |-> 187,
     avail_spare_pct |-> 232]

\* The sources of one attribute, best first: the named table, the table by id,
\* the NVMe log, and the temperature whatever its source.
build_disk_entry(h) ==
    LET smart == IF Has(h, "smart") THEN h["smart"] ELSE Nothing
        byId == IF Has(h, "smart_by_id") THEN h["smart_by_id"] ELSE Nothing
        named == DOMAIN smart \cap DOMAIN ATA_NAME_TO_SMART_ID
        filled == {key \in DOMAIN NVME_TO_SMART_ID : Has(h, key)}
    IN [sid \in {ATA_NAME_TO_SMART_ID[id] : id \in named} |->
            smart[CHOOSE id \in named : ATA_NAME_TO_SMART_ID[id] = sid]]
       ++ [sid \in DOMAIN byId \cap LIBRENMS_SMART_IDS |-> byId[sid]]
       ++ [sid \in {NVME_TO_SMART_ID[key] : key \in filled} |->
               h[CHOOSE key \in filled : NVME_TO_SMART_ID[key] = sid]]
       ++ [sid \in LIBRENMS_SMART_IDS |-> None]

OverTemp(entry) == entry[194] # None /\ entry[194] >= 70

\* health_pass as LibreNMS reads it, None where it is not emitted.
_disk_status_fields(h) ==
    CASE Has(h, "health_pass") -> IF h["health_pass"] THEN 1 ELSE 0
      [] ~Has(h, "health_pass") /\ Has(h, "critical_warning") ->
             IF h["critical_warning"] = 0 THEN 1 ELSE 0
      [] OTHER -> None

\* disks_with_failed_health, disks_with_over_temp and the disks' own fields.
build_smart_json(disks) ==
    LET entry == [d \in DOMAIN disks |-> build_disk_entry(disks[d])]
    IN [health_pass |-> [d \in DOMAIN disks |-> _disk_status_fields(disks[d])],
        over_temp |-> {d \in DOMAIN disks : OverTemp(entry[d])},
        unhealthy |-> {d \in DOMAIN disks :
                           \E sid \in {5, 197, 198} :
                               entry[d][sid] # None /\ entry[d][sid] > 0}]

-----------------------------------------------------------------------------
(* jtDiskHealthState *)

\* get_physical_disks keeps a temperature other than zero beside the health.
TempOf(h) == IF Has(h, "temp_c") THEN h["temp_c"] ELSE None

Warned(h) == Has(h, "critical_warning") /\ h["critical_warning"] # 0

Degraded(h) ==
    /\ Has(h, "smart_by_id")
    /\ \E id \in {5, 197, 198} \cap DOMAIN h["smart_by_id"] :
           h["smart_by_id"][id] > 0

Grade(h) ==
    LET verdict == Has(h, "health_pass")
        failed == (verdict /\ ~h["health_pass"]) \/ Warned(h)
        passed == verdict \/ Has(h, "critical_warning")
        hot == TempOf(h) # None /\ TempOf(h) >= 70
    IN CASE failed -> "critical"
         [] ~failed /\ ~passed -> "unknown"
         [] ~failed /\ passed /\ (Degraded(h) \/ hot) -> "warning"
         [] OTHER -> "ok"
===============================================================================
