-------------------------- MODULE SnapshotBuildProofs -------------------------
(***************************************************************************)
(* The theorems about the building of snapshots, for any machines, any     *)
(* failures and any number of builds.                                      *)
(***************************************************************************)
EXTENDS SnapshotBuild, FiniteSetTheorems, WellFoundedInduction, TLAPS

-----------------------------------------------------------------------------
(* What a disk says *)

LEMMA MergedKeys ==
  ASSUME NEW f, NEW h
  PROVE  DOMAIN (f ++ h) = DOMAIN f \cup DOMAIN h
  BY DEF ++

LEMMA MergedFirst ==
  ASSUME NEW f, NEW h, NEW k \in DOMAIN f
  PROVE  k \in DOMAIN (f ++ h) /\ (f ++ h)[k] = f[k]
  BY DEF ++

LEMMA MergedSecond ==
  ASSUME NEW f, NEW h, NEW k \in DOMAIN h, k \notin DOMAIN f
  PROVE  k \in DOMAIN (f ++ h) /\ (f ++ h)[k] = h[k]
  BY DEF ++

\* What each path finds.
LEMMA PropertyPath ==
  ASSUME NEW r, ReadingType(r)
  PROVE  LET t == temp_via_storage_property(r)
         IN /\ DOMAIN t \subseteq {"temp_c"}
            /\ "temp_c" \in DOMAIN t => t["temp_c"] \in Int
  BY DEF temp_via_storage_property, Only, Nothing, ReadingType

LEMMA NvmePath ==
  ASSUME NEW r, ReadingType(r)
  PROVE  LET n == health_via_nvme(r)
         IN /\ DOMAIN n \subseteq {"critical_warning", "temp_c", "percentage_used",
                                   "available_spare_pct", "power_on_hours",
                                   "media_errors"}
            /\ r.nvme = None => DOMAIN n = {}
            /\ "critical_warning" \in DOMAIN n <=>
                   r.nvme # None /\ r.nvme.warning # 0
            /\ "critical_warning" \in DOMAIN n =>
                   n["critical_warning"] = r.nvme.warning
            /\ "temp_c" \in DOMAIN n => n["temp_c"] \in Int
  <1>1. CASE r.nvme = None
    BY <1>1 DEF health_via_nvme, Nothing
  <1>2. CASE r.nvme # None
    <2> DEFINE w == Only(r.nvme.warning # 0,
                         [critical_warning |-> r.nvme.warning])
               c == Only(r.nvme.kelvin > 273, [temp_c |-> r.nvme.kelvin - 273])
               o == [percentage_used |-> r.nvme.used,
                     available_spare_pct |-> r.nvme.spare,
                     power_on_hours |-> r.nvme.hours,
                     media_errors |-> r.nvme.errors]
    <2>1. health_via_nvme(r) = (w ++ c) ++ o
      BY <1>2 DEF health_via_nvme
    <2>2. /\ DOMAIN w \subseteq {"critical_warning"}
          /\ "critical_warning" \in DOMAIN w <=> r.nvme.warning # 0
          /\ "critical_warning" \in DOMAIN w =>
                 w["critical_warning"] = r.nvme.warning
      BY DEF Only, Nothing
    <2>3. /\ DOMAIN c \subseteq {"temp_c"}
          /\ "temp_c" \in DOMAIN c => c["temp_c"] \in Int
      BY <1>2 DEF Only, Nothing, ReadingType
    <2>4. DOMAIN o = {"percentage_used", "available_spare_pct",
                      "power_on_hours", "media_errors"}
      OBVIOUS
    <2> HIDE DEF w, c, o
    <2>5. DOMAIN health_via_nvme(r) = (DOMAIN w \cup DOMAIN c) \cup DOMAIN o
      BY <2>1 DEF ++
    <2>6. "critical_warning" \in DOMAIN health_via_nvme(r) =>
              health_via_nvme(r)["critical_warning"] = r.nvme.warning
      <3>1. "critical_warning" \notin DOMAIN c \cup DOMAIN o
        BY <2>3, <2>4
      <3>2. "critical_warning" \in DOMAIN health_via_nvme(r) =>
                "critical_warning" \in DOMAIN w
        BY <2>5, <3>1
      <3>3. "critical_warning" \in DOMAIN w =>
                health_via_nvme(r)["critical_warning"] = w["critical_warning"]
        <4>1. "critical_warning" \in DOMAIN w =>
                  /\ "critical_warning" \in DOMAIN (w ++ c)
                  /\ (w ++ c)["critical_warning"] = w["critical_warning"]
          BY MergedFirst, Zenon
        <4>2. "critical_warning" \in DOMAIN (w ++ c) =>
                  health_via_nvme(r)["critical_warning"]
                      = (w ++ c)["critical_warning"]
          BY <2>1, MergedFirst, Zenon
        <4> QED
          BY <4>1, <4>2
      <3> QED
        BY <2>2, <3>2, <3>3
    <2>7. "temp_c" \in DOMAIN health_via_nvme(r) =>
              health_via_nvme(r)["temp_c"] \in Int
      <3>1. "temp_c" \notin DOMAIN w \cup DOMAIN o
        BY <2>2, <2>4
      <3>2. "temp_c" \in DOMAIN health_via_nvme(r) => "temp_c" \in DOMAIN c
        BY <2>5, <3>1
      <3>3. "temp_c" \in DOMAIN c \ DOMAIN w
                => (w ++ c)["temp_c"] = c["temp_c"] /\ "temp_c" \in DOMAIN (w ++ c)
        BY MergedSecond, Zenon
      <3>4. "temp_c" \in DOMAIN (w ++ c) =>
                health_via_nvme(r)["temp_c"] = (w ++ c)["temp_c"]
        BY <2>1, MergedFirst, Zenon
      <3> QED
        BY <2>3, <3>1, <3>2, <3>3, <3>4
    <2> QED
      BY <1>2, <2>2, <2>3, <2>4, <2>5, <2>6, <2>7
  <1> QED
    BY <1>1, <1>2

LEMMA SeqElement ==
  ASSUME NEW S, NEW q \in Seq(S), NEW k \in DOMAIN q PROVE q[k] \in S
  OBVIOUS

LEMMA LeastExists ==
  ASSUME NEW T \in SUBSET Nat, T # {}
  PROVE  \E x \in T : \A y \in T : x <= y
  <1>1. IsWellFoundedOn(OpToRel(<, Nat), Nat)
    BY NatLessThanWellFounded
  <1>2. PICK x \in T : \A y \in T : <<y, x>> \notin OpToRel(<, Nat)
    BY <1>1, WFMin
  <1>3. \A y \in T : ~(y < x)
    BY <1>2 DEF OpToRel
  <1> QED
    BY <1>3

LEMMA MinIsLeast ==
  ASSUME NEW T \in SUBSET Nat, T # {}
  PROVE  Min(T) \in T /\ \A y \in T : Min(T) <= y
  <1>1. \E x \in T : \A y \in T : x <= y
    BY LeastExists
  <1> QED
    BY <1>1, Zenon DEF Min

\* Of places in a sequence, one is the last.
LEMMA MaxIsLast ==
  ASSUME NEW n \in Nat, NEW T \in SUBSET (1..n), T # {}
  PROVE  Max(T) \in T /\ \A y \in T : y <= Max(T)
  <1> DEFINE R == {n - k : k \in T}
  <1>1. R \in SUBSET Nat /\ R # {}
    <2>1. ASSUME NEW k \in T PROVE n - k \in Nat
      OBVIOUS
    <2>2. PICK k \in T : TRUE
      OBVIOUS
    <2>3. n - k \in R
      OBVIOUS
    <2> QED
      BY <2>1, <2>3
  <1>2. PICK z \in R : \A y \in R : z <= y
    BY <1>1, LeastExists, Zenon
  <1>3. PICK x \in T : z = n - x
    OBVIOUS
  <1>4. \A y \in T : x >= y
    <2>1. ASSUME NEW y \in T PROVE x >= y
      <3>1. z <= n - y
        BY <1>2
      <3> QED
        BY <1>3, <3>1
    <2> QED
      BY <2>1
  <1>5. Max(T) \in T /\ \A y \in T : Max(T) >= y
    BY <1>4, Zenon DEF Max
  <1> QED
    BY <1>5

\* The entry of an attribute that the table has.
LEMMA RawType ==
  ASSUME NEW table \in Seq([id : Nat, raw : Nat]), NEW id \in Ids(table)
  PROVE  Raw(table, id) \in Nat
  <1> DEFINE T == {k \in DOMAIN table : table[k].id = id}
  <1>1. DOMAIN table = 1..Len(table) /\ Len(table) \in Nat
    OBVIOUS
  <1>2. T \in SUBSET (1..Len(table)) /\ T # {}
    BY <1>1 DEF Ids
  <1>3. Max(T) \in T
    BY <1>1, <1>2, MaxIsLast, Zenon
  <1>4. Max(T) \in DOMAIN table
    BY <1>3
  <1>5. table[Max(T)] \in [id : Nat, raw : Nat]
    BY <1>4, SeqElement, Zenon
  <1> QED
    BY <1>5 DEF Raw

LEMMA AtaPath ==
  ASSUME NEW r, ReadingType(r)
  PROVE  LET a == health_via_ata_smart(r)
         IN /\ DOMAIN a \subseteq {"smart", "smart_by_id", "temp_c"}
            /\ r.ata # None /\ Ids(r.ata) \cap SMART_ATTR_IDS # {} =>
                   /\ "smart" \in DOMAIN a /\ "smart_by_id" \in DOMAIN a
                   /\ a["smart"] = [id \in Ids(r.ata) \cap SMART_ATTR_IDS |->
                                        Raw(r.ata, id)]
                   /\ a["smart_by_id"] = [id \in Ids(r.ata) |->
                                              Raw(r.ata, id) % U32]
            /\ r.ata = None \/ Ids(r.ata) \cap SMART_ATTR_IDS = {} =>
                   DOMAIN a = {}
            /\ "temp_c" \in DOMAIN a => a["temp_c"] \in Int
  <1>1. CASE r.ata = None \/ Ids(r.ata) \cap SMART_ATTR_IDS = {}
    BY <1>1 DEF health_via_ata_smart, Nothing
  <1>2. CASE r.ata # None /\ Ids(r.ata) \cap SMART_ATTR_IDS # {}
    <2> DEFINE s == [id \in Ids(r.ata) \cap SMART_ATTR_IDS |-> Raw(r.ata, id)]
               b == [id \in Ids(r.ata) |-> Raw(r.ata, id) % U32]
               f == [smart |-> s, smart_by_id |-> b]
               c == Only(TempEntries(r.ata) # {},
                         [temp_c |-> r.ata[Min(TempEntries(r.ata))].raw % 256])
    <2>1. health_via_ata_smart(r) = f ++ c
      BY <1>2 DEF health_via_ata_smart
    <2>2. /\ DOMAIN f = {"smart", "smart_by_id"}
          /\ f["smart"] = s /\ f["smart_by_id"] = b
      BY Zenon
    <2>3. /\ DOMAIN c \subseteq {"temp_c"}
          /\ "temp_c" \in DOMAIN c =>
                 /\ TempEntries(r.ata) # {}
                 /\ c["temp_c"] = r.ata[Min(TempEntries(r.ata))].raw % 256
      BY DEF Only, Nothing
    <2>4. ASSUME TempEntries(r.ata) # {}
          PROVE  r.ata[Min(TempEntries(r.ata))].raw % 256 \in Int
      <3>1. r.ata \in Seq([id : Nat, raw : Nat])
        BY <1>2 DEF ReadingType
      <3>2. DOMAIN r.ata = 1..Len(r.ata) /\ Len(r.ata) \in Nat
        BY <3>1
      <3>3. TempEntries(r.ata) \in SUBSET Nat
        BY <3>2 DEF TempEntries
      <3>4. Min(TempEntries(r.ata)) \in TempEntries(r.ata)
        BY <2>4, <3>3, MinIsLeast, Zenon
      <3>5. Min(TempEntries(r.ata)) \in DOMAIN r.ata
        BY <3>4 DEF TempEntries
      <3>6. r.ata[Min(TempEntries(r.ata))] \in [id : Nat, raw : Nat]
        BY <3>1, <3>5, SeqElement, Zenon
      <3> QED
        BY <3>6
    <2> HIDE DEF f, c
    <2>5. DOMAIN health_via_ata_smart(r) = DOMAIN f \cup DOMAIN c
      BY <2>1, MergedKeys, Zenon
    <2>6. /\ health_via_ata_smart(r)["smart"] = f["smart"]
          /\ health_via_ata_smart(r)["smart_by_id"] = f["smart_by_id"]
      <3>1. "smart" \in DOMAIN f /\ "smart_by_id" \in DOMAIN f
        BY <2>2
      <3> QED
        BY <2>1, <3>1, MergedFirst, Zenon
    <2>7. "temp_c" \in DOMAIN health_via_ata_smart(r) =>
              health_via_ata_smart(r)["temp_c"] \in Int
      <3>1. "temp_c" \notin DOMAIN f
        BY <2>2
      <3>2. "temp_c" \in DOMAIN health_via_ata_smart(r) => "temp_c" \in DOMAIN c
        BY <2>5, <3>1
      <3>3. "temp_c" \in DOMAIN c =>
                health_via_ata_smart(r)["temp_c"] = c["temp_c"]
        BY <2>1, <3>1, MergedSecond, Zenon
      <3> QED
        BY <2>3, <2>4, <3>2, <3>3
    <2> QED
      BY <1>2, <2>2, <2>3, <2>5, <2>6, <2>7
  <1> QED
    BY <1>1, <1>2

LEMMA StatusPath ==
  ASSUME NEW r, ReadingType(r)
  PROVE  LET v == smart_overall_health(r)
         IN /\ DOMAIN v \subseteq {"health_pass"}
            /\ "health_pass" \in DOMAIN v <=> r.status # None
            /\ "health_pass" \in DOMAIN v =>
                   v["health_pass"] = (r.status = "pass")
  BY DEF smart_overall_health, Only, Nothing

\* A key that only one of two dictionaries can have.
LEMMA KeyOfSecond ==
  ASSUME NEW f, NEW h, NEW k, k \notin DOMAIN f
  PROVE  k \in DOMAIN (f ++ h) <=> k \in DOMAIN h
  BY DEF ++

LEMMA TempMerged ==
  ASSUME NEW f, NEW h,
         "temp_c" \in DOMAIN f => f["temp_c"] \in Int,
         "temp_c" \in DOMAIN h => h["temp_c"] \in Int
  PROVE  "temp_c" \in DOMAIN (f ++ h) => (f ++ h)["temp_c"] \in Int
  <1>1. CASE "temp_c" \in DOMAIN f
    BY <1>1, MergedFirst
  <1>2. CASE "temp_c" \notin DOMAIN f
    BY <1>2, KeyOfSecond, MergedSecond
  <1> QED
    BY <1>1, <1>2

\* What is found of a disk that can be opened.
LEMMA ProbeParts ==
  ASSUME NEW r, ReadingType(r), r.opens
  PROVE  LET h == probe(r)
         IN /\ "temp_c" \in DOMAIN h => h["temp_c"] \in Int
            /\ "critical_warning" \in DOMAIN h <=>
                   r.nvme # None /\ r.nvme.warning # 0
            /\ "critical_warning" \in DOMAIN h =>
                   h["critical_warning"] = r.nvme.warning
            /\ "health_pass" \in DOMAIN h <=> r.status # None
            /\ "health_pass" \in DOMAIN h =>
                   h["health_pass"] = (r.status = "pass")
            /\ r.ata # None /\ Ids(r.ata) \cap SMART_ATTR_IDS # {} =>
                   /\ "smart" \in DOMAIN h /\ "smart_by_id" \in DOMAIN h
                   /\ h["smart"] = [id \in Ids(r.ata) \cap SMART_ATTR_IDS |->
                                        Raw(r.ata, id)]
                   /\ h["smart_by_id"] = [id \in Ids(r.ata) |->
                                              Raw(r.ata, id) % U32]
            /\ r.ata = None => "smart_by_id" \notin DOMAIN h
  <1> DEFINE t == temp_via_storage_property(r)
             n == health_via_nvme(r)
             a == health_via_ata_smart(r)
             v == smart_overall_health(r)
             h == probe(r)
  <1>1. h = ((t ++ n) ++ a) ++ v
    BY DEF probe
  <1>t. /\ DOMAIN t \subseteq {"temp_c"}
        /\ "temp_c" \in DOMAIN t => t["temp_c"] \in Int
    BY PropertyPath
  <1>n. /\ DOMAIN n \subseteq {"critical_warning", "temp_c", "percentage_used",
                               "available_spare_pct", "power_on_hours",
                               "media_errors"}
        /\ "critical_warning" \in DOMAIN n <=>
               r.nvme # None /\ r.nvme.warning # 0
        /\ "critical_warning" \in DOMAIN n => n["critical_warning"] = r.nvme.warning
        /\ "temp_c" \in DOMAIN n => n["temp_c"] \in Int
    BY NvmePath
  <1>a. /\ DOMAIN a \subseteq {"smart", "smart_by_id", "temp_c"}
        /\ r.ata # None /\ Ids(r.ata) \cap SMART_ATTR_IDS # {} =>
               /\ "smart" \in DOMAIN a /\ "smart_by_id" \in DOMAIN a
               /\ a["smart"] = [id \in Ids(r.ata) \cap SMART_ATTR_IDS |->
                                    Raw(r.ata, id)]
               /\ a["smart_by_id"] = [id \in Ids(r.ata) |->
                                          Raw(r.ata, id) % U32]
        /\ r.ata = None => DOMAIN a = {}
        /\ "temp_c" \in DOMAIN a => a["temp_c"] \in Int
    BY AtaPath
  <1>v. /\ DOMAIN v \subseteq {"health_pass"}
        /\ "health_pass" \in DOMAIN v <=> r.status # None
        /\ "health_pass" \in DOMAIN v => v["health_pass"] = (r.status = "pass")
    BY StatusPath
  <1> HIDE DEF t, n, a, v, h
  <1>2. "temp_c" \in DOMAIN h => h["temp_c"] \in Int
    <2>1. "temp_c" \in DOMAIN (t ++ n) => (t ++ n)["temp_c"] \in Int
      BY <1>t, <1>n, TempMerged
    <2>2. "temp_c" \in DOMAIN ((t ++ n) ++ a) => ((t ++ n) ++ a)["temp_c"] \in Int
      BY <2>1, <1>a, TempMerged
    <2>3. "temp_c" \in DOMAIN v => v["temp_c"] \in Int
      BY <1>v
    <2> QED
      BY <2>2, <2>3, <1>1, TempMerged
  <1>3. /\ "critical_warning" \in DOMAIN h <=> "critical_warning" \in DOMAIN n
        /\ "critical_warning" \in DOMAIN n =>
               h["critical_warning"] = n["critical_warning"]
    <2> DEFINE k == "critical_warning"
    <2>1. k \notin DOMAIN t /\ k \notin DOMAIN a /\ k \notin DOMAIN v
      BY <1>t, <1>a, <1>v
    <2> HIDE DEF k
    <2>2. /\ k \in DOMAIN (t ++ n) <=> k \in DOMAIN n
          /\ k \in DOMAIN n => (t ++ n)[k] = n[k]
      BY <2>1 DEF ++
    <2>3. /\ k \in DOMAIN ((t ++ n) ++ a) <=> k \in DOMAIN (t ++ n)
          /\ k \in DOMAIN (t ++ n) => ((t ++ n) ++ a)[k] = (t ++ n)[k]
      BY <2>1 DEF ++
    <2>4. /\ k \in DOMAIN h <=> k \in DOMAIN ((t ++ n) ++ a)
          /\ k \in DOMAIN ((t ++ n) ++ a) => h[k] = ((t ++ n) ++ a)[k]
      BY <2>1, <1>1 DEF ++
    <2> QED
      BY <2>2, <2>3, <2>4 DEF k
  <1>4. /\ "health_pass" \in DOMAIN h <=> "health_pass" \in DOMAIN v
        /\ "health_pass" \in DOMAIN v => h["health_pass"] = v["health_pass"]
    <2>1. "health_pass" \notin DOMAIN ((t ++ n) ++ a)
      <3>1. DOMAIN ((t ++ n) ++ a) = (DOMAIN t \cup DOMAIN n) \cup DOMAIN a
        BY DEF ++
      <3> QED
        BY <3>1, <1>t, <1>n, <1>a
    <2> QED
      BY <2>1, <1>1 DEF ++
  <1>5. ASSUME NEW k \in {"smart", "smart_by_id"}
        PROVE  /\ k \in DOMAIN h <=> k \in DOMAIN a
               /\ k \in DOMAIN a => h[k] = a[k]
    <2>1. k \notin DOMAIN (t ++ n) /\ k \notin DOMAIN v
      <3>1. DOMAIN (t ++ n) = DOMAIN t \cup DOMAIN n
        BY DEF ++
      <3> QED
        BY <3>1, <1>t, <1>n, <1>v
    <2>2. /\ k \in DOMAIN ((t ++ n) ++ a) <=> k \in DOMAIN a
          /\ k \in DOMAIN a => ((t ++ n) ++ a)[k] = a[k]
      BY <2>1 DEF ++
    <2>3. /\ k \in DOMAIN h <=> k \in DOMAIN ((t ++ n) ++ a)
          /\ k \in DOMAIN ((t ++ n) ++ a) => h[k] = ((t ++ n) ++ a)[k]
      BY <2>1, <1>1 DEF ++
    <2> QED
      BY <2>2, <2>3
  <1>6. /\ "smart" \in DOMAIN h <=> "smart" \in DOMAIN a
        /\ "smart" \in DOMAIN a => h["smart"] = a["smart"]
        /\ "smart_by_id" \in DOMAIN h <=> "smart_by_id" \in DOMAIN a
        /\ "smart_by_id" \in DOMAIN a => h["smart_by_id"] = a["smart_by_id"]
    BY <1>5
  <1> QED
    BY <1>2, <1>3, <1>4, <1>6, <1>n, <1>a, <1>v DEF h

\* The temperature of a disk is a number, if it says one.
LEMMA ProbeTemp ==
  ASSUME NEW r, ReadingType(r)
  PROVE  TempOf(probe(r)) \in Int \cup {None}
  <1>1. CASE r.opens
    <2>1. "temp_c" \in DOMAIN probe(r) => probe(r)["temp_c"] \in Int
      BY <1>1, ProbeParts
    <2> QED
      BY <2>1 DEF TempOf, Has
  <1>2. CASE ~r.opens
    BY <1>2 DEF probe, Nothing, TempOf, Has
  <1> QED
    BY <1>1, <1>2

\* How a disk is graded, by what its firmware answers.
LEMMA GradeOf ==
  ASSUME NEW r, ReadingType(r), r.opens, OneProtocol(r)
  PROVE  LET h == probe(r)
         IN /\ Condemned(r) <=> Grade(h) = "critical"
            /\ Grade(h) = "critical" <=> _disk_status_fields(h) = 0
            /\ Grade(h) = "ok" =>
                   /\ _disk_status_fields(h) = 1 /\ ~Degraded(h)
                   /\ TempOf(h) = None \/ TempOf(h) < 70
  <1> DEFINE h == probe(r)
  <1>1. /\ "critical_warning" \in DOMAIN h <=> r.nvme # None /\ r.nvme.warning # 0
        /\ "critical_warning" \in DOMAIN h => h["critical_warning"] = r.nvme.warning
        /\ "health_pass" \in DOMAIN h <=> r.status # None
        /\ "health_pass" \in DOMAIN h => h["health_pass"] = (r.status = "pass")
    BY ProbeParts
  <1>2. TempOf(h) \in Int \cup {None}
    BY ProbeTemp
  <1>3. r.status \in {"pass", "fail", None} /\ None \notin Int
    BY NoneAssumption DEF ReadingType
  <1> DEFINE verdict == Has(h, "health_pass")
             warned == Has(h, "critical_warning")
             bad == (verdict /\ ~h["health_pass"]) \/ Warned(h)
             hot == TempOf(h) # None /\ TempOf(h) >= 70
  <1>4. /\ Warned(h) <=> warned
        /\ warned <=> r.nvme # None /\ r.nvme.warning # 0
        /\ verdict <=> r.status # None
        /\ verdict => h["health_pass"] = (r.status = "pass")
    BY <1>1 DEF Warned, Has
  <1>5. Grade(h) = CASE bad -> "critical"
                     [] ~bad /\ ~(verdict \/ warned) -> "unknown"
                     [] ~bad /\ (verdict \/ warned) /\ (Degraded(h) \/ hot) ->
                            "warning"
                     [] OTHER -> "ok"
    BY DEF Grade
  <1>6. _disk_status_fields(h) = CASE verdict -> IF h["health_pass"] THEN 1 ELSE 0
                                   [] ~verdict /\ warned ->
                                          IF h["critical_warning"] = 0 THEN 1 ELSE 0
                                   [] OTHER -> None
    BY DEF _disk_status_fields
  <1>7. warned => h["critical_warning"] # 0
    BY <1>1 DEF Has
  <1>8. verdict => ~warned
    BY <1>4 DEF OneProtocol
  <1>9. hot \/ TempOf(h) = None \/ TempOf(h) < 70
    BY <1>2
  <1>10. Condemned(r) <=> bad
    <2>1. r.status = "fail" <=> verdict /\ ~h["health_pass"]
      BY <1>3, <1>4, NoneAssumption
    <2> QED
      BY <2>1, <1>4 DEF Condemned
  <1> HIDE DEF h, verdict, warned, bad, hot
  <1>11. CASE bad
    <2>1. Grade(h) = "critical"
      BY <1>5, <1>11
    <2>2. _disk_status_fields(h) = 0
      BY <1>4, <1>6, <1>7, <1>8, <1>11 DEF bad
    <2> QED
      BY <1>10, <1>11, <2>1, <2>2 DEF h
  <1>12. CASE ~bad
    <2>1. Grade(h) # "critical"
      BY <1>5, <1>12
    <2>2. _disk_status_fields(h) # 0
      BY <1>3, <1>4, <1>6, <1>12 DEF bad
    <2>3. ASSUME Grade(h) = "ok"
          PROVE  _disk_status_fields(h) = 1 /\ ~Degraded(h) /\ ~hot
      <3>1. (verdict \/ warned) /\ ~Degraded(h) /\ ~hot
        BY <1>5, <1>12, <2>3
      <3>2. verdict /\ h["health_pass"]
        BY <1>4, <1>12, <3>1 DEF bad
      <3> QED
        BY <1>6, <3>1, <3>2
    <2> QED
      BY <1>9, <1>10, <1>12, <2>1, <2>2, <2>3 DEF h
  <1> QED
    BY <1>11, <1>12

\* A bad sector is seen by the grading and in the SMART application.
LEMMA BadSectorsSeen ==
  ASSUME NEW r, ReadingType(r), r.opens, BadSectors(r)
  PROVE  LET h == probe(r)
             entry == build_disk_entry(h)
         IN /\ Degraded(h)
            /\ \E sid \in {5, 197, 198} : entry[sid] # None /\ entry[sid] > 0
  <1> DEFINE h == probe(r)
             entry == build_disk_entry(h)
             named == (Ids(r.ata) \cap SMART_ATTR_IDS)
                          \cap DOMAIN ATA_NAME_TO_SMART_ID
             smart == [id \in Ids(r.ata) \cap SMART_ATTR_IDS |-> Raw(r.ata, id)]
             first == [sid \in {ATA_NAME_TO_SMART_ID[id] : id \in named} |->
                           smart[CHOOSE id \in named :
                                     ATA_NAME_TO_SMART_ID[id] = sid]]
  <1>1. PICK id \in {5, 197, 198} \cap Ids(r.ata) : Raw(r.ata, id) % U32 > 0
    BY DEF BadSectors
  <1>2. id \in SMART_ATTR_IDS
    BY <1>1 DEF SMART_ATTR_IDS
  <1>3. /\ "smart" \in DOMAIN h /\ "smart_by_id" \in DOMAIN h
        /\ h["smart"] = smart
        /\ h["smart_by_id"] = [i \in Ids(r.ata) |-> Raw(r.ata, i) % U32]
    BY <1>1, <1>2, ProbeParts DEF BadSectors
  <1>4. Degraded(h)
    BY <1>1, <1>3 DEF Degraded, Has
  <1>5. /\ id \in named /\ ATA_NAME_TO_SMART_ID[id] = id
        /\ \A i \in named : ATA_NAME_TO_SMART_ID[i] = id => i = id
    BY <1>1, <1>2 DEF ATA_NAME_TO_SMART_ID
  <1>6. id \in DOMAIN first /\ first[id] = Raw(r.ata, id)
    <2>1. (CHOOSE i \in named : ATA_NAME_TO_SMART_ID[i] = id) = id
      BY <1>5, Zenon
    <2>2. id \in {ATA_NAME_TO_SMART_ID[i] : i \in named}
      BY <1>5
    <2>3. first[id] = smart[id]
      BY <2>1, <2>2, Zenon
    <2>4. smart[id] = Raw(r.ata, id)
      BY <1>1, <1>2
    <2> QED
      BY <2>2, <2>3, <2>4
  <1>7. entry[id] = first[id]
    <2> DEFINE smart2 == IF Has(h, "smart") THEN h["smart"] ELSE Nothing
               byId == IF Has(h, "smart_by_id") THEN h["smart_by_id"] ELSE Nothing
               named2 == DOMAIN smart2 \cap DOMAIN ATA_NAME_TO_SMART_ID
               filled == {key \in DOMAIN NVME_TO_SMART_ID : Has(h, key)}
               F == [sid \in {ATA_NAME_TO_SMART_ID[i] : i \in named2} |->
                        smart2[CHOOSE i \in named2 : ATA_NAME_TO_SMART_ID[i] = sid]]
               G == [sid \in DOMAIN byId \cap LIBRENMS_SMART_IDS |-> byId[sid]]
               H == [sid \in {NVME_TO_SMART_ID[key] : key \in filled} |->
                        h[CHOOSE key \in filled : NVME_TO_SMART_ID[key] = sid]]
               I == [sid \in LIBRENMS_SMART_IDS |-> None]
    <2>1. entry = ((F ++ G) ++ H) ++ I
      BY DEF build_disk_entry
    <2>2. smart2 = smart
      BY <1>3 DEF Has
    <2>3. DOMAIN smart = Ids(r.ata) \cap SMART_ATTR_IDS
      OBVIOUS
    <2>4. named2 = named
      BY <2>2, <2>3
    <2> HIDE DEF smart2, named2, smart, named
    <2>5. F = first
      BY <2>2, <2>4
    <2> HIDE DEF entry, F, G, H, I, first
    <2>6. id \in DOMAIN F
      BY <1>6, <2>5
    <2> QED
      BY <2>1, <2>5, <2>6 DEF ++
  <1>8. Raw(r.ata, id) \in Nat
    <2>1. r.ata \in Seq([id : Nat, raw : Nat])
      BY DEF BadSectors, ReadingType
    <2> QED
      BY <1>1, <2>1, RawType
  <1>9. Raw(r.ata, id) > 0
    <2>1. U32 \in Nat \ {0}
      BY U32Assumption
    <2>2. 0 % U32 = 0
      BY <2>1
    <2> QED
      BY <1>1, <1>8, <2>2
  <1>10. entry[id] # None /\ entry[id] > 0
    BY <1>6, <1>7, <1>8, <1>9, NoneAssumption
  <1> QED
    BY <1>1, <1>4, <1>10

-----------------------------------------------------------------------------
(* The keys of the rows *)

\* What keeps the rows of g apart: an interface is known by its adapter and by
\* its Windows index, a neighbour by interface and address, and whatever is
\* numbered fits the range of indexes it has.
GotInv(g) ==
    /\ \A n \in g.interfaces : n.luid \in DOMAIN IfIndex
    /\ \A n, k \in g.interfaces : n.luid = k.luid => n = k
    /\ \A n, k \in g.interfaces : n.win = k.win => n = k
    /\ \A e, f \in g.ip_neighbors : e.win = f.win /\ e.addr = f.addr => e = f
    /\ \A e \in g.routes : e.metric \in Nat
    /\ g.cpu \in 0..MAX_PROCESSORS
    /\ g.thermal_zones \in 0..MAX_INSTANCES
    /\ DOMAIN Disks(g) \subseteq 0..15
    /\ Smbios(g).processors \in Nat /\ Smbios(g).processors < 1000
    /\ Smbios(g).memory \in Nat /\ Smbios(g).memory < 1000

LEMMA OneTuple == ASSUME NEW a, NEW b, <<a>> = <<b>> PROVE a = b
  OBVIOUS

LEMMA TwoTuple ==
  ASSUME NEW a, NEW b, NEW c, NEW d, <<a, b>> = <<c, d>> PROVE a = c /\ b = d
  OBVIOUS

LEMMA RowParts ==
  ASSUME NEW t, NEW i, NEW r, NEW o
  PROVE  /\ Row(t, i, r, o).table = t /\ Row(t, i, r, o).index = i
         /\ Row(t, i, r, o).ref = r /\ Row(t, i, r, o).of = o
  BY DEF Row

LEMMA KeyParts ==
  ASSUME NEW r, NEW s, Key(r) = Key(s)
  PROVE  r.table = s.table /\ r.index = s.index
  BY TwoTuple DEF Key, Ref

LEMMA InRange ==
  ASSUME NEW n \in Int, NEW x \in 1..n PROVE x \in Int /\ 1 <= x /\ x <= n
  OBVIOUS

LEMMA IfIndexRange ==
  ASSUME NEW l \in DOMAIN IfIndex
  PROVE  IfIndex[l] \in Int /\ 1 <= IfIndex[l] /\ IfIndex[l] <= IfIndexMax
  <1>1. IfIndexMax \in Int
    BY SMT DEF IfIndexMax, DEV_BASE_DISK, DEV_BASE_NET
  <1>2. IfIndex[l] \in 1..IfIndexMax
    BY IndexAssumption, Zenon
  <1> QED
    BY <1>1, <1>2, InRange, Zenon

\* The adapter of an ifIndex.
Adapter(x) == CHOOSE k \in DOMAIN IfIndex : IfIndex[k] = x

LEMMA IfIndexAdapter ==
  ASSUME NEW l \in DOMAIN IfIndex
  PROVE  Adapter(IfIndex[l]) = l
  <1>1. \A k \in DOMAIN IfIndex : IfIndex[k] = IfIndex[l] => k = l
    BY IndexAssumption, Zenon
  <1>2. /\ Adapter(IfIndex[l]) \in DOMAIN IfIndex
        /\ IfIndex[Adapter(IfIndex[l])] = IfIndex[l]
    BY Zenon DEF Adapter
  <1> QED
    BY <1>1, <1>2, Zenon

LEMMA NetRange ==
  ASSUME NEW i \in Int, 1 <= i, i <= IfIndexMax
  PROVE  /\ DEV_BASE_NET + i \in Int /\ ~(DEV_BASE_NET + i < DEV_BASE_NET)
         /\ DEV_BASE_NET + i < DEV_BASE_DISK
         /\ (DEV_BASE_NET + i) - DEV_BASE_NET = i
  BY SMT DEF IfIndexMax, DEV_BASE_DISK, DEV_BASE_NET

\* The device of an index.
DeviceAt(x) ==
    IF x < DEV_BASE_NET
    THEN Row("hrDevice", <<x>>, None, <<"cpu", x - DEV_BASE_CPU>>)
    ELSE IF x < DEV_BASE_DISK
         THEN LET l == Adapter(x - DEV_BASE_NET)
              IN Row("hrDevice", <<x>>, Ref("ifTable", <<IfIndex[l]>>), <<"if", l>>)
         ELSE Row("hrDevice", <<x>>, None, <<"disk", x - DEV_BASE_DISK>>)

Devices(g) == HrProcessors(g) \cup HrNetwork(g) \cup HrDisks(g)

LEMMA DeviceKnown ==
  ASSUME NEW g, GotInv(g), NEW r \in Devices(g)
  PROVE  \E x \in Int : r.index = <<x>> /\ r = DeviceAt(x)
  <1>1. CASE r \in HrProcessors(g)
    <2>1. PICK i \in Upto(g.cpu) :
              r = Row("hrDevice", <<DEV_BASE_CPU + i>>, None, <<"cpu", i>>)
      BY <1>1 DEF HrProcessors
    <2>2. i \in 0..511
      BY SMT DEF Upto, GotInv, MAX_PROCESSORS
    <2> DEFINE x == DEV_BASE_CPU + i
    <2>3. x \in Int /\ x < DEV_BASE_NET /\ x - DEV_BASE_CPU = i
      BY <2>2, SMT DEF DEV_BASE_CPU, DEV_BASE_NET
    <2>4. r = DeviceAt(x)
      BY <2>1, <2>3 DEF DeviceAt
    <2>5. r.index = <<x>>
      BY <2>1, RowParts
    <2> QED
      BY <2>3, <2>4, <2>5
  <1>2. CASE r \in HrNetwork(g)
    <2>1. PICK n \in g.interfaces :
              r = Row("hrDevice", <<DEV_BASE_NET + IfIndex[n.luid]>>,
                      Ref("ifTable", <<IfIndex[n.luid]>>), <<"if", n.luid>>)
      BY <1>2 DEF HrNetwork
    <2>2. n.luid \in DOMAIN IfIndex
      BY DEF GotInv
    <2> DEFINE x == DEV_BASE_NET + IfIndex[n.luid]
    <2>3. /\ IfIndex[n.luid] \in Int
          /\ 1 <= IfIndex[n.luid] /\ IfIndex[n.luid] <= IfIndexMax
      BY <2>2, IfIndexRange, Zenon
    <2>4. /\ x \in Int /\ ~(x < DEV_BASE_NET) /\ x < DEV_BASE_DISK
          /\ x - DEV_BASE_NET = IfIndex[n.luid]
      BY <2>3, NetRange
    <2>5. n.luid = Adapter(x - DEV_BASE_NET)
      BY <2>2, <2>4, IfIndexAdapter
    <2>6. r = DeviceAt(x)
      BY <2>1, <2>4, <2>5 DEF DeviceAt
    <2>7. r.index = <<x>>
      BY <2>1, RowParts
    <2> QED
      BY <2>4, <2>6, <2>7
  <1>3. CASE r \in HrDisks(g)
    <2>1. PICK d \in DOMAIN Disks(g) :
              r = Row("hrDevice", <<DEV_BASE_DISK + d>>, None, <<"disk", d>>)
      BY <1>3 DEF HrDisks
    <2> DEFINE x == DEV_BASE_DISK + d
    <2>2. d \in 0..15
      BY DEF GotInv
    <2>3. /\ x \in Int /\ ~(x < DEV_BASE_NET) /\ ~(x < DEV_BASE_DISK)
          /\ x - DEV_BASE_DISK = d
      BY <2>2, SMT DEF DEV_BASE_DISK, DEV_BASE_NET
    <2>4. r = DeviceAt(x)
      BY <2>1, <2>3 DEF DeviceAt
    <2>5. r.index = <<x>>
      BY <2>1, RowParts
    <2> QED
      BY <2>3, <2>4, <2>5
  <1> QED
    BY <1>1, <1>2, <1>3 DEF Devices

LEMMA DeviceKeys ==
  ASSUME NEW g, GotInv(g), NEW r \in Devices(g), NEW s \in Devices(g),
         r.index = s.index
  PROVE  r = s
  <1>1. PICK x \in Int : r.index = <<x>> /\ r = DeviceAt(x)
    BY DeviceKnown
  <1>2. PICK y \in Int : s.index = <<y>> /\ s = DeviceAt(y)
    BY DeviceKnown
  <1>3. x = y
    BY <1>1, <1>2, OneTuple
  <1> QED
    BY <1>1, <1>2, <1>3

-----------------------------------------------------------------------------
(* Entities and sensors *)

\* What the sensor of an index is on, and what it is.
ParentAt(x) ==
    IF x < ENT_THERMAL_BASE THEN ENT_DISK_BASE + (x - ENT_SENSOR_BASE) \div 10
    ELSE ENT_MAINBOARD

SensorAt(x) ==
    IF x < ENT_THERMAL_BASE
    THEN <<"sensor", (x - ENT_SENSOR_BASE) \div 10, (x - ENT_SENSOR_BASE) % 10>>
    ELSE IF x < ENT_CPUFREQ_BASE THEN <<"zone", x - ENT_THERMAL_BASE>>
    ELSE <<"frequency">>

\* The entity of an index that is no sensor's.
EntityAt(g, x) ==
    IF x = ENT_SYSTEM THEN Row("entPhysical", <<x>>, None, <<"system">>)
    ELSE IF x = ENT_MAINBOARD THEN Entity(x, ENT_SYSTEM, <<"board">>)
    ELSE IF x < ENT_DIMM_BASE
    THEN Entity(x, OnBoard(Smbios(g).board), <<"socket", x - ENT_CPU_BASE>>)
    ELSE IF x < ENT_DISK_BASE
    THEN Entity(x, OnBoard(Smbios(g).board), <<"dimm", x - ENT_DIMM_BASE>>)
    ELSE Entity(x, ENT_SYSTEM, <<"disk", x - ENT_DISK_BASE>>)

Sensors(g) == DiskSensors(g) \cup ThermalSensors(g) \cup FrequencySensor(g)

LEMMA DiskSensorIndex ==
  ASSUME NEW d \in 0..15, NEW k \in 0..2
  PROVE  LET x == ENT_SENSOR_BASE + d * 10 + k
         IN /\ x \in Int /\ ENT_SENSOR_BASE <= x /\ x < ENT_THERMAL_BASE
            /\ (x - ENT_SENSOR_BASE) \div 10 = d
            /\ (x - ENT_SENSOR_BASE) % 10 = k
  BY SMT DEF ENT_SENSOR_BASE, ENT_THERMAL_BASE

LEMMA SensorKnown ==
  ASSUME NEW g, GotInv(g), NEW r \in Sensors(g)
  PROVE  \E x \in Int :
             /\ ENT_SENSOR_BASE <= x
             /\ r \in Sensor(x, ParentAt(x), SensorAt(x))
  <1>1. CASE r \in DiskSensors(g)
    <2>1. PICK d \in DOMAIN Disks(g) : r \in SensorsOfDisk(d, Disks(g)[d])
      BY <1>1 DEF DiskSensors
    <2>2. PICK k \in 0..2 :
              r \in Sensor(ENT_SENSOR_BASE + d * 10 + k, ENT_DISK_BASE + d,
                           <<"sensor", d, k>>)
      BY <2>1 DEF SensorsOfDisk
    <2>3. d \in 0..15
      BY DEF GotInv
    <2> DEFINE x == ENT_SENSOR_BASE + d * 10 + k
    <2>4. /\ x \in Int /\ ENT_SENSOR_BASE <= x /\ x < ENT_THERMAL_BASE
          /\ (x - ENT_SENSOR_BASE) \div 10 = d
          /\ (x - ENT_SENSOR_BASE) % 10 = k
      BY <2>3, DiskSensorIndex
    <2> HIDE DEF x
    <2>5. ParentAt(x) = ENT_DISK_BASE + d /\ SensorAt(x) = <<"sensor", d, k>>
      BY <2>4 DEF ParentAt, SensorAt
    <2>6. r \in Sensor(x, ENT_DISK_BASE + d, <<"sensor", d, k>>)
      BY <2>2 DEF x
    <2> QED
      BY <2>4, <2>5, <2>6
  <1>2. CASE r \in ThermalSensors(g)
    <2>1. PICK z \in Upto(g.thermal_zones) :
              r \in Sensor(ENT_THERMAL_BASE + z, ENT_MAINBOARD, <<"zone", z>>)
      BY <1>2 DEF ThermalSensors
    <2>2. z \in Int /\ 0 <= z /\ z < MAX_INSTANCES
      BY CeilingsAssumption DEF Upto, GotInv
    <2> DEFINE x == ENT_THERMAL_BASE + z
    <2>3. /\ x \in Int /\ ENT_SENSOR_BASE <= x /\ ~(x < ENT_THERMAL_BASE)
          /\ x < ENT_CPUFREQ_BASE /\ x - ENT_THERMAL_BASE = z
      BY <2>2, IndexAssumption, CeilingsAssumption, SMT
      DEF ENT_SENSOR_BASE, ENT_THERMAL_BASE, ENT_CPUFREQ_BASE
    <2> HIDE DEF x
    <2>4. ParentAt(x) = ENT_MAINBOARD /\ SensorAt(x) = <<"zone", z>>
      BY <2>3 DEF ParentAt, SensorAt
    <2>5. r \in Sensor(x, ENT_MAINBOARD, <<"zone", z>>)
      BY <2>1 DEF x
    <2> QED
      BY <2>3, <2>4, <2>5
  <1>3. CASE r \in FrequencySensor(g)
    <2>1. r \in Sensor(ENT_CPUFREQ_BASE, ENT_MAINBOARD, <<"frequency">>)
      BY <1>3 DEF FrequencySensor
    <2> DEFINE x == ENT_CPUFREQ_BASE
    <2>2. /\ x \in Int /\ ENT_SENSOR_BASE <= x /\ ~(x < ENT_THERMAL_BASE)
          /\ ~(x < ENT_CPUFREQ_BASE)
      BY SMT DEF ENT_SENSOR_BASE, ENT_THERMAL_BASE, ENT_CPUFREQ_BASE
    <2>3. ParentAt(x) = ENT_MAINBOARD /\ SensorAt(x) = <<"frequency">>
      BY <2>2 DEF ParentAt, SensorAt
    <2> QED
      BY <2>1, <2>2, <2>3
  <1> QED
    BY <1>1, <1>2, <1>3 DEF Sensors

LEMMA EntityKnown ==
  ASSUME NEW g, GotInv(g), NEW r \in Entities(g)
  PROVE  \E x \in Int :
             /\ x < ENT_SENSOR_BASE
             /\ r.index = <<x>> /\ r.table = "entPhysical"
             /\ r = EntityAt(g, x)
  <1> DEFINE s == Smbios(g)
             b == s.board
  <1>1. CASE r = Row("entPhysical", <<ENT_SYSTEM>>, None, <<"system">>)
    <2>1. ENT_SYSTEM \in Int /\ ENT_SYSTEM < ENT_SENSOR_BASE
      BY SMT DEF ENT_SYSTEM, ENT_SENSOR_BASE
    <2> QED
      BY <1>1, <2>1, RowParts DEF EntityAt
  <1>2. CASE r = Entity(ENT_MAINBOARD, ENT_SYSTEM, <<"board">>)
    <2>1. /\ ENT_MAINBOARD \in Int /\ ENT_MAINBOARD < ENT_SENSOR_BASE
          /\ ENT_MAINBOARD # ENT_SYSTEM
      BY SMT DEF ENT_MAINBOARD, ENT_SYSTEM, ENT_SENSOR_BASE
    <2> QED
      BY <1>2, <2>1, RowParts DEF EntityAt, Entity
  <1>3. ASSUME NEW i \in Upto(s.processors),
               r = Entity(ENT_CPU_BASE + i, OnBoard(b), <<"socket", i>>)
        PROVE  \E x \in Int :
                   /\ x < ENT_SENSOR_BASE
                   /\ r.index = <<x>> /\ r.table = "entPhysical"
                   /\ r = EntityAt(g, x)
    <2>1. i \in Int /\ 0 <= i /\ i < 1000
      BY SMT DEF Upto, GotInv
    <2> DEFINE x == ENT_CPU_BASE + i
    <2>2. /\ x \in Int /\ x < ENT_SENSOR_BASE /\ x # ENT_SYSTEM
          /\ x # ENT_MAINBOARD /\ x < ENT_DIMM_BASE /\ x - ENT_CPU_BASE = i
      BY <2>1, SMT DEF ENT_CPU_BASE, ENT_DIMM_BASE, ENT_SENSOR_BASE,
                       ENT_SYSTEM, ENT_MAINBOARD
    <2>3. r = Entity(x, OnBoard(b), <<"socket", i>>)
      BY <1>3
    <2> HIDE DEF x
    <2> QED
      BY <2>2, <2>3, RowParts DEF EntityAt, Entity
  <1>4. ASSUME NEW i \in Upto(s.memory),
               r = Entity(ENT_DIMM_BASE + i, OnBoard(b), <<"dimm", i>>)
        PROVE  \E x \in Int :
                   /\ x < ENT_SENSOR_BASE
                   /\ r.index = <<x>> /\ r.table = "entPhysical"
                   /\ r = EntityAt(g, x)
    <2>1. i \in Int /\ 0 <= i /\ i < 1000
      BY SMT DEF Upto, GotInv
    <2> DEFINE x == ENT_DIMM_BASE + i
    <2>2. /\ x \in Int /\ x < ENT_SENSOR_BASE /\ x # ENT_SYSTEM
          /\ x # ENT_MAINBOARD /\ ~(x < ENT_DIMM_BASE) /\ x < ENT_DISK_BASE
          /\ x - ENT_DIMM_BASE = i
      BY <2>1, SMT DEF ENT_DISK_BASE, ENT_DIMM_BASE, ENT_SENSOR_BASE,
                       ENT_SYSTEM, ENT_MAINBOARD
    <2>3. r = Entity(x, OnBoard(b), <<"dimm", i>>)
      BY <1>4
    <2> HIDE DEF x
    <2> QED
      BY <2>2, <2>3, RowParts DEF EntityAt, Entity
  <1>5. ASSUME NEW d \in DOMAIN Disks(g),
               r = Entity(ENT_DISK_BASE + d, ENT_SYSTEM, <<"disk", d>>)
        PROVE  \E x \in Int :
                   /\ x < ENT_SENSOR_BASE
                   /\ r.index = <<x>> /\ r.table = "entPhysical"
                   /\ r = EntityAt(g, x)
    <2>1. d \in 0..15
      BY DEF GotInv
    <2> DEFINE x == ENT_DISK_BASE + d
    <2>2. /\ x \in Int /\ x < ENT_SENSOR_BASE /\ x # ENT_SYSTEM
          /\ x # ENT_MAINBOARD /\ ~(x < ENT_DIMM_BASE) /\ ~(x < ENT_DISK_BASE)
          /\ x - ENT_DISK_BASE = d
      BY <2>1, SMT DEF ENT_DISK_BASE, ENT_DIMM_BASE, ENT_SENSOR_BASE,
                       ENT_SYSTEM, ENT_MAINBOARD
    <2>3. r = Entity(x, ENT_SYSTEM, <<"disk", d>>)
      BY <1>5
    <2> HIDE DEF x
    <2> QED
      BY <2>2, <2>3, RowParts DEF EntityAt, Entity
  <1> QED
    BY <1>1, <1>2, <1>3, <1>4, <1>5 DEF Entities

LEMMA EntityKeys ==
  ASSUME NEW g, GotInv(g),
         NEW r \in Entities(g) \cup Sensors(g),
         NEW s \in Entities(g) \cup Sensors(g),
         r.index = s.index, r.table = s.table
  PROVE  r = s
  <1>1. ASSUME NEW q \in Sensors(g)
        PROVE  \E x \in Int :
                   /\ ENT_SENSOR_BASE <= x /\ q.index = <<x>>
                   /\ \/ /\ q.table = "entPhysical"
                         /\ q = Entity(x, ParentAt(x), SensorAt(x))
                      \/ /\ q.table = "entPhySensor"
                         /\ q = Row("entPhySensor", <<x>>,
                                    Ref("entPhysical", <<x>>), SensorAt(x))
    <2>1. PICK x \in Int : /\ ENT_SENSOR_BASE <= x
                           /\ q \in Sensor(x, ParentAt(x), SensorAt(x))
      BY SensorKnown
    <2>2. \/ q = Entity(x, ParentAt(x), SensorAt(x))
          \/ q = Row("entPhySensor", <<x>>, Ref("entPhysical", <<x>>),
                     SensorAt(x))
      BY <2>1 DEF Sensor
    <2> QED
      BY <2>1, <2>2, RowParts DEF Entity
  <1>2. CASE r \in Sensors(g) /\ s \in Sensors(g)
    <2>1. PICK x \in Int :
              /\ ENT_SENSOR_BASE <= x /\ r.index = <<x>>
              /\ \/ /\ r.table = "entPhysical"
                    /\ r = Entity(x, ParentAt(x), SensorAt(x))
                 \/ /\ r.table = "entPhySensor"
                    /\ r = Row("entPhySensor", <<x>>,
                               Ref("entPhysical", <<x>>), SensorAt(x))
      BY <1>1, <1>2
    <2>2. PICK y \in Int :
              /\ ENT_SENSOR_BASE <= y /\ s.index = <<y>>
              /\ \/ /\ s.table = "entPhysical"
                    /\ s = Entity(y, ParentAt(y), SensorAt(y))
                 \/ /\ s.table = "entPhySensor"
                    /\ s = Row("entPhySensor", <<y>>,
                               Ref("entPhysical", <<y>>), SensorAt(y))
      BY <1>1, <1>2
    <2>3. x = y
      BY <2>1, <2>2, OneTuple
    <2> QED
      BY <2>1, <2>2, <2>3
  <1>3. CASE r \in Entities(g) /\ s \in Entities(g)
    <2>1. PICK x \in Int : r.index = <<x>> /\ r = EntityAt(g, x)
      BY <1>3, EntityKnown
    <2>2. PICK y \in Int : s.index = <<y>> /\ s = EntityAt(g, y)
      BY <1>3, EntityKnown
    <2>3. x = y
      BY <2>1, <2>2, OneTuple
    <2> QED
      BY <2>1, <2>2, <2>3
  <1>4. ASSUME NEW p \in Entities(g), NEW q \in Sensors(g), p.index = q.index
        PROVE  FALSE
    <2>1. PICK x \in Int : x < ENT_SENSOR_BASE /\ p.index = <<x>>
      BY EntityKnown
    <2>2. PICK y \in Int : ENT_SENSOR_BASE <= y /\ q.index = <<y>>
      BY <1>1
    <2>3. x = y
      BY <1>4, <2>1, <2>2, OneTuple
    <2> QED
      BY <2>1, <2>2, <2>3, SMT DEF ENT_SENSOR_BASE
  <1> QED
    BY <1>2, <1>3, <1>4

-----------------------------------------------------------------------------
(* All tables *)

LEMMA InterfaceKeys ==
  ASSUME NEW g, GotInv(g), NEW r \in IfTable(g), NEW s \in IfTable(g),
         r.index = s.index
  PROVE  r = s
  <1>1. PICK n \in g.interfaces :
            r = Row("ifTable", <<IfIndex[n.luid]>>, None, <<"if", n.luid>>)
    BY DEF IfTable
  <1>2. PICK k \in g.interfaces :
            s = Row("ifTable", <<IfIndex[k.luid]>>, None, <<"if", k.luid>>)
    BY DEF IfTable
  <1>3. IfIndex[n.luid] = IfIndex[k.luid]
    BY <1>1, <1>2, RowParts, OneTuple
  <1>4. n.luid \in DOMAIN IfIndex /\ k.luid \in DOMAIN IfIndex
    BY DEF GotInv
  <1>5. n.luid = k.luid
    BY <1>3, <1>4, IfIndexAdapter
  <1> QED
    BY <1>1, <1>2, <1>5

\* Two addresses in one place are one address on two interfaces.
LEMMA AddressKeys ==
  ASSUME NEW g, NEW r \in IpAddresses(g), NEW s \in IpAddresses(g),
         r.index = s.index, r.table = s.table, r # s
  PROVE  SharedAddress(g)
  <1> DEFINE Old(p) == Row("ipAddrTable", <<p[1].addr>>, ToIf(p[2]),
                           <<"entry", p[1]>>)
             New(p) == Row("ipAddress", <<p[1].version, p[1].addr>>, ToIf(p[2]),
                           <<"entry", p[1]>>)
  <1>1. \A x \in IpAddresses(g) :
            \E p \in Bound(g, g.ip_addresses) :
                \/ x.table = "ipAddrTable" /\ p[1].version = 4 /\ x = Old(p)
                \/ x.table = "ipAddress" /\ x = New(p)
    <2>1. ASSUME NEW x \in IpAddresses(g)
          PROVE  \/ \E p \in Bound(g, g.ip_addresses) :
                        p[1].version = 4 /\ x = Old(p)
                 \/ \E p \in Bound(g, g.ip_addresses) : x = New(p)
      BY DEF IpAddresses
    <2>2. \A p : Old(p).table = "ipAddrTable" /\ New(p).table = "ipAddress"
      BY RowParts
    <2> HIDE DEF Old, New
    <2> QED
      BY <2>1, <2>2
  <1>2. PICK p \in Bound(g, g.ip_addresses) :
            \/ r.table = "ipAddrTable" /\ p[1].version = 4 /\ r = Old(p)
            \/ r.table = "ipAddress" /\ r = New(p)
    BY <1>1
  <1>3. PICK q \in Bound(g, g.ip_addresses) :
            \/ s.table = "ipAddrTable" /\ q[1].version = 4 /\ s = Old(q)
            \/ s.table = "ipAddress" /\ s = New(q)
    BY <1>1
  <1>4. CASE r.table = "ipAddrTable"
    <2>1. r = Old(p) /\ s = Old(q) /\ p[1].version = q[1].version
      BY <1>2, <1>3, <1>4
    <2>2. p[1].addr = q[1].addr
      BY <2>1, RowParts, OneTuple
    <2>3. p # q
      BY <2>1
    <2> QED
      BY <2>1, <2>2, <2>3 DEF SharedAddress
  <1>5. CASE r.table = "ipAddress"
    <2>1. r = New(p) /\ s = New(q)
      BY <1>2, <1>3, <1>5
    <2>2. p[1].version = q[1].version /\ p[1].addr = q[1].addr
      BY <2>1, RowParts, TwoTuple
    <2>3. p # q
      BY <2>1
    <2> QED
      BY <2>2, <2>3 DEF SharedAddress
  <1> QED
    BY <1>2, <1>4, <1>5

LEMMA NeighborKeys ==
  ASSUME NEW g, GotInv(g), NEW r \in IpNeighbors(g), NEW s \in IpNeighbors(g),
         r.index = s.index
  PROVE  r = s
  <1>1. PICK p \in Bound(g, g.ip_neighbors) :
            r = Row("ipNetToPhysical", <<IfIndex[p[2].luid], p[1].addr>>,
                    ToIf(p[2]), <<"entry", p[1]>>)
    BY DEF IpNeighbors
  <1>2. PICK q \in Bound(g, g.ip_neighbors) :
            s = Row("ipNetToPhysical", <<IfIndex[q[2].luid], q[1].addr>>,
                    ToIf(q[2]), <<"entry", q[1]>>)
    BY DEF IpNeighbors
  <1>3. IfIndex[p[2].luid] = IfIndex[q[2].luid] /\ p[1].addr = q[1].addr
    BY <1>1, <1>2, RowParts, TwoTuple
  <1>4. /\ p[1] \in g.ip_neighbors /\ p[2] \in g.interfaces
        /\ q[1] \in g.ip_neighbors /\ q[2] \in g.interfaces
        /\ p[1].win = p[2].win /\ q[1].win = q[2].win
    BY DEF Bound
  <1>5. p[2].luid = q[2].luid
    <2>1. p[2].luid \in DOMAIN IfIndex /\ q[2].luid \in DOMAIN IfIndex
      BY <1>4 DEF GotInv
    <2> QED
      BY <2>1, <1>3, IfIndexAdapter
  <1>6. p[2] = q[2]
    BY <1>4, <1>5 DEF GotInv
  <1>7. p[1] = q[1]
    BY <1>3, <1>4, <1>6 DEF GotInv
  <1> QED
    BY <1>1, <1>2, <1>6, <1>7

LEMMA RouteKeys ==
  ASSUME NEW g, NEW r \in IpRoutes(g), NEW s \in IpRoutes(g), r.index = s.index
  PROVE  r = s
  <1> DEFINE Best(dest) ==
          Row("ipRoute", <<dest>>, ToIf(BestRoute(g, dest)[2]),
              <<"entry", BestRoute(g, dest)[1]>>)
  <1>1. PICK d : r = Best(d)
    BY DEF IpRoutes
  <1>2. PICK e : s = Best(e)
    BY DEF IpRoutes
  <1>3. d = e
    BY <1>1, <1>2, RowParts, OneTuple
  <1> QED
    BY <1>1, <1>2, <1>3

LEMMA PartitionKeys ==
  ASSUME NEW g, NEW r \in Partitions(g), NEW s \in Partitions(g),
         r.index = s.index, r.table = s.table
  PROVE  r = s
  <1> DEFINE Device == PartitionDevice(g)
             Part(v) == Row("hrPartition", <<Device, v>>, Ref("hrDevice", <<Device>>),
                            <<"volume", v>>)
             Files(v) == Row("hrFS", <<v>>, None, <<"volume", v>>)
  <1>1. \A x \in Partitions(g) :
            \/ x.table = "hrPartition" /\ \E v \in 1..g.volumes : x = Part(v)
            \/ x.table = "hrFS" /\ \E v \in 1..g.volumes : x = Files(v)
    <2>1. ASSUME NEW x \in Partitions(g)
          PROVE  \/ \E v \in 1..g.volumes : x = Part(v)
                 \/ \E v \in 1..g.volumes : x = Files(v)
      BY DEF Partitions
    <2>2. \A v : Part(v).table = "hrPartition" /\ Files(v).table = "hrFS"
      BY RowParts
    <2> HIDE DEF Part, Files
    <2> QED
      BY <2>1, <2>2
  <1>2. CASE r.table = "hrPartition"
    <2>1. PICK v : r = Part(v)
      BY <1>1, <1>2
    <2>2. PICK w : s = Part(w)
      BY <1>1, <1>2
    <2>3. v = w
      BY <2>1, <2>2, RowParts, TwoTuple
    <2> QED
      BY <2>1, <2>2, <2>3
  <1>3. CASE r.table = "hrFS"
    <2>1. PICK v : r = Files(v)
      BY <1>1, <1>3
    <2>2. PICK w : s = Files(w)
      BY <1>1, <1>3
    <2>3. v = w
      BY <2>1, <2>2, RowParts, OneTuple
    <2> QED
      BY <2>1, <2>2, <2>3
  <1> QED
    BY <1>1, <1>2, <1>3

\* The tables that are numbered from one or zero, and the scalars.
LEMMA CountedKeys ==
  ASSUME NEW g, NEW r, NEW s, r.index = s.index, r.table = s.table,
         \/ r \in HrStorage(g) /\ s \in HrStorage(g)
         \/ r \in DiskIo(g) /\ s \in DiskIo(g)
         \/ r \in JtDiskHealth(g) /\ s \in JtDiskHealth(g)
         \/ r \in ScalarRows(g) /\ s \in ScalarRows(g)
  PROVE  r = s
  <1>1. CASE r \in HrStorage(g) /\ s \in HrStorage(g)
    <2>1. PICK i : r = Row("hrStorage", <<i>>, None, <<"storage", i>>)
      BY <1>1 DEF HrStorage
    <2>2. PICK j : s = Row("hrStorage", <<j>>, None, <<"storage", j>>)
      BY <1>1 DEF HrStorage
    <2> QED
      BY <2>1, <2>2, RowParts, OneTuple
  <1>2. CASE r \in DiskIo(g) /\ s \in DiskIo(g)
    <2>1. PICK i : r = Row("diskIO", <<i>>, None, <<"io", i>>)
      BY <1>2 DEF DiskIo
    <2>2. PICK j : s = Row("diskIO", <<j>>, None, <<"io", j>>)
      BY <1>2 DEF DiskIo
    <2> QED
      BY <2>1, <2>2, RowParts, OneTuple
  <1>3. CASE r \in JtDiskHealth(g) /\ s \in JtDiskHealth(g)
    <2>1. PICK d : r = Row("jtDiskHealth", <<d>>, None, <<"disk", d>>)
      BY <1>3 DEF JtDiskHealth
    <2>2. PICK e : s = Row("jtDiskHealth", <<e>>, None, <<"disk", e>>)
      BY <1>3 DEF JtDiskHealth
    <2> QED
      BY <2>1, <2>2, RowParts, OneTuple
  <1>4. CASE r \in ScalarRows(g) /\ s \in ScalarRows(g)
    <2>1. PICK c : r = Row(c, <<0>>, None, <<c>>)
      BY <1>4 DEF ScalarRows
    <2>2. PICK d : s = Row(d, <<0>>, None, <<d>>)
      BY <1>4 DEF ScalarRows
    <2> QED
      BY <2>1, <2>2, RowParts
  <1> QED
    BY <1>1, <1>2, <1>3, <1>4

\* The part of the snapshot a table belongs to.
PartOf(table) ==
    IF table = "ifTable" THEN 1
    ELSE IF table = "hrStorage" THEN 2
    ELSE IF table = "hrDevice" THEN 3
    ELSE IF table = "entPhysical" \/ table = "entPhySensor" THEN 4
    ELSE IF table = "ipAddrTable" \/ table = "ipAddress" THEN 5
    ELSE IF table = "ipNetToPhysical" THEN 6
    ELSE IF table = "ipRoute" THEN 7
    ELSE IF table = "hrPartition" \/ table = "hrFS" THEN 8
    ELSE IF table = "diskIO" THEN 9
    ELSE IF table = "jtDiskHealth" THEN 10
    ELSE 11

LEMMA RowPart ==
  ASSUME NEW g, GotInv(g), NEW r \in Rows(g)
  PROVE  \/ PartOf(r.table) = 1 /\ r \in IfTable(g)
         \/ PartOf(r.table) = 2 /\ r \in HrStorage(g)
         \/ PartOf(r.table) = 3 /\ r \in Devices(g)
         \/ PartOf(r.table) = 4 /\ r \in Entities(g) \cup Sensors(g)
         \/ PartOf(r.table) = 5 /\ r \in IpAddresses(g)
         \/ PartOf(r.table) = 6 /\ r \in IpNeighbors(g)
         \/ PartOf(r.table) = 7 /\ r \in IpRoutes(g)
         \/ PartOf(r.table) = 8 /\ r \in Partitions(g)
         \/ PartOf(r.table) = 9 /\ r \in DiskIo(g)
         \/ PartOf(r.table) = 10 /\ r \in JtDiskHealth(g)
         \/ PartOf(r.table) = 11 /\ r \in ScalarRows(g)
  <1>1. CASE r \in IfTable(g)
    <2>1. r.table = "ifTable"
      BY <1>1 DEF IfTable, Row
    <2> QED
      BY <1>1, <2>1 DEF PartOf
  <1>2. CASE r \in HrStorage(g)
    <2>1. r.table = "hrStorage"
      BY <1>2 DEF HrStorage, Row
    <2> QED
      BY <1>2, <2>1 DEF PartOf
  <1>3. CASE r \in Devices(g)
    <2>1. r.table = "hrDevice"
      <3>1. CASE r \in HrProcessors(g)
        <4>1. PICK i \in Upto(g.cpu) :
                  r = Row("hrDevice", <<DEV_BASE_CPU + i>>, None, <<"cpu", i>>)
          BY <3>1 DEF HrProcessors
        <4> QED
          BY <4>1, RowParts
      <3>2. CASE r \in HrNetwork(g)
        <4>1. PICK n \in g.interfaces :
                  r = Row("hrDevice", <<DEV_BASE_NET + IfIndex[n.luid]>>,
                          Ref("ifTable", <<IfIndex[n.luid]>>), <<"if", n.luid>>)
          BY <3>2 DEF HrNetwork
        <4> QED
          BY <4>1, RowParts
      <3>3. CASE r \in HrDisks(g)
        <4>1. PICK d \in DOMAIN Disks(g) :
                  r = Row("hrDevice", <<DEV_BASE_DISK + d>>, None, <<"disk", d>>)
          BY <3>3 DEF HrDisks
        <4> QED
          BY <4>1, RowParts
      <3> QED
        BY <1>3, <3>1, <3>2, <3>3 DEF Devices
    <2> QED
      BY <1>3, <2>1 DEF PartOf
  <1>4. CASE r \in Entities(g)
    <2>1. r.table = "entPhysical"
      BY <1>4, EntityKnown
    <2> QED
      BY <1>4, <2>1 DEF PartOf
  <1>5. CASE r \in Sensors(g)
    <2>1. PICK x \in Int : r \in Sensor(x, ParentAt(x), SensorAt(x))
      BY <1>5, SensorKnown
    <2>2. r.table = "entPhysical" \/ r.table = "entPhySensor"
      BY <2>1 DEF Sensor, Entity, Row
    <2> QED
      BY <1>5, <2>2 DEF PartOf
  <1>6. CASE r \in IpAddresses(g)
    <2>1. r.table = "ipAddrTable" \/ r.table = "ipAddress"
      BY <1>6 DEF IpAddresses, Row
    <2> QED
      BY <1>6, <2>1 DEF PartOf
  <1>7. CASE r \in IpNeighbors(g)
    <2>1. r.table = "ipNetToPhysical"
      BY <1>7 DEF IpNeighbors, Row
    <2> QED
      BY <1>7, <2>1 DEF PartOf
  <1>8. CASE r \in IpRoutes(g)
    <2>1. r.table = "ipRoute"
      BY <1>8 DEF IpRoutes, Row
    <2> QED
      BY <1>8, <2>1 DEF PartOf
  <1>9. CASE r \in Partitions(g)
    <2>1. r.table = "hrPartition" \/ r.table = "hrFS"
      BY <1>9 DEF Partitions, Row
    <2> QED
      BY <1>9, <2>1 DEF PartOf
  <1>10. CASE r \in DiskIo(g)
    <2>1. r.table = "diskIO"
      BY <1>10 DEF DiskIo, Row
    <2> QED
      BY <1>10, <2>1 DEF PartOf
  <1>11. CASE r \in JtDiskHealth(g)
    <2>1. r.table = "jtDiskHealth"
      BY <1>11 DEF JtDiskHealth, Row
    <2> QED
      BY <1>11, <2>1 DEF PartOf
  <1>12. CASE r \in ScalarRows(g)
    <2>1. r.table \in Scalars \cup {"processes"}
      BY <1>12 DEF ScalarRows, Row
    <2> QED
      BY <1>12, <2>1 DEF PartOf, Scalars, NetStats, SystemStats
  <1>13. \/ r \in IfTable(g) \/ r \in HrStorage(g) \/ r \in Devices(g)
         \/ r \in Entities(g) \/ r \in Sensors(g) \/ r \in IpAddresses(g)
         \/ r \in IpNeighbors(g) \/ r \in IpRoutes(g) \/ r \in Partitions(g)
         \/ r \in DiskIo(g) \/ r \in JtDiskHealth(g) \/ r \in ScalarRows(g)
    BY DEF Rows, Devices, Sensors
  <1> QED
    BY <1>1, <1>2, <1>3, <1>4, <1>5, <1>6, <1>7, <1>8, <1>9, <1>10, <1>11,
       <1>12, <1>13, Zenon

\* Two rows of a snapshot are one, but for an address that two interfaces have.
LEMMA OnlyShared ==
  ASSUME NEW g, GotInv(g), DuplicateOid(Rows(g))
  PROVE  SharedAddress(g)
  <1>1. PICK r \in Rows(g), s \in Rows(g) : r # s /\ Key(r) = Key(s)
    BY DEF DuplicateOid
  <1>2. r.table = s.table /\ r.index = s.index
    BY <1>1, KeyParts
  <1>3. PartOf(r.table) = PartOf(s.table)
    BY <1>2
  <1>4. \/ r \in IfTable(g) /\ s \in IfTable(g)
        \/ r \in HrStorage(g) /\ s \in HrStorage(g)
        \/ r \in Devices(g) /\ s \in Devices(g)
        \/ r \in Entities(g) \cup Sensors(g) /\ s \in Entities(g) \cup Sensors(g)
        \/ r \in IpAddresses(g) /\ s \in IpAddresses(g)
        \/ r \in IpNeighbors(g) /\ s \in IpNeighbors(g)
        \/ r \in IpRoutes(g) /\ s \in IpRoutes(g)
        \/ r \in Partitions(g) /\ s \in Partitions(g)
        \/ r \in DiskIo(g) /\ s \in DiskIo(g)
        \/ r \in JtDiskHealth(g) /\ s \in JtDiskHealth(g)
        \/ r \in ScalarRows(g) /\ s \in ScalarRows(g)
    BY <1>3, RowPart
  <1> QED
    BY <1>1, <1>2, <1>4, InterfaceKeys, DeviceKeys, EntityKeys, AddressKeys,
       NeighborKeys, RouteKeys, PartitionKeys, CountedKeys

-----------------------------------------------------------------------------
(* What the collectors return *)

LEMMA NamesIn ==
  Names \subseteq {"interfaces", "perf_info", "sessions", "processes", "memory",
                   "volumes", "inventory", "cpu_name", "cpu", "diskio",
                   "ip_stats", "icmp_stats", "tcp_stats", "udp_stats",
                   "ip_addresses", "ip_neighbors", "routes", "thermal_zones",
                   "cpu_frequency", "battery", "sys_perf", "cpu_times"}
  BY DEF Names, BuildOrder

LEMMA NamesHave ==
  {"interfaces", "inventory", "cpu", "ip_addresses", "ip_neighbors", "routes",
   "thermal_zones"} \subseteq Names
  BY DEF Names, BuildOrder

LEMMA MinOfTwo ==
  ASSUME NEW a \in Int, NEW b \in Int
  PROVE  Min({a, b}) \in {a, b} /\ Min({a, b}) <= a /\ Min({a, b}) <= b
  <1>1. \E x \in {a, b} : \A y \in {a, b} : x <= y
    OBVIOUS
  <1>2. /\ Min({a, b}) \in {a, b}
        /\ \A y \in {a, b} : Min({a, b}) <= y
    BY <1>1, Zenon DEF Min
  <1> QED
    BY <1>2

LEMMA MaxOfTwo ==
  ASSUME NEW a \in Int, NEW b \in Int
  PROVE  Max({a, b}) \in {a, b} /\ a <= Max({a, b}) /\ b <= Max({a, b})
  <1>1. \E x \in {a, b} : \A y \in {a, b} : x >= y
    OBVIOUS
  <1>2. /\ Max({a, b}) \in {a, b}
        /\ \A y \in {a, b} : Max({a, b}) >= y
    BY <1>1, Zenon DEF Max
  <1> QED
    BY <1>2

LEMMA ZonesFew ==
  ASSUME NEW b, b.inst_count \in Nat, b.claimed \in Nat, b.held \in Nat
  PROVE  Cardinality(Zones(b)) \in 0..MAX_INSTANCES
  <1> DEFINE S == 0..(MAX_INSTANCES - 1)
             One(i) == [i |-> i, off |-> b.data_off + i * b.inst_size,
                        len |-> b.inst_size]
             Other(i) == [i |-> i, off |-> b.listed[i].off,
                          len |-> b.listed[i].len]
             f == [i \in S |-> IF b.fixed THEN One(i) ELSE Other(i)]
             R == {f[i] : i \in S}
  <1>1. Count(b) \in Int /\ Count(b) <= MAX_INSTANCES
    <2>1. b.inst_count \in Int /\ MAX_INSTANCES \in Int
      BY CeilingsAssumption
    <2>2. /\ Count(b) \in {b.inst_count, MAX_INSTANCES}
          /\ Count(b) <= MAX_INSTANCES
      BY <2>1, MinOfTwo, Zenon DEF Count
    <2> QED
      BY <2>1, <2>2
  <1>2. Limit(b) \in Int
    <2>1. b.claimed \in Int /\ b.held \in Int
      OBVIOUS
    <2>2. Min({b.claimed, b.held}) \in {b.claimed, b.held}
      BY <2>1, MinOfTwo, Zenon
    <2>3. Min({b.claimed, b.held}) \in Int
      BY <2>1, <2>2
    <2> QED
      BY <2>1, <2>3 DEF Limit
  <1>3. Listed(b) \in Int /\ Listed(b) <= MAX_INSTANCES
    <2>1. CASE 60 + Count(b) * 8 > Limit(b)
      BY <1>1, <1>2, <2>1, CeilingsAssumption, SMT DEF Listed
    <2>2. CASE ~(60 + Count(b) * 8 > Limit(b))
      BY <1>1, <2>2 DEF Listed
    <2> QED
      BY <2>1, <2>2
  <1>4. /\ 0..(Count(b) - 1) \subseteq S /\ 0..(Listed(b) - 1) \subseteq S
    BY <1>1, <1>3, CeilingsAssumption
  <1>5. Spans(b) \subseteq R
    <2>1. CASE b.fixed
      <3>1. \A i \in S : f[i] = One(i)
        BY <2>1
      <3>2. ASSUME NEW s \in Spans(b) PROVE \E i \in 0..(Count(b) - 1) : s = One(i)
        BY <2>1 DEF Spans
      <3> QED
        BY <1>4, <3>1, <3>2
    <2>2. CASE ~b.fixed
      <3>1. \A i \in S : f[i] = Other(i)
        BY <2>2
      <3>2. ASSUME NEW s \in Spans(b)
            PROVE  \E i \in 0..(Listed(b) - 1) : s = Other(i)
        BY <2>2 DEF Spans
      <3>3. ASSUME NEW s \in Spans(b) PROVE s \in R
        <4>1. PICK i \in 0..(Listed(b) - 1) : s = Other(i)
          BY <3>2
        <4>2. i \in S
          BY <1>4
        <4>3. s = f[i]
          BY <3>1, <4>1, <4>2
        <4> QED
          BY <4>2, <4>3
      <3> QED
        BY <3>3
    <2> QED
      BY <2>1, <2>2
  <1>6. f \in Surjection(S, R)
    BY DEF Surjection
  <1>7. /\ IsFiniteSet(S) /\ Cardinality(S) = MAX_INSTANCES
    <2>1. MAX_INSTANCES - 1 \in Int /\ 0 \in Int
      BY CeilingsAssumption
    <2>2. /\ IsFiniteSet(S)
          /\ Cardinality(S) = IF 0 > MAX_INSTANCES - 1 THEN 0
                              ELSE (MAX_INSTANCES - 1) - 0 + 1
      BY <2>1, FS_Interval, Zenon
    <2> QED
      BY <2>2, CeilingsAssumption
  <1>8. IsFiniteSet(R) /\ Cardinality(R) <= Cardinality(S)
    BY <1>6, <1>7, FS_Surjection
  <1>9. Zones(b) \in SUBSET R
    BY <1>5 DEF Zones
  <1>10. IsFiniteSet(Zones(b)) /\ Cardinality(Zones(b)) <= Cardinality(R)
    BY <1>8, <1>9, FS_Subset
  <1>11. Cardinality(Zones(b)) \in Nat /\ Cardinality(R) \in Nat
    BY <1>8, <1>10, FS_CardinalityType
  <1> QED
    BY <1>7, <1>8, <1>10, <1>11, CeilingsAssumption

LEMMA NoSmbiosCounts == NoSmbios.processors = 0 /\ NoSmbios.memory = 0
  <1>1. \A t : OfType(<<>>, t) = {}
    BY DEF OfType, parse_smbios
  <1>2. processors(<<>>) = Cardinality({}) /\ memory_devices(<<>>) = Cardinality({})
    BY <1>1 DEF processors, memory_devices
  <1>3. Cardinality({}) = 0
    BY FS_EmptySet
  <1> QED
    BY <1>2, <1>3 DEF NoSmbios, collect

\* What GotInv needs of the result of each collector, and the temperatures of
\* the disks are numbers.
Good(name, result) ==
    /\ name = "interfaces" =>
           /\ \A n \in result : n.luid \in DOMAIN IfIndex
           /\ \A n, k \in result : n.luid = k.luid => n = k
           /\ \A n, k \in result : n.win = k.win => n = k
    /\ name = "ip_neighbors" =>
           \A e, f \in result : e.win = f.win /\ e.addr = f.addr => e = f
    /\ name = "routes" => \A e \in result : e.metric \in Nat
    /\ name = "cpu" => result \in 0..MAX_PROCESSORS
    /\ name = "thermal_zones" => result \in 0..MAX_INSTANCES
    /\ name = "inventory" =>
           \/ result = None
           \/ /\ DOMAIN result.disks \subseteq 0..15
              /\ result.smbios.processors \in Nat
              /\ result.smbios.processors < 1000
              /\ result.smbios.memory \in Nat
              /\ result.smbios.memory < 1000
              /\ \A d \in DOMAIN result.disks :
                     TempOf(result.disks[d]) \in Int \cup {None}

LEMMA GoodGot ==
  ASSUME NEW g, DOMAIN g = Names, \A name \in Names : Good(name, g[name])
  PROVE  GotInv(g)
  <1>1. /\ Good("interfaces", g.interfaces) /\ Good("ip_neighbors", g.ip_neighbors)
        /\ Good("routes", g.routes) /\ Good("cpu", g.cpu) /\ Good("thermal_zones", g.thermal_zones)
        /\ Good("inventory", g.inventory)
    BY NamesHave
  <1>2. CASE g.inventory = None
    <2>1. Disks(g) = Nothing /\ Smbios(g) = NoSmbios
      BY <1>2 DEF Disks, Smbios
    <2>2. DOMAIN Disks(g) \subseteq 0..15
      BY <2>1 DEF Nothing
    <2> QED
      BY <1>1, <2>1, <2>2, NoSmbiosCounts DEF Good, GotInv
  <1>3. CASE g.inventory # None
    <2>1. Disks(g) = g.inventory.disks /\ Smbios(g) = g.inventory.smbios
      BY <1>3 DEF Disks, Smbios
    <2> QED
      BY <1>1, <1>3, <2>1 DEF Good, GotInv
  <1> QED
    BY <1>2, <1>3

LEMMA GoodDefault ==
  ASSUME NEW name \in Names PROVE Good(name, Default(name))
  <1>1. CASE name \in Lists
    <2>1. Default(name) = {}
      BY <1>1 DEF Default, Lists, Counts
    <2>2. name \notin {"cpu", "thermal_zones", "inventory"}
      BY <1>1 DEF Lists
    <2> QED
      BY <2>1, <2>2 DEF Good
  <1>2. CASE name \in Counts
    BY <1>2, CeilingsAssumption DEF Default, Lists, Counts, Good, MAX_PROCESSORS
  <1>3. CASE name = "inventory"
    BY <1>3 DEF Default, Lists, Counts, Good
  <1>4. CASE name \notin Lists \cup Counts \cup {"inventory"}
    BY <1>4 DEF Lists, Counts, Good
  <1> QED
    BY <1>1, <1>2, <1>3, <1>4

LEMMA DisksTemp ==
  ASSUME NEW m \in Machines, NEW ok,
         NEW d \in DOMAIN get_inventory(m, ok).disks
  PROVE  TempOf(get_inventory(m, ok).disks[d]) \in Int \cup {None}
  <1>1. MachineType(m)
    BY MachinesAssumption
  <1>2. get_inventory(m, ok).disks = [e \in DOMAIN m.disks |-> probe(m.disks[e])]
    BY DEF get_inventory, get_physical_disks
  <1>3. d \in DOMAIN m.disks
    BY <1>2
  <1>4. ReadingType(m.disks[d])
    BY <1>1, <1>3 DEF MachineType
  <1>5. get_inventory(m, ok).disks[d] = probe(m.disks[d])
    BY <1>2, <1>3
  <1> QED
    BY <1>4, <1>5, ProbeTemp

\* At least one processor is counted, and no more than the ceiling.
LEMMA ActiveCount ==
  ASSUME NEW m \in Machines PROVE active_cpu_count(m) \in 0..MAX_PROCESSORS
  <1>1. Max({m.cpus, 1}) \in Int /\ 1 <= Max({m.cpus, 1})
    <2>1. m.cpus \in Int /\ 1 \in Int
      BY MachinesAssumption DEF MachineType
    <2>2. /\ Max({m.cpus, 1}) \in {m.cpus, 1}
          /\ 1 <= Max({m.cpus, 1})
      BY <2>1, MaxOfTwo, Zenon
    <2> QED
      BY <2>1, <2>2
  <1> QED
    <2> DEFINE n == Max({m.cpus, 1})
    <2>1. n \in Int /\ MAX_PROCESSORS \in Int
      BY <1>1 DEF MAX_PROCESSORS
    <2>2. /\ Min({n, MAX_PROCESSORS}) \in {n, MAX_PROCESSORS}
          /\ Min({n, MAX_PROCESSORS}) <= MAX_PROCESSORS
      BY <2>1, MinOfTwo, Zenon
    <2>3. 0 <= MAX_PROCESSORS
      BY DEF MAX_PROCESSORS
    <2> HIDE DEF n
    <2>4. 1 <= n
      BY <1>1 DEF n
    <2>5. Min({n, MAX_PROCESSORS}) \in 0..MAX_PROCESSORS
      BY <2>1, <2>2, <2>3, <2>4
    <2> QED
      BY <2>5 DEF active_cpu_count, n

\* A result that is not Raised.
LEMMA GoodReturns ==
  ASSUME NEW m \in Machines, NEW ok \in BOOLEAN, NEW name \in Names,
         Returns(name, m, ok) # Raised
  PROVE  Good(name, Returns(name, m, ok))
  <1>m. MachineType(m)
    BY MachinesAssumption
  <1>1. CASE name = "interfaces"
    <2> DEFINE If(l) == [luid |-> l, win |-> m.nics[l].win,
                         speed |-> m.nics[l].speed]
    <2>1. Returns(name, m, ok) = get_interfaces(m, ok)
      BY <1>1 DEF Returns
    <2>2. \A n \in get_interfaces(m, ok) : \E l \in DOMAIN m.nics : n = If(l)
      BY DEF get_interfaces
    <2>3. \A n \in get_interfaces(m, ok) :
              n.luid \in DOMAIN m.nics /\ n = If(n.luid)
      BY <2>2
    <2>4. \A n, k \in get_interfaces(m, ok) : n.luid = k.luid => n = k
      BY <2>3
    <2>5. \A n, k \in get_interfaces(m, ok) : n.win = k.win => n.luid = k.luid
      BY <1>m, <2>3 DEF MachineType
    <2>6. \A n \in get_interfaces(m, ok) : n.luid \in DOMAIN IfIndex
      BY <1>m, <2>3 DEF MachineType
    <2> QED
      BY <1>1, <2>1, <2>4, <2>5, <2>6 DEF Good
  <1>2. CASE name = "ip_neighbors"
    <2> DEFINE At(e) == [e EXCEPT !.win = m.nics[e.luid].win]
    <2>1. Returns(name, m, ok) = get_ip_neighbors(m, ok)
      BY <1>2 DEF Returns
    <2>2. \A x \in get_ip_neighbors(m, ok) :
              \E e \in m.neighbors : e.luid \in DOMAIN m.nics /\ x = At(e)
      BY DEF get_ip_neighbors, Entries
    <2>3. ASSUME NEW e \in m.neighbors
          PROVE  At(e).win = m.nics[e.luid].win /\ At(e).addr = e.addr
      <3>1. {"luid", "win", "addr"} \subseteq DOMAIN e
        BY <1>m DEF MachineType
      <3> QED
        BY <3>1
    <2>4. ASSUME NEW x \in get_ip_neighbors(m, ok),
                 NEW y \in get_ip_neighbors(m, ok), x.win = y.win, x.addr = y.addr
          PROVE  x = y
      <3>1. PICK e \in m.neighbors : e.luid \in DOMAIN m.nics /\ x = At(e)
        BY <2>2
      <3>2. PICK f \in m.neighbors : f.luid \in DOMAIN m.nics /\ y = At(f)
        BY <2>2
      <3>3. m.nics[e.luid].win = m.nics[f.luid].win /\ e.addr = f.addr
        BY <2>3, <2>4, <3>1, <3>2
      <3>4. e.luid = f.luid
        BY <1>m, <3>1, <3>2, <3>3 DEF MachineType
      <3>5. e = f
        BY <1>m, <3>3, <3>4 DEF MachineType
      <3> QED
        BY <3>1, <3>2, <3>5
    <2> QED
      BY <1>2, <2>1, <2>4 DEF Good
  <1>3. CASE name = "cpu"
    <2>1. Returns(name, m, ok) = active_cpu_count(m)
      BY <1>3 DEF Returns, get_cpu_loads
    <2>2. active_cpu_count(m) \in 0..MAX_PROCESSORS
      BY ActiveCount
    <2> QED
      BY <1>3, <2>1, <2>2 DEF Good
  <1>4. CASE name = "thermal_zones"
    <2>1. Returns(name, m, ok) = read_thermal_zones(m, ok)
      BY <1>4 DEF Returns
    <2>2. Cardinality(Zones(m.zones)) \in 0..MAX_INSTANCES
      BY <1>m, ZonesFew DEF MachineType
    <2>3. read_thermal_zones(m, ok) \in 0..MAX_INSTANCES
      BY <2>2, CeilingsAssumption DEF read_thermal_zones
    <2> QED
      BY <1>4, <2>1, <2>3 DEF Good
  <1>5. CASE name = "inventory"
    <2>1. Returns(name, m, ok) = get_inventory(m, ok)
      BY <1>5 DEF Returns
    <2>2. DOMAIN get_inventory(m, ok).disks \subseteq 0..15
      BY <1>m DEF get_inventory, get_physical_disks, MachineType
    <2>3. get_inventory(m, ok).smbios \in {collect(m.smbios), NoSmbios}
      BY DEF get_inventory
    <2>4. /\ collect(m.smbios).processors = processors(m.smbios)
          /\ collect(m.smbios).memory = memory_devices(m.smbios)
      BY DEF collect
    <2>5. /\ processors(m.smbios) \in Nat /\ processors(m.smbios) < 1000
          /\ memory_devices(m.smbios) \in Nat /\ memory_devices(m.smbios) < 1000
      BY <1>m DEF MachineType
    <2>6. \A d \in DOMAIN get_inventory(m, ok).disks :
              TempOf(get_inventory(m, ok).disks[d]) \in Int \cup {None}
      BY DisksTemp
    <2> QED
      BY <1>5, <2>1, <2>2, <2>3, <2>4, <2>5, <2>6, NoSmbiosCounts DEF Good
  <1>6. CASE name = "routes"
    <2>1. Returns(name, m, ok) = get_routes(m, ok)
      BY <1>6 DEF Returns
    <2>2. ASSUME NEW x \in get_routes(m, ok) PROVE x.metric \in Nat
      <3>1. PICK e \in m.routes : x = [e EXCEPT !.win = m.nics[e.luid].win]
        BY DEF get_routes, Entries
      <3>2. "metric" \in DOMAIN e /\ e.metric \in Nat
        BY <1>m DEF MachineType
      <3>3. x.metric = e.metric
        BY <3>1, <3>2
      <3> QED
        BY <3>2, <3>3
    <2> QED
      BY <1>6, <2>1, <2>2 DEF Good
  <1>7. CASE name \notin {"interfaces", "ip_neighbors", "cpu", "thermal_zones",
                         "inventory", "routes"}
    BY <1>7 DEF Good
  <1> QED
    BY <1>1, <1>2, <1>3, <1>4, <1>5, <1>6, <1>7

-----------------------------------------------------------------------------
(* The types of the results *)

LEMMA DefaultType ==
  ASSUME NEW name \in Names PROVE ResultType(name, Default(name))
  <1>1. CASE name \in Lists
    <2>1. Default(name) = {}
      BY <1>1 DEF Default, Lists, Counts
    <2> QED
      BY <1>1, <2>1 DEF ResultType, Lists, Counts
  <1>2. CASE name \in Counts
    BY <1>2 DEF Default, ResultType, Lists, Counts
  <1>3. CASE name = "memory" \/ name = "cpu_name"
    BY <1>3 DEF Default, ResultType, Lists, Counts
  <1>4. CASE name = "inventory"
    BY <1>4 DEF Default, ResultType, Lists, Counts
  <1>5. CASE name \notin Lists \cup Counts \cup {"memory", "cpu_name",
                                                "inventory"}
    <2>1. Default(name) = None
      BY <1>5 DEF Default
    <2> QED
      BY <1>5, <2>1 DEF ResultType, Lists
  <1> QED
    BY <1>1, <1>2, <1>3, <1>4, <1>5

\* The entries of a table that are there keep their adapter.
LEMMA EntriesType ==
  ASSUME NEW m \in Machines,
         NEW table \in {m.addresses, m.neighbors, m.routes},
         NEW x \in Entries(m, table)
  PROVE  x.luid \in DOMAIN IfIndex /\ x.win \in Nat
  <1>1. MachineType(m)
    BY MachinesAssumption
  <1>2. PICK e \in table :
            /\ e.luid \in DOMAIN m.nics
            /\ x = [e EXCEPT !.win = m.nics[e.luid].win]
    BY DEF Entries
  <1>3. {"luid", "win"} \subseteq DOMAIN e
    BY <1>1 DEF MachineType
  <1>4. x.luid = e.luid /\ x.win = m.nics[e.luid].win
    BY <1>2, <1>3
  <1> QED
    BY <1>1, <1>2, <1>4 DEF MachineType

LEMMA ReturnsType ==
  ASSUME NEW m \in Machines, NEW ok \in BOOLEAN, NEW name \in Names,
         Returns(name, m, ok) # Raised
  PROVE  ResultType(name, Returns(name, m, ok))
  <1>m. MachineType(m)
    BY MachinesAssumption
  <1>g. Good(name, Returns(name, m, ok))
    BY GoodReturns
  <1>1. CASE name = "interfaces"
    <2>1. Returns(name, m, ok) = get_interfaces(m, ok)
      BY <1>1 DEF Returns
    <2>2. get_interfaces(m, ok) \subseteq Interfaces
      <3>1. ASSUME NEW n \in get_interfaces(m, ok) PROVE n \in Interfaces
        <4>1. PICK l \in DOMAIN m.nics :
                  n = [luid |-> l, win |-> m.nics[l].win,
                       speed |-> m.nics[l].speed]
          BY DEF get_interfaces
        <4>2. /\ l \in DOMAIN IfIndex
              /\ m.nics[l].win \in Nat /\ m.nics[l].speed \in Nat
          BY <1>m DEF MachineType
        <4> QED
          BY <4>1, <4>2 DEF Interfaces
      <3> QED
        BY <3>1
    <2> QED
      BY <1>1, <2>1, <2>2 DEF ResultType, Lists, Counts
  <1>2. CASE name \in {"ip_addresses", "ip_neighbors", "routes"}
    <2>1. Returns(name, m, ok) \in {{}, Entries(m, m.addresses),
                                    Entries(m, m.neighbors), Entries(m, m.routes)}
      <3>1. CASE name = "ip_addresses"
        BY <3>1 DEF Returns, get_ip_addresses
      <3>2. CASE name = "ip_neighbors"
        BY <3>2 DEF Returns, get_ip_neighbors
      <3>3. CASE name = "routes"
        BY <3>3 DEF Returns, get_routes
      <3> QED
        BY <1>2, <3>1, <3>2, <3>3
    <2>2. \A e \in Returns(name, m, ok) : e.luid \in DOMAIN IfIndex /\ e.win \in Nat
      BY <2>1, EntriesType
    <2> QED
      BY <1>2, <2>2 DEF ResultType, Lists, Counts
  <1>3. CASE name \in Counts \cup {"memory", "cpu_name"}
    <2>1. Returns(name, m, ok) \in Nat
      <3>1. CASE name = "volumes"
        BY <1>m, <3>1 DEF Returns, get_fixed_volumes, MachineType
      <3>2. CASE name = "cpu"
        BY <1>g, <3>2 DEF Good, MAX_PROCESSORS
      <3>3. CASE name = "diskio"
        <4>1. DOMAIN m.disks \in SUBSET (0..15)
          BY <1>m DEF MachineType
        <4>2. IsFiniteSet(0..15)
          <5>1. 0 \in Int /\ 15 \in Int
            OBVIOUS
          <5> QED
            BY <5>1, FS_Interval, Zenon
        <4>3. IsFiniteSet(DOMAIN m.disks)
          BY <4>1, <4>2, FS_Subset
        <4>4. Cardinality(DOMAIN m.disks) \in Nat
          BY <4>3, FS_CardinalityType
        <4> QED
          BY <3>3, <4>4 DEF Returns, get_disk_io
      <3>4. CASE name = "thermal_zones"
        BY <1>g, <3>4, CeilingsAssumption DEF Good
      <3>5. CASE name = "cpu_frequency"
        BY <1>m, <3>5 DEF Returns, read_cpu_frequencies, MachineType
      <3>6. CASE name = "memory"
        BY <3>6 DEF Returns, get_memory
      <3>7. CASE name = "cpu_name"
        BY <3>7 DEF Returns, get_cpu_name
      <3> QED
        BY <1>3, <3>1, <3>2, <3>3, <3>4, <3>5, <3>6, <3>7 DEF Counts
    <2> QED
      BY <1>3, <2>1 DEF ResultType, Lists, Counts
  <1>4. CASE name = "inventory"
    BY <1>g, <1>4 DEF Good, ResultType, Lists, Counts
  <1>5. CASE name \in {"perf_info", "sessions", "processes", "ip_stats",
                      "icmp_stats", "tcp_stats", "udp_stats", "battery",
                      "sys_perf", "cpu_times"}
    <2>1. Returns(name, m, ok) \in Nat \cup {None}
      <3>1. CASE name = "perf_info"
        BY <1>m, <3>1 DEF Returns, get_perf_info, MachineType
      <3>2. CASE name = "sessions"
        BY <3>2 DEF Returns, get_session_count
      <3>3. CASE name = "processes"
        BY <3>3 DEF Returns, get_process_count
      <3>4. CASE name \in {"ip_stats", "icmp_stats", "tcp_stats", "udp_stats"}
        BY <3>4 DEF Returns, get_ip_stats
      <3>5. CASE name = "battery"
        BY <3>5 DEF Returns, read_battery
      <3>6. CASE name = "sys_perf"
        BY <3>6 DEF Returns, get_system_perf
      <3>7. CASE name = "cpu_times"
        BY <3>7 DEF Returns, get_cpu_times_total
      <3> QED
        BY <1>5, <3>1, <3>2, <3>3, <3>4, <3>5, <3>6, <3>7
    <2> QED
      BY <1>5, <2>1 DEF ResultType, Lists, Counts
  <1> QED
    BY <1>1, <1>2, <1>3, <1>4, <1>5, NamesIn DEF Counts

-----------------------------------------------------------------------------
(* The invariant *)

\* What is collected, and what is cached of it, keeps the rows apart; no build
\* runs that has failed, and the guard fails for a shared address only.
BuildInv ==
    /\ \A name \in Names : Good(name, got[name])
    /\ inventory # None => /\ ResultType("inventory", inventory.found)
                           /\ Good("inventory", inventory.found)
    /\ at > 0 => failed = None /\ builds >= 1
    /\ failed = "guard" => SharedAddress(got)

LEMMA OrderLength == Len(BuildOrder) = 23
  BY DEF BuildOrder

LEMMA UnreadType ==
  /\ DOMAIN Unread = Names
  /\ \A name \in Names :
         ResultType(name, Unread[name]) /\ Good(name, Unread[name])
  BY DefaultType, GoodDefault DEF Unread

\* The inventory of a machine, and what is left of it when SMBIOS fails.
LEMMA InventoryGood ==
  ASSUME NEW m \in Machines, NEW ok \in BOOLEAN
  PROVE  /\ ResultType("inventory", get_inventory(m, ok))
         /\ Good("inventory", get_inventory(m, ok))
  <1>1. MachineType(m)
    BY MachinesAssumption
  <1>2. DOMAIN get_inventory(m, ok).disks \subseteq 0..15
    BY <1>1 DEF get_inventory, get_physical_disks, MachineType
  <1>3. get_inventory(m, ok).smbios \in {collect(m.smbios), NoSmbios}
    BY DEF get_inventory
  <1>4. /\ collect(m.smbios).processors = processors(m.smbios)
        /\ collect(m.smbios).memory = memory_devices(m.smbios)
    BY DEF collect
  <1>5. /\ processors(m.smbios) \in Nat /\ processors(m.smbios) < 1000
        /\ memory_devices(m.smbios) \in Nat /\ memory_devices(m.smbios) < 1000
    BY <1>1 DEF MachineType
  <1>6. Good("inventory", get_inventory(m, ok))
    BY <1>2, <1>3, <1>4, <1>5, NoSmbiosCounts, DisksTemp DEF Good
  <1> QED
    BY <1>6 DEF Good, ResultType, Lists, Counts

\* What _collector takes of a result that is as it should be, or Raised.
LEMMA CollectorStep ==
  ASSUME TypeOK, BuildInv, NEW name \in Names, NEW result,
         result # Raised => ResultType(name, result) /\ Good(name, result),
         _collector(name, result)
  PROVE  /\ DOMAIN got' = Names
         /\ \A k \in Names : ResultType(k, got'[k]) /\ Good(k, got'[k])
         /\ DOMAIN status' \subseteq Names
         /\ \A k \in DOMAIN status' : status'[k] \in {"ok", "failed"}
  <1>1. ResultType(name, Kept(name, result)) /\ Good(name, Kept(name, result))
    BY DefaultType, GoodDefault DEF Kept
  <1>2. DOMAIN got = Names
    BY DEF TypeOK
  <1>3. /\ DOMAIN got' = Names
        /\ \A k \in Names : got'[k] = IF k = name THEN Kept(name, result)
                                                  ELSE got[k]
    BY <1>2 DEF _collector
  <1>4. \A k \in Names : ResultType(k, got'[k]) /\ Good(k, got'[k])
    BY <1>1, <1>3 DEF TypeOK, BuildInv
  <1>5. status' = Put(status, name, Health(result))
    BY DEF _collector
  <1>6. /\ DOMAIN status' = {name} \cup DOMAIN status
        /\ \A k \in DOMAIN status' :
               status'[k] = IF k = name THEN Health(result) ELSE status[k]
    BY <1>5 DEF Put
  <1>7. Health(result) \in {"ok", "failed"}
    BY DEF Health
  <1>8. DOMAIN status \subseteq Names
    BY DEF TypeOK
  <1>9. \A k \in DOMAIN status : status[k] \in {"ok", "failed"}
    BY DEF TypeOK
  <1> QED
    BY <1>3, <1>4, <1>6, <1>7, <1>8, <1>9

\* An outcome that is explored happens to a collector whose failures are.
LEMMA OutcomeStep ==
  ASSUME TypeOK, NEW name, NEW outcome, Outcome(name, outcome)
  PROVE  DOMAIN mishap' \subseteq Fallible /\ events' \in 0..MaxEvents
  <1>1. DOMAIN mishap \subseteq Fallible /\ events \in 0..MaxEvents
    BY DEF TypeOK
  <1>2. CASE UNCHANGED <<mishap, events>>
    BY <1>1, <1>2
  <1>3. CASE name \in Fallible /\ Happens /\ mishap' = Put(mishap, name, outcome)
    <2>1. DOMAIN mishap' = {name} \cup DOMAIN mishap
      BY <1>3 DEF Put
    <2>2. events' \in 0..MaxEvents
      BY <1>1, <1>3, BoundsAssumption DEF Happens
    <2> QED
      BY <1>1, <1>3, <2>1, <2>2
  <1> QED
    BY <1>2, <1>3 DEF Outcome

LEMMA ResultStep ==
  ASSUME TypeOK, NEW name \in Names, NEW outcome,
         Result(name, outcome) # Raised
  PROVE  /\ ResultType(name, Result(name, outcome))
         /\ Good(name, Result(name, outcome))
  <1>1. Result(name, outcome) = Returns(name, machine, outcome = "fine")
    BY DEF Result
  <1>2. machine \in Machines
    BY DEF TypeOK
  <1>3. (outcome = "fine") \in BOOLEAN
    OBVIOUS
  <1> QED
    BY <1>1, <1>2, <1>3, ReturnsType, GoodReturns

LEMMA BuildInit == Init => TypeOK /\ BuildInv
  <1> SUFFICES ASSUME Init PROVE TypeOK /\ BuildInv
    OBVIOUS
  <1>1. DOMAIN Nothing = {}
    BY DEF Nothing
  <1>2. TypeOK
    <2>1. /\ machine \in Machines /\ up = "down" /\ at = 0 /\ got = Unread
          /\ mishap = Nothing /\ moved = FALSE /\ status = Nothing
          /\ inventory = None /\ unsaved = FALSE /\ served = None
          /\ failed = None /\ builds = 0 /\ events = 0
      BY DEF Init
    <2>2. 0 \in 0..(Len(BuildOrder) + 1)
      BY OrderLength
    <2>3. /\ DOMAIN got = Names
          /\ \A name \in Names : ResultType(name, got[name])
      BY <2>1, UnreadType
    <2>4. DOMAIN mishap = {} /\ DOMAIN status = {}
      BY <2>1, <1>1
    <2>5. 0 \in 0..MaxBuilds /\ 0 \in 0..MaxEvents
      BY BoundsAssumption
    <2> QED
      BY <2>1, <2>2, <2>3, <2>4, <2>5 DEF TypeOK
  <1>3. BuildInv
    BY UnreadType, NoneAssumption DEF Init, BuildInv
  <1> QED
    BY <1>2, <1>3

\* A step that ends the build without a snapshot.
LEMMA FailsStep ==
  ASSUME TypeOK, BuildInv, NEW why \in {"speed", "maxima", "guard"},
         BuildFails(why), why = "guard" => SharedAddress(got)
  PROVE  TypeOK' /\ BuildInv'
  <1>1. /\ at' = 0 /\ failed' = why
        /\ up' \in {"down", "starting", "serving"}
        /\ UNCHANGED <<machine, got, mishap, moved, unsaved, served, builds,
                       events>>
    BY DEF BuildFails, build, TypeOK
  <1>2. \/ UNCHANGED <<status, inventory, cache>>
        \/ status' = Nothing /\ inventory' = None /\ cache' = None
    BY DEF BuildFails, process, Forget
  <1>3. 0 \in 0..(Len(BuildOrder) + 1)
    BY OrderLength
  <1>4. DOMAIN Nothing = {}
    BY DEF Nothing
  <1>5. TypeOK'
    <2>1. /\ DOMAIN status' \subseteq Names
          /\ \A name \in DOMAIN status' : status'[name] \in {"ok", "failed"}
      BY <1>2, <1>4 DEF TypeOK
    <2>2. inventory' # None => inventory'.at \in 1..builds
      BY <1>2 DEF TypeOK
    <2> QED
      BY <1>1, <1>3, <2>1, <2>2 DEF TypeOK
  <1>6. BuildInv'
    <2>1. inventory' # None => /\ ResultType("inventory", inventory'.found)
                               /\ Good("inventory", inventory'.found)
      BY <1>2 DEF BuildInv
    <2>2. \A name \in Names : Good(name, got'[name])
      BY <1>1 DEF BuildInv
    <2>3. ~(at' > 0)
      BY <1>1
    <2>4. failed' = "guard" => SharedAddress(got')
      BY <1>1
    <2> QED
      BY <2>1, <2>2, <2>3, <2>4 DEF BuildInv
  <1> QED
    BY <1>5, <1>6

\* Every action keeps the types and the invariant.
LEMMA BuildStep == TypeOK /\ BuildInv /\ [Next]_vars => TypeOK' /\ BuildInv'
  <1> SUFFICES ASSUME TypeOK, BuildInv, [Next]_vars PROVE TypeOK' /\ BuildInv'
    OBVIOUS
  <1>n. /\ Len(BuildOrder) = 23 /\ at \in 0..24 /\ builds \in 0..MaxBuilds
        /\ events \in 0..MaxEvents /\ MaxBuilds \in Nat /\ MaxEvents \in Nat
    BY OrderLength, BoundsAssumption DEF TypeOK
  <1>0. DOMAIN Nothing = {}
    BY DEF Nothing
  <1>1. CASE StartBuild
    <2>1. /\ at' = 1 /\ got' = Unread /\ mishap' = Nothing /\ moved' = FALSE
          /\ failed' = None /\ builds' = builds + 1 /\ builds < MaxBuilds
          /\ up' \in {"down", "starting", "serving"}
          /\ UNCHANGED <<machine, status, inventory, unsaved, served, events>>
      BY <1>1 DEF StartBuild, process, TypeOK
    <2>2. /\ DOMAIN got' = Names
          /\ \A name \in Names :
                 ResultType(name, got'[name]) /\ Good(name, got'[name])
      BY <2>1, UnreadType
    <2>3. builds' \in 0..MaxBuilds /\ builds' >= 1 /\ at' \in 0..24
      BY <1>n, <2>1
    <2>4. 1..builds \subseteq 1..builds'
      BY <1>n, <2>1
    <2>5. TypeOK'
      <3>1. machine' \in Machines /\ up' \in {"down", "starting", "serving"}
        BY <2>1 DEF TypeOK
      <3>2. at' \in 0..(Len(BuildOrder) + 1)
        BY <1>n, <2>3
      <3>3. /\ DOMAIN got' = Names
            /\ \A name \in Names : ResultType(name, got'[name])
        BY <2>2
      <3>4. DOMAIN mishap' \subseteq Fallible /\ moved' \in BOOLEAN
        BY <1>0, <2>1
      <3>5. /\ DOMAIN status' \subseteq Names
            /\ \A name \in DOMAIN status' : status'[name] \in {"ok", "failed"}
        BY <2>1 DEF TypeOK
      <3>6. /\ inventory' # None => inventory'.at \in 1..builds'
            /\ served' # None => served'.build \in 1..builds'
        BY <2>1, <2>4 DEF TypeOK
      <3>7. /\ unsaved' \in BOOLEAN /\ failed' = None
            /\ builds' \in 0..MaxBuilds /\ events' \in 0..MaxEvents
        BY <2>1, <2>3 DEF TypeOK
      <3> QED
        BY <3>1, <3>2, <3>3, <3>4, <3>5, <3>6, <3>7 DEF TypeOK
    <2>6. failed' # "guard"
      BY <2>1, NoneAssumption
    <2>7. BuildInv'
      BY <2>1, <2>2, <2>3, <2>6 DEF BuildInv
    <2> QED
      BY <2>5, <2>7
  <1>2. CASE SpeedUnencodable
    BY <1>2, FailsStep DEF SpeedUnencodable
  <1>3. ASSUME NEW name \in Names, Skip(name) PROVE TypeOK' /\ BuildInv'
    <2>1. /\ at' = at + 1 /\ at > 0 /\ at <= 23
          /\ UNCHANGED <<machine, up, got, mishap, moved, status, inventory,
                         unsaved, served, failed, builds, events>>
      BY <1>3, <1>n DEF Skip, Running, build, process
    <2>2. at' \in 0..24 /\ at' > 0
      BY <1>n, <2>1
    <2>3. TypeOK'
      BY <1>n, <2>1, <2>2 DEF TypeOK
    <2>4. BuildInv'
      BY <2>1, <2>2 DEF BuildInv
    <2> QED
      BY <2>3, <2>4
  <1>4. ASSUME NEW name \in Names, Collect(name) PROVE TypeOK' /\ BuildInv'
    <2>1. /\ at' = at + 1 /\ at > 0 /\ at <= 23
          /\ UNCHANGED <<machine, up, moved, inventory, unsaved, served, failed,
                         builds>>
      BY <1>4, <1>n DEF Collect, Running
    <2>2. PICK outcome \in {"fine", "fails", "raises"} :
              /\ Outcome(name, outcome)
              /\ _collector(name, Result(name, outcome))
      BY <1>4 DEF Collect
    <2>3. DOMAIN mishap' \subseteq Fallible /\ events' \in 0..MaxEvents
      BY <2>2, OutcomeStep
    <2>4. /\ DOMAIN got' = Names
          /\ \A k \in Names : ResultType(k, got'[k]) /\ Good(k, got'[k])
          /\ DOMAIN status' \subseteq Names
          /\ \A k \in DOMAIN status' : status'[k] \in {"ok", "failed"}
      BY <2>2, ResultStep, CollectorStep
    <2>5. at' \in 0..24 /\ at' > 0
      BY <1>n, <2>1
    <2>6. TypeOK'
      BY <1>n, <2>1, <2>3, <2>4, <2>5 DEF TypeOK
    <2>7. failed' # "guard" /\ failed' = None /\ builds' >= 1
      BY <2>1, NoneAssumption DEF BuildInv
    <2>8. BuildInv'
      BY <2>1, <2>4, <2>7 DEF BuildInv
    <2> QED
      BY <2>6, <2>8
  <1>5. CASE CollectInventory
    <2>1. /\ at' = at + 1 /\ at > 0 /\ at <= 23
          /\ UNCHANGED <<machine, up, moved, unsaved, served, failed, builds>>
      BY <1>5, <1>n DEF CollectInventory, Running
    <2>2. "inventory" \in Names
      BY NamesHave
    <2>3. failed' # "guard" /\ failed' = None /\ builds' >= 1
      BY <2>1, NoneAssumption DEF BuildInv
    <2>4. at' \in 0..24 /\ at' > 0
      BY <1>n, <2>1
    <2>5. CASE inventory # None
      <3>1. /\ _collector("inventory", inventory.found)
            /\ UNCHANGED <<inventory, mishap, events>>
        BY <1>5, <2>5 DEF CollectInventory
      <3>2. /\ DOMAIN got' = Names
            /\ \A k \in Names : ResultType(k, got'[k]) /\ Good(k, got'[k])
            /\ DOMAIN status' \subseteq Names
            /\ \A k \in DOMAIN status' : status'[k] \in {"ok", "failed"}
        BY <2>2, <2>5, <3>1, CollectorStep DEF BuildInv
      <3>3. TypeOK'
        BY <1>n, <2>1, <2>4, <3>1, <3>2 DEF TypeOK
      <3>4. BuildInv'
        BY <2>1, <2>3, <3>1, <3>2 DEF BuildInv
      <3> QED
        BY <3>3, <3>4
    <2>6. CASE inventory = None
      <3>1. PICK outcome \in {"fine", "fails", "raises"} :
                /\ Outcome("inventory", outcome)
                /\ _collector("inventory", Result("inventory", outcome))
                /\ inventory' =
                       IF outcome = "raises" THEN None
                       ELSE [found |-> Result("inventory", outcome),
                             readings |-> machine.disks, at |-> builds]
        BY <1>5, <2>6 DEF CollectInventory
      <3>2. DOMAIN mishap' \subseteq Fallible /\ events' \in 0..MaxEvents
        BY <3>1, OutcomeStep
      <3>3. /\ DOMAIN got' = Names
            /\ \A k \in Names : ResultType(k, got'[k]) /\ Good(k, got'[k])
            /\ DOMAIN status' \subseteq Names
            /\ \A k \in DOMAIN status' : status'[k] \in {"ok", "failed"}
        BY <2>2, <3>1, ResultStep, CollectorStep
      <3>4. inventory' # None =>
                /\ outcome # "raises" /\ inventory'.at = builds
                /\ inventory'.found = Result("inventory", outcome)
        BY <3>1
      <3>5. builds \in 1..builds
        BY <1>n, <2>1 DEF BuildInv
      <3>6. TypeOK'
        BY <1>n, <2>1, <2>4, <3>2, <3>3, <3>4, <3>5 DEF TypeOK
      <3>7. ASSUME inventory' # None
            PROVE  /\ ResultType("inventory", inventory'.found)
                   /\ Good("inventory", inventory'.found)
        <4>1. machine \in Machines /\ (outcome = "fine") \in BOOLEAN
          BY DEF TypeOK
        <4>2. inventory'.found = Returns("inventory", machine, outcome = "fine")
          BY <3>4, <3>7 DEF Result
        <4>3. Returns("inventory", machine, outcome = "fine")
                  = get_inventory(machine, outcome = "fine")
          BY DEF Returns
        <4> QED
          BY <2>2, <4>1, <4>2, <4>3, InventoryGood
      <3>8. BuildInv'
        BY <2>1, <2>3, <3>3, <3>7 DEF BuildInv
      <3> QED
        BY <3>6, <3>8
    <2> QED
      BY <2>5, <2>6
  <1>6. CASE MaximaUnreadable
    BY <1>6, FailsStep DEF MaximaUnreadable
  <1>7. CASE Observe
    <2> USE <1>7 DEF Observe
    <2>0. unsaved \in BOOLEAN
      BY DEF TypeOK
    <2>u. unsaved' \in BOOLEAN
      <3>1. \/ unsaved' = FALSE \/ unsaved' = TRUE
            \/ unsaved' = (unsaved /\ cache # None)
        BY Zenon
      <3> QED
        BY <2>0, <3>1
    <2>e. events' \in 0..MaxEvents
      <3>1. Happens \/ UNCHANGED events
        BY Zenon
      <3> QED
        BY <1>n, <3>1 DEF Happens
    <2>1. /\ unsaved' \in BOOLEAN /\ events' \in 0..MaxEvents
          /\ UNCHANGED <<machine, up, at, got, mishap, moved, status, inventory,
                         served, failed, builds>>
      BY <2>u, <2>e
    <2>2. TypeOK'
      BY <1>n, <2>1 DEF TypeOK
    <2>3. BuildInv'
      BY <2>1 DEF BuildInv
    <2> QED
      BY <2>2, <2>3
  <1>8. CASE AllObserved
    <2>1. /\ at' = at + 1 /\ at > 0 /\ at <= 23
          /\ UNCHANGED <<machine, up, got, mishap, moved, status, inventory,
                         unsaved, served, failed, builds, events>>
      BY <1>8, <1>n DEF AllObserved, Running, build, process
    <2>2. at' \in 0..24 /\ at' > 0
      BY <1>n, <2>1
    <2>3. TypeOK'
      BY <1>n, <2>1, <2>2 DEF TypeOK
    <2>4. BuildInv'
      BY <2>1, <2>2 DEF BuildInv
    <2> QED
      BY <2>3, <2>4
  <1>9. CASE Guard
    <2>1. GotInv(got)
      BY GoodGot DEF TypeOK, BuildInv
    <2>2. SharedAddress(got)
      BY <1>9, <2>1, OnlyShared DEF Guard
    <2> QED
      BY <1>9, <2>2, FailsStep DEF Guard
  <1>10. CASE Publish
    <2>1. /\ at > 23 /\ at' = 0 /\ up' = "serving" /\ served'.build = builds
          /\ UNCHANGED <<machine, got, mishap, moved, status, inventory,
                         unsaved, failed, builds, events>>
      BY <1>10, <1>n DEF Publish, build, process
    <2>2. builds \in 1..builds
      BY <1>n, <2>1 DEF BuildInv
    <2>3. TypeOK'
      BY <1>n, <2>1, <2>2 DEF TypeOK
    <2>4. BuildInv'
      BY <2>1 DEF BuildInv
    <2> QED
      BY <2>3, <2>4
  <1>11. CASE Change
    <2>1. /\ machine' \in Machines /\ moved' \in BOOLEAN
          /\ events' \in 0..MaxEvents
          /\ UNCHANGED <<up, at, got, mishap, status, inventory, unsaved, served,
                         failed, builds>>
      BY <1>11, <1>n DEF Change, Happens, process, TypeOK, Passed
    <2>2. TypeOK'
      BY <1>n, <2>1 DEF TypeOK
    <2>3. BuildInv'
      BY <2>1 DEF BuildInv
    <2> QED
      BY <2>2, <2>3
  <1>12. CASE Damage
    <2>1. /\ unsaved' \in BOOLEAN /\ events' \in 0..MaxEvents
          /\ UNCHANGED <<machine, up, at, got, mishap, moved, status, inventory,
                         served, failed, builds>>
      BY <1>12, <1>n DEF Damage, Happens, build, process
    <2>2. TypeOK'
      BY <1>n, <2>1 DEF TypeOK
    <2>3. BuildInv'
      BY <2>1 DEF BuildInv
    <2> QED
      BY <2>2, <2>3
  <1>13. CASE Crash
    <2>1. /\ up' = "down" /\ at' = 0 /\ events' \in 0..MaxEvents
          /\ status' = Nothing /\ inventory' = None
          /\ served' = None /\ failed' = None
          /\ UNCHANGED <<machine, got, mishap, moved, unsaved, builds>>
      BY <1>13, <1>n DEF Crash, Happens, Forget, build
    <2>2. failed' # "guard"
      BY <2>1, NoneAssumption
    <2>3. TypeOK'
      BY <1>n, <1>0, <2>1 DEF TypeOK
    <2>4. BuildInv'
      BY <2>1, <2>2 DEF BuildInv
    <2> QED
      BY <2>3, <2>4
  <1>14. CASE UNCHANGED vars
    <2>1. UNCHANGED <<machine, up, at, got, mishap, moved, status, inventory,
                      unsaved, served, failed, builds, events>>
      BY <1>14 DEF vars, build, process
    <2>2. TypeOK'
      BY <1>n, <2>1 DEF TypeOK
    <2>3. BuildInv'
      BY <2>1 DEF BuildInv
    <2> QED
      BY <2>2, <2>3
  <1>15. CASE MaximaNotRead
    <2> USE <1>15 DEF MaximaNotRead
    <2>1. /\ events' \in 0..MaxEvents
          /\ UNCHANGED <<machine, up, at, got, mishap, moved, status, inventory,
                         unsaved, served, failed, builds>>
      BY <1>n DEF Happens, build
    <2>2. TypeOK'
      BY <1>n, <2>1 DEF TypeOK
    <2>3. BuildInv'
      BY <2>1 DEF BuildInv
    <2> QED
      BY <2>2, <2>3
  <1> QED
    BY <1>1, <1>2, <1>3, <1>4, <1>5, <1>6, <1>7, <1>8, <1>9, <1>10, <1>11,
       <1>12, <1>13, <1>14, <1>15 DEF Next

LEMMA BuildReached == Spec => [](TypeOK /\ BuildInv)
  <1>1. Init => TypeOK /\ BuildInv
    BY BuildInit
  <1>2. (TypeOK /\ BuildInv) /\ [Next]_vars => (TypeOK /\ BuildInv)'
    BY BuildStep
  <1> QED
    BY <1>1, <1>2, PTL DEF Spec

\* The variables of the building have their types in every reachable state.
THEOREM BuildTypeCorrect == Spec => []TypeOK
  BY BuildReached, PTL

\* The duplicate-OID guard ends a build for nothing but one address on two
\* interfaces, whatever the machine has and whichever collectors fail.
THEOREM GuardIsForShared == Spec => []GuardOnlyForShared
  <1>1. TypeOK /\ BuildInv => GuardOnlyForShared
    BY DEF BuildInv, GuardOnlyForShared
  <1> QED
    BY <1>1, BuildReached, PTL

-----------------------------------------------------------------------------
(* Where the rows point *)

\* The rows that a row may refer to.
Keys(g) == {Key(r) : r \in Rows(g)} \cup Hollow(g)

\* Every entry carries the Windows index of the interface it was read from.
Traced(g) ==
    \A name \in {"ip_addresses", "ip_neighbors", "routes"} :
        \A e \in g[name], n \in g["interfaces"] : e.win = n.win => e.luid = n.luid

\* Where the row of an entry points, if the entries are traced.
EntryRight(r) ==
    r.of[1] = "entry" => r.ref = Ref("ifTable", <<IfIndex[r.of[2].luid]>>)

LEMMA RowKey ==
  ASSUME NEW g, NEW t, NEW i, NEW f, NEW o, Row(t, i, f, o) \in Rows(g)
  PROVE  Ref(t, i) \in Keys(g)
  <1>1. Key(Row(t, i, f, o)) = Ref(t, i)
    BY RowParts DEF Key
  <1> QED
    BY <1>1 DEF Keys

LEMMA InterfaceRow ==
  ASSUME NEW g, NEW n \in g.interfaces
  PROVE  Ref("ifTable", <<IfIndex[n.luid]>>) \in Keys(g)
  <1> DEFINE r == Row("ifTable", <<IfIndex[n.luid]>>, None, <<"if", n.luid>>)
  <1>1. r \in IfTable(g)
    BY DEF IfTable
  <1>2. r \in Rows(g)
    BY <1>1 DEF Rows
  <1> QED
    BY <1>2, RowKey, Zenon

LEMMA SystemRow ==
  ASSUME NEW g PROVE Ref("entPhysical", <<ENT_SYSTEM>>) \in Keys(g)
  <1>1. CASE Smbios(g).system
    <2> DEFINE r == Row("entPhysical", <<ENT_SYSTEM>>, None, <<"system">>)
    <2>1. r \in Entities(g)
      BY <1>1 DEF Entities
    <2>2. r \in Rows(g)
      BY <2>1 DEF Rows
    <2> QED
      BY <2>2, RowKey, Zenon
  <1>2. CASE ~Smbios(g).system
    BY <1>2 DEF Keys, Hollow
  <1> QED
    BY <1>1, <1>2

LEMMA BoardRow ==
  ASSUME NEW g PROVE Ref("entPhysical", <<ENT_MAINBOARD>>) \in Keys(g)
  <1>1. CASE HasBoard(Smbios(g).board)
    <2> DEFINE f == Ref("entPhysical", <<ENT_SYSTEM>>)
               r == Row("entPhysical", <<ENT_MAINBOARD>>, f, <<"board">>)
    <2>1. r \in Entities(g)
      BY <1>1 DEF Entities, Entity
    <2>2. r \in Rows(g)
      BY <2>1 DEF Rows
    <2> QED
      BY <2>2, RowKey, Zenon
  <1>2. CASE ~HasBoard(Smbios(g).board)
    BY <1>2 DEF Keys, Hollow
  <1> QED
    BY <1>1, <1>2

LEMMA DiskEntityRow ==
  ASSUME NEW g, NEW d \in DOMAIN Disks(g)
  PROVE  Ref("entPhysical", <<ENT_DISK_BASE + d>>) \in Keys(g)
  <1> DEFINE f == Ref("entPhysical", <<ENT_SYSTEM>>)
             r == Row("entPhysical", <<ENT_DISK_BASE + d>>, f, <<"disk", d>>)
  <1>1. r \in Entities(g)
    BY DEF Entities, Entity
  <1>2. r \in Rows(g)
    BY <1>1 DEF Rows
  <1> QED
    BY <1>2, RowKey, Zenon

\* The partitions' disk is there, if any disk is.
LEMMA PartitionRow ==
  ASSUME NEW g, DOMAIN Disks(g) \subseteq 0..15
  PROVE  Ref("hrDevice", <<PartitionDevice(g)>>) \in Keys(g)
  <1>1. CASE DOMAIN Disks(g) = {}
    <2>1. PartitionDevice(g) = DEV_BASE_DISK
      BY <1>1 DEF PartitionDevice, DEV_BASE_DISK
    <2> QED
      BY <1>1, <2>1 DEF Keys, Hollow
  <1>2. CASE DOMAIN Disks(g) # {}
    <2> DEFINE d == Min(DOMAIN Disks(g))
               r == Row("hrDevice", <<DEV_BASE_DISK + d>>, None, <<"disk", d>>)
    <2>1. DOMAIN Disks(g) \in SUBSET Nat
      OBVIOUS
    <2>2. d \in DOMAIN Disks(g)
      BY <1>2, <2>1, MinIsLeast, Zenon
    <2>3. r \in HrDisks(g)
      BY <2>2 DEF HrDisks
    <2>4. r \in Rows(g)
      BY <2>3 DEF Rows
    <2>5. PartitionDevice(g) = DEV_BASE_DISK + d
      BY <1>2 DEF PartitionDevice
    <2> QED
      BY <2>4, <2>5, RowKey, Zenon
  <1> QED
    BY <1>1, <1>2

\* What the row of a bound entry refers to.
LEMMA BoundPoints ==
  ASSUME NEW g, NEW name \in {"ip_addresses", "ip_neighbors", "routes"},
         NEW p \in Bound(g, g[name])
  PROVE  /\ ToIf(p[2]) \in Keys(g)
         /\ Traced(g) => ToIf(p[2]) = Ref("ifTable", <<IfIndex[p[1].luid]>>)
  <1>1. p[1] \in g[name] /\ p[2] \in g.interfaces /\ p[1].win = p[2].win
    BY DEF Bound
  <1>2. ToIf(p[2]) \in Keys(g)
    BY <1>1, InterfaceRow DEF ToIf
  <1>3. ASSUME Traced(g) PROVE p[1].luid = p[2].luid
    BY <1>1, <1>3 DEF Traced
  <1> QED
    BY <1>2, <1>3 DEF ToIf

\* Of the routes to a destination there is a best one.
LEMMA BestRouteBound ==
  ASSUME NEW g, \A e \in g.routes : e.metric \in Nat,
         NEW q \in Bound(g, g.routes)
  PROVE  BestRoute(g, q[1].dest) \in Bound(g, g.routes)
  <1> DEFINE B == {p \in Bound(g, g.routes) : p[1].dest = q[1].dest}
             M == {p[1].metric : p \in B}
  <1>1. \A p \in Bound(g, g.routes) : p[1].metric \in Nat
    BY DEF Bound
  <1>2. M \in SUBSET Nat /\ M # {}
    <2>1. q \in B
      OBVIOUS
    <2>2. q[1].metric \in M
      BY <2>1
    <2> QED
      BY <1>1, <2>2
  <1>3. PICK x \in M : \A y \in M : x <= y
    BY <1>2, LeastExists, Zenon
  <1>4. PICK p \in B : x = p[1].metric
    OBVIOUS
  <1>5. \A r \in Bound(g, g.routes) :
            r[1].dest = q[1].dest => p[1].metric <= r[1].metric
    BY <1>3, <1>4
  <1>6. p \in Bound(g, g.routes) /\ p[1].dest = q[1].dest
    BY <1>4
  <1> QED
    BY <1>5, <1>6, Zenon DEF BestRoute

LEMMA NoRef ==
  ASSUME NEW g, NEW t, NEW i, NEW o, o[1] # "entry"
  PROVE  LET r == Row(t, i, None, o)
         IN (r.ref = None \/ r.ref \in Keys(g)) /\ EntryRight(r)
  BY RowParts DEF EntryRight

LEMMA SomeRef ==
  ASSUME NEW g, NEW t, NEW i, NEW f \in Keys(g), NEW o, o[1] # "entry"
  PROVE  LET r == Row(t, i, f, o)
         IN (r.ref = None \/ r.ref \in Keys(g)) /\ EntryRight(r)
  BY RowParts DEF EntryRight

LEMMA EntryRef ==
  ASSUME NEW g, NEW name \in {"ip_addresses", "ip_neighbors", "routes"},
         NEW p \in Bound(g, g[name]), NEW t, NEW i
  PROVE  LET r == Row(t, i, ToIf(p[2]), <<"entry", p[1]>>)
         IN /\ r.ref = None \/ r.ref \in Keys(g)
            /\ Traced(g) => EntryRight(r)
  <1> DEFINE r == Row(t, i, ToIf(p[2]), <<"entry", p[1]>>)
  <1>1. r.ref = ToIf(p[2]) /\ r.of = <<"entry", p[1]>>
    BY RowParts
  <1>2. r.of[2] = p[1]
    BY <1>1
  <1>3. /\ ToIf(p[2]) \in Keys(g)
        /\ Traced(g) => ToIf(p[2]) = Ref("ifTable", <<IfIndex[p[1].luid]>>)
    BY BoundPoints
  <1> HIDE DEF r
  <1>4. (r.ref = None \/ r.ref \in Keys(g)) /\ (Traced(g) => EntryRight(r))
    BY <1>1, <1>2, <1>3 DEF EntryRight
  <1> QED
    BY <1>4 DEF r

\* A sensor's two rows.
LEMMA SensorPoints ==
  ASSUME NEW g, NEW x, NEW parent, NEW o, o[1] # "entry",
         Sensor(x, parent, o) \subseteq Rows(g),
         Ref("entPhysical", <<parent>>) \in Keys(g),
         NEW r \in Sensor(x, parent, o)
  PROVE  (r.ref = None \/ r.ref \in Keys(g)) /\ EntryRight(r)
  <1>1. CASE r = Row("entPhysical", <<x>>, Ref("entPhysical", <<parent>>), o)
    BY <1>1, SomeRef, Zenon
  <1>2. CASE r = Row("entPhySensor", <<x>>, Ref("entPhysical", <<x>>), o)
    <2>1. Row("entPhysical", <<x>>, Ref("entPhysical", <<parent>>), o) \in Rows(g)
      BY DEF Sensor, Entity
    <2>2. Ref("entPhysical", <<x>>) \in Keys(g)
      BY <2>1, RowKey, Zenon
    <2> QED
      BY <1>2, <2>2, SomeRef, Zenon
  <1> QED
    BY <1>1, <1>2 DEF Sensor, Entity

\* Every row points right.
LEMMA RowPoints ==
  ASSUME NEW g, GotInv(g), NEW r \in Rows(g)
  PROVE  (r.ref = None \/ r.ref \in Keys(g)) /\ (Traced(g) => EntryRight(r))
  <1> DEFINE Right == (r.ref = None \/ r.ref \in Keys(g)) /\ EntryRight(r)
  <1>1. CASE r \in IfTable(g)
    <2>1. PICK n : r = Row("ifTable", <<IfIndex[n.luid]>>, None, <<"if", n.luid>>)
      BY <1>1 DEF IfTable
    <2>2. <<"if", n.luid>>[1] # "entry"
      OBVIOUS
    <2> QED
      BY <2>1, <2>2, NoRef, Zenon
  <1>2. CASE r \in HrStorage(g)
    <2>1. PICK i : r = Row("hrStorage", <<i>>, None, <<"storage", i>>)
      BY <1>2 DEF HrStorage
    <2>2. <<"storage", i>>[1] # "entry"
      OBVIOUS
    <2> QED
      BY <2>1, <2>2, NoRef, Zenon
  <1>3. CASE r \in HrProcessors(g)
    <2>1. PICK i : r = Row("hrDevice", <<DEV_BASE_CPU + i>>, None, <<"cpu", i>>)
      BY <1>3 DEF HrProcessors
    <2>2. <<"cpu", i>>[1] # "entry"
      OBVIOUS
    <2> QED
      BY <2>1, <2>2, NoRef, Zenon
  <1>4. CASE r \in HrNetwork(g)
    <2>1. PICK n \in g.interfaces :
              r = Row("hrDevice", <<DEV_BASE_NET + IfIndex[n.luid]>>,
                      Ref("ifTable", <<IfIndex[n.luid]>>), <<"if", n.luid>>)
      BY <1>4 DEF HrNetwork
    <2>2. <<"if", n.luid>>[1] # "entry"
      OBVIOUS
    <2>3. Ref("ifTable", <<IfIndex[n.luid]>>) \in Keys(g)
      BY InterfaceRow
    <2> QED
      BY <2>1, <2>2, <2>3, SomeRef, Zenon
  <1>5. CASE r \in HrDisks(g)
    <2>1. PICK d : r = Row("hrDevice", <<DEV_BASE_DISK + d>>, None, <<"disk", d>>)
      BY <1>5 DEF HrDisks
    <2>2. <<"disk", d>>[1] # "entry"
      OBVIOUS
    <2> QED
      BY <2>1, <2>2, NoRef, Zenon
  <1>6. CASE r \in Entities(g)
    <2> DEFINE b == Smbios(g).board
               On(x) == Ref("entPhysical", <<x>>)
    <2>1. On(ENT_SYSTEM) \in Keys(g) /\ On(OnBoard(b)) \in Keys(g)
      BY SystemRow, BoardRow DEF OnBoard
    <2>2. \/ r = Row("entPhysical", <<ENT_SYSTEM>>, None, <<"system">>)
          \/ r = Row("entPhysical", <<ENT_MAINBOARD>>, On(ENT_SYSTEM), <<"board">>)
          \/ \E i : r = Row("entPhysical", <<ENT_CPU_BASE + i>>, On(OnBoard(b)),
                            <<"socket", i>>)
          \/ \E i : r = Row("entPhysical", <<ENT_DIMM_BASE + i>>, On(OnBoard(b)),
                            <<"dimm", i>>)
          \/ \E d : r = Row("entPhysical", <<ENT_DISK_BASE + d>>, On(ENT_SYSTEM),
                            <<"disk", d>>)
      <3>1. \/ r = Row("entPhysical", <<ENT_SYSTEM>>, None, <<"system">>)
            \/ r = Entity(ENT_MAINBOARD, ENT_SYSTEM, <<"board">>)
            \/ \E i \in Upto(Smbios(g).processors) :
                   r = Entity(ENT_CPU_BASE + i, OnBoard(b), <<"socket", i>>)
            \/ \E i \in Upto(Smbios(g).memory) :
                   r = Entity(ENT_DIMM_BASE + i, OnBoard(b), <<"dimm", i>>)
            \/ \E d \in DOMAIN Disks(g) :
                   r = Entity(ENT_DISK_BASE + d, ENT_SYSTEM, <<"disk", d>>)
        BY <1>6 DEF Entities
      <3> QED
        BY <3>1, Zenon DEF Entity
    <2>3. /\ <<"system">>[1] # "entry" /\ <<"board">>[1] # "entry"
          /\ \A i : /\ <<"socket", i>>[1] # "entry" /\ <<"dimm", i>>[1] # "entry"
                    /\ <<"disk", i>>[1] # "entry"
      OBVIOUS
    <2> HIDE DEF On, b
    <2> QED
      BY <2>1, <2>2, <2>3, NoRef, SomeRef, Zenon
  <1>7. CASE r \in DiskSensors(g)
    <2>1. PICK d \in DOMAIN Disks(g) : r \in SensorsOfDisk(d, Disks(g)[d])
      BY <1>7 DEF DiskSensors
    <2>2. PICK k :
              /\ r \in Sensor(ENT_SENSOR_BASE + d * 10 + k, ENT_DISK_BASE + d,
                             <<"sensor", d, k>>)
              /\ Sensor(ENT_SENSOR_BASE + d * 10 + k, ENT_DISK_BASE + d,
                        <<"sensor", d, k>>) \subseteq SensorsOfDisk(d, Disks(g)[d])
      BY <2>1 DEF SensorsOfDisk
    <2>3. SensorsOfDisk(d, Disks(g)[d]) \subseteq DiskSensors(g)
      BY DEF DiskSensors
    <2>4. DiskSensors(g) \subseteq Rows(g)
      BY DEF Rows
    <2>5. <<"sensor", d, k>>[1] # "entry"
      OBVIOUS
    <2>6. Ref("entPhysical", <<ENT_DISK_BASE + d>>) \in Keys(g)
      BY DiskEntityRow
    <2> QED
      BY <2>2, <2>3, <2>4, <2>5, <2>6, SensorPoints
  <1>8. CASE r \in ThermalSensors(g)
    <2>1. PICK z \in Upto(g.thermal_zones) :
              r \in Sensor(ENT_THERMAL_BASE + z, ENT_MAINBOARD, <<"zone", z>>)
      BY <1>8 DEF ThermalSensors
    <2>2. Sensor(ENT_THERMAL_BASE + z, ENT_MAINBOARD, <<"zone", z>>)
              \subseteq Rows(g)
      BY DEF ThermalSensors, Rows
    <2>3. <<"zone", z>>[1] # "entry"
      OBVIOUS
    <2> QED
      BY <2>1, <2>2, <2>3, BoardRow, SensorPoints
  <1>9. CASE r \in FrequencySensor(g)
    <2>1. /\ r \in Sensor(ENT_CPUFREQ_BASE, ENT_MAINBOARD, <<"frequency">>)
          /\ Sensor(ENT_CPUFREQ_BASE, ENT_MAINBOARD, <<"frequency">>)
                 \subseteq FrequencySensor(g)
      BY <1>9 DEF FrequencySensor
    <2>2. FrequencySensor(g) \subseteq Rows(g)
      BY DEF Rows
    <2>3. <<"frequency">>[1] # "entry"
      OBVIOUS
    <2> QED
      BY <2>1, <2>2, <2>3, BoardRow, SensorPoints
  <1>10. CASE r \in IpAddresses(g)
    <2>1. PICK p \in Bound(g, g.ip_addresses) :
              \/ r = Row("ipAddrTable", <<p[1].addr>>, ToIf(p[2]), <<"entry", p[1]>>)
              \/ r = Row("ipAddress", <<p[1].version, p[1].addr>>, ToIf(p[2]),
                        <<"entry", p[1]>>)
      BY <1>10 DEF IpAddresses
    <2> QED
      BY <2>1, EntryRef
  <1>11. CASE r \in IpNeighbors(g)
    <2>1. PICK p \in Bound(g, g.ip_neighbors) :
              r = Row("ipNetToPhysical", <<IfIndex[p[2].luid], p[1].addr>>,
                      ToIf(p[2]), <<"entry", p[1]>>)
      BY <1>11 DEF IpNeighbors
    <2> QED
      BY <2>1, EntryRef
  <1>12. CASE r \in IpRoutes(g)
    <2>1. PICK q \in Bound(g, g.routes) :
              r = Row("ipRoute", <<q[1].dest>>, ToIf(BestRoute(g, q[1].dest)[2]),
                      <<"entry", BestRoute(g, q[1].dest)[1]>>)
      BY <1>12 DEF IpRoutes
    <2>2. BestRoute(g, q[1].dest) \in Bound(g, g.routes)
      BY BestRouteBound DEF GotInv
    <2> QED
      BY <2>1, <2>2, EntryRef
  <1>13. CASE r \in Partitions(g)
    <2>1. PICK v : \/ r = Row("hrPartition", <<PartitionDevice(g), v>>,
                             Ref("hrDevice", <<PartitionDevice(g)>>), <<"volume", v>>)
                   \/ r = Row("hrFS", <<v>>, None, <<"volume", v>>)
      BY <1>13 DEF Partitions
    <2>2. <<"volume", v>>[1] # "entry"
      OBVIOUS
    <2>3. Ref("hrDevice", <<PartitionDevice(g)>>) \in Keys(g)
      BY PartitionRow DEF GotInv
    <2> QED
      BY <2>1, <2>2, <2>3, NoRef, SomeRef, Zenon
  <1>14. CASE r \in DiskIo(g)
    <2>1. PICK i : r = Row("diskIO", <<i>>, None, <<"io", i>>)
      BY <1>14 DEF DiskIo
    <2>2. <<"io", i>>[1] # "entry"
      OBVIOUS
    <2> QED
      BY <2>1, <2>2, NoRef, Zenon
  <1>15. CASE r \in JtDiskHealth(g)
    <2>1. PICK d : r = Row("jtDiskHealth", <<d>>, None, <<"disk", d>>)
      BY <1>15 DEF JtDiskHealth
    <2>2. <<"disk", d>>[1] # "entry"
      OBVIOUS
    <2> QED
      BY <2>1, <2>2, NoRef, Zenon
  <1>16. CASE r \in ScalarRows(g)
    <2>1. PICK c \in Scalars \cup {"processes"} : r = Row(c, <<0>>, None, <<c>>)
      BY <1>16 DEF ScalarRows
    <2>2. <<c>>[1] # "entry"
      BY DEF Scalars, NetStats, SystemStats
    <2> QED
      BY <2>1, <2>2, NoRef, Zenon
  <1> QED
    BY <1>1, <1>2, <1>3, <1>4, <1>5, <1>6, <1>7, <1>8, <1>9, <1>10, <1>11, <1>12,
       <1>13, <1>14, <1>15, <1>16 DEF Rows

\* No collector is called twice.
LEMMA OrderOnce ==
  ASSUME NEW j \in 1..23, NEW k \in 1..23, BuildOrder[j] = BuildOrder[k]
  PROVE  j = k
  <1> DEFINE place == [name \in Names \cup {"observe"} |->
          CASE name = "interfaces" -> 1 [] name = "perf_info" -> 2
            [] name = "sessions" -> 3 [] name = "processes" -> 4
            [] name = "memory" -> 5 [] name = "volumes" -> 6
            [] name = "inventory" -> 7 [] name = "cpu_name" -> 8
            [] name = "cpu" -> 9 [] name = "diskio" -> 10
            [] name = "ip_stats" -> 11 [] name = "icmp_stats" -> 12
            [] name = "tcp_stats" -> 13 [] name = "udp_stats" -> 14
            [] name = "ip_addresses" -> 15 [] name = "ip_neighbors" -> 16
            [] name = "routes" -> 17 [] name = "thermal_zones" -> 18
            [] name = "cpu_frequency" -> 19 [] name = "battery" -> 20
            [] name = "observe" -> 21 [] name = "sys_perf" -> 22
            [] name = "cpu_times" -> 23]
  <1>1. \A i \in 1..23 : place[BuildOrder[i]] = i
    BY DEF BuildOrder, Names
  <1> HIDE DEF place
  <1> QED
    BY <1>1

LEMMA OrderPlaces ==
  /\ BuildOrder[1] = "interfaces" /\ BuildOrder[3] = "sessions"
  /\ BuildOrder[2] = "perf_info" /\ BuildOrder[4] = "processes"
  /\ BuildOrder[7] = "inventory" /\ BuildOrder[16] = "ip_neighbors"
  /\ BuildOrder[21] = "observe"
  BY DEF BuildOrder

\* _collector changes what it has of one collector.
LEMMA CollectorGot ==
  ASSUME TypeOK, NEW name \in Names, NEW result, _collector(name, result)
  PROVE  /\ DOMAIN got' = Names
         /\ got'[name] = Kept(name, result)
         /\ \A k \in Names : k # name => got'[k] = got[k]
         /\ DOMAIN status' = {name} \cup DOMAIN status
         /\ status'[name] = Health(result)
         /\ \A k \in DOMAIN status : k # name => status'[k] = status[k]
  BY DEF _collector, Put, TypeOK

\* No other adapter has the Windows index of an interface that was read, unless
\* one has passed it on; so the entries lead to the interface they were read
\* from, in the build and in the snapshot.
TraceInv ==
    /\ at = 1 => \A name \in Lists : got[name] = {}
    /\ at > 0 /\ ~moved => ~Passed(machine)
    /\ ~moved => Traced(got)
    /\ served # None =>
           GotInv(served.got) /\ (~served.moved => Traced(served.got))

LEMMA KeptEntries ==
  ASSUME TypeOK, NEW name \in {"ip_addresses", "ip_neighbors", "routes"},
         NEW outcome, NEW e \in Kept(name, Result(name, outcome))
  PROVE  e.luid \in DOMAIN machine.nics /\ e.win = machine.nics[e.luid].win
  <1>1. MachineType(machine)
    BY MachinesAssumption DEF TypeOK
  <1>2. Default(name) = {}
    BY DEF Default, Lists, Counts
  <1>3. Kept(name, Result(name, outcome))
            \in {{}, Returns(name, machine, outcome = "fine")}
    BY <1>2 DEF Kept, Result
  <1>4. Returns(name, machine, outcome = "fine")
            \in {{}, Entries(machine, machine.addresses),
                 Entries(machine, machine.neighbors),
                 Entries(machine, machine.routes)}
    <2>1. CASE name = "ip_addresses"
      BY <2>1 DEF Returns, get_ip_addresses
    <2>2. CASE name = "ip_neighbors"
      BY <2>2 DEF Returns, get_ip_neighbors
    <2>3. CASE name = "routes"
      BY <2>3 DEF Returns, get_routes
    <2> QED
      BY <2>1, <2>2, <2>3
  <1>5. PICK table \in {machine.addresses, machine.neighbors, machine.routes} :
            e \in Entries(machine, table)
    BY <1>3, <1>4
  <1>6. PICK f \in table : /\ f.luid \in DOMAIN machine.nics
                           /\ e = [f EXCEPT !.win = machine.nics[f.luid].win]
    BY <1>5 DEF Entries
  <1>7. {"luid", "win"} \subseteq DOMAIN f
    BY <1>1 DEF MachineType
  <1>8. e.luid = f.luid /\ e.win = machine.nics[f.luid].win
    BY <1>6, <1>7
  <1> QED
    BY <1>6, <1>8

LEMMA KeptInterfaces ==
  ASSUME TypeOK, NEW outcome,
         NEW n \in Kept("interfaces", Result("interfaces", outcome))
  PROVE  n.luid \in DOMAIN machine.nics /\ n.win = machine.nics[n.luid].win
  <1>1. Default("interfaces") = {}
    BY DEF Default, Lists, Counts
  <1>2. Returns("interfaces", machine, outcome = "fine")
            = get_interfaces(machine, outcome = "fine")
    BY DEF Returns
  <1>3. n \in get_interfaces(machine, outcome = "fine")
    BY <1>1, <1>2 DEF Kept, Result
  <1>4. PICK l \in DOMAIN machine.nics :
            n = [luid |-> l, win |-> machine.nics[l].win,
                 speed |-> machine.nics[l].speed]
    BY <1>3 DEF get_interfaces
  <1> QED
    BY <1>4

LEMMA UnreadLists ==
  ASSUME NEW name \in Lists PROVE Unread[name] = {}
  <1>1. name \in Names
    BY NamesHave DEF Lists
  <1>2. Default(name) = {}
    BY DEF Default, Lists, Counts
  <1> QED
    BY <1>1, <1>2 DEF Unread

LEMMA TraceInit == Init => TraceInv
  <1> SUFFICES ASSUME Init PROVE TraceInv
    OBVIOUS
  <1>1. got = Unread /\ at = 0 /\ served = None
    BY DEF Init
  <1>2. \A name \in Lists : Unread[name] = {}
    BY UnreadLists
  <1>3. Traced(got)
    BY <1>1, <1>2 DEF Traced, Lists
  <1> QED
    BY <1>1, <1>3 DEF TraceInv

\* A step that changes neither what is read nor what is served.
LEMMA TraceSame ==
  ASSUME TraceInv, UNCHANGED <<machine, got, moved>>,
         at' = 0 \/ (at > 0 /\ at' # 1), served' \in {served, None}
  PROVE  TraceInv'
  <1>1. Passed(machine)' <=> Passed(machine)
    BY DEF Passed
  <1> QED
    BY <1>1 DEF TraceInv

LEMMA TraceStep == TypeOK /\ BuildInv /\ TraceInv /\ [Next]_vars => TraceInv'
  <1> SUFFICES ASSUME TypeOK, BuildInv, TraceInv, [Next]_vars PROVE TraceInv'
    OBVIOUS
  <1>n. Len(BuildOrder) = 23 /\ at \in 0..24 /\ machine \in Machines
    BY OrderLength DEF TypeOK
  <1>1. CASE StartBuild
    <2>1. at' = 1 /\ got' = Unread /\ UNCHANGED <<machine, served>>
      BY <1>1 DEF StartBuild
    <2>2. \A name \in Lists : got'[name] = {}
      BY <2>1, UnreadLists
    <2>3. ~Passed(machine)'
      BY <2>2 DEF Passed, Lists
    <2>4. Traced(got')
      BY <2>2 DEF Traced, Lists
    <2>5. served' # None =>
              GotInv(served'.got) /\ (~served'.moved => Traced(served'.got))
      BY <2>1 DEF TraceInv
    <2> QED
      BY <2>2, <2>3, <2>4, <2>5 DEF TraceInv
  <1>2. CASE SpeedUnencodable
    BY <1>2, TraceSame DEF SpeedUnencodable, BuildFails, build
  <1>3. ASSUME NEW name \in Names, Skip(name) PROVE TraceInv'
    <2>1. at' = at + 1 /\ at > 0 /\ UNCHANGED <<machine, got, moved, served>>
      BY <1>3 DEF Skip, Running, build
    <2>2. at' # 1
      BY <1>n, <2>1
    <2> QED
      BY <2>1, <2>2, TraceSame
  <1>4. ASSUME NEW name \in Names, Collect(name) PROVE TraceInv'
    <2>1. /\ at' = at + 1 /\ at > 0 /\ at <= 23 /\ BuildOrder[at] = name
          /\ UNCHANGED <<machine, moved, served>>
      BY <1>4, <1>n DEF Collect, Running
    <2>2. PICK outcome : _collector(name, Result(name, outcome))
      BY <1>4 DEF Collect
    <2>3. /\ got'[name] = Kept(name, Result(name, outcome))
          /\ \A k \in Names : k # name => got'[k] = got[k]
      BY <2>2, CollectorGot
    <2>4. at' # 1 /\ at' > 0
      BY <1>n, <2>1
    <2>5. served' # None =>
              GotInv(served'.got) /\ (~served'.moved => Traced(served'.got))
      BY <2>1 DEF TraceInv
    <2>6. {"interfaces", "ip_addresses", "ip_neighbors", "routes"} \subseteq Names
      BY NamesHave
    <2>7. ASSUME ~moved PROVE ~Passed(machine)' /\ Traced(got')
      <3>1. CASE name = "interfaces"
        <4>1. at = 1
          BY <1>n, <2>1, <3>1, OrderOnce, OrderPlaces
        <4>2. Traced(got')
          BY <2>3, <2>6, <3>1, <4>1 DEF TraceInv, Traced, Lists
        <4>3. \A n \in got'["interfaces"] :
                  n.luid \in DOMAIN machine.nics /\ n.win = machine.nics[n.luid].win
          BY <2>3, <3>1, KeptInterfaces
        <4>4. \A l, k \in DOMAIN machine.nics :
                  machine.nics[k].win = machine.nics[l].win => k = l
          BY <1>n, MachinesAssumption DEF MachineType
        <4>5. ~Passed(machine)'
          BY <2>1, <4>3, <4>4 DEF Passed
        <4> QED
          BY <4>2, <4>5
      <3>2. CASE name # "interfaces"
        <4>1. got'["interfaces"] = got["interfaces"]
          BY <2>3, <2>6, <3>2
        <4>2. ~Passed(machine)
          BY <2>1, <2>7 DEF TraceInv
        <4>3. ~Passed(machine)'
          BY <2>1, <4>1, <4>2 DEF Passed
        <4>4. ASSUME NEW k \in {"ip_addresses", "ip_neighbors", "routes"},
                     NEW e \in got'[k], NEW n \in got'["interfaces"], e.win = n.win
              PROVE  e.luid = n.luid
          <5>1. CASE k = name
            <6>1. e.luid \in DOMAIN machine.nics /\ e.win = machine.nics[e.luid].win
              BY <2>3, <4>4, <5>1, KeptEntries
            <6> QED
              BY <4>1, <4>2, <4>4, <6>1 DEF Passed
          <5>2. CASE k # name
            <6>1. e \in got[k] /\ n \in got["interfaces"]
              BY <2>3, <2>6, <4>1, <4>4, <5>2
            <6> QED
              BY <2>7, <4>4, <6>1 DEF TraceInv, Traced
          <5> QED
            BY <5>1, <5>2
        <4>5. Traced(got')
          BY <4>4 DEF Traced
        <4> QED
          BY <4>3, <4>5
      <3> QED
        BY <3>1, <3>2
    <2> QED
      BY <2>1, <2>4, <2>5, <2>7 DEF TraceInv
  <1>5. CASE CollectInventory
    <2>1. /\ at' = at + 1 /\ at > 0
          /\ UNCHANGED <<machine, moved, served>>
      BY <1>5 DEF CollectInventory, Running
    <2>2. PICK result : _collector("inventory", result)
      BY <1>5 DEF CollectInventory
    <2>3. \A k \in Lists : got'[k] = got[k]
      BY <2>2, NamesHave, CollectorGot DEF Lists
    <2>4. at' # 1
      BY <1>n, <2>1
    <2>5. Passed(machine)' <=> Passed(machine)
      BY <2>1, <2>3 DEF Passed, Lists
    <2>6. Traced(got') <=> Traced(got)
      BY <2>3 DEF Traced, Lists
    <2> QED
      BY <2>1, <2>4, <2>5, <2>6 DEF TraceInv
  <1>6. CASE MaximaUnreadable
    BY <1>6, TraceSame DEF MaximaUnreadable, BuildFails, build
  <1>7. CASE Observe
    <2>1. at = 21 /\ at' = at /\ UNCHANGED <<machine, got, moved, served>>
      BY <1>7, <1>n, OrderOnce, OrderPlaces DEF Observe, Running
    <2> QED
      BY <2>1, TraceSame
  <1>8. CASE AllObserved
    <2>1. at' = at + 1 /\ at > 0 /\ UNCHANGED <<machine, got, moved, served>>
      BY <1>8 DEF AllObserved, Running, build
    <2>2. at' # 1
      BY <1>n, <2>1
    <2> QED
      BY <2>1, <2>2, TraceSame
  <1>9. CASE Guard
    BY <1>9, TraceSame DEF Guard, BuildFails, build
  <1>10. CASE Publish
    <2>1. /\ at' = 0 /\ UNCHANGED <<machine, got, moved>>
          /\ served'.got = got /\ served'.moved = moved
      BY <1>10 DEF Publish, build
    <2>2. GotInv(got)
      BY GoodGot DEF TypeOK, BuildInv
    <2> QED
      BY <2>1, <2>2 DEF TraceInv
  <1>11. CASE Change
    <2>1. /\ moved' = (moved \/ (at > 0 /\ Passed(machine')))
          /\ UNCHANGED <<at, got, served>>
      BY <1>11 DEF Change
    <2>2. at' > 0 /\ ~moved' => ~Passed(machine)'
      BY <2>1 DEF Passed
    <2>3. ~moved' => ~moved
      BY <2>1
    <2> QED
      BY <2>1, <2>2, <2>3 DEF TraceInv
  <1>12. CASE Damage
    <2>1. UNCHANGED <<machine, at, got, moved, served>>
      BY <1>12 DEF Damage, build
    <2>2. Passed(machine)' <=> Passed(machine)
      BY <2>1 DEF Passed
    <2> QED
      BY <2>1, <2>2 DEF TraceInv
  <1>13. CASE Crash
    BY <1>13, TraceSame DEF Crash, build
  <1>14. CASE UNCHANGED vars
    <2>1. UNCHANGED <<machine, at, got, moved, served>>
      BY <1>14 DEF vars, build
    <2>2. Passed(machine)' <=> Passed(machine)
      BY <2>1 DEF Passed
    <2> QED
      BY <2>1, <2>2 DEF TraceInv
  <1>15. CASE MaximaNotRead
    <2>1. at = 21 /\ at' = at /\ UNCHANGED <<machine, got, moved, served>>
      BY <1>15, <1>n, OrderOnce, OrderPlaces DEF MaximaNotRead, Running, build
    <2> QED
      BY <2>1, TraceSame
  <1> QED
    BY <1>1, <1>2, <1>3, <1>4, <1>5, <1>6, <1>7, <1>8, <1>9, <1>10, <1>11,
       <1>12, <1>13, <1>14, <1>15 DEF Next

LEMMA TraceReached == Spec => []TraceInv
  <1>1. Init => TraceInv
    BY TraceInit
  <1>2. TypeOK /\ BuildInv /\ TraceInv /\ [Next]_vars => TraceInv'
    BY TraceStep
  <1> QED
    BY <1>1, <1>2, BuildReached, PTL DEF Spec

\* In every snapshot, whatever the machine did while it was built and whichever
\* collectors failed, a column that names a row of another table names one that
\* is there, and an entry is put on the interface it was read from.
THEOREM RowsPointRightAlways == Spec => []RowsPointRight
  <1>1. TraceInv => RowsPointRight
    <2> SUFFICES ASSUME TraceInv, at = 0, served # None,
                        NEW r \in Rows(served.got)
                 PROVE  /\ r.ref = None \/ r.ref \in Keys(served.got)
                        /\ r.of[1] = "entry" /\ ~served.moved =>
                               r.ref = Ref("ifTable", <<IfIndex[r.of[2].luid]>>)
      BY DEF RowsPointRight, Keys
    <2>1. GotInv(served.got) /\ (~served.moved => Traced(served.got))
      BY DEF TraceInv
    <2>2. /\ r.ref = None \/ r.ref \in Keys(served.got)
          /\ Traced(served.got) => EntryRight(r)
      BY <2>1, RowPoints
    <2> QED
      BY <2>1, <2>2 DEF EntryRight
  <1> QED
    BY <1>1, TraceReached, PTL

-----------------------------------------------------------------------------
(* The highest temperatures *)

\* A table of maxima, and one that has everything another one has.
MaxTable(f) == f \in UNION {[D -> Int] : D \in SUBSET (0..15)}

Covers(f, h) == \A d \in DOMAIN h : d \in DOMAIN f /\ f[d] >= h[d]

\* What was observed of a disk of this build: no less than its temperature and
\* than what was published of it, and the process knows of it.
ObservedWell(g, obs, known, pk, d) ==
    LET t == TempOf(Disks(g)[d])
    IN /\ Valid(t) => obs[d] # None /\ obs[d] >= t
       /\ obs[d] # None => /\ obs[d] \in Int /\ known # None
                           /\ d \in DOMAIN known /\ known[d] >= obs[d]
       /\ d \in DOMAIN pk => obs[d] # None /\ obs[d] >= pk[d]

\* What the file and the process know covers what was published, unless the
\* file lost it.
KnownWell ==
    /\ maxfile = Misshapen \/ MaxTable(maxfile)
    /\ MaxTable(peak)
    /\ cache # None => MaxTable(cache) /\ Covers(cache, peak)
    /\ ~unsaved => /\ MaxTable(maxfile) /\ Covers(maxfile, peak)
                   /\ cache # None => Covers(maxfile, cache)

ObservingWell ==
    at > 0 =>
        /\ at < 21 => DOMAIN observed = {}
        /\ at > 21 => Answering(got) \subseteq DOMAIN observed
        /\ \A d \in DOMAIN observed : ObservedWell(got, observed, cache, peak, d)

PublishedWell ==
    served # None =>
        \A d \in DOMAIN served.max_temp :
            LET max_temp == served.max_temp[d]
                t == TempOf(Disks(served.got)[d])
            IN /\ Valid(t) => max_temp # None /\ max_temp >= t
               /\ d \in DOMAIN peak => max_temp # None /\ max_temp >= peak[d]

KeptInv == KnownWell /\ ObservingWell /\ PublishedWell

LEMMA TableParts ==
  ASSUME NEW f, MaxTable(f)
  PROVE  /\ f # None /\ DOMAIN f \subseteq 0..15
         /\ \A d \in DOMAIN f : f[d] \in Int
  <1>1. PICK D \in SUBSET (0..15) : f \in [D -> Int]
    BY DEF MaxTable
  <1>2. None \notin [D -> Int]
    BY NoneAssumption
  <1> QED
    BY <1>1, <1>2

LEMMA TableEmpty == MaxTable(Nothing)
  <1>1. Nothing \in [{} -> Int]
    BY DEF Nothing
  <1> QED
    BY <1>1 DEF MaxTable

LEMMA PutTable ==
  ASSUME NEW f, MaxTable(f), NEW d \in 0..15, NEW t \in Int
  PROVE  /\ MaxTable(Put(f, d, t))
         /\ DOMAIN Put(f, d, t) = {d} \cup DOMAIN f /\ Put(f, d, t)[d] = t
         /\ \A e \in DOMAIN f : e # d => Put(f, d, t)[e] = f[e]
  <1> DEFINE h == Put(f, d, t)
  <1>1. /\ DOMAIN h = {d} \cup DOMAIN f /\ h[d] = t
        /\ \A e \in DOMAIN f : e # d => h[e] = f[e]
        /\ h = [e \in DOMAIN h |-> h[e]]
    BY DEF Put
  <1>2. DOMAIN f \subseteq 0..15 /\ \A e \in DOMAIN f : f[e] \in Int
    BY TableParts
  <1> HIDE DEF h
  <1>3. h \in [DOMAIN h -> Int]
    BY <1>1, <1>2
  <1>4. DOMAIN h \in SUBSET (0..15)
    BY <1>1, <1>2
  <1>5. MaxTable(h)
    BY <1>3, <1>4 DEF MaxTable
  <1> QED
    BY <1>1, <1>5 DEF h

LEMMA CoversSelf ==
  ASSUME NEW f, MaxTable(f) PROVE Covers(f, f)
  BY TableParts DEF Covers

LEMMA CoversThrough ==
  ASSUME NEW f, NEW h, NEW k, MaxTable(f), MaxTable(h), MaxTable(k),
         Covers(f, h), Covers(h, k)
  PROVE  Covers(f, k)
  <1> SUFFICES ASSUME NEW d \in DOMAIN k PROVE d \in DOMAIN f /\ f[d] >= k[d]
    BY DEF Covers
  <1>1. d \in DOMAIN h /\ h[d] >= k[d]
    BY DEF Covers
  <1>2. d \in DOMAIN f /\ f[d] >= h[d]
    BY <1>1 DEF Covers
  <1>3. f[d] \in Int /\ h[d] \in Int /\ k[d] \in Int
    BY <1>1, <1>2, TableParts
  <1> QED
    BY <1>1, <1>2, <1>3

\* The disks of a build are among the sixteen, their temperatures are numbers.
LEMMA DiskParts ==
  ASSUME TypeOK, BuildInv, NEW d \in Answering(got)
  PROVE  d \in 0..15 /\ TempOf(Disks(got)[d]) \in Int \cup {None}
  <1>1. GotInv(got)
    BY GoodGot DEF TypeOK, BuildInv
  <1>2. d \in DOMAIN Disks(got)
    BY DEF Answering
  <1>3. Good("inventory", got.inventory)
    BY NamesHave DEF BuildInv
  <1>4. got.inventory # None
    BY <1>2 DEF Disks, Nothing
  <1>5. TempOf(got.inventory.disks[d]) \in Int \cup {None}
    BY <1>2, <1>3, <1>4 DEF Good, Disks
  <1> QED
    BY <1>1, <1>2, <1>4, <1>5 DEF GotInv, Disks

\* A step of a build that observes nothing.
LEMMA KeptAlong ==
  ASSUME KeptInv, at > 0, at \in 0..24, at' = at + 1,
         at # 21 \/ Answering(got) \subseteq DOMAIN observed,
         UNCHANGED <<cache, maxfile, unsaved, peak, served, observed>>,
         at < 21 \/ Disks(got') = Disks(got)
  PROVE  KeptInv'
  <1>1. KnownWell' /\ PublishedWell'
    BY DEF KeptInv, KnownWell, PublishedWell
  <1>2. CASE at < 21
    <2>1. DOMAIN observed = {}
      BY <1>2 DEF KeptInv, ObservingWell
    <2> QED
      BY <1>1, <1>2, <2>1 DEF KeptInv, ObservingWell
  <1>3. CASE at >= 21
    <2>1. Disks(got') = Disks(got) /\ at' > 21
      BY <1>3
    <2>2. Answering(got') = Answering(got)
      BY <2>1 DEF Answering
    <2>3. Answering(got') \subseteq DOMAIN observed
      BY <1>3, <2>2 DEF KeptInv, ObservingWell
    <2>4. \A d \in DOMAIN observed : ObservedWell(got, observed, cache, peak, d)
      BY DEF KeptInv, ObservingWell
    <2>5. \A d \in DOMAIN observed : ObservedWell(got', observed, cache, peak, d)
      BY <2>1, <2>4 DEF ObservedWell
    <2> QED
      BY <1>1, <2>1, <2>3, <2>5 DEF KeptInv, ObservingWell
  <1> QED
    BY <1>2, <1>3

\* A step that ends the build, if there is one.
LEMMA KeptEnds ==
  ASSUME KeptInv, at' = 0, UNCHANGED <<maxfile, unsaved, peak>>,
         cache' \in {cache, None}, served' \in {served, None}
  PROVE  KeptInv'
  <1>1. KnownWell'
    BY DEF KeptInv, KnownWell
  <1>2. PublishedWell'
    BY DEF KeptInv, PublishedWell
  <1> QED
    BY <1>1, <1>2 DEF KeptInv, ObservingWell

LEMMA KeptFails ==
  ASSUME KeptInv, NEW why, BuildFails(why) PROVE KeptInv'
  BY KeptEnds DEF BuildFails, Forget, process

LEMMA KeptInit == Init => KeptInv
  <1> SUFFICES ASSUME Init PROVE KeptInv
    OBVIOUS
  <1>1. /\ at = 0 /\ cache = None /\ maxfile = Nothing /\ peak = Nothing
        /\ served = None
    BY DEF Init
  <1>2. DOMAIN Nothing = {}
    BY DEF Nothing
  <1>3. KnownWell
    BY <1>1, <1>2, TableEmpty DEF KnownWell, Covers
  <1> QED
    BY <1>1, <1>3 DEF KeptInv, ObservingWell, PublishedWell

LEMMA KeptObserve ==
  ASSUME TypeOK, BuildInv, KeptInv, Observe
  PROVE  KeptInv'
  <1> DEFINE d == Min(Answering(got) \ DOMAIN observed)
             t == TempOf(Disks(got)[d])
             last == IF d \in DOMAIN Known THEN Known[d] ELSE None
  <1>1. /\ at = 21 /\ UNCHANGED <<at, got, served>>
        /\ peak' = IF cache = None /\ unsaved THEN Nothing ELSE peak
        /\ ~(cache = None /\ maxfile = Misshapen)
        /\ \/ /\ Rises(last, t)
              /\ observed' = Put(observed, d, t) /\ cache' = Put(Known, d, t)
              /\ \/ maxfile' = Put(Known, d, t) /\ unsaved' = FALSE
                 \/ unsaved' = TRUE /\ UNCHANGED maxfile
           \/ /\ ~Rises(last, t)
              /\ observed' = Put(observed, d, last) /\ cache' = Known
              /\ unsaved' = (unsaved /\ cache # None) /\ UNCHANGED maxfile
    <2>1. at = 21
      BY OrderLength, OrderOnce, OrderPlaces DEF Observe, Running, TypeOK
    <2> QED
      BY <2>1 DEF Observe, Maxima
  <1>2. d \in Answering(got) /\ d \notin DOMAIN observed
    <2>1. Answering(got) \ DOMAIN observed # {}
      BY DEF Observe
    <2>2. Answering(got) \ DOMAIN observed \in SUBSET Nat
      BY DiskParts
    <2> QED
      BY <2>1, <2>2, MinIsLeast
  <1>3. d \in 0..15 /\ t \in Int \cup {None}
    BY <1>2, DiskParts
  <1> DEFINE K == Known
  <1>4. MaxTable(K) /\ (cache # None => K = cache) /\ (cache = None => K = maxfile)
    BY <1>1 DEF KeptInv, KnownWell, Known
  <1>5. /\ K # None /\ DOMAIN K \subseteq 0..15
        /\ \A e \in DOMAIN K : K[e] \in Int
    BY <1>4, TableParts
  <1>6. last \in Int \cup {None} /\ (last # None => d \in DOMAIN K /\ last = K[d])
    BY <1>5
  <1>7. peak' = peak \/ (peak' = Nothing /\ cache = None /\ unsaved)
    BY <1>1
  <1>8. MaxTable(peak') /\ Covers(K, peak')
    <2>1. MaxTable(peak)
      BY DEF KeptInv, KnownWell
    <2>2. DOMAIN Nothing = {}
      BY DEF Nothing
    <2>3. Covers(K, Nothing)
      BY <2>2 DEF Covers
    <2>4. ASSUME peak' = peak PROVE Covers(K, peak)
      <3>1. CASE cache # None
        BY <1>4, <3>1 DEF KeptInv, KnownWell
      <3>2. CASE cache = None /\ ~unsaved
        BY <1>4, <3>2 DEF KeptInv, KnownWell
      <3>3. CASE cache = None /\ unsaved
        <4>1. peak' = Nothing
          BY <1>1, <3>3
        <4> QED
          BY <2>3, <2>4, <4>1
      <3> QED
        BY <3>1, <3>2, <3>3
    <2> QED
      BY <1>7, <2>1, <2>3, <2>4, TableEmpty
  <1>9. \A e \in DOMAIN peak' : peak' = peak /\ e \in DOMAIN K /\ K[e] >= peak'[e]
    <2>1. DOMAIN Nothing = {}
      BY DEF Nothing
    <2> QED
      BY <1>7, <1>8, <2>1 DEF Covers
  <1>10. \A e \in DOMAIN peak' : peak'[e] \in Int
    BY <1>8, TableParts
  <1>11. Rises(last, t) => t \in Int /\ (last # None => t > last)
    BY <1>3 DEF Rises, Valid
  <1>12. ~Rises(last, t) => (Valid(t) => last # None /\ last >= t)
    BY <1>3, <1>6 DEF Rises, Valid
  <1> HIDE DEF d, t, last, K
  <1>r. ASSUME Rises(last, t)
        PROVE  /\ MaxTable(cache') /\ DOMAIN cache' = {d} \cup DOMAIN K
               /\ cache'[d] = t /\ \A e \in DOMAIN K : e # d => cache'[e] = K[e]
    <2>1. cache' = Put(K, d, t) /\ t \in Int
      BY <1>1, <1>11, <1>r DEF K
    <2> QED
      BY <1>3, <1>4, <2>1, PutTable
  <1>13. MaxTable(cache') /\ Covers(cache', K)
    <2>1. CASE Rises(last, t)
      <3>1. t \in Int
        BY <1>11, <2>1
      <3>2. /\ MaxTable(cache') /\ DOMAIN cache' = {d} \cup DOMAIN K
            /\ cache'[d] = t /\ \A e \in DOMAIN K : e # d => cache'[e] = K[e]
        BY <1>r, <2>1
      <3>3. d \in DOMAIN K => t > K[d]
        BY <1>5, <1>11, <2>1, NoneAssumption DEF last, K
      <3>4. \A e \in DOMAIN K : cache'[e] >= K[e]
        BY <1>5, <3>1, <3>2, <3>3
      <3> QED
        BY <3>2, <3>4 DEF Covers
    <2>2. CASE ~Rises(last, t)
      <3>1. cache' = K
        BY <1>1, <2>2 DEF K
      <3> QED
        BY <1>4, <3>1, CoversSelf
    <2> QED
      BY <2>1, <2>2
  <1>14. cache' # None
    BY <1>13, TableParts
  <1>15. Covers(cache', peak')
    BY <1>4, <1>8, <1>13, CoversThrough
  <1>16. KnownWell'
    <2>1. CASE Rises(last, t) /\ maxfile' = Put(Known, d, t) /\ unsaved' = FALSE
      <3>1. maxfile' = cache'
        BY <1>1, <2>1
      <3> QED
        BY <1>8, <1>13, <1>15, <3>1, CoversSelf DEF KnownWell
    <2>2. CASE unsaved' = TRUE /\ UNCHANGED maxfile
      BY <1>8, <1>13, <1>15, <2>2 DEF KnownWell, KeptInv
    <2>3. CASE /\ ~Rises(last, t) /\ cache' = Known /\ UNCHANGED maxfile
               /\ unsaved' = (unsaved /\ cache # None)
      <3>1. ASSUME ~unsaved' PROVE MaxTable(maxfile) /\ Covers(maxfile, K)
        <4>1. CASE cache = None
          BY <1>4, <4>1, CoversSelf
        <4>2. CASE cache # None
          BY <1>4, <2>3, <3>1, <4>2 DEF KeptInv, KnownWell
        <4> QED
          BY <4>1, <4>2
      <3>2. ASSUME ~unsaved' PROVE Covers(maxfile, peak')
        <4>1. CASE cache = None
          BY <1>4, <1>8, <4>1
        <4>2. CASE cache # None
          <5>1. peak' = peak /\ ~unsaved
            BY <1>7, <2>3, <3>2, <4>2
          <5> QED
            BY <5>1 DEF KeptInv, KnownWell
        <4> QED
          BY <4>1, <4>2
      <3>3. cache' = K
        BY <2>3 DEF K
      <3> QED
        BY <1>8, <1>13, <1>15, <2>3, <3>1, <3>2, <3>3 DEF KnownWell, KeptInv
    <2> QED
      BY <1>1, <2>1, <2>2, <2>3
  <1>17. ASSUME NEW e \in DOMAIN observed, e # d
         PROVE  /\ e \in DOMAIN observed' /\ observed'[e] = observed[e]
                /\ ObservedWell(got, observed', cache', peak', e)
    <2>1. e \in DOMAIN observed' /\ observed'[e] = observed[e]
      BY <1>1, <1>17 DEF Put
    <2>2. ObservedWell(got, observed, cache, peak, e)
      BY <1>1, <1>17 DEF KeptInv, ObservingWell
    <2>3. ASSUME observed[e] # None
          PROVE  /\ observed[e] \in Int /\ e \in DOMAIN cache'
                 /\ cache'[e] >= observed[e]
      <3>1. /\ observed[e] \in Int /\ cache # None /\ e \in DOMAIN cache
            /\ cache[e] >= observed[e]
        BY <2>2, <2>3 DEF ObservedWell
      <3>2. e \in DOMAIN K /\ K[e] >= observed[e]
        BY <1>4, <3>1
      <3>3. e \in DOMAIN cache' /\ cache'[e] >= K[e]
        BY <1>13, <3>2 DEF Covers
      <3>4. cache'[e] \in Int /\ K[e] \in Int
        BY <1>5, <1>13, <3>2, <3>3, TableParts
      <3> QED
        BY <3>1, <3>2, <3>3, <3>4
    <2>4. e \in DOMAIN peak' => observed[e] # None /\ observed[e] >= peak'[e]
      BY <1>9, <2>2 DEF ObservedWell
    <2> QED
      BY <1>14, <2>1, <2>2, <2>3, <2>4 DEF ObservedWell
  <1>18. ObservedWell(got, observed', cache', peak', d)
    <2>1. CASE Rises(last, t)
      <3>1. observed'[d] = t /\ t \in Int
        BY <1>1, <1>11, <2>1 DEF Put
      <3>2. d \in DOMAIN cache' /\ cache'[d] = t
        BY <1>r, <2>1
      <3>3. d \in DOMAIN peak' => t >= peak'[d]
        <4> SUFFICES ASSUME d \in DOMAIN peak' PROVE t >= peak'[d]
          OBVIOUS
        <4>1. d \in DOMAIN K /\ K[d] >= peak'[d]
          BY <1>9
        <4>2. last = K[d] /\ K[d] \in Int /\ peak'[d] \in Int
          BY <1>5, <1>10, <4>1 DEF last, K
        <4>3. t > K[d]
          BY <1>11, <2>1, <4>2, NoneAssumption
        <4> QED
          BY <3>1, <4>1, <4>2, <4>3
      <3>4. t # None
        BY <3>1, NoneAssumption
      <3> QED
        BY <1>14, <3>1, <3>2, <3>3, <3>4 DEF ObservedWell, t
    <2>2. CASE ~Rises(last, t)
      <3>1. observed'[d] = last /\ cache' = K
        BY <1>1, <2>2 DEF Put, K
      <3>2. last # None => /\ last \in Int /\ d \in DOMAIN K /\ K[d] >= last
        BY <1>6
      <3>3. d \in DOMAIN peak' => last # None /\ last >= peak'[d]
        BY <1>5, <1>9, <1>10, NoneAssumption DEF last, K
      <3> QED
        BY <1>12, <1>14, <2>2, <3>1, <3>2, <3>3 DEF ObservedWell, t
    <2> QED
      BY <2>1, <2>2
  <1>19. DOMAIN observed' = {d} \cup DOMAIN observed
    BY <1>1 DEF Put
  <1>20. \A e \in DOMAIN observed' : ObservedWell(got, observed', cache', peak', e)
    BY <1>17, <1>18, <1>19
  <1>21. ObservingWell'
    BY <1>1, <1>20 DEF ObservingWell
  <1>22. PublishedWell'
    <2>1. served' = served
      BY <1>1
    <2> QED
      BY <1>9, <2>1 DEF KeptInv, PublishedWell
  <1> QED
    BY <1>16, <1>21, <1>22 DEF KeptInv

\* The process starts from nothing, and so does the promise.
LEMMA KeptNotRead ==
  ASSUME TypeOK, KeptInv, MaximaNotRead
  PROVE  KeptInv'
  <1>1. /\ cache = None /\ cache' = Nothing /\ peak' = Nothing
        /\ UNCHANGED <<at, got, observed, maxfile, unsaved, served>>
    BY DEF MaximaNotRead, build
  <1>2. DOMAIN Nothing = {} /\ MaxTable(Nothing)
    BY TableEmpty DEF Nothing
  <1>3. \A f : Covers(f, Nothing)
    BY <1>2 DEF Covers
  <1>4. KnownWell'
    BY <1>1, <1>2, <1>3 DEF KeptInv, KnownWell
  <1>5. ASSUME NEW d, ObservedWell(got, observed, cache, peak, d)
        PROVE  ObservedWell(got, observed, cache', peak', d)
    BY <1>1, <1>2, <1>5 DEF ObservedWell
  <1>6. ObservingWell'
    BY <1>1, <1>5 DEF KeptInv, ObservingWell
  <1>7. PublishedWell'
    BY <1>1, <1>2 DEF KeptInv, PublishedWell
  <1> QED
    BY <1>4, <1>6, <1>7 DEF KeptInv

\* What is published becomes the peak.
LEMMA PeakPublished ==
  ASSUME TypeOK, BuildInv, KeptInv, Publish
  PROVE  /\ SmartDisks(got) \subseteq DOMAIN observed
         /\ MaxTable(peak')
         /\ \A d \in SmartDisks(got) :
                /\ ObservedWell(got, observed, cache, peak, d)
                /\ observed[d] # None => d \in DOMAIN peak' /\ peak'[d] = observed[d]
                /\ d \in DOMAIN peak' => observed[d] # None
         /\ \A d \in DOMAIN peak' :
                \/ d \in SmartDisks(got) /\ observed[d] # None
                \/ d \in DOMAIN peak /\ peak'[d] = peak[d]
  <1> DEFINE S == {d \in SmartDisks(got) : observed[d] # None}
             F == [d \in S |-> Higher(d, observed[d])]
  <1>1. at > 23 /\ peak' = F ++ peak
    BY OrderLength DEF Publish
  <1>2. SmartDisks(got) \subseteq Answering(got)
    BY DEF SmartDisks
  <1>3. /\ Answering(got) \subseteq DOMAIN observed
        /\ \A d \in DOMAIN observed : ObservedWell(got, observed, cache, peak, d)
    <2>1. at > 0 /\ at > 21
      BY <1>1 DEF TypeOK
    <2> QED
      BY <2>1 DEF KeptInv, ObservingWell
  <1>4. DOMAIN peak \subseteq 0..15 /\ \A d \in DOMAIN peak : peak[d] \in Int
    <2>1. MaxTable(peak)
      BY DEF KeptInv, KnownWell
    <2> QED
      BY <2>1, TableParts
  <1>5. ASSUME NEW d \in S PROVE F[d] = observed[d] /\ observed[d] \in Int
    <2>1. d \in DOMAIN observed /\ observed[d] # None
      BY <1>2, <1>3
    <2>2. observed[d] \in Int /\ (d \in DOMAIN peak => observed[d] >= peak[d])
      BY <1>3, <2>1 DEF ObservedWell
    <2>3. F[d] = Higher(d, observed[d])
      OBVIOUS
    <2>4. CASE d \in DOMAIN peak
      <3>1. Max({observed[d], peak[d]}) = observed[d]
        <4>1. peak[d] \in Int
          BY <1>4, <2>4
        <4>2. /\ Max({observed[d], peak[d]}) \in {observed[d], peak[d]}
              /\ Max({observed[d], peak[d]}) >= observed[d]
          BY <2>2, <4>1, MaxOfTwo
        <4> QED
          BY <2>2, <2>4, <4>1, <4>2
      <3> QED
        BY <2>2, <2>3, <2>4, <3>1 DEF Higher
    <2>5. CASE d \notin DOMAIN peak
      BY <2>2, <2>3, <2>5 DEF Higher
    <2> QED
      BY <2>4, <2>5
  <1>6. DOMAIN F = S
    OBVIOUS
  <1> HIDE DEF F
  <1>7. /\ DOMAIN peak' = S \cup DOMAIN peak
        /\ \A d \in S : peak'[d] = observed[d]
        /\ \A d \in DOMAIN peak \ S : peak'[d] = peak[d]
        /\ peak' = [d \in DOMAIN peak' |-> peak'[d]]
    BY <1>1, <1>5, <1>6 DEF ++
  <1>8. S \subseteq 0..15
    BY <1>2, DiskParts
  <1>9. peak' \in [DOMAIN peak' -> Int] /\ DOMAIN peak' \in SUBSET (0..15)
    BY <1>4, <1>5, <1>7, <1>8
  <1>10. MaxTable(peak')
    BY <1>9 DEF MaxTable
  <1>11. \A d \in SmartDisks(got) :
             d \in DOMAIN observed /\ ObservedWell(got, observed, cache, peak, d)
    BY <1>2, <1>3
  <1>12. ASSUME NEW d \in SmartDisks(got)
         PROVE  /\ observed[d] # None =>
                       d \in DOMAIN peak' /\ peak'[d] = observed[d]
                /\ d \in DOMAIN peak' => observed[d] # None
    <2>1. d \in DOMAIN peak => observed[d] # None
      BY <1>11 DEF ObservedWell
    <2> QED
      BY <1>7, <2>1
  <1> QED
    BY <1>7, <1>10, <1>11, <1>12

LEMMA KeptPublish ==
  ASSUME TypeOK, BuildInv, KeptInv, Publish
  PROVE  KeptInv'
  <1>1. /\ at' = 0 /\ served'.got = got
        /\ served'.max_temp = [d \in SmartDisks(got) |-> observed[d]]
        /\ UNCHANGED <<cache, maxfile, unsaved, observed>>
    BY DEF Publish, build, process
  <1>2. MaxTable(peak) /\ MaxTable(peak')
    BY PeakPublished DEF KeptInv, KnownWell
  <1>3. ASSUME NEW d \in DOMAIN peak', d \notin DOMAIN peak \/ peak'[d] # peak[d]
        PROVE  /\ d \in SmartDisks(got) /\ observed[d] # None
               /\ peak'[d] = observed[d] /\ observed[d] \in Int /\ cache # None
               /\ d \in DOMAIN cache /\ cache[d] >= observed[d]
    <2>1. d \in SmartDisks(got) /\ observed[d] # None
      BY <1>3, PeakPublished
    <2>2. peak'[d] = observed[d] /\ ObservedWell(got, observed, cache, peak, d)
      BY <2>1, PeakPublished
    <2> QED
      BY <2>1, <2>2 DEF ObservedWell
  <1>4. ASSUME cache # None PROVE Covers(cache, peak')
    <2>1. Covers(cache, peak)
      BY <1>4 DEF KeptInv, KnownWell
    <2>2. ASSUME NEW d \in DOMAIN peak'
          PROVE  d \in DOMAIN cache /\ cache[d] >= peak'[d]
      <3>1. CASE d \in DOMAIN peak /\ peak'[d] = peak[d]
        BY <2>1, <3>1 DEF Covers
      <3>2. CASE ~(d \in DOMAIN peak /\ peak'[d] = peak[d])
        BY <1>3, <2>2, <3>2
      <3> QED
        BY <3>1, <3>2
    <2> QED
      BY <2>2 DEF Covers
  <1>5. ASSUME ~unsaved PROVE Covers(maxfile, peak')
    <2>1. Covers(maxfile, peak) /\ (cache # None => Covers(maxfile, cache))
      BY <1>5 DEF KeptInv, KnownWell
    <2>2. ASSUME NEW d \in DOMAIN peak'
          PROVE  d \in DOMAIN maxfile /\ maxfile[d] >= peak'[d]
      <3>1. CASE d \in DOMAIN peak /\ peak'[d] = peak[d]
        BY <2>1, <3>1 DEF Covers
      <3>2. CASE ~(d \in DOMAIN peak /\ peak'[d] = peak[d])
        <4>1. cache # None
          BY <1>3, <2>2, <3>2
        <4>2. MaxTable(maxfile)
          BY <1>5 DEF KeptInv, KnownWell
        <4>3. d \in DOMAIN cache /\ cache[d] >= peak'[d]
          BY <1>4, <2>2, <4>1 DEF Covers
        <4>4. d \in DOMAIN maxfile /\ maxfile[d] >= cache[d]
          BY <2>1, <4>1, <4>3 DEF Covers
        <4>5. maxfile[d] \in Int /\ cache[d] \in Int /\ peak'[d] \in Int
          BY <1>2, <2>2, <4>1, <4>2, <4>3, <4>4, TableParts DEF KeptInv, KnownWell
        <4> QED
          BY <4>3, <4>4, <4>5
      <3> QED
        BY <3>1, <3>2
    <2> QED
      BY <2>2 DEF Covers

  <1>6. KnownWell'
    BY <1>1, <1>2, <1>4, <1>5 DEF KeptInv, KnownWell
  <1>7. PublishedWell'
    <2> SUFFICES ASSUME NEW d \in SmartDisks(got)
                 PROVE  LET t == TempOf(Disks(got)[d])
                        IN /\ Valid(t) => observed[d] # None /\ observed[d] >= t
                           /\ d \in DOMAIN peak' =>
                                  observed[d] # None /\ observed[d] >= peak'[d]
      BY <1>1 DEF PublishedWell
    <2>1. ObservedWell(got, observed, cache, peak, d)
      BY PeakPublished
    <2>2. d \in DOMAIN peak' => observed[d] # None /\ peak'[d] = observed[d]
      BY PeakPublished
    <2>3. observed[d] # None => observed[d] \in Int
      BY <2>1 DEF ObservedWell
    <2> QED
      BY <2>1, <2>2, <2>3 DEF ObservedWell
  <1> QED
    BY <1>1, <1>6, <1>7 DEF KeptInv, ObservingWell

LEMMA KeptStep == TypeOK /\ BuildInv /\ KeptInv /\ [Next]_vars => KeptInv'
  <1> SUFFICES ASSUME TypeOK, BuildInv, KeptInv, [Next]_vars PROVE KeptInv'
    OBVIOUS
  <1>n. Len(BuildOrder) = 23 /\ at \in 0..24
    BY OrderLength DEF TypeOK
  <1>1. CASE StartBuild
    <2>1. /\ at' = 1 /\ observed' = Nothing
          /\ UNCHANGED <<cache, maxfile, unsaved, peak, served>>
      BY <1>1 DEF StartBuild, process
    <2>2. DOMAIN Nothing = {}
      BY DEF Nothing
    <2>3. KnownWell' /\ PublishedWell'
      BY <2>1 DEF KeptInv, KnownWell, PublishedWell
    <2> QED
      BY <2>1, <2>2, <2>3 DEF KeptInv, ObservingWell
  <1>2. CASE SpeedUnencodable
    BY <1>2, KeptFails DEF SpeedUnencodable
  <1>3. ASSUME NEW name \in Names, Skip(name) PROVE KeptInv'
    <2>1. /\ at' = at + 1 /\ at > 0 /\ BuildOrder[at] = name
          /\ UNCHANGED <<got, cache, maxfile, unsaved, peak, served, observed>>
      BY <1>3 DEF Skip, Running, build, process
    <2>2. at # 21
      BY <2>1, OrderPlaces DEF Names
    <2> QED
      BY <1>n, <2>1, <2>2, KeptAlong
  <1>4. ASSUME NEW name \in Names, Collect(name) PROVE KeptInv'
    <2>1. /\ at' = at + 1 /\ at > 0 /\ BuildOrder[at] = name
          /\ UNCHANGED <<cache, maxfile, unsaved, peak, served, observed>>
      BY <1>4 DEF Collect, Running
    <2>2. at # 21 /\ name # "inventory"
      BY <1>4, <2>1, OrderPlaces DEF Collect
    <2>3. PICK result : _collector(name, result)
      BY <1>4 DEF Collect
    <2>4. got'["inventory"] = got["inventory"]
      BY <2>2, <2>3, NamesHave, CollectorGot
    <2>5. Disks(got') = Disks(got)
      BY <2>4 DEF Disks
    <2> QED
      BY <1>n, <2>1, <2>2, <2>5, KeptAlong
  <1>5. CASE CollectInventory
    <2>1. /\ at' = at + 1 /\ at = 7
          /\ UNCHANGED <<cache, maxfile, unsaved, peak, served, observed>>
      BY <1>5, <1>n, OrderOnce, OrderPlaces DEF CollectInventory, Running
    <2> QED
      BY <1>n, <2>1, KeptAlong
  <1>6. CASE MaximaUnreadable
    BY <1>6, KeptFails DEF MaximaUnreadable
  <1>7. CASE Observe
    BY <1>7, KeptObserve
  <1>8. CASE AllObserved
    <2>1. /\ at' = at + 1 /\ at > 0 /\ Answering(got) \subseteq DOMAIN observed
          /\ UNCHANGED <<got, cache, maxfile, unsaved, peak, served, observed>>
      BY <1>8 DEF AllObserved, Running, build, process
    <2> QED
      BY <1>n, <2>1, KeptAlong
  <1>9. CASE Guard
    BY <1>9, KeptFails DEF Guard
  <1>10. CASE Publish
    BY <1>10, KeptPublish
  <1>11. CASE Change
    BY <1>11 DEF Change, process, KeptInv, KnownWell, ObservingWell, PublishedWell
  <1>12. CASE Damage
    <2>1. /\ maxfile' \in {Nothing, Misshapen} /\ unsaved' = TRUE
          /\ UNCHANGED <<at, got, observed, cache, peak, served>>
      BY <1>12 DEF Damage, build, process
    <2>2. KnownWell'
      BY <2>1, TableEmpty DEF KeptInv, KnownWell
    <2> QED
      BY <2>1, <2>2 DEF KeptInv, ObservingWell, PublishedWell
  <1>13. CASE Crash
    BY <1>13, KeptEnds DEF Crash, Forget
  <1>14. CASE UNCHANGED vars
    BY <1>14 DEF vars, build, process, KeptInv, KnownWell, ObservingWell, PublishedWell
  <1>15. CASE MaximaNotRead
    BY <1>15, KeptNotRead
  <1> QED
    BY <1>1, <1>2, <1>3, <1>4, <1>5, <1>6, <1>7, <1>8, <1>9, <1>10, <1>11,
       <1>12, <1>13, <1>14, <1>15 DEF Next

LEMMA KeptReached == Spec => []KeptInv
  <1>1. Init => KeptInv
    BY KeptInit
  <1>2. TypeOK /\ BuildInv /\ KeptInv /\ [Next]_vars => KeptInv'
    BY KeptStep
  <1> QED
    BY <1>1, <1>2, BuildReached, PTL DEF Spec

\* Over any number of builds, crashes and failed saves, the published maximum of
\* a disk is at least its temperature and never lower than one published
\* before, unless the file lost it.
THEOREM MaxKeptAlways == Spec => []MaxKept
  <1>1. KeptInv => MaxKept
    BY DEF KeptInv, PublishedWell, MaxKept
  <1> QED
    BY <1>1, KeptReached, PTL

-----------------------------------------------------------------------------
(* The verdicts on the disks *)

\* What an inventory says of the disks is what they answered when it was read.
Probed(v) ==
    /\ v.found.disks = [d \in DOMAIN v.readings |-> probe(v.readings[d])]
    /\ \A d \in DOMAIN v.readings : ReadingType(v.readings[d])

\* The inventory of the build, and that of the snapshot, is the one cached.
ReadInv ==
    /\ inventory # None => Probed(inventory)
    /\ at > 0 /\ got["inventory"] # None =>
           got["inventory"] = inventory.found /\ Probed(inventory)
    /\ served # None /\ served.got["inventory"] # None =>
           /\ served.got["inventory"] = served.inventory.found
           /\ Probed(served.inventory)

LEMMA ReadInit == Init => ReadInv
  BY DEF Init, ReadInv

\* A step that leaves the inventory, or ends the build.
LEMMA ReadSame ==
  ASSUME ReadInv, served' \in {served, None},
         \/ inventory' = None /\ at' = 0
         \/ /\ UNCHANGED inventory
            /\ at' > 0 => at > 0 /\ got'["inventory"] = got["inventory"]
  PROVE  ReadInv'
  BY DEF ReadInv

LEMMA ReadFails ==
  ASSUME ReadInv, NEW why, BuildFails(why) PROVE ReadInv'
  <1>1. /\ at' = 0 /\ UNCHANGED served
        /\ inventory' = None \/ UNCHANGED inventory
    BY DEF BuildFails, Forget, process
  <1>2. ~(at' > 0)
    BY <1>1
  <1> QED
    BY <1>1, <1>2, ReadSame

LEMMA InventoryProbed ==
  ASSUME TypeOK, NEW ok, NEW v, v.found = Returns("inventory", machine, ok),
         v.readings = machine.disks
  PROVE  Probed(v)
  <1>1. MachineType(machine)
    BY MachinesAssumption DEF TypeOK
  <1>2. Returns("inventory", machine, ok) = get_inventory(machine, ok)
    BY DEF Returns
  <1>3. v.found.disks = get_physical_disks(machine)
    BY <1>2 DEF get_inventory
  <1> QED
    BY <1>1, <1>3 DEF Probed, get_physical_disks, MachineType

LEMMA ReadStep == TypeOK /\ ReadInv /\ [Next]_vars => ReadInv'
  <1> SUFFICES ASSUME TypeOK, ReadInv, [Next]_vars PROVE ReadInv'
    OBVIOUS
  <1>n. Len(BuildOrder) = 23 /\ at \in 0..24
    BY OrderLength DEF TypeOK
  <1>1. CASE StartBuild
    <2>1. /\ at' = 1 /\ got' = Unread /\ UNCHANGED <<inventory, served>>
      BY <1>1 DEF StartBuild, process
    <2>2. Unread["inventory"] = None
      BY NamesHave DEF Unread, Default, Lists, Counts
    <2> QED
      BY <2>1, <2>2 DEF ReadInv
  <1>2. CASE SpeedUnencodable
    BY <1>2, ReadFails DEF SpeedUnencodable
  <1>3. ASSUME NEW name \in Names, Skip(name) PROVE ReadInv'
    BY <1>3, ReadSame DEF Skip, Running, build, process
  <1>4. ASSUME NEW name \in Names, Collect(name) PROVE ReadInv'
    <2>1. at > 0 /\ name # "inventory" /\ UNCHANGED <<inventory, served>>
      BY <1>4 DEF Collect, Running
    <2>2. PICK result : _collector(name, result)
      BY <1>4 DEF Collect
    <2>3. got'["inventory"] = got["inventory"]
      BY <2>1, <2>2, NamesHave, CollectorGot
    <2> QED
      BY <2>1, <2>3, ReadSame
  <1>5. CASE CollectInventory
    <2>1. UNCHANGED served /\ at' = at + 1
      BY <1>5 DEF CollectInventory
    <2>2. "inventory" \in Names /\ Default("inventory") = None
      BY NamesHave DEF Default, Lists, Counts
    <2>3. CASE inventory # None
      <3>1. _collector("inventory", inventory.found) /\ UNCHANGED inventory
        BY <1>5, <2>3 DEF CollectInventory
      <3>2. got'["inventory"] \in {None, inventory.found}
        BY <2>2, <3>1, CollectorGot DEF Kept
      <3> QED
        BY <2>1, <2>3, <3>1, <3>2 DEF ReadInv
    <2>4. CASE inventory = None
      <3>1. PICK outcome \in {"fine", "fails", "raises"} :
                /\ _collector("inventory", Result("inventory", outcome))
                /\ inventory' =
                       IF outcome = "raises" THEN None
                       ELSE [found |-> Result("inventory", outcome),
                             readings |-> machine.disks, at |-> builds]
        BY <1>5, <2>4 DEF CollectInventory
      <3>2. got'["inventory"] = Kept("inventory", Result("inventory", outcome))
        BY <2>2, <3>1, CollectorGot
      <3>3. CASE outcome = "raises"
        <4>1. inventory' = None /\ got'["inventory"] = None
          BY <2>2, <3>1, <3>2, <3>3 DEF Kept, Result
        <4> QED
          BY <2>1, <4>1 DEF ReadInv
      <3>4. CASE outcome # "raises"
        <4>1. /\ inventory'.found = Returns("inventory", machine, outcome = "fine")
              /\ inventory'.readings = machine.disks
              /\ inventory'.found = Result("inventory", outcome)
          BY <3>1, <3>4 DEF Result
        <4>2. Probed(inventory')
          BY <4>1, InventoryProbed
        <4>3. got'["inventory"] \in {None, inventory'.found}
          BY <2>2, <3>2, <4>1 DEF Kept
        <4> QED
          BY <2>1, <4>2, <4>3 DEF ReadInv
      <3> QED
        BY <3>3, <3>4
    <2> QED
      BY <2>3, <2>4
  <1>6. CASE MaximaUnreadable
    BY <1>6, ReadFails DEF MaximaUnreadable
  <1>7. CASE Observe
    BY <1>7, ReadSame DEF Observe
  <1>8. CASE AllObserved
    BY <1>8, ReadSame DEF AllObserved, Running, build, process
  <1>9. CASE Guard
    BY <1>9, ReadFails DEF Guard
  <1>10. CASE Publish
    <2>1. /\ at > 0 /\ at' = 0 /\ UNCHANGED <<got, inventory>>
          /\ served'.got = got /\ served'.inventory = inventory
      BY <1>10, <1>n DEF Publish, build, process
    <2> QED
      BY <2>1 DEF ReadInv
  <1>11. CASE Change
    BY <1>11, ReadSame DEF Change, process
  <1>12. CASE Damage
    BY <1>12, ReadSame DEF Damage, build, process
  <1>13. CASE Crash
    BY <1>13, ReadSame DEF Crash, Forget
  <1>14. CASE UNCHANGED vars
    BY <1>14, ReadSame DEF vars, build, process
  <1>15. CASE MaximaNotRead
    BY <1>15, ReadSame DEF MaximaNotRead, build
  <1> QED
    BY <1>1, <1>2, <1>3, <1>4, <1>5, <1>6, <1>7, <1>8, <1>9, <1>10, <1>11,
       <1>12, <1>13, <1>14, <1>15 DEF Next

LEMMA ReadReached == Spec => []ReadInv
  <1>1. Init => ReadInv
    BY ReadInit
  <1>2. TypeOK /\ ReadInv /\ [Next]_vars => ReadInv'
    BY ReadStep
  <1> QED
    BY <1>1, <1>2, BuildTypeCorrect, PTL DEF Spec

\* The verdicts on every disk of every snapshot agree with each other and with
\* what the firmware said.
THEOREM DiskVerdictAlways == Spec => []DiskVerdict
  <1>1. ReadInv => DiskVerdict
    <2> SUFFICES ASSUME ReadInv, at = 0, served # None,
                        NEW d \in SmartDisks(served.got),
                        OneProtocol(served.inventory.readings[d])
                 PROVE  LET r == served.inventory.readings[d]
                            state == Grade(Disks(served.got)[d])
                            smart == SmartJson(served.got)
                        IN /\ Condemned(r) <=> state = "critical"
                           /\ state = "critical" <=> smart.health_pass[d] = 0
                           /\ state = "ok" =>
                                  /\ smart.health_pass[d] = 1
                                  /\ TempOf(Disks(served.got)[d]) = None
                                     \/ TempOf(Disks(served.got)[d]) < 70
                           /\ BadSectors(r) => d \in smart.unhealthy /\ state # "ok"
      BY DEF DiskVerdict
    <2> DEFINE r == served.inventory.readings[d]
               h == Disks(served.got)[d]
               smart == SmartJson(served.got)
    <2>1. d \in DOMAIN Disks(served.got) /\ h # Nothing
      BY DEF SmartDisks, Answering
    <2>2. served.got["inventory"] # None
      BY <2>1 DEF Disks, Nothing
    <2>3. Disks(served.got) = served.inventory.found.disks /\ Probed(served.inventory)
      BY <2>2 DEF ReadInv, Disks
    <2>4. h = probe(r) /\ ReadingType(r)
      BY <2>1, <2>3 DEF Probed
    <2>5. r.opens
      BY <2>1, <2>4 DEF probe
    <2>6. /\ smart.health_pass[d] = _disk_status_fields(h)
          /\ (\E sid \in {5, 197, 198} : /\ build_disk_entry(h)[sid] # None
                                         /\ build_disk_entry(h)[sid] > 0)
                 => d \in smart.unhealthy
      BY DEF SmartJson, build_smart_json
    <2> HIDE DEF r, h, smart
    <2>7. /\ Condemned(r) <=> Grade(h) = "critical"
          /\ Grade(h) = "critical" <=> _disk_status_fields(h) = 0
          /\ Grade(h) = "ok" =>
                 /\ _disk_status_fields(h) = 1 /\ ~Degraded(h)
                 /\ TempOf(h) = None \/ TempOf(h) < 70
      BY <2>4, <2>5, GradeOf DEF r
    <2>8. BadSectors(r) => d \in smart.unhealthy /\ Degraded(h)
      BY <2>4, <2>5, <2>6, BadSectorsSeen
    <2> QED
      BY <2>6, <2>7, <2>8 DEF r, h, smart
  <1> QED
    BY <1>1, ReadReached, PTL

-----------------------------------------------------------------------------
(* What failed *)

\* A result from which no row is made.
Barren(name, result) ==
    CASE name \in Lists -> result = {}
      [] name \in Counts -> result = 0
      [] name = "inventory" -> result = None \/ result.smbios = NoSmbios
      [] name \in {"memory", "cpu_name"} -> TRUE
      [] OTHER -> result = None

Done(k, name) == \E j \in 1..23 : j < k /\ BuildOrder[j] = name

\* What failed left nothing, and the process count was wanted if it failed.
ShowsFailures(g, ill) ==
    /\ \A name \in DOMAIN ill :
           /\ name \in Names
           /\ Barren(name, g[name]) \/ (name = "sessions" /\ ill[name] = "fails")
    /\ "processes" \in DOMAIN ill => g["perf_info"] = None

Ended(g, ill, st, name) ==
    \/ name = "processes" /\ g["perf_info"] # None
    \/ st[name] = "failed" <=> name \in DOMAIN ill /\ Raises(name, ill[name])

\* So it is for the collectors of a build that were called, and for all of a
\* snapshot; the inventory that is cached did not raise.
ShownInv ==
    /\ at > 0 =>
           /\ \A name \in DOMAIN mishap : Done(at, name)
           /\ ShowsFailures(got, mishap)
           /\ \A name \in DOMAIN status :
                  Done(at, name) => Ended(got, mishap, status, name)
    /\ ~enable_arp_table => "ip_neighbors" \notin DOMAIN status
    /\ inventory # None => inventory.found # Raised
    /\ served # None =>
           /\ ShowsFailures(served.got, served.mishap)
           /\ \A name \in DOMAIN served.status :
                  Ended(served.got, served.mishap, served.status, name)

-----------------------------------------------------------------------------
(* How a call that fails ends *)

LEMMA ZonesNat ==
  ASSUME NEW m \in Machines, NEW ok \in BOOLEAN
  PROVE  read_thermal_zones(m, ok) \in Nat
  <1>1. MachineType(m)
    BY MachinesAssumption
  <1>2. Cardinality(Zones(m.zones)) \in 0..MAX_INSTANCES
    BY <1>1, ZonesFew DEF MachineType
  <1> QED
    BY <1>2, CeilingsAssumption DEF read_thermal_zones

\* Only two collectors raise when their call fails.
LEMMA RaisedReturns ==
  ASSUME NEW m \in Machines, NEW ok \in BOOLEAN, NEW name \in Names
  PROVE  Returns(name, m, ok) = Raised <=> ~ok /\ name \in {"cpu", "processes"}
  <1>m. MachineType(m)
    BY MachinesAssumption
  <1>r. Raised \notin Int /\ Raised # None
    BY RaisedAssumption
  <1>1. CASE name \in Lists \cup {"inventory"}
    <2>1. Returns(name, m, ok) # Raised
      BY <1>1, RaisedAssumption
    <2> QED
      BY <1>1, <2>1 DEF Lists
  <1>2. CASE name \in {"cpu", "processes"}
    <2>1. active_cpu_count(m) \in Int
      BY ActiveCount DEF MAX_PROCESSORS
    <2> QED
      BY <1>2, <1>r, <2>1 DEF Returns, get_cpu_loads, get_process_count
  <1>3. CASE name \in {"perf_info", "sessions", "memory", "volumes", "cpu_name",
                      "ip_stats", "icmp_stats", "tcp_stats", "udp_stats",
                      "cpu_frequency", "battery", "sys_perf", "cpu_times"}
    <2>1. Returns(name, m, ok) \in Int \cup {None}
      <3>1. CASE name = "perf_info"
        BY <1>m, <3>1 DEF Returns, get_perf_info, MachineType
      <3>2. CASE name = "sessions"
        BY <3>2 DEF Returns, get_session_count
      <3>3. CASE name = "memory"
        BY <3>3 DEF Returns, get_memory
      <3>4. CASE name = "volumes"
        BY <1>m, <3>4 DEF Returns, get_fixed_volumes, MachineType
      <3>5. CASE name = "cpu_name"
        BY <3>5 DEF Returns, get_cpu_name
      <3>6. CASE name \in {"ip_stats", "icmp_stats", "tcp_stats", "udp_stats"}
        BY <3>6 DEF Returns, get_ip_stats
      <3>7. CASE name = "cpu_frequency"
        BY <1>m, <3>7 DEF Returns, read_cpu_frequencies, MachineType
      <3>8. CASE name = "battery"
        BY <3>8 DEF Returns, read_battery
      <3>9. CASE name = "sys_perf"
        BY <3>9 DEF Returns, get_system_perf
      <3>10. CASE name = "cpu_times"
        BY <3>10 DEF Returns, get_cpu_times_total
      <3> QED
        BY <1>3, <3>1, <3>2, <3>3, <3>4, <3>5, <3>6, <3>7, <3>8, <3>9, <3>10
    <2> QED
      BY <1>3, <1>r, <2>1
  <1>4. CASE name = "diskio"
    <2>1. Cardinality(DOMAIN m.disks) \in Nat
      <3>1. IsFiniteSet(0..15)
        <4>1. 0 \in Int /\ 15 \in Int
          OBVIOUS
        <4> QED
          BY <4>1, FS_Interval, Zenon
      <3>2. IsFiniteSet(DOMAIN m.disks)
        BY <1>m, <3>1, FS_Subset DEF MachineType
      <3> QED
        BY <3>2, FS_CardinalityType
    <2> QED
      BY <1>4, <1>r, <2>1 DEF Returns, get_disk_io
  <1>5. CASE name = "thermal_zones"
    BY <1>5, <1>r, ZonesNat DEF Returns
  <1> QED
    BY <1>1, <1>2, <1>3, <1>4, <1>5, NamesIn DEF Lists

LEMMA BarrenDefault ==
  ASSUME NEW name \in Names PROVE Barren(name, Default(name))
  <1>1. CASE name \in Lists
    BY <1>1 DEF Default, Barren, Lists, Counts
  <1>2. CASE name \in Counts
    BY <1>2 DEF Default, Barren, Lists, Counts
  <1>3. CASE name \in {"memory", "cpu_name"}
    BY <1>3 DEF Default, Barren, Lists, Counts
  <1>4. CASE name \notin Lists \cup Counts \cup {"memory", "cpu_name"}
    BY <1>4 DEF Default, Barren, Lists, Counts
  <1> QED
    BY <1>1, <1>2, <1>3, <1>4

\* What is returned of a call that failed, but for the sessions.
LEMMA BarrenReturns ==
  ASSUME NEW m, NEW name \in Names, name # "sessions"
  PROVE  Barren(name, Kept(name, Returns(name, m, FALSE)))
  <1> DEFINE result == Returns(name, m, FALSE)
  <1>1. CASE result = Raised
    BY <1>1, BarrenDefault DEF Kept
  <1>2. CASE result # Raised
    <2>1. Kept(name, result) = result
      BY <1>2 DEF Kept
    <2>2. Barren(name, result)
      <3>1. CASE name = "interfaces"
        <4>1. result = {}
          BY <3>1 DEF Returns, get_interfaces
        <4> QED
          BY <3>1, <4>1 DEF Barren, Lists, Counts
      <3>2. CASE name = "ip_addresses"
        <4>1. result = {}
          BY <3>2 DEF Returns, get_ip_addresses
        <4> QED
          BY <3>2, <4>1 DEF Barren, Lists, Counts
      <3>3. CASE name = "ip_neighbors"
        <4>1. result = {}
          BY <3>3 DEF Returns, get_ip_neighbors
        <4> QED
          BY <3>3, <4>1 DEF Barren, Lists, Counts
      <3>4. CASE name = "routes"
        <4>1. result = {}
          BY <3>4 DEF Returns, get_routes
        <4> QED
          BY <3>4, <4>1 DEF Barren, Lists, Counts
      <3>5. CASE name = "volumes"
        <4>1. result = 0
          BY <3>5 DEF Returns, get_fixed_volumes
        <4> QED
          BY <3>5, <4>1 DEF Barren, Lists, Counts
      <3>6. CASE name \in {"cpu", "processes"}
        BY <1>2, <3>6 DEF Returns, get_cpu_loads, get_process_count
      <3>7. CASE name = "diskio"
        <4>1. result = 0
          BY <3>7 DEF Returns, get_disk_io
        <4> QED
          BY <3>7, <4>1 DEF Barren, Lists, Counts
      <3>8. CASE name = "thermal_zones"
        <4>1. result = 0
          BY <3>8 DEF Returns, read_thermal_zones
        <4> QED
          BY <3>8, <4>1 DEF Barren, Lists, Counts
      <3>9. CASE name = "cpu_frequency"
        <4>1. result = 0
          BY <3>9 DEF Returns, read_cpu_frequencies
        <4> QED
          BY <3>9, <4>1 DEF Barren, Lists, Counts
      <3>10. CASE name = "inventory"
        <4>1. result = get_inventory(m, FALSE)
          BY <3>10 DEF Returns
        <4>2. get_inventory(m, FALSE).smbios = NoSmbios
          BY DEF get_inventory
        <4> QED
          BY <3>10, <4>1, <4>2 DEF Barren, Lists, Counts
      <3>11. CASE name \in {"memory", "cpu_name"}
        BY <3>11 DEF Barren, Lists, Counts
      <3>12. CASE name = "perf_info"
        <4>1. result = None
          BY <3>12 DEF Returns, get_perf_info
        <4> QED
          BY <3>12, <4>1 DEF Barren, Lists, Counts
      <3>13. CASE name \in {"ip_stats", "icmp_stats", "tcp_stats", "udp_stats"}
        <4>1. result = None
          BY <3>13 DEF Returns, get_ip_stats
        <4> QED
          BY <3>13, <4>1 DEF Barren, Lists, Counts
      <3>14. CASE name = "battery"
        <4>1. result = None
          BY <3>14 DEF Returns, read_battery
        <4> QED
          BY <3>14, <4>1 DEF Barren, Lists, Counts
      <3>15. CASE name = "sys_perf"
        <4>1. result = None
          BY <3>15 DEF Returns, get_system_perf
        <4> QED
          BY <3>15, <4>1 DEF Barren, Lists, Counts
      <3>16. CASE name = "cpu_times"
        <4>1. result = None
          BY <3>16 DEF Returns, get_cpu_times_total
        <4> QED
          BY <3>16, <4>1 DEF Barren, Lists, Counts
      <3> QED
        BY <3>1, <3>2, <3>3, <3>4, <3>5, <3>6, <3>7, <3>8, <3>9, <3>10, <3>11,
           <3>12, <3>13, <3>14, <3>15, <3>16, NamesIn
    <2> QED
      BY <2>1, <2>2
  <1> QED
    BY <1>1, <1>2

\* The two outcomes of a failure.
LEMMA FailedOutcome ==
  ASSUME TypeOK, NEW name \in Names, NEW outcome \in {"fails", "raises"}
  PROVE  LET result == Result(name, outcome)
         IN /\ result = Raised <=> Raises(name, outcome)
            /\ \/ Barren(name, Kept(name, result))
               \/ name = "sessions" /\ outcome = "fails"
  <1>1. CASE outcome = "raises"
    <2>1. Result(name, outcome) = Raised /\ Raises(name, outcome)
      BY <1>1 DEF Result, Raises
    <2> QED
      BY <2>1, BarrenDefault DEF Kept
  <1>2. CASE outcome = "fails"
    <2>1. Result(name, outcome) = Returns(name, machine, FALSE)
      BY <1>2 DEF Result
    <2>2. Raises(name, outcome) <=> name \in {"cpu", "processes"}
      BY <1>2 DEF Raises
    <2>3. machine \in Machines
      BY DEF TypeOK
    <2>4. Returns(name, machine, FALSE) = Raised <=> name \in {"cpu", "processes"}
      BY <2>3, RaisedReturns
    <2> QED
      BY <1>2, <2>1, <2>2, <2>4, BarrenReturns
  <1> QED
    BY <1>1, <1>2

\* Who has been called after one step more.
LEMMA DoneNext ==
  ASSUME NEW k \in 1..23, NEW name, Done(k + 1, name)
  PROVE  Done(k, name) \/ name = BuildOrder[k]
  <1>1. PICK j \in 1..23 : j < k + 1 /\ BuildOrder[j] = name
    BY DEF Done
  <1>2. j < k \/ j = k
    BY <1>1
  <1> QED
    BY <1>1, <1>2 DEF Done

LEMMA NotYetDone ==
  ASSUME NEW k \in 1..23 PROVE ~Done(k, BuildOrder[k])
  BY OrderOnce DEF Done

LEMMA DoneLater ==
  ASSUME NEW k \in 1..23, NEW name
  PROVE  (Done(k, name) => Done(k + 1, name)) /\ Done(k + 1, BuildOrder[k])
  BY DEF Done

\* How one collector's call changes what is shown.
LEMMA ShownCollect ==
  ASSUME TypeOK, ShownInv, at \in 1..23, at' = at + 1, NEW name \in Names,
         BuildOrder[at] = name, NEW result, _collector(name, result),
         name = "processes" => got["perf_info"] = None,
         name = "ip_neighbors" => enable_arp_table,
         \/ UNCHANGED mishap /\ result # Raised
         \/ \E outcome \in {"fails", "raises"} :
                /\ mishap' = Put(mishap, name, outcome)
                /\ result = Raised <=> Raises(name, outcome)
                /\ \/ Barren(name, Kept(name, result))
                   \/ name = "sessions" /\ outcome = "fails",
         UNCHANGED served, inventory' # None => inventory'.found # Raised
  PROVE  ShownInv'
  <1>1. /\ \A k \in DOMAIN mishap : Done(at, k)
        /\ ShowsFailures(got, mishap)
        /\ \A k \in DOMAIN status : Done(at, k) => Ended(got, mishap, status, k)
        /\ ~enable_arp_table => "ip_neighbors" \notin DOMAIN status
    BY DEF ShownInv
  <1>2. /\ DOMAIN got' = Names /\ got'[name] = Kept(name, result)
        /\ \A k \in Names : k # name => got'[k] = got[k]
        /\ DOMAIN status' = {name} \cup DOMAIN status
        /\ status'[name] = Health(result)
        /\ \A k \in DOMAIN status : k # name => status'[k] = status[k]
    BY CollectorGot
  <1>3. name \notin DOMAIN mishap
    BY <1>1, NotYetDone
  <1>4. /\ DOMAIN mishap' \subseteq {name} \cup DOMAIN mishap
        /\ DOMAIN mishap \subseteq DOMAIN mishap'
        /\ \A k \in DOMAIN mishap : mishap'[k] = mishap[k]
        /\ name \in DOMAIN mishap' =>
               /\ result = Raised <=> Raises(name, mishap'[name])
               /\ \/ Barren(name, Kept(name, result))
                  \/ name = "sessions" /\ mishap'[name] = "fails"
        /\ result = Raised => name \in DOMAIN mishap'
    <2>1. CASE UNCHANGED mishap /\ result # Raised
      BY <1>3, <2>1
    <2>2. CASE ~(UNCHANGED mishap /\ result # Raised)
      <3>1. PICK outcome \in {"fails", "raises"} :
                /\ mishap' = Put(mishap, name, outcome)
                /\ result = Raised <=> Raises(name, outcome)
                /\ \/ Barren(name, Kept(name, result))
                   \/ name = "sessions" /\ outcome = "fails"
        BY <2>2
      <3>2. /\ DOMAIN mishap' = {name} \cup DOMAIN mishap
            /\ mishap'[name] = outcome
            /\ \A k \in DOMAIN mishap : k # name => mishap'[k] = mishap[k]
        BY <3>1 DEF Put
      <3> QED
        BY <1>3, <3>1, <3>2
    <2> QED
      BY <2>1, <2>2
  <1>5. \A k \in DOMAIN mishap' : Done(at', k)
    BY <1>1, <1>4, DoneLater
  <1>6. name # "perf_info" => got'["perf_info"] = got["perf_info"]
    BY <1>2 DEF Names, BuildOrder
  <1>7. name = "perf_info" => ~Done(at', "processes")
    <2>1. ASSUME name = "perf_info", NEW j \in 1..23, j < at',
                 BuildOrder[j] = "processes"
          PROVE  FALSE
      <3>1. at = 2 /\ j = 4
        BY <2>1, OrderOnce, OrderPlaces
      <3> QED
        BY <2>1, <3>1
    <2> QED
      BY <2>1 DEF Done
  <1>8. ShowsFailures(got', mishap')
    <2>1. ASSUME NEW k \in DOMAIN mishap'
          PROVE  /\ k \in Names
                 /\ Barren(k, got'[k]) \/ (k = "sessions" /\ mishap'[k] = "fails")
      <3>1. CASE k = name
        BY <1>2, <1>4, <2>1, <3>1
      <3>2. CASE k # name
        <4>1. k \in DOMAIN mishap /\ mishap'[k] = mishap[k]
          BY <1>4, <2>1, <3>2
        <4>2. /\ k \in Names
              /\ Barren(k, got[k]) \/ (k = "sessions" /\ mishap[k] = "fails")
          BY <1>1, <4>1 DEF ShowsFailures
        <4> QED
          BY <1>2, <3>2, <4>1, <4>2
      <3> QED
        BY <3>1, <3>2
    <2>2. ASSUME "processes" \in DOMAIN mishap' PROVE got'["perf_info"] = None
      <3>1. name # "perf_info"
        BY <1>5, <1>7, <2>2
      <3>2. CASE name = "processes"
        BY <1>6, <3>1, <3>2
      <3>3. CASE name # "processes"
        <4>1. "processes" \in DOMAIN mishap
          BY <1>4, <2>2, <3>3
        <4> QED
          BY <1>1, <1>6, <3>1, <4>1 DEF ShowsFailures
      <3> QED
        BY <3>2, <3>3
    <2> QED
      BY <2>1, <2>2 DEF ShowsFailures
  <1>9. ASSUME NEW k \in DOMAIN status', Done(at', k)
        PROVE  Ended(got', mishap', status', k)
    <2>1. CASE k = name
      <3>1. status'[k] = "failed" <=> result = Raised
        BY <1>2, <2>1 DEF Health
      <3>2. result = Raised <=>
                k \in DOMAIN mishap' /\ Raises(k, mishap'[k])
        BY <1>4, <2>1
      <3> QED
        BY <3>1, <3>2 DEF Ended
    <2>2. CASE k # name
      <3>1. k \in DOMAIN status /\ status'[k] = status[k] /\ Done(at, k)
        BY <1>2, <1>9, <2>2, DoneNext
      <3>2. Ended(got, mishap, status, k)
        BY <1>1, <3>1
      <3>3. k \in DOMAIN mishap' <=> k \in DOMAIN mishap
        BY <1>4, <2>2
      <3>4. k = "processes" => got'["perf_info"] = got["perf_info"]
        BY <1>6, <1>7, <1>9
      <3> QED
        BY <1>4, <3>1, <3>2, <3>3, <3>4 DEF Ended
    <2> QED
      BY <2>1, <2>2
  <1>10. ~enable_arp_table => "ip_neighbors" \notin DOMAIN status'
    BY <1>1, <1>2
  <1>11. served' # None =>
             /\ ShowsFailures(served'.got, served'.mishap)
             /\ \A k \in DOMAIN served'.status :
                    Ended(served'.got, served'.mishap, served'.status, k)
    BY DEF ShownInv
  <1> QED
    BY <1>5, <1>8, <1>9, <1>10, <1>11 DEF ShownInv

\* A step of a build, or beside it, that calls nobody.
LEMMA ShownSame ==
  ASSUME ShownInv, UNCHANGED <<got, mishap, status, inventory, served>>,
         at' > 0 =>
             /\ at > 0 /\ \A k \in DOMAIN mishap : Done(at, k) => Done(at', k)
             /\ \A k \in DOMAIN status :
                    Done(at', k) => Done(at, k) \/ Ended(got, mishap, status, k)
  PROVE  ShownInv'
  BY DEF ShownInv

LEMMA ShownEnds ==
  ASSUME ShownInv, at' = 0, status' = Nothing \/ UNCHANGED status,
         inventory' \in {inventory, None}, served' \in {served, None}
  PROVE  ShownInv'
  <1>1. ~(at' > 0) /\ DOMAIN Nothing = {}
    BY DEF Nothing
  <1> QED
    BY <1>1 DEF ShownInv

LEMMA ShownFails ==
  ASSUME ShownInv, NEW why, BuildFails(why) PROVE ShownInv'
  BY ShownEnds DEF BuildFails, Forget, process

\* The call of Collect and of CollectInventory.
LEMMA ShownCall ==
  ASSUME TypeOK, ShownInv, at \in 1..23, at' = at + 1, NEW name \in Names,
         BuildOrder[at] = name, NEW outcome \in {"fine", "fails", "raises"},
         Outcome(name, outcome), _collector(name, Result(name, outcome)),
         ~Skipped(name), UNCHANGED served,
         inventory' # None => inventory'.found # Raised
  PROVE  ShownInv'
  <1>1. /\ name = "processes" => got["perf_info"] = None
        /\ name = "ip_neighbors" => enable_arp_table
    BY DEF Skipped
  <1>2. CASE outcome = "fine"
    <2>1. UNCHANGED mishap
      BY <1>2 DEF Outcome
    <2>2. Result(name, outcome) = Returns(name, machine, TRUE)
      BY <1>2 DEF Result
    <2>3. Result(name, outcome) # Raised
      BY <2>2, RaisedReturns DEF TypeOK
    <2> QED
      BY <1>1, <2>1, <2>3, ShownCollect
  <1>3. CASE outcome \in {"fails", "raises"}
    <2>1. mishap' = Put(mishap, name, outcome)
      BY <1>3 DEF Outcome
    <2>2. /\ Result(name, outcome) = Raised <=> Raises(name, outcome)
          /\ \/ Barren(name, Kept(name, Result(name, outcome)))
             \/ name = "sessions" /\ outcome = "fails"
      BY <1>3, FailedOutcome
    <2> QED
      BY <1>1, <1>3, <2>1, <2>2, ShownCollect
  <1> QED
    BY <1>2, <1>3

LEMMA ShownInit == Init => ShownInv
  <1>1. DOMAIN Nothing = {}
    BY DEF Nothing
  <1> QED
    BY <1>1 DEF Init, ShownInv

LEMMA ShownStep == TypeOK /\ BuildInv /\ ShownInv /\ [Next]_vars => ShownInv'
  <1> SUFFICES ASSUME TypeOK, BuildInv, ShownInv, [Next]_vars PROVE ShownInv'
    OBVIOUS
  <1>n. Len(BuildOrder) = 23 /\ at \in 0..24 /\ DOMAIN status \subseteq Names
    BY OrderLength DEF TypeOK
  <1>1. CASE StartBuild
    <2>1. /\ at' = 1 /\ mishap' = Nothing
          /\ UNCHANGED <<status, inventory, served>>
      BY <1>1 DEF StartBuild, process
    <2>2. \A name : ~Done(1, name)
      BY DEF Done
    <2>3. DOMAIN Nothing = {}
      BY DEF Nothing
    <2>4. ShowsFailures(got', mishap')
      BY <2>1, <2>3 DEF ShowsFailures
    <2> QED
      BY <2>1, <2>2, <2>3, <2>4 DEF ShownInv
  <1>2. CASE SpeedUnencodable
    BY <1>2, ShownFails DEF SpeedUnencodable
  <1>3. ASSUME NEW name \in Names, Skip(name) PROVE ShownInv'
    <2>1. /\ at' = at + 1 /\ at \in 1..23 /\ BuildOrder[at] = name /\ Skipped(name)
          /\ UNCHANGED <<got, mishap, status, inventory, served>>
      BY <1>3, <1>n DEF Skip, Running, build, process
    <2>2. name \in DOMAIN status => Ended(got, mishap, status, name)
      BY <2>1 DEF Skipped, Ended, ShownInv
    <2> QED
      BY <2>1, <2>2, DoneNext, DoneLater, ShownSame
  <1>4. ASSUME NEW name \in Names, Collect(name) PROVE ShownInv'
    <2>1. /\ at' = at + 1 /\ at \in 1..23 /\ BuildOrder[at] = name
          /\ ~Skipped(name) /\ UNCHANGED <<inventory, served>>
      BY <1>4, <1>n DEF Collect, Running
    <2>2. PICK outcome \in {"fine", "fails", "raises"} :
              Outcome(name, outcome) /\ _collector(name, Result(name, outcome))
      BY <1>4 DEF Collect
    <2>3. inventory' # None => inventory'.found # Raised
      BY <2>1 DEF ShownInv
    <2> QED
      BY <2>1, <2>2, <2>3, ShownCall
  <1>5. CASE CollectInventory
    <2>1. /\ at' = at + 1 /\ at \in 1..23 /\ BuildOrder[at] = "inventory"
          /\ UNCHANGED served
      BY <1>5, <1>n DEF CollectInventory, Running
    <2>2. "inventory" \in Names /\ ~Skipped("inventory")
      BY NamesHave DEF Skipped
    <2>3. CASE inventory # None
      <3>1. /\ _collector("inventory", inventory.found)
            /\ UNCHANGED <<inventory, mishap>>
        BY <1>5, <2>3 DEF CollectInventory
      <3>2. inventory.found # Raised
        BY <2>3 DEF ShownInv
      <3> QED
        BY <2>1, <2>2, <3>1, <3>2, ShownCollect
    <2>4. CASE inventory = None
      <3>1. PICK outcome \in {"fine", "fails", "raises"} :
                /\ Outcome("inventory", outcome)
                /\ _collector("inventory", Result("inventory", outcome))
                /\ inventory' =
                       IF outcome = "raises" THEN None
                       ELSE [found |-> Result("inventory", outcome),
                             readings |-> machine.disks, at |-> builds]
        BY <1>5, <2>4 DEF CollectInventory
      <3>2. ASSUME inventory' # None PROVE inventory'.found # Raised
        <4>1. inventory'.found = Returns("inventory", machine, outcome = "fine")
          BY <3>1, <3>2 DEF Result
        <4>2. machine \in Machines /\ (outcome = "fine") \in BOOLEAN
          BY DEF TypeOK
        <4> QED
          BY <4>1, <4>2, RaisedAssumption
      <3> QED
        BY <2>1, <2>2, <3>1, <3>2, ShownCall
    <2> QED
      BY <2>3, <2>4
  <1>6. CASE MaximaUnreadable
    BY <1>6, ShownFails DEF MaximaUnreadable
  <1>7. CASE Observe
    BY <1>7, ShownSame DEF Observe
  <1>8. CASE AllObserved
    <2>1. /\ at' = at + 1 /\ at \in 1..23 /\ BuildOrder[at] = "observe"
          /\ UNCHANGED <<got, mishap, status, inventory, served>>
      BY <1>8, <1>n DEF AllObserved, Running, build, process
    <2>2. "observe" \notin DOMAIN status
      BY <1>n DEF Names
    <2> QED
      BY <2>1, <2>2, DoneNext, DoneLater, ShownSame
  <1>9. CASE Guard
    BY <1>9, ShownFails DEF Guard
  <1>10. CASE Publish
    <2>1. /\ at = 24 /\ at' = 0 /\ UNCHANGED <<got, mishap, status, inventory>>
          /\ served'.got = got /\ served'.mishap = mishap
          /\ served'.status = status
      BY <1>10, <1>n DEF Publish, build, process
    <2>2. \A name \in Names : Done(24, name)
      BY <1>n DEF Names, Done
    <2>3. /\ ShowsFailures(got, mishap)
          /\ \A name \in DOMAIN status : Ended(got, mishap, status, name)
      BY <1>n, <2>1, <2>2 DEF ShownInv
    <2> QED
      BY <2>1, <2>3 DEF ShownInv
  <1>11. CASE Change
    BY <1>11, ShownSame DEF Change, process
  <1>12. CASE Damage
    BY <1>12, ShownSame DEF Damage, build, process
  <1>13. CASE Crash
    BY <1>13, ShownEnds DEF Crash, Forget
  <1>14. CASE UNCHANGED vars
    BY <1>14, ShownSame DEF vars, build, process
  <1>15. CASE MaximaNotRead
    BY <1>15, ShownSame DEF MaximaNotRead, build
  <1> QED
    BY <1>1, <1>2, <1>3, <1>4, <1>5, <1>6, <1>7, <1>8, <1>9, <1>10, <1>11,
       <1>12, <1>13, <1>14, <1>15 DEF Next

LEMMA ShownReached == Spec => []ShownInv
  <1>1. Init => ShownInv
    BY ShownInit
  <1>2. TypeOK /\ BuildInv /\ ShownInv /\ [Next]_vars => ShownInv'
    BY ShownStep
  <1> QED
    BY <1>1, <1>2, BuildReached, PTL DEF Spec

-----------------------------------------------------------------------------
(* The rows of a collector *)

\* The collectors that answer for one row, of their own name.
Single == {"sessions", "processes", "cpu", "ip_stats", "icmp_stats", "tcp_stats",
           "udp_stats", "battery", "sys_perf", "cpu_times"}

LEMMA MarksAre ==
  ASSUME NEW name \in Names
  PROVE  \/ name = "interfaces" /\ Marks(name) = {"if"}
         \/ name = "volumes" /\ Marks(name) = {"volume"}
         \/ name = "diskio" /\ Marks(name) = {"io"}
         \/ /\ name = "inventory"
            /\ Marks(name) = {"system", "board", "socket", "dimm"}
         \/ name = "ip_addresses" /\ Marks(name) = {"ipAddrTable", "ipAddress"}
         \/ name = "ip_neighbors" /\ Marks(name) = {"ipNetToPhysical"}
         \/ name = "routes" /\ Marks(name) = {"ipRoute"}
         \/ name = "thermal_zones" /\ Marks(name) = {"zone"}
         \/ name = "cpu_frequency" /\ Marks(name) = {"frequency"}
         \/ name \in {"perf_info", "cpu_name", "memory"} /\ Marks(name) = {}
         \/ name \in Single /\ Marks(name) = {name}
  <1>1. CASE name \in Single
    BY <1>1 DEF Marks, Single
  <1>2. CASE name \in {"interfaces", "volumes", "diskio", "inventory"}
    BY <1>2 DEF Marks
  <1>3. CASE name \in {"ip_addresses", "ip_neighbors", "routes"}
    BY <1>3 DEF Marks
  <1>4. CASE name \in {"thermal_zones", "cpu_frequency", "perf_info", "cpu_name",
                      "memory"}
    BY <1>4 DEF Marks
  <1> QED
    BY <1>1, <1>2, <1>3, <1>4, NamesIn DEF Single

\* Rows about nothing that a collector answers for.
Unmarked == {"ifTable", "storage", "hrStorage", "hrDevice", "disk",
             "entPhysical", "sensor", "entPhySensor", "entry", "hrPartition",
             "hrFS", "diskIO", "jtDiskHealth", "memory"}

LEMMA UnmarkedRight ==
  ASSUME NEW name \in Names PROVE Unmarked \cap Marks(name) = {}
  BY MarksAre DEF Unmarked, Single

\* Whose a mark is.
LEMMA MarkOf ==
  ASSUME NEW name \in Names
  PROVE  /\ "if" \in Marks(name) => name = "interfaces"
         /\ "volume" \in Marks(name) => name = "volumes"
         /\ "io" \in Marks(name) => name = "diskio"
         /\ {"system", "board", "socket", "dimm"} \cap Marks(name) # {} =>
                name = "inventory"
         /\ {"ipAddrTable", "ipAddress"} \cap Marks(name) # {} =>
                name = "ip_addresses"
         /\ "ipNetToPhysical" \in Marks(name) => name = "ip_neighbors"
         /\ "ipRoute" \in Marks(name) => name = "routes"
         /\ "zone" \in Marks(name) => name = "thermal_zones"
         /\ "frequency" \in Marks(name) => name = "cpu_frequency"
         /\ \A c \in Single : c \in Marks(name) => name = c
  BY MarksAre DEF Single

\* No table, nothing in it.
LEMMA NoSmbiosEmpty ==
  /\ NoSmbios.system = FALSE /\ ~HasBoard(NoSmbios.board)
  /\ NoSmbios.processors = 0 /\ NoSmbios.memory = 0
  <1>1. \A t : OfType(<<>>, t) = {}
    BY DEF OfType, parse_smbios
  <1>2. bios_info(<<>>) = FALSE /\ system_info(<<>>) = FALSE
    BY <1>1 DEF bios_info, system_info
  <1>3. baseboard_info(<<>>) = [maker |-> "", product |-> ""]
    BY <1>1 DEF baseboard_info
  <1>4. NoSmbios.system = FALSE /\ NoSmbios.board = baseboard_info(<<>>)
    BY <1>2 DEF NoSmbios, collect
  <1>5. ~HasBoard(NoSmbios.board)
    <2>1. ASSUME NEW b, b = [maker |-> "", product |-> ""] PROVE ~HasBoard(b)
      BY <2>1 DEF HasBoard
    <2> QED
      BY <1>3, <1>4, <2>1
  <1> QED
    BY <1>4, <1>5, NoSmbiosCounts

\* Nothing that name failed to collect is in the row.
Clear(r, name) == {r.of[1], r.table} \cap Marks(name) = {}

LEMMA ClearOf ==
  ASSUME NEW name \in Names, NEW r, NEW t, NEW i, NEW f, NEW o,
         r = Row(t, i, f, o), o[1] \notin Marks(name), t \notin Marks(name)
  PROVE  Clear(r, name)
  <1>1. r.of = o /\ r.table = t
    BY RowParts
  <1> QED
    BY <1>1 DEF Clear

LEMMA SensorClear ==
  ASSUME NEW name \in Names, NEW x, NEW parent, NEW o, NEW r \in Sensor(x, parent, o),
         o[1] \notin Marks(name)
  PROVE  Clear(r, name)
  <1>1. "entPhysical" \notin Marks(name) /\ "entPhySensor" \notin Marks(name)
    BY UnmarkedRight DEF Unmarked
  <1>2. \/ r = Row("entPhysical", <<x>>, Ref("entPhysical", <<parent>>), o)
        \/ r = Row("entPhySensor", <<x>>, Ref("entPhysical", <<x>>), o)
    BY DEF Sensor, Entity
  <1> QED
    BY <1>1, <1>2, ClearOf, Zenon

\* The rows of a result that is barren.
LEMMA NoRows ==
  ASSUME NEW g, GotInv(g), NEW name \in Names, Barren(name, g[name]),
         name = "processes" => g.perf_info = None, NEW r \in Rows(g)
  PROVE  Clear(r, name)
  <1>u. \A x \in Unmarked : x \notin Marks(name)
    BY UnmarkedRight
  <1>e. Upto(0) = {} /\ 1..0 = {}
    BY DEF Upto
  <1>l. name \in Lists => g[name] = {}
    BY DEF Barren, Lists, Counts
  <1>c. name \in Counts => g[name] = 0
    BY DEF Barren, Lists, Counts
  <1>s. name \in Single /\ name # "cpu" => g[name] = None
    BY DEF Barren, Lists, Counts, Single
  <1>i. name = "inventory" => Smbios(g) = NoSmbios
    BY DEF Barren, Lists, Counts, Smbios
  <1>1. CASE r \in IfTable(g)
    <2>1. PICK n \in g.interfaces :
              r = Row("ifTable", <<IfIndex[n.luid]>>, None, <<"if", n.luid>>)
      BY <1>1 DEF IfTable
    <2>2. "if" \notin Marks(name)
      BY <1>l, <2>1, MarkOf DEF Lists
    <2>3. "ifTable" \notin Marks(name) /\ <<"if", n.luid>>[1] = "if"
      BY <1>u DEF Unmarked
    <2> QED
      BY <2>1, <2>2, <2>3, ClearOf, Zenon
  <1>2. CASE r \in HrStorage(g)
    <2>1. PICK i : r = Row("hrStorage", <<i>>, None, <<"storage", i>>)
      BY <1>2 DEF HrStorage
    <2>2. /\ "hrStorage" \notin Marks(name) /\ "storage" \notin Marks(name)
          /\ <<"storage", i>>[1] = "storage"
      BY <1>u DEF Unmarked
    <2> QED
      BY <2>1, <2>2, ClearOf, Zenon
  <1>3. CASE r \in HrProcessors(g)
    <2>1. PICK i \in Upto(g.cpu) :
              r = Row("hrDevice", <<DEV_BASE_CPU + i>>, None, <<"cpu", i>>)
      BY <1>3 DEF HrProcessors
    <2>2. "cpu" \notin Marks(name)
      BY <1>c, <1>e, <2>1, MarkOf DEF Counts, Single
    <2>3. "hrDevice" \notin Marks(name) /\ <<"cpu", i>>[1] = "cpu"
      BY <1>u DEF Unmarked
    <2> QED
      BY <2>1, <2>2, <2>3, ClearOf, Zenon
  <1>4. CASE r \in HrNetwork(g)
    <2>1. PICK n \in g.interfaces :
              r = Row("hrDevice", <<DEV_BASE_NET + IfIndex[n.luid]>>,
                      Ref("ifTable", <<IfIndex[n.luid]>>), <<"if", n.luid>>)
      BY <1>4 DEF HrNetwork
    <2>2. "if" \notin Marks(name)
      BY <1>l, <2>1, MarkOf DEF Lists
    <2>3. "hrDevice" \notin Marks(name) /\ <<"if", n.luid>>[1] = "if"
      BY <1>u DEF Unmarked
    <2> QED
      BY <2>1, <2>2, <2>3, ClearOf, Zenon
  <1>5. CASE r \in HrDisks(g)
    <2>1. PICK d : r = Row("hrDevice", <<DEV_BASE_DISK + d>>, None, <<"disk", d>>)
      BY <1>5 DEF HrDisks
    <2>2. /\ "hrDevice" \notin Marks(name) /\ "disk" \notin Marks(name)
          /\ <<"disk", d>>[1] = "disk"
      BY <1>u DEF Unmarked
    <2> QED
      BY <2>1, <2>2, ClearOf, Zenon
  <1>6. CASE r \in Entities(g)
    <2> DEFINE s == Smbios(g)
               On(x) == Ref("entPhysical", <<x>>)
    <2>1. \/ s.system /\ r = Row("entPhysical", <<ENT_SYSTEM>>, None, <<"system">>)
          \/ /\ HasBoard(s.board)
             /\ r = Row("entPhysical", <<ENT_MAINBOARD>>, On(ENT_SYSTEM),
                        <<"board">>)
          \/ \E i \in Upto(s.processors) :
                 r = Row("entPhysical", <<ENT_CPU_BASE + i>>, On(OnBoard(s.board)),
                         <<"socket", i>>)
          \/ \E i \in Upto(s.memory) :
                 r = Row("entPhysical", <<ENT_DIMM_BASE + i>>, On(OnBoard(s.board)),
                         <<"dimm", i>>)
          \/ \E d : r = Row("entPhysical", <<ENT_DISK_BASE + d>>, On(ENT_SYSTEM),
                            <<"disk", d>>)
      <3>1. \/ /\ s.system
               /\ r = Row("entPhysical", <<ENT_SYSTEM>>, None, <<"system">>)
            \/ HasBoard(s.board) /\ r = Entity(ENT_MAINBOARD, ENT_SYSTEM, <<"board">>)
            \/ \E i \in Upto(s.processors) :
                   r = Entity(ENT_CPU_BASE + i, OnBoard(s.board), <<"socket", i>>)
            \/ \E i \in Upto(s.memory) :
                   r = Entity(ENT_DIMM_BASE + i, OnBoard(s.board), <<"dimm", i>>)
            \/ \E d \in DOMAIN Disks(g) :
                   r = Entity(ENT_DISK_BASE + d, ENT_SYSTEM, <<"disk", d>>)
        BY <1>6 DEF Entities
      <3> QED
        BY <3>1, Zenon DEF Entity
    <2>2. "entPhysical" \notin Marks(name) /\ "disk" \notin Marks(name)
      BY <1>u DEF Unmarked
    <2>3. /\ <<"system">>[1] = "system" /\ <<"board">>[1] = "board"
          /\ \A i : /\ <<"socket", i>>[1] = "socket" /\ <<"dimm", i>>[1] = "dimm"
                    /\ <<"disk", i>>[1] = "disk"
      OBVIOUS
    <2>4. CASE name # "inventory"
      <3>1. /\ "system" \notin Marks(name) /\ "board" \notin Marks(name)
            /\ "socket" \notin Marks(name) /\ "dimm" \notin Marks(name)
        BY <2>4, MarkOf
      <3> HIDE DEF On, s
      <3> QED
        BY <2>1, <2>2, <2>3, <3>1, ClearOf, Zenon
    <2>5. CASE name = "inventory"
      <3>1. s = NoSmbios
        BY <1>i, <2>5
      <3>2. /\ s.system = FALSE /\ ~HasBoard(s.board)
            /\ Upto(s.processors) = {} /\ Upto(s.memory) = {}
        BY <1>e, <3>1, NoSmbiosEmpty
      <3> HIDE DEF On, s
      <3>3. \E d : r = Row("entPhysical", <<ENT_DISK_BASE + d>>, On(ENT_SYSTEM),
                           <<"disk", d>>)
        BY <2>1, <3>2
      <3> QED
        BY <2>2, <2>3, <3>3, ClearOf, Zenon
    <2> QED
      BY <2>4, <2>5
  <1>7. CASE r \in DiskSensors(g)
    <2>1. \E d, k : r \in Sensor(ENT_SENSOR_BASE + d * 10 + k, ENT_DISK_BASE + d,
                                <<"sensor", d, k>>)
      BY <1>7 DEF DiskSensors, SensorsOfDisk
    <2>2. /\ "sensor" \notin Marks(name)
          /\ \A d, k : <<"sensor", d, k>>[1] = "sensor"
      BY <1>u DEF Unmarked
    <2> QED
      BY <2>1, <2>2, SensorClear, Zenon
  <1>8. CASE r \in ThermalSensors(g)
    <2>1. PICK z \in Upto(g.thermal_zones) :
              r \in Sensor(ENT_THERMAL_BASE + z, ENT_MAINBOARD, <<"zone", z>>)
      BY <1>8 DEF ThermalSensors
    <2>2. "zone" \notin Marks(name)
      BY <1>c, <1>e, <2>1, MarkOf DEF Counts
    <2>3. <<"zone", z>>[1] = "zone"
      OBVIOUS
    <2> QED
      BY <2>1, <2>2, <2>3, SensorClear, Zenon
  <1>9. CASE r \in FrequencySensor(g)
    <2>1. /\ g.cpu_frequency # 0
          /\ r \in Sensor(ENT_CPUFREQ_BASE, ENT_MAINBOARD, <<"frequency">>)
      BY <1>9 DEF FrequencySensor
    <2>2. "frequency" \notin Marks(name)
      BY <1>c, <2>1, MarkOf DEF Counts
    <2>3. <<"frequency">>[1] = "frequency"
      OBVIOUS
    <2> QED
      BY <2>1, <2>2, <2>3, SensorClear, Zenon
  <1>10. CASE r \in IpAddresses(g)
    <2>1. PICK p \in Bound(g, g.ip_addresses) :
              \/ r = Row("ipAddrTable", <<p[1].addr>>, ToIf(p[2]), <<"entry", p[1]>>)
              \/ r = Row("ipAddress", <<p[1].version, p[1].addr>>, ToIf(p[2]),
                        <<"entry", p[1]>>)
      BY <1>10 DEF IpAddresses
    <2>2. g.ip_addresses # {}
      BY DEF Bound
    <2>3. "ipAddrTable" \notin Marks(name) /\ "ipAddress" \notin Marks(name)
      BY <1>l, <2>2, MarkOf DEF Lists
    <2>4. "entry" \notin Marks(name) /\ <<"entry", p[1]>>[1] = "entry"
      BY <1>u DEF Unmarked
    <2> QED
      BY <2>1, <2>3, <2>4, ClearOf, Zenon
  <1>11. CASE r \in IpNeighbors(g)
    <2>1. PICK p \in Bound(g, g.ip_neighbors) :
              r = Row("ipNetToPhysical", <<IfIndex[p[2].luid], p[1].addr>>,
                      ToIf(p[2]), <<"entry", p[1]>>)
      BY <1>11 DEF IpNeighbors
    <2>2. g.ip_neighbors # {}
      BY DEF Bound
    <2>3. "ipNetToPhysical" \notin Marks(name)
      BY <1>l, <2>2, MarkOf DEF Lists
    <2>4. "entry" \notin Marks(name) /\ <<"entry", p[1]>>[1] = "entry"
      BY <1>u DEF Unmarked
    <2> QED
      BY <2>1, <2>3, <2>4, ClearOf, Zenon
  <1>12. CASE r \in IpRoutes(g)
    <2>1. PICK q \in Bound(g, g.routes) :
              r = Row("ipRoute", <<q[1].dest>>, ToIf(BestRoute(g, q[1].dest)[2]),
                      <<"entry", BestRoute(g, q[1].dest)[1]>>)
      BY <1>12 DEF IpRoutes
    <2> DEFINE b == BestRoute(g, q[1].dest)[1]
    <2>2. g.routes # {}
      BY DEF Bound
    <2>3. "ipRoute" \notin Marks(name)
      BY <1>l, <2>2, MarkOf DEF Lists
    <2>4. "entry" \notin Marks(name) /\ <<"entry", b>>[1] = "entry"
      BY <1>u DEF Unmarked
    <2> QED
      BY <2>1, <2>3, <2>4, ClearOf, Zenon
  <1>13. CASE r \in Partitions(g)
    <2>1. PICK v \in 1..g.volumes :
              \/ r = Row("hrPartition", <<PartitionDevice(g), v>>,
                        Ref("hrDevice", <<PartitionDevice(g)>>), <<"volume", v>>)
              \/ r = Row("hrFS", <<v>>, None, <<"volume", v>>)
      BY <1>13 DEF Partitions
    <2>2. "volume" \notin Marks(name)
      BY <1>c, <1>e, <2>1, MarkOf DEF Counts
    <2>3. /\ "hrPartition" \notin Marks(name) /\ "hrFS" \notin Marks(name)
          /\ <<"volume", v>>[1] = "volume"
      BY <1>u DEF Unmarked
    <2> QED
      BY <2>1, <2>2, <2>3, ClearOf, Zenon
  <1>14. CASE r \in DiskIo(g)
    <2>1. PICK i \in 1..g.diskio : r = Row("diskIO", <<i>>, None, <<"io", i>>)
      BY <1>14 DEF DiskIo
    <2>2. "io" \notin Marks(name)
      BY <1>c, <1>e, <2>1, MarkOf DEF Counts
    <2>3. "diskIO" \notin Marks(name) /\ <<"io", i>>[1] = "io"
      BY <1>u DEF Unmarked
    <2> QED
      BY <2>1, <2>2, <2>3, ClearOf, Zenon
  <1>15. CASE r \in JtDiskHealth(g)
    <2>1. PICK d : r = Row("jtDiskHealth", <<d>>, None, <<"disk", d>>)
      BY <1>15 DEF JtDiskHealth
    <2>2. /\ "jtDiskHealth" \notin Marks(name) /\ "disk" \notin Marks(name)
          /\ <<"disk", d>>[1] = "disk"
      BY <1>u DEF Unmarked
    <2> QED
      BY <2>1, <2>2, ClearOf, Zenon
  <1>16. CASE r \in ScalarRows(g)
    <2>1. PICK c \in Scalars \cup {"processes"} :
              /\ r = Row(c, <<0>>, None, <<c>>)
              /\ c # "processes" => g[c] # None
              /\ c = "processes" => ~(g.perf_info = None /\ g.processes = None)
      BY <1>16 DEF ScalarRows, Scalars, NetStats, SystemStats
    <2>2. c \in Unmarked \/ (c \in Single /\ c # "cpu")
      BY DEF Unmarked, Single, Scalars, NetStats, SystemStats
    <2>3. CASE c \in Unmarked
      <3>1. c \notin Marks(name) /\ <<c>>[1] = c
        BY <1>u, <2>3
      <3> QED
        BY <2>1, <3>1, ClearOf, Zenon
    <2>4. CASE c \in Single /\ c # "cpu"
      <3>1. c # name
        BY <1>s, <2>1, <2>4
      <3>2. c \notin Marks(name) /\ <<c>>[1] = c
        BY <2>4, <3>1, MarkOf
      <3> QED
        BY <2>1, <3>2, ClearOf, Zenon
    <2> QED
      BY <2>2, <2>3, <2>4
  <1> QED
    BY <1>1, <1>2, <1>3, <1>4, <1>5, <1>6, <1>7, <1>8, <1>9, <1>10, <1>11, <1>12,
       <1>13, <1>14, <1>15, <1>16 DEF Rows

\* Whatever failed in the building of a snapshot has no row in it, but for the
\* sessions; and its table of collectors says which of them raised in this very
\* build.
THEOREM FailureIsAlwaysShown == Spec => []FailureIsShown
  <1>1. TraceInv /\ ShownInv => FailureIsShown
    <2> SUFFICES ASSUME TraceInv, ShownInv, at = 0, served # None
                 PROVE  FailureIsShown
      BY DEF FailureIsShown
    <2> DEFINE g == served.got
               ill == served.mishap
    <2>1. GotInv(g) /\ ShowsFailures(g, ill)
      BY DEF TraceInv, ShownInv
    <2>2. ASSUME NEW name \in DOMAIN ill, NEW r \in Rows(g)
          PROVE  \/ Clear(r, name)
                 \/ name = "sessions" /\ ill[name] = "fails"
      <3>1. /\ name \in Names
            /\ Barren(name, g[name]) \/ (name = "sessions" /\ ill[name] = "fails")
            /\ name = "processes" => g.perf_info = None
        BY <2>1, <2>2 DEF ShowsFailures
      <3> QED
        BY <2>1, <2>2, <3>1, NoRows
    <2>3. \A name \in DOMAIN served.status : Ended(g, ill, served.status, name)
      BY DEF ShownInv
    <2> QED
      BY <2>2, <2>3 DEF FailureIsShown, Clear, Ended
  <1> QED
    BY <1>1, TraceReached, ShownReached, PTL
===============================================================================
