SPECIFICATION Spec
CONSTANTS
    Procs = {svc, cli}
    Service = svc
    Guids = {g1, g2}
    Hosts = {h1, h2}
    BootsMax = 3
    Faults = {"clone", "rename", "guid", "damage", "read", "save", "backup",
              "jitter", "clock"}
    MaxBoot = 3
    MaxStarts = 4
    MaxFaults = 1
    Absent = Absent
    Damaged = Damaged
    None = None
INVARIANTS
    TypeOK
    EngineIdIsThisMachines
    DiskCoversPublished
PROPERTIES
    BootsNeverLower
    PairNeverRepeats
    RestartKeepsBoots
SYMMETRY Symmetry
CHECK_DEADLOCK FALSE
