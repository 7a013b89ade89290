\* Two accounts, one command at a time and the service, one fault of any kind.
CONSTANTS
    n1 = n1
    n2 = n2
    p1 = p1
    p2 = p2
    c1 = c1
    Names <- McNames
    Passes <- McPasses
    Service = Service
    Clis <- McClis
    Faults = {"clone", "identity", "damage", "read", "save", "backup", "shred"}
    MaxStarts = 3
    MaxDrops = 1
    MaxFaults = 1
    Absent = Absent
    Damaged = Damaged
    Zeroed = Zeroed
    None = None
SPECIFICATION Spec
SYMMETRY Symmetry
INVARIANTS TypeOK PromisesKept KeysFitEngine RegisteredWasConfirmed NoPassphraseLeft
PROPERTIES RemovedStaysRemoved
CHECK_DEADLOCK FALSE
