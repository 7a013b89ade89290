SPECIFICATION Spec
CONSTANTS
    Procs = {svc}
    Service = svc
    Guids = {g1}
    Hosts = {h1}
    BootsMax = 100
    Faults = {"damage"}
    MaxBoot = 3
    MaxStarts = 4
    MaxFaults = 1
    Absent = Absent
    Damaged = Damaged
    None = None
PROPERTY
    BootsNeverBackwards
CHECK_DEADLOCK FALSE
