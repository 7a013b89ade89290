SPECIFICATION Spec
CONSTANTS
    None = None
    Raised = Raised
    Misshapen = Misshapen
    l1 = l1
    l2 = l2
    l3 = l3
    U32 = 65536
    Mega = 10
    MAX_STRUCTURES = 64
    MAX_INSTANCES = 8
    Placeholders = {"To be filled by O.E.M."}
    IfIndex <- MCIfIndex
    SmartFits = 2
    Machines <- MCMachines
    Fallible = {"interfaces", "perf_info", "processes", "sessions", "memory",
                "inventory", "cpu"}
    enable_arp_table = TRUE
    MaxBuilds = 2
    MaxEvents = 2
CHECK_DEADLOCK FALSE
INVARIANTS
    TypeOK
    GuardOnlyForShared
    RowsPointRight
    FailureIsShown
    DiskVerdict
    MaxKept
