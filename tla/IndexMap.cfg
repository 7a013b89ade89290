\* Three adapters, so that an absent, a known and a new one meet in one rebuild.
CONSTANTS
    l1 = l1
    l2 = l2
    l3 = l3
    Luids <- McLuids
    Faults = {"table", "save", "backup", "damage", "read"}
    MaxChanges = 3
    MaxCrashes = 2
    MaxFaults = 1
    Absent = Absent
    Damaged = Damaged
SPECIFICATION Spec
SYMMETRY Symmetry
INVARIANTS TypeOK NoSharedIndex IndexNotReused
PROPERTIES IndexKept
CHECK_DEADLOCK FALSE
