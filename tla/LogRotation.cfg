SPECIFICATION Spec
CONSTANTS
    Writers = {service, builder, command}
    None = None
    LOG_MAX = 1
    LOG_KEEP = 2
    MaxLines = 8
    MaxFaults = 1
CHECK_DEADLOCK FALSE
INVARIANTS
    LogBounded
    RecentKept
