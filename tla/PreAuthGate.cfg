\* Two buckets for four allowed sources; a bucket refills in Idle units.
CONSTANTS
    local = local
    m1 = m1
    m2 = m2
    m3 = m3
    stranger = stranger
    None = None
    Sources <- McSources
    Loopback <- McLoopback
    Networks <- McNetworks
    MaxTracked = 2
    Rate = 1
    Burst = 3
    Cost = 2
    Idle = 3
    MaxTime = 7
SPECIFICATION Spec
SYMMETRY Symmetry
INVARIANTS TypeOK TableBounded OutsidersLeaveNoTrace
PROPERTIES KnownSourceKept TurnedAwayOnlyWhenBusy RateLimited
