\* Two failed starts and two stops, so that each can follow the other.
SPECIFICATION Spec
CONSTANTS
    MaxFailures = 2
    MaxStops = 2
INVARIANT TypeOK
PROPERTIES
    StopIsNoCrash
    NeverAliveButDead
    StopEndsService
    DeathIsRecovered
