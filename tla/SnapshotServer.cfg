\* Three lasting rows among four; one row alone is larger than the budget.
CONSTANTS
    None = None
    Oids = {1, 2, 3, 4}
    Stable = {1, 2, 4}
    Size <- McSize
    Budget = 4
    MaxRepCap = 2
    MaxReps = 3
    Polls = {{2, 3}}
    MaxBuilds = 2
    MaxTroubles = 2
SPECIFICATION Spec
INVARIANTS TypeOK WalkComplete ExactlyOnce SliceIsTheLoop
PROPERTIES WalkEnds
