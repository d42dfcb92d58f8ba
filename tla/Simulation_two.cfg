\* Two starts overlap.
SPECIFICATION Spec
CONSTANTS
    Runs = {r1, r2}
    MaxStarts <- ConstStarts
    MaxPolls = 1
    MaxFaults = 0
    Overlapping = TRUE
    Unset = Unset
INVARIANTS
    OneSimulationAtATime
CHECK_DEADLOCK FALSE
