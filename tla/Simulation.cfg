\* Two runs nobody watches, or one on a page with two requests in flight; two faults.
SPECIFICATION FairSpec
CONSTANTS
    Runs = {r1, r2}
    MaxStarts <- ConstStarts
    MaxPolls = 2
    MaxFaults = 2
    Overlapping = FALSE
    Unset = Unset
INVARIANTS
    TypeOK
    K6RunsForTheActive
    HistoryTellsTheEnd
PROPERTIES
    SlotIsReleased
    PageLearnsTheEnd
CHECK_DEADLOCK FALSE
