\* The moment that passes while the pass runs.
SPECIFICATION FairLoopSpec
CONSTANTS
    Tracked = {m1}
    MaxClock = 2
    Unstated = Unstated
PROPERTY PassedMomentServed
CHECK_DEADLOCK FALSE
