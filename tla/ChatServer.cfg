CONSTANTS
    r1 = r1
    r2 = r2
    r3 = r3
    u1 = u1
    u2 = u2
    NoOne = NoOne
    Requests <- MCRequests
    Runs <- MCRuns
    SimRuns <- MCSimRuns
    Vlans <- MCVlans
    Scenarios <- MCScenarios
SPECIFICATION Spec
INVARIANTS
    TypeOK
    PlansOnce
    HandledUpToDate
    PollsAreWhole

PROPERTY AllEnd
