SPECIFICATION ESpec
CONSTANTS
    r1 = r1
    concepts = concepts  integrity = integrity  mistyped = mistyped
    NoRun = NoRun
    RunId = {r1}
    Scenarios <- MCScenarios
    Registered = {concepts, integrity}
    Drain = integrity
    Budgets = {2, 4, 20}
    Concurrency = 2
    Sample = 4
INVARIANTS
    ReportHonest
    CapStopsTheRun
    GateNeedsMajority
PROPERTIES
    StreamEnds
CHECK_DEADLOCK FALSE
