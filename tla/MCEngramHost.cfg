SPECIFICATION FairSpec
CONSTANTS
    a = a  b = b
    m = m
    s1 = s1  s2 = s2  s3 = s3
    NoTask = NoTask
    Learner <- MCLearner
    Turn <- MCTurn
    Slot <- MCSlot
    Injected = FALSE
INVARIANTS
    HostTypeOK
    CallsHavePool
    FlagsMatchTasks
PROPERTIES
    WriteOutlivesCaller
    CoalescedSpec
    RequestServed
    CloseReturns
