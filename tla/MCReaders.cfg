SPECIFICATION RSpec
CONSTANTS
    h = h  m = m  n = n  o = o
    c1 = c1  c2 = c2
    Node = {h, m, n, o}
    AtFirst = {h, m, n}
    LinkedAtFirst <- MCLinks
    Call = {c1, c2}
    MaxRows = 3
    MaxCommits = 2
    MaxEvents = 2
    PageSize = 2
    Distance <- MCDistance
    Score <- MCScore
    Weak = {n}
    BlockLen <- MCBlockLen
    HeaderLen = 12
    BufferHeaderLen = 4
    NoteLen = 3
    SeedK = 1
    Hops = 2
    Fanout = 1
    BufferN = 1
    Budgets = {1, 4, 9}
SYMMETRY Symmetric
VIEW Looked
INVARIANTS
    RecallSound
    BudgetKept
    FeedLosesOnlySplitPages
CHECK_DEADLOCK FALSE
