SPECIFICATION ExtractSpec
CONSTANTS
    n1 = n1  n2 = n2  n3 = n3
    em = em  emAbbr = emAbbr  opt = opt  dashes = dashes
    Null = Null  NaN = NaN  Word = Word  NoLetters = NoLetters
    Node = {n1, n2, n3}
    Curriculum = {n3}
    Form <- MCForm
    NormOf <- MCNormOf
    Graphs <- MCGraphs
    Number <- MCNumber
    MaxCandidates = 1
    MaxItems = 2
    MaxPlans = 1
INVARIANTS
    MasteryHonest
    EvidenceAllOrNone
    NothingInvented
CHECK_DEADLOCK FALSE
