SPECIFICATION KSpec
CONSTANTS
    e1 = e1
    a = a  k1 = k1
    c1 = c1  c2 = c2
    n1 = n1  n2 = n2  n3 = n3
    o1 = o1  o2 = o2
    em = em  emf = emf  opt = opt  aim = aim
    NoCall = NoCall
    NoSeed = NoSeed
    Event <- MCEvent
    Learner <- MCLearner
    OwnerOf <- MCOwnerOf
    Key <- MCKey
    KeyOf <- MCKeyOf
    Call <- MCCall
    DynId <- MCDynId
    OntId <- MCOntId
    Label <- MCLabel
    KindOf <- MCKindOf
    Detail <- MCDetail
    Twin <- MCTwin
    Near <- MCNear
    MaxSal = 2
    Curriculum <- MCCurriculum
    Legacy <- MCLegacy
    MaxCandidates = 2
    MaxRelations = 2
    RelType = {"relates_to", "prerequisite"}
INVARIANTS
    CurriculumTextSticks
