SPECIFICATION KSpec
CONSTANTS
    e1 = e1 e2 = e2
    a = a  k1 = k1
    c1 = c1 
    n1 = n1  n2 = n2  n3 = n3
    o1 = o1 
    em = em  emf = emf  opt = opt 
    NoCall = NoCall
    NoSeed = NoSeed
    Event <- MCEvent
    Learner <- MCLearner
    OwnerOf <- MCOwnerOf
    Key <- MCKey
    KeyOf <- MCKeyOf
    Call <- MCCall
    DynId <- MCDynId
    OntId <- MCOntId
    Label <- MCLabel
    KindOf <- MCKindOf
    Detail <- MCDetail
    Twin <- MCTwin
    Near <- MCNear
    MaxSal = 2
    Curriculum <- MCCurriculum
    Legacy <- MCLegacy
    MaxCandidates = 1
    MaxRelations = 1
    RelType = {"relates_to", "prerequisite"}
SYMMETRY Symmetric
VIEW WithoutReports
PROPERTIES
    EvidenceConserved
    EdgesOnlyStrengthen
