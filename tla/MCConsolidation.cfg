SPECIFICATION FairSpec
CONSTANTS
    e1 = e1  e2 = e2  e3 = e3
    a = a  b = b  d = d
    k1 = k1  k2 = k2
    c1 = c1  c2 = c2
    NoCall = NoCall
    Event <- MCEvent
    Learner <- MCLearner
    OwnerOf <- MCOwnerOf
    Key <- MCKey
    KeyOf <- MCKeyOf
    Call <- MCCall
INVARIANTS
    TypeOK
    OneRunPerKey
    ExactlyOnce
    DoneMeansConsolidated
PROPERTIES
    LockIsFreed
    LedgerSpec
