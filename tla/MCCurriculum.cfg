SPECIFICATION CSpec
CONSTANTS
    a = a  b = b  c = c  d = d
    n1 = n1
    blank = blank
    Blank = blank
    ConceptId <- MCConceptId
    DynNode = {n1}
    EdgeKind = {"prerequisite", "part_of"}
    Ontologies <- MCOntologies
    MaxWrites = 3
INVARIANTS
    AcceptedIsAcyclic
    RejectedHasCause
    BlockersExact
CHECK_DEADLOCK FALSE
