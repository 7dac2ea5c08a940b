CONSTANTS
    MaxSeq <- MC_MaxSeq
    Orderings <- MC_Orderings
SPECIFICATION Spec
INVARIANTS
    TypeOK
    ResultConsistent
