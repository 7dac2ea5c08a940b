CONSTANTS
    MaxSeq <- MC_MaxSeq
    Orderings <- MC_Orderings
SPECIFICATION Spec
INVARIANT
    AbsentRecordIsNotFound
