CONSTANTS
    a = a
    b = b
    Codes = {a, b}
    Universes <- MCUniverses
    Statuses <- MCStatuses
    Posts = {p1, p2, p3}
    Readers = {v1}
    None = None
    CompleteMaxAge = 0
    LkgMaxAge = 1
    MaxTime = 1
    MaxFaults = 1
SYMMETRY PostSymmetry
SPECIFICATION Spec
INVARIANTS TypeOK DeltaIsTrue RecordedGapIsKept 
PROPERTY LoneAdvanceIsAnnounced
CHECK_DEADLOCK FALSE
