SPECIFICATION Spec
CONSTANTS
    d1 = d1
    d2 = d2
    d3 = d3
    d4 = d4
    w1 = w1
    w2 = w2
    Docs = {d1, d2, d3, d4}
    Existing <- FirstThree
    Writers = {w1, w2}
    Menu <- EveryRequest
    MaxInt = 7
    MaxPerPage = 3
    DefaultPerPage = 1
SYMMETRY WriterSymmetry
CHECK_DEADLOCK FALSE
INVARIANT TypeOK
INVARIANT PagesTile
INVARIANT WalkMissesOnlyWhatReceded
INVARIANT AnswersAddUp
