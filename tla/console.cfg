SPECIFICATION Spec
CONSTANTS
    Saves = {s1, s2}
    Tours <- MCTours
    None = None
INVARIANTS TypeOK OwnSavesAreListed
PROPERTY AnswersCloseTheirDialog
SYMMETRY Symmetry
CHECK_DEADLOCK FALSE
