\* A page may be left for good.
CHECK_DEADLOCK FALSE
CONSTANTS
    Call = {c1, c2}
    MaxLost = 1
    Row = {1, 2}
    all = all
    some = some
    View <- Views
    All = all
    Fit <- FitThere
    Span <- SpanThere
    MaxDraft = 2
SPECIFICATION Spec
SYMMETRY Symmetry
INVARIANTS
    
    NothingLost
    NothingTwice
    FlagsExplained
