CONSTANTS
    Files = {f1, f2, f3, f4}
    Inrush = FALSE
    Overlap = FALSE
SPECIFICATION Spec
INVARIANTS
    TypeOK
    FlagFollowsFiles
