CONSTANTS
    i1 = i1
    i2 = i2
    i3 = i3
    Idents = {i1, i2, i3}
    NeedDistinct = 2
    MaxBlocksPerIdent = 2
    MaxLines = 6
SPECIFICATION Spec
SYMMETRY AnyIdent
INVARIANTS VerdictMatchesText
CHECK_DEADLOCK FALSE
