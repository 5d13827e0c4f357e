CONSTANTS
    p1 = p1
    p2 = p2
    s1 = s1
    s2 = s2
    Passes = {p1, p2}
    GwShapes <- GwPair
    ReqShapes <- ReqPair
    NoSession = NoSession
    NoTime = NoTime
    NoTx = NoTx
    Window = 1
    Chunk = 1
    MaxGw = 2
    MaxReq = 1
    MaxFails = 1
SPECIFICATION Spec
INVARIANT ClaimedOnce
SYMMETRY EitherPass
