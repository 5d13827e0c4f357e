CONSTANTS
    p1 = p1
    s1 = s1
    s2 = s2
    Passes = {p1}
    GwShapes <- GwMixed
    ReqShapes <- ReqMixed
    NoSession = NoSession
    NoTime = NoTime
    NoTx = NoTx
    Window = 1
    Chunk = 1
    MaxGw = 2
    MaxReq = 2
    MaxFails = 1
SPECIFICATION FairSpec
INVARIANTS TypeOK PairSound NothingMissedImmutable
PROPERTIES LedgerSpec EventuallyPaired
