CONSTANTS
    a = a
    b = b
    c1 = c1
    r1 = r1
    t1 = t1
    t2 = t2
    t3 = t3
    p1 = p1
    Order <- TwoFiles
    Ingesters = {p1}
    Lines <- SomeLines
    NoTitle = NoTitle
    NoSession = NoSession
    Texts <- ShortTexts
    MaxFails = 1
SPECIFICATION FairSpec
INVARIANTS TypeOK SkipSound ReferencedEarned TitleCurrent
PROPERTY EventuallyStored
