CONSTANTS
    m1 = m1
    t1 = t1
    p1 = p1
    Sources <- TreeThenDB
    Ingesters = {p1}
    Messages = {m1}
    Parts = {t1}
    Parent <- ParentOf
    Role <- AllAssistant
    MaxVersion <- Versions
    MaxFails = 1
SPECIFICATION FairSpec
INVARIANTS SkipStored UsageCurrent
PROPERTY UsageSettles
