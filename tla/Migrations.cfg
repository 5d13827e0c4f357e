CONSTANTS
    p1 = p1
    p2 = p2
    Openers = {p1, p2}
    OldVersions <- AnyVersion
    MaxKills = 1
SPECIFICATION MigrateFairSpec
INVARIANTS SchemaSound
PROPERTIES NeverBack Settles
