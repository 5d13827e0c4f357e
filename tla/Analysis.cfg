CONSTANTS
    big = big
    small = small
    minPrefixTokens = 3
    minShortfall = 2
    ttlShort = 2
    ttlLong = 4
    Second = 2
    Shapes <- FewShapes
    Bodies <- FewBodies
    maxBuckets = 2
    Gaps = {0, 3, 6}
    MaxEntries = 4
SPECIFICATION Spec
INVARIANTS ResidencyIsContext WindowWhole StreamsApart DoctorsAgree BoundaryBlamedOnce TimelineWhole CompactionShown RollupsAgree
CHECK_DEADLOCK FALSE
