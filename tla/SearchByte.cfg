CONSTANTS
    MinQuery = 1
    MaxQuery = 1
    MaxText = 2
    Sessions <- Three
    Alphabet <- AllLetters
    Source <- Kinds
    Catalog <- Stored
    NewLines <- Written
    Scenarios <- Inputs
    Chunk = 2
    Slots = 1
    maxHits = 1
    scanLimit = 3
    listLimit = 2
    Limits = {0, 2}
    defaultTranscriptPage = 1
SPECIFICATION ViewFairSpec
PROPERTIES SearchEnds
CHECK_DEADLOCK FALSE
