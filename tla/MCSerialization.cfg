CONSTANTS
    InitFiles <- MCLayoutsWritable
    TxIds <- MCTxIds
    HexLen = 2
    MaxRuns = 4
    Crash = TRUE
    Secrets <- MCSecrets
    PubBitsOf <- MCPubBitsOf
    SuffixBits = 1
SPECIFICATION Spec
CHECK_DEADLOCK FALSE
INVARIANTS TypeOK StateDurableUnlessTruncated KeyMapComplete
PROPERTIES GenerateKeypairMapEnds
