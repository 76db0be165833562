CONSTANTS
    InitFiles <- MCLayoutsDocumented
    TxIds <- MCTxIds
    HexLen = 2
    MaxRuns = 4
    Crash = FALSE
    Secrets <- MCSecrets
    PubBitsOf <- MCPubBitsOf
    SuffixBits = 1
SPECIFICATION Spec
CHECK_DEADLOCK FALSE
INVARIANT StateDurable
