CONSTANTS
    Word <- MCWord
    ByteBits = 1
    SeqNrBits = 1
    KeyPrefix <- MCKeyPrefix
    RandBits = 1
    LogSlip = FALSE
    NulldataBits = 2
    SuffixBits = 1
    KeyBits = 1
    MaxExtraKeys = 1
    MaxScriptHash = 3
    Dust = 1
    FeeRate = 2
    Kilo = 200
    Bytes <- MCBytes
    KeyBody <- MCKeyBody
    Payloads <- MCPayloads
    Budgets <- MCBudgets
    MaxPrevOuts = 2
SPECIFICATION Spec
INVARIANT TypeOK
INVARIANT FundedEmbedNeverCrashes
INVARIANT FundedChainStandard
INVARIANT RoundTrip
INVARIANT ExtractNeverThrows
