CONSTANTS
    RawChars <- MCRawChars
    EoF = 3
    MaxFreq = 2
    MaxLen = 3
    MaxPad = 2
SPECIFICATION Spec
INVARIANT DecompressRequiresEoF
