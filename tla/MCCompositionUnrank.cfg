CONSTANTS
    Word <- MCWord
    MaxN <- MCMaxN
    MaxK <- MCMaxK
    ByteBits = 8

SPECIFICATION Spec

INVARIANT TypeOK
INVARIANT PartsFinal
INVARIANT UnrankInverse
INVARIANT DownLoopNeverIterates
PROPERTY Terminates
