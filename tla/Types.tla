------------------------------- MODULE Types -------------------------------
(***************************************************************************)
(* The bit-vector primitives of lib/bms/Types.cpp.  A DataBits value is a   *)
(* sequence over {0, 1}; its first element is the most significant bit     *)
(* when the vector is read as bytes or as an integer.  A Data value is a   *)
(* sequence of bytes, each an integer below 2^ByteBits (8 in the code).    *)
(***************************************************************************)
EXTENDS Integers, Sequences

CONSTANT ByteBits       \* bits per char of Data: 8 in the code
ASSUME ByteBits \in Nat \ {0}

Bit == {0, 1}

Zeros(m) == [i \in 1..m |-> 0]

\* PadBits: appends nBits zero bits at the end.
PadBits(bits, nBits) == bits \o Zeros(nBits)

\* SliceBits: cuts the first nBits bits out; the pair <<slice, rest>>.
SliceBits(bits, nBits) ==
    <<SubSeq(bits, 1, nBits), SubSeq(bits, nBits + 1, Len(bits))>>

\* CharToBoolVec / DataToBits: every byte as ByteBits bits, MSB first.
CharToBoolVec(ch) == [i \in 1..ByteBits |-> (ch \div 2^(ByteBits - i)) % 2]

RECURSIVE DataToBits(_)
DataToBits(data) ==
    IF data = <<>> THEN <<>> ELSE CharToBoolVec(Head(data)) \o DataToBits(Tail(data))

\* BoolVecToChar / BitsToData: groups of ByteBits bits back into bytes.  The
\* code asserts that the length is a multiple of ByteBits.
RECURSIVE BitsToNat(_)
BitsToNat(bits) ==
    IF bits = <<>> THEN 0 ELSE 2 * BitsToNat(SubSeq(bits, 1, Len(bits) - 1)) + bits[Len(bits)]

BitsToData(bits) ==
    [j \in 1..(Len(bits) \div ByteBits) |->
        BitsToNat(SubSeq(bits, (j - 1) * ByteBits + 1, j * ByteBits))]

\* DataBitsToInt: the loop adds and doubles over all bits but the last and
\* then adds the last one.  It reads data[size()-1], so an empty vector is a
\* read far out of bounds; callers must pass a non-empty vector.
DataBitsToInt(bits) == BitsToNat(bits)
DataBitsToIntDefined(bits) == bits # <<>>

\* IntToDataBits: the minimal big-endian encoding; empty for zero.  The
\* BigInt division truncates towards zero and num & 1 is the parity, so a
\* negative num gives the bits of its magnitude.
RECURSIVE IntToDataBits(_)
IntToDataBits(num) ==
    LET mag == IF num < 0 THEN -num ELSE num
    IN IF mag = 0 THEN <<>> ELSE IntToDataBits(mag \div 2) \o <<mag % 2>>

\* floor(log2(x)) for x >= 1.
RECURSIVE Log2Floor(_)
Log2Floor(x) == IF x < 2 THEN 0 ELSE 1 + Log2Floor(x \div 2)

=============================================================================
