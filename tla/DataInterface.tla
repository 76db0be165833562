---------------------------- MODULE DataInterface ----------------------------
(***************************************************************************)
(* The four channel codecs of lib/bms/DataInterface.cpp.  Bit widths are   *)
(* constants so that a model can shrink them: SeqNrBits is 32 in the code,  *)
(* KeyPrefix the 8 bits 00000010 of a compressed-key prefix and RandBits    *)
(* the 5 random bits that end a synthesised public key.                     *)
(***************************************************************************)
EXTENDS Maths

CONSTANTS SeqNrBits,    \* bits in a sequence number (32)
          KeyPrefix,    \* the prefix bits of a synthesised pubkey (0x02)
          RandBits,     \* trailing random bits of a synthesised pubkey (5)
          LogSlip       \* the build's log quotient of a power of two falls below it
ASSUME SeqNrBits \in Nat \ {0} /\ KeyPrefix \in Seq(Bit) /\ RandBits \in Nat
       /\ LogSlip \in BOOLEAN

\* EncodeDataInSequenceNr: the bits, read as bytes, as a big-endian integer.
EncodeDataInSequenceNr(bits) == BitsToNat(bits)

\* DecodeDataInSequenceNr: the integer as SeqNrBits bits, MSB first.
DecodeDataInSequenceNr(seq) ==
    [i \in 1..SeqNrBits |-> (seq \div 2^(SeqNrBits - i)) % 2]

\* EncodeDataInPubkey: prefix, a zero bit, the data, and random bits drawn
\* until the key is a valid curve point.  The random bits are fixed here to
\* the ones of one valid point: the decoder never reads them.
EncodeDataInPubkey(data) ==
    KeyPrefix \o <<0>> \o data \o [i \in 1..RandBits |-> 1]

\* DecodeDataInPubkey: drops the first 9 bits (prefix and the zero bit) and
\* the last nRandBits bits.
DecodeDataInPubkey(pk) ==
    SubSeq(pk, Len(KeyPrefix) + 2, Len(pk) - RandBits)

\* (uint32_t)(log(count) / log(2)) in 100-digit decimal floating point.  For
\* a count 2^m > 2 the computed quotient may lie just below m, and the cast
\* truncates it to m - 1; which way it falls is fixed by the build, not by
\* the code, so LogSlip chooses it.  log(1) is exactly 0, and log(2)/log(2)
\* divides a value by itself, exactly 1.
BitsOfCount(count) ==
    IF LogSlip /\ count > 2 /\ 2^Log2Floor(count) = count
    THEN Log2Floor(count) - 1
    ELSE Log2Floor(count)

\* EmbeddableBitsInValues / EmbeddableBitsInPermutation.
EmbeddableBitsInValues(n, k) == BitsOfCount(NumberCompositions(n, k))

EmbeddableBitsInPermutation(k) == BitsOfCount(Factorial(k))

\* EncodeDataInValues: the bits as an index, unranked into a composition of
\* budget into nParts parts.  DataBitsToInt of an empty vector (MaxBits = 0)
\* reads data[size()-1] out of bounds: EncodeDataInValuesDefined is false.
EncodeDataInValues(data, budget, nParts) ==
    IntegerToComposition(DataBitsToInt(data), budget, nParts)

EncodeDataInValuesDefined(data) == DataBitsToIntDefined(data)

\* DecodeDataInValues: the rank of the composition, left-padded with zeros
\* to EmbeddableBitsInValues of the (uint64_t) sum.  The pad count is
\* MaxBits - data.size() in uint32_t; a rank wider than MaxBits makes it
\* wrap and the insert throws: DecodeDataInValuesDefined is false.
RECURSIVE SumU(_)
SumU(vals) == IF vals = <<>> THEN 0 ELSE U(Head(vals) + SumU(Tail(vals)))

DecodeDataInValues(values) ==
    LET maxBits == EmbeddableBitsInValues(SumU(values), Len(values))
        data    == IntToDataBits(CompositionToInteger(values))
    IN Zeros(maxBits - Len(data)) \o data

DecodeDataInValuesDefined(values) ==
    Len(IntToDataBits(CompositionToInteger(values)))
        <= EmbeddableBitsInValues(SumU(values), Len(values))

\* EncodeDataInPermutation: the bits as an index, unranked into a
\* permutation of 0..nParts-1.
EncodeDataInPermutation(data, nParts) ==
    IntegerToPermutation(DataBitsToInt(data), nParts)

\* DecodeDataInPermutation: the rank, left-padded to MaxBits.
DecodeDataInPermutation(perm) ==
    LET data == IntToDataBits(PermutationToInteger(perm))
    IN Zeros(EmbeddableBitsInPermutation(Len(perm)) - Len(data)) \o data

DecodeDataInPermutationDefined(perm) ==
    Len(IntToDataBits(PermutationToInteger(perm)))
        <= EmbeddableBitsInPermutation(Len(perm))

=============================================================================
