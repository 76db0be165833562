------------------------ MODULE MCBlockchainInterface ------------------------
(***************************************************************************)
(* The chain builder with every channel narrowed: one bit per sequence     *)
(* number, first-key suffix and further key, two nulldata bits, at most    *)
(* three P2SH pairs of at most two keys, a dust bound of 1 and a FeeRate of *)
(* 2 per 200 bytes, so that fees of one to four FeeRate occur.  Serialized  *)
(* sizes are those of Bitcoin's wire format.  Messages are every bit        *)
(* string up to 5 bits, which exercises every channel of a single link,    *)
(* and longer ones of a few patterns, which need two or three links.       *)
(***************************************************************************)
EXTENDS BlockchainInterface

MCWord == 128

\* The compressed-key prefix 0x02 and the bits of a keypair-map key before
\* its suffix, both cut to two bits.
MCKeyPrefix == <<0, 1>>
MCKeyBody == <<1, 1>>

MCBytes == [tx |-> 10, in |-> 41, sig |-> 77, key |-> 34, wsig |-> 107,
            p2sh |-> 32, nulldata |-> 51, change |-> 34, none |-> 9]

\* A fixed pseudo-random bit string (a linear congruential generator).
RECURSIVE LcgBits(_, _)
LcgBits(len, x) ==
    IF len = 0 THEN <<>> ELSE <<(x \div 8) % 2>> \o LcgBits(len - 1, (5 * x + 3) % 64)

MCPayloads ==
    UNION {[1..l -> Bit] : l \in 1..5}
    \cup {LcgBits(l, l) : l \in {8, 11, 14, 17, 20, 24, 28, 32}}
    \cup {[i \in 1..l |-> 1] : l \in {9, 16, 23}}

MCBudgets == 0..24

=============================================================================
