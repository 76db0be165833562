------------------------- MODULE BlockchainInterface -------------------------
(***************************************************************************)
(* The chain builder and reader of lib/bms/BlockchainInterface.cpp: the     *)
(* per-transaction planner OptimizeParams, EmbedData (one action per       *)
(* iteration of its do-while loop, then the terminator), the signing of    *)
(* AuthorizeTransactions and ExtractData (one action per transaction       *)
(* pair).  A transaction is a record of inputs and outputs; a script is     *)
(* kept only as far as a decoder or the fee reads it.  Amounts are uint64_t *)
(* modulo Word when the code computes them and CAmount (int64_t) when they  *)
(* are stored in an output.                                                 *)
(***************************************************************************)
EXTENDS DataInterface
LOCAL INSTANCE SequencesExt

CONSTANTS NulldataBits,   \* bits in the nulldata output (320)
          SuffixBits,     \* Keymap.SuffixBits: bits in the first pubkey (s)
          KeyBits,        \* payload bits per further pubkey (250)
          MaxExtraKeys,   \* further pubkeys per redeem script (11)
          MaxScriptHash,  \* largest number of P2SH outputs (14)
          Dust,           \* lower bound of a split output value (546)
          FeeRate,        \* TxFeeRate, satoshi per Kilo bytes
          Kilo,           \* the 1000 of ceil(Size / 1000.0)
          Bytes,          \* serialized sizes of the parts of a transaction
          KeyBody,        \* the bits of a keypair-map pubkey before its suffix
          Payloads,       \* compressed messages given to EmbedData
          Budgets,        \* budgets given to EmbedData
          MaxPrevOuts     \* largest number of wallet outputs SelectInputs picks

ASSUME /\ {NulldataBits, SuffixBits, KeyBits, MaxExtraKeys, Dust, FeeRate, Kilo}
            \subseteq Nat \ {0}
       /\ MaxScriptHash \in Nat /\ MaxScriptHash >= 2
       /\ Payloads \subseteq Seq(Bit) \ {<<>>}
       /\ Budgets \subseteq 0..(Word \div 2 - 1)
       /\ MaxPrevOuts \in Nat \ {0}

\* A uint64_t stored in a CAmount.
Signed(x) == IF x >= Word \div 2 THEN x - Word ELSE x

\* COutPoint's null index (uint32_t max); no decoder ever reads it.
NullIndex == -1

\* CTxIn() and CTxOut(): sequence number 0xFFFFFFFF, value -1, no script.
\* keys is the redeem script of a P2SH scriptSig, wsig a wallet signature.
EmptyIn  == [n |-> NullIndex, seq |-> 2^SeqNrBits - 1, keys |-> <<>>, wsig |-> FALSE]
EmptyOut == [value |-> -1, kind |-> "none", script |-> <<>>]
EmptyTx  == [vin |-> <<>>, vout |-> <<>>]

\* GetSerializeSize: a signed P2SH input carries a signature and the
\* 1-of-m redeem script, a wallet input its signature once signed.
InSize(in) ==
    Bytes.in + IF in.keys # <<>> THEN Bytes.sig + Bytes.key * Len(in.keys)
               ELSE IF in.wsig THEN Bytes.wsig ELSE 0

SizeOf(tx) ==
    Bytes.tx + SumFunction([j \in DOMAIN tx.vin |-> InSize(tx.vin[j])])
             + SumFunction([j \in DOMAIN tx.vout |-> Bytes[tx.vout[j].kind]])

\* Utilities::TransactionFee(tx): FeeRate * ceil(Size / 1000.0).
TransactionFee(tx) == FeeRate * ((SizeOf(tx) + Kilo - 1) \div Kilo)

\* Utilities::TransactionFee(chain).
ChainFee(txs) == SumFunction([j \in DOMAIN txs |-> TransactionFee(txs[j])])

CeilDiv(a, b) == (a + b - 1) \div b

(***************************************************************************)
(* OptimizeParams: sweep nScriptHash down from 14 over a copy of tx whose  *)
(* outputs are dummies; record a choice whenever the capacity covers the    *)
(* bits (and always at 14); stop at the first one that does not, or at 0.   *)
(***************************************************************************)
OptimizeParams(tx, bits, nBudget) ==
    IF bits = <<>>
    THEN [nScriptHash |-> 0, nNulldata |-> 0, nFees |-> TransactionFee(tx)]
    ELSE
    LET RECURSIVE Sweep(_, _)
        Sweep(k, params) ==
          LET keys  == k * (SuffixBits + MaxExtraKeys * KeyBits) + k * SeqNrBits
              nd    == IF (k = 1 /\ Len(bits) > keys) \/ k >= 2 THEN 1 ELSE 0
              tmp   == [vin  |-> tx.vin,
                        vout |-> [j \in 1..(k + nd) |->
                                   [EmptyOut EXCEPT !.kind =
                                      IF j <= k THEN "p2sh" ELSE "nulldata"]]]
              nFees == TransactionFee(tmp)
              split == IF k < 2 THEN 0
                       ELSE (IF nBudget >= nFees
                             THEN EmbeddableBitsInValues(nBudget - nFees, k)
                             ELSE 0) + EmbeddableBitsInPermutation(k)
              total == keys + nd * NulldataBits + split
              rec   == total >= Len(bits) \/ k = MaxScriptHash
              next  == IF rec THEN [nScriptHash |-> k, nNulldata |-> nd,
                                    nFees |-> nFees]
                       ELSE params
              k2    == IF rec THEN k - 1 ELSE k
          IN IF total >= Len(bits) /\ k2 > 0 THEN Sweep(k2, next) ELSE next
    IN Sweep(MaxScriptHash, [nScriptHash |-> 0, nNulldata |-> 0, nFees |-> 0])

(***************************************************************************)
(* The Pack functions.  Each takes the remaining bits and returns what it   *)
(* leaves of them: SeqNr, Nulldata and P2SH pad the remaining bits          *)
(* themselves before slicing, the budget channels pad only their slice.     *)
(***************************************************************************)
\* The first w bits of bits padded with zeros to w, and what follows them.
Take(bits, w) ==
    LET padded == PadBits(bits, w - MinOf(w, Len(bits)))
    IN SliceBits(padded, w)

PackDataIntoSeqNr(bits, in) ==
    LET t == Take(bits, SeqNrBits)
    IN [bits |-> t[2], in |-> [in EXCEPT !.seq = EncodeDataInSequenceNr(t[1])]]

\* The OP_RETURN script: opcode 0x6a, a push of the bytes, then the bytes.
PackDataIntoNulldata(bits) ==
    LET t == Take(bits, NulldataBits)
    IN [bits |-> t[2],
        out  |-> [value |-> 0, kind |-> "nulldata",
                  script |-> <<106, NulldataBits \div ByteBits>> \o BitsToData(t[1])]]

\* PackDataIntoP2SH: the keypair-map pubkey whose suffix is the next s bits,
\* then min(11, ceil(|bits| / 250)) synthesised pubkeys of 250 bits each.
\* The keys form the redeem script of the next transaction's input.
PackDataIntoP2SH(bits) ==
    LET first  == Take(bits, SuffixBits)
        nExtra == MinOf(MaxExtraKeys, CeilDiv(Len(first[2]), KeyBits))
        RECURSIVE Extra(_, _)
        Extra(i, bs) ==
            IF i > nExtra THEN <<<<>>, bs>>
            ELSE LET t == Take(bs, KeyBits)
                     r == Extra(i + 1, t[2])
                 IN <<<<EncodeDataInPubkey(t[1])>> \o r[1], r[2]>>
        extra  == Extra(1, first[2])
    IN [bits |-> extra[2], keys |-> <<KeyBody \o first[1]>> \o extra[1]]

\* Fault variant: the lower bound reserved but not added back to the values.
PackDataIntoBudgetSplitNoLbound(bits, outs, budget, lbound) ==
    LET k       == Len(outs)
        n       == U(budget - k * lbound)
        maxBits == EmbeddableBitsInValues(n, k)
        nBits   == MinOf(maxBits, Len(bits))
        slice   == PadBits(SubSeq(bits, 1, nBits), maxBits - nBits)
        ok      == budget >= k * lbound /\ EncodeDataInValuesDefined(slice)
        values  == EncodeDataInValues(slice, n, k)
    IN [bits |-> SubSeq(bits, nBits + 1, Len(bits)),
        outs |-> IF ok THEN [j \in 1..k |-> [outs[j] EXCEPT !.value = Signed(values[j])]]
                 ELSE outs,
        ok   |-> ok]

\* PackDataIntoBudgetSplit: composition of budget - k*lbound into k values.
\* ok is false where the code aborts: the assert on the budget, or the out
\* of bounds read of DataBitsToInt when MaxBits is 0.
PackDataIntoBudgetSplit(bits, outs, budget, lbound) ==
    LET k       == Len(outs)
        n       == U(budget - k * lbound)
        maxBits == EmbeddableBitsInValues(n, k)
        nBits   == MinOf(maxBits, Len(bits))
        slice   == PadBits(SubSeq(bits, 1, nBits), maxBits - nBits)
        ok      == budget >= k * lbound /\ EncodeDataInValuesDefined(slice)
        values  == EncodeDataInValues(slice, n, k)
    IN [bits |-> SubSeq(bits, nBits + 1, Len(bits)),
        outs |-> IF ok THEN [j \in 1..k |->
                               [outs[j] EXCEPT !.value = Signed(U(values[j] + lbound))]]
                 ELSE outs,
        ok   |-> ok]

\* Fault variant: every input takes perm[0].
PackDataIntoBudgetClaimFirstIndex(bits, ins) ==
    LET k       == Len(ins)
        maxBits == EmbeddableBitsInPermutation(k)
        nBits   == MinOf(maxBits, Len(bits))
        slice   == PadBits(SubSeq(bits, 1, nBits), maxBits - nBits)
        perm    == EncodeDataInPermutation(slice, k)
    IN [bits |-> SubSeq(bits, nBits + 1, Len(bits)),
        ok   |-> DataBitsToIntDefined(slice),
        ins  |-> [j \in 1..k |-> [ins[j] EXCEPT !.n = perm[1]]]]

\* PackDataIntoBudgetClaim: input i claims output perm[i].  ok is false
\* where EncodeDataInPermutation's DataBitsToInt reads an empty slice.
PackDataIntoBudgetClaim(bits, ins) ==
    LET k       == Len(ins)
        maxBits == EmbeddableBitsInPermutation(k)
        nBits   == MinOf(maxBits, Len(bits))
        slice   == PadBits(SubSeq(bits, 1, nBits), maxBits - nBits)
        ok      == DataBitsToIntDefined(slice)
        perm    == EncodeDataInPermutation(slice, k)
    IN [bits |-> SubSeq(bits, nBits + 1, Len(bits)),
        ok   |-> ok,
        ins  |-> IF ok THEN [j \in 1..k |-> [ins[j] EXCEPT !.n = perm[j]]] ELSE ins]

\* The loop over the P2SH pairs: for input i, P2SH on the output it claims
\* (which becomes a P2SH output; the input is signed with the redeem
\* script), then SeqNr on the input.
RECURSIVE PackPairs(_, _, _, _)
PackPairs(i, bits, outs, ins) ==
    IF i > Len(ins) THEN [bits |-> bits, outs |-> outs, ins |-> ins]
    ELSE LET p == PackDataIntoP2SH(bits)
             s == PackDataIntoSeqNr(p.bits, [ins[i] EXCEPT !.keys = p.keys])
         IN PackPairs(i + 1, s.bits,
                      [outs EXCEPT ![ins[i].n + 1].kind = "p2sh"],
                      [ins EXCEPT ![i] = s.in])

(***************************************************************************)
(* One iteration of EmbedData's do-while loop on txs[idx] (0-based idx, as *)
(* in the code) and the next transaction, in the stages of the loop body;  *)
(* each stage takes the previous one's result as a parameter.  k          *)
(* placeholder outputs and inputs are inserted at the front one at a time, *)
(* each insertion followed by vin[i].prevout.n = i: only the first one     *)
(* inserted keeps an index, k-1, the others keep the null one.             *)
(***************************************************************************)
\* The claim on the inputs after the split sp of the outputs.
ClaimAfterSplit(sp, ins0) ==
    LET cl == PackDataIntoBudgetClaim(sp.bits, ins0)
    IN [bits |-> cl.bits, ok |-> sp.ok /\ cl.ok, outs |-> sp.outs, ins |-> cl.ins]

WithNulldata(s1, nd) == [s1 EXCEPT !.bits = nd.bits, !.outs = Append(@, nd.out)]

\* The budget channels: a single output takes nBudget - nFees; two or more
\* carry the split (skipped when nBudget < nFees) and then the claim.
SplitAndClaim(bits, outs0, ins0, nBudget, nFees) ==
    IF Len(outs0) = 1
    THEN [bits |-> bits, ok |-> TRUE,
          outs |-> [outs0 EXCEPT ![1].value = Signed(U(nBudget - nFees))],
          ins  |-> [ins0 EXCEPT ![1].n = 0]]
    ELSE IF Len(outs0) >= 2
    THEN ClaimAfterSplit(IF nBudget >= nFees
                         THEN PackDataIntoBudgetSplit(bits, outs0, U(nBudget - nFees), Dust)
                         ELSE [bits |-> bits, outs |-> outs0, ok |-> TRUE],
                         ins0)
    ELSE [bits |-> bits, ok |-> TRUE, outs |-> outs0, ins |-> ins0]

\* The nulldata output, appended after the P2SH outputs.
NulldataStage(s1, nNulldata) ==
    IF nNulldata = 1
    THEN WithNulldata(s1, PackDataIntoNulldata(s1.bits))
    ELSE s1

\* The bits left, the budget update and the next transaction when bits remain.
EmbedResult(ok, s3, nBudget, nFees, txs, idx) ==
    LET txs2 == [txs EXCEPT ![idx + 1].vout = s3.outs, ![idx + 2].vin = s3.ins]
    IN [ok      |-> ok,
        bits    |-> s3.bits,
        nBudget |-> U(nBudget - nFees),
        txs     |-> IF s3.bits # <<>> THEN Append(txs2, EmptyTx) ELSE txs2,
        idx     |-> IF s3.bits # <<>> THEN idx + 1 ELSE idx]

\* The nulldata output, then the P2SH pairs, then the tail of the body.
EmbedTail(s1, p, nBudget, txs, idx) ==
    LET s2 == NulldataStage(s1, p.nNulldata)
    IN EmbedResult(s1.ok, PackPairs(1, s2.bits, s2.outs, s2.ins), nBudget, p.nFees, txs, idx)

\* The loop body with the planner's parameters p.
EmbedWithParams(p, bits, nBudget, txs, idx) ==
    LET k     == p.nScriptHash
        outs0 == [j \in 1..k |-> EmptyOut] \o txs[idx + 1].vout
        ins0  == [j \in 1..k |-> [EmptyIn EXCEPT !.n = IF j = k THEN k - 1
                                                        ELSE NullIndex]]
                 \o txs[idx + 2].vin
    IN EmbedTail(SplitAndClaim(bits, outs0, ins0, nBudget, p.nFees), p, nBudget, txs, idx)

EmbedIteration(bits, nBudget, txs, idx) ==
    EmbedWithParams(OptimizeParams(txs[idx + 1], bits, nBudget), bits, nBudget, txs, idx)

\* The terminator: the planner on txs[idx+1] with no bits gives the fee of
\* that transaction as it stands, before the change output is appended.
Terminate(txs, idx, nBudget) ==
    LET nFees == OptimizeParams(txs[idx + 2], <<>>, nBudget).nFees
    IN [txs EXCEPT ![idx + 2].vout =
            Append(@, [value |-> Signed(U(nBudget - nFees)), kind |-> "change",
                       script |-> <<>>])]

\* The do-while loop from the result of its first pass; a run that would
\* abort is cut short with its chain so far.
RECURSIVE EmbedLoop(_)
EmbedLoop(r) ==
    IF ~r.ok \/ r.bits = <<>> THEN r
    ELSE EmbedLoop(EmbedIteration(r.bits, r.nBudget, r.txs, r.idx))

TerminateLoop(r) == Terminate(r.txs, r.idx, r.nBudget)

\* EmbedData as a function, for MinimumBudget: the loop, then the terminator.
EmbedData(data, nBudget, nPrevOuts) ==
    LET tx0 == [EmptyTx EXCEPT !.vin = [j \in 1..nPrevOuts |-> [EmptyIn EXCEPT !.n = 0]]]
    IN TerminateLoop(EmbedLoop(EmbedIteration(data, nBudget, <<tx0, EmptyTx>>, 0)))

\* Fault variant: no reserve beyond the fees of the zero-budget chain.
MinimumBudgetNoReserve(nBits) == ChainFee(EmbedData(Zeros(nBits), 0, 0))

\* Utilities::MinimumBudget: the fees of a chain for nBits zero bits built
\* with budget 0 and no wallet inputs, plus two FeeRate.
MinimumBudget(nBits) == ChainFee(EmbedData(Zeros(nBits), 0, 0)) + 2 * FeeRate

(***************************************************************************)
(* The Unpack functions and one iteration of ExtractData's loop.  ok is    *)
(* false where a decoder's pad count wraps and the insert throws.           *)
(***************************************************************************)
\* The last s bits of the first pubkey, then the middle of each further one.
UnpackDataFromP2SH(in) ==
    LET pk1 == in.keys[1]
    IN SubSeq(pk1, Len(pk1) - SuffixBits + 1, Len(pk1))
       \o FlattenSeq([j \in 1..(Len(in.keys) - 1) |->
                         DecodeDataInPubkey(in.keys[j + 1])])

\* The script without its opcode and push byte, as bits.
UnpackDataFromNulldata(out) == DataToBits(SubSeq(out.script, 3, Len(out.script)))

SplitValues(outs, lbound) == [j \in DOMAIN outs |-> U(outs[j].value - lbound)]

ClaimPerm(ins) == [j \in DOMAIN ins |-> ins[j].n]

\* Fault variant: the nulldata output read before the budget channels.
ExtractIterationNulldataFirst(txs, idx) ==
    LET vout   == txs[idx + 1].vout
        vin    == txs[idx + 2].vin
        nd     == IF Len(vout) >= 2 THEN 1 ELSE 0
        k      == Len(vout) - nd
        values == SplitValues(SubSeq(vout, 1, k), Dust)
        perm   == ClaimPerm(SubSeq(vin, 1, k))
        budget == IF k >= 2 THEN DecodeDataInValues(values)
                                 \o DecodeDataInPermutation(perm)
                  ELSE <<>>
        null   == IF nd = 1 THEN UnpackDataFromNulldata(vout[Len(vout)]) ELSE <<>>
        pairs  == FlattenSeq([j \in 1..k |->
                     UnpackDataFromP2SH(vin[j]) \o DecodeDataInSequenceNr(vin[j].seq)])
    IN [ok   |-> k < 2 \/ (DecodeDataInValuesDefined(values)
                          /\ DecodeDataInPermutationDefined(perm)),
        bits |-> null \o budget \o pairs]

ExtractIteration(txs, idx) ==
    LET vout   == txs[idx + 1].vout
        vin    == txs[idx + 2].vin
        nd     == IF Len(vout) >= 2 THEN 1 ELSE 0
        k      == Len(vout) - nd
        outs   == SubSeq(vout, 1, k)
        values == SplitValues(outs, Dust)
        perm   == ClaimPerm(SubSeq(vin, 1, k))
        budget == IF k >= 2 THEN DecodeDataInValues(values)
                                 \o DecodeDataInPermutation(perm)
                  ELSE <<>>
        null   == IF nd = 1 THEN UnpackDataFromNulldata(vout[Len(vout)]) ELSE <<>>
        pairs  == FlattenSeq([j \in 1..k |->
                     UnpackDataFromP2SH(vin[j]) \o DecodeDataInSequenceNr(vin[j].seq)])
    IN [ok   |-> k < 2 \/ (DecodeDataInValuesDefined(values)
                          /\ DecodeDataInPermutationDefined(perm)),
        bits |-> budget \o null \o pairs]

-----------------------------------------------------------------------------
VARIABLES data,       \* the compressed message
          budget0,    \* the budget SelectInputs gathered
          minBudget,  \* MinimumBudget(|data|), what Main asks SelectInputs for
          bits,       \* EmbedData's remaining bits
          nBudget,    \* EmbedData's remaining budget (uint64_t)
          txs,        \* the chain
          idx,        \* EmbedData's current transaction (0-based)
          pc,         \* "embed", "authorize", "extract", "done" or "crash"
          out,        \* ExtractData's bits so far
          ridx        \* ExtractData's current transaction (0-based)

vars == <<data, budget0, minBudget, bits, nBudget, txs, idx, pc, out, ridx>>

Init ==
    /\ data \in Payloads
    /\ minBudget = MinimumBudget(Len(data))
    /\ budget0 \in Budgets
    /\ bits = data /\ nBudget = budget0 /\ idx = 0
    /\ \E nPrev \in 1..MaxPrevOuts :
          txs = << [EmptyTx EXCEPT !.vin = [j \in 1..nPrev |-> [EmptyIn EXCEPT !.n = 0]]],
                   EmptyTx >>
    /\ pc = "embed" /\ out = <<>> /\ ridx = 0

\* Fault variant: the remaining budget kept in a signed CAmount.
EmbedAdvanceSignedBudget(r) ==
    /\ r.ok
    /\ bits' = r.bits /\ nBudget' = Signed(r.nBudget) /\ idx' = r.idx
    /\ IF r.bits = <<>>
       THEN txs' = TerminateLoop(r) /\ pc' = "authorize"
       ELSE txs' = r.txs /\ pc' = "embed"
    /\ UNCHANGED <<data, budget0, minBudget, out, ridx>>

\* The state after a pass r of the do-while body that ends normally; after
\* the last one (no bits left) the terminator gets its change output.
EmbedAdvance(r) ==
    /\ r.ok
    /\ bits' = r.bits /\ nBudget' = r.nBudget /\ idx' = r.idx
    /\ IF r.bits = <<>>
       THEN txs' = TerminateLoop(r) /\ pc' = "authorize"
       ELSE txs' = r.txs /\ pc' = "embed"
    /\ UNCHANGED <<data, budget0, minBudget, out, ridx>>

EmbedStep == pc = "embed" /\ EmbedAdvance(EmbedIteration(bits, nBudget, txs, idx))

\* The body aborts in PackDataIntoBudgetSplit.
EmbedCrash ==
    /\ pc = "embed" /\ ~EmbedIteration(bits, nBudget, txs, idx).ok
    /\ pc' = "crash"
    /\ UNCHANGED <<data, budget0, minBudget, bits, nBudget, txs, idx, out, ridx>>

\* AuthorizeTransactions: the wallet signs the first transaction; the later
\* ones are re-signed with signatures of the size of the temporary ones.
Authorize ==
    /\ pc = "authorize"
    /\ txs' = [txs EXCEPT ![1].vin = [j \in DOMAIN @ |-> [@[j] EXCEPT !.wsig = TRUE]]]
    /\ pc' = "extract"
    /\ UNCHANGED <<data, budget0, minBudget, bits, nBudget, idx, out, ridx>>

\* The decoders' pad counts never wrap on a chain EmbedData built: a state
\* where one would is left without a successor and shows as a deadlock.
ExtractAdvance(e) ==
    /\ e.ok
    /\ out' = out \o e.bits
    /\ ridx' = ridx + 1
    /\ UNCHANGED <<data, budget0, minBudget, bits, nBudget, txs, idx, pc>>

ExtractStep ==
    /\ pc = "extract" /\ ridx < Len(txs) - 1
    /\ ExtractAdvance(ExtractIteration(txs, ridx))

ExtractDone ==
    /\ pc = "extract" /\ ridx = Len(txs) - 1
    /\ pc' = "done"
    /\ UNCHANGED <<data, budget0, minBudget, bits, nBudget, txs, idx, out, ridx>>

Next == EmbedStep \/ EmbedCrash \/ Authorize \/ ExtractStep \/ ExtractDone
        \/ (pc \in {"done", "crash"} /\ UNCHANGED vars)

\* Every step is a synchronous call of a single thread.
Spec == Init /\ [][Next]_vars /\ WF_vars(Next)

-----------------------------------------------------------------------------
Input  == [n : Int, seq : Nat, keys : Seq(Seq(Bit)), wsig : BOOLEAN]
Output == [value : Int, kind : {"none", "p2sh", "nulldata", "change"}, script : Seq(Nat)]

TypeOK ==
    /\ data \in Payloads /\ budget0 \in Budgets /\ minBudget \in Nat
    /\ bits \in Seq(Bit) /\ nBudget \in 0..(Word - 1)
    /\ txs \in Seq([vin : Seq(Input), vout : Seq(Output)])
    /\ idx \in 0..(Len(txs) - 2) /\ ridx \in 0..(Len(txs) - 1)
    /\ pc \in {"embed", "authorize", "extract", "done", "crash"}
    /\ out \in Seq(Bit)

\* Main gathers MinimumBudget(|data|) with SelectInputs before EmbedData.
Funded == budget0 >= minBudget

Built == pc \in {"authorize", "extract", "done"}

\* With the budget Main gathers, EmbedData never aborts (the budget-split
\* assert and the DataBitsToInt read of an empty slice are never reached).
FundedEmbedNeverCrashes == Funded => pc # "crash"

\* With the budget Main gathers, every output of the built chain is
\* standard: each P2SH output at least the dust bound, no amount that went
\* below zero (the uint64_t budget, the single output nBudget - nFees, the
\* change), and the inputs of the next transaction claim the placeholder
\* outputs of one transaction one to one: no two inputs claim the same
\* output (a stale prevout.n left from the front insertion), and no
\* placeholder output is left unclaimed (it would stay a non-P2SH output
\* with CTxOut()'s value).
FundedChainStandard ==
    (Funded /\ Built) =>
        \A t \in DOMAIN txs :
            /\ \A o \in DOMAIN txs[t].vout :
                 /\ txs[t].vout[o].value >= 0
                 /\ txs[t].vout[o].kind # "none"
                 /\ txs[t].vout[o].kind = "p2sh" => txs[t].vout[o].value >= Dust
            /\ t < Len(txs) =>
                 /\ \A i, j \in DOMAIN txs[t + 1].vin :
                       i # j => txs[t + 1].vin[i].n # txs[t + 1].vin[j].n
                 /\ {txs[t + 1].vin[j].n + 1 : j \in DOMAIN txs[t + 1].vin}
                       = {o \in DOMAIN txs[t].vout : txs[t].vout[o].kind = "p2sh"}

\* ExtractData never throws on a chain EmbedData built, funded or not: the
\* rank DecodeDataInValues reads from the split values fits in the
\* EmbeddableBitsInValues of their uint64_t sum, so the uint32_t pad count
\* MaxBits - data.size() never wraps, and likewise for the claim order.
ExtractNeverThrows ==
    (pc = "extract" /\ ridx < Len(txs) - 1) => ExtractIteration(txs, ridx).ok

\* ExtractData inverts EmbedData: what it reads back from a funded chain is
\* the message followed by the zero padding of the last channel.
RoundTrip ==
    (Funded /\ pc = "done") =>
        /\ Len(out) >= Len(data)
        /\ out = data \o Zeros(Len(out) - Len(data))

\* The fee a transaction pays: what its inputs bring minus what its outputs
\* keep.
PaidFee(t) ==
    LET valIn == IF t = 1 THEN budget0
                 ELSE SumFunction([j \in DOMAIN txs[t - 1].vout |-> txs[t - 1].vout[j].value])
    IN valIn - SumFunction([j \in DOMAIN txs[t].vout |-> txs[t].vout[j].value])

\* Fee(tx) = FeeRate * ceil(size / 1000) of the transaction as broadcast:
\* the first transaction pays at least that once the wallet has signed its
\* inputs in AuthorizeTransactions (its fee was planned on it unsigned).
FirstFeeCoversSignedSize ==
    (Funded /\ pc \in {"extract", "done"}) => PaidFee(1) >= TransactionFee(txs[1])

\* The terminator pays at least Fee(tx) of itself with its change output
\* (EmbedData plans its fee before appending that output).
TerminatorFeeCoversSize ==
    (Funded /\ Built) => PaidFee(Len(txs)) >= TransactionFee(txs[Len(txs)])

=============================================================================
