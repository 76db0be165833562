# TLA+ models of the Bitcoin Messaging System (BMS)

BMS hides a text message in a chain of Bitcoin transactions. The parts and
how they interact, as `src/src/Main.cpp` drives them:

1. **Huffman coding** (`DataCompression.cpp`) compresses the text into a bit
   vector ending with an end-of-file code.
2. **MinimumBudget** (`Utilities.cpp`) runs EmbedData with budget 0 to price a
   chain for that many bits. **SelectInputs** then gathers wallet outputs worth
   at least that much.
3. **EmbedData** (`BlockchainInterface.cpp`) builds the chain one transaction
   at a time:
   - **OptimizeParams** picks the number k of P2SH outputs (at most 14), whether
     a nulldata output is added, and the fee.
   - The bits are then spread over the channels of **DataInterface.cpp**: the
     split of the budget into k values (a rank of a weak composition), the
     permutation by which the next transaction's inputs claim those outputs
     (a rank of a permutation), the nulldata script, the public keys of each
     redeem script, and each input's sequence number.
   - The combinatorics come from **Maths.cpp**, the bit conversions from
     **Types.cpp**.
   - A terminator transaction pays the remaining budget to a change address.
4. **AuthorizeTransactions** has the wallet sign the first transaction and
   re-signs the others. **SendTransactions** broadcasts them.
   **UpdateChainstate** records the first and last transaction ids.
5. In read mode, **ReadTransactions** fetches a chain, **ExtractData** reads
   the channels back in the same order, and Huffman **Decompress** restores
   the text.

## Modules

| Module | Models | Kind |
|---|---|---|
| `Types` | `Types.cpp`: PadBits, SliceBits, DataToBits, BitsToData, DataBitsToInt, IntToDataBits | operators |
| `Maths` | `Maths.cpp`: factorial, binomial, NumberCompositions, ranking and unranking of permutations and compositions | operators (RECURSIVE) |
| `CompositionUnrank` | `Math::IntegerToComposition`, one loop iteration per action | state machine |
| `DataInterface` | `DataInterface.cpp`: the four channel codecs and their capacities | operators |
| `BlockchainInterface` | OptimizeParams, the Pack/Unpack functions, EmbedData, AuthorizeTransactions' effect on sizes, ExtractData, TransactionFee, MinimumBudget | operators plus a state machine |
| `HuffmanCoding` | `DataCompression.cpp`: IsCharInvalid, TransformCharDomain, BuildTree, GenerateCodes, Compress, Decompress; Main's W and R calls of them | operators plus a state machine |
| `MessageChannel` | what BMS promises a user: the message written is delivered, whole or, from a cut chain, as a prefix | abstract specification |
| `ChainState` | SelectInputs' first input, EmbedData's links, SendTransactions, UpdateChainstate and both forms of ReadTransactions over successive W runs | state machine |
| `Serialization` | `Serialization.cpp`: DeserializeConfigMap and SerializeState's in-place patch of bms.conf, Serialize/DeserializeKeypairMap; `Utilities.cpp`: LoadConfigFile, LoadKeypairMap, GenerateKeypairMap and UpdateChainstate across runs of Main | operators plus a state machine |
| `MCCompositionUnrank`, `MCBlockchainInterface`, `MCHuffmanCoding`, `MCSerialization` | constants for TLC (`MCSerialization` also holds the bms.conf layouts) | MC modules |

### How the modules follow the code

**uint64_t arithmetic.** `Maths` keeps the code's `uint64_t` values modulo
`Word` (`U(x)`). In the code `Word` is 2^64; the models use 256 or 128.
IntegerToComposition depends on `mu` wrapping "below zero", and the budget
arithmetic of EmbedData wraps when fees exceed the budget. An amount stored in
a CAmount is `Signed(...)`. BigInt values are unbounded integers.

**CompositionUnrank.** Its variables are IntegerToComposition's locals:
- `i`, `x` (idx), `n`, `k`, `mu` and `comp`;
- `pc`, which names the loop the code is in.

Its actions:
- `Estimate` is the rounded-root estimate. It may be one off the exact
  rounding, which is what the 100-digit pow with a double exponent can give.
- `UpStep`/`UpDone` are the incrementing correction loop. `DownDone` is the
  decrementing loop and the loop-body tail. The decrementing loop never
  iterates: the estimate is at most the exact part, even one off, since
  T > NC(m-1, k) makes the root at least m. So it has no step action, and
  `DownLoopNeverIterates` checks that its condition always holds on entry.
- `Finish` is the loop exit, either normal or the `n == 0` break, and the last
  part.

**BlockchainInterface.** A transaction is a record of inputs and outputs:
- An input has `n` (the prevout index), `seq`, `keys` (the redeem script of a
  P2SH scriptSig) and `wsig` (a wallet signature).
- An output has `value`, `kind` and `script`.
- Sizes are Bitcoin's serialized sizes, given by `Bytes`.

The pure operators `OptimizeParams`, `EmbedIteration` (one do-while pass:
placeholders, split or single value, claim, nulldata, P2SH pairs, budget
update, next transaction), `Terminate`, `EmbedData`, `MinimumBudget` and
`ExtractIteration` translate the functions line by line.

The state machine:
- Init is the W flow of Main: a payload, a budget SelectInputs may return, and
  1..MaxPrevOuts wallet inputs.
- `EmbedStep` is one loop pass. After the last pass it includes the
  terminator.
- `EmbedCrash` is the assert in PackDataIntoBudgetSplit, or the out-of-bounds
  read of DataBitsToInt on an empty slice.
- `Authorize` is the wallet signature of the first transaction.
- `ExtractStep` and `ExtractDone` are ExtractData's loop.

**HuffmanCoding.** A char is its signed value, so bytes 0x80..0xFF are
negative and IsCharInvalid rejects them, as the code's comparisons do.
- Init is BuildTree's first loop: one leaf per symbol of a frequency map over
  the alphabet and EoF. The table the program loads (`huffcode.map`) was built
  from a corpus with EoF appended, so any such map may be the one loaded.
- `BuildStep` is one pass of the `while (tree.size() > 1)` loop. It pops a
  lightest node as the left child and then a lightest remaining one as the
  right child. Among equal frequencies the heap's order is unspecified, so
  every choice is taken.
- `GenerateCodes` is the recursive code generation (`CodesOf`).
- `Write` is Main's TransformCharDomain and Compress. A char without a code
  would make `Codes.left.at` throw, which leads to `crash`. Because every
  table the model builds covers the whole alphabet, that throw is never
  reached. A shipped table missing a char that TransformCharDomain keeps
  is not modelled, since `huffcode.map` is not in the repository.
- `Receive` hands back the bits followed by up to MaxPad zeros, which is what
  the chain run's `RoundTrip` shows ExtractData returns. `ReceiveTruncated`
  hands back a proper prefix, which is what a chain read up to a transaction
  before its end yields.
- `Read` is Decompress, a recursive operator with the loop's locals `ch` and
  the output as parameters. It also reports whether it left on EoF.

The refinement mapping `Channel` maps the detailed state onto
`MessageChannel`:
- the message is TransformCharDomain of the text once Write has run;
- the delivery is Decompress's output;
- `complete` holds when the stream was not cut.

- the abstract phase is "sent" after Write, "fetched" once mode R has read
  the chain (`Receive`, `ReceiveTruncated`), and "delivered" after Read.

`CodecRefinesChannel` is `Channel!Spec`, so TLC checks every step of the coder
against the abstract one. It also checks the abstract fairness: a fetched
message is eventually delivered. The abstract spec does not promise that
anyone writes or reads, because neither is forced in the code.

**Capacity logarithms.** EmbeddableBitsInValues and EmbeddableBitsInPermutation
take `(uint32_t)(log(count)/log(2))` in 100-digit floating point. For a count
that is an exact power of two, the quotient may land just below the integer.
`BitsOfCount` is the exact floor when the constant `LogSlip` is FALSE. When it
is TRUE, it is one bit less at exact powers of two above 2. A count of 2
cannot slip, because log(2)/log(2) divides a value by itself. Encoder and
decoder call the same function, so both see the same slip.

**ChainState.** A transaction is a record of its id, its `vin[0]` predecessor,
whether it is a terminator, and whether it has a single output. The
terminator has one. So does an embedding transaction to which OptimizeParams
gives one P2SH output and no nulldata. The chain run reaches such
transactions: a 1-bit payload with a funded budget. `Write` chooses which
embedding transactions have a single output. Ids are handed out in creation order. `Ext`
(0, also the all-zero State value) stands for a wallet output outside every
chain.
- `Write` is Main's W flow up to SendTransactions. SelectInputs' first input
  is State.LastTx's change while no broadcast transaction spends it, else
  `Ext`. EmbedData then gives a chain of 2..MaxChainLen linked transactions
  ending with a terminator.
- `SendOne` is one accepted `sendrawtransaction`. `SendFail` is one that
  throws: Main exits, and what was sent stays broadcast.
- `UpdateChainstate` runs after the last send. It sets State.FirstTx only
  while it is zero, moves State.LastTx, and saves both (SerializeState).
- ReadTransactions is an operator. `WalkBack` follows `vin[0]` from TxEnd
  until TxBegin, and fails at a transaction not broadcast by the codec (a
  failed `getrawtransaction` or ChainLinkBroken). `SplitChains` cuts after
  each terminator.
- The forward ReadTransactions(TxBegin, nBlocks) is `ReadForward`.
  - `WalkForward` repeatedly takes the broadcast transaction whose `vin[0]`
    spends the current one.
  - `SplitSingles` cuts after every transaction with one output. It has no
    P2SH check, as in the code (line 743).
  - The blocks are abstracted: nBlocks is taken to cover every broadcast
    transaction. The j = 0 rescan skips `txs[0]`, the first block's first
    transaction. That is a coinbase, which spends no chain transaction, so
    the skip loses nothing.
- `committed` and `aborted` are history variables for the properties.

**Serialization.** bms.conf is a sequence of symbols:
- A key is one symbol: `F` is State.FirstTx, `L` is State.LastTx, and `K`
  stands for the other keys. `f` and `l` are FirstTx and LastTx after a
  `[State]` line, written `S`.
- A 64-digit txid is `HexLen` symbols, and `NL` ends a line.

The code's `find(key) + 14` is therefore "the key and one character after it"
(`ValuePos`). A missing key makes `find` return npos, and npos + 14 wraps to
the key's length.
- `DeserializeConfigMap` follows boost's `config_file_iterator` as its
  documentation describes it:
  - text after `#` is dropped;
  - blanks are trimmed and empty lines skipped;
  - `[section]` prefixes the names that follow;
  - any other line needs `=`, or the parser throws;
  - the code keeps the first occurrence of a key.
- `LoadConfigFile` starts a run of Main. A parse error or a missing key ends
  the run.
- `Exit` is mode R, or a W run that throws before UpdateChainstate.
- `UpdateChainstate` keeps a non-zero State.FirstTx and patches the text read
  from disk. A replace past the end throws. It then opens the ofstream, which
  truncates the file.
- `WriteState` writes the patched text.
- `CrashWhileWriting` is the process dying between the open and the write.
- `expected` is a history variable holding the pair last saved.
- After LoadConfigFile, `LoadKeypairMap` takes one of three branches:
  - no keypair.map: GenerateKeypairMap starts from an empty map;
  - a file with an archive: `DeserializeKeypairMap` reads it;
  - a file a crash left empty: text_iarchive throws and the run exits.
- `GenerateKey(k)` is one turn of GenerateKeypairMap's loop. MakeNewKey draws
  secret `k` from `Secrets`, and the key is stored under the last
  `SuffixBits` bits of `PubBitsOf[k]` (`SuffixOf`). It replaces a key drawn
  earlier for the same suffix.
- `KeypairMapGenerated` leaves the loop once it holds 2^SuffixBits keys, and
  SerializeKeypairMap's ofstream creates or truncates keypair.map.
  `WriteKeypairMap` writes the archive. Each element is the compression flag
  followed by the key bytes (`SerializeKeypairMap`).
  `CrashWritingKeypairMap` is the process dying in between.
- Every way out of a run (`Exit`, `WriteState`, a crash) clears `config` and
  `keyMap`, as Main's unloads and its catch do.

The map in `PROJECT.json` names the source lines of every definition.

## Runs

| Run | Expect | What it shows |
|---|---|---|
| `unrank` | pass | From every estimate the root can give, IntegerToComposition fixes the parts of the composition ranked idx (`PartsFinal`), returns that composition, which ranks back to idx (`UnrankInverse`), never needs the decrementing loop (`DownLoopNeverIterates`), and terminates (`Terminates`). Covers all n ≤ MaxN, 2 ≤ k ≤ MaxK and every valid idx. |
| `chain` | pass | With the budget Main gathers (`Funded`): EmbedData never aborts (`FundedEmbedNeverCrashes`); every output is non-negative, every P2SH output is at least the dust bound, and the inputs of the next transaction claim the placeholder outputs one to one: no two inputs claim the same output, and none is left unclaimed (`FundedChainStandard`); ExtractData returns the message followed only by zero padding (`RoundTrip`); no ExtractData iteration throws, in particular not the padding count of DecodeDataInValues (`ExtractNeverThrows`). |
| `chain_logslip` | pass | The same, with `LogSlip` = TRUE: when the floating-point log2 loses a bit at exact powers of two above 2, the funded chain is still built (`FundedEmbedNeverCrashes`), no decoder throws (`ExtractNeverThrows`), and the message reads back (`RoundTrip`). |
| `first_fee` | violation | The first transaction's fee is planned unsigned. Once signed it pays less than FeeRate·⌈size/1000⌉ (spec §4.E). |
| `terminator_fee` | violation | The terminator's fee is planned without its change output, so it pays less than the fee of its own size. |
| `huffman` | pass | For every frequency map and every tie-break, the code table is prefix-free (`PrefixFree`) and its code lengths never increase with frequency (`MonotoneLengths`). Every text, including EoF bytes and bytes ≥ 0x80, compresses without throwing and decompresses back, zero padding included, to what TransformCharDomain kept (`HuffmanRoundTrip`). The pipeline refines `MessageChannel` (`CodecRefinesChannel`). |
| `eof_missing` | violation | spec.md §4.C says Decompress fails on a stream without EoF. The code returns the characters decoded so far: a chain read to the wrong last transaction prints a truncated message. |
| `chainstate` | pass | Over up to three W runs whose sends may fail partway, ReadTransactions(State.FirstTx, State.LastTx) either fails or returns exactly the recorded chains in order (`ReadSound`). While no send failed, it never fails (`ReadCompleteWithoutFailure`). With no failed send, the forward reader from State.FirstTx finds the recorded transactions in order. It runs at any point, including during a send, where it may also return a prefix of the chain being sent. Each chain it returns lies within one recorded or in-flight chain (`ForwardReadLosesNothing`). It can cut a message, because funded chains contain one-output embedding transactions, but it never joins two messages. |
| `config` | pass | For a bms.conf of `key=value` lines, in either order, the in-place patch keeps the file's size (`TypeOK`). Over four runs of Main with crashes allowed, the next LoadConfigFile reads back the State pair the last UpdateChainstate saved. The only exception is a crash between the truncating open and the write, which leaves an empty file (`StateDurableUnlessTruncated`). Every run that gets past LoadKeypairMap has a key for each suffix, and that key's public key ends in the suffix. This holds whether the run generated the map or read it back from keypair.map (`KeyMapComplete`, the KeypairTable invariant of spec.md). GenerateKeypairMap's loop always ends (`GenerateKeypairMapEnds`). |
| `config_layout` | violation | spec.md §6 documents bms.conf as `key = value` lines. For that layout, the first UpdateChainstate overwrites `= ` and all but the last two digits of the old value. The line becomes `State.FirstTx <txid>00`, and the next LoadConfigFile throws. |
| `partial_send` | violation | A send that fails partway leaves a prefix on the network, and that prefix spends State.LastTx's change. The next chain is not linked, so the recorded pair no longer reads back. This contradicts spec.md §5 and §7 ("no partial state persists on failure"). |
| `low_feerate` | violation | With FeeRate = 1 and dust bound 3, the budget MinimumBudget asks for is not enough: the budget-split assert aborts. MinimumBudget reserves 2·FeeRate, not k·546. |

Every property of a passing run has a mutant in `PROJECT.json`: a plausible
bug in a mapped definition that TLC finds. The mutated forms sit next to the
definitions as the `...NoWrap`, `...Saturating`, `...Early`, `...AppendOnly`,
`...SignSlip`, `...SignedBudget`, `...NoReserve`, `...NoLbound`, `...NulldataFirst`,
`...KeepEoF`, `...NoClear`, `...SameBit`, `Heaviest`, `...FromZero`,
`...Shifted`, `...OverwriteFirst`, `...IgnoringState`, `...P2SHOnly`,
`StrInsert` and `...NoSeparator` operators.

## Bounds

**unrank.** MaxN = 9 and MaxK = 4 with Word = 256. This gives every
composition with up to 4 parts, the `n == 0` break, and estimates that wrap
below zero.

**chain.** The channel widths are scaled down:
- 1 bit for the sequence number, the first-key suffix and each further key;
- 2 nulldata bits;
- at most 3 P2SH outputs of up to 2 keys each;
- dust bound 1, FeeRate 2 per 200 bytes.

Sizes stay the real ones, so fees of 1 to 4·FeeRate occur. With these widths:
- payloads of 1 to 5 bits exercise one link with k = 1, 2 and 3;
- the longer patterned payloads (up to 32 bits) need two or three links;
- budgets 0..24 cover unfunded, barely funded and amply funded chains.

The violation runs and `chain_logslip` use the same constants, except
`low_feerate`. In `chain_logslip`, split counts that are powers of two above
2, such as 4 compositions of 3 into 2 parts, lose one bit. The claim
counts are 2! = 2 and 3! = 6, so no permutation channel slips.

**huffman.** The alphabet is newline, 'A', 'a' and EoF, with frequencies 1..2.
This gives both tied and strictly ordered frequencies. Texts have up
to 3 chars drawn from those and from 0x03 and 0x80, which TransformCharDomain
must drop. Padding is 0..2 bits, and every cut of the stream is taken. Codes
reach length 3, so a padded or cut stream ends inside a code.

**chainstate.** Three W runs of chains of 2 or 3 transactions. This is enough
for a committed chain, a failed one, and a later chain that must link back
over the failure. Because `Write` chooses which embedding transactions have a
single output, every split the forward reader can make occurs.

**config.** Two `key=value` layouts, in either key order, with a 2-symbol
txid and two txids. Four runs of Main are enough for:
- a first write from zeros;
- a second write that must keep FirstTx;
- a crash and the empty file it leaves;
- a run after each of these.

`SuffixBits = 1` with three secrets whose public keys end in 1, 0 and 1. The
loop can therefore draw a suffix it already holds before it completes. All
three keys start with the bit 0, so a suffix taken from the wrong end of the
key leaves the loop unable to finish.

`config_layout` starts from the spaced layout spec.md documents.
`MCLayoutsOther` in `MCSerialization` also holds a comment naming the key
and a `[State]` section. Checked with those layouts, `StateDurable` fails
too. With `Crash = TRUE`, `StateDurable` itself fails as well, because the
crash leaves an empty file. `StateDurableUnlessTruncated` names that as the
only way the state is lost.

## Fairness

`CompositionUnrank` and `BlockchainInterface` each model one synchronous
call on a single thread. Once the call runs it keeps taking steps, so they
assume weak fairness on `Next`. `HuffmanCoding` models a write run and a
later read run, which a user starts or not. It is fair only on `Read`, the
Decompress of a chain that mode R has already fetched. That is what makes a
fetched message reach the abstract channel's delivery.
`ChainState` and `Serialization` have no fairness on the runs of Main: a
user need not run BMS again. Their runs therefore disable deadlock checking,
since stopping after any run is allowed. `Serialization` is fair only inside
GenerateKeypairMap:
- each `GenerateKey(k)` is weakly fair. MakeNewKey draws every secret with
  positive probability, so a loop that keeps running draws each of them
  with probability 1;
- the loop's exit and the archive write are weakly fair, because they are
  plain code that follows.

`GenerateKeypairMapEnds` depends on that fairness, and `Terminates` on the
weak fairness of `CompositionUnrank`. The chain model checks no liveness
property, because evaluating its nested LET definitions under ENABLED is too
slow. Its runs check deadlock instead: every state either reaches `done` or
`crash`, or stutters there.

## Not modelled, and the plan

Not modelled in this version:
- Some code is file, RPC or random-number I/O:
  - the Huffman-code archive, which is shipped and only read;
  - failures to open a file;
  - the keystore and wallet loaders and IsBitcoinRunning;
  - the RPC wrapper, the random hex and bit generators, and hex conversion.
- A change of Keymap.SuffixBits between runs. The model fixes SuffixBits, so
  a keypair.map built for another width, which LoadKeypairMap reuses, is not
  modelled.
- SelectInputs' accumulation of outputs up to the budget is replaced by the
  choice over every budget and input count. Only its choice of the first
  input is modelled, in `ChainState`.
- ComputeFrequencies only builds the table offline; the model takes every
  frequency map instead.
- The forward reader's walk through blocks. nBlocks is taken to cover the
  whole history, so a chain that runs past nBlocks blocks is not modelled.
- A crash between the last sendrawtransaction and SerializeState's write.
  In `ChainState`, UpdateChainstate is one step right after the last send.
  Such a crash would leave a broadcast chain that the recorded pair does
  not reach, as `partial_send` shows for a failed send. `ReadSound` and
  `ReadCompleteWithoutFailure` are stated without it. Failures to open
  bms.conf in SerializeState are likewise not modelled.
- Confirmation depth is not modelled: `listunspent` may omit a change output
  that is not yet confirmed. A run that happens too soon behaves like
  `partial_send` (the chain starts elsewhere).

Planned next:
1. The chain model (`BlockchainInterface`) refining `MessageChannel`, with the
   Huffman stream as payload, so that the two pipelines compose.
2. Liveness of the chain model, once its ENABLED evaluation is fast enough.
