---------------------------- MODULE HuffmanCoding ----------------------------
(***************************************************************************)
(* The Huffman coder of lib/bms/DataCompression.cpp and its use by Main:   *)
(* BuildTree (one action per merge of the two lightest nodes of the        *)
(* priority queue), GenerateCodes, then the write flow (TransformCharDomain *)
(* and Compress), the channel (ExtractData hands back the stream followed   *)
(* by the zero padding of its last channel, or, read up to a wrong last     *)
(* transaction, a prefix of it) and Decompress.  A char is its signed      *)
(* value (char is signed on the target), so bytes 0x80..0xFF are negative. *)
(***************************************************************************)
EXTENDS Integers, Sequences, FiniteSets, TLC
LOCAL INSTANCE SequencesExt

CONSTANTS RawChars,     \* the chars a text read from the file may hold
          EoF,          \* the end-of-file symbol, (char)0x03
          MaxFreq,      \* largest frequency of a symbol in the corpus
          MaxLen,       \* longest text written
          MaxPad        \* most zero bits the last channel appends

ASSUME /\ RawChars \subseteq -128..127 /\ EoF = 3
       /\ MaxFreq \in Nat \ {0} /\ MaxLen \in Nat /\ MaxPad \in Nat

\* Fault variant: a range that starts at 0x00 instead of 0x20.
IsCharInvalidFromZero(c) ==
    ~ \/ c = 10
      \/ 0 <= c /\ c <= 47
      \/ 48 <= c /\ c <= 57
      \/ 58 <= c /\ c <= 64
      \/ 97 <= c /\ c <= 122
      \/ 65 <= c /\ c <= 90

\* IsCharInvalid: everything but newline and the printable ranges.
IsCharInvalid(c) ==
    ~ \/ c = 10
      \/ 32 <= c /\ c <= 47
      \/ 48 <= c /\ c <= 57
      \/ 58 <= c /\ c <= 64
      \/ 97 <= c /\ c <= 122
      \/ 65 <= c /\ c <= 90

\* TransformCharDomain: erase(remove_if(..., IsCharInvalid)).
TransformCharDomain(text) == SelectSeq(text, LAMBDA c : ~IsCharInvalid(c))

\* The symbols of the table: the corpus holds every char of the alphabet and
\* one EoF per file.
Symbols == {c \in RawChars : ~IsCharInvalid(c)} \cup {EoF}

NoSym == -1000

\* LeafNode and InternalNode; kids is <<left, right>> for an internal node.
Leaf(s, f) == [sym |-> s, freq |-> f, kids |-> <<>>]
Parent(l, r) == [sym |-> NoSym, freq |-> l.freq + r.freq, kids |-> <<l, r>>]

\* Fault variant: NodeCmp with < (a max-heap).
Heaviest(q) == {t \in q : \A u \in q : t.freq >= u.freq}

\* The top of the priority queue under NodeCmp (a greater frequency is the
\* lower priority): a node of least frequency.  Among equal frequencies the
\* heap's choice is fixed by its implementation, not by the code.
Lightest(q) == {t \in q : \A u \in q : t.freq <= u.freq}

\* GenerateCodes(Node, Prefix, codes): a leaf gets the prefix, an internal
\* node passes prefix+0 to its left and prefix+1 to its right child.
RECURSIVE CodesOfSameBit(_, _)
CodesOfSameBit(node, prefix) ==
    IF node.kids = <<>> THEN node.sym :> prefix
    ELSE CodesOfSameBit(node.kids[1], Append(prefix, 0))
         @@ CodesOfSameBit(node.kids[2], Append(prefix, 0))

RECURSIVE CodesOf(_, _)
CodesOf(node, prefix) ==
    IF node.kids = <<>> THEN node.sym :> prefix
    ELSE CodesOf(node.kids[1], Append(prefix, 0))
         @@ CodesOf(node.kids[2], Append(prefix, 1))

\* Compress: the code of every char, then the code of EoF.  Codes.left.at
\* throws for a char without a code: CompressDefined is false.
CompressDefined(data, codes) == \A i \in DOMAIN data : data[i] \in DOMAIN codes

Compress(data, codes) ==
    FlattenSeq([i \in DOMAIN data |-> codes[data[i]]]) \o codes[EoF]

\* Decompress: accumulate bits in ch; on a code, stop at EoF or append the
\* symbol and clear ch.  eof records whether the loop left on EoF.
RECURSIVE DecompressKeepEoF(_, _, _, _, _)
DecompressKeepEoF(bits, codes, i, ch, acc) ==
    IF i > Len(bits) THEN [data |-> acc, eof |-> FALSE]
    ELSE LET hit == {s \in DOMAIN codes : codes[s] = Append(ch, bits[i])}
         IN IF hit = {} THEN DecompressKeepEoF(bits, codes, i + 1, Append(ch, bits[i]), acc)
            ELSE LET s == CHOOSE s \in hit : TRUE
                 IN IF s = EoF THEN [data |-> Append(acc, s), eof |-> TRUE]
                    ELSE DecompressKeepEoF(bits, codes, i + 1, <<>>, Append(acc, s))

\* Fault variant: ch is not cleared after a symbol.
RECURSIVE DecompressNoClear(_, _, _, _, _)
DecompressNoClear(bits, codes, i, ch, acc) ==
    IF i > Len(bits) THEN [data |-> acc, eof |-> FALSE]
    ELSE LET hit == {s \in DOMAIN codes : codes[s] = Append(ch, bits[i])}
         IN IF hit = {} THEN DecompressNoClear(bits, codes, i + 1, Append(ch, bits[i]), acc)
            ELSE LET s == CHOOSE s \in hit : TRUE
                 IN IF s = EoF THEN [data |-> acc, eof |-> TRUE]
                    ELSE DecompressNoClear(bits, codes, i + 1, Append(ch, bits[i]), Append(acc, s))

RECURSIVE DecompressFrom(_, _, _, _, _)
DecompressFrom(bits, codes, i, ch, acc) ==
    IF i > Len(bits) THEN [data |-> acc, eof |-> FALSE]
    ELSE LET hit == {s \in DOMAIN codes : codes[s] = Append(ch, bits[i])}
         IN IF hit = {} THEN DecompressFrom(bits, codes, i + 1, Append(ch, bits[i]), acc)
            ELSE LET s == CHOOSE s \in hit : TRUE
                 IN IF s = EoF THEN [data |-> acc, eof |-> TRUE]
                    ELSE DecompressFrom(bits, codes, i + 1, <<>>, Append(acc, s))

Decompress(bits, codes) == DecompressFrom(bits, codes, 1, <<>>, <<>>)

\* The texts Main may read from a file.
Texts == UNION {[1..l -> RawChars] : l \in 0..MaxLen}

-----------------------------------------------------------------------------
VARIABLES freq,     \* the frequency map of the corpus
          queue,    \* BuildTree's priority queue, a set of trees
          codes,    \* the HuffCodeMap: symbol -> code
          raw,      \* the text read from the file
          bits,     \* Compress's output
          stream,   \* what ExtractData hands to Decompress
          cut,      \* whether the stream was read up to a wrong transaction
          out,      \* Decompress's result
          eof,      \* whether Decompress stopped on EoF
          pc        \* "build", "write", "send", "read", "done" or "crash"

vars == <<freq, queue, codes, raw, bits, stream, cut, out, eof, pc>>

\* BuildTree's first loop pushes a leaf per entry of the frequency map.
Init ==
    /\ freq \in [Symbols -> 1..MaxFreq]
    /\ queue = {Leaf(s, freq[s]) : s \in Symbols}
    /\ codes = <<>> /\ raw = <<>> /\ bits = <<>> /\ stream = <<>>
    /\ cut = FALSE /\ out = <<>> /\ eof = FALSE /\ pc = "build"

\* One pass of while (tree.size() > 1): pop the top twice, push the parent.
BuildStep ==
    /\ pc = "build" /\ Cardinality(queue) > 1
    /\ \E l \in Lightest(queue) : \E r \in Lightest(queue \ {l}) :
          queue' = (queue \ {l, r}) \cup {Parent(l, r)}
    /\ UNCHANGED <<freq, codes, raw, bits, stream, cut, out, eof, pc>>

\* GenerateCodes(Frequencies): the codes of the root tree.top().
GenerateCodes ==
    /\ pc = "build" /\ Cardinality(queue) = 1
    /\ codes' = CodesOf(CHOOSE t \in queue : TRUE, <<>>)
    /\ pc' = "write"
    /\ UNCHANGED <<freq, queue, raw, bits, stream, cut, out, eof>>

\* Main, mode W: TransformCharDomain, then Compress.
Write ==
    /\ pc = "write"
    /\ \E text \in Texts :
          /\ raw' = text
          /\ IF CompressDefined(TransformCharDomain(text), codes)
             THEN bits' = Compress(TransformCharDomain(text), codes) /\ pc' = "send"
             ELSE bits' = bits /\ pc' = "crash"
    /\ UNCHANGED <<freq, queue, codes, stream, cut, out, eof>>

\* The chain read back whole: the bits and the padding of the last channel.
Receive ==
    /\ pc = "send"
    /\ \E p \in 0..MaxPad : stream' = bits \o [i \in 1..p |-> 0]
    /\ cut' = FALSE /\ pc' = "read"
    /\ UNCHANGED <<freq, queue, codes, raw, bits, out, eof>>

\* The chain read up to a transaction before its end: a proper prefix.
ReceiveTruncated ==
    /\ pc = "send"
    /\ \E c \in 0..(Len(bits) - 1) : stream' = SubSeq(bits, 1, c)
    /\ cut' = TRUE /\ pc' = "read"
    /\ UNCHANGED <<freq, queue, codes, raw, bits, out, eof>>

\* Main, mode R: Decompress of what ExtractData returned.
Read ==
    /\ pc = "read"
    /\ LET d == Decompress(stream, codes) IN out' = d.data /\ eof' = d.eof
    /\ pc' = "done"
    /\ UNCHANGED <<freq, queue, codes, raw, bits, stream, cut>>

Next == BuildStep \/ GenerateCodes \/ Write \/ Receive \/ ReceiveTruncated \/ Read
        \/ (pc \in {"done", "crash"} /\ UNCHANGED vars)

\* Running mode W or mode R is the user's choice, and so are the table
\* build and the chain read; only Decompress, once mode R has the stream,
\* is one synchronous call that runs to its end.
Fairness == WF_vars(Read)

Spec == Init /\ [][Next]_vars /\ Fairness

-----------------------------------------------------------------------------
TypeOK ==
    /\ freq \in [Symbols -> 1..MaxFreq]
    /\ codes = <<>> \/ codes \in [Symbols -> Seq({0, 1})]
    /\ raw \in Texts
    /\ bits \in Seq({0, 1}) /\ stream \in Seq({0, 1})
    /\ out \in Seq(Symbols \ {EoF})
    /\ cut \in BOOLEAN /\ eof \in BOOLEAN
    /\ pc \in {"build", "write", "send", "read", "done", "crash"}

\* The table GenerateCodes builds is prefix-free: no symbol's code begins
\* another's, so Decompress's first match in Codes.right is the symbol written.
PrefixFree ==
    pc # "build" =>
        \A a, b \in DOMAIN codes : a # b => ~IsPrefix(codes[a], codes[b])

\* BuildTree merges the two lightest nodes first: a symbol more frequent in
\* the corpus never gets a longer code than a less frequent one.
MonotoneLengths ==
    pc # "build" =>
        \A a, b \in DOMAIN codes : freq[a] > freq[b] => Len(codes[a]) <= Len(codes[b])

\* Main's write and read flows compose: every text read from the file is
\* compressed without Codes.left.at throwing, and Decompress of the whole
\* chain's bits, zero padding included, stops on EoF with the text
\* TransformCharDomain kept.
HuffmanRoundTrip ==
    /\ pc # "crash"
    /\ (pc = "done" /\ ~cut) => out = TransformCharDomain(raw) /\ eof

\* The refinement mapping: the message is what TransformCharDomain kept of
\* the text once Write compressed it, and the delivery is Decompress's result.
Channel == INSTANCE MessageChannel
    WITH Messages  <- {TransformCharDomain(t) : t \in Texts},
         msg       <- IF pc \in {"send", "read", "done"} THEN TransformCharDomain(raw) ELSE <<>>,
         delivered <- out,
         complete  <- pc = "done" /\ ~cut,
         phase     <- CASE pc = "send" -> "sent"
                        []  pc = "read" -> "fetched"
                        []  pc = "done" -> "delivered"
                        []  OTHER                   -> "idle"

\* The coder, the chain read up to any transaction, and Decompress together
\* implement the channel: Main prints the text written, or a prefix of it
\* when the chain was read up to a transaction before its end, and never
\* anything else; and a mode R run that has fetched the chain prints.
CodecRefinesChannel == Channel!Spec

\* spec.md 4.C: Decompression fails if the stream ends without producing
\* EoF.  Decompress returns whatever it decoded so far instead.
DecompressRequiresEoF == pc = "done" => eof

====
