---------------------------- MODULE Serialization ----------------------------
(***************************************************************************)
(* bms.conf across runs of Main: LoadConfigFile parses it with            *)
(* DeserializeConfigMap (boost's config_file_iterator, first occurrence of *)
(* a key wins), and UpdateChainstate writes State.FirstTx / State.LastTx  *)
(* back with SerializeState, which patches the file text in place:        *)
(*   pos = str.find("State.FirstTx") + 14;  str.replace(pos, 64, FirstTx) *)
(*   pos = str.find("State.LastTx")  + 13;  str.replace(pos, 64, LastTx)  *)
(* then reopens the file with an ofstream (which truncates it) and writes *)
(* the patched text.                                                      *)
(* The file is a sequence of symbols.  A key is one symbol ("F" is        *)
(* State.FirstTx, "L" State.LastTx, "K" stands for the other keys, "f"    *)
(* and "l" are FirstTx and LastTx under a [State] section line "S"), so   *)
(* the code's +14 and +13 are the key and one character after it; a       *)
(* 64-digit txid is HexLen symbols; "NL" ends a line.                     *)
(* Each run also loads keypair.map (LoadKeypairMap): the first run, and   *)
(* any run that finds no file, builds it with GenerateKeypairMap and      *)
(* writes it with SerializeKeypairMap through the same truncating         *)
(* ofstream; later runs read it back with DeserializeKeypairMap.  A key   *)
(* is a secret (MakeNewKey draws one of Secrets) and its public key's     *)
(* bits are PubBitsOf[secret].                                            *)
(***************************************************************************)
EXTENDS Naturals, Sequences, SequencesExt, TLC

CONSTANTS InitFiles,  \* the bms.conf texts a user may have written
          TxIds,      \* txids GetHex may return, HexLen symbols each
          HexLen,     \* the 64 of replace(pos, 64, ...)
          MaxRuns,    \* runs of Main
          Crash,      \* whether the process may die while writing a file
          Secrets,    \* the private keys MakeNewKey may draw
          PubBitsOf,  \* secret -> bits of its compressed public key
          SuffixBits  \* Keymap.SuffixBits of bms.conf

ASSUME HexLen \in Nat \ {0} /\ MaxRuns \in Nat /\ Crash \in BOOLEAN
ASSUME SuffixBits \in Nat /\ \A k \in Secrets : Len(PubBitsOf[k]) >= SuffixBits

Zeros == [i \in 1..HexLen |-> "0"]
KeyLen == 1
FirstKey == <<"F">>
LastKey == <<"L">>
OtherKey == <<"K">>

VARIABLES file,      \* bms.conf on disk
          config,    \* Utilities::Config, the parsed map
          buf,       \* the patched text SerializeState is about to write
          expected,  \* history: the State pair the last UpdateChainstate saved
          runs,      \* runs of Main started
          keyFile,   \* keypair.map on disk: whether it exists, its archive
          keyMap,    \* Utilities::KeyMap
          pc         \* the step of Main: "start", "keys", "genkeys",
                     \* "writekeys", "loaded" or "writing"

vars == <<file, config, buf, expected, runs, keyFile, keyMap, pc>>

-----------------------------------------------------------------------------
(* DeserializeConfigMap, with config_file_iterator's line syntax: text    *)
(* after '#' is dropped, blanks are trimmed, empty lines skipped, "[State]"*)
(* sets the prefix of later names, any other line must hold '=' or the    *)
(* iterator throws.                                                       *)
RECURSIVE SplitLines(_)
SplitLines(s) ==
    IF SelectInSeq(s, LAMBDA c : c = "NL") = 0 THEN <<s>>
    ELSE <<SubSeq(s, 1, SelectInSeq(s, LAMBDA c : c = "NL") - 1)>>
         \o SplitLines(SubSeq(s, SelectInSeq(s, LAMBDA c : c = "NL") + 1, Len(s)))

StripComment(s) ==
    IF SelectInSeq(s, LAMBDA c : c = "#") = 0 THEN s
    ELSE SubSeq(s, 1, SelectInSeq(s, LAMBDA c : c = "#") - 1)

Trim(s) ==
    IF \A i \in DOMAIN s : s[i] = " " THEN <<>>
    ELSE SubSeq(s, SelectInSeq(s, LAMBDA c : c # " "),
                   SelectLastInSeq(s, LAMBDA c : c # " "))

\* The option name: the section prefix and the name, as the code's lookups
\* see it ("State." + "FirstTx" is "State.FirstTx").
KeyOf(prefix, name) ==
    CASE prefix = <<"S">> /\ name = <<"f">> -> FirstKey
      [] prefix = <<"S">> /\ name = <<"l">> -> LastKey
      [] OTHER -> prefix \o name

\* config[key] = value only if config.count(key) == 0.
AddFirst(cfg, k, v) == IF k \in DOMAIN cfg THEN cfg ELSE cfg @@ (k :> v)

ParseLine(s, prefix, cfg) ==
    LET eq == SelectInSeq(s, LAMBDA c : c = "=")
    IN CASE s = <<>>     -> [ok |-> TRUE, prefix |-> prefix, map |-> cfg]
         [] s = <<"S">>  -> [ok |-> TRUE, prefix |-> <<"S">>, map |-> cfg]
         [] eq = 0       -> [ok |-> FALSE, prefix |-> prefix, map |-> cfg]
         [] OTHER -> [ok |-> TRUE, prefix |-> prefix,
                      map |-> AddFirst(cfg, KeyOf(prefix, Trim(SubSeq(s, 1, eq - 1))),
                                            Trim(SubSeq(s, eq + 1, Len(s))))]

RECURSIVE ParseLines(_, _, _)
ParseLines(lines, prefix, cfg) ==
    IF lines = <<>> THEN [ok |-> TRUE, map |-> cfg]
    ELSE LET r == ParseLine(Trim(StripComment(Head(lines))), prefix, cfg)
         IN IF r.ok THEN ParseLines(Tail(lines), r.prefix, r.map)
            ELSE [ok |-> FALSE, map |-> cfg]

DeserializeConfigMap(text) == ParseLines(SplitLines(text), <<>>, <<>>)

-----------------------------------------------------------------------------
(* SerializeState.  find returns npos when the key is not in the text;    *)
(* npos + 14 wraps to 13 in size_t, which is the key's length: position   *)
(* KeyLen, 0-based.                                                       *)
ValuePosNoSeparator(s, key) ==
    IF SelectInSeq(s, LAMBDA c : c = key) = 0 THEN KeyLen
    ELSE SelectInSeq(s, LAMBDA c : c = key) + KeyLen

\* The 1-based position replace starts at.
ValuePos(s, key) ==
    IF SelectInSeq(s, LAMBDA c : c = key) = 0 THEN KeyLen + 1
    ELSE SelectInSeq(s, LAMBDA c : c = key) + KeyLen + 1

\* Fault variant: str.insert(pos, r) in place of str.replace(pos, n, r).
StrInsert(s, pos, n, r) ==
    [ok |-> pos <= Len(s) + 1,
     str |-> SubSeq(s, 1, pos - 1) \o r \o SubSeq(s, pos, Len(s))]

\* std::string::replace(pos, n, r): throws out_of_range past the end,
\* replaces at most up to the end.
StrReplace(s, pos, n, r) ==
    [ok |-> pos <= Len(s) + 1,
     str |-> SubSeq(s, 1, pos - 1) \o r \o SubSeq(s, pos + n, Len(s))]

PatchLast(a, last) ==
    [ok |-> a.ok /\ StrReplace(a.str, ValuePos(a.str, "L"), HexLen, last).ok,
     str |-> StrReplace(a.str, ValuePos(a.str, "L"), HexLen, last).str]

SerializeState(text, first, last) ==
    PatchLast(StrReplace(text, ValuePos(text, "F"), HexLen, first), last)

-----------------------------------------------------------------------------
(* The keypair map: a map from SuffixBits-bit patterns to keys.           *)
SuffixPatterns == [1..SuffixBits -> {0, 1}]

NewKey(k) == [secret |-> k, compressed |-> TRUE]   \* val.MakeNewKey(true)

\* Fault variant: the leading nBits of the public key.
PrefixOf(bits) == SubSeq(bits, 1, SuffixBits)

\* DataBits(buf.end() - nBits, buf.end()).
SuffixOf(bits) == SubSeq(bits, Len(bits) - SuffixBits + 1, Len(bits))

\* SerializeKeypairMap: each key becomes <<compression>> \o key bytes.
SerializeKeypairMap(m) ==
    [s \in DOMAIN m |-> <<IF m[s].compressed THEN 1 ELSE 0>> \o m[s].secret]

\* Fault variant: the key bytes taken from element.begin().
DeserializeKeepFlag(a) ==
    [s \in DOMAIN a |-> [secret |-> a[s], compressed |-> a[s][1] # 0]]

\* DeserializeKeypairMap: compression = element[0], the key from
\* element.begin() + 1.
DeserializeKeypairMap(a) ==
    [s \in DOMAIN a |-> [secret |-> Tail(a[s]), compressed |-> a[s][1] # 0]]

-----------------------------------------------------------------------------
Init ==
    /\ file \in InitFiles
    /\ config = <<>> /\ buf = <<>>
    /\ expected = [first |-> Zeros, last |-> Zeros]
    /\ runs = 0 /\ pc = "start"
    /\ keyFile = [exists |-> FALSE, text |-> <<>>] /\ keyMap = <<>>

\* Main starts: LoadConfigFile.  A throw of the parser, or a key LoadWallet
\* or SelectInputs reads with Config.at missing, ends the run (exit 1).
LoadConfigFile ==
    /\ pc = "start" /\ runs < MaxRuns
    /\ config' = DeserializeConfigMap(file).map
    /\ pc' = IF /\ DeserializeConfigMap(file).ok
                /\ {OtherKey, FirstKey, LastKey} \subseteq DOMAIN DeserializeConfigMap(file).map
             THEN "keys" ELSE "start"
    /\ runs' = runs + 1
    /\ UNCHANGED <<file, buf, expected, keyFile, keyMap>>

\* LoadKeypairMap: with no keypair.map, GenerateKeypairMap starts from an
\* empty map; otherwise DeserializeKeypairMap reads it, and a file a crash
\* left empty makes text_iarchive throw, which ends the run.
LoadKeypairMap ==
    /\ pc = "keys"
    /\ \/ /\ ~keyFile.exists
          /\ keyMap' = <<>> /\ pc' = "genkeys" /\ UNCHANGED config
       \/ /\ keyFile.exists /\ keyFile.text # <<>>
          /\ keyMap' = DeserializeKeypairMap(keyFile.text) /\ pc' = "loaded"
          /\ UNCHANGED config
       \/ /\ keyFile.exists /\ keyFile.text = <<>>
          /\ keyMap' = <<>> /\ config' = <<>> /\ pc' = "start"
    /\ UNCHANGED <<file, buf, expected, runs, keyFile>>

\* One turn of GenerateKeypairMap's loop while keyMap.size() < 2^nBits:
\* a new key is stored under its public key's suffix, replacing a key
\* drawn earlier with the same suffix.
GenerateKey(k) ==
    /\ pc = "genkeys" /\ Cardinality(DOMAIN keyMap) < 2 ^ SuffixBits
    /\ keyMap' = (SuffixOf(PubBitsOf[k]) :> NewKey(k)) @@ keyMap
    /\ UNCHANGED <<file, config, buf, expected, runs, keyFile, pc>>

\* The loop ends; SerializeKeypairMap opens the ofstream, creating or
\* truncating keypair.map.
KeypairMapGenerated ==
    /\ pc = "genkeys" /\ Cardinality(DOMAIN keyMap) = 2 ^ SuffixBits
    /\ keyFile' = [exists |-> TRUE, text |-> <<>>] /\ pc' = "writekeys"
    /\ UNCHANGED <<file, config, buf, expected, runs, keyMap>>

\* oa << tmpMap; ofs.close(); the run goes on with the loaded map.
WriteKeypairMap ==
    /\ pc = "writekeys"
    /\ keyFile' = [exists |-> TRUE, text |-> SerializeKeypairMap(keyMap)]
    /\ pc' = "loaded"
    /\ UNCHANGED <<file, config, buf, expected, runs, keyMap>>

\* The process dies between the open and the archive write.
CrashWritingKeypairMap ==
    /\ Crash /\ pc = "writekeys"
    /\ keyMap' = <<>> /\ config' = <<>> /\ pc' = "start"
    /\ UNCHANGED <<file, buf, expected, runs, keyFile>>

\* Mode R, or a W run that throws before UpdateChainstate: the file stays.
Exit ==
    /\ pc = "loaded"
    /\ config' = <<>> /\ keyMap' = <<>> /\ pc' = "start"
    /\ UNCHANGED <<file, buf, expected, runs, keyFile>>

\* UpdateChainstate after a successful SendTransactions: keep a non-zero
\* State.FirstTx, move State.LastTx, then SerializeState: read the file,
\* patch it (a replace past the end throws), and open the ofstream, which
\* truncates the file.
UpdateChainstate(first, last) ==
    LET newFirst == IF config[FirstKey] = Zeros THEN first ELSE config[FirstKey]
    IN /\ pc = "loaded"
       /\ config' = [config EXCEPT ![FirstKey] = newFirst, ![LastKey] = last]
       /\ expected' = [first |-> newFirst, last |-> last]
       /\ IF SerializeState(file, newFirst, last).ok
          THEN /\ buf' = SerializeState(file, newFirst, last).str
               /\ file' = <<>> /\ pc' = "writing"
          ELSE /\ pc' = "start" /\ UNCHANGED <<file, buf>>
       /\ UNCHANGED <<runs, keyFile, keyMap>>

\* ofs << str; ofs.close(); and Main exits.
WriteState ==
    /\ pc = "writing"
    /\ file' = buf /\ buf' = <<>> /\ config' = <<>> /\ pc' = "start"
    /\ keyMap' = <<>>
    /\ UNCHANGED <<expected, runs, keyFile>>

\* The process dies between the truncating open and the write.
CrashWhileWriting ==
    /\ Crash /\ pc = "writing"
    /\ buf' = <<>> /\ config' = <<>> /\ pc' = "start"
    /\ keyMap' = <<>>
    /\ UNCHANGED <<file, expected, runs, keyFile>>

Next ==
    \/ LoadConfigFile
    \/ LoadKeypairMap
    \/ \E k \in Secrets : GenerateKey(k)
    \/ KeypairMapGenerated
    \/ WriteKeypairMap
    \/ CrashWritingKeypairMap
    \/ Exit
    \/ \E first, last \in TxIds : UpdateChainstate(first, last)
    \/ WriteState
    \/ CrashWhileWriting

\* MakeNewKey draws every secret with positive probability, so a loop
\* that keeps running draws each of them eventually; the loop's exit and
\* the write that follows are plain code.
Fairness ==
    /\ \A k \in Secrets : WF_vars(GenerateKey(k))
    /\ WF_vars(KeypairMapGenerated) /\ WF_vars(WriteKeypairMap)

Spec == Init /\ [][Next]_vars /\ Fairness

-----------------------------------------------------------------------------
\* The longest text a user may have written.
MaxText == CHOOSE n \in {Len(t) : t \in InitFiles} : \A t \in InitFiles : Len(t) <= n

TypeOK ==
    /\ file \in Seq(STRING) /\ Len(file) <= MaxText
    /\ expected \in [first : TxIds \cup {Zeros}, last : TxIds \cup {Zeros}]
    /\ runs \in 0..MaxRuns
    /\ pc \in {"start", "keys", "genkeys", "writekeys", "loaded", "writing"}
    /\ keyFile.exists \in BOOLEAN
    /\ keyMap \in UNION {[D -> [secret : Secrets, compressed : BOOLEAN]] : D \in SUBSET SuffixPatterns}

\* Between runs of Main, bms.conf parses, and the next LoadConfigFile reads
\* back the State.FirstTx and State.LastTx the last UpdateChainstate saved
\* (spec.md section 6: the state keys are updated in place).  It relates
\* SerializeState's text patching to DeserializeConfigMap's parsing.
StateDurable ==
    pc = "start" =>
        LET r == DeserializeConfigMap(file)
        IN /\ r.ok
           /\ {FirstKey, LastKey} \subseteq DOMAIN r.map
           /\ r.map[FirstKey] = expected.first
           /\ r.map[LastKey] = expected.last


\* Whatever the crashes, the in-place patching itself never corrupts a
\* key=value bms.conf: between runs the file either reads back the State
\* pair the last UpdateChainstate saved, or it is the empty file a crash
\* between the truncating ofstream open and the write leaves behind.
StateDurableUnlessTruncated == pc = "start" /\ file # <<>> => StateDurable

\* Whenever Main goes on past LoadKeypairMap, KeyMap holds a key for every
\* SuffixBits-bit pattern, and that key's public key ends in the pattern
\* (spec.md, KeypairTable) -- for a map just generated by the loop and for
\* one read back from keypair.map by a later run alike.
KeyMapComplete ==
    pc \in {"loaded", "writing"} =>
        /\ DOMAIN keyMap = SuffixPatterns
        /\ \A s \in SuffixPatterns :
              keyMap[s].secret \in Secrets /\ SuffixOf(PubBitsOf[keyMap[s].secret]) = s

\* GenerateKeypairMap terminates: the loop, which only ends when every
\* suffix has been drawn, is eventually left.
GenerateKeypairMapEnds == (pc = "genkeys") ~> (pc # "genkeys")
====
