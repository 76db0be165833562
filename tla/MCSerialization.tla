--------------------------- MODULE MCSerialization ---------------------------
(* bms.conf layouts for the Serialization model.  Each is what a user may   *)
(* write by hand for the keys the program reads, with the state keys at    *)
(* their initial 64 zeros.                                                *)
EXTENDS Serialization

Z == [i \in 1..HexLen |-> "0"]

\* State.FirstTx=000...0 on its own line, as SerializeState expects.
Compact == <<"F", "=">> \o Z \o <<"NL", "L", "=">> \o Z \o <<"NL", "K", "=", "a", "NL">>
\* The same keys, other first, LastTx before FirstTx.
Reordered == <<"K", "=", "a", "NL", "L", "=">> \o Z \o <<"NL", "F", "=">> \o Z \o <<"NL">>
\* "key = value per line", the form spec.md section 6 documents.
Spaced == <<"F", " ", "=", " ">> \o Z \o <<"NL", "L", " ", "=", " ">> \o Z
          \o <<"NL", "K", " ", "=", " ", "a", "NL">>
\* A comment naming the key before the key's line.
Commented == <<"#", " ", "F", "NL">> \o Compact
\* The state keys in a [State] section.
Sectioned == <<"K", "=", "a", "NL", "S", "NL", "f", "=">> \o Z \o <<"NL", "l", "=">> \o Z \o <<"NL">>

MCLayoutsWritable == {Compact, Reordered}
MCLayoutsDocumented == {Spaced}
MCLayoutsOther == {Commented, Sectioned}
MCTxIds == {<<"a", "b">>, <<"b", "a">>}
\* Three secrets whose public keys end in 1, 0 and 1: the loop may draw a
\* suffix twice before it has both.  Their leading bits are all 0.
MCSecrets == {<<7>>, <<8>>, <<9>>}
MCPubBitsOf == (<<7>> :> <<0, 1>>) @@ (<<8>> :> <<0, 0>>) @@ (<<9>> :> <<0, 1>>)
====
