--------------------------- MODULE MCHuffmanCoding ---------------------------
(* Newline, 'A', 'a' and EoF form the table; 0x80 is a byte TransformCharDomain
   drops, and EoF itself may occur in a file. *)
EXTENDS HuffmanCoding

MCRawChars == {10, 65, 97, 3, -128}

====
