------------------------ MODULE MCCompositionUnrank ------------------------
(* Model of IntegerToComposition for TLC: every n <= 9 split into up to 4   *)
(* parts, every rank, uint64_t scaled to 8 bits (the wrap-around of mu is  *)
(* the same at any width larger than the values).                          *)
EXTENDS CompositionUnrank

MCWord == 256
MCMaxN == 9
MCMaxK == 4
=============================================================================
