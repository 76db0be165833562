---------------------------- MODULE MessageChannel ----------------------------
(***************************************************************************)
(* What BMS promises a user, with no Huffman code, chain or channel in     *)
(* sight: a message written once is delivered once, either whole or, when *)
(* the reader stops short of the chain's end, as a prefix of itself.  No  *)
(* one need ever read it; a read, once it has fetched the chain, ends     *)
(* with a delivery.                                                       *)
(***************************************************************************)
EXTENDS Naturals, Sequences

CONSTANT Messages   \* the messages a writer may send

VARIABLES msg,        \* the message written
          delivered,  \* what the reader got
          phase,      \* "idle", "sent", "fetched" or "delivered"
          complete    \* the reader read the whole of what was sent

vars == <<msg, delivered, phase, complete>>

Init == msg = <<>> /\ delivered = <<>> /\ phase = "idle" /\ complete = FALSE

Send ==
    /\ phase = "idle"
    /\ \E m \in Messages : msg' = m
    /\ phase' = "sent"
    /\ UNCHANGED <<delivered, complete>>

\* A reader starts and fetches the chain: a user's choice.
Fetch ==
    /\ phase = "sent" /\ phase' = "fetched"
    /\ UNCHANGED <<msg, delivered, complete>>

DeliverWhole ==
    /\ phase = "fetched"
    /\ delivered' = msg /\ phase' = "delivered" /\ complete' = TRUE
    /\ UNCHANGED msg

DeliverPrefix ==
    /\ phase = "fetched"
    /\ \E n \in 0..Len(msg) : delivered' = SubSeq(msg, 1, n)
    /\ phase' = "delivered" /\ complete' = FALSE
    /\ UNCHANGED msg

Next == Send \/ Fetch \/ DeliverWhole \/ DeliverPrefix

\* A fetched message is eventually delivered; sending and reading are not
\* forced.
Spec == Init /\ [][Next]_vars /\ WF_vars(DeliverWhole \/ DeliverPrefix)

====
