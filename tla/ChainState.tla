------------------------------ MODULE ChainState ------------------------------
(***************************************************************************)
(* Successive runs of Main's W flow against one wallet and blockchain, and *)
(* the R flow reading them back:                                          *)
(*   SelectInputs   prefers output 0 of State.LastTx (the last chain's    *)
(*                  terminator change) as the first input, when unspent;  *)
(*   EmbedData      links each transaction's vin[0] to the one before and *)
(*                  ends the chain with a one-output terminator;          *)
(*   SendTransactions broadcasts one transaction at a time and throws on  *)
(*                  the first failing sendrawtransaction;                 *)
(*   UpdateChainstate records State.FirstTx (only while it is all zeros)  *)
(*                  and State.LastTx once every transaction was sent;     *)
(*   ReadTransactions(TxBegin, TxEnd) walks vin[0] back from TxEnd to     *)
(*                  TxBegin and splits the chain after each terminator.   *)
(*   ReadTransactions(TxBegin, nBlocks) follows forward the transactions   *)
(*                  whose vin[0] spends the current one and splits after  *)
(*                  each transaction with a single output.                *)
(* A transaction is its id, its vin[0] predecessor, whether it is a       *)
(* terminator and whether it has a single output (a terminator, or an     *)
(* embedding transaction with one P2SH output and no nulldata); ids are  *)
(* handed out in creation order, so vin[0] always points to a smaller id. *)
(* Ext (0, also the all-zero State value) stands for a wallet output      *)
(* outside every chain: walking back into it leaves the codec's           *)
(* transactions and getrawtransaction eventually fails.                   *)
(***************************************************************************)
EXTENDS Integers, Sequences, FiniteSets
LOCAL INSTANCE SequencesExt

CONSTANTS MaxWrites,    \* runs of the W flow
          MaxChainLen   \* most transactions of one chain, terminator included

ASSUME MaxWrites \in Nat /\ MaxChainLen \in Nat /\ MaxChainLen >= 2

Zero == 0
Ext == 0

VARIABLES ledger,     \* the broadcast transactions
          firstTx,    \* State.FirstTx
          lastTx,     \* State.LastTx
          pending,    \* the chain SendTransactions is broadcasting
          sent,       \* how many of pending it has sent
          nextId,     \* the next fresh transaction id
          writes,     \* W runs started
          committed,  \* history: the chains UpdateChainstate recorded
          aborted,    \* history: a SendTransactions threw
          pc          \* "idle" or "send"

vars == <<ledger, firstTx, lastTx, pending, sent, nextId, writes, committed, aborted, pc>>

Ids(s) == [i \in DOMAIN s |-> s[i].id]

RECURSIVE FlattenIds(_)
FlattenIds(ss) == IF ss = <<>> THEN <<>> ELSE Head(ss) \o FlattenIds(Tail(ss))

Spent(t) == \E tx \in ledger : tx.prev = t

\* SelectInputs: output 0 of State.LastTx if listunspent still holds it,
\* otherwise the largest other unspent output.
FirstInputIgnoringState == Ext

FirstInput == IF lastTx # Zero /\ ~Spent(lastTx) THEN lastTx ELSE Ext

\* Fault variant: ids numbered from nextId + 1.
EmbedChainShifted(first, len, singles) ==
    [i \in 1..len |-> [id     |-> nextId + i,
                       prev   |-> IF i = 1 THEN first ELSE nextId + i - 1,
                       term   |-> i = len,
                       single |-> i = len \/ i \in singles]]

\* EmbedData: txs[0] takes the selected inputs, txs[idx+1] gets a vin[0]
\* spending txs[idx], and the last transaction is the terminator with its
\* one change output.  OptimizeParams gives the embedding transactions in
\* singles one P2SH output and no nulldata.
EmbedChain(first, len, singles) ==
    [i \in 1..len |-> [id     |-> nextId + i - 1,
                       prev   |-> IF i = 1 THEN first ELSE nextId + i - 2,
                       term   |-> i = len,
                       single |-> i = len \/ i \in singles]]

\* The ledger's transaction with id t.
TxOf(t) == CHOOSE tx \in ledger : tx.id = t

\* ReadTransactions' backward loop: while TxBegin != TxEnd, fetch TxEnd and
\* step to its vin[0]; then fetch TxBegin.  A fetch outside the codec's
\* transactions is a failed getrawtransaction.
RECURSIVE WalkBack(_, _, _)
WalkBack(begin, end, acc) ==
    IF end = Ext \/ ~\E tx \in ledger : tx.id = end
    THEN [ok |-> FALSE, chain |-> <<>>]
    ELSE IF end = begin THEN [ok |-> TRUE, chain |-> <<TxOf(end)>> \o acc]
    ELSE WalkBack(begin, TxOf(end).prev, <<TxOf(end)>> \o acc)

\* The split: a subchain ends at every transaction with one non-P2SH output;
\* transactions after the last terminator are dropped.
RECURSIVE SplitChains(_, _, _)
SplitChains(chain, start, i) ==
    IF i > Len(chain) THEN <<>>
    ELSE IF chain[i].term
         THEN <<Ids(SubSeq(chain, start, i))>> \o SplitChains(chain, i + 1, i + 1)
         ELSE SplitChains(chain, start, i + 1)

ReadFromWalk(w) == [ok |-> w.ok, chains |-> SplitChains(w.chain, 1, 1)]

ReadTransactions(begin, end) == ReadFromWalk(WalkBack(begin, end, <<>>))

\* The forward loop: from TxBegin, repeatedly take the transaction whose
\* vin.front() spends the current one.  The blocks searched are taken to
\* hold every broadcast transaction (nBlocks large enough).
RECURSIVE WalkForward(_, _)
WalkForward(cur, acc) ==
    IF ~\E tx \in ledger : tx.prev = cur THEN acc
    ELSE WalkForward((CHOOSE tx \in ledger : tx.prev = cur).id,
                     Append(acc, CHOOSE tx \in ledger : tx.prev = cur))

\* Fault variant: the split tests the single output for P2SH the wrong way
\* round and skips terminators.
RECURSIVE SplitSinglesP2SHOnly(_, _, _)
SplitSinglesP2SHOnly(chain, start, i) ==
    IF i > Len(chain) THEN <<>>
    ELSE IF chain[i].single /\ ~chain[i].term
         THEN <<Ids(SubSeq(chain, start, i))>> \o SplitSinglesP2SHOnly(chain, i + 1, i + 1)
         ELSE SplitSinglesP2SHOnly(chain, start, i + 1)

\* The forward form's split: after every transaction with one output.
RECURSIVE SplitSingles(_, _, _)
SplitSingles(chain, start, i) ==
    IF i > Len(chain) THEN <<>>
    ELSE IF chain[i].single
         THEN <<Ids(SubSeq(chain, start, i))>> \o SplitSingles(chain, i + 1, i + 1)
         ELSE SplitSingles(chain, start, i + 1)

\* ReadTransactions(TxBegin, nBlocks): getrawtransaction(TxBegin) fails for
\* a transaction that was never broadcast.
ReadForward(begin) ==
    IF ~\E tx \in ledger : tx.id = begin
    THEN [ok |-> FALSE, chains |-> <<>>]
    ELSE [ok |-> TRUE,
          chains |-> SplitSingles(WalkForward(begin, <<TxOf(begin)>>), 1, 1)]

-----------------------------------------------------------------------------
Init ==
    /\ ledger = {} /\ firstTx = Zero /\ lastTx = Zero
    /\ pending = <<>> /\ sent = 0 /\ nextId = 1 /\ writes = 0
    /\ committed = <<>> /\ aborted = FALSE /\ pc = "idle"

\* Main, mode W, up to SendTransactions: SelectInputs, EmbedData of a chain
\* of len transactions, AuthorizeTransactions.
WriteWith(first) ==
    /\ pc = "idle" /\ writes < MaxWrites
    /\ \E len \in 2..MaxChainLen, singles \in SUBSET (1..(MaxChainLen - 1)) :
          /\ pending' = EmbedChain(first, len, singles \cap (1..(len - 1)))
          /\ nextId' = nextId + len
    /\ sent' = 0 /\ writes' = writes + 1 /\ pc' = "send"
    /\ UNCHANGED <<ledger, firstTx, lastTx, committed, aborted>>

Write == WriteWith(FirstInput)

\* One sendrawtransaction that the node accepts.
SendOne ==
    /\ pc = "send" /\ sent < Len(pending)
    /\ ledger' = ledger \cup {pending[sent + 1]}
    /\ sent' = sent + 1
    /\ UNCHANGED <<firstTx, lastTx, pending, nextId, writes, committed, aborted, pc>>

\* A sendrawtransaction throws: SendTransactions rethrows, Main exits, and
\* the transactions sent so far stay broadcast.
SendFail ==
    /\ pc = "send" /\ sent < Len(pending)
    /\ aborted' = TRUE /\ pc' = "idle"
    /\ UNCHANGED <<ledger, firstTx, lastTx, pending, sent, nextId, writes, committed>>

\* UpdateChainstate(chain.front(), chain.back()) after the whole chain was sent.
UpdateChainstateOverwriteFirst ==
    /\ pc = "send" /\ sent = Len(pending)
    /\ firstTx' = pending[1].id
    /\ lastTx' = pending[Len(pending)].id
    /\ committed' = Append(committed, Ids(pending))
    /\ pc' = "idle"
    /\ UNCHANGED <<ledger, pending, sent, nextId, writes, aborted>>

UpdateChainstate ==
    /\ pc = "send" /\ sent = Len(pending)
    /\ firstTx' = IF firstTx = Zero THEN pending[1].id ELSE firstTx
    /\ lastTx' = pending[Len(pending)].id
    /\ committed' = Append(committed, Ids(pending))
    /\ pc' = "idle"
    /\ UNCHANGED <<ledger, pending, sent, nextId, writes, aborted>>

Next == Write \/ SendOne \/ SendFail \/ UpdateChainstate

Spec == Init /\ [][Next]_vars

-----------------------------------------------------------------------------
TypeOK ==
    /\ ledger \subseteq [id : 1..(nextId - 1), prev : 0..(nextId - 1),
                         term : BOOLEAN, single : BOOLEAN]
    /\ firstTx \in 0..(nextId - 1) /\ lastTx \in 0..(nextId - 1)
    /\ sent \in 0..Len(pending) /\ writes \in 0..MaxWrites
    /\ committed \in Seq(Seq(1..(nextId - 1)))
    /\ aborted \in BOOLEAN /\ pc \in {"idle", "send"}

\* ReadTransactions(State.FirstTx, State.LastTx) never returns a wrong
\* history: when it succeeds it yields exactly the recorded chains, in
\* order, and never a chain whose UpdateChainstate did not run.
ReadSound ==
    LET r == ReadTransactions(firstTx, lastTx)
    IN firstTx # Zero /\ r.ok => r.chains = committed

\* While every SendTransactions ran to completion, the recorded pair reads
\* back: SelectInputs links each chain to the last one through
\* State.LastTx's change output.
ReadCompleteWithoutFailure ==
    (~aborted /\ firstTx # Zero) => ReadTransactions(firstTx, lastTx).ok

\* Is c a contiguous piece of m?
PieceOf(c, m) == \E i \in 1..(Len(m) - Len(c) + 1) : SubSeq(m, i, i + Len(c) - 1) = c

\* The transactions of the chain SendTransactions is broadcasting that are
\* already on the network.
InFlight == IF pc = "send" THEN Ids(SubSeq(pending, 1, sent)) ELSE <<>>

\* The chains written so far, the one being sent included.
Written == IF pc = "send" THEN Append(committed, Ids(pending)) ELSE committed

\* While every send completed, the forward reader started at State.FirstTx,
\* at any point of a W run, returns every recorded transaction, in order,
\* followed at most by part of what SendTransactions has broadcast of the
\* current chain, and nothing else; each chain it returns lies within one
\* written chain.  Its split on one-output transactions may cut a message
\* where an embedding transaction has a single P2SH output, and a read
\* during a send may return a piece of an unrecorded chain, but it never
\* joins two messages.
ForwardReadLosesNothing ==
    (~aborted /\ firstTx # Zero) =>
        LET r == ReadForward(firstTx)
        IN /\ r.ok
           /\ IsPrefix(FlattenIds(committed), FlattenIds(r.chains))
           /\ IsPrefix(FlattenIds(r.chains), FlattenIds(committed) \o InFlight)
           /\ \A i \in DOMAIN r.chains :
                 \E j \in DOMAIN Written : PieceOf(r.chains[i], Written[j])

\* spec.md 4.A and 5: a reader can walk back from LastTx to FirstTx, and a
\* failed operation leaves no partial state behind.
ReadComplete ==
    firstTx # Zero => ReadTransactions(firstTx, lastTx).ok

====
