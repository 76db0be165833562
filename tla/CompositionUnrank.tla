-------------------------- MODULE CompositionUnrank --------------------------
(***************************************************************************)
(* Math::IntegerToComposition (lib/bms/Maths.cpp) step by step: one action *)
(* per loop iteration of the part loop and of the two loops that correct   *)
(* the floating-point estimate of each part.  The input (idx, n, k) is any *)
(* valid one within the bounds; the estimate may be off by one from the    *)
(* exact rounding, which is what a double exponent 1.0/(k-1) can do to     *)
(* pow() at the code's magnitudes.                                         *)
(***************************************************************************)
EXTENDS Maths
LOCAL INSTANCE SequencesExt

CONSTANTS MaxN,         \* largest integer n split
          MaxK          \* largest number of parts k
ASSUME MaxN \in Nat /\ MaxK \in Nat /\ MaxK >= 2 /\ MaxN + MaxK < Word

VARIABLES n0, k0, idx0,     \* the call's arguments
          i,                \* part index (0-based, as in the code)
          x,                \* idx as the loop decreases it
          n, k,             \* the n and k of the remaining parts
          mu,               \* the uint64_t part being corrected
          comp,             \* parts fixed so far
          pc                \* "part", "up", "down" or "done"

vars == <<n0, k0, idx0, i, x, n, k, mu, comp, pc>>

\* NC(n,k) - idx, the BigInt both correction loops compare against.
Target == NumberCompositions(n, k) - x

Init ==
    /\ n0 \in 0..MaxN
    /\ k0 \in 2..MaxK
    /\ idx0 \in 0..(NumberCompositions(n0, k0) - 1)
    /\ i = 0 /\ x = idx0 /\ n = n0 /\ k = k0
    /\ mu = 0 /\ comp = <<>> /\ pc = "part"

\* Loop head: i <= K-2 and n != 0, so estimate mu from the rounded root.
Estimate ==
    /\ pc = "part"
    /\ i <= k0 - 2 /\ n # 0
    /\ LET r == RoundRoot(Target * Factorial(k - 1), k - 1)
       IN \E root \in {r - 1, r, r + 1} \cap Nat :
            mu' = MuEstimate(root, n, k)
    /\ pc' = "up"
    /\ UNCHANGED <<n0, k0, idx0, i, x, n, k, comp>>

\* Fault variants: mu kept in a wider signed integer (no wrap at 2^64);
\* n - mu - 1 saturating at zero instead of wrapping.
UpStepNoWrap ==
    /\ pc = "up"
    /\ ~(NumberCompositions(U(n - mu - 1), k) < Target)
    /\ mu' = mu + 1
    /\ UNCHANGED <<n0, k0, idx0, i, x, n, k, comp, pc>>

UpStepSaturating ==
    /\ pc = "up"
    /\ ~(NumberCompositions(IF n > mu THEN n - mu - 1 ELSE 0, k) < Target)
    /\ mu' = U(mu + 1)
    /\ UNCHANGED <<n0, k0, idx0, i, x, n, k, comp, pc>>

\* while (!(NC(n - mu - 1, k) < NC(n, k) - idx)) mu++;
UpStep ==
    /\ pc = "up"
    /\ ~(NumberCompositions(U(n - mu - 1), k) < Target)
    /\ mu' = U(mu + 1)
    /\ UNCHANGED <<n0, k0, idx0, i, x, n, k, comp, pc>>

\* Fault variant: the loop leaves on <= instead of <.
UpDoneEarly ==
    /\ pc = "up"
    /\ NumberCompositions(U(n - mu - 1), k) <= Target
    /\ pc' = "down"
    /\ UNCHANGED <<n0, k0, idx0, i, x, n, k, mu, comp>>

UpDone ==
    /\ pc = "up"
    /\ NumberCompositions(U(n - mu - 1), k) < Target
    /\ pc' = "down"
    /\ UNCHANGED <<n0, k0, idx0, i, x, n, k, mu, comp>>

\* while (!(NC(n, k) - idx <= NC(n - mu, k))) mu--; never iterates: the
\* estimate is at most the exact part (DownLoopNeverIterates), so the up
\* loop alone reaches it and this loop is entered with its condition met.

\* The loop body's tail: store the part and shrink idx, n and k.
DownDone ==
    /\ pc = "down"
    /\ Target <= NumberCompositions(U(n - mu), k)
    /\ comp' = Append(comp, mu)
    /\ x' = x - (NumberCompositions(n, k) - NumberCompositions(U(n - mu), k))
    /\ n' = U(n - mu)
    /\ k' = k - 1
    /\ i' = i + 1
    /\ pc' = "part"
    /\ UNCHANGED <<n0, k0, idx0, mu>>

\* Fault variant: the result built by appending, without the parts the
\* break on n == 0 leaves at zero.
FinishAppendOnly ==
    /\ pc = "part"
    /\ (i > k0 - 2 \/ n = 0)
    /\ comp' = comp \o <<n>>
    /\ pc' = "done"
    /\ UNCHANGED <<n0, k0, idx0, i, x, n, k, mu>>

\* Loop exit (i > K-2, or the break on n == 0): the remaining parts keep
\* their zero initialisation and the last part is whatever is left of n.
Finish ==
    /\ pc = "part"
    /\ (i > k0 - 2 \/ n = 0)
    /\ comp' = comp \o Zeros(k0 - 1 - i) \o <<n>>
    /\ pc' = "done"
    /\ UNCHANGED <<n0, k0, idx0, i, x, n, k, mu>>

Next == Estimate \/ UpStep \/ UpDone \/ DownDone \/ Finish
        \/ (pc = "done" /\ UNCHANGED vars)

\* The function runs to completion once called: weak fairness on its steps.
Spec == Init /\ [][Next]_vars /\ WF_vars(Next)

-----------------------------------------------------------------------------
(* Reference: the weak compositions of nn into kk parts listed in         *)
(* lexicographic order, built part by part (smallest first part first).    *)
RECURSIVE LexCompositions(_, _)
LexCompositions(nn, kk) ==
    IF kk = 1 THEN << <<nn>> >>
    ELSE FlattenSeq([v \in 1..(nn + 1) |->
            LET rest == LexCompositions(nn - (v - 1), kk - 1)
            IN [j \in 1..Len(rest) |-> <<v - 1>> \o rest[j]]])

\* Computed once; RefUnrank(r, ...) is the composition with r before it.
RefOrder == [nk \in (0..MaxN) \X (2..MaxK) |-> LexCompositions(nk[1], nk[2])]

RefUnrank(r, nn, kk) == RefOrder[<<nn, kk>>][r + 1]

TypeOK ==
    /\ n0 \in 0..MaxN /\ k0 \in 2..MaxK /\ idx0 \in Nat
    /\ i \in 0..(MaxK - 1) /\ x \in Int /\ n \in 0..(Word - 1) /\ k \in 1..MaxK
    /\ mu \in 0..(Word - 1)
    /\ comp \in Seq(0..(Word - 1))
    /\ pc \in {"part", "up", "down", "done"}

\* Every part the loop fixes is the part of the composition ranked idx, and
\* the rank left over stays within the compositions of what is left: the
\* correction loops land on the right part from any estimate, including the
\* ones that wrapped below zero.
PartsFinal ==
    pc = "part" =>
        /\ 0 <= x /\ x < NumberCompositions(n, k)
        /\ comp = SubSeq(RefUnrank(idx0, n0, k0), 1, i)

\* The result is the composition of n into k parts ranked idx, and ranking
\* it again gives idx back (Math::CompositionToInteger).
UnrankInverse ==
    pc = "done" =>
        /\ comp = RefUnrank(idx0, n0, k0)
        /\ CompositionToInteger(comp) = idx0

\* The decrementing loop never runs: whenever the code reaches it, mu
\* already satisfies NC(n, k) - idx <= NC(n - mu, k).  The estimate
\* n - round(root) - (k-1)/2 never exceeds the exact part, even one off.
DownLoopNeverIterates ==
    pc = "down" => Target <= NumberCompositions(U(n - mu), k)

\* IntegerToComposition returns: neither correction loop runs forever.
Terminates == <>(pc = "done")

=============================================================================
