------------------------------- MODULE Maths -------------------------------
(***************************************************************************)
(* The combinatorics of lib/bms/Maths.cpp: factorial, binomial coefficient, *)
(* number of weak compositions, and the ranking and unranking of           *)
(* permutations and compositions.  BigInt values are unbounded integers;   *)
(* the uint64_t values the code passes around (n, mu) are kept modulo Word *)
(* (2^64 in the code), because IntegerToComposition relies on them         *)
(* wrapping below zero.                                                    *)
(***************************************************************************)
EXTENDS Integers, Sequences, FiniteSets, Types

CONSTANT Word           \* 2^64: the modulus of uint64_t arithmetic
ASSUME Word \in Nat /\ Word >= 4

\* uint64_t arithmetic.
U(x) == x % Word

MinOf(a, b) == IF a < b THEN a ELSE b

RECURSIVE Factorial(_)
Factorial(n) == IF n < 2 THEN 1 ELSE n * Factorial(n - 1)

\* The multiplicative recurrence with k := min(k, n-k); each intermediate
\* quotient is exact.
BinomialCoefficient(n, k) ==
    IF k > n THEN 0
    ELSE LET kk == MinOf(k, n - k)
             RECURSIVE Loop(_, _)
             Loop(result, i) ==
                IF i > kk THEN result
                ELSE Loop((result * (n - kk + i)) \div i, i + 1)
         IN Loop(1, 1)

\* n + k - 1 and k - 1 are formed as uint64_t arguments.
NumberCompositions(n, k) == BinomialCoefficient(U(n + k - 1), U(k - 1))

\* PermutationToInteger: sum over i < K-1 of a_i * (K-i-1)!, a_i the number
\* of later elements smaller than element i (1-based here).
PermutationToInteger(p) ==
    LET K == Len(p)
        a(i) == Cardinality({j \in (i + 1)..K : p[i] > p[j]})
        RECURSIVE Sum(_)
        Sum(i) == IF i > K - 1 THEN 0 ELSE a(i) * Factorial(K - i) + Sum(i + 1)
    IN Sum(1)

\* IntegerToPermutation: element i is buf[idx / (k-i-1)!] of the residual
\* ordered list buf, which then loses it.
IntegerToPermutation(idx, k) ==
    LET RECURSIVE Step(_, _, _)
        Step(i, x, buf) ==
            IF i > k - 1 THEN <<>>
            ELSE LET f == Factorial(k - i - 1)
                     e == buf[(x \div f) + 1]
                 IN <<e>> \o Step(i + 1, x - (x \div f) * f,
                                  SelectSeq(buf, LAMBDA y : y # e))
    IN Step(0, idx, [j \in 1..k |-> j - 1])

\* CompositionToInteger: n and k shrink by the part just ranked; N is the
\* uint64_t sum of the parts.
CompositionToInteger(c) ==
    LET K == Len(c)
        RECURSIVE Loop(_, _, _, _)
        Loop(i, idx, n, k) ==
            IF i > K - 1 THEN idx
            ELSE Loop(i + 1,
                      idx + NumberCompositions(n, k) - NumberCompositions(U(n - c[i]), k),
                      U(n - c[i]), k - 1)
        RECURSIVE Total(_)
        Total(i) == IF i > K THEN 0 ELSE c[i] + Total(i + 1)
    IN Loop(1, 0, U(Total(1)), K)

(***************************************************************************)
(* IntegerToComposition.  For part i the code estimates                     *)
(*   mu := n - round(((NC(n,k) - idx) * (k-1)!)^(1/(k-1))) - (k-1)/2        *)
(* in uint64_t (it is "negative", i.e. near 2^64, whenever the root exceeds *)
(* n - (k-1)/2) and corrects it with two loops.  RoundRoot is the exact     *)
(* rounding of the real root; the code computes it in 100-digit floating    *)
(* point with the exponent 1.0/(k-1) taken as a double.  It is the least r *)
(* with r + 1/2 > A^(1/m), found by bisection.                              *)
(***************************************************************************)
\* b^e <= L for b >= 1, without forming b^e: b^e <= L iff b^(e-1) <= L \div b.
RECURSIVE PowAtMost(_, _, _)
PowAtMost(b, e, L) == IF e = 0 THEN L >= 1 ELSE PowAtMost(b, e - 1, L \div b)

RoundRoot(A, m) ==
    LET Below(r) == PowAtMost(2 * r + 1, m, 2^m * A)   \* r + 1/2 <= A^(1/m)
        RECURSIVE Bisect(_, _)                     \* Below(lo), ~Below(hi)
        Bisect(lo, hi) ==
            IF hi - lo <= 1 THEN hi
            ELSE IF Below((lo + hi) \div 2) THEN Bisect((lo + hi) \div 2, hi)
                 ELSE Bisect(lo, (lo + hi) \div 2)
    IN IF Below(0) THEN Bisect(0, A + 1) ELSE 0

\* Fault variant: the half-width correction added instead of subtracted.
MuEstimateSignSlip(root, n, k) == U(n - root + (k - 1) \div 2)

MuEstimate(root, n, k) == U(n - root - (k - 1) \div 2)

\* while (!(NC(n - mu - 1, k) < NC(n, k) - idx)) mu++;
RECURSIVE MuUp(_, _, _, _)
MuUp(mu, n, k, T) ==
    IF NumberCompositions(U(n - mu - 1), k) < T THEN mu ELSE MuUp(U(mu + 1), n, k, T)

\* while (!(NC(n, k) - idx <= NC(n - mu, k))) mu--;
RECURSIVE MuDown(_, _, _, _)
MuDown(mu, n, k, T) ==
    IF T <= NumberCompositions(U(n - mu), k) THEN mu ELSE MuDown(U(mu - 1), n, k, T)

IntegerToComposition(idx, n, k) ==
    LET RECURSIVE Loop(_, _, _, _, _)
        Loop(i, x, nn, kk, comp) ==
            IF i > k - 2 \/ nn = 0
            THEN comp \o Zeros(k - 1 - i) \o <<nn>>
            ELSE LET T  == NumberCompositions(nn, kk) - x
                     r  == RoundRoot(T * Factorial(kk - 1), kk - 1)
                     mu == MuDown(MuUp(MuEstimate(r, nn, kk), nn, kk, T), nn, kk, T)
                 IN Loop(i + 1,
                         x - (NumberCompositions(nn, kk) - NumberCompositions(U(nn - mu), kk)),
                         U(nn - mu), kk - 1, Append(comp, mu))
    IN Loop(0, idx, n, k, <<>>)

=============================================================================
