----------------------------- MODULE Collections -----------------------------
(* Sums over finite sets, and the subsequence at given positions.  SelectAt  *)
(* of the positions that satisfy a test is SelectSeq, in a form that can be  *)
(* reasoned about.                                                           *)
EXTENDS Integers, Sequences, FiniteSetsExt

Sum(f, S) == MapThenSumSet(LAMBDA x : f[x], S)

\* The place of i among the positions I, and the elements of s there in their order
RankIn(I, i) == Cardinality({j \in I : j <= i})
SelectAt(s, I) == [k \in 1..Cardinality(I) |-> s[CHOOSE i \in I : RankIn(I, i) = k]]
=============================================================================
