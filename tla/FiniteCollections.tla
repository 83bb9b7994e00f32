-------------------------- MODULE FiniteCollections --------------------------
(* Sums over finite sets, and sets of numbers in order. *)
EXTENDS Naturals, SequencesExt, FiniteSetsExt

One(condition) == IF condition THEN 1 ELSE 0

\* The sum of f[x] for the elements x of S.
Total(f, S) == MapThenSumSet(LAMBDA x : f[x], S)

\* The numbers in S, a finite set, in increasing order.
InOrder(S) ==
  CHOOSE e \in [1 .. Cardinality(S) -> S] : \A i, j \in DOMAIN e : i < j => e[i] < e[j]
==============================================================================
