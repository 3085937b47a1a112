---------------------------- MODULE Subsequences ----------------------------
(***************************************************************************)
(* What a filter keeps of an array (Array.prototype.filter), by the         *)
(* positions it keeps, and the list a query with ORDER BY makes of a set.   *)
(* SelectSeq and SetToSortSeq say the same of a test and of a comparison,   *)
(* which a theorem about every state cannot name; Joint is FlattenSeq with  *)
(* a recursive function in place of the operator.                           *)
(***************************************************************************)
EXTENDS Naturals, FiniteSets, Sequences

\* The n-th of the numbers K, from the least on.
Nth(K, n) == CHOOSE i \in K : Cardinality({j \in K : j <= i}) = n

\* The entries of s at the positions K, in the order they have in s.
Subsequence(s, K) == [n \in 1 .. Cardinality(K) |-> s[Nth(K, n)]]

\* The members of S in order: ahead gives those that come before each.
Ranked(S, ahead) ==
  [n \in 1 .. Cardinality(S) |-> CHOOSE x \in S : Cardinality(ahead[x]) = n - 1]

\* The entries of s, which are sequences themselves, one after the other.
Joint(s) ==
  LET joint[n \in 0 .. Len(s)] == IF n = 0 THEN <<>> ELSE joint[n - 1] \o s[n] IN joint[Len(s)]
=============================================================================
