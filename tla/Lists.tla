------------------------------- MODULE Lists -------------------------------
(***************************************************************************)
(* Lists as the code goes through them: folded, filtered and sorted.  The  *)
(* operators take sets and functions where those of SequencesExt take      *)
(* operators, so that theorems about them can be stated once.              *)
(***************************************************************************)
EXTENDS SequencesExt

\* What step makes of base and the elements of s, one after the other.
Fold(step, base, s) ==
  LET after[n \in 0 .. Len(s)] == IF n = 0 THEN base ELSE step[after[n - 1]][s[n]]
  IN after[Len(s)]

\* The elements of s that are in S, in their order.
Kept(s, S) ==
  Fold([kept \in Seq(ToSet(s)) |-> [e \in ToSet(s) |-> IF e \in S THEN Append(kept, e) ELSE kept]],
       <<>>, s)

\* s sorted: before holds the pairs of positions of s of which the first comes before the
\* second.
Sorting(n, before) ==
  CHOOSE p \in Bijection(1 .. n, 1 .. n) : \A i, j \in 1 .. n : i < j => <<p[j], p[i]>> \notin before

Sorted(s, before) ==
  LET p == Sorting(Len(s), before)
  IN [n \in DOMAIN s |-> s[p[n]]]

Least(a, b) == IF a < b THEN a ELSE b

\* s[: n]
FirstOf(s, n) == SubSeq(s, 1, Least(n, Len(s)))
=============================================================================
