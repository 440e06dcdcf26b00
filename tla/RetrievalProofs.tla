--------------------------- MODULE RetrievalProofs ---------------------------
(***************************************************************************)
(* Proofs about Retrieval, ContextAssembly and TextMatcher, for all sets   *)
(* of chunks, documents, texts and queries, and for all limits.            *)
(*                                                                         *)
(*   RetrievalTypeCorrect  RetrievalSpec => []RetrievalTypeOK              *)
(*   RetrievalCorrect      RetrievalSpec => []RetrievalIsSound             *)
(*   AssemblyTypeCorrect   AssemblySpec => []AssemblyTypeOK                *)
(*   AssemblyCorrect       AssemblySpec => []ContextIsFaithful             *)
(*   MatcherTypeCorrect    MatcherSpec => []MatcherTypeOK                  *)
(*   MatcherCorrect        MatcherSpec => []SuggestionsAreBest             *)
(*                                                                         *)
(* What the code computes in a loop is a fold, and what is true of a fold  *)
(* is shown along the values that it goes through (FoldGoesThrough, by     *)
(* induction with UpTo): of a filter (KeptSelects), of the concatenation   *)
(* of lists (Flattens), of the deduplication (DeduplicationKeeps), of the  *)
(* windows (WindowsHold) and of the budget (TextFits).  A sorting exists   *)
(* by insertion (SortingsExist).                                           *)
(*                                                                         *)
(* The evidence has with a chunk all chunks that come before it            *)
(* (EvidenceIsSelected), and as many as there may be; in an order, that    *)
(* makes it the chunks with too few ahead of them to fall out (BestOnes).  *)
(*                                                                         *)
(* The texts of a context are the first chunks of a sorted document        *)
(* (TextKeeps), and what is left of the total budget is what they do not   *)
(* use (AssemblyInv).                                                      *)
(*                                                                         *)
(* Ranks are in a total order (LessOrders), different occurrences have     *)
(* different ranks (OccurrencesAreRanked), so that their order is one of   *)
(* them all (InOrderSorts).  The variant that a key is found with first    *)
(* has the fewest confused sounds (FirstVariantIsBest): the first match of *)
(* a key is its best one (MatchedAreWays, WaysAreMatched), and the first   *)
(* occurrence of a text has the best of its ranks (FirstHasBestRank).      *)
(*                                                                         *)
(* The text itself can only be the first by shape (ByShapeIs), so that one *)
(* more than the limit is enough to drop it (TopIs).  What a filter keeps  *)
(* is the only selection of its kind (SelectionIsKept).                    *)
(*                                                                         *)
(* Every result in the cache is of a query with its key, and the key has   *)
(* all that the candidates depend on (KeyDetermines).                      *)
(***************************************************************************)
EXTENDS Retrieval, ContextAssembly, TextMatcher, SequenceTheorems, FiniteSetTheorems,
        WellFoundedInduction, TLAPS


-----------------------------------------------------------------------------
(* Lists *)

\* A set of numbers has a least one.
LEMMA LeastNumber ==
    ASSUME NEW T \in SUBSET Nat, T # {}
    PROVE  \E i \in T : \A j \in T : i <= j
<1> DEFINE R == {p \in Nat \X Nat : p[1] < p[2]}
<1>1. IsWellFoundedOn(R, Nat)
    BY NatLessThanWellFounded DEF OpToRel
<1>2. PICK i \in T : \A j \in T : <<j, i>> \notin R
    <2> HIDE DEF R
    <2>. QED BY <1>1, WFMin
<1>3. ASSUME NEW j \in T PROVE i <= j
    <2>1. <<j, i>> \notin R
        BY <1>2
    <2>. QED BY <2>1
<1>. QED BY <1>3

\* Induction, with a set of numbers instead of a property.
LEMMA UpTo ==
    ASSUME NEW N \in Nat, NEW T, 0 \in T, \A n \in 1 .. N : n - 1 \in T => n \in T
    PROVE  \A n \in 0 .. N : n \in T
<1> DEFINE Rest == (0 .. N) \ T
<1>1. SUFFICES ASSUME Rest # {} PROVE FALSE
  OBVIOUS
<1>2. PICK n \in Rest : \A j \in Rest : n <= j
  <2>1. Rest \in SUBSET Nat
    OBVIOUS
  <2> HIDE DEF Rest
  <2>. QED BY <1>1, <2>1, LeastNumber
<1>3. n \in 1 .. N /\ n - 1 \in 0 .. N /\ n \notin T
  OBVIOUS
<1>4. n - 1 \notin Rest
  <2> HIDE DEF Rest
  <2>. QED BY <1>2, <1>3
<1>. QED BY <1>3, <1>4

\* The values that a fold goes through.
Through(step, base, s, after) ==
  /\ after[0] = base
  /\ \A n \in 1 .. Len(s) : after[n] = step[after[n - 1]][s[n]]

\* The values of a fold exist for every step and every list.
LEMMA FoldsExist ==
    ASSUME NEW X, NEW E, NEW base \in X, NEW step \in [X -> [E -> X]], NEW s \in Seq(E)
    PROVE  \E after \in [0 .. Len(s) -> X] : Through(step, base, s, after)
<1> DEFINE Good(n, f) == f[0] = base /\ \A i \in 1 .. n : f[i] = step[f[i - 1]][s[i]]
           T == {n \in 0 .. Len(s) : \E f \in [0 .. n -> X] : Good(n, f)}
<1>0. /\ Len(s) \in Nat /\ \A i \in 1 .. Len(s) : s[i] \in E
      /\ \A x \in X, e \in E : step[x][e] \in X
  BY ElementOfSeq
<1>1. 0 \in T
  <2>1. [i \in 0 .. 0 |-> base] \in [0 .. 0 -> X] /\ Good(0, [i \in 0 .. 0 |-> base])
    OBVIOUS
  <2>2. 0 \in 0 .. Len(s)
    BY <1>0
  <2> HIDE DEF Good
  <2>. QED BY <2>1, <2>2
<1>2. ASSUME NEW n \in 1 .. Len(s), n - 1 \in T PROVE n \in T
  <2>1. n \in 0 .. Len(s) /\ n - 1 \in 0 .. n - 1 /\ n \in Nat /\ s[n] \in E
    BY <1>0
  <2>2. PICK f \in [0 .. n - 1 -> X] : Good(n - 1, f)
    BY <1>2
  <2> DEFINE v == step[f[n - 1]][s[n]]
             g == [i \in 0 .. n |-> IF i = n THEN v ELSE f[i]]
  <2>3. v \in X
    <3>1. f[n - 1] \in X
      BY <2>1
    <3>. QED BY <1>0, <2>1, <3>1
  <2>4. g[n] = v /\ \A i \in 0 .. n - 1 : g[i] = f[i]
    BY <2>1
  <2>5. g \in [0 .. n -> X]
    <3> HIDE DEF v
    <3>1. \A i \in 0 .. n : i # n => i \in 0 .. n - 1
      BY <2>1
    <3>. QED BY <2>3, <3>1
  <2> HIDE DEF g
  <2>6. g[0] = base
    BY <2>1, <2>2, <2>4
  <2>7. ASSUME NEW i \in 1 .. n PROVE g[i] = step[g[i - 1]][s[i]]
    <3>1. CASE i = n
      BY <2>1, <2>4, <3>1
    <3>2. CASE i # n
      <4>1. i \in 1 .. n - 1 /\ i \in 0 .. n - 1 /\ i - 1 \in 0 .. n - 1
        BY <2>1, <3>2
      <4>. QED BY <2>2, <2>4, <4>1
    <3>. QED BY <3>1, <3>2
  <2>8. Good(n, g)
    BY <2>6, <2>7
  <2> HIDE DEF Good
  <2>. QED BY <2>1, <2>5, <2>8
<1>3. PICK f \in [0 .. Len(s) -> X] : Good(Len(s), f)
  <2>1. Len(s) \in 0 .. Len(s)
    BY <1>0
  <2>2. Len(s) \in T
    <3> HIDE DEF T
    <3>. QED BY <1>0, <1>1, <1>2, <2>1, UpTo
  <2> HIDE DEF Good
  <2>. QED BY <2>2
<1>. QED BY <1>3 DEF Through

\* They end with what the fold gives.
FoldsTo(step, base, s, after) ==
  Through(step, base, s, after) /\ Fold(step, base, s) = after[Len(s)]

\* What is true of a fold can so be shown along its values.
LEMMA FoldGoesThrough ==
    ASSUME NEW X, NEW E, NEW base \in X, NEW step \in [X -> [E -> X]], NEW s \in Seq(E)
    PROVE  \E after \in [0 .. Len(s) -> X] : FoldsTo(step, base, s, after)
<1> DEFINE D == 0 .. Len(s)
           After(f) == [n \in 0 .. Len(s) |-> IF n = 0 THEN base ELSE step[f[n - 1]][s[n]]]
           after == CHOOSE f : f = After(f)
<1>1. Fold(step, base, s) = after[Len(s)]
  BY DEF Fold
<1>2. PICK g \in [0 .. Len(s) -> X] : Through(step, base, s, g)
  BY FoldsExist
<1>3. g = After(g)
  <2>1. Len(s) \in Nat
    OBVIOUS
  <2>2. \A n \in 0 .. Len(s) : g[n] = After(g)[n]
    BY <1>2, <2>1 DEF Through, FoldsTo
  <2>. QED BY <2>2
<1>4. after = After(after)
  <2> HIDE DEF After
  <2>. QED BY <1>3
<1>5. after \in [0 .. Len(s) -> X] /\ Through(step, base, s, after)
  <2>1. /\ Len(s) \in Nat /\ \A i \in 1 .. Len(s) : s[i] \in E
        /\ \A x \in X, e \in E : step[x][e] \in X
    BY ElementOfSeq
  <2> HIDE DEF after
  <2>2. after[0] = base /\ \A n \in 1 .. Len(s) : after[n] = step[after[n - 1]][s[n]]
    <3>1. \A n \in 0 .. Len(s) : After(after)[n] = IF n = 0 THEN base ELSE step[after[n - 1]][s[n]]
      OBVIOUS
    <3>2. 0 \in 0 .. Len(s) /\ \A n \in 1 .. Len(s) : n \in 0 .. Len(s) /\ n # 0
      BY <2>1
    <3> HIDE DEF After
    <3>. QED BY <1>4, <3>1, <3>2
  <2>3. \A n \in 0 .. Len(s) : after[n] \in X
    <3> DEFINE T == {n \in 0 .. Len(s) : after[n] \in X}
    <3>1. 0 \in T
      BY <2>1, <2>2
    <3>2. ASSUME NEW n \in 1 .. Len(s), n - 1 \in T PROVE n \in T
      <4>1. n \in 0 .. Len(s) /\ s[n] \in E /\ after[n] = step[after[n - 1]][s[n]] /\ after[n - 1] \in X
        BY <2>1, <2>2, <3>2
      <4>. QED BY <2>1, <4>1
    <3> HIDE DEF T
    <3>3. \A n \in 0 .. Len(s) : n \in T
      BY <2>1, <3>1, <3>2, UpTo
    <3>. QED BY <3>3 DEF T
  <2>4. after \in [0 .. Len(s) -> X]
    BY <1>4, <2>3
  <2>. QED BY <2>2, <2>4 DEF Through
<1>. QED BY <1>1, <1>5 DEF FoldsTo

\* A list is one of its own elements.
LEMMA SeqOfItsElements ==
    ASSUME NEW E, NEW s \in Seq(E)
    PROVE  s \in Seq(ToSet(s)) /\ ToSet(s) \subseteq E /\ \A i \in 1 .. Len(s) : s[i] \in ToSet(s)
<1>1. Len(s) \in Nat /\ DOMAIN s = 1 .. Len(s) /\ s = [i \in 1 .. Len(s) |-> s[i]] /\ \A i \in 1 .. Len(s) : s[i] \in E
  BY ElementOfSeq, LenProperties
<1>2. \A i \in 1 .. Len(s) : s[i] \in ToSet(s)
  BY <1>1 DEF ToSet
<1>3. s \in [1 .. Len(s) -> ToSet(s)]
  BY <1>1, <1>2
<1>4. s \in Seq(ToSet(s))
  <2> DEFINE S == ToSet(s)
  <2>1. Len(s) \in Nat /\ s \in [1 .. Len(s) -> S]
    BY <1>1, <1>3
  <2> HIDE DEF S
  <2>2. s \in Seq(S)
    BY <2>1, SeqDef
  <2>. QED BY <2>2 DEF S
<1>. QED BY <1>1, <1>2, <1>4 DEF ToSet

\* at tells where the elements of t come from: the elements of s in S, in their order.
Selection(s, S, n, t, at) ==
  /\ at \in [1 .. Len(t) -> 1 .. n]
  /\ \A i \in 1 .. Len(t) : t[i] = s[at[i]] /\ t[i] \in S
  /\ \A i, j \in 1 .. Len(t) : i < j => at[i] < at[j]
  /\ \A m \in 1 .. n : s[m] \in S => \E i \in 1 .. Len(t) : at[i] = m

\* What a filter keeps is such a selection.
LEMMA KeptSelects ==
    ASSUME NEW E, NEW s \in Seq(E), NEW S
    PROVE  Kept(s, S) \in Seq(E) /\ \E at : Selection(s, S, Len(s), Kept(s, S), at)
<1> DEFINE X == Seq(ToSet(s))
           step == [kept \in X |-> [e \in ToSet(s) |-> IF e \in S THEN Append(kept, e) ELSE kept]]
<1>1. s \in Seq(ToSet(s)) /\ ToSet(s) \subseteq E /\ Len(s) \in Nat
  BY SeqOfItsElements
<1>2. step \in [X -> [ToSet(s) -> X]]
  <2>1. ASSUME NEW kept \in X, NEW e \in ToSet(s) PROVE (IF e \in S THEN Append(kept, e) ELSE kept) \in X
    BY AppendProperties
  <2> HIDE DEF X
  <2>. QED BY <2>1
<1>3. <<>> \in X
  BY EmptySeq
<1>4. PICK after \in [0 .. Len(s) -> X] : FoldsTo(step, <<>>, s, after)
  <2> DEFINE E0 == ToSet(s)
             base == <<>>
  <2>1. base \in X /\ step \in [X -> [E0 -> X]] /\ s \in Seq(E0)
    BY <1>1, <1>2, <1>3
  <2> HIDE DEF step, X, E0, base
  <2>2. \E after \in [0 .. Len(s) -> X] : FoldsTo(step, base, s, after)
    BY <2>1, FoldGoesThrough
  <2>. QED BY <2>2 DEF base
<1>5. Kept(s, S) = after[Len(s)]
  BY <1>4 DEF Kept, FoldsTo
<1> DEFINE T == {n \in 0 .. Len(s) : \E at : Selection(s, S, n, after[n], at)}
<1>6. after[0] = <<>> /\ \A n \in 0 .. Len(s) : after[n] \in X
  BY <1>4 DEF Through, FoldsTo
<1>7. \A n \in 1 .. Len(s) : after[n] = IF s[n] \in S THEN Append(after[n - 1], s[n]) ELSE after[n - 1]
  <2>1. \A kept \in X, e \in ToSet(s) : step[kept][e] = IF e \in S THEN Append(kept, e) ELSE kept
    OBVIOUS
  <2> HIDE DEF step, X
  <2>. QED BY <1>1, <1>4, <1>6, <2>1, SeqOfItsElements DEF Through, FoldsTo
<1> HIDE DEF step
<1>8. 0 \in T
  <2>1. Selection(s, S, 0, after[0], <<>>)
    BY <1>6 DEF Selection
  <2>2. 0 \in 0 .. Len(s)
    BY <1>1
  <2>. QED BY <2>1, <2>2
<1>9. ASSUME NEW n \in 1 .. Len(s), n - 1 \in T PROVE n \in T
  <2>1. PICK at : Selection(s, S, n - 1, after[n - 1], at)
    BY <1>9
  <2>2. n \in 0 .. Len(s) /\ n - 1 \in 0 .. Len(s) /\ n \in Nat
    BY <1>1
  <2> DEFINE k == after[n - 1]
  <2>3. k \in X /\ Len(k) \in Nat
    BY <1>6, <2>2
  <2>4. CASE s[n] \notin S
    <3>1. after[n] = k
      BY <1>7, <2>4
    <3>2. Selection(s, S, n, k, at)
      BY <2>1, <2>2, <2>4 DEF Selection
    <3>. QED BY <2>2, <3>1, <3>2
  <2>5. CASE s[n] \in S
    <3> DEFINE b == [i \in 1 .. Len(k) + 1 |-> IF i = Len(k) + 1 THEN n ELSE at[i]]
               l == Append(k, s[n])
    <3>1. after[n] = l
      BY <1>7, <2>5
    <3>2. /\ Len(l) = Len(k) + 1 /\ l[Len(k) + 1] = s[n]
          /\ \A i \in 1 .. Len(k) : l[i] = k[i]
      BY <2>3, SeqOfItsElements, AppendProperties
    <3>3. /\ b[Len(k) + 1] = n /\ \A i \in 1 .. Len(k) : b[i] = at[i] /\ at[i] \in 1 .. n - 1
          /\ \A i \in 1 .. Len(k) + 1 : i \in 1 .. Len(k) \/ i = Len(k) + 1
      <4>1. at \in [1 .. Len(k) -> 1 .. n - 1]
        BY <2>1 DEF Selection
      <4> HIDE DEF k
      <4>. QED BY <2>3, <4>1
    <3>4. b \in [1 .. Len(l) -> 1 .. n]
      <4>1. \A i \in 1 .. Len(k) + 1 : b[i] \in 1 .. n
        <5> HIDE DEF b, k
        <5>. QED BY <2>2, <3>3
      <4> HIDE DEF k, l
      <4>2. b \in [1 .. Len(k) + 1 -> 1 .. n]
        BY <4>1
      <4>. QED BY <3>2, <4>2
    <3> HIDE DEF b, l, k
    <3>5. Selection(s, S, n, l, b)
      <4>1. \A i \in 1 .. Len(l) : l[i] = s[b[i]] /\ l[i] \in S
        BY <2>1, <2>5, <3>2, <3>3 DEF Selection, k
      <4>2. \A i, j \in 1 .. Len(l) : i < j => b[i] < b[j]
        <5>1. ASSUME NEW i \in 1 .. Len(l), NEW j \in 1 .. Len(l), i < j PROVE b[i] < b[j]
          <6>1. i \in 1 .. Len(k) /\ b[i] = at[i] /\ at[i] < n
            BY <2>2, <2>3, <3>2, <3>3, <5>1
          <6>2. CASE j = Len(k) + 1
            BY <3>3, <6>1, <6>2
          <6>3. CASE j \in 1 .. Len(k)
            BY <2>1, <3>3, <5>1, <6>1, <6>3 DEF Selection, k
          <6>. QED BY <3>2, <3>3, <6>2, <6>3
        <5>. QED BY <5>1
      <4>3. ASSUME NEW m \in 1 .. n, s[m] \in S PROVE \E i \in 1 .. Len(l) : b[i] = m
        <5>1. CASE m = n
          <6>1. Len(k) + 1 \in 1 .. Len(l)
            BY <2>3, <3>2
          <6>. QED BY <3>3, <5>1, <6>1
        <5>2. CASE m # n
          <6>1. m \in 1 .. n - 1
            BY <2>2, <5>2
          <6>2. PICK i \in 1 .. Len(k) : at[i] = m
            BY <2>1, <4>3, <6>1 DEF Selection, k
          <6>3. i \in 1 .. Len(l)
            BY <2>3, <3>2
          <6>. QED BY <3>3, <6>2, <6>3
        <5>. QED BY <5>1, <5>2
      <4>. QED BY <3>4, <4>1, <4>2, <4>3 DEF Selection
    <3>. QED BY <2>2, <3>1, <3>5
  <2>. QED BY <2>4, <2>5
<1>10. Len(s) \in T
  <2>1. Len(s) \in 0 .. Len(s)
    BY <1>1
  <2> HIDE DEF T
  <2>. QED BY <1>1, <1>8, <1>9, <2>1, UpTo
<1>11. Kept(s, S) \in Seq(E)
  <2>1. after[Len(s)] \in Seq(ToSet(s))
    BY <1>1, <1>6
  <2>. QED BY <1>1, <1>5, <2>1, SeqMonotonic
<1>. QED BY <1>5, <1>10, <1>11

-----------------------------------------------------------------------------
(* Sorting *)

\* before orders the numbers from 1 to n.
StrictOrder(before, n) ==
  /\ \A i \in 1 .. n : <<i, i>> \notin before
  /\ \A i, j, k \in 1 .. n : <<i, j>> \in before /\ <<j, k>> \in before => <<i, k>> \in before

\* p puts them into that order.
Sorts(before, n, p) ==
  /\ p \in [1 .. n -> 1 .. n]
  /\ \A i, j \in 1 .. n : p[i] = p[j] => i = j
  /\ \A m \in 1 .. n : \E i \in 1 .. n : p[i] = m
  /\ \A i, j \in 1 .. n : i < j => <<p[j], p[i]>> \notin before

\* By insertion.
LEMMA SortingsExist ==
    ASSUME NEW n \in Nat, NEW before, StrictOrder(before, n)
    PROVE  \E p : Sorts(before, n, p)
<1> DEFINE T == {k \in 0 .. n : \E p : Sorts(before, k, p)}
<1>1. 0 \in T
  <2>1. Sorts(before, 0, [i \in 1 .. 0 |-> i])
    BY DEF Sorts
  <2>. QED BY <2>1
<1>2. ASSUME NEW k \in 1 .. n, k - 1 \in T PROVE k \in T
  <2>1. PICK p : Sorts(before, k - 1, p)
    BY <1>2
  <2>2. /\ p \in [1 .. k - 1 -> 1 .. k - 1] /\ k \in Nat /\ 1 .. k - 1 \subseteq 1 .. n
        /\ 1 .. k \subseteq 1 .. n
    <3>1. k \in Nat /\ 1 .. k - 1 \subseteq 1 .. n /\ 1 .. k \subseteq 1 .. n
      OBVIOUS
    <3>. QED BY <2>1, <3>1 DEF Sorts
  <2> DEFINE Places == {m \in 1 .. k : m = k \/ <<k, p[m]>> \in before}
  <2>3. PICK m \in Places : \A j \in Places : m <= j
    <3>1. Places \in SUBSET Nat /\ Places # {}
      <4>1. k \in Places
        BY <2>2
      <4>2. Places \in SUBSET Nat
        OBVIOUS
      <4>. QED BY <4>1, <4>2
    <3> HIDE DEF Places
    <3>. QED BY <3>1, LeastNumber
  <2>4. /\ m \in 1 .. k
        /\ \A i \in 1 .. k - 1 : i < m => <<k, p[i]>> \notin before
        /\ m # k => <<k, p[m]>> \in before
    BY <2>2, <2>3
  <2> DEFINE q == [i \in 1 .. k |-> IF i < m THEN p[i] ELSE IF i = m THEN k ELSE p[i - 1]]
  <2>5. /\ \A i \in 1 .. k : i < m => i \in 1 .. k - 1 /\ q[i] = p[i] /\ q[i] \in 1 .. k - 1
        /\ \A i \in 1 .. k : i > m => i - 1 \in 1 .. k - 1 /\ q[i] = p[i - 1] /\ q[i] \in 1 .. k - 1
        /\ q[m] = k /\ m \in 1 .. k
    BY <2>2, <2>4
  <2>6. q \in [1 .. k -> 1 .. k]
    <3>1. ASSUME NEW i \in 1 .. k PROVE q[i] \in 1 .. k
      <4> HIDE DEF q
      <4>1. i < m \/ i > m \/ i = m
        BY <2>5
      <4>2. q[i] \in 1 .. k - 1 \/ q[i] = k
        BY <2>5, <4>1
      <4>. QED BY <2>2, <4>2
    <3>. QED BY <3>1
  <2> HIDE DEF q
  <2>7. ASSUME NEW i \in 1 .. k, NEW j \in 1 .. k, i < j PROVE <<q[j], q[i]>> \notin before /\ q[i] # q[j]
    <3>1. CASE j < m
      <4>1. i \in 1 .. k - 1 /\ j \in 1 .. k - 1 /\ q[i] = p[i] /\ q[j] = p[j]
        BY <2>5, <2>7, <3>1
      <4>. QED BY <2>1, <2>7, <4>1 DEF Sorts
    <3>2. CASE j = m
      <4>1. i \in 1 .. k - 1 /\ q[i] = p[i] /\ q[i] \in 1 .. k - 1 /\ q[j] = k /\ i < m
        BY <2>5, <2>7, <3>2
      <4>. QED BY <2>2, <2>4, <4>1
    <3>3. CASE i = m
      <4>1. j - 1 \in 1 .. k - 1 /\ q[j] = p[j - 1] /\ q[j] \in 1 .. k - 1 /\ q[i] = k /\ m # k
        BY <2>2, <2>5, <2>7, <3>3
      <4>2. <<k, p[m]>> \in before /\ m \in 1 .. k - 1 /\ m <= j - 1 /\ p[m] \in 1 .. n /\ k \in 1 .. n
        BY <2>2, <2>4, <2>7, <3>3, <4>1
      <4>3. SUFFICES ASSUME <<p[j - 1], k>> \in before PROVE FALSE
        BY <4>1, <2>2
      <4>4. <<p[j - 1], p[m]>> \in before /\ p[j - 1] \in 1 .. n
        BY <2>2, <4>1, <4>2, <4>3 DEF StrictOrder
      <4>5. m # j - 1
        BY <4>2, <4>4 DEF StrictOrder
      <4>6. m < j - 1
        BY <4>2, <4>5, <2>2
      <4>. QED BY <2>1, <4>1, <4>2, <4>4, <4>6 DEF Sorts
    <3>4. CASE i > m
      <4>1. /\ i - 1 \in 1 .. k - 1 /\ j - 1 \in 1 .. k - 1 /\ q[i] = p[i - 1] /\ q[j] = p[j - 1]
            /\ i - 1 < j - 1
        BY <2>5, <2>7, <3>4
      <4>. QED BY <2>1, <4>1 DEF Sorts
    <3>5. CASE i < m /\ j > m
      <4>1. /\ i \in 1 .. k - 1 /\ j - 1 \in 1 .. k - 1 /\ q[i] = p[i] /\ q[j] = p[j - 1]
            /\ i < j - 1
        BY <2>5, <2>7, <3>5
      <4>. QED BY <2>1, <4>1 DEF Sorts
    <3>. QED BY <2>4, <2>7, <3>1, <3>2, <3>3, <3>4, <3>5
  <2>8. ASSUME NEW x \in 1 .. k PROVE \E i \in 1 .. k : q[i] = x
    <3>1. CASE x = k
      BY <2>5, <3>1
    <3>2. CASE x # k
      <4>1. x \in 1 .. k - 1
        BY <2>2, <3>2
      <4>2. PICK i \in 1 .. k - 1 : p[i] = x
        BY <2>1, <4>1 DEF Sorts
      <4>3. CASE i < m
        <5>1. i \in 1 .. k
          BY <2>2
        <5>. QED BY <2>5, <4>2, <4>3, <5>1
      <4>4. CASE i >= m
        <5>1. i + 1 \in 1 .. k /\ i + 1 > m /\ (i + 1) - 1 = i
          BY <2>2, <2>4, <4>4
        <5>. QED BY <2>5, <4>2, <5>1
      <4>. QED BY <2>4, <4>3, <4>4
    <3>. QED BY <3>1, <3>2
  <2>9. \A i, j \in 1 .. k : q[i] = q[j] => i = j
    <3>1. ASSUME NEW i \in 1 .. k, NEW j \in 1 .. k, i # j PROVE q[i] # q[j]
      <4>1. i < j \/ j < i
        BY <3>1
      <4>. QED BY <2>7, <4>1
    <3>. QED BY <3>1
  <2>10. Sorts(before, k, q)
    BY <2>6, <2>7, <2>8, <2>9 DEF Sorts
  <2>. QED BY <2>10
<1>3. n \in T
  <2>1. n \in 0 .. n
    OBVIOUS
  <2> HIDE DEF T
  <2>. QED BY <1>1, <1>2, <2>1, UpTo
<1>. QED BY <1>3

\* The order that is chosen is one of these.
LEMMA SortingSorts ==
    ASSUME NEW n \in Nat, NEW before, StrictOrder(before, n)
    PROVE  Sorts(before, n, Sorting(n, before))
<1>1. PICK p : Sorts(before, n, p)
  BY SortingsExist
<1>2. \A q : q \in Bijection(1 .. n, 1 .. n) /\ (\A i, j \in 1 .. n : i < j => <<q[j], q[i]>> \notin before)
           <=> Sorts(before, n, q)
  BY DEF Sorts, Bijection, Injection, Surjection, IsInjective
<1>3. Sorting(n, before) \in Bijection(1 .. n, 1 .. n) /\ \A i, j \in 1 .. n : i < j => <<Sorting(n, before)[j], Sorting(n, before)[i]>> \notin before
  BY <1>1, <1>2 DEF Sorting
<1>. QED BY <1>2, <1>3

\* p tells where the elements of t, which is s sorted, come from.
SortedBy(s, before, p, t) ==
  Sorts(before, Len(s), p) /\ \A i \in 1 .. Len(s) : t[i] = s[p[i]]

\* A sorted list has the elements of the list, in that order.
LEMMA SortedList ==
    ASSUME NEW E, NEW s \in Seq(E), NEW before, StrictOrder(before, Len(s))
    PROVE  /\ Sorted(s, before) \in Seq(E) /\ Len(Sorted(s, before)) = Len(s)
           /\ \E p : SortedBy(s, before, p, Sorted(s, before))
<1> DEFINE p == Sorting(Len(s), before)
<1>1. Len(s) \in Nat /\ DOMAIN s = 1 .. Len(s) /\ \A i \in 1 .. Len(s) : s[i] \in E
  BY ElementOfSeq, LenProperties
<1>2. Sorts(before, Len(s), p)
  BY <1>1, SortingSorts
<1> HIDE DEF p
<1>3. Sorted(s, before) = [i \in 1 .. Len(s) |-> s[p[i]]]
  BY <1>1 DEF Sorted, p
<1>4. \A i \in 1 .. Len(s) : s[p[i]] \in E
  BY <1>1, <1>2 DEF Sorts
<1>5. Sorted(s, before) \in [1 .. Len(s) -> E]
  BY <1>3, <1>4
<1>6. Sorted(s, before) \in Seq(E) /\ Len(Sorted(s, before)) = Len(s)
  BY <1>1, <1>5, SeqDef, LenProperties
<1>. QED BY <1>2, <1>3, <1>6 DEF SortedBy

-----------------------------------------------------------------------------
(* Lists of lists *)

\* The first n lists of s are in t, one after the other; list i behind place at[i].
Layout(s, n, t, at) ==
  /\ at \in [1 .. n + 1 -> Nat] /\ at[1] = 0 /\ at[n + 1] = Len(t)
  /\ \A i \in 1 .. n : at[i + 1] = at[i] + Len(s[i])
  /\ \A i \in 1 .. n : \A m \in 1 .. Len(s[i]) : t[at[i] + m] = s[i][m]
  /\ \A k \in 1 .. Len(t) : \E i \in 1 .. n : \E m \in 1 .. Len(s[i]) : k = at[i] + m
  /\ \A i \in 1 .. n : \A j \in 1 .. n + 1 : i < j => at[i] + Len(s[i]) <= at[j]

\* One more list comes behind those that are laid out.
LEMMA LayoutGrows ==
    ASSUME NEW E, NEW s \in Seq(Seq(E)), NEW n \in 1 .. Len(s), NEW t \in Seq(E), NEW at,
           Layout(s, n - 1, t, at)
    PROVE  \E b : Layout(s, n, t \o s[n], b)
<1>1. n \in Nat /\ n - 1 \in Nat /\ s[n] \in Seq(E) /\ n + 1 \in 1 .. n + 1 /\ (n - 1) + 1 = n
  BY ElementOfSeq
<1>2. \A i \in 1 .. n : s[i] \in Seq(E) /\ Len(s[i]) \in Nat
  <2>1. \A i \in 1 .. n : i \in 1 .. Len(s)
    OBVIOUS
  <2>. QED BY <2>1, ElementOfSeq, LenProperties
<1> DEFINE u == t \o s[n]
           l == Len(s[n])
           b == [i \in 1 .. n + 1 |-> IF i = n + 1 THEN Len(t) + l ELSE at[i]]
<1>3. /\ Len(u) = Len(t) + l /\ Len(t) \in Nat /\ l \in Nat
      /\ \A k \in 1 .. Len(t) : u[k] = t[k]
      /\ \A m \in 1 .. l : u[Len(t) + m] = s[n][m]
  <2>1. /\ Len(t) \in Nat /\ l \in Nat /\ Len(u) = Len(t) + l
        /\ \A k \in 1 .. Len(t) + l : u[k] = IF k <= Len(t) THEN t[k] ELSE s[n][k - Len(t)]
    BY <1>1, ConcatProperties, LenProperties
  <2> HIDE DEF u, l
  <2>2. \A k \in 1 .. Len(t) : k \in 1 .. Len(t) + l /\ k <= Len(t)
    BY <2>1
  <2>3. \A m \in 1 .. l : Len(t) + m \in 1 .. Len(t) + l /\ ~(Len(t) + m <= Len(t)) /\ (Len(t) + m) - Len(t) = m
    BY <2>1
  <2>. QED BY <2>1, <2>2, <2>3
<1>4. /\ \A i \in 1 .. n : at[i] \in Nat
      /\ at[1] = 0 /\ at[n] = Len(t)
      /\ \A i \in 1 .. n - 1 : at[i + 1] = at[i] + Len(s[i])
      /\ \A i \in 1 .. n - 1 : \A m \in 1 .. Len(s[i]) : t[at[i] + m] = s[i][m]
      /\ \A k \in 1 .. Len(t) : \E i \in 1 .. n - 1 : \E m \in 1 .. Len(s[i]) : k = at[i] + m
      /\ \A i \in 1 .. n - 1 : \A j \in 1 .. n : i < j => at[i] + Len(s[i]) <= at[j]
  BY <1>1 DEF Layout
<1>5. b[n + 1] = Len(t) + l /\ \A i \in 1 .. n : b[i] = at[i] /\ i \in 1 .. n + 1
  BY <1>1
<1> HIDE DEF u
<1>6. b \in [1 .. n + 1 -> Nat]
  <2>1. ASSUME NEW i \in 1 .. n + 1 PROVE (IF i = n + 1 THEN Len(t) + l ELSE at[i]) \in Nat
    <3>1. i # n + 1 => i \in 1 .. n
      BY <1>1
    <3> HIDE DEF l
    <3>. QED BY <1>3, <1>4, <3>1
  <2>. QED BY <2>1
<1> HIDE DEF b, l
<1>7. b[1] = 0 /\ b[n + 1] = Len(u)
  <2>1. 1 \in 1 .. n
    BY <1>1
  <2>. QED BY <1>3, <1>4, <1>5, <2>1
<1>8. ASSUME NEW i \in 1 .. n PROVE b[i + 1] = b[i] + Len(s[i])
  <2>1. CASE i = n
    BY <1>4, <1>5, <2>1 DEF l
  <2>2. CASE i # n
    <3>1. i \in 1 .. n - 1 /\ i + 1 \in 1 .. n
      BY <1>1, <2>2
    <3>. QED BY <1>4, <1>5, <3>1
  <2>. QED BY <2>1, <2>2
<1>9. ASSUME NEW i \in 1 .. n, NEW m \in 1 .. Len(s[i]) PROVE u[b[i] + m] = s[i][m]
  <2>1. CASE i = n
    BY <1>3, <1>4, <1>5, <1>9, <2>1 DEF l
  <2>2. CASE i # n
    <3>1. i \in 1 .. n - 1 /\ n \in 1 .. n
      BY <1>1, <2>2
    <3>2. at[i] + Len(s[i]) <= Len(t)
      BY <1>4, <3>1
    <3>3. at[i] + m \in 1 .. Len(t)
      <4>1. at[i] \in Nat /\ Len(s[i]) \in Nat /\ Len(t) \in Nat
        BY <1>2, <1>3, <1>4
      <4> DEFINE a == at[i]
                 k == Len(s[i])
                 c == Len(t)
      <4>2. a \in Nat /\ k \in Nat /\ c \in Nat /\ m \in 1 .. k /\ a + k <= c
        BY <1>9, <3>2, <4>1
      <4> HIDE DEF a, k, c
      <4>3. a + m \in 1 .. c
        BY <4>2
      <4>. QED BY <4>3 DEF a, c
    <3>. QED BY <1>3, <1>4, <1>5, <1>9, <3>1, <3>3
  <2>. QED BY <2>1, <2>2
<1>10. ASSUME NEW k \in 1 .. Len(u) PROVE \E i \in 1 .. n : \E m \in 1 .. Len(s[i]) : k = b[i] + m
  <2>1. CASE k <= Len(t)
    <3>1. k \in 1 .. Len(t)
      BY <1>3, <2>1
    <3>2. PICK i \in 1 .. n - 1 : \E m \in 1 .. Len(s[i]) : k = at[i] + m
      BY <1>4, <3>1
    <3>3. i \in 1 .. n
      BY <1>1
    <3>. QED BY <1>5, <3>2, <3>3
  <2>2. CASE k > Len(t)
    <3>1. n \in 1 .. n /\ k - Len(t) \in 1 .. l /\ k = Len(t) + (k - Len(t))
      BY <1>1, <1>3, <2>2
    <3>2. b[n] = Len(t)
      BY <1>4, <1>5, <3>1
    <3>3. k - Len(t) \in 1 .. Len(s[n]) /\ k = b[n] + (k - Len(t))
      BY <3>1, <3>2 DEF l
    <3>. QED BY <3>1, <3>3
  <2>. QED BY <1>3, <2>1, <2>2
<1>11. ASSUME NEW i \in 1 .. n, NEW j \in 1 .. n + 1, i < j PROVE b[i] + Len(s[i]) <= b[j]
  <2>1. CASE j \in 1 .. n
    <3>1. i \in 1 .. n - 1
      BY <1>1, <1>11, <2>1
    <3>. QED BY <1>4, <1>5, <1>11, <2>1, <3>1
  <2>2. CASE j = n + 1 /\ i = n
    BY <1>3, <1>4, <1>5, <2>2 DEF l
  <2>3. CASE j = n + 1 /\ i \in 1 .. n - 1
    <3>1. n \in 1 .. n /\ i < n
      BY <1>1, <2>3
    <3>2. at[i] + Len(s[i]) <= Len(t)
      BY <1>4, <2>3, <3>1
    <3>3. b[i] = at[i] /\ b[j] = Len(t) + l /\ at[i] \in Nat /\ Len(s[i]) \in Nat
      BY <1>2, <1>4, <1>5, <2>3
    <3>. QED BY <1>3, <3>2, <3>3
  <2>. QED BY <1>1, <2>1, <2>2, <2>3
<1>12. Layout(s, n, u, b)
  BY <1>6, <1>7, <1>8, <1>9, <1>10, <1>11 DEF Layout
<1>. QED BY <1>12 DEF u

\* FlattenSeq lays all of them out.
LEMMA Flattens ==
    ASSUME NEW E, NEW s \in Seq(Seq(E))
    PROVE  FlattenSeq(s) \in Seq(E) /\ \E at : Layout(s, Len(s), FlattenSeq(s), at)
<1>1. Len(s) \in Nat /\ \A i \in 1 .. Len(s) : s[i] \in Seq(E) /\ Len(s[i]) \in Nat
  BY ElementOfSeq, LenProperties
<1> DEFINE step == [t \in Seq(E) |-> [u \in Seq(E) |-> t \o u]]
           first == [i \in 1 .. 1 |-> 0]
<1>2. PICK after \in [0 .. Len(s) -> Seq(E)] : Through(step, <<>>, s, after)
  <2>1. step \in [Seq(E) -> [Seq(E) -> Seq(E)]]
    BY ConcatProperties
  <2> DEFINE X == Seq(E)
             base == <<>>
  <2>2. base \in X /\ step \in [X -> [X -> X]] /\ s \in Seq(X)
    BY <2>1, EmptySeq
  <2> HIDE DEF step, X, base
  <2>3. \E after \in [0 .. Len(s) -> X] : Through(step, base, s, after)
    BY <2>2, FoldsExist
  <2>. QED BY <2>3 DEF base, X
<1>0. \A n \in 0 .. Len(s) : after[n] \in Seq(E)
  <2> HIDE DEF step
  <2>. QED BY <1>2
<1>3. after[0] = <<>> /\ \A n \in 1 .. Len(s) : after[n] = after[n - 1] \o s[n] /\ after[n] \in Seq(E)
  <2>1. \A n \in 1 .. Len(s) : after[n] = step[after[n - 1]][s[n]] /\ after[n - 1] \in Seq(E) /\ after[n] \in Seq(E)
    <3>1. \A n \in 1 .. Len(s) : n \in 0 .. Len(s) /\ n - 1 \in 0 .. Len(s)
      BY <1>1
    <3> HIDE DEF step
    <3>. QED BY <1>0, <1>2, <3>1 DEF Through
  <2>2. \A t, u \in Seq(E) : step[t][u] = t \o u
    OBVIOUS
  <2>3. after[0] = <<>>
    BY <1>2 DEF Through
  <2> HIDE DEF step
  <2>. QED BY <1>1, <2>1, <2>2, <2>3
<1> DEFINE T == {n \in 0 .. Len(s) : \E at : Layout(s, n, after[n], at)}
<1>4. 0 \in T
  <2>1. Layout(s, 0, <<>>, first)
    BY DEF Layout
  <2>. QED BY <1>1, <1>3, <2>1
<1>5. ASSUME NEW n \in 1 .. Len(s), n - 1 \in T PROVE n \in T
  <2>1. PICK at : Layout(s, n - 1, after[n - 1], at)
    BY <1>5
  <2>2. after[n - 1] \in Seq(E) /\ n \in 0 .. Len(s)
    BY <1>0, <1>1
  <2>3. \E b : Layout(s, n, after[n - 1] \o s[n], b)
    BY <2>1, <2>2, LayoutGrows
  <2>. QED BY <1>3, <2>2, <2>3
<1>6. \E at : Layout(s, Len(s), after[Len(s)], at)
  <2>1. Len(s) \in 0 .. Len(s)
    BY <1>1
  <2>2. Len(s) \in T
    <3> HIDE DEF T
    <3>. QED BY <1>1, <1>4, <1>5, <2>1, UpTo
  <2>. QED BY <2>2
<1>7. FlattenSeq(s) = after[Len(s)]
  <2>1. CASE Len(s) = 0
    <3>1. s = <<>>
      BY <2>1, EmptySeq
    <3>. QED BY <1>3, <2>1, <3>1 DEF FlattenSeq
  <2>2. CASE Len(s) # 0
    <3> DEFINE G(f) == [i \in 1 .. Len(s) |-> IF i = 1 THEN s[i] ELSE f[i - 1] \o s[i]]
               flatten == CHOOSE f : f = G(f)
               g == [i \in 1 .. Len(s) |-> after[i]]
    <3>1. FlattenSeq(s) = flatten[Len(s)]
      BY <2>2 DEF FlattenSeq
    <3>2. g = G(g)
      <4>1. ASSUME NEW i \in 1 .. Len(s) PROVE g[i] = IF i = 1 THEN s[i] ELSE g[i - 1] \o s[i]
        <5>1. CASE i = 1
          <6>1. after[1] = <<>> \o s[1] /\ s[1] \in Seq(E)
            <7>1. after[i] = after[i - 1] \o s[i] /\ s[i] \in Seq(E)
              BY <1>1, <1>3
            <7>2. i - 1 = 0
              BY <5>1
            <7>. QED BY <1>3, <5>1, <7>1, <7>2
          <6>2. <<>> \o s[1] = s[1]
            BY <6>1, ConcatEmptySeq
          <6>. QED BY <5>1, <6>1, <6>2
        <5>2. CASE i # 1
          <6>1. i - 1 \in 1 .. Len(s)
            BY <1>1, <5>2
          <6>. QED BY <1>3, <5>2, <6>1
        <5>. QED BY <5>1, <5>2
      <4>. QED BY <4>1
    <3>3. flatten = G(flatten)
      <4> HIDE DEF G, g
      <4>. QED BY <3>2
    <3> HIDE DEF flatten
    <3>4. \A i \in 1 .. Len(s) : flatten[i] = IF i = 1 THEN s[i] ELSE flatten[i - 1] \o s[i]
      <4>1. \A i \in 1 .. Len(s) : G(flatten)[i] = IF i = 1 THEN s[i] ELSE flatten[i - 1] \o s[i]
        OBVIOUS
      <4> HIDE DEF G
      <4>. QED BY <3>3, <4>1
    <3>5. \A i \in 1 .. Len(s) : after[i] = IF i = 1 THEN s[i] ELSE after[i - 1] \o s[i]
      <4>1. ASSUME NEW i \in 1 .. Len(s) PROVE after[i] = IF i = 1 THEN s[i] ELSE after[i - 1] \o s[i]
        <5>1. CASE i = 1
          <6>1. after[1] = <<>> \o s[1] /\ s[1] \in Seq(E)
            <7>1. after[i] = after[i - 1] \o s[i] /\ s[i] \in Seq(E)
              BY <1>1, <1>3
            <7>2. i - 1 = 0
              BY <5>1
            <7>. QED BY <1>3, <5>1, <7>1, <7>2
          <6>. QED BY <5>1, <6>1, ConcatEmptySeq
        <5>2. CASE i # 1
          BY <1>3, <5>2
        <5>. QED BY <5>1, <5>2
      <4>. QED BY <4>1
    <3> DEFINE T2 == {n \in 0 .. Len(s) : n = 0 \/ flatten[n] = after[n]}
    <3>6. 0 \in T2
      BY <1>1
    <3>7. ASSUME NEW n \in 1 .. Len(s), n - 1 \in T2 PROVE n \in T2
      <4>1. n - 1 = 0 \/ flatten[n - 1] = after[n - 1]
        BY <3>7
      <4>2. n \in 0 .. Len(s) /\ (n - 1 = 0 => n = 1)
        BY <1>1
      <4>3. flatten[n] = after[n]
        BY <3>4, <3>5, <4>1, <4>2
      <4>. QED BY <4>2, <4>3
    <3>8. Len(s) \in T2
      <4>1. Len(s) \in 0 .. Len(s)
        BY <1>1
      <4> HIDE DEF T2
      <4>. QED BY <1>1, <3>6, <3>7, <4>1, UpTo
    <3>. QED BY <2>2, <3>1, <3>8
  <2>. QED BY <2>1, <2>2
<1>8. after[Len(s)] \in Seq(E)
  BY <1>0, <1>1
<1>. QED BY <1>6, <1>7, <1>8

-----------------------------------------------------------------------------
(* Retrieval: the hits *)

\* Hits are ordered: by score, then by chunk and by the other score.
LEMMA BetterOrders ==
    /\ \A g \in Hit : ~Better(g, g)
    /\ \A g, h, k \in Hit : Better(g, h) /\ Better(h, k) => Better(g, k)
    /\ \A g, h \in Hit : g = h \/ Better(g, h) \/ Better(h, g)
<1>1. Chunks \subseteq Int /\ Scores \subseteq Int
  BY RetrievalAssumption
<1>2. \A h \in Hit : h.id \in Int /\ h.score \in Int
  BY <1>1 DEF Hit
<1>3. \A g, h \in Hit : g.id = h.id /\ g.score = h.score => g = h
  BY DEF Hit
<1>. QED BY <1>2, <1>3 DEF Better

\* Best first, and no two of a kind.
Ranked(s)  == \A i, j \in 1 .. Len(s) : i < j => Better(s[i], s[j])
Descending(s) == \A i, j \in 1 .. Len(s) : i < j => ~Better(s[j], s[i])
SameElements(s, t) ==
  /\ \A i \in 1 .. Len(t) : \E j \in 1 .. Len(s) : t[i] = s[j]
  /\ \A j \in 1 .. Len(s) : \E i \in 1 .. Len(t) : t[i] = s[j]
Distinct(s) == \A i, j \in 1 .. Len(s) : s[i] = s[j] => i = j

\* SortHits sorts them: the hits are the same, the best first.
LEMMA SortedHits ==
    ASSUME NEW s \in Seq(Hit)
    PROVE  /\ SortHits(s) \in Seq(Hit) /\ Len(SortHits(s)) = Len(s)
           /\ Descending(SortHits(s)) /\ SameElements(s, SortHits(s))
           /\ Distinct(s) => Ranked(SortHits(s))
<1> DEFINE t == SortHits(s)
           before == {p \in (DOMAIN s) \X (DOMAIN s) : Better(s[p[1]], s[p[2]])}
<1>1. Len(s) \in Nat /\ DOMAIN s = 1 .. Len(s) /\ \A i \in 1 .. Len(s) : s[i] \in Hit
  BY ElementOfSeq, LenProperties
<1>2. \A i, j \in 1 .. Len(s) : <<i, j>> \in before <=> Better(s[i], s[j])
  BY <1>1
<1>3. StrictOrder(before, Len(s))
  <2> HIDE DEF before
  <2>. QED BY <1>1, <1>2, BetterOrders DEF StrictOrder
<1>4. /\ t \in Seq(Hit) /\ Len(t) = Len(s)
      /\ \E p : SortedBy(s, before, p, t)
  <2>1. t = Sorted(s, before)
    BY DEF SortHits
  <2> HIDE DEF before, t
  <2>. QED BY <1>3, <2>1, SortedList
<1>5. PICK p : Sorts(before, Len(s), p) /\ \A i \in 1 .. Len(s) : t[i] = s[p[i]]
  BY <1>4 DEF SortedBy
<1> HIDE DEF before, t
<1>6. \A i \in 1 .. Len(s) : p[i] \in 1 .. Len(s) /\ t[i] \in Hit
  BY <1>1, <1>5 DEF Sorts
<1>7. Descending(t)
  <2>1. ASSUME NEW i \in 1 .. Len(t), NEW j \in 1 .. Len(t), i < j PROVE ~Better(t[j], t[i])
    <3>1. <<p[j], p[i]>> \notin before
      BY <1>4, <1>5, <2>1 DEF Sorts
    <3>. QED BY <1>2, <1>4, <1>5, <1>6, <3>1
  <2>. QED BY <2>1 DEF Descending
<1>8. SameElements(s, t)
  <2>1. ASSUME NEW j \in 1 .. Len(s) PROVE \E i \in 1 .. Len(t) : t[i] = s[j]
    <3>1. PICK i \in 1 .. Len(s) : p[i] = j
      BY <1>5 DEF Sorts
    <3>. QED BY <1>4, <1>5, <3>1
  <2>2. \A i \in 1 .. Len(t) : \E j \in 1 .. Len(s) : t[i] = s[j]
    BY <1>4, <1>5, <1>6
  <2>. QED BY <2>1, <2>2 DEF SameElements
<1>9. ASSUME Distinct(s) PROVE Ranked(t)
  <2>1. ASSUME NEW i \in 1 .. Len(t), NEW j \in 1 .. Len(t), i < j PROVE Better(t[i], t[j])
    <3>1. t[i] # t[j]
      <4>1. i # j /\ p[i] # p[j] /\ p[i] \in 1 .. Len(s) /\ p[j] \in 1 .. Len(s)
        BY <1>4, <1>5, <1>6, <2>1 DEF Sorts
      <4>. QED BY <1>4, <1>5, <1>9, <4>1 DEF Distinct
    <3>. QED BY <1>4, <1>6, <1>7, <2>1, <3>1, BetterOrders DEF Descending
  <2>. QED BY <2>1 DEF Ranked
<1>. QED BY <1>4, <1>7, <1>8, <1>9 DEF t

\* No hit is twice in a ranked list.
LEMMA RankedIsDistinct ==
    ASSUME NEW s \in Seq(Hit), Ranked(s)
    PROVE  Distinct(s)
<1>1. \A i \in 1 .. Len(s) : s[i] \in Hit
  BY ElementOfSeq
<1>2. ASSUME NEW i \in 1 .. Len(s), NEW j \in 1 .. Len(s), s[i] = s[j], i # j PROVE FALSE
  <2>1. i < j \/ j < i
    BY <1>2
  <2>. QED BY <1>1, <1>2, <2>1, BetterOrders DEF Ranked
<1>. QED BY <1>2 DEF Distinct

\* d holds the best hit of each chunk in s.
Best(s, d) ==
  /\ d \in Seq(Hit) /\ Ranked(d)
  /\ \A i \in 1 .. Len(d) :
       /\ d[i] \in ToSet(s)
       /\ \A g \in ToSet(s) : g.id = d[i].id => ~Better(g, d[i])
  /\ \A g \in ToSet(s) : \E i \in 1 .. Len(d) : d[i].id = g.id

\* What the deduplication of the sorted hits s has kept of the first n.
KeptOf(s, n, k) ==
  /\ \A i \in 1 .. Len(k) : \E m \in 1 .. n : k[i] = s[m]
  /\ \A m \in 1 .. n : \E i \in 1 .. Len(k) : k[i].id = s[m].id /\ ~Better(s[m], k[i])
  /\ \A i, j \in 1 .. Len(k) : k[i].id = k[j].id => i = j

\* One round of the deduplication.
LEMMA KeepHitKeeps ==
    ASSUME NEW s \in Seq(Hit), Descending(s), NEW n \in 1 .. Len(s), NEW k \in Seq(Hit),
           KeptOf(s, n - 1, k)
    PROVE  KeptOf(s, n, KeepHit(k, s[n]))
<1>1. /\ n \in Nat /\ s[n] \in Hit /\ Len(k) \in Nat /\ DOMAIN k = 1 .. Len(k)
      /\ \A i \in 1 .. Len(k) : k[i] \in Hit
      /\ \A i \in 1 .. n - 1 : i \in 1 .. n /\ i \in 1 .. Len(s) /\ s[i] \in Hit /\ i < n
  <2>1. n \in Nat /\ Len(s) \in Nat /\ \A i \in 1 .. n - 1 : i \in 1 .. n /\ i \in 1 .. Len(s) /\ i < n
    OBVIOUS
  <2>. QED BY <2>1, ElementOfSeq, LenProperties
<1> DEFINE same == {i \in DOMAIN k : k[i].id = s[n].id}
<1>2. CASE same = {}
  <2> DEFINE l == Append(k, s[n])
  <2>1. KeepHit(k, s[n]) = l
    BY <1>2 DEF KeepHit
  <2>2. /\ Len(l) = Len(k) + 1 /\ l[Len(k) + 1] = s[n] /\ \A i \in 1 .. Len(k) : l[i] = k[i]
        /\ \A i \in 1 .. Len(l) : i \in 1 .. Len(k) \/ i = Len(k) + 1
        /\ Len(k) + 1 \in 1 .. Len(l) /\ \A i \in 1 .. Len(k) : i \in 1 .. Len(l)
    BY <1>1, AppendProperties
  <2> HIDE DEF l
  <2>3. \A i \in 1 .. Len(k) : k[i].id # s[n].id
    BY <1>1, <1>2
  <2>4. ASSUME NEW i \in 1 .. Len(l) PROVE \E m \in 1 .. n : l[i] = s[m]
    <3>1. CASE i \in 1 .. Len(k)
      <4>1. PICK m \in 1 .. n - 1 : k[i] = s[m]
        BY <3>1 DEF KeptOf
      <4>. QED BY <1>1, <2>2, <3>1, <4>1
    <3>2. CASE i = Len(k) + 1
      BY <1>1, <2>2, <3>2
    <3>. QED BY <2>2, <3>1, <3>2
  <2>5. ASSUME NEW m \in 1 .. n PROVE \E i \in 1 .. Len(l) : l[i].id = s[m].id /\ ~Better(s[m], l[i])
    <3>1. CASE m = n
      BY <1>1, <2>2, <3>1, BetterOrders
    <3>2. CASE m # n
      <4>1. m \in 1 .. n - 1
        BY <1>1, <3>2
      <4>. QED BY <2>2, <4>1 DEF KeptOf
    <3>. QED BY <3>1, <3>2
  <2>6. \A i, j \in 1 .. Len(l) : l[i].id = l[j].id => i = j
    BY <2>2, <2>3 DEF KeptOf
  <2>. QED BY <2>1, <2>4, <2>5, <2>6 DEF KeptOf
<1>3. CASE same # {}
  <2>1. \A i \in 1 .. Len(k) : ~Better(s[n], k[i])
    <3>1. ASSUME NEW i \in 1 .. Len(k) PROVE ~Better(s[n], k[i])
      <4>1. PICK m \in 1 .. n - 1 : k[i] = s[m]
        BY DEF KeptOf
      <4>. QED BY <1>1, <4>1 DEF Descending
    <3>. QED BY <3>1
  <2>2. KeepHit(k, s[n]) = k
    <3>1. KeepHit(k, s[n]) = [i \in DOMAIN k |-> IF i \in same /\ KeepBest /\ Better(s[n], k[i]) THEN s[n] ELSE k[i]]
      BY <1>3 DEF KeepHit
    <3>2. \A i \in DOMAIN k : ~(i \in same /\ KeepBest /\ Better(s[n], k[i]))
      BY <1>1, <2>1
    <3>3. k = [i \in DOMAIN k |-> k[i]]
      BY <1>1, LenProperties
    <3> HIDE DEF same
    <3>. QED BY <3>1, <3>2, <3>3
  <2>3. PICK i \in 1 .. Len(k) : k[i].id = s[n].id
    BY <1>1, <1>3
  <2>4. \A m \in 1 .. n : \E j \in 1 .. Len(k) : k[j].id = s[m].id /\ ~Better(s[m], k[j])
    <3>1. \A m \in 1 .. n : m = n \/ m \in 1 .. n - 1
      BY <1>1
    <3>. QED BY <2>1, <2>3, <3>1 DEF KeptOf
  <2>5. ASSUME NEW j \in 1 .. Len(k) PROVE \E m \in 1 .. n : k[j] = s[m]
    <3>1. PICK m \in 1 .. n - 1 : k[j] = s[m]
      BY DEF KeptOf
    <3>. QED BY <1>1, <3>1
  <2>6. \A i1, j \in 1 .. Len(k) : k[i1].id = k[j].id => i1 = j
    BY DEF KeptOf
  <2>7. KeptOf(s, n, k)
    BY <2>4, <2>5, <2>6 DEF KeptOf
  <2>. QED BY <2>2, <2>7
<1>. QED BY <1>2, <1>3

\* It keeps the best hit of each chunk.
LEMMA DeduplicationKeeps ==
    ASSUME NEW s \in Seq(Hit), Descending(s)
    PROVE  Best(s, Deduplicate(s))
<1> DEFINE X == Seq(Hit)
           step == [kept \in X |-> [h \in Hit |-> KeepHit(kept, h)]]
           base == <<>>
<1>1. step \in [X -> [Hit -> X]]
  <2>1. ASSUME NEW k \in X, NEW h \in Hit PROVE KeepHit(k, h) \in X
    <3>1. Len(k) \in Nat /\ DOMAIN k = 1 .. Len(k) /\ \A i \in 1 .. Len(k) : k[i] \in Hit
      BY ElementOfSeq, LenProperties
    <3> DEFINE f == [i \in DOMAIN k |->
                       IF i \in {j \in DOMAIN k : k[j].id = h.id} /\ KeepBest /\ Better(h, k[i]) THEN h ELSE k[i]]
    <3>2. f \in [1 .. Len(k) -> Hit]
      BY <3>1
    <3>3. f \in Seq(Hit)
      <4> HIDE DEF f
      <4>. QED BY <3>1, <3>2, SeqDef
    <3>4. Append(k, h) \in Seq(Hit)
      BY AppendProperties
    <3>. QED BY <3>3, <3>4 DEF KeepHit
  <2> HIDE DEF X
  <2>. QED BY <2>1
<1>2. base \in X
  BY EmptySeq
<1>3. PICK after \in [0 .. Len(s) -> X] : FoldsTo(step, base, s, after)
  <2> HIDE DEF step, base
  <2>1. \E after \in [0 .. Len(s) -> X] : FoldsTo(step, base, s, after)
    BY <1>1, <1>2, FoldGoesThrough
  <2>. QED BY <2>1
<1>4. Len(s) \in Nat /\ \A i \in 1 .. Len(s) : s[i] \in Hit
  BY ElementOfSeq
<1>5. \A n \in 0 .. Len(s) : after[n] \in Seq(Hit)
  BY <1>3
<1>6. after[0] = <<>> /\ \A n \in 1 .. Len(s) : after[n] = KeepHit(after[n - 1], s[n])
  <2>1. \A k \in X, h \in Hit : step[k][h] = KeepHit(k, h)
    OBVIOUS
  <2>2. \A n \in 1 .. Len(s) : n - 1 \in 0 .. Len(s)
    BY <1>4
  <2> HIDE DEF step
  <2>. QED BY <1>3, <1>4, <1>5, <2>1, <2>2 DEF Through, FoldsTo
<1> DEFINE T == {n \in 0 .. Len(s) : KeptOf(s, n, after[n])}
<1>7. 0 \in T
  <2>1. KeptOf(s, 0, <<>>)
    BY DEF KeptOf
  <2>. QED BY <1>4, <1>6, <2>1
<1>8. ASSUME NEW n \in 1 .. Len(s), n - 1 \in T PROVE n \in T
  <2>1. KeptOf(s, n - 1, after[n - 1]) /\ after[n - 1] \in Seq(Hit) /\ n \in 0 .. Len(s)
    BY <1>4, <1>5, <1>8
  <2>2. KeptOf(s, n, KeepHit(after[n - 1], s[n]))
    BY <2>1, KeepHitKeeps
  <2>. QED BY <1>6, <2>1, <2>2
<1> DEFINE k == after[Len(s)]
           d == SortHits(k)
<1>9. k \in Seq(Hit) /\ KeptOf(s, Len(s), k)
  <2>1. Len(s) \in 0 .. Len(s)
    BY <1>4
  <2>2. Len(s) \in T
    <3> HIDE DEF T
    <3>. QED BY <1>4, <1>7, <1>8, <2>1, UpTo
  <2>. QED BY <1>5, <2>1, <2>2
<1>10. Deduplicate(s) = d
  BY <1>3 DEF Deduplicate, FoldsTo
<1> HIDE DEF k
<1>11. /\ d \in Seq(Hit) /\ Len(d) = Len(k) /\ Len(k) \in Nat /\ Descending(d) /\ SameElements(k, d)
       /\ Distinct(k) => Ranked(d)
  BY <1>9, SortedHits, LenProperties
<1> HIDE DEF d
<1>12. Ranked(d)
  BY <1>9, <1>11 DEF KeptOf, Distinct
<1>13. \A g : g \in ToSet(s) <=> \E m \in 1 .. Len(s) : g = s[m]
  BY <1>4, LenProperties DEF ToSet
<1>14. ASSUME NEW i \in 1 .. Len(d)
       PROVE  d[i] \in ToSet(s) /\ \A g \in ToSet(s) : g.id = d[i].id => ~Better(g, d[i])
  <2>1. PICK j \in 1 .. Len(k) : d[i] = k[j]
    BY <1>11 DEF SameElements
  <2>2. d[i] \in ToSet(s)
    BY <1>9, <1>13, <2>1 DEF KeptOf
  <2>3. ASSUME NEW g \in ToSet(s), g.id = d[i].id PROVE ~Better(g, d[i])
    <3>1. PICK m \in 1 .. Len(s) : g = s[m]
      BY <1>13
    <3>2. PICK l \in 1 .. Len(k) : k[l].id = s[m].id /\ ~Better(s[m], k[l])
      BY <1>9 DEF KeptOf
    <3>3. l = j
      BY <1>9, <2>1, <2>3, <3>1, <3>2 DEF KeptOf
    <3>. QED BY <2>1, <3>1, <3>2, <3>3
  <2>. QED BY <2>2, <2>3
<1>15. ASSUME NEW g \in ToSet(s) PROVE \E i \in 1 .. Len(d) : d[i].id = g.id
  <2>1. PICK m \in 1 .. Len(s) : g = s[m]
    BY <1>13
  <2>2. PICK l \in 1 .. Len(k) : k[l].id = s[m].id
    BY <1>9 DEF KeptOf
  <2>3. PICK i \in 1 .. Len(d) : d[i] = k[l]
    BY <1>11 DEF SameElements
  <2>. QED BY <2>1, <2>2, <2>3
<1>. QED BY <1>10, <1>11, <1>12, <1>14, <1>15 DEF Best

-----------------------------------------------------------------------------
(* Retrieval: the documents *)

\* s[: n] are the first n elements, or all.
LEMMA FirstOfList ==
    ASSUME NEW E, NEW s \in Seq(E), NEW n \in Nat
    PROVE  /\ FirstOf(s, n) \in Seq(E) /\ Len(FirstOf(s, n)) = Least(n, Len(s))
           /\ \A i \in 1 .. Least(n, Len(s)) : FirstOf(s, n)[i] = s[i] /\ i \in 1 .. Len(s)
<1> DEFINE m == Least(n, Len(s))
<1>1. Len(s) \in Nat /\ m \in 0 .. Len(s) /\ m \in Int /\ 1 \in Int
  BY DEF Least
<1>2. \A i \in 1 .. m : i \in 1 .. Len(s)
  BY <1>1
<1> HIDE DEF m
<1>3. \A i \in 1 .. m : s[i] \in E
  BY <1>2, ElementOfSeq
<1>4. /\ SubSeq(s, 1, m) \in Seq(E) /\ Len(SubSeq(s, 1, m)) = IF 1 <= m THEN m - 1 + 1 ELSE 0
      /\ \A i \in 1 .. m - 1 + 1 : SubSeq(s, 1, m)[i] = s[1 + i - 1]
  BY <1>1, <1>3, SubSeqProperties
<1>5. FirstOf(s, n) = SubSeq(s, 1, m)
  BY DEF FirstOf, m
<1>6. \A i \in 1 .. m : i \in 1 .. m - 1 + 1 /\ 1 + i - 1 = i
  BY <1>1
<1>7. (IF 1 <= m THEN m - 1 + 1 ELSE 0) = m
  BY <1>1
<1>8. \A i \in 1 .. m : SubSeq(s, 1, m)[i] = s[i]
  BY <1>4, <1>6
<1>. QED BY <1>2, <1>4, <1>5, <1>7, <1>8 DEF m

\* D are the best FinalK of the hits in d of document key, and the best of all of them.
IsDocument(d, key, D) ==
  /\ D.chunks \in Seq(Hit) /\ Ranked(D.chunks) /\ Len(D.chunks) \in 1 .. FinalK
  /\ \A i \in 1 .. Len(D.chunks) :
       DocumentKey(D.chunks[i]) = key /\ \E j \in 1 .. Len(d) : D.chunks[i] = d[j]
  /\ D.primary \in Hit /\ DocumentKey(D.primary) = key /\ \E j \in 1 .. Len(d) : D.primary = d[j]
  /\ \A j \in 1 .. Len(d) : DocumentKey(d[j]) = key =>
       /\ ~Better(d[j], D.primary)
       /\ \/ \E i \in 1 .. Len(D.chunks) : D.chunks[i] = d[j]
          \/ Len(D.chunks) = FinalK /\ \A i \in 1 .. FinalK : Better(D.chunks[i], d[j])

\* What Document puts together is that.
LEMMA DocumentIs ==
    ASSUME NEW d \in Seq(Hit), Ranked(d), NEW n \in 1 .. Len(d)
    PROVE  IsDocument(d, DocumentKey(d[n]), Document(d, DocumentKey(d[n])))
<1> DEFINE key == DocumentKey(d[n])
           S == {h \in Hit : DocumentKey(h) = key}
           k == Kept(d, S)
           g == SortHits(k)
           c == FirstOf(g, FinalK)
           D == Document(d, key)
<1>1. FinalK \in Nat \ {0} /\ \A i \in 1 .. Len(d) : d[i] \in Hit
  BY RetrievalAssumption, ElementOfSeq
<1>2. D.chunks = c /\ D.primary = g[1]
  BY DEF Document
<1>3. k \in Seq(Hit) /\ \E at : Selection(d, S, Len(d), k, at)
  <2> HIDE DEF S
  <2>. QED BY KeptSelects
<1>4. PICK at : Selection(d, S, Len(d), k, at)
  BY <1>3
<1>5. \A h \in Hit : h \in S <=> DocumentKey(h) = key
  OBVIOUS
<1> HIDE DEF S, k
<1>6. /\ \A i \in 1 .. Len(k) : at[i] \in 1 .. Len(d) /\ k[i] = d[at[i]] /\ DocumentKey(k[i]) = key
      /\ \A i, j \in 1 .. Len(k) : i < j => at[i] < at[j]
      /\ \A m \in 1 .. Len(d) : DocumentKey(d[m]) = key => \E i \in 1 .. Len(k) : k[i] = d[m]
  <2>1. \A i \in 1 .. Len(k) : at[i] \in 1 .. Len(d) /\ k[i] = d[at[i]] /\ k[i] \in S
    BY <1>4 DEF Selection
  <2>2. \A m \in 1 .. Len(d) : DocumentKey(d[m]) = key => \E i \in 1 .. Len(k) : at[i] = m
    BY <1>1, <1>4, <1>5 DEF Selection
  <2>3. \A i, j \in 1 .. Len(k) : i < j => at[i] < at[j]
    BY <1>4 DEF Selection
  <2>4. \A i \in 1 .. Len(k) : k[i] \in Hit
    BY <1>3, ElementOfSeq
  <2> HIDE DEF key
  <2>. QED BY <1>5, <2>1, <2>2, <2>3, <2>4
<1> HIDE DEF key
<1>7. Ranked(k)
  BY <1>6 DEF Ranked
<1>8. Distinct(k)
  BY <1>3, <1>7, RankedIsDistinct
<1>9. g \in Seq(Hit) /\ Ranked(g) /\ SameElements(k, g) /\ Len(g) \in Nat
  BY <1>3, <1>8, SortedHits, LenProperties
<1> HIDE DEF g
<1>10. \A i \in 1 .. Len(g) : g[i] \in Hit /\ DocumentKey(g[i]) = key /\ \E j \in 1 .. Len(d) : g[i] = d[j]
  <2>1. ASSUME NEW i \in 1 .. Len(g)
        PROVE  g[i] \in Hit /\ DocumentKey(g[i]) = key /\ \E j \in 1 .. Len(d) : g[i] = d[j]
    <3>1. PICK m \in 1 .. Len(k) : g[i] = k[m]
      BY <1>9 DEF SameElements
    <3>2. g[i] \in Hit
      BY <1>9, ElementOfSeq
    <3>. QED BY <1>6, <3>1, <3>2
  <2>. QED BY <2>1
<1>11. \A m \in 1 .. Len(d) : DocumentKey(d[m]) = key => \E i \in 1 .. Len(g) : g[i] = d[m]
  BY <1>6, <1>9 DEF SameElements
<1>12. Len(g) >= 1 /\ 1 \in 1 .. Len(g)
  <2>1. \E i \in 1 .. Len(g) : g[i] = d[n]
    BY <1>11 DEF key
  <2>. QED BY <1>9, <2>1
<1>13. /\ c \in Seq(Hit) /\ Len(c) = Least(FinalK, Len(g))
       /\ \A i \in 1 .. Len(c) : c[i] = g[i] /\ i \in 1 .. Len(g)
  BY <1>1, <1>9, FirstOfList
<1> HIDE DEF c
<1>14. Len(c) \in 1 .. FinalK /\ (Len(c) = FinalK \/ Len(c) = Len(g))
  BY <1>1, <1>9, <1>12, <1>13 DEF Least
<1>15. Ranked(c)
  BY <1>9, <1>13 DEF Ranked
<1>16. ASSUME NEW j \in 1 .. Len(d), DocumentKey(d[j]) = key
       PROVE  /\ ~Better(d[j], g[1])
              /\ \/ \E i \in 1 .. Len(c) : c[i] = d[j]
                 \/ Len(c) = FinalK /\ \A i \in 1 .. FinalK : Better(c[i], d[j])
  <2>1. PICK i \in 1 .. Len(g) : g[i] = d[j]
    BY <1>11, <1>16
  <2>2. ~Better(g[i], g[1])
    <3>1. CASE i = 1
      BY <1>10, <3>1, BetterOrders
    <3>2. CASE i # 1
      <4>1. Better(g[1], g[i])
        BY <1>9, <1>12, <3>2 DEF Ranked
      <4>. QED BY <1>10, <1>12, <4>1, BetterOrders
    <3>. QED BY <3>1, <3>2
  <2>3. CASE i \in 1 .. Len(c)
    BY <1>13, <2>1, <2>2, <2>3
  <2>4. CASE i \notin 1 .. Len(c)
    <3>1. Len(c) = FinalK /\ i > FinalK
      BY <1>9, <1>14, <2>4
    <3>2. \A m \in 1 .. FinalK : m \in 1 .. Len(c) /\ m < i
      BY <1>1, <3>1
    <3>3. \A m \in 1 .. FinalK : Better(c[m], d[j])
      BY <1>9, <1>13, <2>1, <3>2 DEF Ranked
    <3>. QED BY <2>1, <2>2, <3>1, <3>3
  <2>. QED BY <2>3, <2>4
<1>17. \A i \in 1 .. Len(c) : DocumentKey(c[i]) = key /\ \E j \in 1 .. Len(d) : c[i] = d[j]
  BY <1>10, <1>13
<1>18. g[1] \in Hit /\ DocumentKey(g[1]) = key /\ \E j \in 1 .. Len(d) : g[1] = d[j]
  BY <1>10, <1>12
<1> HIDE DEF D
<1>19. IsDocument(d, key, D)
  BY <1>2, <1>13, <1>14, <1>15, <1>16, <1>17, <1>18 DEF IsDocument
<1>. QED BY <1>19 DEF D, key

\* What Heads has found in the first n hits of d.
HeadsOf(d, n, h) ==
  /\ \A i \in 1 .. Len(h) : \E m \in 1 .. n : h[i] = d[m]
  /\ \A m \in 1 .. n : \E i \in 1 .. Len(h) : DocumentKey(h[i]) = DocumentKey(d[m])
  /\ \A i, j \in 1 .. Len(h) : DocumentKey(h[i]) = DocumentKey(h[j]) => i = j

\* One round of Heads.
LEMMA KeepDocumentKeeps ==
    ASSUME NEW d \in Seq(Hit), NEW n \in 1 .. Len(d), NEW h \in Seq(Hit), HeadsOf(d, n - 1, h)
    PROVE  HeadsOf(d, n, KeepDocument(h, d[n]))
<1>1. /\ n \in Nat /\ d[n] \in Hit /\ Len(h) \in Nat /\ DOMAIN h = 1 .. Len(h)
      /\ \A i \in 1 .. n - 1 : i \in 1 .. n
      /\ \A m \in 1 .. n : m = n \/ m \in 1 .. n - 1
      /\ n \in 1 .. n
  <2>1. /\ n \in Nat /\ \A i \in 1 .. n - 1 : i \in 1 .. n
        /\ \A m \in 1 .. n : m = n \/ m \in 1 .. n - 1
        /\ n \in 1 .. n
    OBVIOUS
  <2>. QED BY <2>1, ElementOfSeq, LenProperties
<1>2. CASE \E i \in 1 .. Len(h) : DocumentKey(h[i]) = DocumentKey(d[n])
  <2>1. KeepDocument(h, d[n]) = h
    BY <1>1, <1>2 DEF KeepDocument
  <2>2. \A i \in 1 .. Len(h) : \E m \in 1 .. n : h[i] = d[m]
    BY <1>1 DEF HeadsOf
  <2>3. \A m \in 1 .. n : \E i \in 1 .. Len(h) : DocumentKey(h[i]) = DocumentKey(d[m])
    BY <1>1, <1>2 DEF HeadsOf
  <2>. QED BY <2>1, <2>2, <2>3 DEF HeadsOf
<1>3. CASE ~\E i \in 1 .. Len(h) : DocumentKey(h[i]) = DocumentKey(d[n])
  <2> DEFINE l == Append(h, d[n])
  <2>1. KeepDocument(h, d[n]) = l
    BY <1>1, <1>3 DEF KeepDocument
  <2>2. /\ Len(l) = Len(h) + 1 /\ l[Len(h) + 1] = d[n] /\ \A i \in 1 .. Len(h) : l[i] = h[i]
        /\ \A i \in 1 .. Len(l) : i \in 1 .. Len(h) \/ i = Len(h) + 1
        /\ Len(h) + 1 \in 1 .. Len(l) /\ \A i \in 1 .. Len(h) : i \in 1 .. Len(l)
    BY <1>1, AppendProperties
  <2> HIDE DEF l
  <2>3. ASSUME NEW i \in 1 .. Len(l) PROVE \E m \in 1 .. n : l[i] = d[m]
    <3>1. CASE i \in 1 .. Len(h)
      <4>1. PICK m \in 1 .. n - 1 : h[i] = d[m]
        BY <3>1 DEF HeadsOf
      <4>. QED BY <1>1, <2>2, <3>1, <4>1
    <3>2. CASE i = Len(h) + 1
      BY <1>1, <2>2, <3>2
    <3>. QED BY <2>2, <3>1, <3>2
  <2>4. ASSUME NEW m \in 1 .. n PROVE \E i \in 1 .. Len(l) : DocumentKey(l[i]) = DocumentKey(d[m])
    <3>1. CASE m = n
      BY <1>1, <2>2, <3>1
    <3>2. CASE m \in 1 .. n - 1
      <4>1. PICK i \in 1 .. Len(h) : DocumentKey(h[i]) = DocumentKey(d[m])
        BY <3>2 DEF HeadsOf
      <4>. QED BY <2>2, <4>1
    <3>. QED BY <1>1, <3>1, <3>2
  <2>5. \A i, j \in 1 .. Len(l) : DocumentKey(l[i]) = DocumentKey(l[j]) => i = j
    BY <1>3, <2>2 DEF HeadsOf
  <2>. QED BY <2>1, <2>3, <2>4, <2>5 DEF HeadsOf
<1>. QED BY <1>2, <1>3

\* Heads has one hit of each document.
LEMMA HeadsAre ==
    ASSUME NEW d \in Seq(Hit)
    PROVE  Heads(d) \in Seq(Hit) /\ HeadsOf(d, Len(d), Heads(d))
<1> DEFINE X == Seq(Hit)
           step == [heads \in X |-> [h \in Hit |-> KeepDocument(heads, h)]]
           base == <<>>
<1>1. step \in [X -> [Hit -> X]]
  <2>1. ASSUME NEW k \in X, NEW h \in Hit PROVE KeepDocument(k, h) \in X
    <3>1. Append(k, h) \in Seq(Hit)
      BY AppendProperties
    <3>. QED BY <3>1 DEF KeepDocument
  <2> HIDE DEF X
  <2>. QED BY <2>1
<1>2. base \in X
  BY EmptySeq
<1>3. PICK after \in [0 .. Len(d) -> X] : FoldsTo(step, base, d, after)
  <2> HIDE DEF step, base
  <2>1. \E after \in [0 .. Len(d) -> X] : FoldsTo(step, base, d, after)
    BY <1>1, <1>2, FoldGoesThrough
  <2>. QED BY <2>1
<1>4. Len(d) \in Nat /\ \A i \in 1 .. Len(d) : d[i] \in Hit
  BY ElementOfSeq
<1>5. \A n \in 0 .. Len(d) : after[n] \in Seq(Hit)
  BY <1>3
<1>6. after[0] = <<>> /\ \A n \in 1 .. Len(d) : after[n] = KeepDocument(after[n - 1], d[n])
  <2>1. \A k \in X, h \in Hit : step[k][h] = KeepDocument(k, h)
    OBVIOUS
  <2>2. \A n \in 1 .. Len(d) : n - 1 \in 0 .. Len(d)
    BY <1>4
  <2> HIDE DEF step
  <2>. QED BY <1>3, <1>4, <1>5, <2>1, <2>2 DEF Through, FoldsTo
<1> DEFINE T == {n \in 0 .. Len(d) : HeadsOf(d, n, after[n])}
<1>7. 0 \in T
  <2>1. HeadsOf(d, 0, <<>>)
    BY DEF HeadsOf
  <2>. QED BY <1>4, <1>6, <2>1
<1>8. ASSUME NEW n \in 1 .. Len(d), n - 1 \in T PROVE n \in T
  <2>1. HeadsOf(d, n - 1, after[n - 1]) /\ after[n - 1] \in Seq(Hit) /\ n \in 0 .. Len(d)
    BY <1>4, <1>5, <1>8
  <2>2. HeadsOf(d, n, KeepDocument(after[n - 1], d[n]))
    BY <2>1, KeepDocumentKeeps
  <2>. QED BY <1>6, <2>1, <2>2
<1>9. Len(d) \in 0 .. Len(d)
  BY <1>4
<1>10. Len(d) \in T
  <2> HIDE DEF T
  <2>. QED BY <1>4, <1>7, <1>8, <1>9, UpTo
<1>11. Heads(d) = after[Len(d)]
  BY <1>3 DEF Heads, FoldsTo
<1>. QED BY <1>5, <1>9, <1>10, <1>11

\* Lists of documents, their chunks and their best hit.
DocumentList == Seq([chunks : Seq(Hit), primary : Hit])

\* C are the best FinalK documents of d by their best hits.
Collapsed(d, C) ==
  /\ C \in DocumentList /\ Len(C) <= FinalK
  /\ \A n \in 1 .. Len(C) : IsDocument(d, DocumentKey(C[n].primary), C[n])
  /\ \A m, n \in 1 .. Len(C) : m < n =>
       /\ Better(C[m].primary, C[n].primary)
       /\ DocumentKey(C[m].primary) # DocumentKey(C[n].primary)
  /\ \A j \in 1 .. Len(d) :
       \/ \E n \in 1 .. Len(C) : DocumentKey(C[n].primary) = DocumentKey(d[j])
       \/ Len(C) = FinalK /\ \A n \in 1 .. FinalK : Better(C[n].primary, d[j])

\* Collapse gives these.
LEMMA CollapseCollapses ==
    ASSUME NEW d \in Seq(Hit), Ranked(d)
    PROVE  Collapsed(d, Collapse(d))
<1> DEFINE h == Heads(d)
           s == [i \in DOMAIN h |-> Document(d, DocumentKey(h[i]))]
           E == [chunks : Seq(Hit), primary : Hit]
           before == {p \in (DOMAIN s) \X (DOMAIN s) : Better(s[p[1]].primary, s[p[2]].primary)}
           t == SortDocuments(s)
           C == FirstOf(t, FinalK)
<1>1. FinalK \in Nat \ {0} /\ \A i \in 1 .. Len(d) : d[i] \in Hit
  BY RetrievalAssumption, ElementOfSeq
<1>2. /\ h \in Seq(Hit) /\ HeadsOf(d, Len(d), h) /\ Len(h) \in Nat /\ DOMAIN h = 1 .. Len(h)
  BY HeadsAre, LenProperties
<1>3. Collapse(d) = C
  BY DEF Collapse
<1> HIDE DEF h
<1>4. ASSUME NEW i \in 1 .. Len(h) PROVE IsDocument(d, DocumentKey(h[i]), s[i])
  <2>1. PICK n \in 1 .. Len(d) : h[i] = d[n]
    BY <1>2 DEF HeadsOf
  <2>. QED BY <1>2, <2>1, DocumentIs
<1>5. \A i \in 1 .. Len(h) : s[i] \in E
  <2>1. ASSUME NEW i \in 1 .. Len(h) PROVE s[i] \in E
    <3>1. s[i] = Document(d, DocumentKey(h[i])) /\ s[i].chunks \in Seq(Hit) /\ s[i].primary \in Hit
      BY <1>2, <1>4 DEF IsDocument
    <3>. QED BY <3>1 DEF Document
  <2>. QED BY <2>1
<1>6. s \in [1 .. Len(h) -> E]
  <2>1. s = [i \in 1 .. Len(h) |-> s[i]]
    BY <1>2
  <2> HIDE DEF s, E
  <2>. QED BY <1>5, <2>1
<1> HIDE DEF s, E
<1>7. s \in Seq(E) /\ Len(s) = Len(h) /\ DOMAIN s = 1 .. Len(s)
  BY <1>2, <1>6, SeqDef, LenProperties
<1>8. \A i, j \in 1 .. Len(s) : <<i, j>> \in before <=> Better(s[i].primary, s[j].primary)
  BY <1>7
<1>9. \A i \in 1 .. Len(s) : s[i].primary \in Hit /\ DocumentKey(s[i].primary) = DocumentKey(h[i])
  BY <1>4, <1>7 DEF IsDocument
<1>10. StrictOrder(before, Len(s))
  <2> HIDE DEF before
  <2>1. ASSUME NEW i \in 1 .. Len(s) PROVE <<i, i>> \notin before
    BY <1>8, <1>9, BetterOrders
  <2>2. ASSUME NEW i \in 1 .. Len(s), NEW j \in 1 .. Len(s), NEW k \in 1 .. Len(s),
               <<i, j>> \in before, <<j, k>> \in before
        PROVE  <<i, k>> \in before
    <3>1. Better(s[i].primary, s[j].primary) /\ Better(s[j].primary, s[k].primary)
      BY <1>8, <2>2
    <3>2. Better(s[i].primary, s[k].primary)
      BY <1>9, <3>1, BetterOrders
    <3>. QED BY <1>8, <3>2
  <2>. QED BY <2>1, <2>2 DEF StrictOrder
<1>11. t = Sorted(s, before)
  BY DEF SortDocuments
<1> HIDE DEF before
<1>12. t \in Seq(E) /\ Len(t) = Len(s) /\ \E p : SortedBy(s, before, p, t)
  BY <1>7, <1>10, <1>11, SortedList
<1>13. PICK p : Sorts(before, Len(s), p) /\ \A i \in 1 .. Len(s) : t[i] = s[p[i]]
  BY <1>12 DEF SortedBy
<1> HIDE DEF t
<1>14. \A i \in 1 .. Len(t) : p[i] \in 1 .. Len(s) /\ t[i] = s[p[i]]
  BY <1>12, <1>13 DEF Sorts
<1>15. \A i \in 1 .. Len(t) : IsDocument(d, DocumentKey(t[i].primary), t[i]) /\ t[i].primary \in Hit
  <2>1. ASSUME NEW i \in 1 .. Len(t) PROVE IsDocument(d, DocumentKey(t[i].primary), t[i]) /\ t[i].primary \in Hit
    <3>1. IsDocument(d, DocumentKey(h[p[i]]), s[p[i]])
      BY <1>4, <1>7, <1>14
    <3>. QED BY <1>9, <1>14, <3>1
  <2>. QED BY <2>1
<1>16. ASSUME NEW m \in 1 .. Len(t), NEW n \in 1 .. Len(t), m < n
       PROVE  /\ DocumentKey(t[m].primary) # DocumentKey(t[n].primary)
              /\ Better(t[m].primary, t[n].primary)
  <2>1. p[m] # p[n] /\ <<p[n], p[m]>> \notin before
    <3>1. /\ \A i, j \in 1 .. Len(s) : p[i] = p[j] => i = j
          /\ \A i, j \in 1 .. Len(s) : i < j => <<p[j], p[i]>> \notin before
      BY <1>13 DEF Sorts
    <3>2. m \in 1 .. Len(s) /\ n \in 1 .. Len(s) /\ m < n /\ m # n
      BY <1>12, <1>16
    <3>. QED BY <3>1, <3>2
  <2>2. DocumentKey(t[m].primary) # DocumentKey(t[n].primary)
    <3>1. p[m] \in 1 .. Len(h) /\ p[n] \in 1 .. Len(h)
      BY <1>7, <1>14
    <3>2. DocumentKey(h[p[m]]) # DocumentKey(h[p[n]])
      BY <1>2, <2>1, <3>1 DEF HeadsOf
    <3>. QED BY <1>7, <1>9, <1>14, <3>1, <3>2
  <2>3. ~Better(t[n].primary, t[m].primary)
    BY <1>8, <1>14, <2>1
  <2>. QED BY <1>15, <2>2, <2>3, BetterOrders
<1>17. \A j \in 1 .. Len(d) : \E n \in 1 .. Len(t) : DocumentKey(t[n].primary) = DocumentKey(d[j])
  <2>1. ASSUME NEW j \in 1 .. Len(d) PROVE \E n \in 1 .. Len(t) : DocumentKey(t[n].primary) = DocumentKey(d[j])
    <3>1. PICK i \in 1 .. Len(s) : DocumentKey(h[i]) = DocumentKey(d[j])
      BY <1>2, <1>7 DEF HeadsOf
    <3>2. PICK n \in 1 .. Len(s) : p[n] = i
      BY <1>13 DEF Sorts
    <3>. QED BY <1>9, <1>12, <1>14, <3>1, <3>2
  <2>. QED BY <2>1
<1>18. /\ C \in Seq(E) /\ Len(C) = Least(FinalK, Len(t)) /\ Len(t) \in Nat
       /\ \A i \in 1 .. Len(C) : C[i] = t[i] /\ i \in 1 .. Len(t)
  BY <1>1, <1>12, FirstOfList, LenProperties
<1> HIDE DEF C
<1>19. Len(C) <= FinalK /\ (Len(C) = FinalK \/ Len(C) = Len(t))
  BY <1>1, <1>18 DEF Least
<1>20. ASSUME NEW j \in 1 .. Len(d)
       PROVE  \/ \E n \in 1 .. Len(C) : DocumentKey(C[n].primary) = DocumentKey(d[j])
              \/ Len(C) = FinalK /\ \A n \in 1 .. FinalK : Better(C[n].primary, d[j])
  <2>1. PICK k \in 1 .. Len(t) : DocumentKey(t[k].primary) = DocumentKey(d[j])
    BY <1>17
  <2>2. CASE k \in 1 .. Len(C)
    BY <1>18, <2>1, <2>2
  <2>3. CASE k \notin 1 .. Len(C)
    <3>1. Len(C) = FinalK /\ k > FinalK
      BY <1>18, <1>19, <2>3
    <3>2. ~Better(d[j], t[k].primary)
      BY <1>15, <2>1 DEF IsDocument
    <3>3. ASSUME NEW n \in 1 .. FinalK PROVE Better(C[n].primary, d[j])
      <4>1. n \in 1 .. Len(C) /\ n < k
        BY <1>1, <3>1
      <4>2. Better(t[n].primary, t[k].primary) /\ C[n] = t[n] /\ n \in 1 .. Len(t)
        BY <1>16, <1>18, <4>1
      <4>3. d[j] = t[k].primary \/ Better(t[k].primary, d[j])
        BY <1>1, <1>15, <3>2, BetterOrders
      <4>. QED BY <1>1, <1>15, <4>2, <4>3, BetterOrders
    <3>. QED BY <3>1, <3>3
  <2>. QED BY <2>2, <2>3
<1>21. C \in DocumentList
  BY <1>18 DEF DocumentList, E
<1>22. Collapsed(d, C)
  BY <1>15, <1>16, <1>18, <1>19, <1>20, <1>21 DEF Collapsed
<1>. QED BY <1>3, <1>22

-----------------------------------------------------------------------------
(* Retrieval: the evidence *)

\* In an order of F, a set that has with an element also those ahead of it, and is F or has
\* K elements, has the elements with less than K ahead of them.
LEMMA BestOnes ==
    ASSUME NEW F, IsFiniteSet(F), NEW U \in SUBSET F, NEW K \in Nat \ {0}, NEW ahead \in [F -> SUBSET F],
           \A c \in F : c \notin ahead[c],
           \A b, c \in F : b = c \/ b \in ahead[c] \/ c \in ahead[b],
           \A c \in U : ahead[c] \subseteq U,
           Cardinality(U) <= K, U = F \/ Cardinality(U) = K
    PROVE  U = {c \in F : Cardinality(ahead[c]) < K}
<1>1. IsFiniteSet(U) /\ Cardinality(U) \in Nat
  BY FS_Subset, FS_CardinalityType
<1>2. ASSUME NEW c \in U PROVE Cardinality(ahead[c]) < K
  <2>1. ahead[c] \in SUBSET (U \ {c})
    OBVIOUS
  <2>2. IsFiniteSet(U \ {c}) /\ Cardinality(U \ {c}) = Cardinality(U) - 1
    BY <1>1, FS_RemoveElement
  <2>3. IsFiniteSet(ahead[c]) /\ Cardinality(ahead[c]) <= Cardinality(U \ {c}) /\ Cardinality(ahead[c]) \in Nat
    BY <2>1, <2>2, FS_Subset, FS_CardinalityType
  <2>. QED BY <1>1, <2>2, <2>3
<1>3. ASSUME NEW c \in F \ U PROVE ~(Cardinality(ahead[c]) < K)
  <2>1. U \in SUBSET ahead[c]
    OBVIOUS
  <2>2. IsFiniteSet(ahead[c]) /\ Cardinality(ahead[c]) \in Nat
    <3>1. ahead[c] \in SUBSET F
      OBVIOUS
    <3>. QED BY <3>1, FS_Subset, FS_CardinalityType
  <2>3. Cardinality(U) <= Cardinality(ahead[c])
    BY <2>1, <2>2, FS_Subset
  <2>4. Cardinality(U) = K
    BY <1>3
  <2>. QED BY <1>1, <2>2, <2>3, <2>4
<1>. QED BY <1>2, <1>3

\* Hit g comes before hit h: it is the better one of their document, or its document has a
\* hit that is better than all of the other document.
ComesBefore(d, g, h) ==
  IF DocumentKey(g) = DocumentKey(h) THEN Better(g, h)
  ELSE \E e \in 1 .. Len(d) :
         /\ DocumentKey(d[e]) = DocumentKey(g)
         /\ \A f \in 1 .. Len(d) : DocumentKey(d[f]) = DocumentKey(h) => Better(d[e], d[f])

\* e consists of the first FinalK hits of d in this order.
Selects(d, e) ==
  /\ e \in Seq(Hit) /\ Len(e) <= FinalK
  /\ \A i \in 1 .. Len(e) : \E j \in 1 .. Len(d) : e[i] = d[j]
  /\ \A i, j \in 1 .. Len(e) : e[i].id = e[j].id => i = j
  /\ \/ /\ Len(e) = FinalK
        /\ \A i \in 1 .. Len(e) : \A j \in 1 .. Len(d) :
             ComesBefore(d, d[j], e[i]) => \E m \in 1 .. Len(e) : e[m] = d[j]
     \/ \A j \in 1 .. Len(d) : \E i \in 1 .. Len(e) : e[i] = d[j]

\* The first FinalK hits of L are those of d in this order, and so are all if they are fewer.
ListsInOrder(d, L) ==
  /\ L \in Seq(Hit)
  /\ \A i \in 1 .. Len(L) : \E j \in 1 .. Len(d) : L[i] = d[j]
  /\ \A i, j \in 1 .. Len(L) : L[i].id = L[j].id => i = j
  /\ \A i \in 1 .. Len(L) : \A j \in 1 .. Len(d) :
       i <= FinalK /\ ComesBefore(d, d[j], L[i]) => \E m \in 1 .. Len(L) : m < i /\ L[m] = d[j]
  /\ Len(L) < FinalK => \A j \in 1 .. Len(d) : \E i \in 1 .. Len(L) : L[i] = d[j]

\* The chunks of these documents, one document after the other, are in the order of
\* ComesBefore.
LEMMA ChunksOfDocuments ==
    ASSUME NEW d \in Seq(Hit), Ranked(d), \A i, j \in 1 .. Len(d) : d[i].id = d[j].id => i = j,
           NEW C, Collapsed(d, C)
    PROVE  ListsInOrder(d, FlattenSeq([i \in DOMAIN C |-> C[i].chunks]))
<1> DEFINE cs == [i \in DOMAIN C |-> C[i].chunks]
           L == FlattenSeq(cs)
           N == Len(C)
           K(n) == DocumentKey(C[n].primary)
<1>1. /\ FinalK \in Nat \ {0} /\ N \in Nat /\ DOMAIN C = 1 .. N /\ C \in DocumentList
      /\ \A i \in 1 .. Len(d) : d[i] \in Hit
  BY RetrievalAssumption, ElementOfSeq, LenProperties DEF Collapsed, DocumentList
<1>2. \A n \in 1 .. N : IsDocument(d, K(n), C[n]) /\ C[n].primary \in Hit
  BY DEF Collapsed, IsDocument
<1>3. \A m, n \in 1 .. N : m < n => Better(C[m].primary, C[n].primary) /\ K(m) # K(n)
  BY DEF Collapsed
<1>4. cs \in Seq(Seq(Hit)) /\ Len(cs) = N /\ \A n \in 1 .. N : cs[n] = C[n].chunks /\ cs[n] \in Seq(Hit)
  <2>1. \A n \in 1 .. N : cs[n] = C[n].chunks /\ cs[n] \in Seq(Hit)
    BY <1>1, <1>2 DEF IsDocument
  <2>2. cs \in [1 .. N -> Seq(Hit)]
    <3>1. cs = [n \in 1 .. N |-> cs[n]]
      BY <1>1
    <3> HIDE DEF cs
    <3>. QED BY <2>1, <3>1
  <2> HIDE DEF cs, N
  <2>. QED BY <1>1, <2>1, <2>2, SeqDef, LenProperties
<1> HIDE DEF cs
<1>5. L \in Seq(Hit) /\ \E at : Layout(cs, Len(cs), L, at)
  BY <1>4, Flattens
<1>6. PICK at : Layout(cs, N, L, at)
  BY <1>4, <1>5
<1> HIDE DEF L, N
<1>7. /\ \A n \in 1 .. N + 1 : at[n] \in Nat
      /\ \A n \in 1 .. N : Len(cs[n]) \in 1 .. FinalK /\ at[n + 1] = at[n] + Len(cs[n])
      /\ \A n \in 1 .. N : \A m \in 1 .. Len(cs[n]) : L[at[n] + m] = cs[n][m]
      /\ \A i \in 1 .. Len(L) : \E n \in 1 .. N : \E m \in 1 .. Len(cs[n]) : i = at[n] + m
      /\ \A m \in 1 .. N : \A n \in 1 .. N + 1 : m < n => at[m] + Len(cs[m]) <= at[n]
      /\ at[1] = 0 /\ at[N + 1] = Len(L) /\ Len(L) \in Nat
  <2>1. \A n \in 1 .. N : Len(cs[n]) \in 1 .. FinalK
    BY <1>2, <1>4 DEF IsDocument
  <2>. QED BY <1>5, <1>6, <2>1, LenProperties DEF Layout
\* What stands where.
<1>8. ASSUME NEW n \in 1 .. N, NEW m \in 1 .. Len(cs[n])
      PROVE  /\ at[n] + m \in 1 .. Len(L) /\ L[at[n] + m] = cs[n][m]
             /\ cs[n][m] \in Hit /\ DocumentKey(cs[n][m]) = K(n) /\ \E j \in 1 .. Len(d) : cs[n][m] = d[j]
  <2>1. at[n] \in Nat /\ Len(cs[n]) \in Nat /\ at[n] + Len(cs[n]) <= Len(L)
    <3>1. n \in 1 .. N + 1 /\ N + 1 \in 1 .. N + 1 /\ n < N + 1
      BY <1>1
    <3>. QED BY <1>7, <3>1
  <2>2. at[n] + m \in 1 .. Len(L)
    <3> DEFINE a == at[n]
               l == Len(cs[n])
    <3>1. a \in Nat /\ l \in Nat /\ a + l <= Len(L) /\ m \in 1 .. l
      BY <1>8, <2>1
    <3> HIDE DEF a, l
    <3>2. a + m \in 1 .. Len(L)
      BY <1>7, <3>1
    <3>. QED BY <3>2 DEF a
  <2>3. DocumentKey(cs[n][m]) = K(n) /\ \E j \in 1 .. Len(d) : cs[n][m] = d[j]
    <3>1. IsDocument(d, K(n), C[n]) /\ cs[n] = C[n].chunks
      BY <1>2, <1>4
    <3> HIDE DEF K
    <3>. QED BY <1>8, <3>1 DEF IsDocument
  <2>4. cs[n][m] \in Hit
    BY <1>4, <1>8, ElementOfSeq
  <2>. QED BY <1>7, <1>8, <2>2, <2>3, <2>4
<1>9. \A i \in 1 .. Len(L) : \E n \in 1 .. N : \E m \in 1 .. Len(cs[n]) : i = at[n] + m /\ L[i] = cs[n][m]
  <2>1. ASSUME NEW i \in 1 .. Len(L)
        PROVE  \E n \in 1 .. N : \E m \in 1 .. Len(cs[n]) : i = at[n] + m /\ L[i] = cs[n][m]
    <3>1. PICK n \in 1 .. N : \E m \in 1 .. Len(cs[n]) : i = at[n] + m
      BY <1>7
    <3>2. PICK m \in 1 .. Len(cs[n]) : i = at[n] + m
      BY <3>1
    <3>. QED BY <1>8, <3>2
  <2>. QED BY <2>1
<1>10. ASSUME NEW i \in 1 .. Len(L) PROVE \E j \in 1 .. Len(d) : L[i] = d[j]
  BY <1>8, <1>9
<1>11. ASSUME NEW i \in 1 .. Len(L), NEW j \in 1 .. Len(L), L[i].id = L[j].id PROVE i = j
  <2>1. L[i] = L[j]
    <3>1. PICK x \in 1 .. Len(d) : L[i] = d[x]
      BY <1>10
    <3>2. PICK y \in 1 .. Len(d) : L[j] = d[y]
      BY <1>10
    <3>. QED BY <1>11, <3>1, <3>2
  <2>2. PICK a \in 1 .. N : \E m \in 1 .. Len(cs[a]) : i = at[a] + m /\ L[i] = cs[a][m]
    BY <1>9
  <2>3. PICK x \in 1 .. Len(cs[a]) : i = at[a] + x /\ L[i] = cs[a][x]
    BY <2>2
  <2>4. PICK b \in 1 .. N : \E m \in 1 .. Len(cs[b]) : j = at[b] + m /\ L[j] = cs[b][m]
    BY <1>9
  <2>5. PICK y \in 1 .. Len(cs[b]) : j = at[b] + y /\ L[j] = cs[b][y]
    BY <2>4
  <2>6. K(a) = K(b)
    BY <1>8, <2>1, <2>3, <2>5
  <2>7. a = b
    <3>1. a < b \/ b < a \/ a = b
      BY <1>1
    <3> HIDE DEF K
    <3>. QED BY <1>3, <2>6, <3>1
  <2>8. Ranked(cs[a])
    BY <1>2, <1>4 DEF IsDocument
  <2>9. cs[a][x] = cs[a][y] /\ x \in 1 .. Len(cs[a]) /\ y \in 1 .. Len(cs[a])
    BY <2>1, <2>3, <2>5, <2>7
  <2>10. x = y
    <3>1. cs[a] \in Seq(Hit)
      BY <1>4
    <3>. QED BY <2>8, <2>9, <3>1, RankedIsDistinct DEF Distinct
  <2>. QED BY <2>3, <2>5, <2>7, <2>10
<1>12. ASSUME NEW i \in 1 .. Len(L), NEW j \in 1 .. Len(d), i <= FinalK, ComesBefore(d, d[j], L[i])
       PROVE  \E m \in 1 .. Len(L) : m < i /\ L[m] = d[j]
  <2>1. PICK a \in 1 .. N : \E x \in 1 .. Len(cs[a]) : i = at[a] + x /\ L[i] = cs[a][x]
    BY <1>9
  <2>2. PICK x \in 1 .. Len(cs[a]) : i = at[a] + x /\ L[i] = cs[a][x]
    BY <2>1
  <2>3. L[i] \in Hit /\ DocumentKey(L[i]) = K(a) /\ d[j] \in Hit /\ Ranked(cs[a]) /\ at[a] \in Nat
    <3>1. a \in 1 .. N + 1
      BY <1>1
    <3>2. Ranked(cs[a])
      BY <1>2, <1>4 DEF IsDocument
    <3>3. at[a] \in Nat /\ d[j] \in Hit
      BY <1>1, <1>7, <3>1
    <3>. QED BY <1>8, <2>2, <3>2, <3>3
  <2>4. CASE DocumentKey(d[j]) = K(a)
    <3>1. Better(d[j], cs[a][x])
      BY <1>12, <2>2, <2>3, <2>4 DEF ComesBefore
    <3>2. PICK y \in 1 .. Len(cs[a]) : cs[a][y] = d[j]
      <4>1. ASSUME Len(cs[a]) = FinalK, \A z \in 1 .. FinalK : Better(cs[a][z], d[j]) PROVE FALSE
        <5>1. Better(cs[a][x], d[j])
          BY <2>2, <4>1
        <5>. QED BY <2>2, <2>3, <3>1, <5>1, BetterOrders
      <4>2. \/ \E z \in 1 .. Len(cs[a]) : cs[a][z] = d[j]
            \/ Len(cs[a]) = FinalK /\ \A z \in 1 .. FinalK : Better(cs[a][z], d[j])
        <5>1. IsDocument(d, K(a), C[a]) /\ cs[a] = C[a].chunks
          BY <1>2, <1>4
        <5> HIDE DEF K
        <5>. QED BY <2>4, <5>1 DEF IsDocument
      <4>. QED BY <4>1, <4>2
    <3>3. y < x
      <4>1. CASE y = x
        BY <2>3, <3>1, <3>2, <4>1, BetterOrders
      <4>2. CASE x < y
        <5>1. Better(cs[a][x], d[j])
          BY <2>3, <3>2, <4>2 DEF Ranked
        <5>. QED BY <2>2, <2>3, <3>1, <5>1, BetterOrders
      <4>. QED BY <4>1, <4>2
    <3>4. at[a] + y \in 1 .. Len(L) /\ L[at[a] + y] = d[j]
      BY <1>8, <3>2
    <3>5. at[a] + y < i
      <4> DEFINE p == at[a]
      <4>1. p \in Nat /\ i = p + x
        BY <2>2, <2>3
      <4> HIDE DEF p
      <4>2. p + y < i
        BY <3>3, <4>1
      <4>. QED BY <4>2 DEF p
    <3>. QED BY <3>4, <3>5
  <2>5. CASE DocumentKey(d[j]) # K(a)
    <3>1. PICK e \in 1 .. Len(d) :
            /\ DocumentKey(d[e]) = DocumentKey(d[j])
            /\ \A f \in 1 .. Len(d) : DocumentKey(d[f]) = K(a) => Better(d[e], d[f])
      BY <1>12, <2>3, <2>5 DEF ComesBefore
    <3>2. Better(d[e], C[a].primary) /\ d[e] \in Hit
      <4>1. IsDocument(d, K(a), C[a])
        BY <1>2
      <4> HIDE DEF K
      <4>2. PICK f \in 1 .. Len(d) : C[a].primary = d[f] /\ DocumentKey(d[f]) = K(a)
        BY <4>1 DEF IsDocument
      <4>. QED BY <1>1, <3>1, <4>2
    <3>3. PICK b \in 1 .. N : K(b) = DocumentKey(d[j])
      <4>1. \/ \E n \in 1 .. N : K(n) = DocumentKey(d[e])
            \/ N = FinalK /\ \A n \in 1 .. FinalK : Better(C[n].primary, d[e])
        BY DEF Collapsed, N
      <4>2. ~(N = FinalK /\ \A n \in 1 .. FinalK : Better(C[n].primary, d[e]))
        BY <1>2, <3>2, BetterOrders
      <4>. QED BY <3>1, <4>1, <4>2
    <3>4. /\ ~Better(d[e], C[b].primary)
          /\ \/ \E z \in 1 .. Len(cs[b]) : cs[b][z] = d[j]
             \/ Len(cs[b]) = FinalK
      <4>1. IsDocument(d, K(b), C[b]) /\ cs[b] = C[b].chunks
        BY <1>2, <1>4
      <4> HIDE DEF K
      <4>. QED BY <3>1, <3>3, <4>1 DEF IsDocument
    <3>5. b < a
      <4>1. Better(C[b].primary, C[a].primary)
        <5>1. d[e] = C[b].primary \/ Better(C[b].primary, d[e])
          BY <1>2, <3>2, <3>4, BetterOrders
        <5>. QED BY <1>2, <3>2, <5>1, BetterOrders
      <4>2. ~(a < b)
        BY <1>2, <1>3, <4>1, BetterOrders
      <4>3. a # b
        BY <2>5, <3>3
      <4>. QED BY <4>2, <4>3
    <3>6. /\ at[b] + Len(cs[b]) <= at[a] /\ at[b] \in Nat
          /\ Len(cs[b]) \in Nat
      <4>1. a \in 1 .. N + 1 /\ b \in 1 .. N + 1
        BY <1>1
      <4>. QED BY <1>7, <3>5, <4>1
    <3>7. PICK y \in 1 .. Len(cs[b]) : cs[b][y] = d[j]
      <4> DEFINE p == at[a]
                 q == at[b]
                 l == Len(cs[b])
      <4>1. p \in Nat /\ q \in Nat /\ q + l <= p /\ i = p + x
        BY <2>2, <2>3, <3>6
      <4>2. l # FinalK
        <5> HIDE DEF p, q, l
        <5>. QED BY <1>1, <1>12, <4>1
      <4>. QED BY <3>4, <4>2
    <3>8. at[b] + y \in 1 .. Len(L) /\ L[at[b] + y] = d[j]
      BY <1>8, <3>7
    <3>9. at[b] + y < i
      <4> DEFINE p == at[a]
                 q == at[b]
                 l == Len(cs[b])
      <4>1. p \in Nat /\ q \in Nat /\ l \in Nat /\ q + l <= p /\ i = p + x /\ y \in 1 .. l
        BY <2>2, <2>3, <3>6
      <4> HIDE DEF p, q, l
      <4>2. q + y < i
        BY <4>1
      <4>. QED BY <4>2 DEF q
    <3>. QED BY <3>8, <3>9
  <2>. QED BY <2>4, <2>5
<1>13. ASSUME Len(L) < FinalK, NEW j \in 1 .. Len(d) PROVE \E i \in 1 .. Len(L) : L[i] = d[j]
  <2>1. N < FinalK
    <3> DEFINE T == {n \in 0 .. N : at[n + 1] >= n}
    <3>1. 0 \in T
      BY <1>1, <1>7
    <3>2. ASSUME NEW n \in 1 .. N, n - 1 \in T PROVE n \in T
      <4> DEFINE p == at[n]
                 q == at[n + 1]
                 l == Len(cs[n])
      <4>1. n \in 0 .. N /\ n \in 1 .. N + 1 /\ (n - 1) + 1 = n
        BY <1>1
      <4>2. p \in Nat /\ p >= n - 1 /\ l \in 1 .. FinalK /\ q = p + l
        BY <1>7, <3>2, <4>1
      <4>3. q >= n
        <5> HIDE DEF p, q, l
        <5>. QED BY <1>1, <4>2
      <4>. QED BY <4>1, <4>3
    <3>3. N \in T
      <4>1. N \in 0 .. N
        BY <1>1
      <4> HIDE DEF T
      <4>. QED BY <1>1, <3>1, <3>2, <4>1, UpTo
    <3>4. Len(L) >= N
      BY <1>7, <3>3
    <3>. QED BY <1>1, <1>7, <1>13, <3>4
  <2>2. PICK n \in 1 .. N : K(n) = DocumentKey(d[j])
    <3>1. \/ \E n \in 1 .. N : K(n) = DocumentKey(d[j])
          \/ N = FinalK
      BY DEF Collapsed, N
    <3>. QED BY <1>1, <2>1, <3>1
  <2>3. \/ \E z \in 1 .. Len(cs[n]) : cs[n][z] = d[j]
        \/ Len(cs[n]) = FinalK
    <3>1. IsDocument(d, K(n), C[n]) /\ cs[n] = C[n].chunks
      BY <1>2, <1>4
    <3> HIDE DEF K
    <3>. QED BY <2>2, <3>1 DEF IsDocument
  <2>4. Len(cs[n]) # FinalK
    <3>1. ASSUME Len(cs[n]) = FinalK PROVE FALSE
      <4>1. FinalK \in 1 .. Len(cs[n]) /\ n \in 1 .. N + 1
        BY <1>1, <3>1
      <4>2. at[n] + FinalK \in 1 .. Len(L) /\ at[n] \in Nat
        BY <1>7, <1>8, <4>1
      <4> DEFINE p == at[n]
      <4>3. p + FinalK \in 1 .. Len(L) /\ p \in Nat
        BY <4>2
      <4> HIDE DEF p
      <4>. QED BY <1>1, <1>7, <1>13, <4>3
    <3>. QED BY <3>1
  <2>. QED BY <1>8, <2>3, <2>4
<1>14. L = FlattenSeq([i \in DOMAIN C |-> C[i].chunks])
  BY DEF L, cs
<1>15. ListsInOrder(d, L)
  <2> HIDE DEF K
  <2>. QED BY <1>5, <1>10, <1>11, <1>12, <1>13 DEF ListsInOrder
<1>. QED BY <1>14, <1>15

\* A list of different elements of a list is not longer than that list.
LEMMA NoLonger ==
    ASSUME NEW M \in Nat, NEW N \in Nat, NEW f \in [1 .. M -> 1 .. N],
           \A i, j \in 1 .. M : f[i] = f[j] => i = j
    PROVE  M <= N
<1>1. SUFFICES ASSUME N < M PROVE FALSE
  OBVIOUS
<1>2. /\ IsFiniteSet(1 .. M) /\ Cardinality(1 .. M) = IF 1 > M THEN 0 ELSE M - 1 + 1
      /\ IsFiniteSet(1 .. N) /\ Cardinality(1 .. N) = IF 1 > N THEN 0 ELSE N - 1 + 1
  BY FS_Interval
<1>3. Cardinality(1 .. N) < Cardinality(1 .. M)
  BY <1>1, <1>2
<1>. QED BY <1>2, <1>3, FS_PigeonHole

\* The hits of one chunk are one hit.
LEMMA BestIsUnique ==
    ASSUME NEW s \in Seq(Hit), NEW d, Best(s, d)
    PROVE  \A i, j \in 1 .. Len(d) : d[i].id = d[j].id => i = j
<1>1. \A i \in 1 .. Len(d) : d[i] \in Hit
  BY ElementOfSeq DEF Best
<1>2. ASSUME NEW i \in 1 .. Len(d), NEW j \in 1 .. Len(d), d[i].id = d[j].id PROVE i = j
  <2>1. ~Better(d[i], d[j]) /\ ~Better(d[j], d[i])
    BY <1>2 DEF Best
  <2>2. d[i] = d[j]
    BY <1>1, <2>1, BetterOrders
  <2>. QED BY <2>2, RankedIsDistinct DEF Best, Distinct
<1>. QED BY <1>2

\* The evidence consists of the first hits, of those that are the best of their chunk.
SelectsBest(s, e, d) == Best(s, d) /\ Selects(d, e)

\* That is what SelectEvidence does.
LEMMA EvidenceIsSelected ==
    ASSUME NEW s \in Seq(Hit)
    PROVE  \E d : SelectsBest(s, SelectEvidence(s), d)
<1> DEFINE t == SortHits(s)
           d == Deduplicate(t)
           C == Collapse(d)
           L == FlattenSeq([i \in DOMAIN C |-> C[i].chunks])
           e == FirstOf(IF Len(L) >= FinalK THEN L ELSE d, FinalK)
<1>1. SelectEvidence(s) = e
  BY DEF SelectEvidence
<1>2. t \in Seq(Hit) /\ Len(t) = Len(s) /\ Descending(t) /\ SameElements(s, t)
  BY SortedHits
<1> HIDE DEF t
<1>3. Best(t, d)
  BY <1>2, DeduplicationKeeps
<1>4. d \in Seq(Hit) /\ Ranked(d)
  BY <1>3 DEF Best
<1>5. \A i, j \in 1 .. Len(d) : d[i].id = d[j].id => i = j
  <2> HIDE DEF d
  <2>. QED BY <1>2, <1>3, BestIsUnique
<1> HIDE DEF d
<1>6. Collapsed(d, C)
  BY <1>4, CollapseCollapses
<1> HIDE DEF C
<1>7. ListsInOrder(d, L)
  BY <1>4, <1>5, <1>6, ChunksOfDocuments
<1> HIDE DEF L
<1>8. ToSet(t) = ToSet(s)
  <2>1. DOMAIN s = 1 .. Len(s) /\ DOMAIN t = 1 .. Len(t)
    BY <1>2, LenProperties
  <2>2. ASSUME NEW x \in ToSet(t) PROVE x \in ToSet(s)
    <3>1. PICK i \in 1 .. Len(t) : x = t[i]
      BY <2>1, <2>2 DEF ToSet
    <3>2. PICK j \in 1 .. Len(s) : t[i] = s[j]
      BY <1>2 DEF SameElements
    <3>. QED BY <2>1, <3>1, <3>2 DEF ToSet
  <2>3. ASSUME NEW x \in ToSet(s) PROVE x \in ToSet(t)
    <3>1. PICK j \in 1 .. Len(s) : x = s[j]
      BY <2>1, <2>3 DEF ToSet
    <3>2. PICK i \in 1 .. Len(t) : t[i] = s[j]
      BY <1>2 DEF SameElements
    <3>. QED BY <2>1, <3>1, <3>2 DEF ToSet
  <2>. QED BY <2>2, <2>3
<1>9. Best(s, d)
  BY <1>3, <1>8 DEF Best
<1>10. FinalK \in Nat \ {0} /\ Len(L) \in Nat /\ Len(d) \in Nat /\ L \in Seq(Hit)
  BY <1>4, <1>7, RetrievalAssumption, LenProperties DEF ListsInOrder
<1>11. CASE Len(L) >= FinalK
  <2>1. /\ e \in Seq(Hit) /\ Len(e) = Least(FinalK, Len(L))
        /\ \A i \in 1 .. Least(FinalK, Len(L)) : e[i] = L[i] /\ i \in 1 .. Len(L)
    BY <1>10, <1>11, FirstOfList
  <2> HIDE DEF e
  <2>2. Len(e) = FinalK
    BY <1>10, <1>11, <2>1 DEF Least
  <2>3. \A i \in 1 .. Len(e) : e[i] = L[i] /\ i \in 1 .. Len(L) /\ i <= FinalK
    BY <1>10, <2>1, <2>2
  <2>4. \A i \in 1 .. Len(e) : \E j \in 1 .. Len(d) : e[i] = d[j]
    BY <1>7, <2>3 DEF ListsInOrder
  <2>5. \A i, j \in 1 .. Len(e) : e[i].id = e[j].id => i = j
    BY <1>7, <2>3 DEF ListsInOrder
  <2>6. ASSUME NEW i \in 1 .. Len(e), NEW j \in 1 .. Len(d), ComesBefore(d, d[j], e[i])
        PROVE  \E m \in 1 .. Len(e) : e[m] = d[j]
    <3>1. PICK m \in 1 .. Len(L) : m < i /\ L[m] = d[j]
      <4>1. ComesBefore(d, d[j], L[i])
        BY <2>3, <2>6
      <4>. QED BY <1>7, <2>3, <4>1 DEF ListsInOrder
    <3>2. m \in 1 .. Len(e)
      BY <1>10, <2>2, <3>1
    <3>. QED BY <2>3, <3>1, <3>2
  <2>7. Len(e) <= FinalK
    BY <1>10, <2>2
  <2>8. Selects(d, e)
    BY <2>1, <2>2, <2>4, <2>5, <2>6, <2>7 DEF Selects
  <2>. QED BY <1>1, <1>9, <2>8 DEF SelectsBest
<1>12. CASE Len(L) < FinalK
  <2>1. \A j \in 1 .. Len(d) : \E i \in 1 .. Len(L) : L[i] = d[j]
    BY <1>7, <1>12 DEF ListsInOrder
  <2>2. Len(d) <= FinalK
    <3> DEFINE f == [j \in 1 .. Len(d) |-> CHOOSE i \in 1 .. Len(L) : L[i] = d[j]]
    <3>1. \A j \in 1 .. Len(d) : f[j] \in 1 .. Len(L) /\ L[f[j]] = d[j]
      BY <2>1
    <3>2. f \in [1 .. Len(d) -> 1 .. Len(L)]
      BY <3>1
    <3> HIDE DEF f
    <3>3. \A i, j \in 1 .. Len(d) : f[i] = f[j] => i = j
      BY <1>5, <3>1
    <3>4. Len(d) <= Len(L)
      BY <1>10, <3>2, <3>3, NoLonger
    <3>. QED BY <1>10, <1>12, <3>4
  <2>3. /\ e \in Seq(Hit) /\ Len(e) = Least(FinalK, Len(d))
        /\ \A i \in 1 .. Least(FinalK, Len(d)) : e[i] = d[i] /\ i \in 1 .. Len(d)
    <3>1. ~(Len(L) >= FinalK)
      BY <1>10, <1>12
    <3>2. e = FirstOf(d, FinalK)
      BY <3>1
    <3> HIDE DEF e
    <3>. QED BY <1>4, <1>10, <3>2, FirstOfList
  <2> HIDE DEF e
  <2>4. Len(e) = Len(d)
    BY <1>10, <2>2, <2>3 DEF Least
  <2>5. \A i \in 1 .. Len(e) : e[i] = d[i] /\ i \in 1 .. Len(d)
    BY <2>3, <2>4
  <2>6. Selects(d, e)
    BY <1>5, <2>2, <2>3, <2>4, <2>5 DEF Selects
  <2>. QED BY <1>1, <1>9, <2>6 DEF SelectsBest
<1>. QED BY <1>10, <1>11, <1>12

-----------------------------------------------------------------------------
(* Retrieval: the ranking of the chunks *)

\* Hit k of d is the best of the chunks C.
HitOf(d, C, k) ==
  /\ BestHit(C) = d[k] /\ d[k].id \in C
  /\ \A j \in 1 .. Len(d) : d[j].id \in C => ~Better(d[j], d[k])

\* BestHit of some chunks is the hit that d has of one of them and that no other beats.
LEMMA BestHitIs ==
    ASSUME hits \in Seq(Hit), NEW d, Best(hits, d), NEW C, NEW i \in 1 .. Len(d), d[i].id \in C
    PROVE  \E k \in 1 .. Len(d) : HitOf(d, C, k)
<1>1. /\ d \in Seq(Hit) /\ Ranked(d) /\ Len(d) \in Nat /\ \A k \in 1 .. Len(d) : d[k] \in Hit
      /\ \A h \in ToSet(hits) : h \in Hit
  BY ElementOfSeq, LenProperties, SeqOfItsElements DEF Best
<1>2. PICK k \in 1 .. Len(d) : d[k].id \in C /\ \A j \in 1 .. Len(d) : d[j].id \in C => k <= j
  <2> DEFINE T == {j \in 1 .. Len(d) : d[j].id \in C}
  <2>1. T \in SUBSET Nat /\ T # {}
    BY <1>1
  <2>2. PICK k \in T : \A j \in T : k <= j
    <3> HIDE DEF T
    <3>. QED BY <2>1, LeastNumber
  <2>. QED BY <2>2
<1> DEFINE Good(h) == h.id \in C /\ \A g \in ToSet(hits) : g.id \in C => ~Better(g, h)
<1>3. \A j \in 1 .. Len(d) : d[j].id \in C => d[j] = d[k] \/ Better(d[k], d[j])
  <2>1. ASSUME NEW j \in 1 .. Len(d), d[j].id \in C PROVE d[j] = d[k] \/ Better(d[k], d[j])
    <3>1. k = j \/ k < j
      BY <1>1, <1>2, <2>1
    <3>. QED BY <1>1, <3>1 DEF Ranked
  <2>. QED BY <2>1
<1>4. d[k] \in ToSet(hits) /\ Good(d[k])
  <2>1. ASSUME NEW g \in ToSet(hits), g.id \in C PROVE ~Better(g, d[k])
    <3>1. PICK j \in 1 .. Len(d) : d[j].id = g.id
      BY DEF Best
    <3>2. ~Better(g, d[j])
      BY <3>1 DEF Best
    <3>. QED BY <1>1, <1>3, <2>1, <3>1, <3>2, BetterOrders
  <2>. QED BY <1>2, <2>1 DEF Best
<1> DEFINE b == BestHit(C)
<1>5. b \in ToSet(hits) /\ Good(b)
  <2>1. b = CHOOSE h \in ToSet(hits) : Good(h)
    BY DEF BestHit
  <2> HIDE DEF b, Good
  <2>. QED BY <1>4, <2>1
<1>6. b = d[k]
  <2> HIDE DEF b
  <2>1. ~Better(d[k], b) /\ ~Better(b, d[k])
    BY <1>4, <1>5
  <2>. QED BY <1>1, <1>5, <2>1, BetterOrders
<1>7. \A j \in 1 .. Len(d) : d[j].id \in C => ~Better(d[j], d[k])
  BY <1>1, <1>3, BetterOrders
<1>. QED BY <1>2, <1>6, <1>7 DEF HitOf

\* Found are the chunks of d.
LEMMA FoundAre ==
    ASSUME hits \in Seq(Hit), NEW d, Best(hits, d)
    PROVE  /\ \A i \in 1 .. Len(d) : d[i].id \in Found
           /\ \A c \in Found : \E i \in 1 .. Len(d) : d[i].id = c
           /\ IsFiniteSet(Found) /\ Found \subseteq Chunks
<1>1. /\ \A i \in 1 .. Len(d) : d[i].id \in Found
      /\ \A c \in Found : \E i \in 1 .. Len(d) : d[i].id = c
  BY DEF Found, Best
<1>2. Len(d) \in Nat /\ \A i \in 1 .. Len(d) : d[i] \in Hit
  BY ElementOfSeq, LenProperties DEF Best
<1>3. IsFiniteSet(Found)
  <2> DEFINE f == [i \in 1 .. Len(d) |-> d[i].id]
  <2>1. f \in Surjection(1 .. Len(d), Found)
    BY <1>1 DEF Surjection
  <2>2. IsFiniteSet(1 .. Len(d))
    BY <1>2, FS_Interval
  <2> HIDE DEF f
  <2>. QED BY <2>1, <2>2, FS_Surjection
<1>4. Found \subseteq Chunks
  BY <1>1, <1>2 DEF Hit
<1>. QED BY <1>1, <1>3, <1>4

\* The kin of a chunk are the chunks of its document.
LEMMA KinAre ==
    ASSUME hits \in Seq(Hit), NEW d, Best(hits, d), NEW i \in 1 .. Len(d), NEW j \in 1 .. Len(d)
    PROVE  d[j].id \in Kin(d[i].id) <=> DocumentKey(d[j]) = DocumentKey(d[i])
<1>1. d[j].id \in Found
  BY FoundAre
<1>2. "hit" # "doc"
  OBVIOUS
<1>. QED BY <1>1, <1>2 DEF Kin, DocumentKey

\* Hit k of d is the best of the document of hit i.
PrimaryOf(d, i, k) ==
  /\ BestHit(Kin(d[i].id)) = d[k] /\ DocumentKey(d[k]) = DocumentKey(d[i])
  /\ \A j \in 1 .. Len(d) : DocumentKey(d[j]) = DocumentKey(d[i]) => d[j] = d[k] \/ Better(d[k], d[j])

\* Each document has such a hit.
LEMMA PrimaryIs ==
    ASSUME hits \in Seq(Hit), NEW d, Best(hits, d), NEW i \in 1 .. Len(d)
    PROVE  \E k \in 1 .. Len(d) : PrimaryOf(d, i, k)
<1>1. d[i].id \in Kin(d[i].id)
  BY KinAre
<1>2. PICK k \in 1 .. Len(d) : HitOf(d, Kin(d[i].id), k)
  BY <1>1, BestHitIs
<1>3. \A j \in 1 .. Len(d) : d[j] \in Hit
  BY ElementOfSeq DEF Best
<1>4. DocumentKey(d[k]) = DocumentKey(d[i])
  BY <1>2, KinAre DEF HitOf
<1>5. ASSUME NEW j \in 1 .. Len(d), DocumentKey(d[j]) = DocumentKey(d[i])
      PROVE  d[j] = d[k] \/ Better(d[k], d[j])
  <2>1. ~Better(d[j], d[k])
    BY <1>2, <1>5, KinAre DEF HitOf
  <2>. QED BY <1>3, <2>1, BetterOrders
<1>. QED BY <1>2, <1>4, <1>5 DEF HitOf, PrimaryOf

\* The best hit of one chunk is the one in d.
LEMMA SingleIs ==
    ASSUME hits \in Seq(Hit), NEW d, Best(hits, d), NEW i \in 1 .. Len(d)
    PROVE  BestHit({d[i].id}) = d[i]
<1>1. PICK k \in 1 .. Len(d) : HitOf(d, {d[i].id}, k)
  BY BestHitIs
<1>2. k = i
  BY <1>1, BestIsUnique DEF HitOf
<1>. QED BY <1>1, <1>2 DEF HitOf

\* What Ahead means for the hits in d.
LEMMA AheadIs ==
    ASSUME hits \in Seq(Hit), NEW d, Best(hits, d), NEW i \in 1 .. Len(d), NEW j \in 1 .. Len(d),
           NEW k \in 1 .. Len(d), PrimaryOf(d, i, k), NEW l \in 1 .. Len(d), PrimaryOf(d, j, l)
    PROVE  d[j].id \in Ahead(d[i].id) <=>
             IF DocumentKey(d[j]) = DocumentKey(d[i]) THEN Better(d[j], d[i]) ELSE Better(d[l], d[k])
<1>1. d[j].id \in Found
  BY FoundAre
<1>2. BestHit({d[i].id}) = d[i] /\ BestHit({d[j].id}) = d[j]
  BY SingleIs
<1>3. d[j].id \in Kin(d[i].id) <=> DocumentKey(d[j]) = DocumentKey(d[i])
  BY KinAre
<1>4. BestHit(Kin(d[i].id)) = d[k] /\ BestHit(Kin(d[j].id)) = d[l]
  BY DEF PrimaryOf
<1>. QED BY <1>1, <1>2, <1>3, <1>4 DEF Ahead

\* Ahead orders the chunks that were found, as ComesBefore does.
LEMMA AheadOrders ==
    ASSUME hits \in Seq(Hit), NEW d, Best(hits, d), NEW i \in 1 .. Len(d), NEW j \in 1 .. Len(d)
    PROVE  /\ d[i].id \notin Ahead(d[i].id)
           /\ i = j \/ d[j].id \in Ahead(d[i].id) \/ d[i].id \in Ahead(d[j].id)
           /\ d[j].id \in Ahead(d[i].id) => ComesBefore(d, d[j], d[i])
<1>1. \A m \in 1 .. Len(d) : d[m] \in Hit
  BY ElementOfSeq DEF Best
<1>2. PICK k \in 1 .. Len(d) : PrimaryOf(d, i, k)
  BY PrimaryIs
<1>3. PICK l \in 1 .. Len(d) : PrimaryOf(d, j, l)
  BY PrimaryIs
<1>4. d[i].id \notin Ahead(d[i].id)
  BY <1>1, <1>2, AheadIs, BetterOrders
<1>5. d[j].id \in Ahead(d[i].id) <=>
        IF DocumentKey(d[j]) = DocumentKey(d[i]) THEN Better(d[j], d[i]) ELSE Better(d[l], d[k])
  BY <1>2, <1>3, AheadIs
<1>6. d[i].id \in Ahead(d[j].id) <=>
        IF DocumentKey(d[i]) = DocumentKey(d[j]) THEN Better(d[i], d[j]) ELSE Better(d[k], d[l])
  BY <1>2, <1>3, AheadIs
<1>7. i = j \/ d[i] # d[j]
  BY BestIsUnique
<1>8. DocumentKey(d[i]) # DocumentKey(d[j]) => d[k] # d[l]
  BY <1>2, <1>3 DEF PrimaryOf
<1>9. i = j \/ d[j].id \in Ahead(d[i].id) \/ d[i].id \in Ahead(d[j].id)
  BY <1>1, <1>5, <1>6, <1>7, <1>8, BetterOrders
<1>10. ASSUME d[j].id \in Ahead(d[i].id) PROVE ComesBefore(d, d[j], d[i])
  <2>1. CASE DocumentKey(d[j]) = DocumentKey(d[i])
    BY <1>5, <1>10, <2>1 DEF ComesBefore
  <2>2. CASE DocumentKey(d[j]) # DocumentKey(d[i])
    <3>1. Better(d[l], d[k])
      BY <1>5, <1>10, <2>2
    <3>2. ASSUME NEW f \in 1 .. Len(d), DocumentKey(d[f]) = DocumentKey(d[i]) PROVE Better(d[l], d[f])
      <4>1. d[f] = d[k] \/ Better(d[k], d[f])
        BY <1>2, <3>2 DEF PrimaryOf
      <4>. QED BY <1>1, <3>1, <4>1, BetterOrders
    <3>3. DocumentKey(d[l]) = DocumentKey(d[j])
      BY <1>3 DEF PrimaryOf
    <3>. QED BY <2>2, <3>2, <3>3 DEF ComesBefore
  <2>. QED BY <2>1, <2>2
<1>. QED BY <1>4, <1>9, <1>10

\* The chunks of the evidence are those with less than FinalK chunks ahead of them.
LEMMA SelectedAreBest ==
    ASSUME hits \in Seq(Hit), NEW d, NEW e, SelectsBest(hits, e, d)
    PROVE  {e[i].id : i \in 1 .. Len(e)} = {c \in Found : Cardinality(Ahead(c)) < FinalK}
<1> DEFINE U == {e[i].id : i \in 1 .. Len(e)}
           ahead == [c \in Found |-> Ahead(c)]
<1>1. /\ Best(hits, d) /\ Selects(d, e) /\ FinalK \in Nat \ {0} /\ Len(e) \in Nat
  BY RetrievalAssumption, LenProperties DEF SelectsBest, Selects
<1>2. /\ \A i \in 1 .. Len(d) : d[i].id \in Found
      /\ \A c \in Found : \E i \in 1 .. Len(d) : d[i].id = c
      /\ IsFiniteSet(Found)
  BY <1>1, FoundAre
<1>3. U \in SUBSET Found
  <2>1. \A i \in 1 .. Len(e) : \E j \in 1 .. Len(d) : e[i] = d[j]
    BY <1>1 DEF Selects
  <2>2. ASSUME NEW i \in 1 .. Len(e) PROVE e[i].id \in Found
    BY <1>2, <2>1
  <2>. QED BY <2>2
<1>4. ahead \in [Found -> SUBSET Found]
  BY DEF Ahead
<1>5. \A c \in Found : c \notin ahead[c]
  BY <1>1, <1>2, AheadOrders
<1>6. ASSUME NEW b \in Found, NEW c \in Found PROVE b = c \/ b \in ahead[c] \/ c \in ahead[b]
  <2>1. PICK i \in 1 .. Len(d) : d[i].id = b
    BY <1>2
  <2>2. PICK j \in 1 .. Len(d) : d[j].id = c
    BY <1>2
  <2>. QED BY <1>1, <2>1, <2>2, AheadOrders
<1>7. Cardinality(U) = Len(e) /\ Len(e) <= FinalK
  <2> DEFINE f == [i \in 1 .. Len(e) |-> e[i].id]
  <2>1. \A i, j \in 1 .. Len(e) : e[i].id = e[j].id => i = j
    BY <1>1 DEF Selects
  <2>2. /\ f \in [1 .. Len(e) -> U] /\ \A c \in U : \E i \in 1 .. Len(e) : f[i] = c
        /\ \A i, j \in 1 .. Len(e) : f[i] = f[j] => i = j
    BY <2>1
  <2> DEFINE n == Len(e)
  <2>3. n \in Nat
    BY <1>1
  <2> HIDE DEF f, U, n
  <2>4. IsFiniteSet(1 .. n) /\ Cardinality(1 .. n) = n
    BY <2>3, FS_Interval
  <2>5. f \in Surjection(1 .. n, U) /\ f \in Injection(1 .. n, U)
    BY <2>2 DEF Injection, IsInjective, Surjection, n
  <2>6. Cardinality(U) = Cardinality(1 .. n)
    BY <2>4, <2>5, FS_Surjection
  <2>. QED BY <1>1, <2>4, <2>6 DEF Selects, n
<1>8. CASE \A j \in 1 .. Len(d) : \E i \in 1 .. Len(e) : e[i] = d[j]
  <2>1. U = Found
    <3>1. ASSUME NEW c \in Found PROVE c \in U
      <4>1. PICK j \in 1 .. Len(d) : d[j].id = c
        BY <1>2
      <4>2. PICK i \in 1 .. Len(e) : e[i] = d[j]
        BY <1>8
      <4>. QED BY <4>1, <4>2
    <3>. QED BY <1>3, <3>1
  <2>2. Cardinality(U) <= FinalK
    <3> HIDE DEF U
    <3>. QED BY <1>7
  <2>3. \A c \in U : ahead[c] \subseteq U
    BY <1>4, <2>1
  <2> HIDE DEF U, ahead
  <2>4. U = {c \in Found : Cardinality(ahead[c]) < FinalK}
    BY <1>1, <1>2, <1>3, <1>4, <1>5, <1>6, <2>1, <2>2, <2>3, BestOnes
  <2>. QED BY <2>4 DEF U, ahead
<1>9. CASE /\ Len(e) = FinalK
           /\ \A i \in 1 .. Len(e) : \A j \in 1 .. Len(d) :
                ComesBefore(d, d[j], e[i]) => \E m \in 1 .. Len(e) : e[m] = d[j]
  <2>1. ASSUME NEW c \in U, NEW b \in ahead[c] PROVE b \in U
    <3>1. PICK i \in 1 .. Len(e) : c = e[i].id
      BY <2>1
    <3>2. PICK k \in 1 .. Len(d) : e[i] = d[k]
      BY <1>1 DEF Selects
    <3>3. PICK j \in 1 .. Len(d) : d[j].id = b
      BY <1>2, <1>3, <1>4, <2>1
    <3>4. d[j].id \in Ahead(d[k].id)
      BY <1>3, <2>1, <3>1, <3>2, <3>3
    <3>5. ComesBefore(d, d[j], e[i])
      BY <1>1, <3>2, <3>4, AheadOrders
    <3>6. PICK m \in 1 .. Len(e) : e[m] = d[j]
      BY <1>9, <3>5
    <3>. QED BY <3>3, <3>6
  <2>2. Cardinality(U) = FinalK /\ Cardinality(U) <= FinalK
    BY <1>1, <1>7, <1>9
  <2> HIDE DEF U, ahead
  <2>3. \A c \in U : ahead[c] \subseteq U
    BY <2>1
  <2>4. U = {c \in Found : Cardinality(ahead[c]) < FinalK}
    BY <1>1, <1>2, <1>3, <1>4, <1>5, <1>6, <2>2, <2>3, BestOnes
  <2>. QED BY <2>4 DEF U, ahead
<1>. QED BY <1>1, <1>8, <1>9 DEF Selects

-----------------------------------------------------------------------------
(* Retrieval: the request *)

\* The ranking does not change with the evidence.
LEMMA SameRanking ==
    ASSUME hits' = hits
    PROVE  Found' = Found /\ \A c \in Found : Ahead(c)' = Ahead(c)
<1>1. Found' = Found
  BY DEF Found
<1>2. ASSUME NEW C PROVE BestHit(C)' = BestHit(C)
  BY DEF BestHit
<1>3. ASSUME NEW c PROVE Kin(c)' = Kin(c)
  BY <1>1 DEF Kin
<1>4. ASSUME NEW c PROVE Ahead(c)' = Ahead(c)
  BY <1>1, <1>2, <1>3 DEF Ahead
<1>. QED BY <1>1, <1>4

\* The citations k count: different numbers of pieces of evidence that are there.
Count(k) ==
  /\ k \in Seq(Nat)
  /\ \A i \in 1 .. Len(k) : k[i] \in DOMAIN evidence /\ evidence[k[i]] # NoDoc
  /\ \A i, j \in 1 .. Len(k) : k[i] = k[j] => i = j

\* One round of the validation of citations.
LEMMA KeepCitationCounts ==
    ASSUME NEW k, Count(k), NEW n \in Nat
    PROVE  Count(KeepCitation(k, n))
<1>1. CASE (\E i \in DOMAIN k : k[i] = n) \/ n \notin DOMAIN evidence \/ evidence[n] = NoDoc
  BY <1>1 DEF KeepCitation
<1>2. CASE ~((\E i \in DOMAIN k : k[i] = n) \/ n \notin DOMAIN evidence \/ evidence[n] = NoDoc)
  <2> DEFINE l == Append(k, n)
  <2>1. KeepCitation(k, n) = l
    BY <1>2 DEF KeepCitation
  <2>2. /\ k \in Seq(Nat) /\ Len(k) \in Nat /\ DOMAIN k = 1 .. Len(k)
    BY LenProperties DEF Count
  <2>3. /\ l \in Seq(Nat) /\ Len(l) = Len(k) + 1 /\ l[Len(k) + 1] = n /\ \A i \in 1 .. Len(k) : l[i] = k[i]
    BY <2>2, AppendProperties
  <2> HIDE DEF l
  <2>4. \A i \in 1 .. Len(l) : i \in 1 .. Len(k) \/ i = Len(k) + 1
    BY <2>2, <2>3
  <2>. QED BY <1>2, <2>1, <2>2, <2>3, <2>4 DEF Count
<1>. QED BY <1>1, <1>2

\* The citations that are kept count.
LEMMA CitationsCount ==
    ASSUME NEW s \in Seq(Nat)
    PROVE  Count(Fold([kept \in Seq(Nat) |-> [n \in Nat |-> KeepCitation(kept, n)]], <<>>, s))
<1> DEFINE X == Seq(Nat)
           step == [kept \in X |-> [n \in Nat |-> KeepCitation(kept, n)]]
           base == <<>>
<1>1. step \in [X -> [Nat -> X]]
  <2>1. ASSUME NEW k \in X, NEW n \in Nat PROVE KeepCitation(k, n) \in X
    <3>1. Append(k, n) \in Seq(Nat)
      BY AppendProperties
    <3>. QED BY <3>1 DEF KeepCitation
  <2> HIDE DEF X
  <2>. QED BY <2>1
<1>2. base \in X
  BY EmptySeq
<1>3. PICK after \in [0 .. Len(s) -> X] : FoldsTo(step, base, s, after)
  <2> HIDE DEF step, base
  <2>1. \E after \in [0 .. Len(s) -> X] : FoldsTo(step, base, s, after)
    BY <1>1, <1>2, FoldGoesThrough
  <2>. QED BY <2>1
<1>4. Len(s) \in Nat /\ \A n \in 1 .. Len(s) : s[n] \in Nat
  BY ElementOfSeq
<1>5. \A n \in 0 .. Len(s) : after[n] \in Seq(Nat)
  BY <1>3
<1>6. after[0] = <<>> /\ \A n \in 1 .. Len(s) : after[n] = KeepCitation(after[n - 1], s[n])
  <2>1. \A k \in X, n \in Nat : step[k][n] = KeepCitation(k, n)
    OBVIOUS
  <2>2. \A n \in 1 .. Len(s) : n - 1 \in 0 .. Len(s)
    BY <1>4
  <2> HIDE DEF step
  <2>. QED BY <1>3, <1>4, <1>5, <2>1, <2>2 DEF Through, FoldsTo
<1> DEFINE T == {n \in 0 .. Len(s) : Count(after[n])}
<1>7. 0 \in T
  <2>1. Count(<<>>)
    BY EmptySeq DEF Count
  <2>. QED BY <1>4, <1>6, <2>1
<1>8. ASSUME NEW n \in 1 .. Len(s), n - 1 \in T PROVE n \in T
  <2>1. Count(after[n - 1]) /\ n \in 0 .. Len(s)
    BY <1>4, <1>8
  <2>2. Count(KeepCitation(after[n - 1], s[n]))
    BY <1>4, <2>1, KeepCitationCounts
  <2>. QED BY <1>6, <2>1, <2>2
<1>9. Len(s) \in 0 .. Len(s)
  BY <1>4
<1>10. Len(s) \in T
  <2> HIDE DEF T
  <2>. QED BY <1>4, <1>7, <1>8, <1>9, UpTo
<1>. QED BY <1>3, <1>10 DEF FoldsTo

\* What holds after every step.
RetrievalInv ==
  /\ RetrievalTypeOK /\ RetrievalIsSound
  /\ Len(evidence) <= FinalK
  /\ \A i \in 1 .. Len(evidence) : evidence[i] # NoDoc => evidence[i] \in Found
  /\ stage \in {"search", "evidence"} => evidence = <<>>
  /\ stage # "done" => answer = "none"

\* The step that selects the evidence.
LEMMA EvidenceIsBuilt ==
    ASSUME RetrievalInv, BuildEvidence
    PROVE  RetrievalInv'
<1> DEFINE s == SelectEvidence(hits)
<1>1. /\ hits \in Seq(Hit) /\ hits' = hits /\ cited \in Seq(1 .. FinalK) /\ cited' = cited
      /\ stage = "evidence" /\ answer = "none" /\ Found' = Found /\ \A c \in Found : Ahead(c)' = Ahead(c)
  BY SameRanking DEF RetrievalInv, RetrievalTypeOK, BuildEvidence
<1>2. PICK d : SelectsBest(hits, s, d)
  BY <1>1, EvidenceIsSelected
<1>3. PICK rowless \in SUBSET Chunks :
        evidence' = [i \in DOMAIN s |-> LET c == s[i].id
                                        IN IF c \in rowless /\ DocOf[c] = NoDoc THEN NoDoc ELSE c]
  BY DEF BuildEvidence
<1> HIDE DEF s
<1>4. s \in Seq(Hit) /\ Len(s) \in Nat /\ DOMAIN s = 1 .. Len(s) /\ Len(s) <= FinalK
  BY <1>2, LenProperties DEF SelectsBest, Selects
<1>5. \A i \in 1 .. Len(s) : s[i].id \in Chunks /\ s[i].id # NoDoc
  <2>1. \A i \in 1 .. Len(s) : s[i] \in Hit
    BY <1>4, ElementOfSeq
  <2>. QED BY <2>1, RetrievalAssumption DEF Hit
<1> DEFINE e == evidence'
<1>6. \A i \in 1 .. Len(s) : e[i] = s[i].id \/ (e[i] = NoDoc /\ DocOf[s[i].id] = NoDoc)
  BY <1>3, <1>4
<1>7. e \in Seq(Chunks \cup {NoDoc}) /\ Len(e) = Len(s) /\ DOMAIN e = 1 .. Len(s)
  <2>1. e = [i \in 1 .. Len(s) |-> e[i]]
    BY <1>3, <1>4
  <2> DEFINE E == Chunks \cup {NoDoc}
  <2>2. \A i \in 1 .. Len(s) : e[i] \in E
    BY <1>5, <1>6
  <2>3. e \in [1 .. Len(s) -> E]
    <3> HIDE DEF e, E
    <3>. QED BY <2>1, <2>2
  <2> HIDE DEF E, e
  <2>4. e \in Seq(E)
    BY <1>4, <2>3, SeqDef
  <2>. QED BY <1>4, <2>3, <2>4, LenProperties DEF E
<1> DEFINE best == {c \in Found : Cardinality(Ahead(c)) < FinalK}
<1>8. best = {s[i].id : i \in 1 .. Len(s)}
  BY <1>1, <1>2, SelectedAreBest
<1>9. \A i, j \in 1 .. Len(s) : s[i].id = s[j].id => i = j
  BY <1>2 DEF SelectsBest, Selects
<1>10. best = {c \in Found : Cardinality(Ahead(c)) < FinalK}' /\ best \subseteq Found
  BY <1>1
<1> HIDE DEF best, e
<1> DEFINE used == ToSet(e) \ {NoDoc}
<1>11. used \subseteq best
  <2>1. ASSUME NEW c \in used PROVE c \in best
    <3>1. PICK i \in 1 .. Len(s) : c = e[i] /\ c # NoDoc
      BY <1>7, <2>1 DEF ToSet
    <3>. QED BY <1>6, <1>8, <3>1
  <2>. QED BY <2>1
<1>12. ASSUME NEW c \in best \ used PROVE DocOf[c] = NoDoc
  <2>1. PICK i \in 1 .. Len(s) : c = s[i].id
    BY <1>8
  <2>2. e[i] # c
    BY <1>5, <1>7, <1>12, <2>1 DEF ToSet
  <2>. QED BY <1>6, <2>1, <2>2
<1>13. \A i, j \in DOMAIN e : i # j /\ e[i] # NoDoc => e[i] # e[j]
  BY <1>5, <1>6, <1>7, <1>9
<1>14. EvidenceIsBest'
  BY <1>10, <1>11, <1>12, <1>13 DEF EvidenceIsBest, e
<1>15. stage' \in {"citations", "done"} /\ answer' \in {"none", "low"} /\ (stage' # "done" => answer' = "none")
  BY <1>1 DEF BuildEvidence, GiveAnswer
<1>16. AnswerIsGrounded'
  BY <1>15 DEF AnswerIsGrounded
<1>17. \A i \in 1 .. Len(e) : e[i] # NoDoc => e[i] \in Found'
  BY <1>1, <1>6, <1>7, <1>8, <1>10
<1>18. RetrievalTypeOK'
  <2>1. hits' \in Seq(Hit)'
    BY <1>1 DEF Hit
  <2>. QED BY <1>1, <1>7, <1>15, <2>1 DEF RetrievalTypeOK, e
<1>. QED BY <1>4, <1>7, <1>14, <1>15, <1>16, <1>17, <1>18 DEF RetrievalInv, RetrievalIsSound, e

\* The step that validates the citations of an answer.
LEMMA CitationsAreValidated ==
    ASSUME RetrievalInv, NEW citations \in Seq(Nat), ValidateCitations(citations)
    PROVE  RetrievalInv'
<1>1. /\ hits' = hits /\ evidence' = evidence /\ stage = "citations" /\ stage' = "done"
      /\ Found' = Found /\ answer' = IF cited' = <<>> /\ ~AnswerAnyway THEN "low" ELSE "generated"
  BY SameRanking DEF ValidateCitations, GiveAnswer
<1>2. /\ evidence \in Seq(Chunks \cup {NoDoc}) /\ Len(evidence) \in Nat /\ Len(evidence) <= FinalK
      /\ DOMAIN evidence = 1 .. Len(evidence) /\ FinalK \in Nat
  BY RetrievalAssumption, LenProperties DEF RetrievalInv, RetrievalTypeOK
<1> DEFINE k == cited'
<1>3. Count(k)
  BY CitationsCount DEF ValidateCitations
<1>4. k \in Seq(Nat) /\ Len(k) \in Nat /\ DOMAIN k = 1 .. Len(k)
  BY <1>3, LenProperties DEF Count
<1> HIDE DEF k
<1>5. \A i \in 1 .. Len(k) : k[i] \in 1 .. FinalK /\ k[i] \in DOMAIN evidence /\ evidence[k[i]] \in Found
  BY <1>2, <1>3 DEF Count, RetrievalInv
<1>6. k \in Seq(1 .. FinalK)
  <2>1. k = [i \in 1 .. Len(k) |-> k[i]]
    BY <1>4
  <2>2. k \in [1 .. Len(k) -> 1 .. FinalK]
    BY <1>5, <2>1
  <2> DEFINE S == 1 .. FinalK
  <2>3. k \in [1 .. Len(k) -> S]
    BY <2>2
  <2> HIDE DEF S
  <2>4. k \in Seq(S)
    BY <1>4, <2>3, SeqDef
  <2>. QED BY <2>4 DEF S
<1>7. RetrievalTypeOK'
  BY <1>1, <1>6 DEF RetrievalInv, RetrievalTypeOK, Hit, k
<1>8. AnswerIsGrounded'
  BY <1>1, <1>3, <1>4, <1>5 DEF AnswerIsGrounded, Count, k
<1>9. EvidenceIsBest'
  BY <1>1 DEF EvidenceIsBest
<1>. QED BY <1>1, <1>7, <1>8, <1>9 DEF RetrievalInv, RetrievalIsSound

\* The invariant holds from the search to the answer.
THEOREM RetrievalInduction == RetrievalSpec => []RetrievalInv
<1>1. RetrievalInit => RetrievalInv
  <2> SUFFICES ASSUME RetrievalInit PROVE RetrievalInv
    OBVIOUS
  <2>1. <<>> \in Seq(Hit) /\ <<>> \in Seq(Chunks \cup {NoDoc}) /\ <<>> \in Seq(1 .. FinalK) /\ Len(<<>>) = 0
    BY EmptySeq
  <2>2. FinalK \in Nat
    BY RetrievalAssumption
  <2>. QED BY <2>1, <2>2 DEF RetrievalInit, RetrievalInv, RetrievalTypeOK, RetrievalIsSound, EvidenceIsBest,
                            AnswerIsGrounded
<1>2. RetrievalInv /\ [RetrievalNext]_retrievalVars => RetrievalInv'
  <2> SUFFICES ASSUME RetrievalInv, [RetrievalNext]_retrievalVars PROVE RetrievalInv'
    OBVIOUS
  <2>1. ASSUME UNCHANGED <<hits, evidence, cited>>, stage' = "done", answer' \in {"none", "low", "error"}
        PROVE  RetrievalInv'
    <3>1. Found' = Found
      BY <2>1, SameRanking
    <3>. QED BY <2>1, <3>1 DEF RetrievalInv, RetrievalTypeOK, RetrievalIsSound, EvidenceIsBest, AnswerIsGrounded, Hit
  <2>2. CASE RefuseScope
    BY <2>1, <2>2 DEF RefuseScope, GiveAnswer
  <2>3. CASE Search
    <3>1. PICK n \in 0 .. TopK : hits' \in [1 .. n -> Hit]
      BY <2>3 DEF Search
    <3>2. hits' \in Seq(Hit)
      <4>1. n \in Nat
        BY RetrievalAssumption
      <4>. QED BY <3>1, <4>1, SeqDef
    <3>3. /\ stage' = "evidence" /\ evidence' = <<>> /\ cited' = cited /\ answer' = "none" /\ Len(<<>>) = 0
          /\ FinalK \in Nat /\ evidence = <<>> /\ cited \in Seq(1 .. FinalK)
          /\ evidence \in Seq(Chunks \cup {NoDoc})
      BY <2>3, RetrievalAssumption, EmptySeq DEF Search, RetrievalInv, RetrievalTypeOK
    <3>4. EvidenceIsBest' /\ AnswerIsGrounded'
      BY <3>3 DEF EvidenceIsBest, AnswerIsGrounded
    <3>. QED BY <3>2, <3>3, <3>4 DEF RetrievalInv, RetrievalTypeOK, RetrievalIsSound, Hit
  <2>4. CASE BuildEvidence
    BY <2>4, EvidenceIsBuilt
  <2>5. ASSUME NEW n \in 0 .. 2, NEW citations \in [1 .. n -> 0 .. FinalK + 1], ValidateCitations(citations)
        PROVE  RetrievalInv'
    <3>1. citations \in Seq(Nat)
      <4>1. n \in Nat /\ \A m \in 0 .. FinalK + 1 : m \in Nat
        BY RetrievalAssumption
      <4>2. citations \in [1 .. n -> Nat]
        BY <4>1
      <4>. QED BY <4>1, <4>2, SeqDef
    <3>. QED BY <2>5, <3>1, CitationsAreValidated
  <2>6. CASE RetrievalFails
    BY <2>1, <2>6 DEF RetrievalFails, GiveAnswer
  <2>7. CASE UNCHANGED retrievalVars
    <3>1. Found' = Found /\ \A c \in Found : Ahead(c)' = Ahead(c)
      BY <2>7, SameRanking DEF retrievalVars
    <3>. QED BY <2>7, <3>1 DEF retrievalVars, RetrievalInv, RetrievalTypeOK, RetrievalIsSound, EvidenceIsBest,
                               AnswerIsGrounded, Hit
  <2>. QED BY <2>2, <2>3, <2>4, <2>5, <2>6, <2>7 DEF RetrievalNext
<1>. QED BY <1>1, <1>2, PTL DEF RetrievalSpec

\* The variables of the request have their types: at most FinalK pieces of evidence can be cited.
THEOREM RetrievalTypeCorrect == RetrievalSpec => []RetrievalTypeOK
<1>1. RetrievalInv => RetrievalTypeOK
  BY DEF RetrievalInv
<1>. QED BY <1>1, RetrievalInduction, PTL

\* Whatever the search returned, in whatever order and how often: the evidence is the best
\* chunks of the best documents, and an answer cites evidence of its own request, each
\* piece once.
THEOREM RetrievalCorrect == RetrievalSpec => []RetrievalIsSound
<1>1. RetrievalInv => RetrievalIsSound
  BY DEF RetrievalInv
<1>. QED BY <1>1, RetrievalInduction, PTL


-----------------------------------------------------------------------------
(* Assembly: lists *)

\* One more element is one more step of the fold.
Extends(step, base, s, e, X) ==
  /\ Fold(step, base, s) \in X
  /\ Fold(step, base, Append(s, e)) = step[Fold(step, base, s)][e]

\* A fold of a list with one more element.
LEMMA FoldExtends ==
    ASSUME NEW X, NEW E, NEW base \in X, NEW step \in [X -> [E -> X]], NEW s \in Seq(E), NEW e \in E
    PROVE  Extends(step, base, s, e, X)
<1> DEFINE t == Append(s, e)
<1>1. /\ t \in Seq(E) /\ Len(t) = Len(s) + 1 /\ t[Len(t)] = e
      /\ \A i \in 1 .. Len(s) : t[i] = s[i]
      /\ Len(s) \in Nat
  BY AppendProperties, LenProperties
<1> HIDE DEF t
<1>2. PICK a \in [0 .. Len(s) -> X] : FoldsTo(step, base, s, a)
  BY FoldGoesThrough
<1>3. PICK b \in [0 .. Len(t) -> X] : FoldsTo(step, base, t, b)
  BY <1>1, FoldGoesThrough
<1> DEFINE T == {n \in 0 .. Len(s) : a[n] = b[n]}
<1>4. 0 \in T
  BY <1>1, <1>2, <1>3 DEF FoldsTo, Through
<1>5. ASSUME NEW n \in 1 .. Len(s), n - 1 \in T PROVE n \in T
  <2>1. n \in 0 .. Len(s) /\ n \in 1 .. Len(t)
    BY <1>1
  <2>2. a[n] = step[a[n - 1]][s[n]] /\ b[n] = step[b[n - 1]][t[n]]
    BY <1>2, <1>3, <2>1 DEF FoldsTo, Through
  <2>. QED BY <1>1, <1>5, <2>1, <2>2
<1>6. Len(s) \in T
  <2>1. Len(s) \in 0 .. Len(s)
    BY <1>1
  <2> HIDE DEF T
  <2>. QED BY <1>1, <1>4, <1>5, <2>1, UpTo
<1>7. Len(t) \in 1 .. Len(t) /\ Len(t) - 1 = Len(s) /\ Len(s) \in 0 .. Len(s)
  BY <1>1
<1>8. b[Len(t)] = step[b[Len(t) - 1]][t[Len(t)]]
  BY <1>3, <1>7 DEF FoldsTo, Through
<1>9. b[Len(t)] = step[a[Len(s)]][e]
  BY <1>1, <1>6, <1>7, <1>8
<1>. QED BY <1>2, <1>3, <1>7, <1>9 DEF FoldsTo, t, Extends

\* A fold of no elements.
LEMMA FoldOfNothing ==
    ASSUME NEW X, NEW E, NEW base \in X, NEW step \in [X -> [E -> X]]
    PROVE  Fold(step, base, <<>>) = base
<1>1. <<>> \in Seq(E) /\ Len(<<>>) = 0
  BY EmptySeq
<1>2. PICK a \in [0 .. Len(<<>>) -> X] : FoldsTo(step, base, <<>>, a)
  BY <1>1, FoldGoesThrough
<1>. QED BY <1>1, <1>2 DEF FoldsTo, Through

\* s is the start of t.
Starts(s, t) == Len(s) <= Len(t) /\ \A i \in 1 .. Len(s) : s[i] = t[i]

\* The layouts of the same lists agree, as far as both go.
LEMMA LayoutsAgree ==
    ASSUME NEW E, NEW w \in Seq(Seq(E)), NEW W \in Seq(Seq(E)), Starts(w, W),
           NEW t \in Seq(E), NEW a, Layout(w, Len(w), t, a),
           NEW T \in Seq(E), NEW b, Layout(W, Len(W), T, b)
    PROVE  Starts(t, T) /\ (Len(w) = Len(W) => Len(t) = Len(T))
<1> DEFINE n == Len(w)
           N == Len(W)
           S == {i \in 0 .. n : a[i + 1] = b[i + 1]}
<1>1. /\ n \in Nat /\ N \in Nat /\ n <= N /\ Len(t) \in Nat /\ Len(T) \in Nat
      /\ \A i \in 1 .. n : w[i] = W[i] /\ w[i] \in Seq(E) /\ Len(w[i]) \in Nat
      /\ \A i \in 1 .. N : Len(W[i]) \in Nat
  BY ElementOfSeq, LenProperties DEF Starts
<1>2. /\ a \in [1 .. n + 1 -> Nat] /\ a[1] = 0 /\ a[n + 1] = Len(t)
      /\ \A i \in 1 .. n : a[i + 1] = a[i] + Len(w[i])
      /\ \A i \in 1 .. n : \A m \in 1 .. Len(w[i]) : t[a[i] + m] = w[i][m]
      /\ \A k \in 1 .. Len(t) : \E i \in 1 .. n : \E m \in 1 .. Len(w[i]) : k = a[i] + m
  BY DEF Layout
<1>3. /\ b \in [1 .. N + 1 -> Nat] /\ b[1] = 0 /\ b[N + 1] = Len(T)
      /\ \A i \in 1 .. N : b[i + 1] = b[i] + Len(W[i])
      /\ \A i \in 1 .. N : \A m \in 1 .. Len(W[i]) : T[b[i] + m] = W[i][m]
      /\ \A i \in 1 .. N : \A j \in 1 .. N + 1 : i < j => b[i] + Len(W[i]) <= b[j]
  BY DEF Layout
<1> HIDE DEF n, N
<1>4. \A i \in 0 .. n : i \in S
  <2>1. 0 \in S
    BY <1>1, <1>2, <1>3
  <2>2. ASSUME NEW i \in 1 .. n, i - 1 \in S PROVE i \in S
    <3>1. i \in 0 .. n /\ i \in 1 .. N /\ (i - 1) + 1 = i
      BY <1>1
    <3>2. a[i] = b[i]
      BY <2>2, <3>1
    <3>3. a[i + 1] = a[i] + Len(w[i]) /\ b[i + 1] = b[i] + Len(W[i])
      BY <1>2, <1>3, <3>1
    <3>. QED BY <1>1, <3>1, <3>2, <3>3
  <2> HIDE DEF S
  <2>. QED BY <1>1, <2>1, <2>2, UpTo
<1>5. ASSUME NEW k \in 1 .. Len(t) PROVE t[k] = T[k]
  <2>1. PICK i \in 1 .. n : \E m \in 1 .. Len(w[i]) : k = a[i] + m
    BY <1>2
  <2>2. PICK m \in 1 .. Len(w[i]) : k = a[i] + m
    BY <2>1
  <2>3. a[i] = b[i] /\ i \in 1 .. N
    <3>1. i - 1 \in 0 .. n /\ (i - 1) + 1 = i /\ i \in 1 .. N
      BY <1>1
    <3>2. i - 1 \in S
      BY <1>4, <3>1
    <3>. QED BY <3>1, <3>2
  <2>4. t[k] = w[i][m] /\ T[k] = W[i][m]
    <3>1. w[i] = W[i] /\ m \in 1 .. Len(W[i])
      BY <1>1
    <3>2. t[a[i] + m] = w[i][m]
      BY <1>2
    <3>3. T[b[i] + m] = W[i][m]
      BY <1>3, <2>3, <3>1
    <3>. QED BY <2>2, <2>3, <3>2, <3>3
  <2>. QED BY <1>1, <2>4
<1>6. Len(t) = b[n + 1]
  <2>1. n \in S
    BY <1>1, <1>4
  <2>. QED BY <1>2, <2>1
<1>7. Len(t) <= Len(T)
  <2>1. CASE n = N
    BY <1>1, <1>3, <1>6, <2>1
  <2>2. CASE n < N
    <3> DEFINE i == n + 1
    <3>1. i \in 1 .. N /\ N + 1 \in 1 .. N + 1 /\ i < N + 1
      BY <1>1, <2>2
    <3>2. b[i] + Len(W[i]) <= b[N + 1] /\ b[i] \in Nat /\ Len(W[i]) \in Nat
      <4>1. i \in 1 .. N + 1
        BY <1>1, <2>2
      <4> HIDE DEF i
      <4>. QED BY <1>1, <1>3, <3>1, <4>1
    <3> DEFINE l == Len(W[i])
               p == b[i]
    <3>3. p + l <= Len(T) /\ p \in Nat /\ l \in Nat /\ Len(t) = p
      BY <1>3, <1>6, <3>2
    <3> HIDE DEF p, l
    <3>. QED BY <1>1, <3>3
  <2>. QED BY <1>1, <2>1, <2>2
<1>. QED BY <1>3, <1>5, <1>6, <1>7 DEF n, N, Starts

-----------------------------------------------------------------------------
(* Assembly: the windows *)

\* q tells where the chunks of S come from: from all places of non-empty chunks, sorted.
ChunksFrom(chunks, S, q) ==
  /\ q \in [1 .. Len(S) -> 1 .. Len(chunks)]
  /\ \A i, j \in 1 .. Len(S) : q[i] = q[j] => i = j
  /\ \A i \in 1 .. Len(S) : S[i] = chunks[q[i]] /\ S[i].length > 0
  /\ \A m \in 1 .. Len(chunks) : chunks[m].length > 0 => \E i \in 1 .. Len(S) : q[i] = m

\* In the order of their indexes.
Ascending(S) == \A i, j \in 1 .. Len(S) : i < j => Order(S[i]) <= Order(S[j])

\* SortChunks sorts the chunks that are not empty.
LEMMA ChunksAreSorted ==
    ASSUME NEW chunks \in Seq(Chunk)
    PROVE  /\ SortChunks(chunks) \in Seq(Chunk) /\ Ascending(SortChunks(chunks))
           /\ \E q : ChunksFrom(chunks, SortChunks(chunks), q)
<1> DEFINE kept == Kept(chunks, NonEmpty)
           S == SortChunks(chunks)
           before == {p \in (DOMAIN kept) \X (DOMAIN kept) :
                        \/ Order(kept[p[1]]) < Order(kept[p[2]])
                        \/ Order(kept[p[1]]) = Order(kept[p[2]]) /\ p[1] < p[2]}
<1>1. kept \in Seq(Chunk) /\ \E at : Selection(chunks, NonEmpty, Len(chunks), kept, at)
  BY KeptSelects
<1>2. PICK at : Selection(chunks, NonEmpty, Len(chunks), kept, at)
  BY <1>1
<1>3. S = Sorted(kept, before)
  BY DEF SortChunks
<1> HIDE DEF kept, S
<1>4. /\ Len(kept) \in Nat /\ DOMAIN kept = 1 .. Len(kept) /\ Len(chunks) \in Nat
      /\ \A i \in 1 .. Len(kept) : kept[i] \in Chunk /\ Order(kept[i]) \in Int
      /\ \A i \in 1 .. Len(chunks) : chunks[i] \in Chunk
  <2>1. \A i \in 1 .. Len(kept) : kept[i] \in Chunk
    BY <1>1, ElementOfSeq
  <2>2. \A chunk \in Chunk : Order(chunk) \in Int
    BY DEF Chunk, Order
  <2>. QED BY <1>1, <2>1, <2>2, ElementOfSeq, LenProperties
<1>5. \A i, j \in 1 .. Len(kept) :
        <<i, j>> \in before <=> \/ Order(kept[i]) < Order(kept[j])
                                \/ Order(kept[i]) = Order(kept[j]) /\ i < j
  BY <1>4
<1> HIDE DEF before
<1>6. StrictOrder(before, Len(kept))
  <2>1. ASSUME NEW i \in 1 .. Len(kept) PROVE <<i, i>> \notin before
    BY <1>4, <1>5
  <2>2. ASSUME NEW i \in 1 .. Len(kept), NEW j \in 1 .. Len(kept), NEW k \in 1 .. Len(kept),
               <<i, j>> \in before, <<j, k>> \in before
        PROVE  <<i, k>> \in before
    <3> DEFINE x == Order(kept[i])
               y == Order(kept[j])
               z == Order(kept[k])
    <3>1. (x < y \/ (x = y /\ i < j)) /\ (y < z \/ (y = z /\ j < k)) /\ x \in Int /\ y \in Int /\ z \in Int
      BY <1>4, <1>5, <2>2
    <3> HIDE DEF x, y, z
    <3>2. x < z \/ (x = z /\ i < k)
      BY <1>4, <3>1
    <3>. QED BY <1>5, <3>2 DEF x, z
  <2>. QED BY <2>1, <2>2 DEF StrictOrder
<1>7. S \in Seq(Chunk) /\ Len(S) = Len(kept) /\ \E p : SortedBy(kept, before, p, S)
  BY <1>1, <1>3, <1>6, SortedList
<1>8. PICK p : Sorts(before, Len(kept), p) /\ \A i \in 1 .. Len(kept) : S[i] = kept[p[i]]
  BY <1>7 DEF SortedBy
<1>9. \A i \in 1 .. Len(S) : p[i] \in 1 .. Len(kept) /\ S[i] = kept[p[i]]
  BY <1>7, <1>8 DEF Sorts
<1>10. Ascending(S)
  <2>1. ASSUME NEW i \in 1 .. Len(S), NEW j \in 1 .. Len(S), i < j PROVE Order(S[i]) <= Order(S[j])
    <3>1. <<p[j], p[i]>> \notin before
      BY <1>7, <1>8, <2>1 DEF Sorts
    <3>2. ~(Order(kept[p[j]]) < Order(kept[p[i]]))
      BY <1>5, <1>9, <3>1
    <3> DEFINE x == Order(kept[p[i]])
               y == Order(kept[p[j]])
    <3>3. x \in Int /\ y \in Int
      BY <1>4, <1>9
    <3> HIDE DEF x, y
    <3>4. x <= y
      BY <3>2, <3>3 DEF x, y
    <3>. QED BY <1>9, <3>4 DEF x, y
  <2>. QED BY <2>1 DEF Ascending
<1> DEFINE q == [i \in 1 .. Len(S) |-> at[p[i]]]
<1>11. /\ at \in [1 .. Len(kept) -> 1 .. Len(chunks)]
       /\ \A i \in 1 .. Len(kept) : kept[i] = chunks[at[i]] /\ kept[i] \in NonEmpty
       /\ \A i, j \in 1 .. Len(kept) : i < j => at[i] < at[j]
       /\ \A m \in 1 .. Len(chunks) : chunks[m] \in NonEmpty => \E i \in 1 .. Len(kept) : at[i] = m
  BY <1>2 DEF Selection
<1>12. \A i \in 1 .. Len(S) : q[i] \in 1 .. Len(chunks) /\ q[i] = at[p[i]] /\ S[i] = chunks[q[i]]
                              /\ S[i].length > 0
  BY <1>9, <1>11 DEF NonEmpty
<1>13. q \in [1 .. Len(S) -> 1 .. Len(chunks)]
  BY <1>12
<1> HIDE DEF q
<1>14. ASSUME NEW i \in 1 .. Len(S), NEW j \in 1 .. Len(S), q[i] = q[j] PROVE i = j
  <2>1. p[i] \in 1 .. Len(kept) /\ p[j] \in 1 .. Len(kept) /\ at[p[i]] = at[p[j]]
    BY <1>9, <1>12, <1>14
  <2>2. p[i] = p[j]
    <3> DEFINE x == p[i]
               y == p[j]
    <3>1. x \in 1 .. Len(kept) /\ y \in 1 .. Len(kept) /\ at[x] = at[y] /\ at[x] \in Int
      BY <1>4, <1>11, <2>1
    <3> HIDE DEF x, y
    <3>2. ~(x < y) /\ ~(y < x)
      <4>1. ASSUME x < y PROVE FALSE
        <5>1. at[x] < at[y]
          BY <1>11, <3>1, <4>1
        <5>. QED BY <3>1, <5>1
      <4>2. ASSUME y < x PROVE FALSE
        <5>1. at[y] < at[x]
          BY <1>11, <3>1, <4>2
        <5>. QED BY <3>1, <5>1
      <4>. QED BY <4>1, <4>2
    <3>3. x = y
      BY <1>4, <3>1, <3>2
    <3>. QED BY <3>3 DEF x, y
  <2>. QED BY <1>7, <1>8, <2>2 DEF Sorts
<1>15. ASSUME NEW m \in 1 .. Len(chunks), chunks[m].length > 0 PROVE \E i \in 1 .. Len(S) : q[i] = m
  <2>1. chunks[m] \in NonEmpty
    BY <1>4, <1>15 DEF NonEmpty
  <2>2. PICK k \in 1 .. Len(kept) : at[k] = m
    BY <1>11, <2>1
  <2>3. PICK i \in 1 .. Len(kept) : p[i] = k
    BY <1>8 DEF Sorts
  <2>. QED BY <1>7, <1>12, <2>2, <2>3
<1>16. ChunksFrom(chunks, S, q)
  BY <1>12, <1>13, <1>14, <1>15 DEF ChunksFrom
<1>. QED BY <1>7, <1>10, <1>16 DEF S

\* The windows W hold the chunks t in their order, and what a window holds is adjacent.
AreWindows(W) ==
  /\ W \in Seq(Window)
  /\ \A w \in 1 .. Len(W) :
       /\ Len(W[w]) \in 1 .. MaxWindow
       /\ \A n \in 1 .. Len(W[w]) - 1 : Adjacent(W[w][n], W[w][n + 1])
Hold(W, t) ==
  t \in Seq(Chunk) /\ \E at : Layout(W, Len(W), t, at)

\* Windows are lists that are not empty.
LEMMA WindowsAreLists ==
    ASSUME NEW W \in Seq(Window)
    PROVE  /\ W \in Seq(Seq(Chunk)) /\ Len(W) \in Nat /\ DOMAIN W = 1 .. Len(W)
           /\ \A i \in 1 .. Len(W) : W[i] \in Window /\ W[i] \in Seq(Chunk) /\ Len(W[i]) \in Nat \ {0}
<1>1. Window \subseteq Seq(Chunk) /\ \A w \in Window : Len(w) \in Nat \ {0}
  BY EmptySeq DEF Window
<1>2. \A i \in 1 .. Len(W) : W[i] \in Window
  BY ElementOfSeq
<1>. QED BY <1>1, <1>2, SeqMonotonic, LenProperties

\* A chunk starts a new window.
LEMMA MergeStarts ==
    ASSUME NEW W, NEW t, AreWindows(W), Hold(W, t), NEW chunk \in Chunk
    PROVE  AreWindows(Append(W, <<chunk>>)) /\ Hold(Append(W, <<chunk>>), Append(t, chunk))
<1> DEFINE new == <<chunk>>
           V == Append(W, new)
           L == Len(W)
           n == L + 1
<1>1. new \in Window /\ new \in Seq(Chunk) /\ Len(new) = 1 /\ new[1] = chunk
  <2>1. new = Append(<<>>, chunk) /\ <<>> \in Seq(Chunk) /\ Len(<<>>) = 0
    BY EmptySeq
  <2>2. new \in Seq(Chunk) /\ new # <<>>
    BY <2>1, AppendProperties
  <2>. QED BY <2>2 DEF Window
<1> HIDE DEF new
<1>2. W \in Seq(Window) /\ L \in Nat /\ \A i \in 1 .. L : W[i] \in Window
  BY WindowsAreLists DEF AreWindows
<1>3. V \in Seq(Window) /\ Len(V) = n /\ V[n] = new /\ \A i \in 1 .. L : V[i] = W[i]
  BY <1>1, <1>2, AppendProperties
<1> HIDE DEF V
<1>4. V \in Seq(Seq(Chunk)) /\ n \in 1 .. Len(V) /\ n - 1 = L
  BY <1>2, <1>3, WindowsAreLists
<1>5. AreWindows(V)
  <2>1. 1 \in 1 .. MaxWindow
    BY AssemblyAssumption
  <2>2. \A i \in 1 .. n : i = n \/ i \in 1 .. L
    BY <1>2
  <2>3. ASSUME NEW w \in 1 .. n
        PROVE  Len(V[w]) \in 1 .. MaxWindow /\ \A m \in 1 .. Len(V[w]) - 1 : Adjacent(V[w][m], V[w][m + 1])
    <3>1. CASE w = n
      <4>1. Len(V[w]) = 1
        BY <1>1, <1>3, <3>1
      <4>. QED BY <2>1, <4>1
    <3>2. CASE w \in 1 .. L
      BY <1>3, <3>2 DEF AreWindows
    <3>. QED BY <2>2, <3>1, <3>2
  <2>. QED BY <1>3, <2>3 DEF AreWindows
<1>6. PICK at : Layout(W, L, t, at)
  BY DEF Hold
<1>7. t \in Seq(Chunk) /\ t \o new = Append(t, chunk) /\ Append(t, chunk) \in Seq(Chunk)
  BY AppendIsConcat, AppendProperties DEF Hold, new
<1>8. Layout(V, n - 1, t, at)
  <2>1. \A i \in 1 .. L : V[i] = W[i] /\ Len(V[i]) = Len(W[i])
    BY <1>3
  <2> HIDE DEF L
  <2>2. Layout(V, L, t, at)
    BY <1>6, <2>1 DEF Layout
  <2> HIDE DEF n
  <2>. QED BY <1>4, <2>2
<1>9. \E b : Layout(V, n, t \o V[n], b)
  <2> HIDE DEF n
  <2>. QED BY <1>4, <1>7, <1>8, LayoutGrows
<1>10. Hold(V, Append(t, chunk))
  BY <1>3, <1>7, <1>9 DEF Hold
<1>. QED BY <1>5, <1>10 DEF V, new

\* A chunk that follows the last one goes into its window.
LEMMA MergeContinues ==
    ASSUME NEW W, NEW t, AreWindows(W), Hold(W, t), NEW chunk \in Chunk, Len(W) > 0,
           Len(W[Len(W)]) < MaxWindow, Adjacent(W[Len(W)][Len(W[Len(W)])], chunk)
    PROVE  /\ AreWindows([W EXCEPT ![Len(W)] = Append(@, chunk)])
           /\ Hold([W EXCEPT ![Len(W)] = Append(@, chunk)], Append(t, chunk))
<1> DEFINE L == Len(W)
           last == W[L]
           new == Append(last, chunk)
           V == [W EXCEPT ![L] = new]
           u == Append(t, chunk)
<1>1. /\ W \in Seq(Window) /\ L \in Nat /\ L > 0 /\ L \in 1 .. L
      /\ \A i \in 1 .. L : W[i] \in Window /\ W[i] \in Seq(Chunk) /\ Len(W[i]) \in Nat \ {0}
  <2>1. L \in Nat /\ L > 0
    BY WindowsAreLists DEF AreWindows
  <2>2. L \in 1 .. L
    <3> HIDE DEF L
    <3>. QED BY <2>1
  <2>. QED BY <2>1, <2>2, WindowsAreLists DEF AreWindows
<1>2. /\ new \in Seq(Chunk) /\ new # <<>> /\ Len(new) = Len(last) + 1 /\ new[Len(last) + 1] = chunk
      /\ \A m \in 1 .. Len(last) : new[m] = last[m]
  BY <1>1, AppendProperties
<1>3. V = [W EXCEPT ![Len(W)] = Append(@, chunk)]
  BY <1>1
<1>4. new \in Window
  BY <1>2 DEF Window
<1> HIDE DEF new
<1>5. V \in Seq(Window) /\ Len(V) = L /\ V[L] = new /\ \A i \in 1 .. L : i # L => V[i] = W[i]
  BY <1>1, <1>4, ExceptSeq
<1> HIDE DEF V
<1>6. AreWindows(V)
  <2>1. ASSUME NEW w \in 1 .. L
        PROVE  Len(V[w]) \in 1 .. MaxWindow /\ \A m \in 1 .. Len(V[w]) - 1 : Adjacent(V[w][m], V[w][m + 1])
    <3>1. CASE w = L
      <4> DEFINE l == Len(last)
      <4>1. l \in Nat /\ l < MaxWindow /\ MaxWindow \in Nat /\ Len(new) = l + 1
        BY <1>1, <1>2, AssemblyAssumption
      <4>2. \A m \in 1 .. l - 1 : Adjacent(last[m], last[m + 1])
        BY <1>1 DEF AreWindows
      <4>3. Adjacent(last[l], chunk)
        OBVIOUS
      <4>4. l > 0
        BY <1>1
      <4> HIDE DEF l
      <4>5. ASSUME NEW m \in 1 .. Len(new) - 1 PROVE Adjacent(new[m], new[m + 1])
        <5>1. CASE m = l
          <6>1. new[m] = last[l] /\ new[m + 1] = chunk
            BY <1>2, <4>1, <4>4, <5>1 DEF l
          <6>. QED BY <4>3, <6>1
        <5>2. CASE m # l
          <6>1. m \in 1 .. l - 1 /\ m \in 1 .. l /\ m + 1 \in 1 .. l
            BY <4>1, <5>2
          <6>2. new[m] = last[m] /\ new[m + 1] = last[m + 1]
            BY <1>2, <6>1 DEF l
          <6>. QED BY <4>2, <6>1, <6>2
        <5>. QED BY <5>1, <5>2
      <4>6. Len(new) \in 1 .. MaxWindow
        BY <4>1
      <4>. QED BY <1>5, <3>1, <4>5, <4>6
    <3>2. CASE w # L
      BY <1>5, <3>2 DEF AreWindows
    <3>. QED BY <3>1, <3>2
  <2>. QED BY <1>5, <2>1 DEF AreWindows
<1>7. PICK at : Layout(W, L, t, at)
  BY DEF Hold
<1>8. t \in Seq(Chunk) /\ Len(t) \in Nat
  BY LenProperties DEF Hold
<1>9. u \in Seq(Chunk) /\ Len(u) = Len(t) + 1 /\ u[Len(t) + 1] = chunk /\ \A k \in 1 .. Len(t) : u[k] = t[k]
  BY <1>8, AppendProperties
<1> HIDE DEF u
<1>10. /\ at \in [1 .. L + 1 -> Nat] /\ at[1] = 0 /\ at[L + 1] = Len(t)
       /\ \A i \in 1 .. L : at[i + 1] = at[i] + Len(W[i])
       /\ \A i \in 1 .. L : \A m \in 1 .. Len(W[i]) : t[at[i] + m] = W[i][m]
       /\ \A k \in 1 .. Len(t) : \E i \in 1 .. L : \E m \in 1 .. Len(W[i]) : k = at[i] + m
       /\ \A i \in 1 .. L : \A j \in 1 .. L + 1 : i < j => at[i] + Len(W[i]) <= at[j]
  BY <1>7 DEF Layout
<1> DEFINE b == [i \in 1 .. L + 1 |-> IF i = L + 1 THEN Len(u) ELSE at[i]]
<1>11. /\ b \in [1 .. L + 1 -> Nat] /\ b[1] = 0 /\ b[L + 1] = Len(u)
       /\ \A i \in 1 .. L : b[i] = at[i] /\ at[i] \in Nat /\ i + 1 \in 1 .. L + 1 /\ i \in 1 .. L + 1
       /\ \A i \in 1 .. L : i # L => i + 1 \in 1 .. L
  BY <1>1, <1>8, <1>9, <1>10
<1> HIDE DEF b
<1> DEFINE l == Len(last)
           p == at[L]
<1>12. l \in Nat /\ p \in Nat /\ p + l = Len(t) /\ Len(V[L]) = l + 1 /\ b[L] = p
  BY <1>1, <1>2, <1>5, <1>10, <1>11
<1> HIDE DEF l, p, L
<1>13. ASSUME NEW i \in 1 .. L PROVE b[i + 1] = b[i] + Len(V[i])
  <2>1. CASE i = L
    <3>1. b[L + 1] = b[L] + Len(V[L])
      BY <1>9, <1>11, <1>12
    <3>. QED BY <2>1, <3>1
  <2>2. CASE i # L
    BY <1>5, <1>10, <1>11, <2>2
  <2>. QED BY <2>1, <2>2
<1>14. ASSUME NEW i \in 1 .. L, NEW m \in 1 .. Len(V[i]) PROVE u[b[i] + m] = V[i][m]
  <2>1. CASE i = L /\ m = l + 1
    <3>1. b[i] + m = Len(t) + 1
      <4>1. b[L] + (l + 1) = Len(t) + 1
        <5> DEFINE x == Len(t)
        <5>1. x \in Nat /\ p \in Nat /\ l \in Nat /\ p + l = x
          BY <1>8, <1>12
        <5> HIDE DEF x
        <5>2. p + (l + 1) = x + 1
          BY <5>1
        <5>. QED BY <1>12, <5>2 DEF x
      <4>. QED BY <2>1, <4>1
    <3>2. V[i][m] = chunk
      BY <1>2, <1>5, <2>1 DEF l
    <3>. QED BY <1>9, <3>1, <3>2
  <2>2. CASE ~(i = L /\ m = l + 1)
    <3>1. m \in 1 .. Len(W[i]) /\ V[i][m] = W[i][m]
      <4>1. CASE i = L
        <5>1. m \in 1 .. l
          BY <1>12, <2>2, <4>1
        <5>. QED BY <1>2, <1>5, <4>1, <5>1 DEF l
      <4>2. CASE i # L
        BY <1>5, <4>2
      <4>. QED BY <4>1, <4>2
    <3>2. at[i] + m \in 1 .. Len(t)
      <4> DEFINE x == at[i]
                 y == Len(W[i])
      <4>1. x \in Nat /\ y \in Nat /\ x + y <= Len(t) /\ m \in 1 .. y
        <5>1. L + 1 \in 1 .. L + 1 /\ i < L + 1
          BY <1>1
        <5>. QED BY <1>1, <1>10, <1>11, <3>1, <5>1
      <4> HIDE DEF x, y
      <4>2. x + m \in 1 .. Len(t)
        BY <1>8, <4>1
      <4>. QED BY <4>2 DEF x
    <3>3. u[at[i] + m] = t[at[i] + m]
      BY <1>9, <3>2
    <3>4. t[at[i] + m] = W[i][m]
      BY <1>10, <3>1
    <3>. QED BY <1>11, <3>1, <3>3, <3>4
  <2>. QED BY <2>1, <2>2
<1>15. ASSUME NEW k \in 1 .. Len(u) PROVE \E i \in 1 .. L : \E m \in 1 .. Len(V[i]) : k = b[i] + m
  <2>1. CASE k = Len(t) + 1
    <3>1. l + 1 \in 1 .. Len(V[L])
      BY <1>12
    <3>2. k = b[L] + (l + 1)
      <4> DEFINE x == Len(t)
      <4>1. x \in Nat /\ p \in Nat /\ l \in Nat /\ p + l = x
        BY <1>8, <1>12
      <4> HIDE DEF x
      <4>2. p + (l + 1) = x + 1
        BY <4>1
      <4>. QED BY <1>12, <2>1, <4>2 DEF x
    <3>. QED BY <1>1, <3>1, <3>2
  <2>2. CASE k # Len(t) + 1
    <3>1. k \in 1 .. Len(t)
      BY <1>8, <1>9, <2>2
    <3>2. PICK i \in 1 .. L : \E m \in 1 .. Len(W[i]) : k = at[i] + m
      BY <1>10, <3>1
    <3>3. PICK m \in 1 .. Len(W[i]) : k = at[i] + m
      BY <3>2
    <3>4. m \in 1 .. Len(V[i])
      <4>1. CASE i = L
        <5>1. m \in 1 .. l
          BY <4>1 DEF l
        <5>2. Len(V[i]) = l + 1
          BY <1>12, <4>1
        <5>. QED BY <1>12, <5>1, <5>2
      <4>2. CASE i # L
        BY <1>5, <4>2
      <4>. QED BY <4>1, <4>2
    <3>. QED BY <1>11, <3>3, <3>4
  <2>. QED BY <2>1, <2>2
<1>16. ASSUME NEW i \in 1 .. L, NEW j \in 1 .. L + 1, i < j PROVE b[i] + Len(V[i]) <= b[j]
  <2>1. CASE j = L + 1
    <3>1. CASE i = L
      BY <1>9, <1>11, <1>12, <2>1, <3>1
    <3>2. CASE i # L
      <4>1. at[i] + Len(W[i]) <= at[j]
        BY <1>10, <1>16
      <4> DEFINE x == at[i]
                 y == Len(W[i])
      <4>2. x \in Nat /\ y \in Nat /\ x + y <= Len(t) /\ b[i] = x /\ Len(V[i]) = y /\ b[j] = Len(t) + 1
        BY <1>1, <1>5, <1>9, <1>10, <1>11, <2>1, <3>2, <4>1
      <4> HIDE DEF x, y
      <4>. QED BY <1>8, <4>2
    <3>. QED BY <3>1, <3>2
  <2>2. CASE j # L + 1
    <3>1. i # L /\ j \in 1 .. L
      BY <1>1, <1>16, <2>2
    <3>2. at[i] + Len(W[i]) <= at[j]
      BY <1>10, <1>16
    <3>. QED BY <1>5, <1>11, <3>1, <3>2
  <2>. QED BY <2>1, <2>2
<1>17. Layout(V, L, u, b)
  BY <1>11, <1>13, <1>14, <1>15, <1>16 DEF Layout
<1>18. Hold(V, u)
  BY <1>5, <1>9, <1>17 DEF Hold
<1>. QED BY <1>3, <1>6, <1>18 DEF u

\* Merge gives windows.
LEMMA MergeType ==
    ASSUME NEW W \in Seq(Window), NEW chunk \in Chunk
    PROVE  Merge(W, chunk) \in Seq(Window)
<1>1. <<chunk>> \in Window
  <2>1. <<chunk>> = Append(<<>>, chunk) /\ <<>> \in Seq(Chunk)
    BY EmptySeq
  <2>2. <<chunk>> \in Seq(Chunk) /\ <<chunk>> # <<>>
    BY <2>1, AppendProperties
  <2>. QED BY <2>2 DEF Window
<1>2. Append(W, <<chunk>>) \in Seq(Window)
  BY <1>1, AppendProperties
<1>3. CASE W # <<>>
  <2> DEFINE L == Len(W)
             new == Append(W[L], chunk)
  <2>1. L \in 1 .. L
    <3>1. L \in Nat \ {0}
      BY <1>3, EmptySeq
    <3> HIDE DEF L
    <3>. QED BY <3>1
  <2>2. W[L] \in Seq(Chunk)
    BY <2>1, WindowsAreLists
  <2>3. new \in Window
    BY <2>2, AppendProperties DEF Window
  <2>4. [W EXCEPT ![L] = new] \in Seq(Window)
    <3> HIDE DEF new
    <3>. QED BY <2>1, <2>3, ExceptSeq
  <2>. QED BY <1>2, <2>4 DEF Merge
<1>4. CASE W = <<>>
  BY <1>2, <1>4 DEF Merge
<1>. QED BY <1>3, <1>4

\* Merge adds one chunk to what the windows hold.
LEMMA MergeKeeps ==
    ASSUME NEW W, NEW t, AreWindows(W), Hold(W, t), NEW chunk \in Chunk
    PROVE  AreWindows(Merge(W, chunk)) /\ Hold(Merge(W, chunk), Append(t, chunk))
<1> DEFINE last == W[Len(W)]
<1>1. CASE W # <<>> /\ Len(last) < MaxWindow /\ Adjacent(last[Len(last)], chunk)
  <2>1. Len(W) > 0
    <3>1. Len(W) \in Nat \ {0}
      BY <1>1, EmptySeq DEF AreWindows
    <3>. QED BY <3>1
  <2>2. Merge(W, chunk) = [W EXCEPT ![Len(W)] = Append(@, chunk)]
    BY <1>1 DEF Merge
  <2>. QED BY <1>1, <2>1, <2>2, MergeContinues
<1>2. CASE ~(W # <<>> /\ Len(last) < MaxWindow /\ Adjacent(last[Len(last)], chunk))
  <2>1. Merge(W, chunk) = Append(W, <<chunk>>)
    BY <1>2 DEF Merge
  <2>. QED BY <2>1, MergeStarts
<1>. QED BY <1>1, <1>2

\* The windows of a document hold its chunks.
LEMMA WindowsHold ==
    ASSUME NEW chunks \in Seq(Chunk)
    PROVE  AreWindows(Windows(chunks)) /\ Hold(Windows(chunks), SortChunks(chunks))
<1> DEFINE S == SortChunks(chunks)
           X == Seq(Window)
           step == [windows \in X |-> [chunk \in Chunk |-> Merge(windows, chunk)]]
           base == <<>>
<1>1. S \in Seq(Chunk) /\ Len(S) \in Nat /\ \A i \in 1 .. Len(S) : S[i] \in Chunk
  BY ChunksAreSorted, ElementOfSeq, LenProperties
<1>2. Windows(chunks) = Fold(step, base, S)
  BY DEF Windows
<1> HIDE DEF S
<1>3. step \in [X -> [Chunk -> X]] /\ base \in X
  BY MergeType, EmptySeq
<1>4. PICK after \in [0 .. Len(S) -> X] : FoldsTo(step, base, S, after)
  <2> HIDE DEF step, base, X
  <2>1. \E after \in [0 .. Len(S) -> X] : FoldsTo(step, base, S, after)
    BY <1>1, <1>3, FoldGoesThrough
  <2>. QED BY <2>1
<1>5. after[0] = <<>> /\ \A n \in 1 .. Len(S) : after[n] = Merge(after[n - 1], S[n])
  <2>1. \A W \in X, chunk \in Chunk : step[W][chunk] = Merge(W, chunk)
    OBVIOUS
  <2>2. \A n \in 1 .. Len(S) : n - 1 \in 0 .. Len(S)
    BY <1>1
  <2> HIDE DEF step
  <2>. QED BY <1>1, <1>4, <2>1, <2>2 DEF Through, FoldsTo
<1> DEFINE T == {n \in 0 .. Len(S) : AreWindows(after[n]) /\ Hold(after[n], SubSeq(S, 1, n))}
<1>6. 0 \in T
  <2>1. SubSeq(S, 1, 0) = <<>> /\ <<>> \in Seq(Chunk) /\ <<>> \in Seq(Window) /\ Len(<<>>) = 0
    BY EmptySeq, SubSeqEmpty
  <2>2. AreWindows(<<>>)
    BY <2>1 DEF AreWindows
  <2> DEFINE at == [i \in 1 .. 1 |-> 0]
  <2>3. Layout(<<>>, 0, <<>>, at)
    BY <2>1 DEF Layout
  <2> HIDE DEF at
  <2>4. Hold(<<>>, <<>>)
    BY <2>1, <2>3 DEF Hold
  <2>5. 0 \in 0 .. Len(S)
    BY <1>1
  <2>. QED BY <1>5, <2>1, <2>2, <2>4, <2>5
<1>7. ASSUME NEW n \in 1 .. Len(S), n - 1 \in T PROVE n \in T
  <2> DEFINE t == SubSeq(S, 1, n - 1)
  <2>1. n \in 0 .. Len(S) /\ 1 \in 1 .. Len(S) /\ n \in 1 .. Len(S) /\ n - 1 \in 0 .. Len(S)
    BY <1>1
  <2>2. AreWindows(after[n - 1]) /\ Hold(after[n - 1], t)
    BY <1>7
  <2>3. SubSeq(S, 1, n) = Append(t, S[n])
    <3>1. SubSeq(S, 1, n) = t \o <<S[n]>>
      BY <1>1, <2>1, SubSeqRecursiveSecond
    <3>2. t \in Seq(Chunk)
      BY <2>2 DEF Hold
    <3> HIDE DEF t
    <3>. QED BY <1>1, <3>1, <3>2, AppendIsConcat
  <2> HIDE DEF t
  <2>4. AreWindows(Merge(after[n - 1], S[n])) /\ Hold(Merge(after[n - 1], S[n]), Append(t, S[n]))
    BY <1>1, <2>2, MergeKeeps
  <2>. QED BY <1>5, <2>1, <2>3, <2>4
<1>8. Len(S) \in T
  <2>1. Len(S) \in 0 .. Len(S)
    BY <1>1
  <2> HIDE DEF T
  <2>. QED BY <1>1, <1>6, <1>7, <2>1, UpTo
<1>9. SubSeq(S, 1, Len(S)) = S
  BY <1>1, SubSeqFull
<1>. QED BY <1>2, <1>4, <1>8, <1>9 DEF S, FoldsTo

-----------------------------------------------------------------------------
(* Assembly: the text of a document *)

\* Products.
LEMMA ProductOfNats ==
    ASSUME NEW a \in Nat, NEW b \in Nat
    PROVE  a * b \in Nat /\ (a + 1) * b = a * b + b
OBVIOUS

\* The length of a window is a number.
LEMMA LengthType ==
    ASSUME NEW w \in Window
    PROVE  Length(w) \in Nat
<1> DEFINE X == Nat
           step == [sum \in X |-> [chunk \in Chunk |-> sum + chunk.length]]
           base == 0
<1>1. w \in Seq(Chunk) /\ Len(w) \in Nat \ {0} /\ Separator \in Nat
  BY EmptySeq, AssemblyAssumption DEF Window
<1>2. step \in [X -> [Chunk -> X]] /\ base \in X
  BY DEF Chunk
<1>3. Fold(step, base, w) \in X
  <2> HIDE DEF step, base, X
  <2>1. PICK after \in [0 .. Len(w) -> X] : FoldsTo(step, base, w, after)
    BY <1>1, <1>2, FoldGoesThrough
  <2>2. Len(w) \in 0 .. Len(w)
    BY <1>1
  <2>. QED BY <2>1, <2>2 DEF FoldsTo
<1>4. (Len(w) - 1) * Separator \in Nat
  <2> DEFINE a == Len(w) - 1
  <2>1. a \in Nat
    BY <1>1
  <2> HIDE DEF a
  <2>2. a * Separator \in Nat
    BY <1>1, <2>1, ProductOfNats
  <2>. QED BY <2>2 DEF a
<1>5. Length(w) = Fold(step, base, w) + (Len(w) - 1) * Separator
  BY DEF Length
<1> HIDE DEF step, base
<1>. QED BY <1>3, <1>4, <1>5

\* What a text may be limited to.
Budgets == (Nat \ {0}) \cup {Unlimited}

\* AddWindow gives a text.
LEMMA AddWindowType ==
    ASSUME NEW budget \in Budgets, NEW text \in PartialTexts, NEW w \in Window
    PROVE  AddWindow(text, w, budget) \in PartialTexts
<1> DEFINE start == IF text.length = 0 THEN 0 ELSE text.length + Separator
           n == start + Length(w)
           added == Append(text.windows, w)
<1>1. text.length \in Nat /\ text.windows \in Seq(Window) /\ text.truncated \in BOOLEAN /\ Separator \in Nat
  BY AssemblyAssumption DEF PartialTexts
<1>2. start \in Nat
  BY <1>1
<1> HIDE DEF start
<1>3. n \in Nat
  BY <1>2, LengthType
<1>4. added \in Seq(Window)
  BY <1>1, AppendProperties
<1>5. AddWindow(text, w, budget) =
        IF text.truncated THEN text
        ELSE IF Within(n, budget) THEN [text EXCEPT !.length = n, !.windows = added]
        ELSE IF start >= budget THEN [text EXCEPT !.truncated = TRUE]
        ELSE [length |-> budget, windows |-> added, truncated |-> TRUE]
  BY DEF AddWindow, start
<1> HIDE DEF n, added
<1>6. ~Within(n, budget) => budget \in Nat
  BY DEF Within, Budgets
<1>7. [text EXCEPT !.length = n, !.windows = added] \in PartialTexts
  BY <1>3, <1>4 DEF PartialTexts
<1>8. [text EXCEPT !.truncated = TRUE] \in PartialTexts
  BY DEF PartialTexts
<1>9. budget \in Nat => [length |-> budget, windows |-> added, truncated |-> TRUE] \in PartialTexts
  BY <1>4 DEF PartialTexts
<1>. QED BY <1>5, <1>6, <1>7, <1>8, <1>9

\* The text has the first windows of W, from the first k, and all of these if nothing is cut.
TextOf(W, k, budget, text) ==
  /\ text \in PartialTexts /\ Within(text.length, budget)
  /\ Len(text.windows) <= k /\ \A i \in 1 .. Len(text.windows) : text.windows[i] = W[i]
  /\ ~text.truncated => Len(text.windows) = k

\* One round of FitText: the text stays within its budget, and nothing follows a cut.
LEMMA AddWindowFits ==
    ASSUME NEW budget \in Budgets, NEW W \in Seq(Window), NEW k \in 1 .. Len(W), NEW text,
           TextOf(W, k - 1, budget, text)
    PROVE  TextOf(W, k, budget, AddWindow(text, W[k], budget))
<1> DEFINE start == IF text.length = 0 THEN 0 ELSE text.length + Separator
           n == start + Length(W[k])
           added == Append(text.windows, W[k])
           next2 == AddWindow(text, W[k], budget)
<1>1. text \in PartialTexts /\ W[k] \in Window /\ k \in Nat
  BY ElementOfSeq DEF TextOf
<1>2. next2 \in PartialTexts
  BY <1>1, AddWindowType
<1>3. text.length \in Nat /\ text.windows \in Seq(Window) /\ Len(text.windows) \in Nat
      /\ text.truncated \in BOOLEAN
  BY <1>1, LenProperties DEF PartialTexts
<1>4. /\ Len(added) = Len(text.windows) + 1 /\ added[Len(text.windows) + 1] = W[k]
      /\ \A i \in 1 .. Len(text.windows) : added[i] = text.windows[i]
  BY <1>1, <1>3, AppendProperties
<1>5. next2 =
        IF text.truncated THEN text
        ELSE IF Within(n, budget) THEN [text EXCEPT !.length = n, !.windows = added]
        ELSE IF start >= budget THEN [text EXCEPT !.truncated = TRUE]
        ELSE [length |-> budget, windows |-> added, truncated |-> TRUE]
  BY DEF AddWindow
<1> HIDE DEF n, added, next2, start
<1>6. text.truncated \/ Len(text.windows) = k - 1
  BY DEF TextOf
<1>7. Len(text.windows) <= k - 1 /\ \A i \in 1 .. Len(text.windows) : text.windows[i] = W[i]
  BY DEF TextOf
<1>8. ASSUME Len(text.windows) = k - 1 PROVE Len(added) = k /\ \A i \in 1 .. Len(added) : added[i] = W[i]
  <2>1. Len(added) = k
    BY <1>1, <1>4, <1>8
  <2>2. \A i \in 1 .. Len(added) : i = k \/ i \in 1 .. Len(text.windows)
    BY <1>1, <1>8, <2>1
  <2>3. added[k] = W[k]
    BY <1>1, <1>4, <1>8
  <2>. QED BY <1>4, <1>7, <2>1, <2>2, <2>3
<1>9. CASE text.truncated
  <2>1. Len(text.windows) <= k
    BY <1>1, <1>3, <1>7
  <2>. QED BY <1>5, <1>7, <1>9, <2>1 DEF TextOf, next2
<1>10. CASE ~text.truncated /\ Within(n, budget)
  <2>1. next2 = [text EXCEPT !.length = n, !.windows = added]
    BY <1>5, <1>10
  <2>2. next2.length = n /\ next2.windows = added
    BY <1>1, <2>1 DEF PartialTexts
  <2>. QED BY <1>1, <1>2, <1>6, <1>8, <1>10, <2>2 DEF TextOf, next2
<1>11. CASE ~text.truncated /\ ~Within(n, budget) /\ start >= budget
  <2>1. next2 = [text EXCEPT !.truncated = TRUE]
    BY <1>5, <1>11
  <2>2. next2.length = text.length /\ next2.windows = text.windows /\ next2.truncated = TRUE
    BY <1>1, <2>1 DEF PartialTexts
  <2>3. Len(text.windows) <= k
    BY <1>1, <1>3, <1>7
  <2>. QED BY <1>2, <1>7, <2>2, <2>3 DEF TextOf, next2
<1>12. CASE ~text.truncated /\ ~Within(n, budget) /\ ~(start >= budget)
  <2>1. next2 = [length |-> budget, windows |-> added, truncated |-> TRUE]
    BY <1>5, <1>12
  <2>2. next2.length = budget /\ next2.windows = added /\ next2.truncated = TRUE
    BY <2>1
  <2>3. budget \in Nat
    BY <1>12 DEF Within, Budgets
  <2>4. Within(budget, budget)
    BY <2>3 DEF Within
  <2>. QED BY <1>1, <1>2, <1>6, <1>8, <1>12, <2>2, <2>4 DEF TextOf, next2
<1>. QED BY <1>9, <1>10, <1>11, <1>12

\* FitText gives such a text of all windows.
LEMMA TextFits ==
    ASSUME NEW budget \in Budgets, NEW W \in Seq(Window)
    PROVE  TextOf(W, Len(W), budget, FitText(W, budget))
<1>1. HeaderLength \in Nat /\ Len(W) \in Nat /\ <<>> \in Seq(Window) /\ Len(<<>>) = 0
  BY AssemblyAssumption, LenProperties, EmptySeq
<1>2. CASE HeaderLength > 0 /\ budget # Unlimited /\ HeaderLength >= budget
  <2> DEFINE text == [Text(budget) EXCEPT !.truncated = TRUE]
  <2>1. FitText(W, budget) = text
    BY <1>2 DEF FitText
  <2>2. budget \in Nat
    BY <1>2 DEF Budgets
  <2>3. Text(budget) \in PartialTexts /\ Text(budget).length = budget /\ Text(budget).windows = <<>>
    BY <1>1, <2>2 DEF Text, PartialTexts
  <2>4. text \in PartialTexts /\ text.length = budget /\ text.windows = <<>> /\ text.truncated = TRUE
    BY <2>3 DEF PartialTexts
  <2> HIDE DEF text
  <2>. QED BY <1>1, <2>1, <2>2, <2>4 DEF TextOf, Within
<1>3. CASE ~(HeaderLength > 0 /\ budget # Unlimited /\ HeaderLength >= budget)
  <2> DEFINE X == PartialTexts
             step == [text \in X |-> [window \in Window |-> AddWindow(text, window, budget)]]
             base == Text(HeaderLength)
  <2>1. FitText(W, budget) = Fold(step, base, W)
    BY <1>3 DEF FitText
  <2>2. /\ base \in X /\ base.length = HeaderLength /\ base.windows = <<>> /\ base.truncated = FALSE
        /\ step \in [X -> [Window -> X]]
    BY <1>1, AddWindowType DEF Text, PartialTexts
  <2>3. PICK after \in [0 .. Len(W) -> X] : FoldsTo(step, base, W, after)
    <3> HIDE DEF step, base, X
    <3>1. \E after \in [0 .. Len(W) -> X] : FoldsTo(step, base, W, after)
      BY <2>2, FoldGoesThrough
    <3>. QED BY <3>1
  <2>4. \A n \in 1 .. Len(W) : W[n] \in Window
    BY ElementOfSeq
  <2>5. after[0] = base /\ \A n \in 1 .. Len(W) : after[n] = AddWindow(after[n - 1], W[n], budget)
    <3>1. \A text \in X, w \in Window : step[text][w] = AddWindow(text, w, budget)
      OBVIOUS
    <3>2. \A n \in 1 .. Len(W) : n - 1 \in 0 .. Len(W)
      BY <1>1
    <3> HIDE DEF step, X, base
    <3>. QED BY <2>3, <2>4, <3>1, <3>2 DEF Through, FoldsTo
  <2> DEFINE T == {n \in 0 .. Len(W) : TextOf(W, n, budget, after[n])}
  <2>6. 0 \in T
    <3>1. Within(HeaderLength, budget)
      BY <1>1, <1>3 DEF Within, Budgets
    <3> HIDE DEF base
    <3>2. TextOf(W, 0, budget, base)
      BY <1>1, <2>2, <3>1 DEF TextOf
    <3>3. 0 \in 0 .. Len(W)
      BY <1>1
    <3>. QED BY <2>5, <3>2, <3>3
  <2>7. ASSUME NEW n \in 1 .. Len(W), n - 1 \in T PROVE n \in T
    <3>1. TextOf(W, n - 1, budget, after[n - 1]) /\ n \in 0 .. Len(W)
      BY <1>1, <2>7
    <3>2. TextOf(W, n, budget, AddWindow(after[n - 1], W[n], budget))
      BY <3>1, AddWindowFits
    <3>. QED BY <2>5, <3>1, <3>2
  <2>8. Len(W) \in T
    <3>1. Len(W) \in 0 .. Len(W)
      BY <1>1
    <3> HIDE DEF T
    <3>. QED BY <1>1, <2>6, <2>7, <3>1, UpTo
  <2>. QED BY <2>1, <2>3, <2>8 DEF FoldsTo
<1>. QED BY <1>2, <1>3

\* The first of the sorted chunks have no chunk more often than the document does, and all
\* of them have each as often.
LEMMA TimesAgree ==
    ASSUME NEW chunks \in Seq(Chunk), NEW S \in Seq(Chunk), NEW q, ChunksFrom(chunks, S, q),
           NEW F \in Seq(Chunk), Len(F) <= Len(S), \A k \in 1 .. Len(F) : F[k] = S[k],
           NEW c, c.length > 0
    PROVE  /\ Times(c, F) <= Times(c, chunks)
           /\ Len(F) = Len(S) => Times(c, F) = Times(c, chunks)
<1> DEFINE A == {i \in DOMAIN F : F[i] = c}
           B == {m \in DOMAIN chunks : chunks[m] = c}
           f == [i \in A |-> q[i]]
<1>1. /\ Len(F) \in Nat /\ DOMAIN F = 1 .. Len(F) /\ Len(chunks) \in Nat /\ DOMAIN chunks = 1 .. Len(chunks)
      /\ Len(S) \in Nat
  BY LenProperties
<1>2. /\ \A i \in 1 .. Len(F) : i \in 1 .. Len(S)
      /\ \A i \in 1 .. Len(S) : q[i] \in 1 .. Len(chunks) /\ S[i] = chunks[q[i]]
      /\ \A i, j \in 1 .. Len(S) : q[i] = q[j] => i = j
      /\ \A m \in 1 .. Len(chunks) : chunks[m].length > 0 => \E i \in 1 .. Len(S) : q[i] = m
  <2>1. \A i \in 1 .. Len(F) : i \in 1 .. Len(S)
    BY <1>1
  <2>. QED BY <2>1 DEF ChunksFrom
<1>3. \A i \in A : q[i] \in B
  BY <1>1, <1>2
<1>4. \A i, j \in A : q[i] = q[j] => i = j
  BY <1>1, <1>2
<1>5. f \in Injection(A, B)
  <2>1. f \in [A -> B] /\ \A i, j \in A : f[i] = f[j] => i = j
    BY <1>3, <1>4
  <2>2. DOMAIN f = A
    OBVIOUS
  <2> HIDE DEF f, A, B
  <2>. QED BY <2>1, <2>2 DEF Injection, IsInjective
<1>6. IsFiniteSet(B)
  <2>1. B \in SUBSET (1 .. Len(chunks)) /\ IsFiniteSet(1 .. Len(chunks))
    BY <1>1, FS_Interval
  <2> HIDE DEF B
  <2>. QED BY <2>1, FS_Subset
<1>7. Len(F) = Len(S) => f \in Surjection(A, B)
  <2>1. ASSUME Len(F) = Len(S), NEW m \in B PROVE \E i \in A : f[i] = m
    <3>1. m \in 1 .. Len(chunks) /\ chunks[m] = c
      BY <1>1
    <3>2. PICK i \in 1 .. Len(S) : q[i] = m
      BY <1>2, <3>1
    <3>3. i \in A
      BY <1>1, <1>2, <2>1, <3>1, <3>2
    <3>. QED BY <3>2, <3>3
  <2>2. f \in [A -> B]
    BY <1>3
  <2> HIDE DEF f, A, B
  <2>. QED BY <2>1, <2>2 DEF Surjection
<1>8. Times(c, F) = Cardinality(A) /\ Times(c, chunks) = Cardinality(B)
  BY DEF Times
<1> HIDE DEF A, B, f
<1>. QED BY <1>5, <1>6, <1>7, <1>8, FS_Injection

\* The text of a document keeps its chunks.
LEMMA TextKeeps ==
    ASSUME NEW chunks \in Seq(Chunk), NEW budget \in Budgets
    PROVE  Keeps(FitText(Windows(chunks), budget), chunks)
<1> DEFINE W == Windows(chunks)
           S == SortChunks(chunks)
           text == FitText(W, budget)
           w == text.windows
           F == FlattenSeq(w)
           all == {chunk \in ToSet(chunks) : chunk.length > 0}
<1>1. AreWindows(W) /\ Hold(W, S) /\ S \in Seq(Chunk) /\ Ascending(S) /\ \E q : ChunksFrom(chunks, S, q)
  BY WindowsHold, ChunksAreSorted
<1> HIDE DEF W, S
<1>2. TextOf(W, Len(W), budget, text)
  BY <1>1, TextFits DEF AreWindows
<1> HIDE DEF text
<1>3. /\ w \in Seq(Window) /\ Len(w) <= Len(W) /\ \A i \in 1 .. Len(w) : w[i] = W[i]
      /\ ~text.truncated => Len(w) = Len(W)
  BY <1>2 DEF TextOf, PartialTexts
<1> HIDE DEF w
<1>4. w \in Seq(Seq(Chunk)) /\ W \in Seq(Seq(Chunk)) /\ DOMAIN w = 1 .. Len(w)
  BY <1>1, <1>3, WindowsAreLists DEF AreWindows
<1>5. F \in Seq(Chunk) /\ \E a : Layout(w, Len(w), F, a)
  BY <1>4, Flattens
<1> HIDE DEF F
<1>6. PICK a : Layout(w, Len(w), F, a)
  BY <1>5
<1>7. PICK b : Layout(W, Len(W), S, b)
  BY <1>1 DEF Hold
<1>8. /\ Len(F) <= Len(S) /\ \A k \in 1 .. Len(F) : F[k] = S[k]
      /\ Len(w) = Len(W) => Len(F) = Len(S)
  <2>1. /\ w \in Seq(Seq(Chunk)) /\ W \in Seq(Seq(Chunk)) /\ F \in Seq(Chunk) /\ S \in Seq(Chunk)
    BY <1>1, <1>4, <1>5
  <2>2. Starts(w, W)
    BY <1>3 DEF Starts
  <2>3. Starts(F, S) /\ (Len(w) = Len(W) => Len(F) = Len(S))
    BY <1>6, <1>7, <2>1, <2>2, LayoutsAgree
  <2>. QED BY <2>3 DEF Starts
<1>9. PICK q : ChunksFrom(chunks, S, q)
  BY <1>1
<1>10. /\ Len(F) \in Nat /\ Len(S) \in Nat /\ DOMAIN F = 1 .. Len(F) /\ DOMAIN chunks = 1 .. Len(chunks)
       /\ \A i \in 1 .. Len(F) : i \in 1 .. Len(S)
       /\ \A i \in 1 .. Len(S) : S[i] \in Chunk
  <2>1. /\ Len(F) \in Nat /\ Len(S) \in Nat /\ DOMAIN F = 1 .. Len(F) /\ DOMAIN chunks = 1 .. Len(chunks)
    BY <1>1, <1>5, LenProperties
  <2>2. \A i \in 1 .. Len(F) : i \in 1 .. Len(S)
    BY <1>8, <2>1
  <2>. QED BY <1>1, <2>1, <2>2, ElementOfSeq
<1>11. \A chunk \in Chunk : Order(chunk) \in Int
  BY DEF Chunk, Order
<1>12. \A i \in 1 .. Len(S) : q[i] \in 1 .. Len(chunks) /\ S[i] = chunks[q[i]] /\ S[i].length > 0
  BY <1>9 DEF ChunksFrom
<1>13. ToSet(F) \subseteq all
  <2>1. ASSUME NEW c \in ToSet(F) PROVE c \in all
    <3>1. PICK i \in 1 .. Len(F) : c = F[i]
      BY <1>10, <2>1 DEF ToSet
    <3>2. c = chunks[q[i]] /\ q[i] \in 1 .. Len(chunks) /\ c.length > 0
      BY <1>8, <1>10, <1>12, <3>1
    <3>. QED BY <1>10, <3>2 DEF ToSet
  <2>. QED BY <2>1
<1>14. ASSUME NEW c \in all
       PROVE  /\ Times(c, F) <= Times(c, chunks)
              /\ ~text.truncated => Times(c, F) = Times(c, chunks)
              /\ c \notin ToSet(F) /\ F # <<>> => Order(c) >= Order(F[Len(F)])
  <2>1. /\ Times(c, F) <= Times(c, chunks)
        /\ ~text.truncated => Times(c, F) = Times(c, chunks)
    BY <1>1, <1>3, <1>5, <1>8, <1>9, TimesAgree
  <2>2. ASSUME c \notin ToSet(F), F # <<>> PROVE Order(c) >= Order(F[Len(F)])
    <3>1. PICK m \in 1 .. Len(chunks) : c = chunks[m] /\ chunks[m].length > 0
      BY <1>10, <1>14 DEF ToSet
    <3>2. PICK i \in 1 .. Len(S) : q[i] = m
      BY <1>9, <3>1 DEF ChunksFrom
    <3>3. S[i] = c
      BY <1>12, <3>1, <3>2
    <3>4. i \notin 1 .. Len(F)
      <4>1. ASSUME i \in 1 .. Len(F) PROVE FALSE
        <5>1. F[i] = c
          BY <1>8, <3>3, <4>1
        <5>. QED BY <1>10, <2>2, <4>1, <5>1 DEF ToSet
      <4>. QED BY <4>1
    <3>5. Len(F) > 0
      <4>1. Len(F) \in Nat \ {0}
        BY <1>5, <2>2, EmptySeq
      <4>. QED BY <4>1
    <3>6. Len(F) \in 1 .. Len(F) /\ Len(F) \in 1 .. Len(S) /\ Len(F) < i
      BY <1>8, <1>10, <3>4, <3>5
    <3>7. Order(S[Len(F)]) <= Order(S[i])
      BY <1>1, <3>6 DEF Ascending
    <3>8. Order(F[Len(F)]) <= Order(c)
      BY <1>8, <3>3, <3>6, <3>7
    <3>9. Order(F[Len(F)]) \in Int /\ Order(c) \in Int
      BY <1>8, <1>10, <1>11, <3>3, <3>6
    <3>. QED BY <3>8, <3>9
  <2>. QED BY <2>1, <2>2
<1>15. ASSUME NEW n \in 1 .. Len(F) - 1 PROVE Order(F[n]) <= Order(F[n + 1])
  <2>1. n \in 1 .. Len(F) /\ n + 1 \in 1 .. Len(F) /\ n < n + 1
    BY <1>10
  <2>2. n \in 1 .. Len(S) /\ n + 1 \in 1 .. Len(S)
    BY <1>10, <2>1
  <2>3. Order(S[n]) <= Order(S[n + 1])
    BY <1>1, <2>1, <2>2 DEF Ascending
  <2>. QED BY <1>8, <2>1, <2>3
<1>16. ASSUME NEW i \in 1 .. Len(w)
       PROVE  /\ Len(w[i]) \in 1 .. MaxWindow
              /\ \A n \in 1 .. Len(w[i]) - 1 : Adjacent(w[i][n], w[i][n + 1])
  <2>1. w[i] = W[i] /\ i \in 1 .. Len(W)
    <3>1. Len(w) \in Nat /\ Len(W) \in Nat
      BY <1>1, <1>3, WindowsAreLists DEF AreWindows
    <3>. QED BY <1>3, <3>1
  <2>. QED BY <1>1, <2>1 DEF AreWindows
<1>17. Keeps(text, chunks)
  <2> HIDE DEF all
  <2>1. F = FlattenSeq(text.windows) /\ w = text.windows
    BY DEF F, w
  <2>2. Keeps(text, chunks) <=>
          /\ ToSet(F) \subseteq all
          /\ \A chunk \in all :
               /\ Times(chunk, F) <= Times(chunk, chunks)
               /\ ~text.truncated => Times(chunk, F) = Times(chunk, chunks)
               /\ chunk \notin ToSet(F) /\ F # <<>> => Order(chunk) >= Order(F[Len(F)])
          /\ \A n \in 1 .. Len(F) - 1 : Order(F[n]) <= Order(F[n + 1])
          /\ \A i \in DOMAIN w :
               /\ Len(w[i]) \in 1 .. MaxWindow
               /\ \A n \in 1 .. Len(w[i]) - 1 : Adjacent(w[i][n], w[i][n + 1])
    BY DEF Keeps, F, w, all
  <2>. QED BY <1>4, <1>13, <1>14, <1>15, <1>16, <2>2
<1>. QED BY <1>17 DEF text, W

-----------------------------------------------------------------------------
(* Assembly: the loop *)

\* Its number changes nothing about that.
LEMMA NumberedKeeps ==
    ASSUME NEW text \in PartialTexts, NEW n \in Nat, NEW chunks, Keeps(text, chunks)
    PROVE  Numbered(text, n) \in NumberedTexts /\ Keeps(Numbered(text, n), chunks)
<1> DEFINE numbered == Numbered(text, n)
<1>1. numbered.windows = text.windows /\ numbered.truncated = text.truncated /\ numbered \in NumberedTexts
  BY DEF Numbered, NumberedTexts, PartialTexts
<1> HIDE DEF numbered
<1>2. Keeps(numbered, chunks)
  BY <1>1 DEF Keeps
<1>. QED BY <1>1, <1>2 DEF numbered

\* The length of a context of texts c.
SumOf(c) == Fold([sum \in Nat |-> [text \in NumberedTexts |-> sum + text.length]], 0, c)
TotalOf(c) == SumOf(c) + (IF c = <<>> THEN 0 ELSE (Len(c) - 1) * DocumentSeparator)

\* One more text adds its length, and a separator if it is not the first.
LEMMA TotalGrows ==
    ASSUME NEW c \in Seq(NumberedTexts), NEW text \in NumberedTexts
    PROVE  /\ TotalOf(c) \in Nat
           /\ TotalOf(Append(c, text)) =
                TotalOf(c) + (IF c = <<>> THEN 0 ELSE DocumentSeparator) + text.length
           /\ TotalOf(<<>>) = 0
<1> DEFINE X == Nat
           step == [sum \in X |-> [t \in NumberedTexts |-> sum + t.length]]
           base == 0
           d == Append(c, text)
<1>1. step \in [X -> [NumberedTexts -> X]] /\ base \in X /\ text.length \in Nat /\ DocumentSeparator \in Nat
  BY AssemblyAssumption DEF NumberedTexts
<1>2. \A sum \in X : step[sum][text] = sum + text.length
  OBVIOUS
<1>3. \A s : SumOf(s) = Fold(step, base, s)
  BY DEF SumOf
<1>4. SumOf(c) \in X /\ SumOf(d) = step[SumOf(c)][text] /\ SumOf(<<>>) = base
  <2> DEFINE E == NumberedTexts
  <2> HIDE DEF step, base, X, E
  <2>1. step \in [X -> [E -> X]] /\ base \in X /\ c \in Seq(E) /\ text \in E
    BY <1>1 DEF E
  <2>2a. Fold(step, base, c) \in X /\ Fold(step, base, Append(c, text)) = step[Fold(step, base, c)][text]
    <3>1. Extends(step, base, c, text, X)
      BY <2>1, FoldExtends
    <3>. QED BY <3>1 DEF Extends
  <2>2. Fold(step, base, <<>>) = base
    BY <1>1, FoldOfNothing
  <2>. QED BY <1>3, <2>2a, <2>2
<1>5. SumOf(c) \in Nat /\ SumOf(d) = SumOf(c) + text.length /\ SumOf(<<>>) = 0
  BY <1>2, <1>4
<1> HIDE DEF step
<1>6. /\ Len(c) \in Nat /\ Len(d) = Len(c) + 1 /\ d # <<>> /\ (c = <<>> => Len(c) = 0)
      /\ (c # <<>> => Len(c) \in Nat \ {0})
  BY AppendProperties, LenProperties, EmptySeq
<1> HIDE DEF d
<1> DEFINE n == Len(c)
           S == DocumentSeparator
<1>7. TotalOf(d) = SumOf(d) + n * S
  <2>1. (n + 1) - 1 = n
    BY <1>6
  <2>. QED BY <1>6, <2>1 DEF TotalOf
<1>8. TotalOf(<<>>) = 0
  BY <1>5 DEF TotalOf
<1>9. CASE c = <<>>
  <2>1. n * S = 0 /\ TotalOf(c) = 0
    <3>1. n = 0
      BY <1>6, <1>9
    <3>. QED BY <1>1, <1>8, <1>9, <3>1
  <2>2. SumOf(c) = 0
    BY <1>5, <1>9
  <2>3. TotalOf(d) = text.length
    <3> DEFINE total == TotalOf(d)
               sum   == SumOf(d)
               nS    == n * S
               length == text.length
    <3>1. total = sum + nS /\ sum = 0 + length /\ nS = 0 /\ length \in Nat
      BY <1>1, <1>5, <1>7, <2>1, <2>2
    <3> HIDE DEF total, sum, nS, length
    <3>2. total = length
      BY <3>1
    <3>. QED BY <3>2 DEF total, length
  <2>4. TotalOf(c) + (IF c = <<>> THEN 0 ELSE S) + text.length = text.length
    BY <1>1, <1>9, <2>1
  <2>. QED BY <1>8, <1>9, <2>1, <2>3, <2>4 DEF d, S
<1>10. CASE c # <<>>
  <2> DEFINE m == n - 1
             s == SumOf(c)
             p == m * S
  <2>1. m \in Nat /\ n = m + 1
    BY <1>6, <1>10
  <2>2. p \in Nat /\ n * S = p + S
    <3> HIDE DEF m, n, S
    <3>1. S \in Nat
      BY <1>1 DEF S
    <3>2. m * S \in Nat /\ (m + 1) * S = m * S + S
      BY <2>1, <3>1, ProductOfNats
    <3>. QED BY <2>1, <3>2
  <2>3. TotalOf(c) = s + p
    BY <1>10 DEF TotalOf
  <2>4. TotalOf(d) = (s + text.length) + (p + S)
    BY <1>5, <1>7, <2>2
  <2>5. s \in Nat /\ S \in Nat /\ text.length \in Nat
    BY <1>1, <1>5
  <2> HIDE DEF s, p, S
  <2>6. TotalOf(d) = TotalOf(c) + S + text.length /\ TotalOf(c) \in Nat
    BY <2>2, <2>3, <2>4, <2>5
  <2>. QED BY <1>8, <1>10, <2>6 DEF S, d
<1>. QED BY <1>9, <1>10

\* The length of the context is that.
LEMMA TotalLengthIs == TotalLength = TotalOf(context)
  BY DEF TotalLength, TotalOf, SumOf

\* What holds after every round: what is left of the total budget is what the context does
\* not use.
AssemblyInv ==
  /\ AssemblyTypeOK /\ ChunksAreKept
  /\ next <= MaxDocuments + 1 /\ Len(context) < next
  /\ \A i \in 1 .. Len(context) :
       context[i].number < next /\ Within(context[i].length, MaxDocument)
  /\ IF MaxTotal = Unlimited THEN remaining = Unlimited
     ELSE remaining \in Nat /\ remaining = MaxTotal - TotalOf(context)

\* What fits into the budget of the next document fits into all budgets.
LEMMA AvailableIsRoom ==
    ASSUME AssemblyInv, Round
    PROVE  /\ Available \in Budgets
           /\ \A n \in Nat : Within(n, Available) =>
                /\ Within(n, MaxDocument)
                /\ remaining # Unlimited => remaining - Before - n \in Nat
<1>1. /\ MaxDocument \in Budgets /\ MaxTotal \in Budgets /\ DocumentSeparator \in Nat /\ Unlimited \notin Int
  BY AssemblyAssumption DEF Budgets
<1>2. remaining = Unlimited \/ remaining \in Nat
  BY DEF AssemblyInv
<1>3. Before \in Nat
  BY <1>1 DEF Before
<1>4. Available # Unlimited => Available > 0
  BY DEF Round
<1>5. CASE remaining = Unlimited
  <2>1. Available = MaxDocument
    BY <1>5 DEF Available
  <2>. QED BY <1>1, <1>5, <2>1
<1>6. CASE remaining # Unlimited
  <2> DEFINE room == remaining - Before
  <2>1. room \in Int
    BY <1>2, <1>3, <1>6
  <2>2. Available = IF MaxDocument # Unlimited /\ MaxDocument < room THEN MaxDocument ELSE room
    BY <1>6 DEF Available
  <2> HIDE DEF room
  <2>3. CASE MaxDocument # Unlimited /\ MaxDocument < room
    <3>1. Available = MaxDocument /\ MaxDocument \in Nat \ {0}
      BY <1>1, <2>2, <2>3 DEF Budgets
    <3>2. \A n \in Nat : Within(n, Available) => Within(n, MaxDocument) /\ room - n \in Nat
      BY <2>1, <2>3, <3>1 DEF Within
    <3>. QED BY <1>1, <3>1, <3>2 DEF room
  <2>4. CASE ~(MaxDocument # Unlimited /\ MaxDocument < room)
    <3>1. Available = room /\ room \in Nat \ {0} /\ room # Unlimited
      BY <1>1, <1>4, <2>1, <2>2, <2>4
    <3>2. MaxDocument = Unlimited \/ (MaxDocument \in Nat /\ MaxDocument >= room)
      BY <1>1, <2>1, <2>4 DEF Budgets
    <3>3. ASSUME NEW n \in Nat, Within(n, Available) PROVE Within(n, MaxDocument) /\ room - n \in Nat
      BY <3>1, <3>2, <3>3 DEF Within
    <3>. QED BY <3>1, <3>3 DEF room, Budgets
  <2>. QED BY <2>3, <2>4
<1>. QED BY <1>5, <1>6

\* The step that adds a document.
LEMMA DocumentIsAdded ==
    ASSUME AssemblyInv, AddDocument
    PROVE  AssemblyInv'
<1> DEFINE chunks == documents[next]
           text == FitText(Windows(chunks), Available)
           numbered == Numbered(text, next)
           c == context
           d == Append(c, numbered)
<1>1. /\ documents \in Inputs /\ documents \in Seq(Seq(Chunk)) /\ next \in Nat \ {0} /\ next <= Len(documents)
      /\ Len(documents) \in Nat /\ next \in 1 .. Len(documents) /\ DOMAIN documents = 1 .. Len(documents)
      /\ next <= MaxDocuments /\ MaxDocuments \in Nat
      /\ c \in Seq(NumberedTexts) /\ Len(c) \in Nat /\ DOMAIN c = 1 .. Len(c)
  <2>1. documents \in Inputs /\ next \in Nat \ {0} /\ next <= Len(documents) /\ next <= MaxDocuments
        /\ c \in Seq(NumberedTexts)
    BY DEF AssemblyInv, AssemblyTypeOK, AddDocument, Round
  <2>2. documents \in Seq(Seq(Chunk)) /\ MaxDocuments \in Nat
    BY <2>1, AssemblyAssumption
  <2>3. Len(documents) \in Nat /\ DOMAIN documents = 1 .. Len(documents) /\ Len(c) \in Nat /\ DOMAIN c = 1 .. Len(c)
    BY <2>1, <2>2, LenProperties
  <2>. QED BY <2>1, <2>2, <2>3
<1>2. chunks \in Seq(Chunk)
  BY <1>1, ElementOfSeq
<1>3. /\ Available \in Budgets
      /\ \A n \in Nat : Within(n, Available) =>
           /\ Within(n, MaxDocument)
           /\ remaining # Unlimited => remaining - Before - n \in Nat
  BY AvailableIsRoom DEF AddDocument
<1>4. Keeps(text, chunks)
  BY <1>2, <1>3, TextKeeps
<1>5. text \in PartialTexts /\ Within(text.length, Available)
  <2>1. Windows(chunks) \in Seq(Window)
    BY <1>2, WindowsHold DEF AreWindows
  <2>. QED BY <1>3, <2>1, TextFits DEF TextOf
<1>6. /\ text.length > 0 /\ context' = d /\ next' = next + 1 /\ documents' = documents
      /\ remaining' = IF remaining = Unlimited THEN remaining ELSE remaining - Before - text.length
  BY DEF AddDocument
<1> HIDE DEF text
<1>7. numbered \in NumberedTexts /\ Keeps(numbered, chunks) /\ numbered.length = text.length /\ numbered.number = next
  <2>1. next \in Nat
    BY <1>1
  <2>2. numbered \in NumberedTexts /\ Keeps(numbered, chunks)
    BY <1>4, <1>5, <2>1, NumberedKeeps
  <2>. QED BY <2>2 DEF Numbered
<1> HIDE DEF numbered
<1>8. /\ d \in Seq(NumberedTexts) /\ Len(d) = Len(c) + 1 /\ d[Len(c) + 1] = numbered
      /\ \A i \in 1 .. Len(c) : d[i] = c[i]
      /\ \A i \in 1 .. Len(d) : i \in 1 .. Len(c) \/ i = Len(c) + 1
      /\ DOMAIN d = 1 .. Len(d)
  <2>1. /\ d \in Seq(NumberedTexts) /\ Len(d) = Len(c) + 1 /\ d[Len(c) + 1] = numbered
        /\ \A i \in 1 .. Len(c) : d[i] = c[i]
    BY <1>1, <1>7, AppendProperties
  <2>2. DOMAIN d = 1 .. Len(d)
    BY <2>1, LenProperties
  <2> HIDE DEF d
  <2>3. \A i \in 1 .. Len(d) : i \in 1 .. Len(c) \/ i = Len(c) + 1
    BY <1>1, <2>1
  <2>. QED BY <2>1, <2>2, <2>3
<1>9. TotalOf(d) = TotalOf(c) + Before + text.length /\ TotalOf(c) \in Nat
  BY <1>1, <1>7, TotalGrows DEF Before
<1> HIDE DEF d
<1>10. text.length \in Nat \ {0} /\ Before \in Nat
  BY <1>5, <1>6, AssemblyAssumption DEF PartialTexts, Before
<1>11. \A i \in 1 .. Len(c) : /\ c[i].number \in DOMAIN documents /\ c[i].length > 0 /\ c[i].number < next
                              /\ Within(c[i].length, MaxDocument) /\ Keeps(c[i], documents[c[i].number])
                              /\ c[i].number \in Nat
  <2>1. \A i \in 1 .. Len(c) : c[i].number \in Nat
    <3>1. \A i \in 1 .. Len(c) : c[i] \in NumberedTexts
      BY <1>1, ElementOfSeq
    <3>. QED BY <3>1 DEF NumberedTexts
  <2>. QED BY <1>1, <2>1 DEF AssemblyInv, AssemblyTypeOK, ChunksAreKept
<1>12. \A i \in 1 .. Len(d) : /\ d[i].number \in DOMAIN documents /\ d[i].length > 0 /\ d[i].number < next + 1
                              /\ Within(d[i].length, MaxDocument) /\ Keeps(d[i], documents[d[i].number])
  <2>1. ASSUME NEW i \in 1 .. Len(d)
        PROVE  /\ d[i].number \in DOMAIN documents /\ d[i].length > 0 /\ d[i].number < next + 1
               /\ Within(d[i].length, MaxDocument) /\ Keeps(d[i], documents[d[i].number])
    <3>1. CASE i \in 1 .. Len(c)
      <4>1. d[i] = c[i]
        BY <1>8, <3>1
      <4>2. c[i].number < next + 1
        <5> DEFINE number == c[i].number
        <5>1. number \in Nat /\ number < next /\ next \in Nat
          BY <1>1, <1>11, <3>1
        <5> HIDE DEF number
        <5>2. number < next + 1
          BY <5>1
        <5>. QED BY <5>2 DEF number
      <4>. QED BY <1>11, <3>1, <4>1, <4>2
    <3>2. CASE i = Len(c) + 1
      <4>1. d[i] = numbered
        BY <1>8, <3>2
      <4>2. Within(text.length, MaxDocument) /\ next < next + 1
        BY <1>1, <1>3, <1>5, <1>10
      <4>. QED BY <1>1, <1>6, <1>7, <4>1, <4>2
    <3>. QED BY <1>8, <3>1, <3>2
  <2>. QED BY <2>1
<1>13. ASSUME NEW i \in 1 .. Len(d), NEW j \in 1 .. Len(d), i < j PROVE d[i].number < d[j].number
  <2>1. i \in 1 .. Len(c)
    BY <1>1, <1>8, <1>13
  <2>2. CASE j \in 1 .. Len(c)
    <3>1. c[i].number < c[j].number
      BY <1>1, <1>13, <2>1, <2>2 DEF AssemblyInv, ChunksAreKept
    <3>. QED BY <1>8, <2>1, <2>2, <3>1
  <2>3. CASE j = Len(c) + 1
    BY <1>7, <1>8, <1>11, <2>1, <2>3
  <2>. QED BY <1>8, <2>2, <2>3
<1>14. IF MaxTotal = Unlimited THEN remaining' = Unlimited
       ELSE remaining' \in Nat /\ remaining' = MaxTotal - TotalOf(d)
  <2>1. CASE MaxTotal = Unlimited
    BY <1>6, <2>1 DEF AssemblyInv
  <2>2. CASE MaxTotal # Unlimited
    <3>1. remaining \in Nat /\ remaining = MaxTotal - TotalOf(c) /\ remaining # Unlimited /\ MaxTotal \in Nat
      BY <2>2, AssemblyAssumption DEF AssemblyInv
    <3>2. remaining' = remaining - Before - text.length /\ remaining' \in Nat
      BY <1>3, <1>5, <1>6, <1>10, <3>1
    <3> DEFINE x == TotalOf(c)
               y == TotalOf(d)
               z == text.length
    <3>3. /\ x \in Nat /\ z \in Nat /\ Before \in Nat /\ y = x + Before + z /\ remaining = MaxTotal - x
          /\ remaining' = remaining - Before - z
      BY <1>9, <1>10, <3>1, <3>2
    <3> HIDE DEF x, y, z
    <3>4. remaining' = MaxTotal - y
      BY <3>1, <3>3
    <3>. QED BY <2>2, <3>2, <3>4 DEF y
  <2>. QED BY <2>1, <2>2
<1>15. next' \in Nat \ {0} /\ next' <= MaxDocuments + 1 /\ Len(d) < next'
  BY <1>1, <1>6, <1>8 DEF AssemblyInv
<1>16. AssemblyTypeOK'
  <2>1. remaining' \in Int \cup {Unlimited}
    BY <1>14
  <2>2. context' \in Seq(NumberedTexts)'
    BY <1>6, <1>8 DEF NumberedTexts, Window, Chunk
  <2>. QED BY <1>1, <1>6, <1>8, <1>12, <1>15, <2>1, <2>2 DEF AssemblyTypeOK
<1>17. ChunksAreKept'
  <2>1. \A i \in DOMAIN d : Keeps(d[i], documents[d[i].number])
    BY <1>8, <1>12
  <2>2. ChunksAreKept' <=> /\ \A i, j \in DOMAIN context' : i < j => context'[i].number < context'[j].number
                           /\ \A i \in DOMAIN context' : Keeps(context'[i], documents'[context'[i].number])
    BY DEF ChunksAreKept, Keeps
  <2>. QED BY <1>6, <1>8, <1>13, <2>1, <2>2
<1>18. TotalOf(context)' = TotalOf(d)
  BY <1>6 DEF TotalOf, SumOf
<1>. QED BY <1>6, <1>8, <1>12, <1>14, <1>15, <1>16, <1>17, <1>18 DEF AssemblyInv, Within

\* The invariant holds after every round.
THEOREM AssemblyInduction == AssemblySpec => []AssemblyInv
<1>1. AssemblyInit => AssemblyInv
  <2> SUFFICES ASSUME AssemblyInit PROVE AssemblyInv
    OBVIOUS
  <2>1. /\ documents \in Inputs /\ next = 1 /\ remaining = MaxTotal /\ context = <<>>
        /\ MaxTotal \in (Nat \ {0}) \cup {Unlimited} /\ MaxDocuments \in Nat
    BY AssemblyAssumption DEF AssemblyInit
  <2>2. <<>> \in Seq(NumberedTexts) /\ Len(<<>>) = 0 /\ DOMAIN <<>> = {}
    BY EmptySeq
  <2>3. TotalOf(<<>>) = 0
    <3>1. Fold([sum \in Nat |-> [text \in NumberedTexts |-> sum + text.length]], 0, <<>>) = 0
      <4> DEFINE X == Nat
                 step == [sum \in X |-> [text \in NumberedTexts |-> sum + text.length]]
                 base == 0
      <4>1. step \in [X -> [NumberedTexts -> X]] /\ base \in X
        BY DEF NumberedTexts
      <4> HIDE DEF step, X, base
      <4>2. Fold(step, base, <<>>) = base
        BY <4>1, FoldOfNothing
      <4>. QED BY <4>2 DEF step, X, base
    <3>. QED BY <3>1 DEF TotalOf, SumOf
  <2>4. IF MaxTotal = Unlimited THEN remaining = Unlimited
        ELSE remaining \in Nat /\ remaining = MaxTotal - TotalOf(context)
    BY <2>1, <2>3
  <2>. QED BY <2>1, <2>2, <2>4 DEF AssemblyInv, AssemblyTypeOK, ChunksAreKept
<1>2. AssemblyInv /\ [AssemblyNext]_assemblyVars => AssemblyInv'
  <2> SUFFICES ASSUME AssemblyInv, [AssemblyNext]_assemblyVars PROVE AssemblyInv'
    OBVIOUS
  <2>1. CASE AddDocument
    BY <2>1, DocumentIsAdded
  <2>2. ASSUME UNCHANGED <<documents, remaining, context>>, next' \in Nat \ {0}, next' <= MaxDocuments + 1,
               next <= next'
        PROVE  AssemblyInv'
    <3>1. /\ AssemblyTypeOK /\ ChunksAreKept /\ Len(context) < next /\ next \in Nat /\ context \in Seq(NumberedTexts)
          /\ \A i \in 1 .. Len(context) : context[i].number < next /\ Within(context[i].length, MaxDocument)
          /\ IF MaxTotal = Unlimited THEN remaining = Unlimited
             ELSE remaining \in Nat /\ remaining = MaxTotal - TotalOf(context)
      BY DEF AssemblyInv, AssemblyTypeOK
    <3>2. AssemblyTypeOK'
      BY <2>2, <3>1 DEF AssemblyTypeOK, NumberedTexts, Window, Chunk
    <3>3. ChunksAreKept'
      BY <2>2, <3>1 DEF ChunksAreKept, Keeps
    <3>4. Len(context) < next'
      <4>1. Len(context) \in Nat
        BY <3>1, LenProperties
      <4>. QED BY <2>2, <3>1, <4>1
    <3>5. \A i \in 1 .. Len(context) : context[i].number < next'
      <4>1. \A i \in 1 .. Len(context) : context[i] \in NumberedTexts
        BY <3>1, ElementOfSeq
      <4>2. \A i \in 1 .. Len(context) : context[i].number \in Nat
        BY <4>1 DEF NumberedTexts
      <4>. QED BY <2>2, <3>1, <4>2
    <3>6. TotalOf(context)' = TotalOf(context)
      BY <2>2 DEF TotalOf, SumOf
    <3>. QED BY <2>2, <3>1, <3>2, <3>3, <3>4, <3>5, <3>6 DEF AssemblyInv, Within
  <2>3. next \in Nat \ {0} /\ next <= MaxDocuments + 1 /\ MaxDocuments \in Nat
    BY AssemblyAssumption DEF AssemblyInv, AssemblyTypeOK
  <2>4. CASE SkipDocument
    <3>1. next' = next + 1 /\ next <= MaxDocuments /\ UNCHANGED <<documents, remaining, context>>
      BY <2>4 DEF SkipDocument, Round
    <3>2. next' \in Nat \ {0} /\ next' <= MaxDocuments + 1 /\ next <= next'
      BY <2>3, <3>1
    <3>. QED BY <2>2, <3>1, <3>2
  <2>5. CASE UNCHANGED assemblyVars
    <3>1. next' = next /\ UNCHANGED <<documents, remaining, context>>
      BY <2>5 DEF assemblyVars
    <3>2. next <= next'
      BY <2>3, <3>1
    <3>. QED BY <2>2, <2>3, <3>1, <3>2
  <2>. QED BY <2>1, <2>4, <2>5 DEF AssemblyNext
<1>. QED BY <1>1, <1>2, PTL DEF AssemblySpec

\* The variables of the assembly have their types.
THEOREM AssemblyTypeCorrect == AssemblySpec => []AssemblyTypeOK
<1>1. AssemblyInv => AssemblyTypeOK
  BY DEF AssemblyInv
<1>. QED BY <1>1, AssemblyInduction, PTL

\* Whatever the documents and the budgets: the context stays within all of its budgets, and
\* says what the documents say, in their order, as far as it goes.
THEOREM AssemblyCorrect == AssemblySpec => []ContextIsFaithful
<1>1. AssemblyInv => ContextIsFaithful
  <2> SUFFICES ASSUME AssemblyInv PROVE ContextIsFaithful
    OBVIOUS
  <2>1. /\ context \in Seq(NumberedTexts) /\ Len(context) \in Nat /\ DOMAIN context = 1 .. Len(context)
        /\ MaxDocuments \in Nat /\ next \in Nat
    BY AssemblyAssumption, LenProperties DEF AssemblyInv, AssemblyTypeOK
  <2>2. TotalOf(context) \in Nat /\ TotalLength = TotalOf(context)
    <3>1. [number |-> 0, length |-> 0, windows |-> <<>>, truncated |-> FALSE] \in NumberedTexts
      BY EmptySeq DEF NumberedTexts
    <3>. QED BY <2>1, <3>1, TotalGrows, TotalLengthIs
  <2>3. Within(TotalLength, MaxTotal)
    <3>1. CASE MaxTotal = Unlimited
      BY <3>1 DEF Within
    <3>2. CASE MaxTotal # Unlimited
      <4>1. MaxTotal \in Nat /\ remaining \in Nat /\ remaining = MaxTotal - TotalOf(context)
        BY <3>2, AssemblyAssumption DEF AssemblyInv
      <4>2. TotalOf(context) <= MaxTotal
        BY <2>2, <4>1
      <4>. QED BY <2>2, <4>2 DEF Within
    <3>. QED BY <3>1, <3>2
  <2>4. Len(context) <= MaxDocuments
    BY <2>1 DEF AssemblyInv
  <2>. QED BY <2>1, <2>3, <2>4 DEF ContextIsFaithful, BudgetIsKept, AssemblyInv
<1>. QED BY <1>1, AssemblyInduction, PTL


-----------------------------------------------------------------------------
(* Matcher: ranks *)

\* Ranks of n parts.
Ranks(n) == [1 .. n -> Int]

\* Ranks are in a strict total order.
LEMMA LessOrders ==
    ASSUME NEW n \in Nat
    PROVE  /\ \A a \in Ranks(n) : ~Less(a, a)
           /\ \A a, b, c \in Ranks(n) : Less(a, b) /\ Less(b, c) => Less(a, c)
           /\ \A a, b \in Ranks(n) : a = b \/ Less(a, b) \/ Less(b, a)
<1>1. ASSUME NEW a \in Ranks(n) PROVE ~Less(a, a)
  BY DEF Ranks, Less
<1>2. ASSUME NEW a \in Ranks(n), NEW b \in Ranks(n), NEW c \in Ranks(n), Less(a, b), Less(b, c)
      PROVE  Less(a, c)
  <2>1. PICK i \in 1 .. n : a[i] < b[i] /\ \A j \in 1 .. i - 1 : a[j] = b[j]
    BY <1>2 DEF Ranks, Less
  <2>2. PICK k \in 1 .. n : b[k] < c[k] /\ \A j \in 1 .. k - 1 : b[j] = c[j]
    BY <1>2 DEF Ranks, Less
  <2>3. a[i] \in Int /\ b[i] \in Int /\ c[i] \in Int /\ a[k] \in Int /\ b[k] \in Int /\ c[k] \in Int
    BY DEF Ranks
  <2>4. CASE i < k
    <3>1. a[i] < c[i] /\ \A j \in 1 .. i - 1 : a[j] = c[j]
      BY <2>1, <2>2, <2>4
    <3>. QED BY <3>1 DEF Ranks, Less
  <2>5. CASE i = k
    <3>1. a[i] < c[i] /\ \A j \in 1 .. i - 1 : a[j] = c[j]
      BY <2>1, <2>2, <2>3, <2>5
    <3>. QED BY <3>1 DEF Ranks, Less
  <2>6. CASE k < i
    <3>1. a[k] < c[k] /\ \A j \in 1 .. k - 1 : a[j] = c[j]
      BY <2>1, <2>2, <2>6
    <3>. QED BY <3>1 DEF Ranks, Less
  <2>. QED BY <2>4, <2>5, <2>6
<1>3. ASSUME NEW a \in Ranks(n), NEW b \in Ranks(n), a # b PROVE Less(a, b) \/ Less(b, a)
  <2> DEFINE D == {i \in 1 .. n : a[i] # b[i]}
  <2>1. D # {}
    BY <1>3 DEF Ranks
  <2>2. PICK i \in D : \A j \in D : i <= j
    <3>1. D \in SUBSET Nat
      OBVIOUS
    <3> HIDE DEF D
    <3>. QED BY <2>1, <3>1, LeastNumber
  <2>3. \A j \in 1 .. i - 1 : a[j] = b[j]
    BY <2>2
  <2>4. a[i] < b[i] \/ b[i] < a[i]
    BY <2>2 DEF Ranks
  <2>. QED BY <2>2, <2>3, <2>4 DEF Ranks, Less
<1>. QED BY <1>1, <1>2, <1>3

\* Two ranks put together.
Joined(a, b) == a \o b

\* Of two ranks that are put together, the first parts count first.
LEMMA LessJoined ==
    ASSUME NEW m \in Nat, NEW n \in Nat, NEW a \in Ranks(m), NEW b \in Ranks(m),
           NEW c \in Ranks(n), NEW d \in Ranks(n)
    PROVE  /\ Joined(a, c) \in Ranks(m + n)
           /\ Joined(a, c) = Joined(b, d) => a = b /\ c = d
           /\ Less(a, b) => Less(Joined(a, c), Joined(b, d))
           /\ a = b => (Less(Joined(a, c), Joined(b, d)) <=> Less(c, d))
<1>1. /\ a \in Seq(Int) /\ b \in Seq(Int) /\ c \in Seq(Int) /\ d \in Seq(Int)
      /\ Len(a) = m /\ Len(b) = m /\ Len(c) = n /\ Len(d) = n
  BY SeqDef DEF Ranks
<1>2. /\ Len(a \o c) = m + n /\ Len(b \o d) = m + n /\ a \o c \in Seq(Int) /\ b \o d \in Seq(Int)
      /\ \A i \in 1 .. m : (a \o c)[i] = a[i] /\ (b \o d)[i] = b[i]
      /\ \A i \in m + 1 .. m + n : (a \o c)[i] = c[i - m] /\ (b \o d)[i] = d[i - m]
  <2>1. /\ a \o c \in Seq(Int) /\ Len(a \o c) = m + n
        /\ \A i \in 1 .. m + n : (a \o c)[i] = IF i <= m THEN a[i] ELSE c[i - m]
    <3>1. /\ a \o c \in Seq(Int) /\ Len(a \o c) = Len(a) + Len(c)
          /\ \A i \in 1 .. Len(a) + Len(c) : (a \o c)[i] = IF i <= Len(a) THEN a[i] ELSE c[i - Len(a)]
      BY <1>1, ConcatProperties
    <3>. QED BY <1>1, <3>1
  <2>2. /\ b \o d \in Seq(Int) /\ Len(b \o d) = m + n
        /\ \A i \in 1 .. m + n : (b \o d)[i] = IF i <= m THEN b[i] ELSE d[i - m]
    <3>1. /\ b \o d \in Seq(Int) /\ Len(b \o d) = Len(b) + Len(d)
          /\ \A i \in 1 .. Len(b) + Len(d) : (b \o d)[i] = IF i <= Len(b) THEN b[i] ELSE d[i - Len(b)]
      BY <1>1, ConcatProperties
    <3>. QED BY <1>1, <3>1
  <2> DEFINE ac == a \o c
             bd == b \o d
  <2> HIDE DEF ac, bd
  <2>3. /\ \A i \in 1 .. m : i \in 1 .. m + n /\ i <= m
        /\ \A i \in m + 1 .. m + n : i \in 1 .. m + n /\ ~(i <= m)
    OBVIOUS
  <2>. QED BY <2>1, <2>2, <2>3 DEF ac, bd
<1>3. a \o c \in Ranks(m + n) /\ b \o d \in Ranks(m + n)
  <2>1. \A s \in Seq(Int) : Len(s) = m + n => s \in Ranks(m + n)
    BY DEF Ranks
  <2>. QED BY <1>2, <2>1
<1> DEFINE ac == a \o c
           bd == b \o d
<1>4. /\ ac \in Ranks(m + n) /\ bd \in Ranks(m + n) /\ DOMAIN ac = 1 .. m + n
      /\ \A i \in 1 .. m : ac[i] = a[i] /\ bd[i] = b[i]
      /\ \A i \in 1 .. n : ac[i + m] = c[i] /\ bd[i + m] = d[i]
      /\ \A i \in m + 1 .. m + n : i - m \in 1 .. n /\ ac[i] = c[i - m] /\ bd[i] = d[i - m]
  <2>1. /\ \A i \in 1 .. n : i + m \in m + 1 .. m + n /\ (i + m) - m = i
        /\ \A i \in m + 1 .. m + n : i - m \in 1 .. n
    OBVIOUS
  <2>2. ac \in Ranks(m + n) /\ bd \in Ranks(m + n)
    BY <1>3
  <2>3. /\ \A i \in 1 .. m : ac[i] = a[i] /\ bd[i] = b[i]
        /\ \A i \in m + 1 .. m + n : ac[i] = c[i - m] /\ bd[i] = d[i - m]
    BY <1>2
  <2> HIDE DEF ac, bd
  <2>4. \A i \in 1 .. n : ac[i + m] = c[i] /\ bd[i + m] = d[i]
    BY <2>1, <2>3
  <2>. QED BY <2>1, <2>2, <2>3, <2>4 DEF Ranks
<1> HIDE DEF ac, bd
<1>5. ac = bd => a = b /\ c = d
  BY <1>4 DEF Ranks
<1>6. ASSUME Less(a, b) PROVE Less(ac, bd)
  <2>1. PICK i \in 1 .. m : a[i] < b[i] /\ \A j \in 1 .. i - 1 : a[j] = b[j]
    BY <1>6 DEF Ranks, Less
  <2>2. i \in DOMAIN ac /\ ac[i] < bd[i] /\ \A j \in 1 .. i - 1 : ac[j] = bd[j]
    BY <1>4, <2>1
  <2>. QED BY <2>2 DEF Less
<1>7. ASSUME a = b, Less(ac, bd) PROVE Less(c, d)
  <2>1. PICK i \in 1 .. m + n : ac[i] < bd[i] /\ \A j \in 1 .. i - 1 : ac[j] = bd[j]
    BY <1>4, <1>7 DEF Less
  <2>2. i > m
    <3>1. ASSUME i <= m PROVE FALSE
      <4>1. ac[i] = bd[i] /\ ac[i] \in Int
        BY <1>4, <1>7, <3>1 DEF Ranks
      <4>. QED BY <2>1, <4>1
    <3>. QED BY <3>1
  <2>3. i - m \in 1 .. n /\ c[i - m] < d[i - m]
    BY <1>4, <2>1, <2>2
  <2>4. \A j \in 1 .. (i - m) - 1 : c[j] = d[j]
    <3>1. ASSUME NEW j \in 1 .. (i - m) - 1 PROVE c[j] = d[j]
      <4>1. j + m \in 1 .. i - 1 /\ j \in 1 .. n
        BY <2>3
      <4>. QED BY <1>4, <2>1, <4>1
    <3>. QED BY <3>1
  <2>5. i - m \in DOMAIN c
    BY <2>3 DEF Ranks
  <2>. QED BY <2>3, <2>4, <2>5 DEF Less
<1>8. ASSUME a = b, Less(c, d) PROVE Less(ac, bd)
  <2>1. PICK i \in 1 .. n : c[i] < d[i] /\ \A j \in 1 .. i - 1 : c[j] = d[j]
    BY <1>8 DEF Ranks, Less
  <2>2. ac[i + m] < bd[i + m] /\ i + m \in DOMAIN ac
    BY <1>4, <2>1
  <2>3. ASSUME NEW j \in 1 .. (i + m) - 1 PROVE ac[j] = bd[j]
    <3>1. CASE j <= m
      BY <1>4, <1>8, <3>1
    <3>2. CASE j > m
      <4>1. j \in m + 1 .. m + n /\ j - m \in 1 .. i - 1
        BY <3>2
      <4>. QED BY <1>4, <2>1, <4>1
    <3>. QED BY <3>1, <3>2
  <2>. QED BY <2>2, <2>3 DEF Less
<1>9. Joined(a, c) = ac /\ Joined(b, d) = bd
  BY Zenon DEF Joined, ac, bd
<1>10. ac \in Ranks(m + n)
  BY <1>3 DEF ac
<1>. QED BY <1>5, <1>6, <1>7, <1>8, <1>9, <1>10

\* Entries with ranks of n parts.
RankedBy(entries, n) == IsFiniteSet(entries) /\ \A e \in entries : e.rank \in Ranks(n)

\* How many entries come before.
Preceding(entries, e) == {f \in entries : Less(f.rank, e.rank)}

\* The later an entry the more come before it.
LEMMA MoreBefore ==
    ASSUME NEW n \in Nat, NEW entries, RankedBy(entries, n)
    PROVE  /\ \A e \in entries : IsFiniteSet(Preceding(entries, e))
                                /\ Cardinality(Preceding(entries, e)) \in 0 .. Cardinality(entries) - 1
           /\ \A e, f \in entries :
                Less(e.rank, f.rank) => Cardinality(Preceding(entries, e)) < Cardinality(Preceding(entries, f))
<1>1. IsFiniteSet(entries) /\ \A e \in entries : e.rank \in Ranks(n)
  BY DEF RankedBy
<1>2. \A a \in Ranks(n) : ~Less(a, a)
  BY LessOrders
<1>3. \A a, b, c \in Ranks(n) : Less(a, b) /\ Less(b, c) => Less(a, c)
  BY LessOrders
<1>4. ASSUME NEW e \in entries
      PROVE  IsFiniteSet(Preceding(entries, e)) /\ Cardinality(Preceding(entries, e)) \in 0 .. Cardinality(entries) - 1
  <2>1. Preceding(entries, e) \subseteq entries /\ e \notin Preceding(entries, e)
    BY <1>1, <1>2 DEF Preceding
  <2>2. Preceding(entries, e) # entries
    BY <2>1
  <2>3. /\ IsFiniteSet(Preceding(entries, e)) /\ Cardinality(Preceding(entries, e)) < Cardinality(entries)
    <3> DEFINE B == Preceding(entries, e)
    <3>1. B \in SUBSET entries
      BY <2>1
    <3>2. IsFiniteSet(B) /\ Cardinality(B) <= Cardinality(entries)
          /\ (Cardinality(B) = Cardinality(entries) => B = entries)
      <4> HIDE DEF B
      <4>. QED BY <1>1, <3>1, FS_Subset
    <3>3. Cardinality(B) \in Nat /\ Cardinality(entries) \in Nat
      <4> HIDE DEF B
      <4>. QED BY <1>1, <3>2, FS_CardinalityType
    <3> HIDE DEF B
    <3>4. Cardinality(B) # Cardinality(entries)
      BY <2>2, <3>2 DEF B
    <3>5. Cardinality(B) < Cardinality(entries)
      BY <3>2, <3>3, <3>4
    <3>. QED BY <3>2, <3>5 DEF B
  <2>4. Cardinality(Preceding(entries, e)) \in Nat /\ Cardinality(entries) \in Nat
    BY <1>1, <2>3, FS_CardinalityType
  <2>. QED BY <2>3, <2>4
<1>5. ASSUME NEW e \in entries, NEW f \in entries, Less(e.rank, f.rank)
      PROVE  Cardinality(Preceding(entries, e)) < Cardinality(Preceding(entries, f))
  <2>1. Preceding(entries, e) \subseteq Preceding(entries, f)
    BY <1>1, <1>3, <1>5 DEF Preceding
  <2>2. e \in Preceding(entries, f) /\ e \notin Preceding(entries, e)
    BY <1>1, <1>2, <1>5 DEF Preceding
  <2>. QED BY <1>4, <2>1, <2>2, FS_Subset
<1>. QED BY <1>4, <1>5

\* at lists the entries, the smallest rank first.
InRanks(entries, at) ==
  /\ at \in [1 .. Cardinality(entries) -> entries]
  /\ \A e \in entries : \E i \in 1 .. Cardinality(entries) : at[i] = e
  /\ \A i, j \in 1 .. Cardinality(entries) : i < j => Less(at[i].rank, at[j].rank)

\* Entries of different ranks are in the order of their ranks.
LEMMA InOrderSorts ==
    ASSUME NEW n \in Nat, NEW entries, RankedBy(entries, n),
           \A e, f \in entries : e.rank = f.rank => e = f
    PROVE  /\ Cardinality(entries) \in Nat
           /\ \E at : InRanks(entries, at) /\ InOrder(entries) = [i \in 1 .. Cardinality(entries) |-> at[i].of]
<1> DEFINE N == Cardinality(entries)
           place == [e \in entries |-> Cardinality(Preceding(entries, e)) + 1]
           at == [i \in 1 .. N |-> CHOOSE e \in entries : place[e] = i]
<1>1. IsFiniteSet(entries) /\ N \in Nat /\ \A e \in entries : e.rank \in Ranks(n)
  BY FS_CardinalityType DEF RankedBy
<1>2. place \in [entries -> 1 .. N]
  <2>1. \A e \in entries : Cardinality(Preceding(entries, e)) \in 0 .. N - 1
    BY MoreBefore
  <2> HIDE DEF N
  <2>. QED BY <1>1, <2>1
<1>3. \A e, f \in entries : Less(e.rank, f.rank) => place[e] < place[f]
  <2>1. \A e \in entries : Cardinality(Preceding(entries, e)) \in 0 .. N - 1
    BY MoreBefore
  <2>2. \A e, f \in entries :
          Less(e.rank, f.rank) => Cardinality(Preceding(entries, e)) < Cardinality(Preceding(entries, f))
    BY MoreBefore
  <2> HIDE DEF N
  <2>. QED BY <1>1, <2>1, <2>2
<1>4. \A e, f \in entries : place[e] = place[f] => e = f
  <2>1. \A a, b \in Ranks(n) : a = b \/ Less(a, b) \/ Less(b, a)
    BY LessOrders
  <2> HIDE DEF place, N
  <2>2. \A e \in entries : place[e] \in Int
    BY <1>1, <1>2
  <2>. QED BY <1>1, <1>3, <2>1, <2>2
<1>5. \A i \in 1 .. N : \E e \in entries : place[e] = i
  <2> HIDE DEF place
  <2>1. place \in Injection(entries, 1 .. N)
    BY <1>2, <1>4 DEF Injection, IsInjective
  <2>2. IsFiniteSet(1 .. N) /\ Cardinality(1 .. N) = N
    BY <1>1, FS_Interval
  <2>3. place \in Surjection(entries, 1 .. N)
    <3> HIDE DEF N
    <3>1. Cardinality(entries) = Cardinality(1 .. N)
      BY <2>2 DEF N
    <3>. QED BY <2>1, <2>2, <3>1, FS_Injection
  <2>. QED BY <2>3 DEF Surjection
<1>6. \A i \in 1 .. N : at[i] \in entries /\ place[at[i]] = i
  <2> HIDE DEF place, N
  <2>. QED BY <1>5
<1>7. InRanks(entries, at)
  <2>1. at \in [1 .. N -> entries]
    <3> HIDE DEF place, N
    <3>. QED BY <1>6
  <2>2. ASSUME NEW e \in entries PROVE \E i \in 1 .. N : at[i] = e
    <3>1. place[e] \in 1 .. N
      BY <1>2
    <3>. QED BY <1>4, <1>6, <3>1
  <2>3. ASSUME NEW i \in 1 .. N, NEW j \in 1 .. N, i < j PROVE Less(at[i].rank, at[j].rank)
    <3>1. \A a, b \in Ranks(n) : a = b \/ Less(a, b) \/ Less(b, a)
      BY LessOrders
    <3>2. at[i] \in entries /\ at[j] \in entries /\ place[at[i]] = i /\ place[at[j]] = j
      BY <1>6
    <3> HIDE DEF at, place, N
    <3>3. at[i].rank # at[j].rank
      <4>1. at[i] # at[j]
        BY <1>1, <2>3, <3>2
      <4>. QED BY <3>2, <4>1
    <3>4. ~Less(at[j].rank, at[i].rank)
      BY <1>1, <1>3, <2>3, <3>2
    <3>. QED BY <1>1, <3>1, <3>2, <3>3, <3>4
  <2> HIDE DEF at
  <2>. QED BY <2>1, <2>2, <2>3 DEF InRanks
<1>8. InOrder(entries) = [i \in 1 .. N |-> at[i].of]
  <2>1. ASSUME NEW i \in 1 .. N
        PROVE  (CHOOSE e \in entries : Cardinality({f \in entries : Less(f.rank, e.rank)}) = i - 1) = at[i]
    <3>1. at[i] \in entries /\ Cardinality(Preceding(entries, at[i])) = i - 1
      <4>1. at[i] \in entries /\ place[at[i]] = i
        BY <1>6
      <4>2. place[at[i]] = Cardinality(Preceding(entries, at[i])) + 1
        <5> HIDE DEF at
        <5>. QED BY <4>1
      <4>3. Cardinality(Preceding(entries, at[i])) \in Int
        <5>1. \A e \in entries : Cardinality(Preceding(entries, e)) \in 0 .. N - 1
          BY MoreBefore
        <5> HIDE DEF at, N
        <5>. QED BY <1>1, <4>1, <5>1
      <4> HIDE DEF at, place
      <4>. QED BY <4>1, <4>2, <4>3
    <3>2. ASSUME NEW e \in entries, Cardinality(Preceding(entries, e)) = i - 1 PROVE e = at[i]
      <4>1. place[e] = i
        BY <1>1, <3>2
      <4>2. at[i] \in entries /\ place[at[i]] = i
        BY <1>6
      <4> HIDE DEF at, place
      <4>. QED BY <1>4, <4>1, <4>2
    <3> HIDE DEF at
    <3>. QED BY <3>1, <3>2 DEF Preceding
  <2> DEFINE pick == [i \in 1 .. N |->
                       CHOOSE e \in entries : Cardinality({f \in entries : Less(f.rank, e.rank)}) = i - 1]
  <2>2. \A i \in 1 .. N : pick[i] = at[i]
    <3> HIDE DEF at
    <3>. QED BY <2>1
  <2>3. InOrder(entries) = [i \in 1 .. N |-> pick[i].of]
    BY DEF InOrder
  <2> HIDE DEF at, N, pick
  <2>. QED BY <2>2, <2>3
<1>9. \E at0 : InRanks(entries, at0) /\ InOrder(entries) = [i \in 1 .. N |-> at0[i].of]
  <2> HIDE DEF at, N
  <2>. QED BY <1>7, <1>8
<1>. QED BY <1>1, <1>9

\* Of what an entry is about there is a first entry, and no entry comes before the first.
LEMMA FirstsAreFirst ==
    ASSUME NEW n \in Nat, NEW entries, RankedBy(entries, n)
    PROVE  /\ RankedBy(Firsts(entries), n) /\ Firsts(entries) \subseteq entries
           /\ \A e \in entries : \E f \in Firsts(entries) : f.of = e.of
           /\ \A f \in Firsts(entries), e \in entries : f.of = e.of => ~Less(e.rank, f.rank)
<1>1. IsFiniteSet(entries) /\ \A e \in entries : e.rank \in Ranks(n)
  BY DEF RankedBy
<1>2. Firsts(entries) \subseteq entries
  BY DEF Firsts
<1>3. RankedBy(Firsts(entries), n)
  BY <1>1, <1>2, FS_Subset DEF RankedBy
<1>4. ASSUME NEW e \in entries PROVE \E f \in Firsts(entries) : f.of = e.of
  <2> DEFINE T == {Cardinality(Preceding(entries, f)) : f \in {f \in entries : f.of = e.of}}
  <2>1. T \in SUBSET Nat /\ T # {}
    <3>1. \A f \in entries : Cardinality(Preceding(entries, f)) \in 0 .. Cardinality(entries) - 1
      BY MoreBefore
    <3>2. \A f \in entries : Cardinality(Preceding(entries, f)) \in Nat
      BY <3>1
    <3>. QED BY <3>2
  <2>2. PICK t \in T : \A u \in T : t <= u
    <3> HIDE DEF T
    <3>. QED BY <2>1, LeastNumber
  <2>3. PICK f \in entries : f.of = e.of /\ t = Cardinality(Preceding(entries, f))
    OBVIOUS
  <2>4. ASSUME NEW g \in entries, g.of = f.of, Less(g.rank, f.rank) PROVE FALSE
    <3>1. Cardinality(Preceding(entries, g)) \in T
      BY <2>3, <2>4
    <3>2. Cardinality(Preceding(entries, g)) < Cardinality(Preceding(entries, f))
      BY <2>4, MoreBefore
    <3>3. t <= Cardinality(Preceding(entries, g))
      BY <2>2, <3>1
    <3>4. t \in Nat /\ Cardinality(Preceding(entries, g)) \in Nat
      BY <2>1, <3>1
    <3> HIDE DEF T
    <3>. QED BY <2>3, <3>2, <3>3, <3>4
  <2>. QED BY <2>3, <2>4 DEF Firsts
<1>5. \A f \in Firsts(entries), e \in entries : f.of = e.of => ~Less(e.rank, f.rank)
  BY DEF Firsts
<1>. QED BY <1>2, <1>3, <1>4, <1>5

-----------------------------------------------------------------------------
(* Matcher: the sounds of a token *)

\* A prefix is shorter, and has the same elements at its places.
LEMMA PrefixIs ==
    ASSUME NEW E, NEW s \in Seq(E), NEW t \in Seq(E)
    PROVE  IsPrefix(s, t) <=> Len(s) <= Len(t) /\ \A i \in 1 .. Len(s) : s[i] = t[i]
<1>1. Len(s) \in Nat /\ Len(t) \in Nat
  OBVIOUS
<1>2. CASE Len(s) <= Len(t)
  <2> DEFINE a == SubSeq(s, 1, Len(s))
             b == SubSeq(t, 1, Len(s))
  <2>1. a = s
    BY SubSeqFull
  <2>2. /\ b \in Seq(E) /\ Len(b) = Len(s) /\ \A i \in 1 .. Len(s) : b[i] = t[i]
    <3>1. /\ \A i \in 1 .. Len(s) : t[i] \in E
          /\ (IF 1 <= Len(s) THEN Len(s) - 1 + 1 ELSE 0) = Len(s) /\ Len(s) - 1 + 1 = Len(s)
          /\ \A i \in 1 .. Len(s) : 1 + i - 1 = i
      BY <1>1, <1>2
    <3>2. /\ SubSeq(t, 1, Len(s)) \in Seq(E)
          /\ Len(SubSeq(t, 1, Len(s))) = IF 1 <= Len(s) THEN Len(s) - 1 + 1 ELSE 0
          /\ \A i \in 1 .. Len(s) - 1 + 1 : SubSeq(t, 1, Len(s))[i] = t[1 + i - 1]
      BY <1>1, <3>1, SubSeqProperties
    <3>. QED BY <3>1, <3>2
  <2> HIDE DEF a, b
  <2>3. a = b <=> \A i \in 1 .. Len(s) : s[i] = b[i]
    <3>1. s = [i \in 1 .. Len(s) |-> s[i]] /\ b = [i \in 1 .. Len(s) |-> b[i]]
      BY <1>1, <2>2
    <3>. QED BY <2>1, <3>1
  <2>. QED BY <1>2, <2>2, <2>3 DEF IsPrefix, a, b
<1>3. CASE ~(Len(s) <= Len(t))
  BY <1>3 DEF IsPrefix
<1>. QED BY <1>2, <1>3

\* The end of a final that is confused.
LEMMA LettersOfKeys == Consonants \subseteq Letter /\ {"z", "c", "s", "l", "r", "f", "h", "n", "g"} \subseteq Letter
  BY MatcherAssumption DEF MatcherAssumption, Consonants

\* What it means to end in letters.
LEMMA EndsIn ==
    ASSUME NEW final \in Seq(Letter), NEW v
    PROVE  /\ IsSuffix(<<v, "n">>, final) => Len(final) >= 2 /\ final[Len(final)] = "n"
           /\ IsSuffix(<<v, "n", "g">>, final) => Len(final) >= 3 /\ final[Len(final)] = "g"
<1> DEFINE back == [i \in 1 .. Len(final) |-> final[(Len(final) - i) + 1]]
<1>1. Len(final) \in Nat /\ back = Reverse(final)
  BY DEF Reverse
<1>2. back \in Seq(Letter) /\ Len(back) = Len(final) /\ (Len(final) >= 1 => back[1] = final[Len(final)])
  OBVIOUS
<1> HIDE DEF back
<1>3. ASSUME IsSuffix(<<v, "n">>, final) PROVE Len(final) >= 2 /\ final[Len(final)] = "n"
  <2> DEFINE s == <<"n", v>>
  <2>1. Reverse(<<v, "n">>) = s
    BY DEF Reverse
  <2>2. s \in Seq({"n", v}) /\ Len(s) = 2 /\ s[1] = "n"
    OBVIOUS
  <2>3. IsPrefix(s, back)
    BY <1>1, <1>3, <2>1 DEF IsSuffix
  <2> HIDE DEF s
  <2>4. Len(s) <= Len(back) /\ \A i \in 1 .. Len(s) : s[i] = back[i]
    <3> DEFINE E == Letter \cup {"g", "n", v}
    <3>1. s \in Seq(E) /\ back \in Seq(E)
      BY <1>2, <2>2
    <3> HIDE DEF E
    <3>. QED BY <2>3, <3>1, PrefixIs
  <2>5. s[1] = back[1]
    BY <2>2, <2>4
  <2>. QED BY <1>1, <1>2, <2>2, <2>4, <2>5
<1>4. ASSUME IsSuffix(<<v, "n", "g">>, final) PROVE Len(final) >= 3 /\ final[Len(final)] = "g"
  <2> DEFINE s == <<"g", "n", v>>
  <2>1. Reverse(<<v, "n", "g">>) = s
    BY DEF Reverse
  <2>2. s \in Seq({"g", "n", v}) /\ Len(s) = 3 /\ s[1] = "g"
    OBVIOUS
  <2>3. IsPrefix(s, back)
    BY <1>1, <1>4, <2>1 DEF IsSuffix
  <2> HIDE DEF s
  <2>4. Len(s) <= Len(back) /\ \A i \in 1 .. Len(s) : s[i] = back[i]
    <3> DEFINE E == Letter \cup {"g", "n", v}
    <3>1. s \in Seq(E) /\ back \in Seq(E)
      BY <1>2, <2>2
    <3> HIDE DEF E
    <3>. QED BY <2>3, <3>1, PrefixIs
  <2>5. s[1] = back[1]
    BY <2>2, <2>4
  <2>. QED BY <1>1, <1>2, <2>2, <2>4, <2>5
<1>. QED BY <1>3, <1>4

\* The initial is a prefix of the token, and the longest one.
LEMMA InitialIs ==
    ASSUME NEW token \in Seq(Letter)
    PROVE  /\ Initial(token) \in Initials \cup {<<>>} /\ Initial(token) \in Seq(Letter)
           /\ Initial(token) # <<>> => IsPrefix(Initial(token), token)
           /\ \A j \in Initials : IsPrefix(j, token) => Len(j) <= Len(Initial(token))
<1> DEFINE found == {i \in Initials : IsPrefix(i, token)}
<1>1. \A i \in Initials : i \in Seq(Letter) /\ Len(i) \in 1 .. 2
  <2>1. \A l \in Letter : <<l>> \in Seq(Letter) /\ Len(<<l>>) = 1
    OBVIOUS
  <2>2. \A l, m \in Letter : <<l, m>> \in Seq(Letter) /\ Len(<<l, m>>) = 2
    OBVIOUS
  <2>3. ASSUME NEW i \in Initials PROVE (\E l \in Letter : i = <<l>>) \/ \E l, m \in Letter : i = <<l, m>>
    <3>1. i \in {<<l>> : l \in Consonants} \/ i = <<"z", "h">> \/ i = <<"c", "h">> \/ i = <<"s", "h">>
      BY DEF Initials
    <3>2. "z" \in Letter /\ "c" \in Letter /\ "s" \in Letter /\ "h" \in Letter /\ Consonants \subseteq Letter
      BY LettersOfKeys
    <3>. QED BY <3>1, <3>2
  <2>4. 1 \in 1 .. 2 /\ 2 \in 1 .. 2
    OBVIOUS
  <2>. QED BY <2>1, <2>2, <2>3, <2>4
<1>2. CASE found = {}
  BY <1>2, EmptySeq DEF Initial
<1>3. CASE found # {}
  <2>1. \E i \in found : \A j \in found : Len(j) <= Len(i)
    <3>1. \A i \in found : Len(i) = 1 \/ Len(i) = 2
      BY <1>1
    <3> HIDE DEF found
    <3>. QED BY <1>3, <3>1
  <2>2. Initial(token) = CHOOSE i \in found : \A j \in found : Len(j) <= Len(i)
    BY <1>3 DEF Initial
  <2>3. Initial(token) \in found /\ \A j \in found : Len(j) <= Len(Initial(token))
    <3> HIDE DEF found
    <3>. QED BY <2>1, <2>2
  <2>. QED BY <1>1, <2>3
<1>. QED BY <1>2, <1>3

\* What follows the initial.
Final(token) == SubSeq(token, Len(Initial(token)) + 1, Len(token))

\* It is a list of letters, which does not go on with the second letter of an initial.
LEMMA FinalIs ==
    ASSUME NEW token \in Seq(Letter)
    PROVE  /\ Final(token) \in Seq(Letter)
           /\ Initial(token) \in {<<"z">>, <<"c">>, <<"s">>} /\ Len(Final(token)) >= 1 => Final(token)[1] # "h"
<1> DEFINE initial == Initial(token)
<1>1. initial \in Seq(Letter) /\ Len(initial) \in Nat /\ Len(token) \in Nat
  BY InitialIs
<1> DEFINE m == Len(initial) + 1
<1>2. /\ SubSeq(token, m, Len(token)) \in Seq(Letter)
      /\ Len(SubSeq(token, m, Len(token))) = IF m <= Len(token) THEN Len(token) - m + 1 ELSE 0
      /\ \A i \in 1 .. Len(token) - m + 1 : SubSeq(token, m, Len(token))[i] = token[m + i - 1]
  <2>1. m \in Int /\ Len(token) \in Int /\ \A i \in m .. Len(token) : token[i] \in Letter
    BY <1>1
  <2> HIDE DEF m
  <2>. QED BY <2>1, SubSeqProperties
<1>3. ASSUME initial \in {<<"z">>, <<"c">>, <<"s">>}, Len(Final(token)) >= 1, Final(token)[1] = "h"
      PROVE  FALSE
  <2>1. Len(initial) = 1 /\ m = 2
    <3>1. Len(<<"z">>) = 1 /\ Len(<<"c">>) = 1 /\ Len(<<"s">>) = 1
      OBVIOUS
    <3> HIDE DEF initial
    <3>2. Len(initial) = 1
      BY <1>3, <3>1
    <3>. QED BY <3>2
  <2>2. 2 <= Len(token) /\ token[2] = "h"
    <3>1. Final(token) = SubSeq(token, m, Len(token))
      BY DEF Final
    <3> HIDE DEF m
    <3>2. 2 <= Len(token)
      BY <1>1, <1>2, <1>3, <2>1, <3>1
    <3>3. 1 \in 1 .. Len(token) - m + 1 /\ m + 1 - 1 = 2
      BY <1>1, <2>1, <3>2
    <3>4. Final(token)[1] = token[2]
      BY <1>2, <2>1, <3>1, <3>3
    <3>. QED BY <1>3, <3>2, <3>4
  <2>3. initial # <<>>
    <3>1. Len(<<>>) = 0
      OBVIOUS
    <3> HIDE DEF initial
    <3>. QED BY <2>1, <3>1
  <2>4. IsPrefix(initial, token)
    BY <2>3, InitialIs
  <2>5. token[1] = initial[1]
    <3> HIDE DEF initial
    <3>1. \A i \in 1 .. Len(initial) : initial[i] = token[i]
      BY <1>1, <2>4, PrefixIs
    <3>. QED BY <2>1, <3>1
  <2> DEFINE long == <<initial[1], "h">>
  <2>6. long \in Initials /\ long \in Seq(Letter) /\ Len(long) = 2 /\ long[1] = initial[1] /\ long[2] = "h"
    <3>1. initial[1] \in {"z", "c", "s"}
      <4> HIDE DEF initial
      <4>. QED BY <1>3
    <3>2. initial[1] \in Letter /\ "h" \in Letter
      BY <3>1, LettersOfKeys
    <3>3. long \in Seq(Letter) /\ Len(long) = 2 /\ long[1] = initial[1] /\ long[2] = "h"
      BY <3>2
    <3>. QED BY <3>1, <3>3 DEF Initials
  <2>7. IsPrefix(long, token)
    <3> HIDE DEF long, initial
    <3>1. \A i \in 1 .. Len(long) : long[i] = token[i]
      BY <2>2, <2>5, <2>6
    <3>. QED BY <2>2, <2>6, <3>1, PrefixIs
  <2>8. Len(long) <= Len(initial)
    <3> HIDE DEF long
    <3>. QED BY <2>6, <2>7, InitialIs
  <2> HIDE DEF long
  <2>. QED BY <2>1, <2>6, <2>8
<1>. QED BY <1>2, <1>3 DEF Final

\* The initials that are confused with another.
LEMMA FuzzyInitialsAre ==
    ASSUME NEW initial, NEW x \in FuzzyInitials(initial)
    PROVE  \/ x = <<initial, 0>>
           \/ \E l \in {<<"z", 1>>, <<"c", 2>>, <<"s", 3>>} :
                \/ initial = <<l[1]>> /\ x = << <<l[1], "h">>, l[2]>>
                \/ initial = <<l[1], "h">> /\ x = << <<l[1]>>, l[2]>>
           \/ \E l \in {<<"l", "n", 4>>, <<"l", "r", 5>>, <<"f", "h", 6>>} :
                \/ initial = <<l[1]>> /\ x = << <<l[2]>>, l[3]>>
                \/ initial = <<l[2]>> /\ x = << <<l[1]>>, l[3]>>
<1>1. CASE x = <<initial, 0>>
  BY <1>1
<1>2. CASE x # <<initial, 0>>
  <2>1. DOMAIN FuzzyPairs = 1 .. 6
    BY DEF FuzzyPairs
  <2>2. PICK i \in 1 .. 6 : x \in {<<FuzzyPairs[i][3 - side], i>> : side \in {k \in 1 .. 2 : FuzzyPairs[i][k] = initial}}
    BY <1>2, <2>1 DEF FuzzyInitials
  <2>3. PICK k \in 1 .. 2 : FuzzyPairs[i][k] = initial /\ x = <<FuzzyPairs[i][3 - k], i>>
    BY <2>2
  <2>4. (k = 1 /\ initial = FuzzyPairs[i][1] /\ x = <<FuzzyPairs[i][2], i>>) \/
        (k = 2 /\ initial = FuzzyPairs[i][2] /\ x = <<FuzzyPairs[i][1], i>>)
    BY <2>3
  <2>5. /\ FuzzyPairs[1] = << <<"z">>, <<"z", "h">> >> /\ FuzzyPairs[2] = << <<"c">>, <<"c", "h">> >>
        /\ FuzzyPairs[3] = << <<"s">>, <<"s", "h">> >> /\ FuzzyPairs[4] = << <<"l">>, <<"n">> >>
        /\ FuzzyPairs[5] = << <<"l">>, <<"r">> >> /\ FuzzyPairs[6] = << <<"f">>, <<"h">> >>
    BY DEF FuzzyPairs
  <2>6. CASE i \in 1 .. 3
    <3>1. i = 1 \/ i = 2 \/ i = 3
      BY <2>6
    <3>. QED BY <2>4, <2>5, <3>1
  <2>7. CASE i \in 4 .. 6
    <3>1. i = 4 \/ i = 5 \/ i = 6
      BY <2>7
    <3>. QED BY <2>4, <2>5, <3>1
  <2>. QED BY <2>6, <2>7
<1>. QED BY <1>1, <1>2

\* The finals that are confused with another differ at the end.
LEMMA FuzzyFinalsAre ==
    ASSUME NEW final \in Seq(Letter)
    PROVE  /\ \A f \in FuzzyFinals(final) :
                \/ f = <<final, 0>>
                \/ /\ f = <<f[1], 1>> /\ f[1] \in Seq(Letter) /\ Len(final) >= 2 /\ Len(f[1]) >= Len(final) - 1
                   /\ Len(f[1]) >= 1 /\ f[1][1] = final[1]
           /\ \A f, g \in FuzzyFinals(final) : f[2] = g[2] => f = g
<1>1. Len(final) \in Nat /\ "g" \in Letter
  BY LettersOfKeys
<1> DEFINE long == <<Append(final, "g"), 1>>
           short == <<Front(final), 1>>
<1>2. \A f \in FuzzyFinals(final) :
        \/ f = <<final, 0>>
        \/ f = long /\ Len(final) >= 2 /\ final[Len(final)] = "n"
        \/ f = short /\ Len(final) >= 3 /\ final[Len(final)] = "g"
  <2>1. \A v :
          /\ IsSuffix(<<v, "n">>, final) => Len(final) >= 2 /\ final[Len(final)] = "n"
          /\ IsSuffix(<<v, "n", "g">>, final) => Len(final) >= 3 /\ final[Len(final)] = "g"
    BY EndsIn
  <2>. QED BY <1>1, <2>1 DEF FuzzyFinals
<1>3. Len(final) >= 2 => /\ Append(final, "g") \in Seq(Letter) /\ Len(Append(final, "g")) = Len(final) + 1
                         /\ Append(final, "g")[1] = final[1]
  BY <1>1
<1>4. Len(final) >= 3 => /\ Front(final) \in Seq(Letter) /\ Len(Front(final)) = Len(final) - 1
                         /\ Front(final)[1] = final[1]
  <2> SUFFICES ASSUME Len(final) >= 3
               PROVE  /\ Front(final) \in Seq(Letter) /\ Len(Front(final)) = Len(final) - 1
                      /\ Front(final)[1] = final[1]
    OBVIOUS
  <2> DEFINE n == Len(final) - 1
  <2>1. n \in Int /\ 1 <= n /\ \A i \in 1 .. n : final[i] \in Letter
    BY <1>1
  <2> HIDE DEF n
  <2>2. /\ SubSeq(final, 1, n) \in Seq(Letter)
        /\ Len(SubSeq(final, 1, n)) = IF 1 <= n THEN n - 1 + 1 ELSE 0
        /\ \A i \in 1 .. n - 1 + 1 : SubSeq(final, 1, n)[i] = final[1 + i - 1]
    BY <2>1, SubSeqProperties
  <2>3. SubSeq(final, 1, n)[1] = final[1] /\ Len(SubSeq(final, 1, n)) = n
    BY <2>1, <2>2
  <2>. QED BY <2>2, <2>3 DEF Front, n
<1> DEFINE x == Append(final, "g")
           y == Front(final)
<1>5. long = <<x, 1>> /\ short = <<y, 1>> /\ long[1] = x /\ long[2] = 1 /\ short[1] = y /\ short[2] = 1
  OBVIOUS
<1> HIDE DEF x, y, long, short
<1>6. \A f \in FuzzyFinals(final) :
        \/ f = <<final, 0>>
        \/ /\ f = <<f[1], 1>> /\ f[1] \in Seq(Letter) /\ Len(final) >= 2 /\ Len(f[1]) >= Len(final) - 1
           /\ Len(f[1]) >= 1 /\ f[1][1] = final[1]
  <2> SUFFICES ASSUME NEW f \in FuzzyFinals(final), f # <<final, 0>>
               PROVE  /\ f = <<f[1], 1>> /\ f[1] \in Seq(Letter) /\ Len(final) >= 2 /\ Len(f[1]) >= Len(final) - 1
                      /\ Len(f[1]) >= 1 /\ f[1][1] = final[1]
    OBVIOUS
  <2>1. CASE f = long /\ Len(final) >= 2
    <3>1. x \in Seq(Letter) /\ Len(x) = Len(final) + 1 /\ x[1] = final[1]
      BY <1>3, <2>1 DEF x
    <3>. QED BY <1>1, <1>5, <2>1, <3>1
  <2>2. CASE f = short /\ Len(final) >= 3
    <3>1. y \in Seq(Letter) /\ Len(y) = Len(final) - 1 /\ y[1] = final[1]
      BY <1>4, <2>2 DEF y
    <3>. QED BY <1>1, <1>5, <2>2, <3>1
  <2>. QED BY <1>2, <2>1, <2>2
<1>7. \A f, g \in FuzzyFinals(final) : f[2] = g[2] => f = g
  <2>1. <<final, 0>>[2] = 0
    OBVIOUS
  <2>. QED BY <1>2, <1>5, <2>1
<1>. QED BY <1>6, <1>7

\* The second of two lists that are put together.
LEMMA SecondOfTwo ==
    ASSUME NEW E, NEW s \in Seq(E), NEW t \in Seq(E)
    PROVE  \A i \in 1 .. Len(t) : (s \o t)[Len(s) + i] = t[i]
<1>1. /\ Len(s) \in Nat /\ Len(t) \in Nat
      /\ \A k \in 1 .. Len(s) + Len(t) : (s \o t)[k] = IF k <= Len(s) THEN s[k] ELSE t[k - Len(s)]
  BY ConcatProperties
<1> DEFINE a == Len(s)
           c == Len(t)
           st == s \o t
<1>2. a \in Nat /\ c \in Nat /\ \A k \in 1 .. a + c : st[k] = IF k <= a THEN s[k] ELSE t[k - a]
  BY <1>1
<1> HIDE DEF a, c, st
<1>3. ASSUME NEW i \in 1 .. c PROVE st[a + i] = t[i]
  <2> DEFINE k == a + i
  <2>1. k \in 1 .. a + c /\ ~(k <= a) /\ k - a = i
    BY <1>2
  <2> HIDE DEF k
  <2>2. st[k] = t[i]
    BY <1>2, <2>1
  <2>. QED BY <2>2 DEF k
<1>. QED BY <1>3 DEF a, c, st

\* An initial is confused with at most one other in each way.
LEMMA FuzzyInitialsDiffer ==
    ASSUME NEW initial, NEW x \in FuzzyInitials(initial), NEW y \in FuzzyInitials(initial), x[2] = y[2]
    PROVE  x = y
<1> DEFINE At(i, side) == <<FuzzyPairs[i][3 - side], i>>
<1>1. DOMAIN FuzzyPairs = 1 .. 6
  BY DEF FuzzyPairs
<1>2. \A z \in FuzzyInitials(initial) :
        z = <<initial, 0>> \/ \E i \in 1 .. 6, k \in 1 .. 2 : FuzzyPairs[i][k] = initial /\ z = <<FuzzyPairs[i][3 - k], i>>
  BY <1>1 DEF FuzzyInitials
<1>3. \A i \in 1 .. 6 : FuzzyPairs[i][1] # FuzzyPairs[i][2]
  <2>1. \A l : Len(<<l>>) = 1 /\ <<l>>[1] = l /\ \A m : Len(<<l, m>>) = 2
    OBVIOUS
  <2>2. /\ FuzzyPairs[1] = << <<"z">>, <<"z", "h">> >> /\ FuzzyPairs[2] = << <<"c">>, <<"c", "h">> >>
        /\ FuzzyPairs[3] = << <<"s">>, <<"s", "h">> >> /\ FuzzyPairs[4] = << <<"l">>, <<"n">> >>
        /\ FuzzyPairs[5] = << <<"l">>, <<"r">> >> /\ FuzzyPairs[6] = << <<"f">>, <<"h">> >>
    BY DEF FuzzyPairs
  <2>3. \A i \in 1 .. 6 : i = 1 \/ i = 2 \/ i = 3 \/ i = 4 \/ i = 5 \/ i = 6
    OBVIOUS
  <2>. QED BY <2>1, <2>2, <2>3
<1>4. CASE x = <<initial, 0>> \/ y = <<initial, 0>>
  BY <1>2, <1>4
<1>5. ASSUME NEW i \in 1 .. 6, NEW k \in 1 .. 2, FuzzyPairs[i][k] = initial, x = <<FuzzyPairs[i][3 - k], i>>,
             NEW j \in 1 .. 6, NEW l \in 1 .. 2, FuzzyPairs[j][l] = initial, y = <<FuzzyPairs[j][3 - l], j>>
      PROVE  x = y
  <2>1. i = j
    BY <1>5
  <2>2. k = l
    BY <1>3, <1>5, <2>1
  <2>. QED BY <1>5, <2>1, <2>2
<1>. QED BY <1>2, <1>4, <1>5

\* Confused initials are letters again.
LEMMA FuzzyInitialTypes ==
    ASSUME NEW initial \in Seq(Letter), NEW x \in FuzzyInitials(initial)
    PROVE  x = <<x[1], x[2]>> /\ x[1] \in Seq(Letter) /\ x[2] \in 0 .. 6 /\ (x[2] = 0 => x[1] = initial)
<1>1. CASE x = <<initial, 0>>
  BY <1>1
<1>2. CASE x # <<initial, 0>>
  <2>1. /\ "z" \in Letter /\ "c" \in Letter /\ "s" \in Letter /\ "h" \in Letter
        /\ "l" \in Letter /\ "n" \in Letter /\ "r" \in Letter /\ "f" \in Letter
    BY LettersOfKeys
  <2>2. \A l \in Letter : <<l>> \in Seq(Letter) /\ \A m \in Letter : <<l, m>> \in Seq(Letter)
    OBVIOUS
  <2>3. CASE \E l \in {<<"z", 1>>, <<"c", 2>>, <<"s", 3>>} :
                \/ initial = <<l[1]>> /\ x = << <<l[1], "h">>, l[2]>>
                \/ initial = <<l[1], "h">> /\ x = << <<l[1]>>, l[2]>>
    <3>1. PICK l \in {<<"z", 1>>, <<"c", 2>>, <<"s", 3>>} :
                \/ initial = <<l[1]>> /\ x = << <<l[1], "h">>, l[2]>>
                \/ initial = <<l[1], "h">> /\ x = << <<l[1]>>, l[2]>>
      BY <2>3
    <3>2. l[1] \in Letter /\ l[2] \in 1 .. 3
      BY <2>1
    <3>3. <<l[1], "h">> \in Seq(Letter) /\ <<l[1]>> \in Seq(Letter)
      BY <2>1, <2>2, <3>2
    <3>4. PICK a \in Seq(Letter), k \in 1 .. 3 : x = <<a, k>>
      BY <3>1, <3>2, <3>3
    <3>. QED BY <3>4
  <2>4. CASE \E l \in {<<"l", "n", 4>>, <<"l", "r", 5>>, <<"f", "h", 6>>} :
                \/ initial = <<l[1]>> /\ x = << <<l[2]>>, l[3]>>
                \/ initial = <<l[2]>> /\ x = << <<l[1]>>, l[3]>>
    <3>1. PICK l \in {<<"l", "n", 4>>, <<"l", "r", 5>>, <<"f", "h", 6>>} :
                \/ initial = <<l[1]>> /\ x = << <<l[2]>>, l[3]>>
                \/ initial = <<l[2]>> /\ x = << <<l[1]>>, l[3]>>
      BY <2>4
    <3>2. l[1] \in Letter /\ l[2] \in Letter /\ l[3] \in 4 .. 6
      BY <2>1
    <3>3. <<l[1]>> \in Seq(Letter) /\ <<l[2]>> \in Seq(Letter)
      BY <2>2, <3>2
    <3>. QED BY <3>1, <3>2, <3>3
  <2>. QED BY <1>2, <2>3, <2>4, FuzzyInitialsAre
<1>. QED BY <1>1, <1>2

\* The variant of a confused initial and a confused final.
VariantOf(x, f) ==
  [key |-> x[1] \o f[1], edits |-> Penalty(x[2] # 0) + Penalty(f[2] # 0), place |-> <<x[2], f[2]>>]

\* What a variant is, by its place.
LEMMA VariantsAre ==
    ASSUME NEW token \in Seq(Letter)
    PROVE  /\ Variants(token) =
                {VariantOf(x, f) : x \in FuzzyInitials(Initial(token)), f \in FuzzyFinals(Final(token))}
           /\ \A v \in Variants(token) :
                v.key \in Seq(Letter) /\ v.edits \in 0 .. 2 /\ v.place \in (0 .. 6) \X (0 .. 1) /\ v.place \in Ranks(2)
           /\ \A v, w \in Variants(token) : v.place = w.place => v = w
           /\ IsFiniteSet(Variants(token))
<1> DEFINE X == FuzzyInitials(Initial(token))
           F == FuzzyFinals(Final(token))
<1>1. Variants(token) = {VariantOf(x, f) : x \in X, f \in F}
  BY DEF Variants, VariantOf, Final
<1>2. Initial(token) \in Seq(Letter) /\ Final(token) \in Seq(Letter)
  BY InitialIs, FinalIs
<1>3. \A x \in X : x = <<x[1], x[2]>> /\ x[1] \in Seq(Letter) /\ x[2] \in 0 .. 6
  BY <1>2, FuzzyInitialTypes
<1>4. \A f \in F : f = <<f[1], f[2]>> /\ f[1] \in Seq(Letter) /\ f[2] \in 0 .. 1
  <2>1. \A f \in F : f = <<Final(token), 0>> \/ (f = <<f[1], 1>> /\ f[1] \in Seq(Letter))
    BY <1>2, FuzzyFinalsAre
  <2>2. \A f \in F : f = <<Final(token), 0>> => f = <<f[1], f[2]>> /\ f[1] \in Seq(Letter) /\ f[2] \in 0 .. 1
    BY <1>2
  <2>3. \A f \in F : f = <<f[1], 1>> => f = <<f[1], f[2]>> /\ f[2] \in 0 .. 1
    OBVIOUS
  <2> HIDE DEF F
  <2>. QED BY <2>1, <2>2, <2>3
<1>5. \A x, y \in X : x[2] = y[2] => x = y
  BY FuzzyInitialsDiffer
<1>6. \A f, g \in F : f[2] = g[2] => f = g
  BY <1>2, FuzzyFinalsAre
<1> HIDE DEF X, F
<1>7. ASSUME NEW v \in Variants(token)
      PROVE  v.key \in Seq(Letter) /\ v.edits \in 0 .. 2 /\ v.place \in (0 .. 6) \X (0 .. 1) /\ v.place \in Ranks(2)
  <2>1. PICK x \in X, f \in F : v = VariantOf(x, f)
    BY <1>1
  <2>2. v.key = x[1] \o f[1] /\ v.edits = Penalty(x[2] # 0) + Penalty(f[2] # 0) /\ v.place = <<x[2], f[2]>>
    BY <2>1 DEF VariantOf
  <2>3. x[1] \in Seq(Letter) /\ f[1] \in Seq(Letter) /\ x[2] \in 0 .. 6 /\ f[2] \in 0 .. 1
    BY <1>3, <1>4
  <2>4. v.key \in Seq(Letter)
    BY <2>2, <2>3, ConcatProperties
  <2>5. v.edits \in 0 .. 2
    BY <2>2 DEF Penalty
  <2>6. v.place \in Ranks(2)
    BY <2>2, <2>3 DEF Ranks
  <2>. QED BY <2>2, <2>3, <2>4, <2>5, <2>6
<1>8. ASSUME NEW v \in Variants(token), NEW w \in Variants(token), v.place = w.place PROVE v = w
  <2>1. PICK x \in X, f \in F : v = VariantOf(x, f)
    BY <1>1
  <2>2. PICK y \in X, g \in F : w = VariantOf(y, g)
    BY <1>1
  <2>3. v.place = <<x[2], f[2]>> /\ w.place = <<y[2], g[2]>>
    BY <2>1, <2>2 DEF VariantOf
  <2> DEFINE a == x[2]
             b == y[2]
             c == f[2]
             d == g[2]
  <2>5. <<a, c>> = <<b, d>> => a = b /\ c = d
    <3> HIDE DEF a, b, c, d
    <3>. QED OBVIOUS
  <2>6. a = b /\ c = d
    BY <1>8, <2>3, <2>5
  <2>4. x = y /\ f = g
    BY <1>5, <1>6, <2>6
  <2>. QED BY <2>1, <2>2, <2>4
<1>9. IsFiniteSet(Variants(token))
  <2> DEFINE P == (0 .. 6) \X (0 .. 1)
             place == [v \in Variants(token) |-> v.place]
  <2>1. IsFiniteSet(0 .. 6) /\ IsFiniteSet(0 .. 1)
    <3>1. \A a, b \in Int : IsFiniteSet(a .. b)
      BY FS_Interval
    <3>2. 0 \in Int /\ 1 \in Int /\ 6 \in Int
      OBVIOUS
    <3>. QED BY <3>1, <3>2, Zenon
  <2>2. IsFiniteSet(P)
    BY <2>1, FS_Product
  <2>3. place \in Injection(Variants(token), P)
    BY <1>7, <1>8 DEF Injection, IsInjective
  <2> HIDE DEF place, P
  <2>. QED BY <2>2, <2>3, FS_Injection
<1>. QED BY <1>1, <1>7, <1>8, <1>9 DEF X, F

\* Of two variants that a key starts with, the first one is no worse.
LEMMA FirstVariantIsBest ==
    ASSUME NEW token \in Seq(Letter), NEW v \in Variants(token), NEW w \in Variants(token),
           NEW key \in Seq(Letter), IsPrefix(v.key, key), IsPrefix(w.key, key), Less(v.place, w.place)
    PROVE  v.edits < w.edits \/ (v.edits = w.edits /\ Len(v.key) >= Len(w.key))
<1> DEFINE initial == Initial(token)
           final == Final(token)
<1>1. initial \in Seq(Letter) /\ final \in Seq(Letter) /\ Len(final) \in Nat
  BY InitialIs, FinalIs
<1>2. PICK x \in FuzzyInitials(initial), f \in FuzzyFinals(final) : v = VariantOf(x, f)
  BY VariantsAre
<1>3. PICK y \in FuzzyInitials(initial), g \in FuzzyFinals(final) : w = VariantOf(y, g)
  BY VariantsAre
<1>4. /\ x[1] \in Seq(Letter) /\ y[1] \in Seq(Letter) /\ x[2] \in 0 .. 6 /\ y[2] \in 0 .. 6
      /\ x = <<x[1], x[2]>> /\ y = <<y[1], y[2]>>
  BY <1>1, FuzzyInitialTypes
<1>5. \A h \in FuzzyFinals(final) :
        \/ h = <<final, 0>> /\ h[1] = final /\ h[2] = 0 /\ h[1] \in Seq(Letter)
        \/ /\ h[2] = 1 /\ h[1] \in Seq(Letter) /\ Len(final) >= 2 /\ Len(h[1]) >= Len(final) - 1
           /\ Len(h[1]) >= 1 /\ h[1][1] = final[1]
  <2>1. \A h \in FuzzyFinals(final) :
          \/ h = <<final, 0>>
          \/ /\ h = <<h[1], 1>> /\ h[1] \in Seq(Letter) /\ Len(final) >= 2 /\ Len(h[1]) >= Len(final) - 1
             /\ Len(h[1]) >= 1 /\ h[1][1] = final[1]
    BY <1>1, FuzzyFinalsAre
  <2>2. \A h : h = <<final, 0>> => h[1] = final /\ h[2] = 0
    OBVIOUS
  <2>3. \A h : h = <<h[1], 1>> => h[2] = 1
    OBVIOUS
  <2> HIDE DEF initial, final
  <2>. QED BY <1>1, <2>1, <2>2, <2>3
<1>6. /\ v.key = x[1] \o f[1] /\ v.edits = Penalty(x[2] # 0) + Penalty(f[2] # 0) /\ v.place = <<x[2], f[2]>>
      /\ w.key = y[1] \o g[1] /\ w.edits = Penalty(y[2] # 0) + Penalty(g[2] # 0) /\ w.place = <<y[2], g[2]>>
  BY <1>2, <1>3 DEF VariantOf
<1> HIDE DEF initial, final
<1>7. f[1] \in Seq(Letter) /\ g[1] \in Seq(Letter) /\ f[2] \in 0 .. 1 /\ g[2] \in 0 .. 1
  BY <1>5
<1>8. x[2] < y[2] \/ (x[2] = y[2] /\ f[2] < g[2])
  <2>1. PICK i \in DOMAIN v.place : v.place[i] < w.place[i] /\ \A j \in 1 .. i - 1 : v.place[j] = w.place[j]
    BY DEF Less
  <2>2. i = 1 \/ (i = 2 /\ v.place[1] = w.place[1])
    BY <1>6, <2>1
  <2>. QED BY <1>6, <2>1, <2>2
<1>9. /\ Len(v.key) = Len(x[1]) + Len(f[1]) /\ Len(w.key) = Len(y[1]) + Len(g[1])
      /\ Len(x[1]) \in Nat /\ Len(y[1]) \in Nat /\ Len(f[1]) \in Nat /\ Len(g[1]) \in Nat
      /\ \A i \in 1 .. Len(x[1]) : v.key[i] = x[1][i]
      /\ \A i \in 1 .. Len(y[1]) : w.key[i] = y[1][i]
      /\ \A i \in 1 .. Len(f[1]) : v.key[Len(x[1]) + i] = f[1][i]
  <2>1. /\ Len(x[1] \o f[1]) = Len(x[1]) + Len(f[1])
        /\ \A i \in 1 .. Len(x[1]) + Len(f[1]) :
             (x[1] \o f[1])[i] = IF i <= Len(x[1]) THEN x[1][i] ELSE f[1][i - Len(x[1])]
    BY <1>4, <1>7, ConcatProperties
  <2>2. /\ Len(y[1] \o g[1]) = Len(y[1]) + Len(g[1])
        /\ \A i \in 1 .. Len(y[1]) + Len(g[1]) :
             (y[1] \o g[1])[i] = IF i <= Len(y[1]) THEN y[1][i] ELSE g[1][i - Len(y[1])]
    BY <1>4, <1>7, ConcatProperties
  <2>3. Len(x[1]) \in Nat /\ Len(y[1]) \in Nat /\ Len(f[1]) \in Nat /\ Len(g[1]) \in Nat
    BY <1>4, <1>7
  <2>4. /\ \A i \in 1 .. Len(x[1]) : i \in 1 .. Len(x[1]) + Len(f[1]) /\ i <= Len(x[1])
        /\ \A i \in 1 .. Len(y[1]) : i \in 1 .. Len(y[1]) + Len(g[1]) /\ i <= Len(y[1])
        /\ \A i \in 1 .. Len(f[1]) :
             /\ Len(x[1]) + i \in 1 .. Len(x[1]) + Len(f[1]) /\ ~(Len(x[1]) + i <= Len(x[1]))
             /\ Len(x[1]) + i - Len(x[1]) = i
    <3> DEFINE a == Len(x[1])
               b == Len(y[1])
               c == Len(f[1])
               d == Len(g[1])
    <3>1. a \in Nat /\ b \in Nat /\ c \in Nat /\ d \in Nat
      BY <2>3
    <3> HIDE DEF a, b, c, d
    <3>2. /\ \A i \in 1 .. a : i \in 1 .. a + c /\ i <= a
          /\ \A i \in 1 .. b : i \in 1 .. b + d /\ i <= b
          /\ \A i \in 1 .. c : a + i \in 1 .. a + c /\ ~(a + i <= a) /\ a + i - a = i
      BY <3>1
    <3>. QED BY <3>2 DEF a, b, c, d
  <2>5. \A i \in 1 .. Len(f[1]) : (x[1] \o f[1])[Len(x[1]) + i] = f[1][i]
    BY <1>4, <1>7, SecondOfTwo
  <2>. QED BY <1>6, <2>1, <2>2, <2>3, <2>4, <2>5
<1>10. \A i \in Nat \ {0} : i <= Len(v.key) /\ i <= Len(w.key) => v.key[i] = w.key[i]
  <2>1. v.key \in Seq(Letter) /\ w.key \in Seq(Letter)
    BY VariantsAre
  <2>2. \A i \in 1 .. Len(v.key) : v.key[i] = key[i]
    BY <2>1, PrefixIs
  <2>3. \A i \in 1 .. Len(w.key) : w.key[i] = key[i]
    BY <2>1, PrefixIs
  <2>. QED BY <2>1, <2>2, <2>3
<1>11. CASE x[2] = y[2]
  <2>1. f[2] = 0 /\ g[2] = 1
    BY <1>7, <1>8, <1>11, <1>4
  <2>. QED BY <1>6, <1>11, <2>1 DEF Penalty
<1>12. CASE 0 < x[2] /\ x[2] < y[2]
  <2>1. x # <<initial, 0>> /\ y # <<initial, 0>>
    BY <1>4, <1>12
  <2>2. x = << <<"n">>, 4>> /\ y = << <<"r">>, 5>>
    BY <1>12, <2>1, FuzzyInitialsAre
  <2>3. Len(x[1]) = 1 /\ Len(y[1]) = 1 /\ x[1][1] = "n" /\ y[1][1] = "r"
    BY <2>2
  <2>4. v.key[1] = x[1][1] /\ w.key[1] = y[1][1] /\ 1 <= Len(v.key) /\ 1 <= Len(w.key)
    BY <1>9, <2>3
  <2>. QED BY <1>10, <2>3, <2>4
<1>13. CASE x[2] = 0 /\ 0 < y[2]
  <2>1. v.edits = f[2] /\ w.edits = 1 + g[2]
    BY <1>6, <1>7, <1>13 DEF Penalty
  <2>2. CASE f[2] = 0 \/ g[2] = 1
    BY <1>7, <2>1, <2>2
  <2>3. CASE f[2] = 1 /\ g[2] = 0
    <3>1. /\ g[1] = final /\ Len(final) >= 2 /\ Len(f[1]) >= Len(final) - 1
          /\ Len(f[1]) >= 1 /\ f[1][1] = final[1]
      BY <1>5, <2>3
    <3>2. x[1] = initial /\ y # <<initial, 0>>
      BY <1>1, <1>13, FuzzyInitialTypes
    <3>3. CASE \E l \in {<<"z", 1>>, <<"c", 2>>, <<"s", 3>>} : initial = <<l[1], "h">> /\ y = << <<l[1]>>, l[2]>>
      <4>1. Len(x[1]) = 2 /\ Len(y[1]) = 1
        BY <3>2, <3>3
      <4>. QED BY <1>1, <1>9, <2>1, <2>3, <3>1, <4>1
    <3>4. CASE \E l \in {<<"z", 1>>, <<"c", 2>>, <<"s", 3>>} : initial = <<l[1]>> /\ y = << <<l[1], "h">>, l[2]>>
      <4>1. /\ Len(x[1]) = 1 /\ Len(y[1]) = 2 /\ y[1][2] = "h"
            /\ initial \in {<<"z">>, <<"c">>, <<"s">>}
        BY <3>2, <3>4
      <4>2. final[1] # "h"
        BY <1>1, <3>1, <4>1, FinalIs DEF initial, final
      <4>3. v.key[2] = final[1] /\ w.key[2] = "h"
        <5>1. 1 \in 1 .. Len(f[1]) /\ 2 \in 1 .. Len(y[1])
          BY <1>9, <3>1, <4>1
        <5>2. v.key[Len(x[1]) + 1] = f[1][1] /\ w.key[2] = y[1][2]
          BY <1>9, <5>1
        <5>. QED BY <3>1, <4>1, <5>2
      <4>4. 2 <= Len(v.key) /\ 2 <= Len(w.key)
        BY <1>9, <3>1, <4>1
      <4>. QED BY <1>10, <4>2, <4>3, <4>4
    <3>5. CASE \E l \in {<<"l", "n", 4>>, <<"l", "r", 5>>, <<"f", "h", 6>>} :
                \/ initial = <<l[1]>> /\ y = << <<l[2]>>, l[3]>>
                \/ initial = <<l[2]>> /\ y = << <<l[1]>>, l[3]>>
      <4>1. Len(x[1]) = 1 /\ Len(y[1]) = 1 /\ x[1][1] # y[1][1]
        BY <3>2, <3>5
      <4>2. v.key[1] = x[1][1] /\ w.key[1] = y[1][1] /\ 1 <= Len(v.key) /\ 1 <= Len(w.key)
        BY <1>9, <4>1
      <4>. QED BY <1>10, <4>1, <4>2
    <3>. QED BY <3>2, <3>3, <3>4, <3>5, FuzzyInitialsAre
  <2>. QED BY <1>7, <2>2, <2>3
<1>. QED BY <1>4, <1>7, <1>8, <1>11, <1>12, <1>13

-----------------------------------------------------------------------------
(* Matcher: the keys of a token *)

\* The types of a query.
Types == {"char", "surname"}

\* The keys of a dictionary are different, and each has its bucket.
LEMMA DictionaryIs ==
    ASSUME NEW type \in Types
    PROVE  /\ KeysIn(type) \in Seq(Seq(Letter)) /\ Len(KeysIn(type)) \in Nat
           /\ DOMAIN KeysIn(type) = 1 .. Len(KeysIn(type))
           /\ \A i, j \in DOMAIN KeysIn(type) : KeysIn(type)[i] = KeysIn(type)[j] => i = j
           /\ ToSet(KeysIn(type)) \subseteq Seq(Letter)
           /\ \A key \in ToSet(KeysIn(type)) : Bucket(type, key) \in Seq(DOMAIN Canonical)
<1> DEFINE D == Dictionary[type]
           T == Seq(Letter) \X Seq(DOMAIN Canonical)
<1>1. D \in Seq(T) /\ \A i, j \in DOMAIN D : D[i][1] = D[j][1] => i = j
  BY MatcherAssumption DEF MatcherAssumption, Types
<1>2. KeysIn(type) = [i \in DOMAIN D |-> D[i][1]] /\ DOMAIN KeysIn(type) = DOMAIN D
  BY DEF KeysIn
<1>3. /\ Len(D) \in Nat /\ DOMAIN D = 1 .. Len(D)
      /\ \A i \in DOMAIN D : D[i][1] \in Seq(Letter) /\ D[i][2] \in Seq(DOMAIN Canonical)
  <2>1. Len(D) \in Nat /\ DOMAIN D = 1 .. Len(D) /\ \A i \in DOMAIN D : D[i] \in T
    <3> HIDE DEF D, T
    <3>. QED BY <1>1, ElementOfSeq, LenProperties
  <2> HIDE DEF D
  <2>. QED BY <2>1
<1> HIDE DEF D, T
<1>4. KeysIn(type) \in Seq(Seq(Letter))
  <2>1. KeysIn(type) \in [1 .. Len(D) -> Seq(Letter)]
    BY <1>2, <1>3
  <2>. QED BY <1>3, <2>1, SeqDef
<1>5. ToSet(KeysIn(type)) = {D[i][1] : i \in DOMAIN D}
  BY <1>2 DEF ToSet
<1>6. ASSUME NEW key \in ToSet(KeysIn(type)) PROVE Bucket(type, key) \in Seq(DOMAIN Canonical)
  <2>1. \E i \in DOMAIN D : D[i][1] = key
    BY <1>5
  <2>2. Bucket(type, key) = D[CHOOSE i \in DOMAIN D : D[i][1] = key][2]
    BY DEF Bucket, D
  <2>. QED BY <1>3, <2>1, <2>2
<1>7. Len(KeysIn(type)) \in Nat /\ DOMAIN KeysIn(type) = 1 .. Len(KeysIn(type))
  BY <1>4, LenProperties
<1>. QED BY <1>1, <1>2, <1>3, <1>4, <1>5, <1>6, <1>7

\* When three parts are no worse.
LEMMA NotLess3 ==
    ASSUME NEW a \in Int, NEW b \in Int, NEW c \in Int, NEW x \in Int, NEW y \in Int, NEW z \in Int,
           x < a \/ (x = a /\ y < b) \/ (x = a /\ y = b /\ z <= c)
    PROVE  ~Less(<<a, b, c>>, <<x, y, z>>) /\ <<a, b, c>> \in Ranks(3)
<1> DEFINE s == <<a, b, c>>
           t == <<x, y, z>>
<1>1. DOMAIN s = 1 .. 3 /\ s[1] = a /\ s[2] = b /\ s[3] = c /\ t[1] = x /\ t[2] = y /\ t[3] = z
  OBVIOUS
<1>2. s \in Ranks(3)
  BY DEF Ranks
<1> HIDE DEF s, t
<1>3. ASSUME NEW i \in 1 .. 3, s[i] < t[i], \A j \in 1 .. i - 1 : s[j] = t[j] PROVE FALSE
  <2>1. i = 1 \/ (i = 2 /\ s[1] = t[1]) \/ (i = 3 /\ s[1] = t[1] /\ s[2] = t[2])
    BY <1>3
  <2>. QED BY <1>1, <1>3, <2>1
<1>4. ~Less(s, t)
  BY <1>1, <1>3 DEF Less
<1>. QED BY <1>2, <1>4 DEF s, t

\* How a variant matches a whole key.
Kind(v) == IF v.edits = 0 THEN Exact ELSE Fuzzy

\* Where matches come from, and their parts.
LEMMA MatchesAre ==
    ASSUME NEW type \in Types, NEW token \in Seq(Letter)
    PROVE  LET V == Variants(token)
               K == KeysIn(type)
               W == WholeMatches(type, V)
               S == StartMatches(type, V)
           IN /\ W = {Match(v, v.key, Kind(v), 0) : v \in {v \in V : v.key \in ToSet(K)}}
              /\ \A m : m \in S <=> \E v \in V, k \in DOMAIN K : IsPrefix(v.key, K[k]) /\ m = Match(v, K[k], Prefix, k)
              /\ \A key, lock : \A v, w \in V, k, l \in Nat :
                   Match(v, key, 0, k).rank = Match(w, lock, 0, l).rank => v = w /\ k = l
              /\ \A m \in W \cup S : m.way \in Ranks(3) /\ m.rank \in Ranks(3)
<1> DEFINE V == Variants(token)
           K == KeysIn(type)
           W == WholeMatches(type, V)
           S == StartMatches(type, V)
<1>1. W = {Match(v, v.key, Kind(v), 0) : v \in {v \in V : v.key \in ToSet(K)}}
  BY DEF WholeMatches, Kind
<1>2. \A m : m \in S <=> \E v \in V, k \in DOMAIN K : IsPrefix(v.key, K[k]) /\ m = Match(v, K[k], Prefix, k)
  BY DEF StartMatches
<1>3. \A v \in V : v.key \in Seq(Letter) /\ v.edits \in 0 .. 2 /\ v.place \in Ranks(2)
  BY VariantsAre
<1>4. \A v, w \in V : v.place = w.place => v = w
  BY VariantsAre
<1>5. \A k \in Nat : <<k>> \in Ranks(1)
  BY DEF Ranks
<1>6. /\ K \in Seq(Seq(Letter)) /\ DOMAIN K \subseteq Nat /\ ToSet(K) \subseteq Seq(Letter)
      /\ \A k \in DOMAIN K : K[k] \in Seq(Letter)
  <2>1. K \in Seq(Seq(Letter)) /\ DOMAIN K = 1 .. Len(K) /\ ToSet(K) \subseteq Seq(Letter) /\ Len(K) \in Nat
    BY DictionaryIs
  <2> HIDE DEF K
  <2>2. \A k \in DOMAIN K : K[k] \in Seq(Letter)
    BY <2>1, ElementOfSeq
  <2>. QED BY <2>1, <2>2
<1> HIDE DEF V, K, W, S
<1>7. ASSUME NEW v \in V, NEW w \in V, NEW k \in Nat, NEW l \in Nat, NEW key, NEW lock,
             Match(v, key, 0, k).rank = Match(w, lock, 0, l).rank
      PROVE  v = w /\ k = l
  <2>1. Joined(v.place, <<k>>) = Joined(w.place, <<l>>)
    BY <1>7, Zenon DEF Match, Joined
  <2>2. v.place \in Ranks(2) /\ w.place \in Ranks(2) /\ <<k>> \in Ranks(1) /\ <<l>> \in Ranks(1)
    BY <1>3, <1>5
  <2>3. v.place = w.place /\ <<k>> = <<l>>
    BY <2>1, <2>2, LessJoined
  <2>. QED BY <1>4, <2>3
<1>8. ASSUME NEW v \in V, NEW key \in Seq(Letter), NEW kind \in 0 .. 2, NEW k \in Nat
      PROVE  Match(v, key, kind, k).way \in Ranks(3) /\ Match(v, key, kind, k).rank \in Ranks(3)
  <2>1. v.edits \in Int /\ kind \in Int /\ Len(key) - Len(v.key) \in Int
    BY <1>3
  <2>2. <<kind, v.edits, Len(key) - Len(v.key)>> \in Ranks(3)
    <3> DEFINE n == Len(key) - Len(v.key)
               e == v.edits
    <3>1. n \in Int /\ e \in Int
      BY <2>1
    <3> HIDE DEF n, e
    <3>2. <<kind, e, n>> \in Ranks(3)
      BY <3>1 DEF Ranks
    <3>. QED BY <3>2 DEF n, e
  <2>3. Joined(v.place, <<k>>) \in Ranks(3)
    <3>1. Joined(v.place, <<k>>) \in Ranks(2 + 1)
      BY <1>3, <1>5, LessJoined
    <3>. QED BY <3>1
  <2>. QED BY <2>2, <2>3 DEF Match, Joined
<1>9. ASSUME NEW m \in W PROVE m.way \in Ranks(3) /\ m.rank \in Ranks(3)
  <2>1. PICK v \in V : v.key \in ToSet(K) /\ m = Match(v, v.key, Kind(v), 0)
    BY <1>1
  <2>2. Kind(v) \in 0 .. 2 /\ v.key \in Seq(Letter)
    BY <1>3 DEF Kind, Exact, Fuzzy
  <2>. QED BY <1>8, <2>1, <2>2
<1>10. ASSUME NEW m \in S PROVE m.way \in Ranks(3) /\ m.rank \in Ranks(3)
  <2>1. PICK v \in V, k \in DOMAIN K : m = Match(v, K[k], Prefix, k)
    BY <1>2
  <2>2. Prefix \in 0 .. 2 /\ k \in Nat /\ K[k] \in Seq(Letter)
    BY <1>6 DEF Prefix
  <2>. QED BY <1>8, <2>1, <2>2
<1>. QED BY <1>1, <1>2, <1>7, <1>9, <1>10 DEF V, K, W, S

\* Matches are ranked, and matches of one kind have different ranks.
LEMMA MatchesAreRanked ==
    ASSUME NEW type \in Types, NEW token \in Seq(Letter)
    PROVE  LET W == WholeMatches(type, Variants(token))
               S == StartMatches(type, Variants(token))
           IN /\ RankedBy(W, 3) /\ \A m, n \in W : m.rank = n.rank => m = n
              /\ RankedBy(S, 3) /\ \A m, n \in S : m.rank = n.rank => m = n
              /\ \A m \in W : m.way[1] \in {Exact, Fuzzy}
              /\ \A m \in S : m.way[1] = Prefix
<1> DEFINE V == Variants(token)
           K == KeysIn(type)
           W == WholeMatches(type, V)
           S == StartMatches(type, V)
<1>1. /\ W = {Match(v, v.key, Kind(v), 0) : v \in {v \in V : v.key \in ToSet(K)}}
      /\ \A m : m \in S <=> \E v \in V, k \in DOMAIN K : IsPrefix(v.key, K[k]) /\ m = Match(v, K[k], Prefix, k)
      /\ \A key, lock : \A v, w \in V, k, l \in Nat :
           Match(v, key, 0, k).rank = Match(w, lock, 0, l).rank => v = w /\ k = l
      /\ \A m \in W \cup S : m.way \in Ranks(3) /\ m.rank \in Ranks(3)
  BY MatchesAre
<1>2. DOMAIN K = 1 .. Len(K) /\ Len(K) \in Nat
  BY DictionaryIs
<1>3. IsFiniteSet(V)
  BY VariantsAre
<1> HIDE DEF V, K, W, S
<1>4. \A v, key, kind, k : Match(v, key, kind, k).rank = Match(v, key, 0, k).rank /\ Match(v, key, kind, k).way[1] = kind
  BY DEF Match
<1>5. \A m, n \in W : m.rank = n.rank => m = n
  <2> SUFFICES ASSUME NEW m \in W, NEW n \in W, m.rank = n.rank PROVE m = n
    OBVIOUS
  <2>1. PICK v \in V : m = Match(v, v.key, Kind(v), 0)
    BY <1>1
  <2>2. PICK w \in V : n = Match(w, w.key, Kind(w), 0)
    BY <1>1
  <2>3. Match(v, v.key, 0, 0).rank = Match(w, w.key, 0, 0).rank
    BY <1>4, <2>1, <2>2
  <2>4. v = w
    <3>1. 0 \in Nat
      OBVIOUS
    <3>2. \A key, lock : \A k, l \in Nat : Match(v, key, 0, k).rank = Match(w, lock, 0, l).rank => v = w /\ k = l
      BY <1>1
    <3>. QED BY <2>3, <3>1, <3>2, Zenon
  <2>. QED BY <2>1, <2>2, <2>4
<1>6. \A m, n \in S : m.rank = n.rank => m = n
  <2> SUFFICES ASSUME NEW m \in S, NEW n \in S, m.rank = n.rank PROVE m = n
    OBVIOUS
  <2>1. PICK v \in V, k \in DOMAIN K : m = Match(v, K[k], Prefix, k)
    BY <1>1
  <2>2. PICK w \in V, l \in DOMAIN K : n = Match(w, K[l], Prefix, l)
    BY <1>1
  <2>3. Match(v, K[k], 0, k).rank = Match(w, K[l], 0, l).rank
    BY <1>4, <2>1, <2>2
  <2>4. v = w /\ k = l
    BY <1>1, <1>2, <2>3
  <2>. QED BY <2>1, <2>2, <2>4
<1>7. \A m \in W : m.way[1] \in {Exact, Fuzzy}
  BY <1>1, <1>4 DEF Kind
<1>8. \A m \in S : m.way[1] = Prefix
  BY <1>1, <1>4
<1>9. IsFiniteSet(W)
  <2> DEFINE from == [v \in {v \in V : v.key \in ToSet(K)} |-> Match(v, v.key, Kind(v), 0)]
             U == {v \in V : v.key \in ToSet(K)}
  <2>1. IsFiniteSet(U)
    BY <1>3, FS_Subset
  <2>2. from \in Surjection(U, W)
    BY <1>1 DEF Surjection
  <2> HIDE DEF from, U
  <2>. QED BY <2>1, <2>2, FS_Surjection
<1>10. IsFiniteSet(S)
  <2> DEFINE P == V \X (1 .. Len(K))
             U == {p \in P : IsPrefix(p[1].key, K[p[2]])}
             from == [p \in U |-> Match(p[1], K[p[2]], Prefix, p[2])]
  <2>1. IsFiniteSet(P)
    <3>1. IsFiniteSet(1 .. Len(K))
      BY <1>2, FS_Interval
    <3>. QED BY <1>3, <3>1, FS_Product
  <2>2. IsFiniteSet(U)
    <3>1. U \in SUBSET P
      OBVIOUS
    <3> HIDE DEF P, U
    <3>. QED BY <2>1, <3>1, FS_Subset
  <2>3. \A p \in U : from[p] \in S
    BY <1>1, <1>2
  <2>4. \A m \in S : \E p \in U : from[p] = m
    <3> SUFFICES ASSUME NEW m \in S PROVE \E p \in U : from[p] = m
      OBVIOUS
    <3>1. PICK v \in V, k \in DOMAIN K : IsPrefix(v.key, K[k]) /\ m = Match(v, K[k], Prefix, k)
      BY <1>1
    <3>2. <<v, k>> \in U /\ from[<<v, k>>] = m
      BY <1>2, <3>1
    <3> HIDE DEF U, from
    <3>. QED BY <3>2
  <2>5. from \in Surjection(U, S)
    <3>1. DOMAIN from = U /\ from = [p \in U |-> from[p]]
      OBVIOUS
    <3> HIDE DEF from, U
    <3>. QED BY <2>3, <2>4, <3>1 DEF Surjection
  <2> HIDE DEF from, U
  <2>. QED BY <2>2, <2>5, FS_Surjection
<1>11. RankedBy(W, 3) /\ RankedBy(S, 3)
  BY <1>1, <1>9, <1>10 DEF RankedBy
<1>. QED BY <1>5, <1>6, <1>7, <1>8, <1>11 DEF V, W, S

\* A variant that a key starts with and that comes first is no worse.
LEMMA NoWorse ==
    ASSUME NEW token \in Seq(Letter), NEW u \in Variants(token), NEW v \in Variants(token),
           NEW key \in Seq(Letter), IsPrefix(u.key, key), IsPrefix(v.key, key), ~Less(v.place, u.place)
    PROVE  u.edits < v.edits \/ (u.edits = v.edits /\ Len(u.key) >= Len(v.key))
<1>1. /\ \A x \in Variants(token) : x.key \in Seq(Letter) /\ x.edits \in 0 .. 2 /\ x.place \in Ranks(2)
      /\ \A x, y \in Variants(token) : x.place = y.place => x = y
  BY VariantsAre
<1>2. u.place = v.place \/ Less(u.place, v.place) \/ Less(v.place, u.place)
  <2>1. 2 \in Nat
    OBVIOUS
  <2>2. \A a, b \in Ranks(2) : a = b \/ Less(a, b) \/ Less(b, a)
    BY <2>1, LessOrders
  <2>. QED BY <1>1, <2>2
<1>3. CASE Less(u.place, v.place)
  BY <1>3, FirstVariantIsBest
<1>4. CASE u.place = v.place
  <2>1. u = v
    BY <1>1, <1>4
  <2>2. Len(u.key) \in Nat
    BY <1>1
  <2>. QED BY <2>1, <2>2
<1>. QED BY <1>2, <1>3, <1>4

\* The ways of a match.
LEMMA WaysAre ==
    ASSUME NEW q, q.type \in Types, NEW token \in Seq(Letter), NEW key \in ToSet(KeysIn(q.type)), NEW way
    PROVE  way \in Ways(q, token, key) <=>
             \/ \E v \in Variants(token) : v.key = key /\ way = <<Kind(v), v.edits, 0>>
             \/ /\ q.type = "surname" \/ WholeMatches(q.type, Variants(token)) = {}
                /\ \E v \in Variants(token) :
                     IsPrefix(v.key, key) /\ way = <<Prefix, v.edits, Len(key) - Len(v.key)>>
<1> DEFINE V == Variants(token)
           K == ToSet(KeysIn(q.type))
           whole == {v \in V : v.key \in K}
           W == WholeMatches(q.type, V)
<1>1. W = {Match(v, v.key, Kind(v), 0) : v \in whole}
  BY MatchesAre
<1>2. W = {} <=> whole = {}
  BY <1>1
<1>3. Ways(q, token, key) =
        {<<Kind(v), v.edits, 0>> : v \in {w \in whole : w.key = key}}
        \cup (IF q.type = "surname" \/ whole = {}
              THEN {<<Prefix, v.edits, Len(key) - Len(v.key)>> : v \in {w \in V : IsPrefix(w.key, key)}}
              ELSE {})
  BY DEF Ways, Kind
<1>4. {w \in whole : w.key = key} = {w \in V : w.key = key}
  OBVIOUS
<1> HIDE DEF W, whole, V
<1>5. way \in {<<Kind(v), v.edits, 0>> : v \in {w \in whole : w.key = key}} <=>
        \E v \in V : v.key = key /\ way = <<Kind(v), v.edits, 0>>
  BY <1>4
<1>6. way \in {<<Prefix, v.edits, Len(key) - Len(v.key)>> : v \in {w \in V : IsPrefix(w.key, key)}} <=>
        \E v \in V : IsPrefix(v.key, key) /\ way = <<Prefix, v.edits, Len(key) - Len(v.key)>>
  OBVIOUS
<1>. QED BY <1>2, <1>3, <1>5, <1>6 DEF V, W

\* A matched key is one of the dictionary, in one of the ways.
LEMMA MatchedAreWays ==
    ASSUME NEW q, q.type \in Types, NEW token \in Seq(Letter), NEW m \in MatchKeys(q.type, token)
    PROVE  m.of \in ToSet(KeysIn(q.type)) /\ m.way \in Ways(q, token, m.of)
<1> DEFINE V == Variants(token)
           K == KeysIn(q.type)
           W == WholeMatches(q.type, V)
           S == StartMatches(q.type, V)
<1>1. /\ W = {Match(v, v.key, Kind(v), 0) : v \in {v \in V : v.key \in ToSet(K)}}
      /\ \A n : n \in S <=> \E v \in V, k \in DOMAIN K : IsPrefix(v.key, K[k]) /\ n = Match(v, K[k], Prefix, k)
  BY MatchesAre
<1>2. m \in Firsts(W) \/ (m \in Firsts(S) /\ (q.type = "surname" \/ Firsts(W) = {}))
  BY DEF MatchKeys
<1>3. Firsts(W) = {} => W = {}
  <2>1. RankedBy(W, 3)
    BY MatchesAreRanked
  <2>2. 3 \in Nat
    OBVIOUS
  <2> HIDE DEF W
  <2>3. \A e \in W : \E f \in Firsts(W) : f.of = e.of
    BY <2>1, <2>2, FirstsAreFirst
  <2>. QED BY <2>3
<1>4. \A v \in V : v.key \in Seq(Letter)
  BY VariantsAre
<1> HIDE DEF V, W, S
<1>5. CASE m \in Firsts(W)
  <2>1. m \in W
    BY <1>5 DEF Firsts
  <2>2. PICK v \in V : v.key \in ToSet(K) /\ m = Match(v, v.key, Kind(v), 0)
    BY <1>1, <2>1
  <2>3. m.of = v.key /\ m.way = <<Kind(v), v.edits, Len(v.key) - Len(v.key)>>
    BY <2>2 DEF Match
  <2>4. Len(v.key) - Len(v.key) = 0
    <3>1. Len(v.key) \in Nat
      BY <1>4
    <3>. QED BY <3>1
  <2>5. m.way = <<Kind(v), v.edits, 0>> /\ v.key = m.of /\ m.of \in ToSet(K)
    BY <2>2, <2>3, <2>4
  <2>6. m.way \in Ways(q, token, m.of)
    BY <2>5, WaysAre DEF V
  <2>. QED BY <2>5, <2>6
<1>6. CASE m \in Firsts(S) /\ (q.type = "surname" \/ Firsts(W) = {})
  <2>1. m \in S
    BY <1>6 DEF Firsts
  <2>2. PICK v \in V, k \in DOMAIN K : IsPrefix(v.key, K[k]) /\ m = Match(v, K[k], Prefix, k)
    BY <1>1, <2>1
  <2>3. m.of = K[k] /\ m.way = <<Prefix, v.edits, Len(K[k]) - Len(v.key)>>
    BY <2>2 DEF Match
  <2>4. K[k] \in ToSet(K)
    BY DEF ToSet
  <2>. QED BY <1>3, <1>6, <2>2, <2>3, <2>4, WaysAre DEF V, W
<1>. QED BY <1>2, <1>5, <1>6

\* And what matches in some way is matched, in a way that is no worse.
LEMMA WaysAreMatched ==
    ASSUME NEW q, q.type \in Types, NEW token \in Seq(Letter), NEW key \in ToSet(KeysIn(q.type)),
           NEW way \in Ways(q, token, key)
    PROVE  way \in Ranks(3) /\ \E m \in MatchKeys(q.type, token) : m.of = key /\ ~Less(way, m.way)
<1> DEFINE V == Variants(token)
           K == KeysIn(q.type)
           W == WholeMatches(q.type, V)
           S == StartMatches(q.type, V)
<1>1. /\ W = {Match(v, v.key, Kind(v), 0) : v \in {v \in V : v.key \in ToSet(K)}}
      /\ \A n : n \in S <=> \E v \in V, k \in DOMAIN K : IsPrefix(v.key, K[k]) /\ n = Match(v, K[k], Prefix, k)
      /\ \A m \in W \cup S : m.way \in Ranks(3) /\ m.rank \in Ranks(3)
  BY MatchesAre
<1>2. RankedBy(W, 3) /\ RankedBy(S, 3)
  BY MatchesAreRanked
<1>3. /\ Firsts(W) \subseteq MatchKeys(q.type, token)
      /\ (q.type = "surname" \/ W = {}) =>
           {m \in Firsts(S) : m.of \notin {w.of : w \in W}} \subseteq MatchKeys(q.type, token)
  BY DEF MatchKeys, Firsts
<1>4. \A v \in V : v.key \in Seq(Letter) /\ Len(v.key) \in Nat /\ v.edits \in 0 .. 2 /\ v.place \in Ranks(2)
  BY VariantsAre
<1>5. key \in Seq(Letter) /\ Len(key) \in Nat /\ IsPrefix(key, key)
  BY DictionaryIs, PrefixIs
<1>6. DOMAIN K \subseteq Nat /\ \A k \in DOMAIN K : K[k] \in ToSet(K)
  <2>1. DOMAIN K = 1 .. Len(K) /\ Len(K) \in Nat
    BY DictionaryIs
  <2>. QED BY <2>1 DEF ToSet
<1>7. /\ \A e \in W : \E f \in Firsts(W) : f.of = e.of
      /\ \A f \in Firsts(W), e \in W : f.of = e.of => ~Less(e.rank, f.rank)
      /\ \A e \in S : \E f \in Firsts(S) : f.of = e.of
      /\ \A f \in Firsts(S), e \in S : f.of = e.of => ~Less(e.rank, f.rank)
  <2>1. 3 \in Nat
    OBVIOUS
  <2> HIDE DEF W, S
  <2>. QED BY <1>2, <2>1, FirstsAreFirst
<1>8. Firsts(W) \subseteq W /\ Firsts(S) \subseteq S
  BY DEF Firsts
<1>9. \/ \E v \in V : v.key = key /\ way = <<Kind(v), v.edits, 0>>
      \/ /\ q.type = "surname" \/ W = {}
         /\ \E v \in V : IsPrefix(v.key, key) /\ way = <<Prefix, v.edits, Len(key) - Len(v.key)>>
  BY WaysAre
<1>10. ASSUME NEW u \in V, NEW v \in V, NEW k \in Nat, NEW l \in Nat, Less(v.place, u.place)
       PROVE  Less(v.place \o <<k>>, u.place \o <<l>>)
  <2>1. /\ <<k>> \in Ranks(1) /\ <<l>> \in Ranks(1) /\ v.place \in Ranks(2) /\ u.place \in Ranks(2)
        /\ 1 \in Nat /\ 2 \in Nat
    BY <1>4 DEF Ranks
  <2>2. Less(Joined(v.place, <<k>>), Joined(u.place, <<l>>))
    BY <1>10, <2>1, LessJoined
  <2>. QED BY <2>2 DEF Joined
<1> HIDE DEF V, W, S
<1>11. ASSUME NEW v \in V, v.key = key, way = <<Kind(v), v.edits, 0>>
       PROVE  way \in Ranks(3) /\ \E m \in MatchKeys(q.type, token) : m.of = key /\ ~Less(way, m.way)
  <2>1. Match(v, v.key, Kind(v), 0) \in W
    BY <1>1, <1>11
  <2>2. Match(v, v.key, Kind(v), 0).of = key /\ Match(v, v.key, Kind(v), 0).rank = v.place \o <<0>>
    BY <1>11 DEF Match
  <2>3. PICK f \in Firsts(W) : f.of = key /\ ~Less(v.place \o <<0>>, f.rank)
    BY <1>7, <2>1, <2>2
  <2>4. PICK u \in V : f = Match(u, u.key, Kind(u), 0)
    BY <1>1, <1>8
  <2>5. u.key = key /\ f.rank = u.place \o <<0>> /\ f.way = <<Kind(u), u.edits, Len(u.key) - Len(u.key)>>
    BY <2>3, <2>4 DEF Match
  <2>6. ~Less(v.place, u.place)
    BY <1>10, <2>3, <2>5
  <2>7. u.edits <= v.edits
    <3>1. u.edits < v.edits \/ (u.edits = v.edits /\ Len(u.key) >= Len(v.key))
      BY <1>5, <1>11, <2>5, <2>6, NoWorse DEF V
    <3>. QED BY <1>4, <3>1
  <2>8. Len(u.key) - Len(u.key) = 0
    BY <1>4
  <2>9. /\ Kind(u) \in Int /\ Kind(v) \in Int /\ u.edits \in Int /\ v.edits \in Int
        /\ Kind(u) < Kind(v) \/ (Kind(u) = Kind(v) /\ u.edits < v.edits) \/ (Kind(u) = Kind(v) /\ u.edits = v.edits)
    BY <1>4, <2>7 DEF Kind, Exact, Fuzzy
  <2>10. ~Less(<<Kind(v), v.edits, 0>>, <<Kind(u), u.edits, 0>>) /\ <<Kind(v), v.edits, 0>> \in Ranks(3)
    <3>1. 0 \in Int /\ 0 <= 0
      OBVIOUS
    <3>. QED BY <2>9, <3>1, NotLess3
  <2>. QED BY <1>3, <1>11, <2>3, <2>5, <2>8, <2>10
<1>12. ASSUME q.type = "surname" \/ W = {}, NEW v \in V, IsPrefix(v.key, key),
              way = <<Prefix, v.edits, Len(key) - Len(v.key)>>
       PROVE  way \in Ranks(3) /\ \E m \in MatchKeys(q.type, token) : m.of = key /\ ~Less(way, m.way)
  <2> DEFINE rest == Len(key) - Len(v.key)
  <2>1. rest \in Int /\ v.edits \in Int /\ Prefix \in Int
    BY <1>4, <1>5 DEF Prefix
  <2>2. CASE key \in {w.of : w \in W}
    <3>1. PICK f \in Firsts(W) : f.of = key
      BY <1>7, <2>2
    <3>2. PICK u \in V : f = Match(u, u.key, Kind(u), 0)
      BY <1>1, <1>8
    <3>3. u.key = key /\ f.way = <<Kind(u), u.edits, Len(u.key) - Len(u.key)>>
      BY <3>1, <3>2 DEF Match
    <3>4. Len(u.key) - Len(u.key) = 0 /\ Kind(u) \in Int /\ u.edits \in Int /\ Kind(u) < Prefix /\ 0 \in Int
      BY <1>4 DEF Kind, Exact, Fuzzy, Prefix
    <3>5. ~Less(<<Prefix, v.edits, rest>>, <<Kind(u), u.edits, 0>>) /\ <<Prefix, v.edits, rest>> \in Ranks(3)
      <4> HIDE DEF rest
      <4>. QED BY <2>1, <3>4, NotLess3
    <3>. QED BY <1>3, <1>12, <3>1, <3>3, <3>4, <3>5
  <2>3. CASE key \notin {w.of : w \in W}
    <3>1. PICK k \in DOMAIN K : K[k] = key
      BY DEF ToSet
    <3>2. Match(v, key, Prefix, k) \in S
      BY <1>1, <1>12, <3>1
    <3>3. Match(v, key, Prefix, k).of = key /\ Match(v, key, Prefix, k).rank = v.place \o <<k>>
      BY DEF Match
    <3>4. PICK f \in Firsts(S) : f.of = key /\ ~Less(v.place \o <<k>>, f.rank)
      BY <1>7, <3>2, <3>3
    <3>5. PICK u \in V, l \in DOMAIN K : IsPrefix(u.key, K[l]) /\ f = Match(u, K[l], Prefix, l)
      BY <1>1, <1>8
    <3>6. K[l] = key /\ f.rank = u.place \o <<l>> /\ f.way = <<Prefix, u.edits, Len(key) - Len(u.key)>>
      BY <3>4, <3>5 DEF Match
    <3>7. ~Less(v.place, u.place)
      BY <1>6, <1>10, <3>4, <3>6
    <3>8. u.edits < v.edits \/ (u.edits = v.edits /\ Len(u.key) >= Len(v.key))
      BY <1>5, <1>12, <3>5, <3>6, <3>7, NoWorse DEF V
    <3> DEFINE less == Len(key) - Len(u.key)
    <3>9. less \in Int /\ u.edits \in Int /\ (u.edits < v.edits \/ (u.edits = v.edits /\ less <= rest))
      BY <1>4, <1>5, <3>8
    <3>10. ~Less(<<Prefix, v.edits, rest>>, <<Prefix, u.edits, less>>) /\ <<Prefix, v.edits, rest>> \in Ranks(3)
      <4> HIDE DEF rest, less
      <4>. QED BY <2>1, <3>9, NotLess3
    <3>11. f \in MatchKeys(q.type, token)
      BY <1>3, <1>12, <2>3, <3>4
    <3>. QED BY <1>12, <3>4, <3>6, <3>10, <3>11
  <2>. QED BY <2>2, <2>3
<1>. QED BY <1>9, <1>11, <1>12

\* The matches of a token are finitely many, and kind and rank tell them apart.
LEMMA MatchedAreRanked ==
    ASSUME NEW type \in Types, NEW token \in Seq(Letter)
    PROVE  /\ IsFiniteSet(MatchKeys(type, token))
           /\ \A m \in MatchKeys(type, token) : m.way \in Ranks(3) /\ m.rank \in Ranks(3)
           /\ \A m, n \in MatchKeys(type, token) : m.way[1] = n.way[1] /\ m.rank = n.rank => m = n
<1> DEFINE W == WholeMatches(type, Variants(token))
           S == StartMatches(type, Variants(token))
<1>1. /\ RankedBy(W, 3) /\ \A m, n \in W : m.rank = n.rank => m = n
      /\ RankedBy(S, 3) /\ \A m, n \in S : m.rank = n.rank => m = n
      /\ \A m \in W : m.way[1] \in {Exact, Fuzzy}
      /\ \A m \in S : m.way[1] = Prefix
  BY MatchesAreRanked
<1>2. \A m \in W \cup S : m.way \in Ranks(3) /\ m.rank \in Ranks(3)
  BY MatchesAre
<1>3. MatchKeys(type, token) \subseteq W \cup S
  BY DEF MatchKeys, Firsts
<1> HIDE DEF W, S
<1>4. IsFiniteSet(W \cup S)
  BY <1>1, FS_Union DEF RankedBy
<1>5. IsFiniteSet(MatchKeys(type, token))
  BY <1>3, <1>4, FS_Subset
<1>6. Prefix \notin {Exact, Fuzzy}
  BY DEF Prefix, Exact, Fuzzy
<1>. QED BY <1>1, <1>2, <1>3, <1>5, <1>6

-----------------------------------------------------------------------------
(* Matcher: the occurrences of texts *)

\* What a query may be.
IsQuery(q) ==
  /\ q.type \in Types /\ q.text \in DOMAIN Canonical \cup {NoText} /\ q.typed \in Seq(Seq(Letter))
  /\ q.text = NoText => q.typed # <<>>

\* A filter keeps the elements of a set.
LEMMA KeptElements ==
    ASSUME NEW E, NEW s \in Seq(E), NEW S
    PROVE  Kept(s, S) \in Seq(E) /\ ToSet(Kept(s, S)) = ToSet(s) \cap S
<1> DEFINE t == Kept(s, S)
<1>1. t \in Seq(E)
  BY KeptSelects
<1>2. PICK at : Selection(s, S, Len(s), t, at)
  BY KeptSelects
<1>3. DOMAIN s = 1 .. Len(s) /\ DOMAIN t = 1 .. Len(t)
  BY <1>1, LenProperties
<1> HIDE DEF t
<1>4. ASSUME NEW x \in ToSet(t) PROVE x \in ToSet(s) \cap S
  BY <1>2, <1>3 DEF ToSet, Selection
<1>5. ASSUME NEW x \in ToSet(s) \cap S PROVE x \in ToSet(t)
  <2>1. PICK m \in 1 .. Len(s) : s[m] = x
    BY <1>3 DEF ToSet
  <2>2. PICK i \in 1 .. Len(t) : at[i] = m
    BY <1>2, <2>1 DEF Selection
  <2>3. t[i] = x
    BY <1>2, <2>1, <2>2 DEF Selection
  <2>. QED BY <1>3, <2>3 DEF ToSet
<1>. QED BY <1>1, <1>4, <1>5 DEF t

\* The keys in whose buckets a text is.
LEMMA KeysOfAre ==
    ASSUME NEW type \in Types, NEW text
    PROVE  /\ KeysOf(type, text) \in Seq(Seq(Letter))
           /\ ToSet(KeysOf(type, text)) = {key \in ToSet(KeysIn(type)) : text \in ToSet(Bucket(type, key))}
<1> DEFINE S == {key \in ToSet(KeysIn(type)) : text \in ToSet(Bucket(type, key))}
           K == KeysIn(type)
           E == Seq(Letter)
<1>1. K \in Seq(E)
  BY DictionaryIs
<1>2. KeysOf(type, text) = Kept(K, S)
  BY DEF KeysOf
<1>3. S = ToSet(K) \cap S
  OBVIOUS
<1> HIDE DEF S, K, E
<1>4. Kept(K, S) \in Seq(E) /\ ToSet(Kept(K, S)) = ToSet(K) \cap S
  BY <1>1, KeptElements
<1>. QED BY <1>2, <1>3, <1>4 DEF S, E

\* The keys of a text are keys.
LEMMA TextKeysAre ==
    ASSUME NEW type \in Types, NEW text \in DOMAIN Canonical
    PROVE  TextKeys(type, text) \in Seq(Seq(Letter))
<1> DEFINE E == Seq(Letter)
           own == KeysOf(type, text)
           other == KeysOf("char", text)
<1>1. "char" \in Types
  BY DEF Types
<1>2. own \in Seq(E) /\ other \in Seq(E)
  BY <1>1, KeysOfAre
<1>3. Canonical[text] \in E /\ Override[text] \in E
  BY MatcherAssumption DEF MatcherAssumption
<1> HIDE DEF own, other, E
<1>4. \A x \in E : <<x>> \in Seq(E)
  OBVIOUS
<1>5. ASSUME NEW keys \in Seq(E) PROVE OrderKeys(type, text, keys) \in Seq(E)
  <2> DEFINE surname == type = "surname" /\ text \notin TwoChars /\ Override[text] \in ToSet(keys)
             preferred == IF surname THEN Override[text] ELSE Canonical[text]
             rest == Kept(keys, ToSet(keys) \ {preferred})
  <2>1. preferred \in E
    BY <1>3
  <2>2. rest \in Seq(E)
    BY <1>5, KeptElements
  <2>3. OrderKeys(type, text, keys) = IF preferred \in ToSet(keys) THEN <<preferred>> \o rest ELSE keys
    BY DEF OrderKeys
  <2> HIDE DEF preferred, rest
  <2>4. <<preferred>> \o rest \in Seq(E)
    <3>1. <<preferred>> \in Seq(E)
      BY <1>4, <2>1
    <3> DEFINE one == <<preferred>>
    <3> HIDE DEF one
    <3>2. one \o rest \in Seq(E)
      BY <2>2, <3>1, ConcatProperties DEF one
    <3>. QED BY <3>2 DEF one
  <2>. QED BY <1>5, <2>3, <2>4
<1>6. own # <<>> => <<own[1]>> \in Seq(E)
  <2> SUFFICES ASSUME own # <<>> PROVE <<own[1]>> \in Seq(E)
    OBVIOUS
  <2>1. own[1] \in E
    BY <1>2
  <2>. QED BY <1>4, <2>1
<1>7. <<>> \in Seq(E)
  BY EmptySeq
<1>8. \/ TextKeys(type, text) = <<own[1]>> /\ own # <<>>
      \/ TextKeys(type, text) = OrderKeys(type, text, own)
      \/ TextKeys(type, text) = OrderKeys(type, text, other)
      \/ TextKeys(type, text) = <<>>
      \/ TextKeys(type, text) = <<Canonical[text]>>
  BY Zenon DEF TextKeys, own, other
<1>9. TextKeys(type, text) \in Seq(E)
  BY <1>2, <1>3, <1>4, <1>5, <1>6, <1>7, <1>8
<1>. QED BY <1>9 DEF E

\* The tokens of a query are keys.
LEMMA TokensAre ==
    ASSUME NEW q, IsQuery(q)
    PROVE  Tokens(q) \in Seq(Seq(Letter))
<1>1. q.typed = <<>> => TextKeys(q.type, q.text) \in Seq(Seq(Letter))
  BY TextKeysAre DEF IsQuery
<1>. QED BY <1>1 DEF Tokens, IsQuery

\* The place of an element is the first one.
LEMMA IndexIs ==
    ASSUME NEW E, NEW s \in Seq(E), NEW e
    PROVE  /\ IndexOf(e, s) \in Nat
           /\ e \in ToSet(s) => /\ IndexOf(e, s) \in DOMAIN s /\ s[IndexOf(e, s)] = e
                                /\ \A j \in DOMAIN s : s[j] = e => IndexOf(e, s) <= j
<1>1. CASE e \notin ToSet(s)
  BY <1>1 DEF IndexOf, Nowhere
<1>2. CASE e \in ToSet(s)
  <2> DEFINE T == {i \in DOMAIN s : s[i] = e}
  <2>1. T \in SUBSET Nat /\ T # {}
    BY <1>2 DEF ToSet
  <2>2. \E i \in T : \A j \in T : i <= j
    <3> HIDE DEF T
    <3>. QED BY <2>1, LeastNumber
  <2>3. \E i \in DOMAIN s : s[i] = e /\ \A j \in DOMAIN s : s[j] = e => i <= j
    BY <2>2
  <2>4. IndexOf(e, s) = CHOOSE i \in DOMAIN s : s[i] = e /\ \A j \in DOMAIN s : s[j] = e => i <= j
    BY <1>2 DEF IndexOf
  <2> HIDE DEF T
  <2>5. IndexOf(e, s) \in DOMAIN s /\ s[IndexOf(e, s)] = e /\ \A j \in DOMAIN s : s[j] = e => IndexOf(e, s) <= j
    BY <2>3, <2>4
  <2>6. DOMAIN s \subseteq Nat
    OBVIOUS
  <2>. QED BY <2>5, <2>6
<1>. QED BY <1>1, <1>2

\* The parts of a rank.
LEMMA RankIs ==
    ASSUME NEW q, NEW key, NEW way \in Ranks(3), NEW i \in Int
    PROVE  /\ Rank(q, key, way, i) =
                Joined(way, <<Penalty(Bucket(q.type, key)[i] # q.text),
                              Penalty(TextKeys(q.type, Bucket(q.type, key)[i])[1] # key), i>>)
           /\ Rank(q, key, way, i) \in Ranks(6)
<1> DEFINE a == Penalty(Bucket(q.type, key)[i] # q.text)
           b == Penalty(TextKeys(q.type, Bucket(q.type, key)[i])[1] # key)
<1>1. Rank(q, key, way, i) = Joined(way, <<a, b, i>>)
  BY Zenon DEF Rank, Joined
<1>2. a \in Int /\ b \in Int
  BY DEF Penalty
<1> HIDE DEF a, b
<1>3. <<a, b, i>> \in Ranks(3)
  BY <1>2 DEF Ranks
<1>4. Joined(way, <<a, b, i>>) \in Ranks(3 + 3)
  <2>1. 3 \in Nat
    OBVIOUS
  <2>. QED BY <1>3, <2>1, LessJoined
<1>5. 3 + 3 = 6
  OBVIOUS
<1>6. Joined(way, <<a, b, i>>) \in Ranks(6)
  BY <1>4, <1>5
<1>. QED BY <1>1, <1>6 DEF a, b

\* A token, a match of it, and a place in the bucket of the matched key.
IsOccurrence(q, t, m, i) ==
  t \in DOMAIN Tokens(q) /\ m \in MatchKeys(q.type, Tokens(q)[t]) /\ i \in DOMAIN Bucket(q.type, m.of)

\* The occurrences, one by one.
LEMMA OccurrencesAre ==
    ASSUME NEW q, NEW e
    PROVE  e \in Occurrences(q) <=> \E t, m, i : IsOccurrence(q, t, m, i) /\ e = Occurrence(q, t, m, i)
<1>1. e \in Occurrences(q) <=>
        \E t \in DOMAIN Tokens(q) : \E m \in MatchKeys(q.type, Tokens(q)[t]) :
          \E i \in DOMAIN Bucket(q.type, m.of) : e = Occurrence(q, t, m, i)
  BY DEF Occurrences
<1>. QED BY <1>1 DEF IsOccurrence

\* Its rank is put together from three.
WholeRank(q, t, m, i) == Joined(Joined(Rank(q, m.of, m.way, i), <<t, m.way[1]>>), m.rank)

\* That is the rank of an occurrence.
LEMMA OccurrenceRank ==
    ASSUME NEW q, NEW t, NEW m, NEW i, IsOccurrence(q, t, m, i)
    PROVE  Occurrence(q, t, m, i).rank = WholeRank(q, t, m, i)
<1> DEFINE x == Rank(q, m.of, m.way, i) \o <<t, m.way[1]>> \o m.rank
           y == Bucket(q.type, m.of)[i]
<1>1. Occurrence(q, t, m, i) = [of |-> y, rank |-> x]
  BY Zenon DEF Occurrence
<1>2. WholeRank(q, t, m, i) = x
  BY Zenon DEF WholeRank, Joined
<1> HIDE DEF x, y
<1>3. Occurrence(q, t, m, i).rank = x
  BY <1>1
<1>. QED BY <1>2, <1>3

\* The parts of an occurrence.
LEMMA OccurrenceIs ==
    ASSUME NEW q, IsQuery(q), NEW t, NEW m, NEW i, IsOccurrence(q, t, m, i)
    PROVE  /\ t \in Nat /\ i \in Nat /\ Tokens(q)[t] \in Seq(Letter) /\ Tokens(q)[t] \in ToSet(Tokens(q))
           /\ m.way \in Ranks(3) /\ m.rank \in Ranks(3) /\ m.way[1] \in Int
           /\ m.of \in ToSet(KeysIn(q.type)) /\ m.way \in Ways(q, Tokens(q)[t], m.of)
           /\ Rank(q, m.of, m.way, i) \in Ranks(6) /\ <<t, m.way[1]>> \in Ranks(2)
           /\ Joined(Rank(q, m.of, m.way, i), <<t, m.way[1]>>) \in Ranks(8)
           /\ Occurrence(q, t, m, i).rank \in Ranks(11)
           /\ Bucket(q.type, m.of) \in Seq(DOMAIN Canonical)
           /\ Occurrence(q, t, m, i).of \in DOMAIN Canonical
           /\ Occurrence(q, t, m, i).of \in ToSet(Bucket(q.type, m.of))
<1>1. q.type \in Types /\ Tokens(q) \in Seq(Seq(Letter))
  BY TokensAre DEF IsQuery
<1>2. t \in Nat /\ Tokens(q)[t] \in Seq(Letter) /\ Tokens(q)[t] \in ToSet(Tokens(q))
  <2>1. t \in DOMAIN Tokens(q)
    BY DEF IsOccurrence
  <2> DEFINE s == Tokens(q)
             E == Seq(Letter)
  <2>2. s \in Seq(E) /\ t \in DOMAIN s
    BY <1>1, <2>1
  <2> HIDE DEF s, E
  <2>3. s[t] \in E /\ t \in Nat
    BY <2>2
  <2>. QED BY <2>1, <2>3 DEF ToSet, s, E
<1>3. m \in MatchKeys(q.type, Tokens(q)[t])
  BY DEF IsOccurrence
<1>4. m.way \in Ranks(3) /\ m.rank \in Ranks(3)
  BY <1>1, <1>2, <1>3, MatchedAreRanked
<1>5. m.way[1] \in Int
  BY <1>4 DEF Ranks
<1>6. m.of \in ToSet(KeysIn(q.type)) /\ m.way \in Ways(q, Tokens(q)[t], m.of)
  BY <1>1, <1>2, <1>3, MatchedAreWays
<1>7. Bucket(q.type, m.of) \in Seq(DOMAIN Canonical)
  BY <1>1, <1>6, DictionaryIs
<1>8. i \in Nat /\ Bucket(q.type, m.of)[i] \in DOMAIN Canonical /\ Bucket(q.type, m.of)[i] \in ToSet(Bucket(q.type, m.of))
  <2>1. i \in DOMAIN Bucket(q.type, m.of)
    BY DEF IsOccurrence
  <2> DEFINE s == Bucket(q.type, m.of)
  <2>2. s \in Seq(DOMAIN Canonical) /\ i \in DOMAIN s
    BY <1>7, <2>1
  <2> HIDE DEF s
  <2>3. s[i] \in DOMAIN Canonical /\ i \in Nat
    BY <2>2
  <2>. QED BY <2>1, <2>3 DEF ToSet, s
<1>9. Rank(q, m.of, m.way, i) \in Ranks(6)
  <2>1. i \in Int
    BY <1>8
  <2> DEFINE way == m.way
             key == m.of
  <2>2. way \in Ranks(3)
    BY <1>4
  <2> HIDE DEF way, key
  <2>3. Rank(q, key, way, i) \in Ranks(6)
    BY <2>1, <2>2, RankIs
  <2>. QED BY <2>3 DEF way, key
<1>10. <<t, m.way[1]>> \in Ranks(2)
  <2> DEFINE k == m.way[1]
  <2>1. t \in Int /\ k \in Int
    BY <1>2, <1>5
  <2> HIDE DEF k
  <2>2. <<t, k>> \in Ranks(2)
    BY <2>1 DEF Ranks
  <2>. QED BY <2>2 DEF k
<1>11. Joined(Rank(q, m.of, m.way, i), <<t, m.way[1]>>) \in Ranks(8)
  <2>1. 6 \in Nat /\ 2 \in Nat /\ 6 + 2 = 8
    OBVIOUS
  <2>2. Joined(Rank(q, m.of, m.way, i), <<t, m.way[1]>>) \in Ranks(6 + 2)
    BY <1>9, <1>10, <2>1, LessJoined
  <2>. QED BY <2>1, <2>2
<1>12. Occurrence(q, t, m, i).rank \in Ranks(11)
  <2>1. 8 \in Nat /\ 3 \in Nat /\ 8 + 3 = 11
    OBVIOUS
  <2>2. Joined(Joined(Rank(q, m.of, m.way, i), <<t, m.way[1]>>), m.rank) \in Ranks(8 + 3)
    BY <1>4, <1>11, <2>1, LessJoined
  <2>3. WholeRank(q, t, m, i) \in Ranks(11)
    BY <2>1, <2>2 DEF WholeRank
  <2>. QED BY <2>3, OccurrenceRank
<1>13. Occurrence(q, t, m, i).of = Bucket(q.type, m.of)[i]
  <2> DEFINE x == Rank(q, m.of, m.way, i) \o <<t, m.way[1]>> \o m.rank
             y == Bucket(q.type, m.of)[i]
  <2>1. Occurrence(q, t, m, i) = [of |-> y, rank |-> x]
    BY Zenon DEF Occurrence
  <2> HIDE DEF x, y
  <2>2. Occurrence(q, t, m, i).of = y
    BY <2>1
  <2>. QED BY <2>2 DEF y
<1> HIDE DEF IsOccurrence
<1>. QED BY <1>13, <1>2, <1>4, <1>5, <1>6, <1>7, <1>8, <1>9, <1>10, <1>11, <1>12

\* What is put together can be taken apart.
LEMMA JoinedParts ==
    ASSUME NEW m \in Nat, NEW n \in Nat, NEW a \in Ranks(m), NEW b \in Ranks(m),
           NEW c \in Ranks(n), NEW d \in Ranks(n), Joined(a, c) = Joined(b, d)
    PROVE  a = b /\ c = d
BY LessJoined

\* Finitely many finite sets have finitely many elements.
LEMMA FiniteUnion ==
    ASSUME NEW T, IsFiniteSet(T), NEW F, DOMAIN F = T, \A t \in T : IsFiniteSet(F[t])
    PROVE  IsFiniteSet(UNION {F[t] : t \in T})
<1> DEFINE Sets == {F[t] : t \in T}
           G == [t \in T |-> F[t]]
<1>1. G \in Surjection(T, Sets)
  BY DEF Surjection
<1> HIDE DEF G
<1>2. IsFiniteSet(Sets)
  <2> HIDE DEF Sets
  <2>. QED BY <1>1, FS_Surjection
<1>3. \A S \in Sets : IsFiniteSet(S)
  OBVIOUS
<1> HIDE DEF Sets
<1>4. IsFiniteSet(UNION Sets)
  BY <1>2, <1>3, FS_UNION
<1>. QED BY <1>4 DEF Sets

\* A query has finitely many occurrences.
LEMMA OccurrencesAreFinite ==
    ASSUME NEW q, IsQuery(q)
    PROVE  IsFiniteSet(Occurrences(q))
<1> DEFINE T == DOMAIN Tokens(q)
           M(t) == MatchKeys(q.type, Tokens(q)[t])
           I(m) == DOMAIN Bucket(q.type, m.of)
           A(t, m) == {Occurrence(q, t, m, i) : i \in I(m)}
           B(t) == UNION {A(t, m) : m \in M(t)}
<1>1. q.type \in Types /\ Tokens(q) \in Seq(Seq(Letter))
  BY TokensAre DEF IsQuery
<1>2. IsFiniteSet(T) /\ \A t \in T : Tokens(q)[t] \in Seq(Letter)
  <2> DEFINE s == Tokens(q)
             E == Seq(Letter)
  <2>1. s \in Seq(E)
    BY <1>1
  <2> HIDE DEF s, E
  <2>2. DOMAIN s = 1 .. Len(s) /\ Len(s) \in Nat /\ \A t \in DOMAIN s : s[t] \in E
    BY <2>1, ElementOfSeq, LenProperties
  <2>3. IsFiniteSet(1 .. Len(s))
    BY <2>2, FS_Interval
  <2>. QED BY <2>2, <2>3 DEF s, E
<1>3. ASSUME NEW t \in T, NEW m \in M(t) PROVE IsFiniteSet(A(t, m))
  <2>1. m.of \in ToSet(KeysIn(q.type))
    BY <1>1, <1>2, MatchedAreWays
  <2>2. Bucket(q.type, m.of) \in Seq(DOMAIN Canonical)
    BY <1>1, <2>1, DictionaryIs
  <2> DEFINE s == Bucket(q.type, m.of)
             F == [i \in I(m) |-> Occurrence(q, t, m, i)]
  <2>3. IsFiniteSet(I(m))
    <3> HIDE DEF s
    <3>1. DOMAIN s = 1 .. Len(s) /\ Len(s) \in Nat
      BY <2>2, LenProperties DEF s
    <3>2. IsFiniteSet(1 .. Len(s))
      BY <3>1, FS_Interval
    <3>. QED BY <3>1, <3>2 DEF s
  <2>4. F \in Surjection(I(m), A(t, m))
    BY DEF Surjection
  <2> HIDE DEF F, I, A
  <2>. QED BY <2>3, <2>4, FS_Surjection
<1>4. ASSUME NEW t \in T PROVE IsFiniteSet(B(t))
  <2> DEFINE F == [m \in M(t) |-> A(t, m)]
             N == M(t)
  <2>1. IsFiniteSet(N)
    BY <1>1, <1>2, MatchedAreRanked
  <2>2. DOMAIN F = N /\ (\A m \in N : IsFiniteSet(F[m])) /\ {F[m] : m \in N} = {A(t, m) : m \in N}
    BY <1>3
  <2> HIDE DEF F, N, A
  <2>3. IsFiniteSet(UNION {F[m] : m \in N})
    BY <2>1, <2>2, FiniteUnion
  <2>. QED BY <2>2, <2>3 DEF N
<1>5. IsFiniteSet(UNION {B(t) : t \in T})
  <2> DEFINE F == [t \in T |-> B(t)]
  <2>1. DOMAIN F = T /\ (\A t \in T : IsFiniteSet(F[t])) /\ {F[t] : t \in T} = {B(t) : t \in T}
    BY <1>4
  <2> HIDE DEF F, B, T
  <2>2. IsFiniteSet(UNION {F[t] : t \in T})
    BY <1>2, <2>1, FiniteUnion
  <2>. QED BY <2>1, <2>2
<1>6. Occurrences(q) = UNION {B(t) : t \in T}
  BY DEF Occurrences
<1>. QED BY <1>5, <1>6

\* Occurrences are ranked, and different ones have different ranks.
LEMMA OccurrencesAreRanked ==
    ASSUME NEW q, IsQuery(q)
    PROVE  /\ RankedBy(Occurrences(q), 11)
           /\ \A e, f \in Occurrences(q) : e.rank = f.rank => e = f
<1>1. \A e \in Occurrences(q) : e.rank \in Ranks(11)
  <2> SUFFICES ASSUME NEW e \in Occurrences(q) PROVE e.rank \in Ranks(11)
    OBVIOUS
  <2>1. PICK t, m, i : IsOccurrence(q, t, m, i) /\ e = Occurrence(q, t, m, i)
    BY OccurrencesAre
  <2>2. Occurrence(q, t, m, i).rank \in Ranks(11)
    BY <2>1, OccurrenceIs
  <2>. QED BY <2>1, <2>2
<1>2. ASSUME NEW e \in Occurrences(q), NEW f \in Occurrences(q), e.rank = f.rank PROVE e = f
  <2>1. PICK t, m, i : IsOccurrence(q, t, m, i) /\ e = Occurrence(q, t, m, i)
    BY OccurrencesAre
  <2>2. PICK u, n, j : IsOccurrence(q, u, n, j) /\ f = Occurrence(q, u, n, j)
    BY OccurrencesAre
  <2> DEFINE R == Rank(q, m.of, m.way, i)
             S == Rank(q, n.of, n.way, j)
             x == <<t, m.way[1]>>
             y == <<u, n.way[1]>>
  <2>3. e.rank = Joined(Joined(R, x), m.rank) /\ f.rank = Joined(Joined(S, y), n.rank)
    <3>1. e.rank = WholeRank(q, t, m, i)
      BY <2>1, OccurrenceRank
    <3>2. f.rank = WholeRank(q, u, n, j)
      BY <2>2, OccurrenceRank
    <3>. QED BY <3>1, <3>2, Zenon DEF WholeRank
  <2>4. /\ R \in Ranks(6) /\ x \in Ranks(2) /\ Joined(R, x) \in Ranks(8) /\ m.rank \in Ranks(3)
        /\ m.way \in Ranks(3) /\ i \in Int
    BY <2>1, OccurrenceIs
  <2>5. /\ S \in Ranks(6) /\ y \in Ranks(2) /\ Joined(S, y) \in Ranks(8) /\ n.rank \in Ranks(3)
        /\ n.way \in Ranks(3) /\ j \in Int
    BY <2>2, OccurrenceIs
  <2>6. 2 \in Nat /\ 3 \in Nat /\ 6 \in Nat /\ 8 \in Nat
    OBVIOUS
  <2> HIDE DEF R, S, x, y
  <2>7. Joined(R, x) = Joined(S, y) /\ m.rank = n.rank
    <3> DEFINE a == Joined(R, x)
               b == Joined(S, y)
               c == m.rank
               d == n.rank
    <3>1. a \in Ranks(8) /\ b \in Ranks(8) /\ c \in Ranks(3) /\ d \in Ranks(3) /\ Joined(a, c) = Joined(b, d)
      BY <1>2, <2>3, <2>4, <2>5
    <3> HIDE DEF a, b, c, d
    <3>2. a = b /\ c = d
      BY <2>6, <3>1, JoinedParts
    <3>. QED BY <3>2 DEF a, b, c, d
  <2>8. R = S /\ x = y
    BY <2>4, <2>5, <2>6, <2>7, LessJoined
  <2>9. t = u /\ m.way[1] = n.way[1]
    BY <2>8 DEF x, y
  <2>10. i = j
    <3> DEFINE a == Penalty(Bucket(q.type, m.of)[i] # q.text)
               b == Penalty(TextKeys(q.type, Bucket(q.type, m.of)[i])[1] # m.of)
               c == Penalty(Bucket(q.type, n.of)[j] # q.text)
               d == Penalty(TextKeys(q.type, Bucket(q.type, n.of)[j])[1] # n.of)
    <3>1. R = Joined(m.way, <<a, b, i>>)
      BY <2>4, RankIs DEF R
    <3>2. S = Joined(n.way, <<c, d, j>>)
      BY <2>5, RankIs DEF S
    <3>3. a \in Int /\ b \in Int /\ c \in Int /\ d \in Int
      BY DEF Penalty
    <3> HIDE DEF a, b, c, d
    <3>4. <<a, b, i>> \in Ranks(3) /\ <<c, d, j>> \in Ranks(3)
      BY <2>4, <2>5, <3>3 DEF Ranks
    <3>5. <<a, b, i>> = <<c, d, j>>
      <4> DEFINE k == m.way
                 l == n.way
                 v == <<a, b, i>>
                 w == <<c, d, j>>
      <4>1. k \in Ranks(3) /\ l \in Ranks(3) /\ v \in Ranks(3) /\ w \in Ranks(3) /\ Joined(k, v) = Joined(l, w)
        BY <2>4, <2>5, <2>8, <3>1, <3>2, <3>4
      <4> HIDE DEF k, l, v, w
      <4>2. v = w
        BY <2>6, <4>1, JoinedParts
      <4>. QED BY <4>2 DEF v, w
    <3>. QED BY <3>5
  <2>11. m = n
    <3>1. q.type \in Types /\ Tokens(q)[t] \in Seq(Letter)
      BY <2>1, OccurrenceIs DEF IsQuery
    <3>2. m \in MatchKeys(q.type, Tokens(q)[t]) /\ n \in MatchKeys(q.type, Tokens(q)[t])
      BY <2>1, <2>2, <2>9 DEF IsOccurrence
    <3>. QED BY <2>7, <2>9, <3>1, <3>2, MatchedAreRanked
  <2>. QED BY <2>1, <2>2, <2>9, <2>10, <2>11
<1>. QED BY <1>1, <1>2, OccurrencesAreFinite DEF RankedBy

\* Ranks of one match differ in the place of the text.
LEMMA RanksOfPlaces ==
    ASSUME NEW q, NEW key, NEW way \in Ranks(3), NEW i \in Int, NEW j \in Int, j <= i,
           Bucket(q.type, key)[i] = Bucket(q.type, key)[j]
    PROVE  ~Less(Rank(q, key, way, i), Rank(q, key, way, j))
<1> DEFINE a == Penalty(Bucket(q.type, key)[i] # q.text)
           b == Penalty(TextKeys(q.type, Bucket(q.type, key)[i])[1] # key)
<1>1. a \in Int /\ b \in Int
  BY DEF Penalty
<1>2. Rank(q, key, way, i) = Joined(way, <<a, b, i>>) /\ Rank(q, key, way, j) = Joined(way, <<a, b, j>>)
  <2>1. Rank(q, key, way, i) = Joined(way, <<a, b, i>>)
    BY RankIs
  <2> DEFINE c == Penalty(Bucket(q.type, key)[j] # q.text)
             d == Penalty(TextKeys(q.type, Bucket(q.type, key)[j])[1] # key)
  <2>2. Rank(q, key, way, j) = Joined(way, <<c, d, j>>)
    BY RankIs
  <2>3. a = c /\ b = d
    OBVIOUS
  <2> HIDE DEF a, b, c, d
  <2>. QED BY <2>1, <2>2, <2>3
<1> HIDE DEF a, b
<1>3. <<a, b, i>> \in Ranks(3) /\ <<a, b, j>> \in Ranks(3) /\ 3 \in Nat
  BY <1>1 DEF Ranks
<1>4. ~Less(<<a, b, i>>, <<a, b, j>>)
  BY <1>1, NotLess3
<1>5. Less(Joined(way, <<a, b, i>>), Joined(way, <<a, b, j>>)) <=> Less(<<a, b, i>>, <<a, b, j>>)
  BY <1>3, LessJoined
<1>. QED BY <1>2, <1>4, <1>5

-----------------------------------------------------------------------------
(* Matcher: the candidates *)

\* Ranks can be compared.
LEMMA RanksCompare ==
    /\ \A a \in Ranks(6) : ~Less(a, a)
    /\ \A a, b, c \in Ranks(6) : Less(a, b) /\ Less(b, c) => Less(a, c)
    /\ \A a, b \in Ranks(6) : a = b \/ Less(a, b) \/ Less(b, a)
<1>1. 6 \in Nat
  OBVIOUS
<1>. QED BY <1>1, LessOrders

\* The rank of an occurrence begins with how well it answers the query.
LEMMA BetterComesFirst ==
    ASSUME NEW q, IsQuery(q), NEW t, NEW m, NEW i, IsOccurrence(q, t, m, i),
           NEW u, NEW n, NEW j, IsOccurrence(q, u, n, j),
           Less(Rank(q, m.of, m.way, i), Rank(q, n.of, n.way, j))
    PROVE  Less(Occurrence(q, t, m, i).rank, Occurrence(q, u, n, j).rank)
<1> DEFINE R == Rank(q, m.of, m.way, i)
           S == Rank(q, n.of, n.way, j)
           x == <<t, m.way[1]>>
           y == <<u, n.way[1]>>
<1>1. R \in Ranks(6) /\ x \in Ranks(2) /\ Joined(R, x) \in Ranks(8) /\ m.rank \in Ranks(3)
  BY OccurrenceIs
<1>2. S \in Ranks(6) /\ y \in Ranks(2) /\ Joined(S, y) \in Ranks(8) /\ n.rank \in Ranks(3)
  BY OccurrenceIs
<1>3. Occurrence(q, t, m, i).rank = WholeRank(q, t, m, i) /\ Occurrence(q, u, n, j).rank = WholeRank(q, u, n, j)
  BY OccurrenceRank
<1>4. WholeRank(q, t, m, i) = Joined(Joined(R, x), m.rank) /\ WholeRank(q, u, n, j) = Joined(Joined(S, y), n.rank)
  BY Zenon DEF WholeRank
<1>5. Less(R, S) /\ 2 \in Nat /\ 3 \in Nat /\ 6 \in Nat /\ 8 \in Nat
  OBVIOUS
<1> HIDE DEF R, S, x, y
<1>6. Less(Joined(R, x), Joined(S, y))
  BY <1>1, <1>2, <1>5, LessJoined
<1>7. Less(Joined(Joined(R, x), m.rank), Joined(Joined(S, y), n.rank))
  <2> DEFINE a == Joined(R, x)
             b == Joined(S, y)
             c == m.rank
             d == n.rank
  <2>1. a \in Ranks(8) /\ b \in Ranks(8) /\ c \in Ranks(3) /\ d \in Ranks(3) /\ Less(a, b)
    BY <1>1, <1>2, <1>6
  <2> HIDE DEF a, b, c, d
  <2>2. Less(Joined(a, c), Joined(b, d))
    BY <1>5, <2>1, LessJoined
  <2>. QED BY <2>2 DEF a, b, c, d
<1>. QED BY <1>3, <1>4, <1>7

\* The ranks of a text, in every way.
LEMMA RanksOfAre ==
    ASSUME NEW q, NEW text, NEW r
    PROVE  r \in RanksOf(q, text) <=>
             \E token \in ToSet(Tokens(q)), key \in ToSet(KeysOf(q.type, text)) : \E way \in Ways(q, token, key) :
               r = Rank(q, key, way, IndexOf(text, Bucket(q.type, key)))
  BY DEF RanksOf

\* An occurrence of a text is no better than one of its ranks.
LEMMA OccurrenceHasRank ==
    ASSUME NEW q, IsQuery(q), NEW t, NEW m, NEW i, IsOccurrence(q, t, m, i),
           NEW text, text = Occurrence(q, t, m, i).of
    PROVE  \E r \in RanksOf(q, text) : r \in Ranks(6) /\ ~Less(Rank(q, m.of, m.way, i), r)
<1>1. /\ i \in Nat /\ Tokens(q)[t] \in ToSet(Tokens(q)) /\ m.way \in Ranks(3)
      /\ m.of \in ToSet(KeysIn(q.type)) /\ m.way \in Ways(q, Tokens(q)[t], m.of)
      /\ Bucket(q.type, m.of) \in Seq(DOMAIN Canonical)
      /\ text \in ToSet(Bucket(q.type, m.of))
  BY OccurrenceIs
<1>2. i \in DOMAIN Bucket(q.type, m.of) /\ Bucket(q.type, m.of)[i] = text
  <2>1. i \in DOMAIN Bucket(q.type, m.of)
    BY DEF IsOccurrence
  <2> DEFINE x == Rank(q, m.of, m.way, i) \o <<t, m.way[1]>> \o m.rank
             y == Bucket(q.type, m.of)[i]
  <2>2. Occurrence(q, t, m, i) = [of |-> y, rank |-> x]
    BY Zenon DEF Occurrence
  <2> HIDE DEF x, y
  <2>3. Occurrence(q, t, m, i).of = y
    BY <2>2
  <2>. QED BY <2>1, <2>3 DEF y
<1>3. m.of \in ToSet(KeysOf(q.type, text))
  BY <1>1, KeysOfAre DEF IsQuery
<1> DEFINE key == m.of
           way == m.way
           j == IndexOf(text, Bucket(q.type, key))
           r == Rank(q, key, way, j)
<1>4. j \in Nat /\ j <= i /\ Bucket(q.type, key)[j] = text
  <2> DEFINE s == Bucket(q.type, key)
  <2>1. s \in Seq(DOMAIN Canonical) /\ text \in ToSet(s) /\ i \in DOMAIN s /\ s[i] = text
    BY <1>1, <1>2
  <2> HIDE DEF s
  <2>2. IndexOf(text, s) \in Nat /\ s[IndexOf(text, s)] = text /\ IndexOf(text, s) <= i
    BY <2>1, IndexIs
  <2>. QED BY <2>2 DEF s
<1>5. way \in Ranks(3) /\ i \in Int /\ j \in Int /\ Bucket(q.type, key)[i] = Bucket(q.type, key)[j]
  BY <1>1, <1>2, <1>4
<1>6. r \in RanksOf(q, text)
  BY <1>1, <1>3, RanksOfAre
<1> HIDE DEF key, way, j
<1>7. ~Less(Rank(q, key, way, i), r)
  BY <1>4, <1>5, RanksOfPlaces
<1>8. r \in Ranks(6)
  BY <1>5, RankIs
<1> HIDE DEF r
<1>9. ~Less(Rank(q, m.of, m.way, i), r)
  BY <1>7 DEF key, way
<1>. QED BY <1>6, <1>8, <1>9

\* And each of its ranks is no better than some occurrence.
LEMMA RankHasOccurrence ==
    ASSUME NEW q, IsQuery(q), NEW text, NEW r \in RanksOf(q, text)
    PROVE  r \in Ranks(6) /\ \E t, m, i : /\ IsOccurrence(q, t, m, i) /\ Occurrence(q, t, m, i).of = text
                                         /\ ~Less(r, Rank(q, m.of, m.way, i))
<1>1. PICK token \in ToSet(Tokens(q)), key \in ToSet(KeysOf(q.type, text)) : \E way \in Ways(q, token, key) :
        r = Rank(q, key, way, IndexOf(text, Bucket(q.type, key)))
  BY RanksOfAre
<1>2. PICK way \in Ways(q, token, key) : r = Rank(q, key, way, IndexOf(text, Bucket(q.type, key)))
  BY <1>1
<1>3. q.type \in Types /\ Tokens(q) \in Seq(Seq(Letter))
  BY TokensAre DEF IsQuery
<1>4. key \in ToSet(KeysIn(q.type)) /\ text \in ToSet(Bucket(q.type, key))
  BY <1>3, KeysOfAre
<1>5. PICK t \in DOMAIN Tokens(q) : token = Tokens(q)[t]
  BY DEF ToSet
<1>6. token \in Seq(Letter)
  <2> DEFINE s == Tokens(q)
             E == Seq(Letter)
  <2>1. s \in Seq(E) /\ t \in DOMAIN s
    BY <1>3
  <2> HIDE DEF s, E
  <2>2. s[t] \in E
    BY <2>1
  <2>. QED BY <1>5, <2>2 DEF s, E
<1>7. way \in Ranks(3) /\ \E m \in MatchKeys(q.type, token) : m.of = key /\ ~Less(way, m.way)
  BY <1>3, <1>4, <1>6, WaysAreMatched
<1>8. PICK m \in MatchKeys(q.type, token) : m.of = key /\ ~Less(way, m.way)
  BY <1>7
<1>9. m.way \in Ranks(3)
  BY <1>3, <1>6, MatchedAreRanked
<1> DEFINE s == Bucket(q.type, key)
           j == IndexOf(text, s)
<1>10. s \in Seq(DOMAIN Canonical)
  BY <1>3, <1>4, DictionaryIs
<1>11. j \in Nat /\ j \in DOMAIN s /\ s[j] = text
  BY <1>4, <1>10, IndexIs
<1>12. IsOccurrence(q, t, m, j)
  BY <1>5, <1>8, <1>11 DEF IsOccurrence
<1>13. Occurrence(q, t, m, j).of = text
  <2> DEFINE x == Rank(q, m.of, m.way, j) \o <<t, m.way[1]>> \o m.rank
             y == Bucket(q.type, m.of)[j]
  <2>1. Occurrence(q, t, m, j) = [of |-> y, rank |-> x]
    BY Zenon DEF Occurrence
  <2>2. y = text
    BY <1>8, <1>11
  <2> HIDE DEF x, y
  <2>. QED BY <2>1, <2>2
<1>14. r \in Ranks(6) /\ ~Less(r, Rank(q, key, m.way, j))
  <2> DEFINE a == Penalty(s[j] # q.text)
             b == Penalty(TextKeys(q.type, s[j])[1] # key)
             z == <<a, b, j>>
             own == m.way
  <2>1. j \in Int /\ own \in Ranks(3)
    BY <1>9, <1>11
  <2>2. z \in Ranks(3)
    <3>1. a \in Int /\ b \in Int
      BY DEF Penalty
    <3> HIDE DEF a, b, j
    <3>. QED BY <2>1, <3>1 DEF Ranks
  <2> HIDE DEF j, own
  <2>3. Rank(q, key, way, j) = Joined(way, z) /\ Rank(q, key, way, j) \in Ranks(6)
    BY <1>7, <2>1, RankIs
  <2>4. Rank(q, key, own, j) = Joined(own, z) /\ Rank(q, key, own, j) \in Ranks(6)
    BY <2>1, RankIs
  <2>5. r = Rank(q, key, way, j)
    BY <1>2 DEF j
  <2> HIDE DEF z
  <2>6. 3 \in Nat /\ \A x, y \in Ranks(3) : x = y \/ Less(x, y) \/ Less(y, x)
    <3>1. 3 \in Nat
      OBVIOUS
    <3>. QED BY <3>1, LessOrders
  <2>7. way = own \/ Less(own, way)
    BY <1>7, <1>8, <2>1, <2>6 DEF own
  <2>8. CASE way = own
    BY <2>3, <2>5, <2>8, RanksCompare DEF own
  <2>9. CASE Less(own, way)
    <3>1. Less(Joined(own, z), Joined(way, z))
      BY <1>7, <2>1, <2>2, <2>6, <2>9, LessJoined
    <3>2. Less(Rank(q, key, own, j), r)
      BY <2>3, <2>4, <2>5, <3>1
    <3>. QED BY <2>3, <2>4, <2>5, <3>2, RanksCompare DEF own
  <2>. QED BY <2>7, <2>8, <2>9
<1> HIDE DEF j, s
<1>15. ~Less(r, Rank(q, m.of, m.way, j))
  BY <1>8, <1>14
<1>. QED BY <1>12, <1>13, <1>14, <1>15

\* A candidate comes with its best rank.
LEMMA FirstHasBestRank ==
    ASSUME NEW q, IsQuery(q), NEW f \in Firsts(Occurrences(q))
    PROVE  \E t, m, i : /\ IsOccurrence(q, t, m, i) /\ f = Occurrence(q, t, m, i)
                        /\ BestRank(q, f.of) = Rank(q, m.of, m.way, i)
<1>1. /\ Firsts(Occurrences(q)) \subseteq Occurrences(q)
      /\ \A g \in Occurrences(q) : f.of = g.of => ~Less(g.rank, f.rank)
  BY DEF Firsts
<1>2. PICK t, m, i : IsOccurrence(q, t, m, i) /\ f = Occurrence(q, t, m, i)
  BY <1>1, OccurrencesAre
<1> DEFINE R == Rank(q, m.of, m.way, i)
<1>3. R \in Ranks(6)
  BY <1>2, OccurrenceIs
<1>4. ASSUME NEW s \in RanksOf(q, f.of) PROVE s \in Ranks(6) /\ ~Less(s, R)
  <2>1. s \in Ranks(6)
    BY RankHasOccurrence
  <2>2. PICK u, n, j : /\ IsOccurrence(q, u, n, j) /\ Occurrence(q, u, n, j).of = f.of
                       /\ ~Less(s, Rank(q, n.of, n.way, j))
    BY RankHasOccurrence
  <2> DEFINE S == Rank(q, n.of, n.way, j)
  <2>3. S \in Ranks(6)
    BY <2>2, OccurrenceIs
  <2>4. ~Less(S, R)
    <3>1. Occurrence(q, u, n, j) \in Occurrences(q)
      BY <2>2, OccurrencesAre
    <3>2. ~Less(Occurrence(q, u, n, j).rank, f.rank)
      BY <1>1, <2>2, <3>1
    <3>. QED BY <1>2, <2>2, <3>2, BetterComesFirst
  <2>5. ~Less(s, S)
    BY <2>2
  <2> HIDE DEF R, S
  <2>. QED BY <1>3, <2>1, <2>3, <2>4, <2>5, RanksCompare
<1>5. PICK r \in RanksOf(q, f.of) : r \in Ranks(6) /\ ~Less(R, r)
  BY <1>2, OccurrenceHasRank
<1> HIDE DEF R
<1>6. r = R
  BY <1>3, <1>4, <1>5, RanksCompare
<1>7. \A s \in RanksOf(q, f.of) : (\A x \in RanksOf(q, f.of) : ~Less(x, s)) => s = R
  BY <1>3, <1>4, <1>5, <1>6, RanksCompare
<1>8. BestRank(q, f.of) = R
  BY <1>4, <1>5, <1>6, <1>7 DEF BestRank
<1>. QED BY <1>2, <1>8 DEF R

\* What RankingIsBest says of a result.
BestFirst(q, result) ==
  /\ ToSet(result) = {text \in DOMAIN Canonical : RanksOf(q, text) # {}}
  /\ IsInjective(result)
  /\ \A i \in 1 .. Len(result) - 1 :
       ~Less(BestRank(q, result[i + 1]), BestRank(q, result[i]))

\* The candidates are complete and in the order of their best ranks.
LEMMA CandidatesAreBest ==
    ASSUME NEW q, IsQuery(q)
    PROVE  Candidates(q) \in Seq(DOMAIN Canonical) /\ BestFirst(q, Candidates(q))
<1> DEFINE O == Occurrences(q)
           F == Firsts(O)
           N == Cardinality(F)
           result == Candidates(q)
<1>1. RankedBy(O, 11) /\ (\A e, f \in O : e.rank = f.rank => e = f) /\ 11 \in Nat
  BY OccurrencesAreRanked
<1>2. /\ RankedBy(F, 11) /\ F \subseteq O
      /\ \A e \in O : \E f \in F : f.of = e.of
      /\ \A f \in F, e \in O : f.of = e.of => ~Less(e.rank, f.rank)
  <2> HIDE DEF O
  <2>. QED BY <1>1, FirstsAreFirst
<1>3. PICK at : InRanks(F, at) /\ InOrder(F) = [i \in 1 .. N |-> at[i].of]
  <2>1. \A e, f \in F : e.rank = f.rank => e = f
    BY <1>1, <1>2
  <2> HIDE DEF F
  <2>. QED BY <1>1, <1>2, <2>1, InOrderSorts
<1>4. N \in Nat
  <2> HIDE DEF F
  <2>. QED BY <1>2, FS_CardinalityType DEF RankedBy
<1>5. result = [i \in 1 .. N |-> at[i].of]
  BY <1>3 DEF Candidates
<1>6. /\ at \in [1 .. N -> F] /\ (\A e \in F : \E i \in 1 .. N : at[i] = e)
      /\ \A i, j \in 1 .. N : i < j => Less(at[i].rank, at[j].rank)
  BY <1>3 DEF InRanks
<1>7. \A e \in O : e.of \in DOMAIN Canonical
  <2> SUFFICES ASSUME NEW e \in O PROVE e.of \in DOMAIN Canonical
    OBVIOUS
  <2>1. PICK t, m, i : IsOccurrence(q, t, m, i) /\ e = Occurrence(q, t, m, i)
    BY OccurrencesAre
  <2>. QED BY <2>1, OccurrenceIs
<1> HIDE DEF N, F, O, result
<1>8. result \in Seq(DOMAIN Canonical) /\ Len(result) = N /\ DOMAIN result = 1 .. N /\ \A i \in 1 .. N : result[i] = at[i].of
  <2>1. \A i \in 1 .. N : at[i].of \in DOMAIN Canonical
    BY <1>2, <1>6, <1>7
  <2>2. result \in [1 .. N -> DOMAIN Canonical]
    BY <1>5, <2>1
  <2>. QED BY <1>4, <1>5, <2>2, SeqDef
<1>9. ASSUME NEW text PROVE text \in ToSet(result) <=> text \in DOMAIN Canonical /\ RanksOf(q, text) # {}
  <2>1. ASSUME text \in ToSet(result) PROVE text \in DOMAIN Canonical /\ RanksOf(q, text) # {}
    <3>1. PICK i \in 1 .. N : text = at[i].of
      BY <1>8, <2>1 DEF ToSet
    <3>2. at[i] \in O
      BY <1>2, <1>6
    <3>3. PICK t, m, j : IsOccurrence(q, t, m, j) /\ at[i] = Occurrence(q, t, m, j)
      BY <3>2, OccurrencesAre DEF O
    <3>4. \E r \in RanksOf(q, text) : r \in Ranks(6)
      BY <3>1, <3>3, OccurrenceHasRank
    <3>. QED BY <1>7, <3>1, <3>2, <3>4
  <2>2. ASSUME text \in DOMAIN Canonical, RanksOf(q, text) # {} PROVE text \in ToSet(result)
    <3>1. PICK r \in RanksOf(q, text) : TRUE
      BY <2>2
    <3>2. PICK t, m, j : IsOccurrence(q, t, m, j) /\ Occurrence(q, t, m, j).of = text
      BY <3>1, RankHasOccurrence
    <3>3. Occurrence(q, t, m, j) \in O
      BY <3>2, OccurrencesAre DEF O
    <3>4. PICK f \in F : f.of = text
      BY <1>2, <3>2, <3>3
    <3>5. PICK i \in 1 .. N : at[i] = f
      BY <1>6
    <3>. QED BY <1>8, <3>4, <3>5 DEF ToSet
  <2>. QED BY <2>1, <2>2
<1>10. IsInjective(result)
  <2>1. ASSUME NEW i \in 1 .. N, NEW j \in 1 .. N, result[i] = result[j], i < j PROVE FALSE
    <3>1. at[i] \in F /\ at[j] \in F /\ at[i].of = at[j].of
      BY <1>6, <1>8, <2>1
    <3>2. ~Less(at[i].rank, at[j].rank)
      BY <1>2, <3>1
    <3>. QED BY <1>6, <2>1, <3>2
  <2>2. \A i, j \in 1 .. N : i = j \/ i < j \/ j < i
    BY <1>4
  <2>. QED BY <1>8, <2>1, <2>2 DEF IsInjective
<1>11. ASSUME NEW i \in 1 .. N - 1 PROVE ~Less(BestRank(q, result[i + 1]), BestRank(q, result[i]))
  <2>1. i \in 1 .. N /\ i + 1 \in 1 .. N /\ i < i + 1
    BY <1>4
  <2> DEFINE e == at[i]
             f == at[i + 1]
  <2>2. e \in F /\ f \in F /\ Less(e.rank, f.rank) /\ result[i] = e.of /\ result[i + 1] = f.of
    BY <1>6, <1>8, <2>1
  <2> HIDE DEF e, f
  <2>3. PICK t, m, j : IsOccurrence(q, t, m, j) /\ e = Occurrence(q, t, m, j) /\ BestRank(q, e.of) = Rank(q, m.of, m.way, j)
    BY <2>2, FirstHasBestRank DEF F, O
  <2>4. PICK u, n, k : IsOccurrence(q, u, n, k) /\ f = Occurrence(q, u, n, k) /\ BestRank(q, f.of) = Rank(q, n.of, n.way, k)
    BY <2>2, FirstHasBestRank DEF F, O
  <2>5. ASSUME Less(Rank(q, n.of, n.way, k), Rank(q, m.of, m.way, j)) PROVE FALSE
    <3>1. Less(f.rank, e.rank)
      BY <2>3, <2>4, <2>5, BetterComesFirst
    <3>2. e.rank \in Ranks(11) /\ f.rank \in Ranks(11)
      BY <1>2, <2>2 DEF RankedBy
    <3>3. Less(f.rank, f.rank)
      BY <1>1, <2>2, <3>1, <3>2, LessOrders
    <3>. QED BY <1>1, <3>2, <3>3, LessOrders
  <2>. QED BY <2>2, <2>3, <2>4, <2>5
<1>. QED BY <1>8, <1>9, <1>10, <1>11 DEF BestFirst, result

-----------------------------------------------------------------------------
(* Matcher: the shape *)

\* The numbers of a list grow.
Grows(at, k) == \A i, j \in 1 .. k : i < j => at[i] < at[j]
\* Each number of one list is in another one.
Covers(bt, l, at, k) == \A i \in 1 .. k : \E j \in 1 .. l : bt[j] = at[i]

\* Lists cannot part: a number that one of them has and the other one leaves out.
LEMMA GrowingMeet ==
    ASSUME NEW k \in Nat, NEW l \in Nat, NEW at, NEW bt, Grows(bt, l), Covers(bt, l, at, k),
           \A j \in 1 .. k : at[j] \in Int, \A j \in 1 .. l : bt[j] \in Int,
           NEW i \in Nat, i \in 1 .. k, i \in 1 .. l,
           \A j \in 1 .. i - 1 : at[j] = bt[j] /\ at[j] < at[i]
    PROVE  ~(at[i] < bt[i])
<1> SUFFICES ASSUME at[i] < bt[i] PROVE FALSE
  OBVIOUS
<1>1. PICK j \in 1 .. l : bt[j] = at[i]
  BY DEF Covers
<1>2. ~(i < j)
  BY <1>1 DEF Grows
<1>3. i # j
  BY <1>1
<1>4. j \in 1 .. i - 1
  BY <1>2, <1>3
<1>. QED BY <1>1, <1>4

\* Lists that grow through the same numbers are the same.
LEMMA GrowingAgree ==
    ASSUME NEW k \in Nat, NEW l \in Nat, NEW n \in Nat, NEW at \in [1 .. k -> 1 .. n], NEW bt \in [1 .. l -> 1 .. n],
           Grows(at, k), Grows(bt, l), Covers(bt, l, at, k), Covers(at, k, bt, l)
    PROVE  k = l /\ at = bt
<1>1. (\A j \in 1 .. k : at[j] \in Int) /\ (\A j \in 1 .. l : bt[j] \in Int)
  OBVIOUS
<1> DEFINE D == {i \in 1 .. k : i <= l /\ at[i] # bt[i]}
<1>2. ASSUME D # {} PROVE FALSE
  <2>1. PICK i \in D : \A j \in D : i <= j
    <3>1. D \in SUBSET Nat
      OBVIOUS
    <3> HIDE DEF D
    <3>. QED BY <1>2, <3>1, LeastNumber
  <2>2. i \in Nat /\ i \in 1 .. k /\ i \in 1 .. l /\ at[i] # bt[i] /\ at[i] \in Int /\ bt[i] \in Int
    BY <2>1
  <2>3. \A j \in 1 .. i - 1 : j \in 1 .. k /\ j \in 1 .. l /\ at[j] = bt[j]
    BY <2>1, <2>2
  <2> HIDE DEF D
  <2>4. /\ \A j \in 1 .. i - 1 : at[j] = bt[j] /\ at[j] < at[i]
        /\ \A j \in 1 .. i - 1 : bt[j] = at[j] /\ bt[j] < bt[i]
    BY <2>2, <2>3 DEF Grows
  <2>5. ~(at[i] < bt[i])
    BY <1>1, <2>2, <2>4, GrowingMeet
  <2>6. ~(bt[i] < at[i])
    BY <1>1, <2>2, <2>4, GrowingMeet
  <2>. QED BY <2>2, <2>5, <2>6
<1>3. \A i \in 1 .. k : i <= l => at[i] = bt[i]
  BY <1>2
<1>4. ASSUME k < l PROVE FALSE
  <2>1. k + 1 \in 1 .. l
    BY <1>4
  <2>2. PICK i \in 1 .. k : at[i] = bt[k + 1]
    BY <2>1 DEF Covers
  <2>3. at[i] = bt[i] /\ bt[i] < bt[k + 1] /\ bt[i] \in Int
    BY <1>1, <1>3, <1>4, <2>1 DEF Grows
  <2>. QED BY <2>2, <2>3
<1>5. ASSUME l < k PROVE FALSE
  <2>1. l + 1 \in 1 .. k
    BY <1>5
  <2>2. PICK i \in 1 .. l : bt[i] = at[l + 1]
    BY <2>1 DEF Covers
  <2>3. at[i] = bt[i] /\ at[i] < at[l + 1] /\ at[i] \in Int
    BY <1>1, <1>3, <1>5, <2>1 DEF Grows
  <2>. QED BY <2>2, <2>3
<1>6. k = l
  BY <1>4, <1>5
<1>. QED BY <1>3, <1>6

\* A selection is what the filter keeps.
LEMMA SelectionIsKept ==
    ASSUME NEW E, NEW s \in Seq(E), NEW S, NEW t \in Seq(E), NEW at, Selection(s, S, Len(s), t, at)
    PROVE  Kept(s, S) = t
<1> DEFINE u == Kept(s, S)
<1>1. u \in Seq(E) /\ \E bt : Selection(s, S, Len(s), u, bt)
  BY KeptSelects
<1> HIDE DEF u
<1>2. PICK bt : Selection(s, S, Len(s), u, bt)
  BY <1>1
<1>3. /\ Len(t) \in Nat /\ Len(u) \in Nat /\ Len(s) \in Nat
      /\ t \in [1 .. Len(t) -> E] /\ u \in [1 .. Len(u) -> E]
  BY <1>1, SeqDef, LenProperties
<1> DEFINE k == Len(t)
           l == Len(u)
           n == Len(s)
<1>4. at \in [1 .. k -> 1 .. n] /\ bt \in [1 .. l -> 1 .. n] /\ Grows(at, k) /\ Grows(bt, l)
  BY <1>2 DEF Selection, Grows
<1>5. Covers(bt, l, at, k) /\ Covers(at, k, bt, l)
  BY <1>2 DEF Selection, Covers
<1>6. k = l /\ at = bt
  <2>1. k \in Nat /\ l \in Nat /\ n \in Nat
    BY <1>3
  <2> HIDE DEF k, l, n
  <2>. QED BY <1>4, <1>5, <2>1, GrowingAgree
<1>7. \A i \in 1 .. Len(t) : t[i] = u[i]
  BY <1>2, <1>6 DEF Selection
<1>8. t = u
  BY <1>3, <1>6, <1>7
<1>. QED BY <1>8 DEF u

\* What two filters keep one filter keeps.
LEMMA KeptTwice ==
    ASSUME NEW E, NEW s \in Seq(E), NEW S, NEW T, NEW U, \A x \in ToSet(s) : x \in U <=> x \in S /\ x \in T
    PROVE  Kept(Kept(s, S), T) = Kept(s, U)
<1> DEFINE t == Kept(s, S)
           u == Kept(t, T)
<1>1. t \in Seq(E)
  BY KeptSelects
<1>2. PICK at : Selection(s, S, Len(s), t, at)
  BY KeptSelects
<1> HIDE DEF t
<1>3. u \in Seq(E)
  BY <1>1, KeptSelects
<1>4. PICK bt : Selection(t, T, Len(t), u, bt)
  BY <1>1, KeptSelects
<1> HIDE DEF u
<1>5. /\ DOMAIN s = 1 .. Len(s) /\ Len(s) \in Nat /\ Len(t) \in Nat /\ Len(u) \in Nat
  BY <1>1, <1>3, LenProperties
<1> DEFINE ct == [i \in 1 .. Len(u) |-> at[bt[i]]]
<1>6. /\ at \in [1 .. Len(t) -> 1 .. Len(s)] /\ bt \in [1 .. Len(u) -> 1 .. Len(t)]
      /\ \A i, j \in 1 .. Len(t) : i < j => at[i] < at[j]
      /\ \A i, j \in 1 .. Len(u) : i < j => bt[i] < bt[j]
  BY <1>2, <1>4 DEF Selection
<1>7. ct \in [1 .. Len(u) -> 1 .. Len(s)] /\ \A i, j \in 1 .. Len(u) : i < j => ct[i] < ct[j]
  BY <1>6
<1>8. ASSUME NEW i \in 1 .. Len(u) PROVE u[i] = s[ct[i]] /\ u[i] \in U
  <2>1. bt[i] \in 1 .. Len(t) /\ u[i] = t[bt[i]] /\ u[i] \in T
    BY <1>4 DEF Selection
  <2>2. t[bt[i]] = s[at[bt[i]]] /\ t[bt[i]] \in S
    BY <1>2, <2>1 DEF Selection
  <2>3. ct[i] \in 1 .. Len(s) /\ ct[i] = at[bt[i]]
    BY <1>7
  <2>4. u[i] \in ToSet(s)
    BY <1>5, <2>1, <2>2, <2>3 DEF ToSet
  <2>. QED BY <2>1, <2>2, <2>3, <2>4
<1>9. ASSUME NEW m \in 1 .. Len(s), s[m] \in U PROVE \E i \in 1 .. Len(u) : ct[i] = m
  <2>1. s[m] \in S /\ s[m] \in T
    BY <1>5, <1>9 DEF ToSet
  <2>2. PICK j \in 1 .. Len(t) : at[j] = m
    BY <1>2, <2>1 DEF Selection
  <2>3. t[j] = s[m]
    BY <1>2, <2>2 DEF Selection
  <2>4. PICK i \in 1 .. Len(u) : bt[i] = j
    BY <1>4, <2>1, <2>3 DEF Selection
  <2>. QED BY <2>2, <2>4
<1> HIDE DEF ct
<1>10. Selection(s, U, Len(s), u, ct)
  BY <1>7, <1>8, <1>9 DEF Selection
<1>11. Kept(s, U) = u
  BY <1>3, <1>10, SelectionIsKept
<1>. QED BY <1>11 DEF u, t

\* A list without repetitions is as long as the set of its elements.
LEMMA DistinctLength ==
    ASSUME NEW E, NEW s \in Seq(E), IsInjective(s)
    PROVE  IsFiniteSet(ToSet(s)) /\ Cardinality(ToSet(s)) = Len(s)
<1>1. Len(s) \in Nat /\ DOMAIN s = 1 .. Len(s) /\ s \in [1 .. Len(s) -> E]
  BY SeqDef, LenProperties
<1> DEFINE S == ToSet(s)
<1>2. s \in Bijection(1 .. Len(s), S)
  <2>1. s \in [1 .. Len(s) -> S] /\ \A x \in S : \E i \in 1 .. Len(s) : s[i] = x
    BY <1>1 DEF ToSet
  <2>2. s \in Injection(1 .. Len(s), S)
    BY <1>1, <2>1 DEF Injection, IsInjective
  <2>3. s \in Surjection(1 .. Len(s), S)
    BY <2>1 DEF Surjection
  <2>. QED BY <2>2, <2>3 DEF Bijection
<1>3. IsFiniteSet(1 .. Len(s)) /\ Cardinality(1 .. Len(s)) = Len(s)
  BY <1>1, FS_Interval
<1> HIDE DEF S
<1>4. ExistsBijection(1 .. Len(s), S)
  BY <1>2 DEF ExistsBijection
<1>5. IsFiniteSet(S) /\ Cardinality(S) = Cardinality(1 .. Len(s))
  BY <1>3, <1>4, FS_Bijection
<1>. QED BY <1>3, <1>5 DEF S

\* The first part of the rank by shape tells the text from the others.
LEMMA ShapeRankIs ==
    ASSUME NEW text \in DOMAIN Canonical, NEW c \in DOMAIN Canonical
    PROVE  ShapeRank(text, c) \in Ranks(5) /\ ShapeRank(text, c)[1] = Penalty(c # text)
<1> DEFINE p == Penalty(c # text)
           i == IndexOf(c, Neighbors[text])
           j == IndexOf(text, Neighbors[c])
           s == ContainsScore(text, c)
           t == ComponentScore(text, c)
<1>1. p \in Int
  BY DEF Penalty
<1>2. Neighbors[text] \in Seq(DOMAIN Canonical) /\ Neighbors[c] \in Seq(DOMAIN Canonical)
  BY MatcherAssumption DEF MatcherAssumption
<1>3. i \in Int /\ j \in Int
  <2> DEFINE x == Neighbors[text]
             y == Neighbors[c]
             E == DOMAIN Canonical
  <2>1. x \in Seq(E) /\ y \in Seq(E)
    BY <1>2
  <2> HIDE DEF x, y, E
  <2>2. IndexOf(c, x) \in Nat /\ IndexOf(text, y) \in Nat
    BY <2>1, IndexIs
  <2>. QED BY <2>2 DEF x, y
<1>4. s \in Int
  BY DEF ContainsScore
<1>5. t \in Int
  BY DEF ComponentScore
<1>6. ShapeRank(text, c) = <<p, i, j, s, t>>
  BY Zenon DEF ShapeRank
<1> HIDE DEF p, i, j, s, t
<1>7. <<p, i, j, s, t>> \in Ranks(5) /\ <<p, i, j, s, t>>[1] = p
  BY <1>1, <1>3, <1>4, <1>5 DEF Ranks
<1>. QED BY <1>6, <1>7 DEF p

\* B has the elements of candidates in the order of their shape.
Shaped(text, candidates, B) ==
  /\ B \in Seq(DOMAIN Canonical) /\ IsInjective(B) /\ ToSet(B) = ToSet(candidates)
  /\ \A i, j \in 1 .. Len(B) : i < j => ~Less(ShapeRank(text, B[j]), ShapeRank(text, B[i]))
  /\ \A i \in 1 .. Len(B) : B[i] = text => i = 1

\* An entry for a candidate, by its place.
Shape(text, candidates, i) ==
  [of |-> candidates[i], rank |-> Joined(ShapeRank(text, candidates[i]), <<i>>)]

\* The parts of such an entry.
LEMMA ShapeIs ==
    ASSUME NEW text \in DOMAIN Canonical, NEW candidates \in Seq(DOMAIN Canonical), NEW i \in DOMAIN candidates
    PROVE  /\ candidates[i] \in DOMAIN Canonical /\ ShapeRank(text, candidates[i]) \in Ranks(5) /\ <<i>> \in Ranks(1)
           /\ Shape(text, candidates, i).of = candidates[i]
           /\ Shape(text, candidates, i).rank = Joined(ShapeRank(text, candidates[i]), <<i>>)
           /\ Shape(text, candidates, i).rank \in Ranks(6)
<1>1. i \in Int /\ candidates[i] \in DOMAIN Canonical
  BY ElementOfSeq, LenProperties
<1> DEFINE R == ShapeRank(text, candidates[i])
           o == <<i>>
           x == candidates[i]
<1>2. R \in Ranks(5)
  BY <1>1, ShapeRankIs
<1>3. o \in Ranks(1)
  BY <1>1 DEF Ranks
<1>4. Shape(text, candidates, i) = [of |-> x, rank |-> Joined(R, o)]
  BY Zenon DEF Shape
<1> HIDE DEF R, o, x
<1>5. Joined(R, o) \in Ranks(6)
  <2>1. 5 \in Nat /\ 1 \in Nat /\ 5 + 1 = 6
    OBVIOUS
  <2>2. Joined(R, o) \in Ranks(5 + 1)
    BY <1>2, <1>3, <2>1, LessJoined
  <2>. QED BY <2>1, <2>2
<1>6. Shape(text, candidates, i).of = x /\ Shape(text, candidates, i).rank = Joined(R, o)
  BY <1>4
<1>. QED BY <1>1, <1>2, <1>3, <1>5, <1>6 DEF R, o, x

\* What looks more like the text comes first, and the text before all.
LEMMA ByShapeIs ==
    ASSUME NEW text \in DOMAIN Canonical, NEW candidates \in Seq(DOMAIN Canonical), IsInjective(candidates)
    PROVE  Shaped(text, candidates, ByShape(text, candidates))
<1> DEFINE N == Len(candidates)
           E == {Shape(text, candidates, i) : i \in DOMAIN candidates}
           M == Cardinality(E)
           B == ByShape(text, candidates)
<1>1. N \in Nat /\ DOMAIN candidates = 1 .. N
  BY LenProperties
<1>2. IsFiniteSet(E)
  <2> DEFINE F == [i \in DOMAIN candidates |-> Shape(text, candidates, i)]
  <2>1. F \in Surjection(DOMAIN candidates, E)
    BY DEF Surjection
  <2>2. IsFiniteSet(1 .. N)
    BY <1>1, FS_Interval
  <2> HIDE DEF F, E
  <2>. QED BY <1>1, <2>1, <2>2, FS_Surjection
<1>3. \A e \in E : e.rank \in Ranks(6)
  BY ShapeIs
<1>4. RankedBy(E, 6)
  BY <1>2, <1>3 DEF RankedBy
<1>5. ASSUME NEW e \in E, NEW f \in E, e.rank = f.rank PROVE e = f
  <2>1. PICK i \in DOMAIN candidates : e = Shape(text, candidates, i)
    OBVIOUS
  <2>2. PICK j \in DOMAIN candidates : f = Shape(text, candidates, j)
    OBVIOUS
  <2> DEFINE R == ShapeRank(text, candidates[i])
             S == ShapeRank(text, candidates[j])
             x == <<i>>
             y == <<j>>
  <2>3. e.rank = Joined(R, x) /\ R \in Ranks(5) /\ x \in Ranks(1)
    BY <2>1, ShapeIs
  <2>4. f.rank = Joined(S, y) /\ S \in Ranks(5) /\ y \in Ranks(1)
    BY <2>2, ShapeIs
  <2>5. 5 \in Nat /\ 1 \in Nat
    OBVIOUS
  <2> HIDE DEF R, S, x, y, E
  <2>6. x = y
    <3>1. Joined(R, x) = Joined(S, y)
      BY <1>5, <2>3, <2>4
    <3> DEFINE five == 5
               one == 1
    <3>2. five \in Nat /\ one \in Nat /\ R \in Ranks(five) /\ S \in Ranks(five) /\ x \in Ranks(one) /\ y \in Ranks(one)
      BY <2>3, <2>4
    <3> HIDE DEF five, one
    <3>. QED BY <3>1, <3>2, JoinedParts
  <2>7. i = j
    BY <2>6 DEF x, y
  <2>. QED BY <2>1, <2>2, <2>7
<1>6. M \in Nat /\ \E at : InRanks(E, at) /\ InOrder(E) = [i \in 1 .. M |-> at[i].of]
  <2>1. 6 \in Nat
    OBVIOUS
  <2> HIDE DEF E
  <2>. QED BY <1>4, <1>5, <2>1, InOrderSorts
<1>7. PICK at : InRanks(E, at) /\ InOrder(E) = [i \in 1 .. M |-> at[i].of]
  BY <1>6
<1>8. B = InOrder(E)
  BY Zenon DEF ByShape, Shape, Joined
<1> HIDE DEF M, B
<1>9. /\ at \in [1 .. M -> E] /\ (\A e \in E : \E i \in 1 .. M : at[i] = e)
      /\ \A i, j \in 1 .. M : i < j => Less(at[i].rank, at[j].rank)
  BY <1>7 DEF InRanks, M
<1>10. \A e \in E : \E k \in DOMAIN candidates : e = Shape(text, candidates, k) /\ e.of = candidates[k]
  BY ShapeIs
<1>11. \A k \in DOMAIN candidates : Shape(text, candidates, k) \in E
  OBVIOUS
<1> HIDE DEF E
<1>12. \A i \in 1 .. M : \E k \in DOMAIN candidates : at[i] = Shape(text, candidates, k) /\ at[i].of = candidates[k]
  BY <1>9, <1>10
<1>13. /\ B \in Seq(DOMAIN Canonical) /\ Len(B) = M /\ DOMAIN B = 1 .. M /\ \A i \in 1 .. M : B[i] = at[i].of
  <2>1. \A i \in 1 .. M : at[i].of \in DOMAIN Canonical
    BY <1>12, ElementOfSeq
  <2>2. B \in [1 .. M -> DOMAIN Canonical] /\ \A i \in 1 .. M : B[i] = at[i].of
    BY <1>7, <1>8, <2>1 DEF M
  <2>. QED BY <1>6, <2>2, SeqDef DEF M
<1>14. ASSUME NEW i \in 1 .. M, NEW j \in 1 .. M, B[i] = B[j] PROVE i = j
  <2>1. PICK k \in DOMAIN candidates : at[i] = Shape(text, candidates, k) /\ at[i].of = candidates[k]
    BY <1>12
  <2>2. PICK l \in DOMAIN candidates : at[j] = Shape(text, candidates, l) /\ at[j].of = candidates[l]
    BY <1>12
  <2>3. k = l
    BY <1>13, <1>14, <2>1, <2>2 DEF IsInjective
  <2>4. at[i] = at[j] /\ at[i].rank \in Ranks(6)
    BY <1>3, <1>9, <2>1, <2>2, <2>3
  <2>5. ~Less(at[i].rank, at[i].rank)
    BY <2>4, RanksCompare
  <2>6. ~(i < j) /\ ~(j < i)
    BY <1>9, <2>4, <2>5
  <2>. QED BY <1>6, <2>6 DEF M
<1>15. ToSet(B) = ToSet(candidates)
  <2>1. ASSUME NEW x \in ToSet(B) PROVE x \in ToSet(candidates)
    BY <1>12, <1>13 DEF ToSet
  <2>2. ASSUME NEW x \in ToSet(candidates) PROVE x \in ToSet(B)
    <3>1. PICK k \in DOMAIN candidates : x = candidates[k]
      BY DEF ToSet
    <3>2. PICK i \in 1 .. M : at[i] = Shape(text, candidates, k)
      BY <1>9, <1>11
    <3>3. at[i].of = x
      BY <3>1, <3>2, ShapeIs
    <3>. QED BY <1>13, <3>3 DEF ToSet
  <2>. QED BY <2>1, <2>2
<1>16. ASSUME NEW i \in 1 .. M, NEW j \in 1 .. M, i < j
       PROVE  ~Less(ShapeRank(text, B[j]), ShapeRank(text, B[i]))
  <2>1. PICK k \in DOMAIN candidates : at[i] = Shape(text, candidates, k) /\ at[i].of = candidates[k]
    BY <1>12
  <2>2. PICK l \in DOMAIN candidates : at[j] = Shape(text, candidates, l) /\ at[j].of = candidates[l]
    BY <1>12
  <2> DEFINE R == ShapeRank(text, candidates[k])
             S == ShapeRank(text, candidates[l])
             x == <<k>>
             y == <<l>>
  <2>3. at[i].rank = Joined(R, x) /\ R \in Ranks(5) /\ x \in Ranks(1) /\ Joined(R, x) \in Ranks(6)
    BY <2>1, ShapeIs
  <2>4. at[j].rank = Joined(S, y) /\ S \in Ranks(5) /\ y \in Ranks(1) /\ Joined(S, y) \in Ranks(6)
    BY <2>2, ShapeIs
  <2>5. 5 \in Nat /\ 1 \in Nat
    OBVIOUS
  <2>6. Less(at[i].rank, at[j].rank)
    BY <1>9, <1>16
  <2>7. B[i] = candidates[k] /\ B[j] = candidates[l]
    BY <1>13, <2>1, <2>2
  <2> HIDE DEF R, S, x, y
  <2>8. ASSUME Less(S, R) PROVE FALSE
    <3>1. Less(Joined(S, y), Joined(R, x))
      BY <2>3, <2>4, <2>5, <2>8, LessJoined
    <3>2. Less(Joined(R, x), Joined(S, y))
      BY <2>3, <2>4, <2>6
    <3>. QED BY <2>3, <2>4, <3>1, <3>2, RanksCompare
  <2>. QED BY <2>7, <2>8 DEF R, S
<1>17. ASSUME NEW i \in 1 .. M, B[i] = text PROVE i = 1
  <2>1. ASSUME i # 1 PROVE FALSE
    <3>1. 1 \in 1 .. M /\ 1 < i
      BY <1>6, <2>1 DEF M
    <3>2. ~Less(ShapeRank(text, B[i]), ShapeRank(text, B[1])) /\ B[1] # text
      BY <1>14, <1>16, <1>17, <2>1, <3>1
    <3> DEFINE R == ShapeRank(text, text)
               S == ShapeRank(text, B[1])
    <3>3. B[1] \in DOMAIN Canonical
      BY <1>13, <3>1, ElementOfSeq
    <3>4. R \in Ranks(5) /\ R[1] = 0 /\ S[1] = 1
      BY <3>2, <3>3, ShapeRankIs DEF Penalty
    <3> HIDE DEF R, S
    <3>5. Less(R, S)
      <4>1. 1 \in DOMAIN R /\ R[1] < S[1] /\ \A j \in 1 .. 1 - 1 : R[j] = S[j]
        BY <3>4 DEF Ranks
      <4>. QED BY <4>1 DEF Less
    <3>. QED BY <1>17, <3>2, <3>5 DEF R, S
  <2>. QED BY <2>1
<1>. QED BY <1>13, <1>14, <1>15, <1>16, <1>17 DEF Shaped, IsInjective, B

\* A filter repeats nothing.
LEMMA KeptDistinct ==
    ASSUME NEW E, NEW s \in Seq(E), IsInjective(s), NEW S
    PROVE  IsInjective(Kept(s, S))
<1> DEFINE t == Kept(s, S)
<1>1. t \in Seq(E)
  BY KeptSelects
<1>2. PICK at : Selection(s, S, Len(s), t, at)
  BY KeptSelects
<1>3. DOMAIN s = 1 .. Len(s) /\ DOMAIN t = 1 .. Len(t) /\ Len(t) \in Nat
  BY <1>1, LenProperties
<1> HIDE DEF t
<1>4. ASSUME NEW i \in 1 .. Len(t), NEW j \in 1 .. Len(t), t[i] = t[j], i < j PROVE FALSE
  <2>1. at[i] \in 1 .. Len(s) /\ at[j] \in 1 .. Len(s) /\ at[i] < at[j] /\ s[at[i]] = s[at[j]]
    BY <1>2, <1>4 DEF Selection
  <2>2. at[i] = at[j]
    BY <1>3, <2>1 DEF IsInjective
  <2>. QED BY <2>1, <2>2
<1>5. \A i, j \in 1 .. Len(t) : i = j \/ i < j \/ j < i
  BY <1>3
<1>6. IsInjective(t)
  BY <1>3, <1>4, <1>5 DEF IsInjective
<1>. QED BY <1>6 DEF t

\* One element and two lists, one after the other.
Laid(x, s, t) == <<x>> \o s \o t
\* An element and lists of E.
AreParts(E, x, s, t) == x \in E /\ s \in Seq(E) /\ t \in Seq(E)
\* a is x, the elements of s and those of t.
IsLaid(E, x, s, t, a) ==
  /\ a \in Seq(E) /\ Len(a) = 1 + Len(s) + Len(t) /\ a[1] = x /\ Len(s) \in Nat /\ Len(t) \in Nat
  /\ \A i \in 1 .. Len(s) : a[i + 1] = s[i]
  /\ \A i \in 1 .. Len(t) : a[i + (1 + Len(s))] = t[i]

\* They are put after each other.
LEMMA LaidIs ==
    ASSUME NEW E, NEW x, NEW s, NEW t, AreParts(E, x, s, t)
    PROVE  IsLaid(E, x, s, t, Laid(x, s, t))
<1>. x \in E /\ s \in Seq(E) /\ t \in Seq(E)
  BY DEF AreParts
<1> DEFINE o == <<x>>
           os == o \o s
           a == os \o t
<1>1. o \in Seq(E) /\ Len(o) = 1 /\ o[1] = x
  OBVIOUS
<1>2. Len(s) \in Nat /\ Len(t) \in Nat
  BY LenProperties
<1> HIDE DEF o
<1>3. /\ os \in Seq(E) /\ Len(os) = 1 + Len(s)
      /\ \A i \in 1 .. 1 + Len(s) : os[i] = IF i <= 1 THEN o[i] ELSE s[i - 1]
  <2>1. /\ o \o s \in Seq(E) /\ Len(o \o s) = Len(o) + Len(s)
        /\ \A i \in 1 .. Len(o) + Len(s) : (o \o s)[i] = IF i <= Len(o) THEN o[i] ELSE s[i - Len(o)]
    BY <1>1, ConcatProperties
  <2>. QED BY <1>1, <2>1
<1> HIDE DEF os
<1>4. /\ a \in Seq(E) /\ Len(a) = 1 + Len(s) + Len(t)
      /\ \A i \in 1 .. 1 + Len(s) + Len(t) : a[i] = IF i <= 1 + Len(s) THEN os[i] ELSE t[i - (1 + Len(s))]
  <2>1. /\ os \o t \in Seq(E) /\ Len(os \o t) = Len(os) + Len(t)
        /\ \A i \in 1 .. Len(os) + Len(t) : (os \o t)[i] = IF i <= Len(os) THEN os[i] ELSE t[i - Len(os)]
    BY <1>3, ConcatProperties
  <2>. QED BY <1>3, <2>1
<1> HIDE DEF a
<1>5. a[1] = x
  BY <1>1, <1>2, <1>3, <1>4
<1>6. ASSUME NEW i \in 1 .. Len(s) PROVE a[i + 1] = s[i]
  <2>1. i + 1 \in 1 .. 1 + Len(s) /\ i + 1 \in 1 .. 1 + Len(s) + Len(t) /\ ~(i + 1 <= 1) /\ i + 1 <= 1 + Len(s) /\ (i + 1) - 1 = i
    BY <1>2
  <2>. QED BY <1>3, <1>4, <2>1
<1>7. ASSUME NEW i \in 1 .. Len(t) PROVE a[i + (1 + Len(s))] = t[i]
  <2>1. /\ i + (1 + Len(s)) \in 1 .. 1 + Len(s) + Len(t) /\ ~(i + (1 + Len(s)) <= 1 + Len(s))
        /\ (i + (1 + Len(s))) - (1 + Len(s)) = i
    BY <1>2
  <2>. QED BY <1>4, <2>1
<1>8. Laid(x, s, t) = a
  BY Zenon DEF Laid, a, os, o
<1>9. IsLaid(E, x, s, t, a)
  BY <1>2, <1>4, <1>5, <1>6, <1>7 DEF IsLaid
<1>. QED BY <1>8, <1>9

\* The elements of such a list.
LEMMA LaidElements ==
    ASSUME NEW E, NEW x, NEW s, NEW t, AreParts(E, x, s, t),
           IsInjective(s), IsInjective(t), x \notin ToSet(s), x \notin ToSet(t), ToSet(s) \cap ToSet(t) = {}
    PROVE  IsInjective(Laid(x, s, t)) /\ ToSet(Laid(x, s, t)) = {x} \cup ToSet(s) \cup ToSet(t)
<1>. x \in E /\ s \in Seq(E) /\ t \in Seq(E)
  BY DEF AreParts
<1> DEFINE a == Laid(x, s, t)
           k == Len(s)
           l == Len(t)
<1>1. /\ a \in Seq(E) /\ Len(a) = 1 + k + l /\ a[1] = x /\ k \in Nat /\ l \in Nat
      /\ \A i \in 1 .. k : a[i + 1] = s[i]
      /\ \A i \in 1 .. l : a[i + (1 + k)] = t[i]
  <2> HIDE DEF a, k, l
  <2>1. IsLaid(E, x, s, t, Laid(x, s, t))
    BY LaidIs
  <2>. QED BY <2>1 DEF IsLaid, a, k, l
<1> HIDE DEF a
<1>2. DOMAIN a = 1 .. 1 + k + l /\ DOMAIN s = 1 .. k /\ DOMAIN t = 1 .. l
  BY <1>1, LenProperties
<1> HIDE DEF k, l
<1>3. ASSUME NEW i \in 1 .. 1 + k + l
      PROVE  \/ i = 1 /\ a[i] = x
             \/ i - 1 \in 1 .. k /\ a[i] = s[i - 1] /\ a[i] \in ToSet(s)
             \/ i - (1 + k) \in 1 .. l /\ a[i] = t[i - (1 + k)] /\ a[i] \in ToSet(t)
  <2>1. CASE i = 1
    BY <1>1, <2>1
  <2>2. CASE i > 1 /\ i <= 1 + k
    <3>1. i - 1 \in 1 .. k /\ (i - 1) + 1 = i
      BY <1>1, <2>2
    <3>2. a[i] = s[i - 1]
      BY <1>1, <3>1
    <3>. QED BY <1>2, <3>1, <3>2 DEF ToSet
  <2>3. CASE i > 1 + k
    <3>1. i - (1 + k) \in 1 .. l /\ (i - (1 + k)) + (1 + k) = i
      BY <1>1, <2>3
    <3>2. a[i] = t[i - (1 + k)]
      BY <1>1, <3>1
    <3>. QED BY <1>2, <3>1, <3>2 DEF ToSet
  <2>. QED BY <1>1, <2>1, <2>2, <2>3
<1>4. ASSUME NEW i \in 1 .. 1 + k + l, NEW j \in 1 .. 1 + k + l, a[i] = a[j] PROVE i = j
  <2>1. CASE i = 1 /\ a[i] = x
    <3>1. j = 1
      BY <1>3, <1>4, <2>1
    <3>. QED BY <2>1, <3>1
  <2>2. CASE i - 1 \in 1 .. k /\ a[i] = s[i - 1] /\ a[i] \in ToSet(s)
    <3>1. j - 1 \in 1 .. k /\ a[j] = s[j - 1]
      BY <1>3, <1>4, <2>2
    <3>2. i - 1 = j - 1
      BY <1>2, <1>4, <2>2, <3>1 DEF IsInjective
    <3>. QED BY <1>1, <3>2
  <2>3. CASE i - (1 + k) \in 1 .. l /\ a[i] = t[i - (1 + k)] /\ a[i] \in ToSet(t)
    <3>1. j - (1 + k) \in 1 .. l /\ a[j] = t[j - (1 + k)]
      BY <1>3, <1>4, <2>3
    <3>2. i - (1 + k) = j - (1 + k)
      BY <1>2, <1>4, <2>3, <3>1 DEF IsInjective
    <3>. QED BY <1>1, <3>2
  <2>. QED BY <1>3, <2>1, <2>2, <2>3
<1>5. IsInjective(a)
  BY <1>2, <1>4 DEF IsInjective
<1>6. ToSet(a) \subseteq {x} \cup ToSet(s) \cup ToSet(t)
  BY <1>2, <1>3 DEF ToSet
<1>7. x \in ToSet(a)
  <2>1. 1 \in 1 .. 1 + k + l
    BY <1>1
  <2>. QED BY <1>1, <1>2, <2>1 DEF ToSet
<1>8. ToSet(s) \subseteq ToSet(a)
  <2> SUFFICES ASSUME NEW i \in 1 .. k PROVE s[i] \in ToSet(a)
    BY <1>2 DEF ToSet
  <2>1. i + 1 \in 1 .. 1 + k + l
    BY <1>1
  <2>. QED BY <1>1, <1>2, <2>1 DEF ToSet
<1>9. ToSet(t) \subseteq ToSet(a)
  <2> SUFFICES ASSUME NEW i \in 1 .. l PROVE t[i] \in ToSet(a)
    BY <1>2 DEF ToSet
  <2>1. i + (1 + k) \in 1 .. 1 + k + l
    BY <1>1
  <2>. QED BY <1>1, <1>2, <2>1 DEF ToSet
<1>. QED BY <1>5, <1>6, <1>7, <1>8, <1>9 DEF a

\* The parts of such a list.
LEMMA LaidParts ==
    ASSUME NEW E, NEW x, NEW s, NEW t, AreParts(E, x, s, t)
    PROVE  /\ SubSeq(Laid(x, s, t), 2, Len(s) + 1) = s
           /\ SubSeq(Laid(x, s, t), Len(s) + 2, Len(Laid(x, s, t))) = t
<1>. x \in E /\ s \in Seq(E) /\ t \in Seq(E)
  BY DEF AreParts
<1> DEFINE a == Laid(x, s, t)
           k == Len(s)
           l == Len(t)
<1>1. /\ a \in Seq(E) /\ Len(a) = 1 + k + l /\ k \in Nat /\ l \in Nat
      /\ \A i \in 1 .. k : a[i + 1] = s[i]
      /\ \A i \in 1 .. l : a[i + (1 + k)] = t[i]
  <2> HIDE DEF a, k, l
  <2>1. IsLaid(E, x, s, t, Laid(x, s, t))
    BY LaidIs
  <2>. QED BY <2>1 DEF IsLaid, a, k, l
<1>2. s \in [1 .. k -> E] /\ t \in [1 .. l -> E]
  BY SeqDef, LenProperties
<1> DEFINE u == SubSeq(a, 2, k + 1)
           v == SubSeq(a, k + 2, 1 + k + l)
<1> HIDE DEF a, k, l
<1>3. u \in Seq(E) /\ Len(u) = k /\ \A i \in 1 .. k : u[i] = a[i + 1]
  <2>1. 2 \in Int /\ k + 1 \in Int /\ \A i \in 2 .. k + 1 : a[i] \in E
    <3>1. \A i \in 2 .. k + 1 : i \in 1 .. Len(a)
      BY <1>1
    <3>. QED BY <1>1, <3>1, ElementOfSeq
  <2>2. /\ u \in Seq(E) /\ Len(u) = (IF 2 <= k + 1 THEN (k + 1) - 2 + 1 ELSE 0)
        /\ \A i \in 1 .. (k + 1) - 2 + 1 : u[i] = a[2 + i - 1]
    BY <2>1, SubSeqProperties
  <2>3. (k + 1) - 2 + 1 = k /\ (IF 2 <= k + 1 THEN (k + 1) - 2 + 1 ELSE 0) = k /\ \A i \in 1 .. k : 2 + i - 1 = i + 1
    BY <1>1
  <2> HIDE DEF u
  <2>. QED BY <2>2, <2>3
<1>4. v \in Seq(E) /\ Len(v) = l /\ \A i \in 1 .. l : v[i] = a[i + (1 + k)]
  <2>1. k + 2 \in Int /\ 1 + k + l \in Int /\ \A i \in k + 2 .. 1 + k + l : a[i] \in E
    <3>1. \A i \in k + 2 .. 1 + k + l : i \in 1 .. Len(a)
      BY <1>1
    <3>. QED BY <1>1, <3>1, ElementOfSeq
  <2>2. /\ v \in Seq(E) /\ Len(v) = (IF k + 2 <= 1 + k + l THEN (1 + k + l) - (k + 2) + 1 ELSE 0)
        /\ \A i \in 1 .. (1 + k + l) - (k + 2) + 1 : v[i] = a[(k + 2) + i - 1]
    BY <2>1, SubSeqProperties
  <2>3. /\ (1 + k + l) - (k + 2) + 1 = l /\ (IF k + 2 <= 1 + k + l THEN (1 + k + l) - (k + 2) + 1 ELSE 0) = l
    BY <1>1
  <2>4. \A i \in 1 .. l : (k + 2) + i - 1 = i + (1 + k)
    BY <1>1
  <2> HIDE DEF v
  <2>. QED BY <2>2, <2>3, <2>4
<1> HIDE DEF u, v
<1>5. u = s
  <2>1. u \in [1 .. k -> E] /\ \A i \in 1 .. k : u[i] = s[i]
    <3>1. u \in [1 .. Len(u) -> E]
      BY <1>3, SeqDef, LenProperties
    <3>2. \A i \in 1 .. k : u[i] = s[i]
      BY <1>1, <1>3, Zenon
    <3>. QED BY <1>3, <3>1, <3>2
  <2>2. u = [i \in 1 .. k |-> u[i]] /\ s = [i \in 1 .. k |-> s[i]]
    BY <1>2, <2>1
  <2>. QED BY <2>1, <2>2
<1>6. v = t
  <2>1. v \in [1 .. l -> E] /\ \A i \in 1 .. l : v[i] = t[i]
    <3>1. v \in [1 .. Len(v) -> E]
      BY <1>4, SeqDef, LenProperties
    <3>2. \A i \in 1 .. l : v[i] = t[i]
      BY <1>1, <1>4, Zenon
    <3>. QED BY <1>4, <3>1, <3>2
  <2>2. v = [i \in 1 .. l |-> v[i]] /\ t = [i \in 1 .. l |-> t[i]]
    BY <1>2, <2>1
  <2>. QED BY <2>1, <2>2
<1>. QED BY <1>1, <1>5, <1>6 DEF a, k, u, v

\* t are at most n of the others, none of the rest looks more like the text.
IsTop(text, others, n, t) ==
  /\ t \in Seq(DOMAIN Canonical) /\ IsInjective(t) /\ ToSet(t) \subseteq others
  /\ Len(t) = Least(n, Cardinality(others))
  /\ \A a \in ToSet(t), b \in others \ ToSet(t) : ~Less(ShapeRank(text, b), ShapeRank(text, a))

\* Part of a list, from the element after d on.
LEMMA PartOfList ==
    ASSUME NEW E, NEW B \in Seq(E), NEW d \in Nat, NEW k \in Nat, d + k <= Len(B)
    PROVE  /\ [i \in 1 .. k |-> B[i + d]] \in Seq(E) /\ Len([i \in 1 .. k |-> B[i + d]]) = k
           /\ DOMAIN [i \in 1 .. k |-> B[i + d]] = 1 .. k
           /\ \A i \in 1 .. k : [j \in 1 .. k |-> B[j + d]][i] = B[i + d] /\ i + d \in 1 .. Len(B)
<1> DEFINE t == [i \in 1 .. k |-> B[i + d]]
<1>1. Len(B) \in Nat
  BY LenProperties
<1>2. \A i \in 1 .. k : i + d \in 1 .. Len(B)
  BY <1>1
<1>3. \A i \in 1 .. k : B[i + d] \in E
  BY <1>2, ElementOfSeq
<1>4. t \in [1 .. k -> E]
  BY <1>3
<1>5. t \in Seq(E) /\ Len(t) = k
  BY <1>4, SeqDef
<1>. QED BY <1>2, <1>5

\* What is taken to the front.
LEMMA TopIs ==
    ASSUME NEW text \in DOMAIN Canonical, NEW candidates \in Seq(DOMAIN Canonical), IsInjective(candidates),
           NEW n \in Nat
    PROVE  IsTop(text, ToSet(candidates) \ {text}, n, TopByShape(text, candidates, n))
<1> DEFINE D == DOMAIN Canonical
           B == ByShape(text, candidates)
           N == Len(B)
           O == ToSet(candidates) \ {text}
           d == IF text \in ToSet(B) THEN 1 ELSE 0
           F == FirstOf(B, n + 1)
           f == Least(n + 1, N)
           K == [i \in 1 .. f - d |-> B[i + d]]
           L == Least(n, f - d)
           Q == [i \in 1 .. N - d |-> B[i + d]]
           T == FirstOf(K, n)
<1>1. Shaped(text, candidates, B)
  BY ByShapeIs
<1> HIDE DEF B
<1>2. B \in Seq(D) /\ N \in Nat /\ DOMAIN B = 1 .. N
  BY <1>1, LenProperties DEF Shaped
<1> HIDE DEF N
<1>3. /\ \A i, j \in 1 .. N : B[i] = B[j] => i = j
      /\ \A i, j \in 1 .. N : i < j => ~Less(ShapeRank(text, B[j]), ShapeRank(text, B[i]))
      /\ \A i \in 1 .. N : B[i] = text => i = 1
      /\ ToSet(B) = ToSet(candidates)
  BY <1>1, <1>2 DEF Shaped, IsInjective, N
<1>4. d \in {0, 1} /\ d <= N /\ \A i \in 1 .. N : B[i] = text <=> i <= d
  <2>1. CASE text \in ToSet(B)
    <3>1. PICK i \in 1 .. N : B[i] = text
      BY <1>2, <2>1 DEF ToSet
    <3>2. d = 1 /\ i = 1 /\ B[1] = text /\ 1 <= N
      BY <1>2, <1>3, <2>1, <3>1
    <3>. QED BY <1>2, <1>3, <3>2
  <2>2. CASE text \notin ToSet(B)
    <3>1. d = 0 /\ \A i \in 1 .. N : B[i] # text
      BY <1>2, <2>2 DEF ToSet
    <3>. QED BY <1>2, <3>1
  <2>. QED BY <2>1, <2>2
<1> HIDE DEF d
<1>5. \A x : x \in O <=> \E i \in 1 .. N : i > d /\ B[i] = x
  <2>1. \A x : x \in ToSet(B) <=> \E i \in 1 .. N : B[i] = x
    BY <1>2 DEF ToSet
  <2>2. \A i \in 1 .. N : i > d <=> ~(i <= d)
    BY <1>4
  <2>. QED BY <1>3, <1>4, <2>1, <2>2
<1>6. /\ f \in Nat /\ f <= N /\ d <= f /\ n + 1 \in Nat
      /\ L \in Nat /\ L <= f - d /\ L = Least(n, N - d) /\ d + (f - d) <= N /\ d + (N - d) <= N
      /\ f - d \in Nat /\ N - d \in Nat
  BY <1>2, <1>4 DEF Least
<1>7. F \in Seq(D) /\ Len(F) = f /\ DOMAIN F = 1 .. f /\ \A i \in 1 .. f : F[i] = B[i]
  <2> DEFINE m == n + 1
  <2>1. m \in Nat
    OBVIOUS
  <2> HIDE DEF m, D, f
  <2>2. /\ FirstOf(B, m) \in Seq(D) /\ Len(FirstOf(B, m)) = Least(m, Len(B))
        /\ \A i \in 1 .. Least(m, Len(B)) : FirstOf(B, m)[i] = B[i] /\ i \in 1 .. Len(B)
    BY <1>2, <2>1, FirstOfList
  <2>3. F \in Seq(D) /\ Len(F) = f /\ \A i \in 1 .. f : F[i] = B[i]
    BY <2>2 DEF m, N, f
  <2>. QED BY <2>3, LenProperties
<1>8. TopByShape(text, candidates, n) = FirstOf(Kept(F, O), n)
  BY DEF TopByShape, B
<1> HIDE DEF f, F, L
<1>9. /\ K \in Seq(D) /\ Len(K) = f - d /\ \A i \in 1 .. f - d : K[i] = B[i + d] /\ i + d \in 1 .. N
  BY <1>2, <1>4, <1>6, PartOfList DEF N
<1>10. Q \in Seq(D) /\ Len(Q) = N - d /\ DOMAIN Q = 1 .. N - d /\ \A i \in 1 .. N - d : Q[i] = B[i + d] /\ i + d \in 1 .. N
  <2> DEFINE k == N - d
  <2>1. d \in Nat /\ k \in Nat /\ d + k <= Len(B)
    BY <1>4, <1>6 DEF N
  <2> HIDE DEF k
  <2>2. /\ [i \in 1 .. k |-> B[i + d]] \in Seq(D) /\ Len([i \in 1 .. k |-> B[i + d]]) = k
        /\ DOMAIN [i \in 1 .. k |-> B[i + d]] = 1 .. k
        /\ \A i \in 1 .. k : [j \in 1 .. k |-> B[j + d]][i] = B[i + d] /\ i + d \in 1 .. Len(B)
    BY <1>2, <2>1, PartOfList
  <2>. QED BY <2>2 DEF k, N
<1> HIDE DEF K, Q, O
<1>11. Kept(F, O) = K
  <2> DEFINE at == [i \in 1 .. f - d |-> i + d]
  <2>1. at \in [1 .. f - d -> 1 .. f] /\ \A i, j \in 1 .. f - d : i < j => at[i] < at[j]
    BY <1>4, <1>6
  <2>2. ASSUME NEW i \in 1 .. f - d PROVE K[i] = F[at[i]] /\ K[i] \in O
    <3>1. at[i] = i + d
      OBVIOUS
    <3>2. i + d \in 1 .. f /\ i + d \in 1 .. N /\ i + d > d
      BY <1>2, <1>4, <1>6
    <3> HIDE DEF at
    <3>. QED BY <1>5, <1>7, <1>9, <3>1, <3>2
  <2>3. ASSUME NEW m \in 1 .. f, F[m] \in O PROVE \E i \in 1 .. f - d : at[i] = m
    <3>1. m \in 1 .. N /\ F[m] = B[m]
      BY <1>2, <1>6, <1>7
    <3>2. m > d
      BY <1>3, <1>5, <2>3, <3>1
    <3>3. m - d \in 1 .. f - d /\ (m - d) + d = m
      BY <1>4, <1>6, <3>2
    <3>. QED BY <3>3
  <2> HIDE DEF at
  <2>4. Selection(F, O, Len(F), K, at)
    BY <1>7, <1>9, <2>1, <2>2, <2>3 DEF Selection
  <2>. QED BY <1>7, <1>9, <2>4, SelectionIsKept
<1>12. /\ T \in Seq(D) /\ Len(T) = L /\ DOMAIN T = 1 .. L
       /\ \A i \in 1 .. L : T[i] = B[i + d] /\ i \in 1 .. f - d /\ i + d \in 1 .. N
  <2>1. T \in Seq(D) /\ Len(T) = Least(n, Len(K)) /\ \A i \in 1 .. Least(n, Len(K)) : T[i] = K[i] /\ i \in 1 .. Len(K)
    BY <1>9, FirstOfList
  <2>2. Least(n, Len(K)) = L
    BY <1>9 DEF L
  <2>3. T \in Seq(D) /\ Len(T) = L /\ \A i \in 1 .. L : T[i] = B[i + d] /\ i \in 1 .. f - d /\ i + d \in 1 .. N
    BY <1>9, <2>1, <2>2
  <2>. QED BY <2>3, LenProperties
<1> HIDE DEF T
<1>13. IsInjective(T)
  <2>1. ASSUME NEW i \in 1 .. L, NEW j \in 1 .. L, T[i] = T[j] PROVE i = j
    <3>1. i + d = j + d
      BY <1>3, <1>12, <2>1
    <3>. QED BY <1>4, <3>1
  <2>. QED BY <1>12, <2>1 DEF IsInjective
<1>14. ToSet(T) \subseteq O
  <2> SUFFICES ASSUME NEW i \in 1 .. L PROVE T[i] \in O
    BY <1>12 DEF ToSet
  <2>1. i + d > d
    BY <1>4
  <2>. QED BY <1>5, <1>12, <2>1
<1>15. Cardinality(O) = N - d
  <2>1. ToSet(Q) = O
    <3>1. ASSUME NEW i \in 1 .. N - d PROVE Q[i] \in O
      <4>1. i + d > d
        BY <1>4
      <4>. QED BY <1>5, <1>10, <4>1
    <3>2. ASSUME NEW x \in O PROVE x \in ToSet(Q)
      <4>1. PICK i \in 1 .. N : i > d /\ B[i] = x
        BY <1>5
      <4>2. i - d \in 1 .. N - d /\ (i - d) + d = i
        BY <1>2, <1>4, <4>1
      <4>3. Q[i - d] = x
        BY <1>10, <4>1, <4>2
      <4>. QED BY <1>10, <4>2, <4>3 DEF ToSet
    <3>. QED BY <1>10, <3>1, <3>2 DEF ToSet
  <2>2. IsInjective(Q)
    <3>1. ASSUME NEW i \in 1 .. N - d, NEW j \in 1 .. N - d, Q[i] = Q[j] PROVE i = j
      <4>1. i + d = j + d
        BY <1>3, <1>10, <3>1
      <4>. QED BY <1>4, <4>1
    <3>. QED BY <1>10, <3>1 DEF IsInjective
  <2>. QED BY <1>10, <2>1, <2>2, DistinctLength
<1>16. ASSUME NEW a \in ToSet(T), NEW b \in O \ ToSet(T) PROVE ~Less(ShapeRank(text, b), ShapeRank(text, a))
  <2>1. PICK i \in 1 .. L : a = T[i]
    BY <1>12 DEF ToSet
  <2>2. PICK j \in 1 .. N : j > d /\ b = B[j]
    BY <1>5
  <2>3. ASSUME ~(L < j - d) PROVE FALSE
    <3>1. j - d \in 1 .. L /\ (j - d) + d = j
      BY <1>2, <1>4, <1>6, <2>2, <2>3
    <3>2. T[j - d] = b
      BY <1>12, <2>2, <3>1
    <3>. QED BY <1>12, <3>1, <3>2 DEF ToSet
  <2>4. i + d \in 1 .. N /\ a = B[i + d]
    BY <1>12, <2>1
  <2>5. i + d < j
    BY <1>2, <1>4, <1>6, <2>2, <2>3
  <2>. QED BY <1>3, <2>2, <2>4, <2>5
<1>17. Len(T) = Least(n, Cardinality(O))
  BY <1>6, <1>12, <1>15
<1>18. IsTop(text, O, n, T)
  BY <1>12, <1>13, <1>14, <1>16, <1>17 DEF IsTop
<1>19. TopByShape(text, candidates, n) = T
  BY <1>8, <1>11 DEF T
<1>. QED BY <1>18, <1>19 DEF O

\* What BoostIsExact says of an answer.
Boosted(text, candidates, reply) ==
  LET others == Kept(candidates, DOMAIN Canonical \ {text})
      n      == IF BoostN < Len(others) THEN BoostN ELSE Len(others)
      top    == SubSeq(reply, 2, n + 1)
  IN /\ reply[1] = text /\ IsInjective(reply)
     /\ ToSet(reply) = ToSet(others) \cup {text}
     /\ \A a \in ToSet(top), b \in ToSet(others) \ ToSet(top) :
          ~Less(ShapeRank(text, b), ShapeRank(text, a))
     /\ SubSeq(reply, n + 2, Len(reply)) = Kept(others, ToSet(others) \ ToSet(top))

\* The answer to a query for a character is in the order of shape, then in the order of pinyin.
LEMMA BoostIs ==
    ASSUME NEW text \in DOMAIN Canonical, NEW candidates \in Seq(DOMAIN Canonical), IsInjective(candidates)
    PROVE  Boost(text, candidates) \in Seq(DOMAIN Canonical) /\ Boosted(text, candidates, Boost(text, candidates))
<1> DEFINE D == DOMAIN Canonical
           C == ToSet(candidates)
           O == C \ {text}
           T == TopByShape(text, candidates, BoostN)
           R == Kept(candidates, C \ (ToSet(T) \cup {text}))
           others == Kept(candidates, D \ {text})
           n == IF BoostN < Len(others) THEN BoostN ELSE Len(others)
           reply == Boost(text, candidates)
<1>1. BoostN \in Nat
  BY MatcherAssumption DEF MatcherAssumption
<1>2. IsTop(text, O, BoostN, T)
  BY <1>1, TopIs
<1> HIDE DEF T
<1>3. /\ T \in Seq(D) /\ IsInjective(T) /\ ToSet(T) \subseteq O /\ Len(T) = Least(BoostN, Cardinality(O))
      /\ \A a \in ToSet(T), b \in O \ ToSet(T) : ~Less(ShapeRank(text, b), ShapeRank(text, a))
  BY <1>2 DEF IsTop
<1>4. C \subseteq D
  BY SeqOfItsElements
<1>5. R \in Seq(D) /\ ToSet(R) = C \cap (C \ (ToSet(T) \cup {text})) /\ IsInjective(R)
  BY KeptElements, KeptDistinct
<1>6. ToSet(R) = O \ ToSet(T)
  BY <1>5
<1>7. others \in Seq(D) /\ ToSet(others) = O /\ IsInjective(others)
  <2>1. others \in Seq(D) /\ ToSet(others) = C \cap (D \ {text}) /\ IsInjective(others)
    BY KeptElements, KeptDistinct
  <2>. QED BY <1>4, <2>1
<1>8. reply = Laid(text, T, R)
  BY Zenon DEF Boost, Laid, T
<1>9. R = Kept(others, O \ ToSet(T))
  <2> DEFINE S == D \ {text}
             U == C \ (ToSet(T) \cup {text})
             V == O \ ToSet(T)
  <2>1. \A x \in ToSet(candidates) : x \in U <=> x \in S /\ x \in V
    BY <1>4
  <2> HIDE DEF S, U, V
  <2>2. Kept(Kept(candidates, S), V) = Kept(candidates, U)
    BY <2>1, KeptTwice
  <2>. QED BY <2>2 DEF S, U, V
<1> HIDE DEF reply, R, others
<1>10. n = Len(T)
  BY <1>3, <1>7, DistinctLength DEF Least
<1> HIDE DEF n, O
<1>11. /\ reply \in Seq(D) /\ reply[1] = text /\ Len(T) \in Nat
  <2>1. AreParts(D, text, T, R)
    BY <1>3, <1>5 DEF AreParts
  <2>2. IsLaid(D, text, T, R, Laid(text, T, R))
    BY <2>1, LaidIs
  <2>. QED BY <1>8, <2>2 DEF IsLaid
<1>12. IsInjective(reply) /\ ToSet(reply) = {text} \cup ToSet(T) \cup ToSet(R)
  <2>1. text \notin ToSet(T) /\ text \notin ToSet(R) /\ ToSet(T) \cap ToSet(R) = {}
    BY <1>3, <1>6 DEF O
  <2>2. AreParts(D, text, T, R)
    BY <1>3, <1>5 DEF AreParts
  <2>. QED BY <1>3, <1>5, <1>8, <2>1, <2>2, LaidElements
<1>13. SubSeq(reply, 2, n + 1) = T /\ SubSeq(reply, n + 2, Len(reply)) = R
  <2>1. AreParts(D, text, T, R)
    BY <1>3, <1>5 DEF AreParts
  <2>. QED BY <1>8, <1>10, <2>1, LaidParts
<1>14. ToSet(reply) = O \cup {text}
  BY <1>3, <1>6, <1>12
<1>15. Boosted(text, candidates, reply)
  <2> DEFINE top == SubSeq(reply, 2, n + 1)
  <2>1. top = T
    BY <1>13
  <2> HIDE DEF top
  <2>2. /\ reply[1] = text /\ IsInjective(reply) /\ ToSet(reply) = ToSet(others) \cup {text}
        /\ \A a \in ToSet(top), b \in ToSet(others) \ ToSet(top) : ~Less(ShapeRank(text, b), ShapeRank(text, a))
        /\ SubSeq(reply, n + 2, Len(reply)) = Kept(others, ToSet(others) \ ToSet(top))
    BY <1>3, <1>7, <1>9, <1>11, <1>12, <1>13, <1>14, <2>1
  <2>. QED BY <2>2, Zenon DEF Boosted, top, n, others, D
<1>. QED BY <1>11, <1>15 DEF reply

-----------------------------------------------------------------------------
(* Matcher: the cache and the answers *)

\* The key of the cache tells queries apart as far as their candidates differ.
LEMMA KeyDetermines ==
    ASSUME NEW q, NEW r, CacheKey(q) = CacheKey(r)
    PROVE  Candidates(q) = Candidates(r)
<1>1. q.type = r.type /\ q.text = r.text /\ Tokens(q) = Tokens(r)
  BY DEF CacheKey
<1>2. Occurrences(q) = Occurrences(r)
  BY <1>1 DEF Occurrences, Occurrence, Rank
<1>. QED BY <1>2 DEF Candidates

\* Whatever anybody may ask.
Queries == UNION {QueriesOf[c] : c \in Caller}
\* The results that may be cached: of a query under its key.
Entries == {<<CacheKey(q), Candidates(q)>> : q \in Queries}

\* Moving an entry to the end keeps the entries.
LEMMA MovedIsKept ==
    ASSUME cache \in Seq(Entries), NEW i \in DOMAIN cache, NEW key
    PROVE  Append(Without(key), cache[i]) \in Seq(Entries)
<1> DEFINE kept == Without(key)
           E    == Entries
<1>1. kept \in Seq(E)
  <2> HIDE DEF E
  <2>1. \A S : Kept(cache, S) \in Seq(E)
    BY KeptSelects DEF E
  <2>. QED BY <2>1 DEF Without
<1>2. cache[i] \in E
  BY ElementOfSeq
<1> HIDE DEF kept, E
<1>3. Append(kept, cache[i]) \in Seq(E)
  BY <1>1, <1>2, AppendProperties
<1>. QED BY <1>3 DEF kept, E

\* An entry found by its key is the answer.
LEMMA FoundIsRight ==
    ASSUME cache \in Seq(Entries), NEW i \in DOMAIN cache, NEW q, cache[i][1] = CacheKey(q)
    PROVE  cache[i][2] = Candidates(q)
<1>1. cache[i] \in Entries
  BY ElementOfSeq
<1>2. PICK r \in Queries : cache[i] = <<CacheKey(r), Candidates(r)>>
  BY <1>1 DEF Entries
<1>3. CacheKey(r) = CacheKey(q)
  BY <1>2
<1>4. Candidates(r) = Candidates(q)
  BY <1>3, KeyDetermines
<1>. QED BY <1>2, <1>4

\* A new result is an entry, wherever it is put.
LEMMA RankedIsCached ==
    ASSUME cache \in Seq(Entries), NEW q \in Queries, NEW entry, entry = <<CacheKey(q), Candidates(q)>>
    PROVE  /\ Append(cache, entry) \in Seq(Entries)
           /\ [i \in DOMAIN cache |-> IF cache[i][1] = entry[1] THEN entry ELSE cache[i]] \in Seq(Entries)
<1> DEFINE E == Entries
           new == [i \in DOMAIN cache |-> IF cache[i][1] = entry[1] THEN entry ELSE cache[i]]
<1>1. entry \in E
  BY DEF Entries
<1>2. /\ Len(cache) \in Nat /\ DOMAIN cache = 1 .. Len(cache)
      /\ \A i \in DOMAIN cache : cache[i] \in E
  BY ElementOfSeq, LenProperties
<1> HIDE DEF E
<1>3. new \in [1 .. Len(cache) -> E]
  BY <1>1, <1>2
<1>4. new \in Seq(E)
  <2> HIDE DEF new
  <2>. QED BY <1>2, <1>3, SeqDef
<1>5. Append(cache, entry) \in Seq(E)
  BY <1>1, AppendProperties DEF E
<1>. QED BY <1>4, <1>5 DEF E

\* Whatever a caller may ask is a query.
LEMMA QueriesAre ==
    ASSUME NEW c \in Caller, NEW q \in QueriesOf[c]
    PROVE  IsQuery(q) /\ q \in Queries
<1>1. /\ q \in [type : {"char", "surname"}, text : DOMAIN Canonical \cup {NoText}, typed : Seq(Seq(Letter))]
      /\ q.text = NoText => q.typed # <<>>
  BY MatcherAssumption DEF MatcherAssumption
<1> DEFINE A == {"char", "surname"}
           B == DOMAIN Canonical \cup {NoText}
           C == Seq(Seq(Letter))
<1> HIDE DEF A, B, C
<1>2. q \in [type : A, text : B, typed : C]
  BY <1>1 DEF A, B, C
<1>3. q.type \in A /\ q.text \in B /\ q.typed \in C
  BY <1>2
<1>. QED BY <1>1, <1>3 DEF IsQuery, Types, Queries, A, B, C

\* What a caller gets for its query in the end.
Answered(q) ==
  IF q.text = NoText \/ q.text \in TwoChars THEN Candidates(q) ELSE Boost(q.text, Candidates(q))

\* An answer is a list of texts.
LEMMA AnswersAre ==
    ASSUME NEW q, IsQuery(q)
    PROVE  /\ Answered(q) \in Seq(DOMAIN Canonical)
           /\ q.text \notin TwoChars \cup {NoText} => Boosted(q.text, Candidates(q), Answered(q))
<1>1. Candidates(q) \in Seq(DOMAIN Canonical) /\ BestFirst(q, Candidates(q))
  BY CandidatesAreBest
<1>2. IsInjective(Candidates(q))
  BY <1>1 DEF BestFirst
<1>3. CASE q.text \in TwoChars \cup {NoText}
  BY <1>1, <1>3 DEF Answered
<1>4. CASE q.text \notin TwoChars \cup {NoText}
  <2>1. q.text \in DOMAIN Canonical
    BY <1>4 DEF IsQuery
  <2> DEFINE c == Candidates(q)
             t == q.text
  <2>2. c \in Seq(DOMAIN Canonical) /\ IsInjective(c) /\ t \in DOMAIN Canonical
    BY <1>1, <1>2, <2>1
  <2> HIDE DEF c, t
  <2>3. Boost(t, c) \in Seq(DOMAIN Canonical) /\ Boosted(t, c, Boost(t, c))
    BY <2>2, BoostIs
  <2>4. Answered(q) = Boost(t, c)
    BY <1>4 DEF Answered, t, c
  <2>. QED BY <2>3, <2>4 DEF t, c
<1>. QED BY <1>3, <1>4

\* Every cached result belongs to its key; a caller that has one has its own, and gives what
\* is asked for.
MatcherInv ==
  /\ cache \in Seq(Entries)
  /\ typing \in [Caller -> {"idle", "lookup", "rank", "move", "size", "drop", "ranked", "done"}]
  /\ DOMAIN asked = Caller /\ ranked \in [Caller -> Seq(DOMAIN Canonical)]
  /\ \A c \in Caller :
       /\ asked[c] \in QueriesOf[c]
       /\ typing[c] \in {"move", "size", "drop", "ranked"} => ranked[c] = Candidates(asked[c])
       /\ typing[c] = "done" => ranked[c] = Answered(asked[c])

\* The invariant holds after every step of every thread.
THEOREM MatcherInduction == MatcherSpec => []MatcherInv
<1>1. MatcherInit => MatcherInv
  <2> SUFFICES ASSUME MatcherInit PROVE MatcherInv
    OBVIOUS
  <2>1. cache \in Seq(Entries)
    BY EmptySeq DEF MatcherInit
  <2>2. \A c \in Caller : asked[c] \in QueriesOf[c]
    BY MatcherAssumption DEF MatcherInit, MatcherAssumption
  <2>3. \A c \in Caller : ranked[c] \in Seq(DOMAIN Canonical)
    BY EmptySeq DEF MatcherInit
  <2>. QED BY <2>1, <2>2, <2>3 DEF MatcherInit, MatcherInv
<1>2. MatcherInv /\ [MatcherNext]_matcherVars => MatcherInv'
  <2> SUFFICES ASSUME MatcherInv, [MatcherNext]_matcherVars PROVE MatcherInv'
    OBVIOUS
  <2>1. /\ cache \in Seq(Entries)
        /\ \A c \in Caller : /\ asked[c] \in Queries /\ Candidates(asked[c]) \in Seq(DOMAIN Canonical)
                             /\ Answered(asked[c]) \in Seq(DOMAIN Canonical)
    <3> SUFFICES ASSUME NEW c \in Caller
                 PROVE  /\ asked[c] \in Queries /\ Candidates(asked[c]) \in Seq(DOMAIN Canonical)
                        /\ Answered(asked[c]) \in Seq(DOMAIN Canonical)
      BY DEF MatcherInv
    <3> DEFINE q == asked[c]
    <3>1. q \in QueriesOf[c]
      BY DEF MatcherInv
    <3> HIDE DEF q
    <3>2. IsQuery(q) /\ q \in Queries
      BY <3>1, QueriesAre
    <3>. QED BY <3>2, CandidatesAreBest, AnswersAre DEF q
  <2>2. ASSUME NEW c \in Caller, NEW q \in QueriesOf[c], AskMatcher(c, q) PROVE MatcherInv'
    BY <2>2 DEF AskMatcher, MatcherInv
  <2>3. ASSUME NEW c \in Caller, LookUp(c) PROVE MatcherInv'
    <3>1. CASE typing' = [typing EXCEPT ![c] = "rank"] /\ UNCHANGED <<cache, ranked>>
      BY <2>3, <3>1 DEF LookUp, MatcherInv
    <3>2. ASSUME NEW i \in DOMAIN cache, cache[i][1] = CacheKey(asked[c]),
                 cache' = Append(Without(cache[i][1]), cache[i]),
                 ranked' = [ranked EXCEPT ![c] = cache[i][2]],
                 typing' = [typing EXCEPT ![c] = "ranked"]
          PROVE  MatcherInv'
      <4>1. cache' \in Seq(Entries)
        BY <2>1, <3>2, MovedIsKept
      <4>2. cache[i][2] = Candidates(asked[c])
        BY <2>1, <3>2, FoundIsRight
      <4>3. UNCHANGED asked
        BY <2>3 DEF LookUp
      <4>. QED BY <2>1, <3>2, <4>1, <4>2, <4>3 DEF MatcherInv
    <3>. QED BY <2>3, <3>1, <3>2 DEF LookUp
  <2>4. ASSUME NEW c \in Caller, RankCandidates(c) PROVE MatcherInv'
    <3> DEFINE entry == <<CacheKey(asked[c]), Candidates(asked[c])>>
    <3>1. cache' \in Seq(Entries)
      <4>1. /\ Append(cache, entry) \in Seq(Entries)
            /\ [i \in DOMAIN cache |-> IF cache[i][1] = entry[1] THEN entry ELSE cache[i]] \in Seq(Entries)
        BY <2>1, RankedIsCached
      <4>. QED BY <2>4, <4>1 DEF RankCandidates
    <3>2. /\ ranked' = [ranked EXCEPT ![c] = Candidates(asked[c])]
          /\ typing' = [typing EXCEPT ![c] = "move"] /\ UNCHANGED asked
      BY <2>4 DEF RankCandidates
    <3>. QED BY <2>1, <3>1, <3>2 DEF MatcherInv
  <2>5. ASSUME NEW c \in Caller, MoveToEnd(c) PROVE MatcherInv'
    <3>1. cache' \in Seq(Entries)
      <4>1. \A i \in DOMAIN cache : Append(Without(cache[i][1]), cache[i]) \in Seq(Entries)
        BY <2>1, MovedIsKept
      <4>. QED BY <2>1, <2>5, <4>1 DEF MoveToEnd
    <3>2. typing[c] = "move" /\ UNCHANGED <<asked, ranked>>
      BY <2>5 DEF MoveToEnd
    <3>3. PICK t \in {"size", "ranked"} : typing' = [typing EXCEPT ![c] = t]
      BY <2>5 DEF MoveToEnd
    <3>. QED BY <3>1, <3>2, <3>3 DEF MatcherInv
  <2>6. ASSUME NEW c \in Caller, CheckSize(c) PROVE MatcherInv'
    BY <2>6 DEF CheckSize, MatcherInv
  <2>7. ASSUME NEW c \in Caller, DropOldest(c) PROVE MatcherInv'
    <3>1. cache' \in Seq(Entries)
      <4>1. cache # <<>> => Tail(cache) \in Seq(Entries)
        BY <2>1, HeadTailProperties
      <4>. QED BY <2>1, <2>7, <4>1 DEF DropOldest
    <3>. QED BY <2>7, <3>1 DEF DropOldest, MatcherInv
  <2>8. ASSUME NEW c \in Caller, GiveCandidates(c) PROVE MatcherInv'
    <3>1. typing' = [typing EXCEPT ![c] = "done"] /\ UNCHANGED <<cache, asked>>
      BY <2>8 DEF GiveCandidates
    <3>2. DOMAIN ranked' = Caller /\ \A d \in Caller \ {c} : ranked'[d] = ranked[d]
      BY <2>8 DEF GiveCandidates, MatcherInv
    <3>3. ranked'[c] = Answered(asked[c])
      <4>1. ranked[c] = Candidates(asked[c])
        BY <2>8 DEF GiveCandidates, MatcherInv
      <4>. QED BY <2>8, <4>1 DEF GiveCandidates, MatcherInv, Answered
    <3>4. ranked' \in [Caller -> Seq(DOMAIN Canonical)]
      <4>1. \/ ranked' = ranked
            \/ \E answered : ranked' = [ranked EXCEPT ![c] = answered]
        BY <2>8 DEF GiveCandidates
      <4>. QED BY <2>1, <3>3, <4>1 DEF MatcherInv
    <3>. QED BY <2>1, <3>1, <3>2, <3>3, <3>4 DEF MatcherInv
  <2>9. CASE UNCHANGED matcherVars
    BY <2>9 DEF matcherVars, MatcherInv
  <2>. QED BY <2>2, <2>3, <2>4, <2>5, <2>6, <2>7, <2>8, <2>9 DEF MatcherNext
<1>. QED BY <1>1, <1>2, PTL DEF MatcherSpec

\* Queries are queries and results are lists of texts, whatever the threads do.
THEOREM MatcherTypeCorrect == MatcherSpec => []MatcherTypeOK
<1>1. MatcherInv => MatcherTypeOK
  BY DEF MatcherInv, MatcherTypeOK
<1>. QED BY <1>1, MatcherInduction, PTL

\* Whatever other threads ask and drop, what a caller gets is complete and in the promised
\* order, by pinyin and by shape.
THEOREM MatcherCorrect == MatcherSpec => []SuggestionsAreBest
<1>1. MatcherInv => RankingIsBest
  <2> SUFFICES ASSUME MatcherInv, NEW c \in Caller, typing[c] = "ranked"
               PROVE  BestFirst(asked[c], ranked[c])
    BY Zenon DEF RankingIsBest, BestFirst
  <2>1. asked[c] \in QueriesOf[c] /\ ranked[c] = Candidates(asked[c])
    BY DEF MatcherInv
  <2> DEFINE q == asked[c]
  <2> HIDE DEF q
  <2>2. BestFirst(q, Candidates(q))
    BY <2>1, QueriesAre, CandidatesAreBest DEF q
  <2>. QED BY <2>1, <2>2 DEF q
<1>2. MatcherInv => BoostIsExact
  <2> SUFFICES ASSUME MatcherInv, NEW c \in Caller, typing[c] = "done", asked[c].text \notin TwoChars \cup {NoText}
               PROVE  Boosted(asked[c].text, Candidates(asked[c]), ranked[c])
    BY Zenon DEF BoostIsExact, Boosted
  <2>1. asked[c] \in QueriesOf[c] /\ ranked[c] = Answered(asked[c])
    BY DEF MatcherInv
  <2> DEFINE q == asked[c]
  <2>2. q.text \notin TwoChars \cup {NoText}
    OBVIOUS
  <2> HIDE DEF q
  <2>3. Boosted(q.text, Candidates(q), Answered(q))
    BY <2>1, <2>2, QueriesAre, AnswersAre DEF q
  <2>. QED BY <2>1, <2>3 DEF q
<1>3. MatcherInv => CacheIsTransparent
  BY DEF MatcherInv, CacheIsTransparent
<1>. QED BY <1>1, <1>2, <1>3, MatcherInduction, PTL DEF SuggestionsAreBest
==============================================================================
