------------------------ MODULE SessionManagerProofs ------------------------
(***************************************************************************)
(* Theorems about SessionManager: as long as no write that is cut short    *)
(* leaves a piece of a line, what was saved is in the file that is opened  *)
(* next, and memory and file hold the same tree while no write has failed; *)
(* and then, with the forks that keep a compaction where it was, no branch *)
(* forgets a message and no context has a result without its call; and a   *)
(* fork sends the model what the original would.                           *)
(*                                                                         *)
(* The induction over a list or a tree that the provers do not do is       *)
(* replaced by a least counterexample (Least).                             *)
(***************************************************************************)
EXTENDS SessionManager, TLAPS, FiniteSetTheorems, WellFoundedInduction, SequenceTheorems
(***************************************************************************)
(* Lists                                                                   *)
(***************************************************************************)
IsSeq(s) == \E T : s \in Seq(T)

\* Every set of numbers has a least one: induction without an operator to
\* instantiate.
LEMMA Least ==
    ASSUME NEW S \in SUBSET Nat, S # {}
    PROVE  \E n \in S : \A m \in S : n <= m
<1>1. PICK n \in S : \A m \in S : ~(<<m, n>> \in OpToRel(<, Nat))
  BY WFMin, NatLessThanWellFounded
<1>2. ASSUME NEW m \in S
      PROVE  n <= m
  <2>1. <<m, n>> \in Nat \X Nat
    OBVIOUS
  <2>2. ~(m < n)
    BY <1>1, <2>1 DEF OpToRel
  <2>. QED
    BY <2>2
<1>. QED
  BY <1>2

\* A recursion along 0..N with values in V, and a solution of it.
Recursion(N, V, v, step) == N \in Nat /\ v \in V /\ step \in [(1..N) \X V -> V]
Solution(N, V, v, step, f) ==
    /\ f \in [0..N -> V]
    /\ \A n \in 0..N : f[n] = IF n = 0 THEN v ELSE step[<<n, f[n - 1]>>]

\* Every recursion along a list has a solution.
LEMMA FoldExists ==
    ASSUME NEW N, NEW V, NEW v, NEW step, Recursion(N, V, v, step)
    PROVE  \E f : Solution(N, V, v, step, f)
<1>. USE DEF Recursion, Solution
<1> DEFINE Solves(f, k) == /\ f \in [0..k -> V]
                           /\ \A n \in 0..k : f[n] = IF n = 0 THEN v ELSE step[<<n, f[n - 1]>>]
           Bad == {k \in 0..N : ~ \E f : Solves(f, k)}
<1>1. Bad \in SUBSET Nat
  OBVIOUS
<1>2. Bad = {}
  <2>. SUFFICES ASSUME Bad # {}
                PROVE  FALSE
    OBVIOUS
  <2>1. PICK b \in Bad : \A k \in Bad : b <= k
    <3>. HIDE DEF Bad
    <3>. QED
      BY <1>1, Least
  <2>2. b \in 0..N /\ ~ \E f : Solves(f, b)
    BY <2>1
  <2>3. CASE b = 0
    <3>1. Solves([n \in 0..0 |-> v], 0)
      OBVIOUS
    <3>. HIDE DEF Solves
    <3>. QED
      BY <2>2, <2>3, <3>1
  <2>4. CASE b # 0
    <3>1. b - 1 \in 0..N /\ b \in 1..N /\ b - 1 < b
      BY <2>2, <2>4
    <3>2. b - 1 \notin Bad
      <4>. HIDE DEF Bad
      <4>. QED
        BY <2>1, <3>1
    <3>3. PICK f : Solves(f, b - 1)
      <4>. HIDE DEF Solves
      <4>. QED
        BY <3>1, <3>2
    <3> DEFINE x == step[<<b, f[b - 1]>>]
               g == [n \in 0..b |-> IF n = b THEN x ELSE f[n]]
    <3>4. f[b - 1] \in V /\ f \in [0..(b - 1) -> V]
      BY <3>1, <3>3
    <3>5. x \in V
      BY <3>1, <3>4
    <3>6. g \in [0..b -> V] /\ g[b] = x /\ \A n \in 0..(b - 1) : g[n] = f[n]
      <4>. HIDE DEF x
      <4>. QED
        BY <3>1, <3>4, <3>5
    <3>7. ASSUME NEW n \in 0..b
          PROVE  g[n] = IF n = 0 THEN v ELSE step[<<n, g[n - 1]>>]
      <4>. HIDE DEF g
      <4>1. CASE n = b
        <5>1. b - 1 \in 0..(b - 1) /\ n # 0
          BY <2>4, <3>1, <4>1
        <5>. QED
          BY <3>6, <4>1, <5>1
      <4>2. CASE n # b
        <5>1. n \in 0..(b - 1) /\ (n # 0 => n - 1 \in 0..(b - 1))
          BY <3>1, <4>2
        <5>2. f[n] = IF n = 0 THEN v ELSE step[<<n, f[n - 1]>>]
          BY <3>3, <5>1
        <5>. QED
          BY <3>6, <5>1, <5>2
      <4>. QED
        BY <4>1, <4>2
    <3>8. Solves(g, b)
      <4>. HIDE DEF g
      <4>. QED
        BY <3>6, <3>7
    <3>. HIDE DEF g, Solves
    <3>. QED
      BY <2>2, <3>8
  <2>. QED
    BY <2>3, <2>4
<1>3. PICK f : Solves(f, N)
  <2>1. N \in 0..N
    OBVIOUS
  <2>. HIDE DEF Solves
  <2>. QED
    BY <1>2, <2>1
<1>. QED
  BY <1>3

\* How Picked goes through a list.
PickSteps(s, I, f) ==
    f = [n \in 0..Len(s) |-> IF n = 0 THEN <<>>
                             ELSE IF n \in I THEN Append(f[n - 1], s[n]) ELSE f[n - 1]]

PickRun(T, s, I, f) ==
    /\ f \in [0..Len(s) -> Seq(T)] /\ f[0] = <<>> /\ Picked(s, I) = f[Len(s)]
    /\ \A n \in 1..Len(s) : f[n] = IF n \in I THEN Append(f[n - 1], s[n]) ELSE f[n - 1]

\* Picked is computed step by step, with a map of where its items were.
LEMMA PickedSteps ==
    ASSUME NEW T, NEW s \in Seq(T), NEW I
    PROVE  \E f : PickRun(T, s, I, f)
<1> DEFINE N == Len(s)
           step == [x \in (1..N) \X Seq(T) |-> IF x[1] \in I THEN Append(x[2], s[x[1]]) ELSE x[2]]
<1>1. N \in Nat /\ <<>> \in Seq(T) /\ (\A n \in 1..N : s[n] \in T)
  OBVIOUS
<1>2. step \in [(1..N) \X Seq(T) -> Seq(T)]
  <2>1. ASSUME NEW x \in (1..N) \X Seq(T)
        PROVE  (IF x[1] \in I THEN Append(x[2], s[x[1]]) ELSE x[2]) \in Seq(T)
    <3>1. x[1] \in 1..N /\ x[2] \in Seq(T) /\ s[x[1]] \in T
      BY <1>1, <2>1
    <3>2. Append(x[2], s[x[1]]) \in Seq(T)
      BY <3>1
    <3>. QED
      BY <3>1, <3>2
  <2>. QED
    BY <2>1
<1>3. PICK f \in [0..N -> Seq(T)] :
         \A n \in 0..N : f[n] = IF n = 0 THEN <<>> ELSE step[<<n, f[n - 1]>>]
  <2>1. Recursion(N, Seq(T), <<>>, step)
    <3>. HIDE DEF step
    <3>. QED
      BY <1>1, <1>2 DEF Recursion
  <2>2. PICK f : Solution(N, Seq(T), <<>>, step, f)
    BY <2>1, FoldExists
  <2>. QED
    <3>. HIDE DEF N, step
    <3>. QED
      BY <2>2 DEF Solution
<1>5. ASSUME NEW n \in 1..N
      PROVE  f[n] = IF n \in I THEN Append(f[n - 1], s[n]) ELSE f[n - 1]
  <2>1. n - 1 \in 0..N /\ n \in 0..N /\ n # 0
    BY <1>1
  <2>2. <<n, f[n - 1]>> \in (1..N) \X Seq(T)
    BY <2>1
  <2>3. step[<<n, f[n - 1]>>] = IF n \in I THEN Append(f[n - 1], s[n]) ELSE f[n - 1]
    <3>. HIDE DEF N
    <3>. QED
      BY <2>2
  <2>. HIDE DEF step
  <2>. QED
    BY <1>3, <2>1, <2>3
<1>. HIDE DEF step
<1>6. f[0] = <<>> /\ 0 \in 0..N /\ N \in Nat
  <2>. HIDE DEF N
  <2>1. 0 \in 0..N
    BY <1>1
  <2>. QED
    BY <1>1, <1>3, <2>1
<1>7. PickSteps(s, I, f)
  <2>1. \A n \in 0..N : f[n] = IF n = 0 THEN <<>>
                              ELSE IF n \in I THEN Append(f[n - 1], s[n]) ELSE f[n - 1]
    <3>. HIDE DEF N
    <3>1. ASSUME NEW n \in 0..N, n # 0
          PROVE  n \in 1..N
      BY <1>6, <3>1
    <3>. QED
      BY <1>5, <1>6, <3>1
  <2>2. f = [n \in 0..N |-> f[n]]
    OBVIOUS
  <2>3. f = [n \in 0..N |-> IF n = 0 THEN <<>>
                            ELSE IF n \in I THEN Append(f[n - 1], s[n]) ELSE f[n - 1]]
    BY <2>1, <2>2, ZenonT(60)
  <2>. QED
    BY <2>3 DEF PickSteps
<1> DEFINE upTo[n \in 0..Len(s)] ==
             IF n = 0 THEN <<>> ELSE IF n \in I THEN Append(upTo[n - 1], s[n]) ELSE upTo[n - 1]
<1>8. Picked(s, I) = upTo[Len(s)]
  BY DEF Picked
<1>9. PickSteps(s, I, upTo)
  <2>1. f = [n \in 0..Len(s) |-> IF n = 0 THEN <<>>
                             ELSE IF n \in I THEN Append(f[n - 1], s[n]) ELSE f[n - 1]]
    BY <1>7, ZenonT(60) DEF PickSteps
  <2>2. upTo = [n \in 0..Len(s) |-> IF n = 0 THEN <<>>
                             ELSE IF n \in I THEN Append(upTo[n - 1], s[n]) ELSE upTo[n - 1]]
    BY <2>1, ZenonT(60)
  <2>. HIDE DEF upTo
  <2>. QED
    BY <2>2, ZenonT(60) DEF PickSteps
<1>. HIDE DEF upTo
<1>10. upTo = f
  <2>1. \A n \in 0..N : /\ f[n] = IF n = 0 THEN <<>>
                              ELSE IF n \in I THEN Append(f[n - 1], s[n]) ELSE f[n - 1]
                        /\ upTo[n] = IF n = 0 THEN <<>>
                              ELSE IF n \in I THEN Append(upTo[n - 1], s[n]) ELSE upTo[n - 1]
    BY <1>7, <1>9 DEF PickSteps
  <2> DEFINE Bad == {n \in 0..N : upTo[n] # f[n]}
  <2>2. Bad \in SUBSET Nat
    OBVIOUS
  <2>3. ASSUME Bad # {}
        PROVE  FALSE
    <3>1. PICK b \in Bad : \A k \in Bad : b <= k
      <4>. HIDE DEF Bad
      <4>. QED
        BY <2>2, <2>3, Least
    <3>2. b \in 0..N /\ upTo[b] # f[b]
      BY <3>1
    <3>3. b # 0
      BY <2>1, <3>2
    <3>4. b - 1 \in 0..N /\ b - 1 < b
      BY <3>2, <3>3
    <3>5. upTo[b - 1] = f[b - 1]
      BY <3>1, <3>4
    <3>. QED
      BY <2>1, <3>2, <3>3, <3>5
  <2>4. \A n \in 0..N : upTo[n] = f[n]
    BY <2>3
  <2>5. upTo = [n \in 0..N |-> upTo[n]] /\ f = [n \in 0..N |-> f[n]]
    BY <1>9 DEF PickSteps
  <2>. QED
    BY <2>4, <2>5
<1>. QED
  BY <1>5, <1>6, <1>8, <1>10 DEF PickRun

\* p has the items of s at the indices in I, in order: g tells where they were.
Picks(s, I, p, g) ==
    /\ g \in [1..Len(p) -> (1..Len(s)) \intersect I]
    /\ \A k \in 1..Len(p) : p[k] = s[g[k]]
    /\ \A k, l \in 1..Len(p) : k < l => g[k] < g[l]
    /\ \A i \in (1..Len(s)) \intersect I : \E k \in 1..Len(p) : g[k] = i

\* Picked has the items at the indices, in order.
LEMMA PickedIs ==
    ASSUME NEW T, NEW s \in Seq(T), NEW I
    PROVE  Picked(s, I) \in Seq(T) /\ \E g : Picks(s, I, Picked(s, I), g)
<1> DEFINE N == Len(s)
<1>0. PICK f : PickRun(T, s, I, f)
  BY PickedSteps
<1>1. /\ f \in [0..N -> Seq(T)] /\ f[0] = <<>> /\ Picked(s, I) = f[N]
      /\ \A n \in 1..N : f[n] = IF n \in I THEN Append(f[n - 1], s[n]) ELSE f[n - 1]
  BY <1>0 DEF PickRun
<1>2. N \in Nat /\ (\A n \in 1..N : s[n] \in T)
  OBVIOUS
<1>. HIDE DEF N
<1> DEFINE Emb(n, g) == /\ g \in [1..Len(f[n]) -> (1..n) \intersect I]
                        /\ \A k \in 1..Len(f[n]) : f[n][k] = s[g[k]]
                        /\ \A k, l \in 1..Len(f[n]) : k < l => g[k] < g[l]
                        /\ \A i \in (1..n) \intersect I : \E k \in 1..Len(f[n]) : g[k] = i
           Bad == {n \in 0..N : ~ \E g : Emb(n, g)}
<1>3. Bad = {}
  <2>. SUFFICES ASSUME Bad # {}
                PROVE  FALSE
    OBVIOUS
  <2>1. Bad \in SUBSET Nat
    BY <1>2
  <2>2. PICK b \in Bad : \A k \in Bad : b <= k
    <3>. HIDE DEF Bad
    <3>. QED
      BY <2>1, Least
  <2>3. b \in 0..N /\ ~ \E g : Emb(b, g)
    BY <2>2
  <2>4. b # 0
    <3>1. Emb(0, <<>>)
      <4>1. Len(f[0]) = 0 /\ 1..0 = {} /\ <<>> \in [{} -> {}]
        BY <1>1
      <4>. QED
        BY <4>1
    <3>. HIDE DEF Emb
    <3>. QED
      BY <2>3, <3>1
  <2>5. b - 1 \in 0..N /\ b \in 1..N /\ b - 1 < b
    BY <1>2, <2>3, <2>4
  <2>6. PICK g : Emb(b - 1, g)
    <3>1. b - 1 \notin Bad
      <4>. HIDE DEF Bad
      <4>. QED
        BY <2>2, <2>5
    <3>. HIDE DEF Emb
    <3>. QED
      BY <2>5, <3>1
  <2>7. f[b - 1] \in Seq(T) /\ f[b] = IF b \in I THEN Append(f[b - 1], s[b]) ELSE f[b - 1]
    BY <1>1, <2>5
  <2>8. CASE b \notin I
    <3>1. (1..b) \intersect I = (1..(b - 1)) \intersect I /\ f[b] = f[b - 1]
      BY <2>5, <2>7, <2>8
    <3>2. Emb(b, g)
      BY <2>6, <3>1
    <3>. HIDE DEF Emb
    <3>. QED
      BY <2>3, <3>2
  <2>9. CASE b \in I
    <3> DEFINE m == Len(f[b - 1])
               h == [k \in 1..(m + 1) |-> IF k = m + 1 THEN b ELSE g[k]]
    <3>1. /\ m \in Nat /\ s[b] \in T /\ Len(f[b]) = m + 1
          /\ \A k \in 1..m : f[b][k] = f[b - 1][k]
          /\ f[b][m + 1] = s[b]
      <4>1. f[b] = Append(f[b - 1], s[b]) /\ s[b] \in T
        BY <1>2, <2>5, <2>7, <2>9
      <4>. QED
        BY <2>7, <4>1
    <3>2. /\ g \in [1..m -> (1..(b - 1)) \intersect I]
          /\ \A k \in 1..m : f[b - 1][k] = s[g[k]]
          /\ \A k, l \in 1..m : k < l => g[k] < g[l]
          /\ \A i \in (1..(b - 1)) \intersect I : \E k \in 1..m : g[k] = i
      BY <2>6
    <3>. HIDE DEF m
    <3>3. /\ \A k \in 1..m : h[k] = g[k] /\ h[k] \in (1..(b - 1)) \intersect I
          /\ h[m + 1] = b /\ m + 1 \in 1..(m + 1)
      BY <3>1, <3>2
    <3>4. \A k \in 1..(m + 1) : k = m + 1 \/ k \in 1..m
      BY <3>1
    <3>5. h \in [1..(m + 1) -> (1..b) \intersect I]
      <4>1. \A k \in 1..(m + 1) : h[k] \in (1..b) \intersect I
        <5>. HIDE DEF h
        <5>. QED
          BY <2>5, <2>9, <3>3, <3>4
      <4>2. h = [k \in 1..(m + 1) |-> h[k]]
        OBVIOUS
      <4>. HIDE DEF h
      <4>. QED
        BY <4>1, <4>2
    <3>. HIDE DEF h
    <3>6. \A k \in 1..(m + 1) : f[b][k] = s[h[k]]
      BY <3>1, <3>2, <3>3, <3>4
    <3>7. \A k, l \in 1..(m + 1) : k < l => h[k] < h[l]
      <4>. SUFFICES ASSUME NEW k \in 1..(m + 1), NEW l \in 1..(m + 1), k < l
                    PROVE  h[k] < h[l]
        OBVIOUS
      <4>1. k \in 1..m
        BY <3>1
      <4>2. CASE l = m + 1
        <5>1. h[k] \in 1..(b - 1)
          BY <3>3, <4>1
        <5>. QED
          BY <2>5, <3>3, <4>2, <5>1
      <4>3. CASE l \in 1..m
        BY <3>2, <3>3, <4>1, <4>3
      <4>. QED
        BY <3>4, <4>2, <4>3
    <3>8. ASSUME NEW i \in (1..b) \intersect I
          PROVE  \E k \in 1..(m + 1) : h[k] = i
      <4>1. CASE i = b
        BY <3>3, <4>1
      <4>2. CASE i # b
        <5>1. i \in (1..(b - 1)) \intersect I
          BY <2>5, <4>2
        <5>2. PICK k \in 1..m : g[k] = i
          BY <3>2, <5>1
        <5>3. k \in 1..(m + 1)
          BY <3>1
        <5>. QED
          BY <3>3, <5>2, <5>3
      <4>. QED
        BY <4>1, <4>2
    <3>9. Emb(b, h)
      BY <3>1, <3>5, <3>6, <3>7, <3>8
    <3>. HIDE DEF Emb
    <3>. QED
      BY <2>3, <3>9
  <2>. QED
    BY <2>8, <2>9
<1>4. PICK g : Emb(N, g)
  <2>1. N \in 0..N
    BY <1>2
  <2>. HIDE DEF Emb
  <2>. QED
    BY <1>3, <2>1
<1>5. Picks(s, I, f[N], g)
  BY <1>4 DEF Picks, N
<1>6. f[N] \in Seq(T)
  BY <1>1, <1>2
<1>. QED
  BY <1>1, <1>5, <1>6

\* To pick all items but the first k is to drop those.
LEMMA PickedFrom ==
    ASSUME NEW T, NEW s \in Seq(T), NEW k \in 0..Len(s), NEW I,
           \A i \in 1..Len(s) : i \in I <=> i > k
    PROVE  Picked(s, I) = SubSeq(s, k + 1, Len(s))
<1> DEFINE N == Len(s)
<1>0. PICK f : PickRun(T, s, I, f)
  BY PickedSteps
<1>1. /\ f \in [0..N -> Seq(T)] /\ f[0] = <<>> /\ Picked(s, I) = f[N]
      /\ \A n \in 1..N : f[n] = IF n \in I THEN Append(f[n - 1], s[n]) ELSE f[n - 1]
  BY <1>0 DEF PickRun
<1>2. N \in Nat /\ k \in Nat /\ k <= N /\ (\A n \in 1..N : s[n] \in T)
  OBVIOUS
<1> DEFINE Bad == {n \in 0..N : f[n] # SubSeq(s, k + 1, n)}
<1>3. Bad = {}
  <2>. SUFFICES ASSUME Bad # {}
                PROVE  FALSE
    OBVIOUS
  <2>1. Bad \in SUBSET Nat
    BY <1>2
  <2>2. PICK b \in Bad : \A n \in Bad : b <= n
    <3>. HIDE DEF Bad
    <3>. QED
      BY <2>1, Least
  <2>3. b \in 0..N /\ f[b] # SubSeq(s, k + 1, b)
    BY <2>2
  <2>4. b # 0
    <3>1. SubSeq(s, k + 1, 0) = <<>>
      BY <1>2, SubSeqEmpty
    <3>. QED
      BY <1>1, <2>3, <3>1
  <2>5. b - 1 \in 0..N /\ b \in 1..N /\ b - 1 < b
    BY <1>2, <2>3, <2>4
  <2>6. f[b - 1] = SubSeq(s, k + 1, b - 1)
    <3>1. b - 1 \notin Bad
      <4>. HIDE DEF Bad
      <4>. QED
        BY <2>2, <2>5
    <3>. QED
      BY <2>5, <3>1
  <2>7. CASE b > k
    <3>1. f[b] = Append(SubSeq(s, k + 1, b - 1), s[b])
      BY <1>1, <2>5, <2>6, <2>7
    <3>2. SubSeq(s, k + 1, b) = SubSeq(s, k + 1, b - 1) \o <<s[b]>>
      <4>1. k + 1 \in 1..Len(s) /\ b \in (k + 1)..Len(s)
        BY <1>2, <2>5, <2>7
      <4>. QED
        BY <4>1, SubSeqRecursiveSecond
    <3>3. f[b - 1] \in Seq(T) /\ s[b] \in T
      BY <1>1, <1>2, <2>5
    <3>4. Append(f[b - 1], s[b]) = f[b - 1] \o <<s[b]>>
      BY <3>3, AppendIsConcat
    <3>. QED
      BY <2>3, <2>6, <3>1, <3>2, <3>4
  <2>8. CASE b <= k
    <3>1. f[b] = f[b - 1]
      BY <1>1, <1>2, <2>5, <2>8
    <3>2. SubSeq(s, k + 1, b) = <<>> /\ SubSeq(s, k + 1, b - 1) = <<>>
      BY <1>2, <2>5, <2>8, SubSeqEmpty
    <3>. QED
      BY <2>3, <2>6, <3>1, <3>2
  <2>. QED
    BY <1>2, <2>5, <2>7, <2>8
<1>4. N \in 0..N
  BY <1>2
<1>. QED
  BY <1>1, <1>3, <1>4

(***************************************************************************)
(* Files                                                                   *)
(***************************************************************************)
\* Files whose lines are all whole.
WholeFiles(T) == [there : BOOLEAN, lines : Seq(T), end : {"newline"}]

\* Three lists, and how they are put together.
Lists(T, s, t, u) == s \in Seq(T) /\ t \in Seq(T) /\ u \in Seq(T)
\* Brackets do not matter.
LEMMA Regrouped ==
    ASSUME NEW T, NEW s, NEW t, NEW u, Lists(T, s, t, u)
    PROVE  (s \o t) \o u = s \o (t \o u)
<1>1. s \in Seq(T) /\ t \in Seq(T) /\ u \in Seq(T)
  BY DEF Lists
<1>. QED
  BY <1>1, ConcatAssociative, SMTT(60)

\* How PutLines goes through its lines.
PutSteps(f, es, h) ==
    h = [n \in 0..Len(es) |-> IF n = 0 THEN [there |-> TRUE, lines |-> f.lines, end |-> f.end] ELSE PutLine(h[n - 1], es[n])]

\* PutLines appends its lines to a whole file.
LEMMA PutLinesIs ==
    ASSUME NEW T, NEW f \in WholeFiles(T), NEW es \in Seq(T)
    PROVE  PutLines(f, es) = [there |-> TRUE, lines |-> f.lines \o es, end |-> "newline"]
<1> DEFINE N == Len(es)
           v == [there |-> TRUE, lines |-> f.lines, end |-> f.end]
           V == WholeFiles(T)
           h == [n \in 0..N |-> [there |-> TRUE, lines |-> f.lines \o SubSeq(es, 1, n), end |-> "newline"]]
<1>1. N \in Nat /\ f.lines \in Seq(T) /\ \A n \in 1..N : es[n] \in T
  BY DEF WholeFiles
<1>2. v = [there |-> TRUE, lines |-> f.lines, end |-> "newline"]
  BY DEF WholeFiles
<1>3. \A n \in 0..N : SubSeq(es, 1, n) \in Seq(T)
  BY <1>1, SubSeqProperties
<1>4. h[0] = v
  <2>1. SubSeq(es, 1, 0) = <<>> /\ f.lines \o <<>> = f.lines
    BY <1>1, SubSeqEmpty, ConcatEmptySeq
  <2>2. 0 \in 0..N
    BY <1>1
  <2>. QED
    BY <1>2, <2>1, <2>2
<1>5. ASSUME NEW n \in 1..N
      PROVE  h[n] = PutLine(h[n - 1], es[n])
  <2>1. n - 1 \in 0..N /\ n \in 0..N
    BY <1>1
  <2>2. h[n - 1] = [there |-> TRUE, lines |-> f.lines \o SubSeq(es, 1, n - 1), end |-> "newline"]
    BY <2>1
  <2>3. PutLine(h[n - 1], es[n]) = [there |-> TRUE, end |-> "newline",
                                    lines |-> Append(f.lines \o SubSeq(es, 1, n - 1), es[n])]
    <3>. HIDE DEF h
    <3>. QED
      BY <2>2 DEF PutLine
  <2>4. SubSeq(es, 1, n) = SubSeq(es, 1, n - 1) \o <<es[n]>>
    <3>1. 1 \in 1..Len(es) /\ n \in 1..Len(es)
      BY <1>1
    <3>. QED
      BY <3>1, SubSeqRecursiveSecond
  <2>5. Append(f.lines \o SubSeq(es, 1, n - 1), es[n]) = f.lines \o SubSeq(es, 1, n)
    <3> DEFINE t == SubSeq(es, 1, n - 1)
    <3>1. t \in Seq(T) /\ <<es[n]>> \in Seq(T) /\ es[n] \in T
      BY <1>1, <1>3, <2>1
    <3>. HIDE DEF t
    <3>2. f.lines \o t \in Seq(T)
      BY <1>1, <3>1
    <3>3. Append(f.lines \o t, es[n]) = (f.lines \o t) \o <<es[n]>>
      BY <3>1, <3>2, AppendIsConcat
    <3>4. (f.lines \o t) \o <<es[n]>> = f.lines \o (t \o <<es[n]>>)
      <4> DEFINE s == f.lines
                 u == <<es[n]>>
      <4>1. s \in Seq(T) /\ t \in Seq(T) /\ u \in Seq(T)
        BY <1>1, <3>1
      <4>. HIDE DEF s, u, h, v, V, N
      <4>2. (s \o t) \o u = s \o (t \o u)
        <5>1. Lists(T, s, t, u)
          BY <4>1 DEF Lists
        <5>. QED
          BY <5>1, Regrouped
      <4>. QED
        BY <4>2 DEF s, u
    <3>. QED
      BY <2>4, <3>3, <3>4 DEF t
  <2>6. h[n] = [there |-> TRUE, lines |-> f.lines \o SubSeq(es, 1, n), end |-> "newline"]
    BY <2>1
  <2>. QED
    BY <2>3, <2>5, <2>6
<1>6. PutSteps(f, es, h)
  <2>1. h = [n \in 0..N |-> h[n]]
    OBVIOUS
  <2>. HIDE DEF h, v
  <2>2. \A n \in 0..N : h[n] = IF n = 0 THEN v ELSE PutLine(h[n - 1], es[n])
    <3>1. \A n \in 0..N : n # 0 => n \in 1..N
      BY <1>1
    <3>. QED
      BY <1>4, <1>5, <3>1
  <2>3. h = [n \in 0..N |-> IF n = 0 THEN v ELSE PutLine(h[n - 1], es[n])]
    BY <2>1, <2>2
  <2>. QED
    BY <2>3 DEF PutSteps, v
<1> DEFINE put[n \in 0..Len(es)] ==
             IF n = 0 THEN [there |-> TRUE, lines |-> f.lines, end |-> f.end] ELSE PutLine(put[n - 1], es[n])
<1>7. PutLines(f, es) = put[Len(es)]
  BY DEF PutLines
<1>. HIDE DEF h
<1>8. PutSteps(f, es, put)
  <2>1. h = [n \in 0..Len(es) |-> IF n = 0 THEN [there |-> TRUE, lines |-> f.lines, end |-> f.end] ELSE PutLine(h[n - 1], es[n])]
    BY <1>6 DEF PutSteps
  <2>2. put = [n \in 0..Len(es) |-> IF n = 0 THEN [there |-> TRUE, lines |-> f.lines, end |-> f.end] ELSE PutLine(put[n - 1], es[n])]
    BY <2>1
  <2>. HIDE DEF put
  <2>. QED
    BY <2>2 DEF PutSteps
<1>. HIDE DEF put, v
<1>9. put[N] = h[N]
  <2> DEFINE Bad == {n \in 0..N : put[n] # h[n]}
  <2>1. Bad \in SUBSET Nat
    BY <1>1
  <2>2. /\ \A n \in 0..N : put[n] = IF n = 0 THEN v ELSE PutLine(put[n - 1], es[n])
        /\ \A n \in 0..N : h[n] = IF n = 0 THEN v ELSE PutLine(h[n - 1], es[n])
    BY <1>6, <1>8 DEF PutSteps, v
  <2>3. ASSUME Bad # {}
        PROVE  FALSE
    <3>1. PICK b \in Bad : \A k \in Bad : b <= k
      <4>. HIDE DEF Bad
      <4>. QED
        BY <2>1, <2>3, Least
    <3>2. b \in 0..N /\ put[b] # h[b]
      BY <3>1
    <3>3. b # 0
      BY <2>2, <3>2
    <3>4. b - 1 \in 0..N /\ b - 1 < b
      BY <1>1, <3>2, <3>3
    <3>5. b - 1 \notin Bad
      <4>. HIDE DEF Bad
      <4>. QED
        BY <2>1, <3>1, <3>4
    <3>6. put[b - 1] = h[b - 1]
      BY <3>4, <3>5
    <3>. QED
      BY <2>2, <3>2, <3>3, <3>6
  <2>4. N \in 0..N
    BY <1>1
  <2>. QED
    BY <2>3, <2>4
<1>10. h[N] = [there |-> TRUE, lines |-> f.lines \o es, end |-> "newline"]
  <2>1. SubSeq(es, 1, N) = es /\ N \in 0..N
    BY <1>1, SubSeqFull
  <2>. QED
    BY <2>1 DEF h
<1>. QED
  BY <1>7, <1>9, <1>10

\* An entry of a list that was made before id n was given out.
Formed(e) == e = Entry(e.id, e.parent, e.kind, e.ref, e.covers)
Made(e, n) ==
    Formed(e) /\ e.kind \in Kinds /\ e.id \in 1..(n - 1) /\ e.parent \in 0..(e.id - 1)

\* A list of entries in the order of their ids.
Good(s, n) ==
    /\ IsSeq(s)
    /\ \A i \in 1..Len(s) : Made(s[i], n)
    /\ \A i, j \in 1..Len(s) : i < j => s[i].id < s[j].id

\* A file that nobody tore: no lines, or a header and entries.
FileOk(f, n) ==
    /\ f = [there |-> f.there, lines |-> f.lines, end |-> "newline"]
    /\ f.there \in BOOLEAN
    /\ \/ f.lines = <<>>
       \/ f.there /\ \E b : Good(b, n) /\ f.lines = <<Header>> \o b

\* The header is told from entries by its kind and by its id.
LEMMA HeaderIs == Header.kind = "session" /\ Header.kind \notin Kinds /\ Header.id = 0
BY DEF Header, Entry, Kinds, ContextKinds, MessageKinds, AssistantKinds, LabelKinds

\* A list of entries is a sequence of its items.
LEMMA GoodIsSeq ==
    ASSUME NEW s, NEW n, Good(s, n)
    PROVE  /\ s \in Seq({s[i] : i \in 1..Len(s)})
           /\ Len(s) \in Nat /\ DOMAIN s = 1..Len(s)
<1>1. PICK T : s \in Seq(T)
  BY DEF Good, IsSeq
<1>2. Len(s) \in Nat /\ DOMAIN s = 1..Len(s) /\ s = [i \in 1..Len(s) |-> s[i]]
  BY <1>1
<1>. QED
  BY <1>2

\* What is loaded from a header and entries behind it.
LEMMA LoadIs ==
    ASSUME NEW f, NEW b, NEW n, Good(b, n), f.lines = <<Header>> \o b
    PROVE  HasHeader(f) /\ Load(f) = b
<1> DEFINE s == f.lines
           T == {b[i] : i \in 1..Len(b)} \union {Header}
<1>1. b \in Seq(T) /\ <<Header>> \in Seq(T) /\ Len(b) \in Nat /\ Len(<<Header>>) = 1
  <2>1. b \in Seq({b[i] : i \in 1..Len(b)}) /\ Len(b) \in Nat
    BY GoodIsSeq
  <2>. QED
    BY <2>1
<1>2. /\ s \in Seq(T) /\ Len(s) = Len(b) + 1 /\ s[1] = Header /\ s # <<>>
      /\ \A i \in 1..Len(s) : i # 1 => i - 1 \in 1..Len(b) /\ s[i] = b[i - 1]
  <2>. HIDE DEF T
  <2>1. /\ <<Header>> \o b \in Seq(T) /\ Len(<<Header>> \o b) = 1 + Len(b)
        /\ \A i \in 1..(1 + Len(b)) : (<<Header>> \o b)[i] = IF i <= 1 THEN <<Header>>[i] ELSE b[i - 1]
    BY <1>1, ConcatProperties
  <2>. QED
    BY <1>1, <2>1
<1>3. \A i \in 1..Len(s) : i # 1 => s[i].kind \in Kinds
  BY <1>2 DEF Good, Made
<1>4. DOMAIN s = 1..Len(s)
  BY <1>2
<1>. HIDE DEF s, T
<1>5. OfKinds(s, Kinds) = b
  <2> DEFINE I == {i \in DOMAIN s : s[i].kind \in Kinds}
  <2>1. \A i \in 1..Len(s) : i \in I <=> i > 1
    BY <1>1, <1>2, <1>3, <1>4, HeaderIs
  <2>2. 1 \in 0..Len(s)
    BY <1>1, <1>2
  <2>3. Picked(s, I) = SubSeq(s, 2, Len(s))
    <3>. HIDE DEF I
    <3>1. Picked(s, I) = SubSeq(s, 1 + 1, Len(s))
      BY <1>2, <2>1, <2>2, PickedFrom
    <3>. QED
      BY <3>1
  <2>4. SubSeq(s, 2, Len(s)) = b
    <3>1. Tail(s) = SubSeq(s, 2, Len(s))
      BY <1>2, TailIsSubSeq
    <3>2. Tail(s) \in Seq(T) /\ Len(Tail(s)) = Len(s) - 1 /\ \A i \in 1..Len(Tail(s)) : Tail(s)[i] = s[i + 1]
      BY <1>2, HeadTailProperties
    <3>3. \A i \in 1..Len(b) : i + 1 \in 1..Len(s) /\ i + 1 # 1 /\ (i + 1) - 1 = i
      BY <1>1, <1>2
    <3>4. Len(Tail(s)) = Len(b)
      BY <1>1, <1>2, <3>2
    <3>5. \A i \in 1..Len(b) : Tail(s)[i] = b[i]
      BY <1>2, <3>2, <3>3, <3>4
    <3>6. Tail(s) = b
      BY <1>1, <3>2, <3>4, <3>5, SeqEqual
    <3>. QED
      BY <3>1, <3>6
  <2>. QED
    BY <2>3, <2>4 DEF OfKinds
<1>6. OfKinds(s, Kinds \union {"session"}) = s
  <2> DEFINE I == {i \in DOMAIN s : s[i].kind \in Kinds \union {"session"}}
  <2>1. \A i \in 1..Len(s) : i \in I <=> i > 0
    BY <1>1, <1>2, <1>3, <1>4, HeaderIs
  <2>2. 0 \in 0..Len(s)
    BY <1>1, <1>2
  <2>3. Picked(s, I) = SubSeq(s, 1, Len(s))
    <3>. HIDE DEF I
    <3>1. Picked(s, I) = SubSeq(s, 0 + 1, Len(s))
      BY <1>2, <2>1, <2>2, PickedFrom
    <3>. QED
      BY <3>1
  <2>4. SubSeq(s, 1, Len(s)) = s
    BY <1>2, SubSeqFull
  <2>. QED
    BY <2>3, <2>4 DEF OfKinds
<1>. QED
  BY <1>2, <1>5, <1>6, HeaderIs DEF HasHeader, Load, s

\* Nothing is loaded from a file without lines.
LEMMA LoadNone ==
    ASSUME NEW f, f.lines = <<>>
    PROVE  ~HasHeader(f) /\ Load(f) = <<>>
<1>1. <<>> \in Seq({}) /\ Len(<<>>) = 0 /\ 0 \in 0..Len(<<>>)
  OBVIOUS
<1>2. ASSUME NEW K
      PROVE  OfKinds(<<>>, K) = <<>>
  <2> DEFINE I == {i \in DOMAIN <<>> : <<>>[i].kind \in K}
  <2>1. \A i \in 1..Len(<<>>) : i \in I <=> i > 0
    BY <1>1
  <2>2. Picked(<<>>, I) = SubSeq(<<>>, 0 + 1, Len(<<>>))
    <3>. HIDE DEF I
    <3>. QED
      BY <1>1, <2>1, PickedFrom
  <2>3. SubSeq(<<>>, 0 + 1, Len(<<>>)) = <<>>
    BY <1>1, SubSeqEmpty
  <2>. QED
    BY <2>2, <2>3 DEF OfKinds
<1>. QED
  BY <1>2 DEF HasHeader, Load

\* There is nothing wrong with no entries.
LEMMA EmptyIsGood == ASSUME NEW n PROVE Good(<<>>, n)
<1>1. <<>> \in Seq({}) /\ Len(<<>>) = 0
  OBVIOUS
<1>. QED
  BY <1>1 DEF Good, IsSeq

\* What is loaded from a file that nobody tore is all it has.
LEMMA FileLoads ==
    ASSUME NEW f, NEW n, FileOk(f, n)
    PROVE  /\ Good(Load(f), n)
           /\ HasHeader(f) => f.there /\ f.lines = <<Header>> \o Load(f)
           /\ ~HasHeader(f) => f.lines = <<>> /\ Load(f) = <<>>
<1>1. CASE f.lines = <<>>
  BY <1>1, LoadNone, EmptyIsGood
<1>2. CASE f.there /\ \E b : Good(b, n) /\ f.lines = <<Header>> \o b
  <2>1. PICK b : Good(b, n) /\ f.lines = <<Header>> \o b
    BY <1>2
  <2>2. HasHeader(f) /\ Load(f) = b
    BY <2>1, LoadIs
  <2>. QED
    BY <1>2, <2>1, <2>2
<1>. QED
  BY <1>1, <1>2 DEF FileOk

\* Ids that were given out stay given out: in a list,
LEMMA GoodLater ==
    ASSUME NEW s, NEW n \in Nat, NEW m \in Nat, n <= m, Good(s, n)
    PROVE  Good(s, m)
<1>1. \A i \in 1..Len(s) : Made(s[i], m)
  BY DEF Good, Made
<1>. QED
  BY <1>1 DEF Good

\* and in a file.
LEMMA FileLater ==
    ASSUME NEW f, NEW n \in Nat, NEW m \in Nat, n <= m, FileOk(f, n)
    PROVE  FileOk(f, m)
BY GoodLater DEF FileOk

\* An entry with the next id goes to the end of a list.
LEMMA AppendedGood ==
    ASSUME NEW s, NEW n \in Nat, Good(s, n), NEW e, Made(e, n + 1), e.id = n
    PROVE  /\ Good(Append(s, e), n + 1)
           /\ IdsOf(Append(s, e)) = IdsOf(s) \union {n}
           /\ Append(s, e) # <<>>
           /\ Len(Append(s, e)) = Len(s) + 1 /\ Append(s, e)[Len(s) + 1] = e
           /\ \A i \in 1..Len(s) : Append(s, e)[i] = s[i]
<1> DEFINE t == Append(s, e)
           T == {s[i] : i \in 1..Len(s)} \union {e}
<1>1. s \in Seq(T) /\ Len(s) \in Nat /\ DOMAIN s = 1..Len(s)
  <2>1. s \in Seq({s[i] : i \in 1..Len(s)}) /\ Len(s) \in Nat /\ DOMAIN s = 1..Len(s)
    BY GoodIsSeq
  <2>. QED
    BY <2>1
<1>2. e \in T
  OBVIOUS
<1>. HIDE DEF T
<1>3. /\ t \in Seq(T) /\ t # <<>> /\ Len(t) = Len(s) + 1
      /\ \A i \in 1..Len(s) : t[i] = s[i]
      /\ t[Len(s) + 1] = e
  BY <1>1, <1>2, AppendProperties
<1>4. DOMAIN t = 1..(Len(s) + 1) /\ \A i \in 1..(Len(s) + 1) : i \in 1..Len(s) \/ i = Len(s) + 1
  BY <1>1, <1>3
<1>. HIDE DEF t
<1>5. \A i \in 1..Len(t) : Made(t[i], n + 1)
  <2>1. Good(s, n + 1)
    BY GoodLater
  <2>. QED
    BY <1>3, <1>4, <2>1 DEF Good
<1>6. ASSUME NEW i \in 1..Len(t), NEW j \in 1..Len(t), i < j
      PROVE  t[i].id < t[j].id
  <2>1. i \in 1..Len(s) /\ t[i] = s[i] /\ s[i].id \in 1..(n - 1)
    BY <1>1, <1>3, <1>4, <1>6 DEF Good, Made
  <2>2. CASE j = Len(s) + 1
    BY <1>3, <2>1, <2>2
  <2>3. CASE j \in 1..Len(s)
    BY <1>3, <1>6, <2>1, <2>3 DEF Good
  <2>. QED
    BY <1>3, <1>4, <2>2, <2>3
<1>7. IsSeq(t)
  BY <1>3 DEF IsSeq
<1>8. IdsOf(t) = IdsOf(s) \union {n}
  <2>1. ASSUME NEW x \in IdsOf(t)
        PROVE  x \in IdsOf(s) \union {n}
    <3>1. PICK i \in 1..(Len(s) + 1) : x = t[i].id
      BY <1>4 DEF IdsOf
    <3>. QED
      BY <1>1, <1>3, <1>4, <3>1 DEF IdsOf
  <2>2. ASSUME NEW x \in IdsOf(s)
        PROVE  x \in IdsOf(t)
    <3>1. PICK i \in 1..Len(s) : x = s[i].id
      BY <1>1 DEF IdsOf
    <3>2. i \in DOMAIN t /\ t[i] = s[i]
      BY <1>1, <1>3, <1>4
    <3>. QED
      BY <3>1, <3>2 DEF IdsOf
  <2>3. n \in IdsOf(t)
    <3>1. Len(s) + 1 \in DOMAIN t
      BY <1>1, <1>4
    <3>. QED
      BY <1>3, <3>1 DEF IdsOf
  <2>. QED
    BY <2>1, <2>2, <2>3
<1>9. Good(t, n + 1)
  BY <1>5, <1>6, <1>7 DEF Good
<1>. QED
  BY <1>3, <1>8, <1>9 DEF t

\* A file that nobody tore has whole lines.
LEMMA FileIsWhole ==
    ASSUME NEW f, NEW n, FileOk(f, n), NEW T, f.lines \in Seq(T)
    PROVE  f \in WholeFiles(T)
<1>1. f = [there |-> f.there, lines |-> f.lines, end |-> "newline"] /\ f.there \in BOOLEAN
  BY DEF FileOk
<1>. QED
  BY <1>1 DEF WholeFiles

\* What a write of entries behind a header leaves.
LEMMA PutAppend ==
    ASSUME NEW f, NEW n \in Nat, FileOk(f, n), HasHeader(f), NEW e, Made(e, n + 1), e.id = n
    PROVE  /\ FileOk(PutLines(f, <<e>>), n + 1)
           /\ HasHeader(PutLines(f, <<e>>))
           /\ Load(PutLines(f, <<e>>)) = Append(Load(f), e)
<1> DEFINE b == Load(f)
           g == PutLines(f, <<e>>)
           T == {b[i] : i \in 1..Len(b)} \union {Header, e}
<1>1. Good(b, n) /\ f.there /\ f.lines = <<Header>> \o b
  BY FileLoads
<1>2. b \in Seq(T) /\ <<Header>> \in Seq(T) /\ <<e>> \in Seq(T) /\ e \in T
  <2>1. b \in Seq({b[i] : i \in 1..Len(b)})
    BY <1>1, GoodIsSeq
  <2>. QED
    BY <2>1
<1>. HIDE DEF T
<1>3. f \in WholeFiles(T)
  <2>1. f.lines \in Seq(T)
    BY <1>1, <1>2, ConcatProperties
  <2>. QED
    BY <2>1, FileIsWhole
<1>4. g = [there |-> TRUE, lines |-> f.lines \o <<e>>, end |-> "newline"]
  BY <1>2, <1>3, PutLinesIs
<1>5. f.lines \o <<e>> = <<Header>> \o Append(b, e)
  <2> DEFINE h == <<Header>>
             u == <<e>>
  <2>1. h \in Seq(T) /\ u \in Seq(T) /\ Append(b, e) = b \o u
    BY <1>2, AppendIsConcat
  <2>. HIDE DEF h, u, b
  <2>2. (h \o b) \o u = h \o (b \o u)
    BY <1>2, <2>1, ConcatAssociative, SMTT(60)
  <2>. QED
    BY <1>1, <2>1, <2>2 DEF h, u
<1>6. Good(Append(b, e), n + 1)
  BY <1>1, AppendedGood
<1>. HIDE DEF g, b
<1>7. g.lines = <<Header>> \o Append(b, e)
  BY <1>4, <1>5
<1>8. HasHeader(g) /\ Load(g) = Append(b, e)
  BY <1>6, <1>7, LoadIs
<1>9. FileOk(g, n + 1)
  <2>1. g = [there |-> g.there, lines |-> g.lines, end |-> "newline"] /\ g.there = TRUE
    BY <1>4
  <2>. QED
    BY <1>6, <1>7, <2>1 DEF FileOk
<1>. QED
  BY <1>8, <1>9 DEF g, b

\* What the first write of a session leaves: the header and its entries.
LEMMA PutFresh ==
    ASSUME NEW f, NEW n \in Nat, FileOk(f, n), f.lines = <<>>, NEW es, Good(es, n)
    PROVE  /\ FileOk(PutLines(f, <<Header>> \o es), n)
           /\ HasHeader(PutLines(f, <<Header>> \o es))
           /\ Load(PutLines(f, <<Header>> \o es)) = es
<1> DEFINE w == <<Header>> \o es
           g == PutLines(f, w)
           T == {es[i] : i \in 1..Len(es)} \union {Header}
<1>1. w \in Seq(T)
  <2>1. es \in Seq({es[i] : i \in 1..Len(es)})
    BY GoodIsSeq
  <2>2. es \in Seq(T) /\ <<Header>> \in Seq(T)
    BY <2>1
  <2>. HIDE DEF T
  <2>. QED
    BY <2>2, ConcatProperties
<1>. HIDE DEF T, w
<1>2. f \in WholeFiles(T)
  <2>1. <<>> \in Seq(T)
    OBVIOUS
  <2>. QED
    BY <2>1, FileIsWhole
<1>3. g = [there |-> TRUE, lines |-> f.lines \o w, end |-> "newline"]
  BY <1>1, <1>2, PutLinesIs
<1>4. f.lines \o w = w
  BY <1>1, ConcatEmptySeq
<1>. HIDE DEF g
<1>5. g.lines = <<Header>> \o es
  BY <1>3, <1>4 DEF w
<1>6. HasHeader(g) /\ Load(g) = es
  BY <1>5, LoadIs
<1>7. FileOk(g, n)
  <2>1. g = [there |-> g.there, lines |-> g.lines, end |-> "newline"] /\ g.there = TRUE
    BY <1>3
  <2>. QED
    BY <1>5, <2>1 DEF FileOk
<1>. QED
  BY <1>6, <1>7 DEF g, w

\* The first entries of a list are as good as the list.
LEMMA PrefixGood ==
    ASSUME NEW s, NEW n, Good(s, n), NEW k \in 0..Len(s)
    PROVE  /\ Good(SubSeq(s, 1, k), n)
           /\ WellFormed(s) => WellFormed(SubSeq(s, 1, k))
<1> DEFINE T == {s[i] : i \in 1..Len(s)}
           t == SubSeq(s, 1, k)
<1>1. s \in Seq(T) /\ Len(s) \in Nat /\ DOMAIN s = 1..Len(s)
  BY GoodIsSeq
<1>2. \A i \in 1..k : i \in 1..Len(s) /\ s[i] \in T
  BY <1>1
<1>. HIDE DEF T
<1>3. k \in Nat /\ k <= Len(s)
  BY <1>1
<1>4. t \in Seq(T) /\ Len(t) = k /\ \A i \in 1..k : t[i] = s[i]
  <2>1. /\ t \in Seq(T) /\ Len(t) = IF 1 <= k THEN k - 1 + 1 ELSE 0
        /\ \A i \in 1..(k - 1 + 1) : t[i] = s[1 + i - 1]
    BY <1>2, <1>3, SubSeqProperties
  <2>2. k - 1 + 1 = k /\ \A i \in 1..k : 1 + i - 1 = i
    BY <1>3
  <2>3. Len(t) = k
    BY <1>3, <2>1
  <2>. QED
    BY <2>1, <2>2, <2>3
<1>. HIDE DEF t
<1>5. Good(t, n)
  <2>1. IsSeq(t)
    BY <1>4 DEF IsSeq
  <2>. QED
    BY <1>2, <1>4, <2>1 DEF Good
<1>6. ASSUME WellFormed(s)
      PROVE  WellFormed(t)
  <2>1. DOMAIN t = 1..k
    BY <1>4
  <2>2. ASSUME NEW j \in 1..k, t[j].parent # 0
        PROVE  \E i \in 1..(j - 1) : t[i].id = t[j].parent
    <3>1. j \in DOMAIN s /\ t[j] = s[j]
      BY <1>1, <1>2, <1>4
    <3>2. PICK i \in 1..(j - 1) : s[i].id = s[j].parent
      BY <1>6, <2>2, <3>1 DEF WellFormed
    <3>3. i \in 1..k
      BY <1>3
    <3>. QED
      BY <1>4, <3>1, <3>2, <3>3
  <2>. QED
    BY <2>1, <2>2 DEF WellFormed
<1>. QED
  BY <1>5, <1>6 DEF t

\* A write that is cut short leaves no piece of a line.
LEMMA CutIs ==
    ASSUME ~scenario.tears, NEW f, NEW es, NEW g \in CutShort(f, es)
    PROVE  g = f \/ \E k \in 0..(Len(es) - 1) : g = PutLines(f, SubSeq(es, 1, k))
BY DEF CutShort

\* An append that is cut short leaves the file as it was.
LEMMA CutAppend ==
    ASSUME ~scenario.tears, NEW f, NEW n, FileOk(f, n), HasHeader(f), NEW e,
           NEW g \in CutShort(f, <<e>>)
    PROVE  g = f
<1> DEFINE es == <<e>>
<1>0. g = f \/ \E k \in 0..(Len(es) - 1) : g = PutLines(f, SubSeq(es, 1, k))
  <2>1. g \in CutShort(f, es)
    OBVIOUS
  <2>. HIDE DEF es
  <2>. QED
    BY <2>1, CutIs
<1>1. CASE g = f
  BY <1>1
<1>2. CASE \E k \in 0..(Len(<<e>>) - 1) : g = PutLines(f, SubSeq(<<e>>, 1, k))
  <2>1. PICK k \in 0..(Len(<<e>>) - 1) : g = PutLines(f, SubSeq(<<e>>, 1, k))
    BY <1>2
  <2>2. k = 0
    OBVIOUS
  <2>3. SubSeq(<<e>>, 1, k) = <<>>
    BY <2>2, SubSeqEmpty
  <2>4. Good(Load(f), n) /\ f.there /\ f.lines = <<Header>> \o Load(f)
    BY FileLoads
  <2> DEFINE T == {Load(f)[i] : i \in 1..Len(Load(f))} \union {Header}
  <2>5. f.lines \in Seq(T)
    <3>1. Load(f) \in Seq({Load(f)[i] : i \in 1..Len(Load(f))})
      BY <2>4, GoodIsSeq
    <3>2. Load(f) \in Seq(T) /\ <<Header>> \in Seq(T)
      BY <3>1
    <3>. HIDE DEF T
    <3>. QED
      BY <2>4, <3>2, ConcatProperties
  <2>. HIDE DEF T
  <2>6. f \in WholeFiles(T) /\ <<>> \in Seq(T)
    BY <2>5, FileIsWhole
  <2>7. PutLines(f, <<>>) = [there |-> TRUE, lines |-> f.lines \o <<>>, end |-> "newline"]
    BY <2>6, PutLinesIs
  <2>8. f.lines \o <<>> = f.lines
    BY <2>5, ConcatEmptySeq
  <2>9. f.there = TRUE /\ \E a, b : f = [there |-> a, lines |-> b, end |-> "newline"]
    BY <2>4 DEF FileOk
  <2>10. PICK a, b : f = [there |-> a, lines |-> b, end |-> "newline"]
    BY <2>9
  <2>11. f.there = a /\ f.lines = b
    BY <2>10
  <2>12. f = [there |-> TRUE, lines |-> f.lines, end |-> "newline"]
    BY <2>9, <2>10, <2>11
  <2>. QED
    BY <2>1, <2>3, <2>7, <2>8, <2>12
<1>. QED
  BY <1>0, <1>1, <1>2

\* The first write cut short leaves the first entries, or nothing.
LEMMA CutFresh ==
    ASSUME ~scenario.tears, NEW f, NEW n \in Nat, FileOk(f, n), f.lines = <<>>,
           NEW es, Good(es, n), NEW g \in CutShort(f, <<Header>> \o es)
    PROVE  /\ FileOk(g, n) /\ (WellFormed(es) => WellFormed(Load(g)))
           /\ \E k \in 0..Len(es) : Load(g) = SubSeq(es, 1, k)
<1> DEFINE w == <<Header>> \o es
           T == {es[i] : i \in 1..Len(es)} \union {Header}
<1>0. WellFormed(<<>>) /\ \E k \in 0..Len(es) : <<>> = SubSeq(es, 1, k)
  <2>1. es \in Seq({es[i] : i \in 1..Len(es)}) /\ Len(es) \in Nat
    BY GoodIsSeq
  <2>2. SubSeq(es, 1, 0) = <<>> /\ 0 \in 0..Len(es)
    BY <2>1, SubSeqEmpty
  <2>. QED
    BY <2>2 DEF WellFormed
<1>1. CASE g = f
  BY <1>0, <1>1, LoadNone
<1>2. CASE \E k \in 0..(Len(w) - 1) : g = PutLines(f, SubSeq(w, 1, k))
  <2>1. PICK k \in 0..(Len(w) - 1) : g = PutLines(f, SubSeq(w, 1, k))
    BY <1>2
  <2>2. es \in Seq(T) /\ <<Header>> \in Seq(T) /\ Len(<<Header>>) = 1 /\ Header \in T
    <3>1. es \in Seq({es[i] : i \in 1..Len(es)})
      BY GoodIsSeq
    <3>. QED
      BY <3>1
  <2>. HIDE DEF T
  <2>3. w \in Seq(T) /\ Len(w) = 1 + Len(es) /\ Len(es) \in Nat
        /\ \A i \in 1..(1 + Len(es)) : w[i] = IF i <= 1 THEN <<Header>>[i] ELSE es[i - 1]
    BY <2>2, ConcatProperties
  <2>. HIDE DEF w
  <2>4. k \in Nat /\ k <= Len(es)
    BY <2>3
  <2>5. CASE k = 0
    <3>1. SubSeq(w, 1, k) = <<>> /\ <<>> \in Seq(T) /\ <<>> \o <<>> = <<>>
      BY <2>5, SubSeqEmpty
    <3>2. f \in WholeFiles(T)
      BY <3>1, FileIsWhole
    <3>3. g = [there |-> TRUE, lines |-> <<>>, end |-> "newline"]
      BY <2>1, <3>1, <3>2, PutLinesIs
    <3>4. g.lines = <<>> /\ FileOk(g, n)
      BY <3>3 DEF FileOk
    <3>. QED
      BY <1>0, <3>4, LoadNone
  <2>6. CASE k # 0
    <3> DEFINE u == SubSeq(es, 1, k - 1)
    <3>1. k - 1 \in 0..Len(es) /\ k - 1 \in Nat
      BY <2>4, <2>6
    <3>2. /\ Good(u, n) /\ (WellFormed(es) => WellFormed(u))
          /\ \E l \in 0..Len(es) : u = SubSeq(es, 1, l)
      BY <3>1, PrefixGood
    <3>3. SubSeq(w, 1, k) = <<Header>> \o u
      <4>1. 1 \in 1..Len(w) /\ k \in 1..Len(w) /\ w[1] = Header
        BY <2>2, <2>3, <2>4, <2>6
      <4>2. SubSeq(w, 1, k) = <<w[1]>> \o SubSeq(w, 1 + 1, k)
        BY <2>3, <4>1, SubSeqRecursiveFirst
      <4>3. SubSeq(w, 2, k) = u
        <5>1. /\ SubSeq(w, 2, k) \in Seq(T)
              /\ Len(SubSeq(w, 2, k)) = IF 2 <= k THEN k - 2 + 1 ELSE 0
              /\ \A i \in 1..(k - 2 + 1) : SubSeq(w, 2, k)[i] = w[2 + i - 1]
          <6>1. \A i \in 2..k : w[i] \in T
            BY <2>3, <2>4
          <6>. QED
            BY <2>4, <6>1, SubSeqProperties
        <5>2. /\ u \in Seq(T)
              /\ Len(u) = IF 1 <= k - 1 THEN (k - 1) - 1 + 1 ELSE 0
              /\ \A i \in 1..((k - 1) - 1 + 1) : u[i] = es[1 + i - 1]
          <6>1. \A i \in 1..(k - 1) : es[i] \in T
            BY <2>2, <3>1
          <6>. QED
            BY <3>1, <6>1, SubSeqProperties
        <5>. HIDE DEF u
        <5>3. Len(SubSeq(w, 2, k)) = k - 1 /\ Len(u) = k - 1
          BY <2>4, <2>6, <5>1, <5>2
        <5>4. ASSUME NEW i \in 1..(k - 1)
              PROVE  SubSeq(w, 2, k)[i] = u[i]
          <6>1. i \in 1..(k - 2 + 1) /\ i \in 1..((k - 1) - 1 + 1) /\ 2 + i - 1 = i + 1 /\ 1 + i - 1 = i
            BY <3>1
          <6>2. i + 1 \in 1..(1 + Len(es)) /\ ~(i + 1 <= 1) /\ (i + 1) - 1 = i
            BY <2>3, <2>4
          <6>3. w[i + 1] = es[i]
            BY <2>3, <6>2
          <6>. QED
            BY <5>1, <5>2, <6>1, <6>3
        <5>. QED
          BY <5>1, <5>2, <5>3, <5>4, SeqEqual
      <4>. QED
        BY <4>1, <4>2, <4>3
    <3>. HIDE DEF u
    <3>4. g = PutLines(f, <<Header>> \o u)
      BY <2>1, <3>3
    <3>5. FileOk(g, n) /\ Load(g) = u
      BY <3>2, <3>4, PutFresh
    <3>. QED
      BY <3>2, <3>5
  <2>. QED
    BY <2>5, <2>6
<1>. QED
  BY <1>1, <1>2, CutIs

(***************************************************************************)
(* Branches                                                                *)
(***************************************************************************)
EntryOf(E, x) == E[CHOOSE j \in DOMAIN E : E[j].id = x]

\* The entry with an id is in the list and has the id.
LEMMA EntryOfIs ==
    ASSUME NEW E, NEW n, Good(E, n), NEW x \in IdsOf(E)
    PROVE  /\ \E j \in 1..Len(E) : EntryOf(E, x) = E[j]
           /\ EntryOf(E, x).id = x /\ Made(EntryOf(E, x), n)
<1>1. DOMAIN E = 1..Len(E)
  BY GoodIsSeq
<1>2. \E j \in DOMAIN E : E[j].id = x
  BY DEF IdsOf
<1> DEFINE j == CHOOSE k \in DOMAIN E : E[k].id = x
<1>3. j \in DOMAIN E /\ E[j].id = x
  BY <1>2
<1>4. EntryOf(E, x) = E[j]
  BY DEF EntryOf
<1>. HIDE DEF j
<1>. QED
  BY <1>1, <1>3, <1>4 DEF Good

\* An item of a list is the entry with its id.
LEMMA EntryOfItem ==
    ASSUME NEW E, NEW n, Good(E, n), NEW j \in 1..Len(E)
    PROVE  E[j].id \in IdsOf(E) /\ EntryOf(E, E[j].id) = E[j]
<1>1. DOMAIN E = 1..Len(E) /\ Len(E) \in Nat
  BY GoodIsSeq
<1> DEFINE k == CHOOSE l \in DOMAIN E : E[l].id = E[j].id
<1>2. k \in 1..Len(E) /\ E[k].id = E[j].id
  BY <1>1
<1>3. EntryOf(E, E[j].id) = E[k]
  BY DEF EntryOf
<1>. HIDE DEF k
<1>4. k = j
  <2>1. ~(k < j) /\ ~(j < k)
    <3>1. Made(E[k], n) /\ Made(E[j], n)
      BY <1>2 DEF Good
    <3>2. E[k].id \in Nat /\ E[j].id \in Nat
      BY <3>1 DEF Made
    <3>3. k < j => E[k].id < E[j].id
      BY <1>2 DEF Good
    <3>4. j < k => E[j].id < E[k].id
      BY <1>2 DEF Good
    <3>. QED
      BY <1>2, <3>2, <3>3, <3>4
  <2>. QED
    BY <1>1, <1>2, <2>1
<1>5. E[j].id \in IdsOf(E)
  BY <1>1 DEF IdsOf
<1>. QED
  BY <1>3, <1>4, <1>5

\* A recursion from parents to children, and a solution of it.
TreeRecursion(n, I, parent, V, v, step) ==
    /\ n \in Nat /\ I \in SUBSET (0..(n - 1))
    /\ parent \in [I -> Nat] /\ \A i \in I : parent[i] < i
    /\ v \in V /\ step \in [I \X V -> V]
TreeSolution(n, I, parent, V, v, step, f) ==
    /\ f \in [I -> V]
    /\ \A i \in I : f[i] = step[<<i, IF parent[i] \in I THEN f[parent[i]] ELSE v>>]

\* Every recursion from parents to children has a solution, as ids grow
\* from parents to children.
LEMMA TreeFoldExists ==
    ASSUME NEW n, NEW I, NEW parent, NEW V, NEW v, NEW step,
           TreeRecursion(n, I, parent, V, v, step)
    PROVE  \E f : TreeSolution(n, I, parent, V, v, step, f)
<1>. USE DEF TreeRecursion, TreeSolution
<1> DEFINE Upto(m) == {i \in I : i < m}
           Solves(f, m) ==
             /\ f \in [Upto(m) -> V]
             /\ \A i \in Upto(m) : f[i] = step[<<i, IF parent[i] \in I THEN f[parent[i]] ELSE v>>]
           Bad == {m \in Nat : ~ \E f : Solves(f, m)}
<1>1. Bad = {}
  <2>. SUFFICES ASSUME Bad # {}
                PROVE  FALSE
    OBVIOUS
  <2>1. Bad \in SUBSET Nat
    OBVIOUS
  <2>2. PICK b \in Bad : \A m \in Bad : b <= m
    <3>. HIDE DEF Bad
    <3>. QED
      BY <2>1, Least
  <2>3. b \in Nat /\ ~ \E f : Solves(f, b)
    BY <2>2
  <2>4. b # 0
    <3>1. Upto(0) = {}
      <4>1. \A i \in I : ~(i < 0)
        OBVIOUS
      <4>. QED
        BY <4>1
    <3> DEFINE e == [i \in {} |-> v]
    <3>2. e \in [{} -> V]
      OBVIOUS
    <3>3. Solves(e, 0)
      <4>. HIDE DEF Upto, e
      <4>. QED
        BY <3>1, <3>2
    <3>. HIDE DEF Solves, e
    <3>. QED
      BY <2>3, <3>3
  <2>5. b - 1 \in Nat /\ b - 1 < b
    BY <2>3, <2>4
  <2>6. PICK f : Solves(f, b - 1)
    <3>1. b - 1 \notin Bad
      <4>. HIDE DEF Bad
      <4>. QED
        BY <2>2, <2>3, <2>5
    <3>. HIDE DEF Solves
    <3>. QED
      BY <2>5, <3>1
  <2>7. \A i \in Upto(b) : i \in Upto(b - 1) \/ i = b - 1
    BY <2>3
  <2>8. \A i \in Upto(b - 1) : i \in Upto(b) /\ i # b - 1
    BY <2>3
  <2>9. \A i \in Upto(b) : parent[i] \in I => parent[i] \in Upto(b - 1)
    BY <2>3
  <2>10. \A i \in Upto(b) : i \in I
    OBVIOUS
  <2> DEFINE x == step[<<b - 1, IF parent[b - 1] \in I THEN f[parent[b - 1]] ELSE v>>]
             g == [i \in Upto(b) |-> IF i = b - 1 THEN x ELSE f[i]]
  <2>11. f \in [Upto(b - 1) -> V]
    BY <2>6
  <2>. HIDE DEF Upto
  <2>12. b - 1 \in Upto(b) => x \in V
    <3>. SUFFICES ASSUME b - 1 \in Upto(b)
                  PROVE  x \in V
      OBVIOUS
    <3> DEFINE y == IF parent[b - 1] \in I THEN f[parent[b - 1]] ELSE v
    <3>1. y \in V
      BY <2>9, <2>11
    <3>. HIDE DEF y
    <3>2. step[<<b - 1, y>>] \in V
      BY <2>10, <3>1
    <3>. QED
      BY <3>2 DEF y
  <2>13. g \in [Upto(b) -> V]
    <3>. HIDE DEF x
    <3>1. \A i \in Upto(b) : (IF i = b - 1 THEN x ELSE f[i]) \in V
      BY <2>7, <2>11, <2>12
    <3>. QED
      BY <3>1
  <2>14. \A i \in Upto(b - 1) : g[i] = f[i]
    <3>. HIDE DEF x
    <3>. QED
      BY <2>8
  <2>15. b - 1 \in Upto(b) => g[b - 1] = x
    <3>. HIDE DEF x
    <3>. QED
      OBVIOUS
  <2>16. ASSUME NEW i \in Upto(b)
         PROVE  g[i] = step[<<i, IF parent[i] \in I THEN g[parent[i]] ELSE v>>]
    <3>. HIDE DEF g
    <3>1. parent[i] \in I => g[parent[i]] = f[parent[i]]
      BY <2>9, <2>14
    <3>2. CASE i = b - 1
      BY <2>15, <3>1, <3>2
    <3>3. CASE i # b - 1
      <4>1. i \in Upto(b - 1)
        BY <2>7, <3>3
      <4>2. f[i] = step[<<i, IF parent[i] \in I THEN f[parent[i]] ELSE v>>]
        BY <2>6, <4>1
      <4>. QED
        BY <2>14, <3>1, <4>1, <4>2
    <3>. QED
      BY <3>2, <3>3
  <2>. HIDE DEF g
  <2>17. Solves(g, b)
    BY <2>13, <2>16
  <2>. HIDE DEF Solves
  <2>. QED
    BY <2>3, <2>17
<1>2. \A m \in Nat : \E f : Solves(f, m)
  <2>. HIDE DEF Solves
  <2>. QED
    BY <1>1
<1>3. PICK f : Solves(f, n)
  <2>. HIDE DEF Solves
  <2>. QED
    BY <1>2
<1>4. Upto(n) = I
  <2>1. \A i \in I : i < n
    OBVIOUS
  <2>. QED
    BY <2>1
<1>5. TreeSolution(n, I, parent, V, v, step, f)
  BY <1>3, <1>4
<1>. QED
  BY <1>5

ItemsOf(E) == {E[j] : j \in 1..Len(E)}

\* How Branch climbs from an entry.
Climbs(E, f) ==
    f = [i \in IdsOf(E) |->
           LET e == E[CHOOSE j \in DOMAIN E : E[j].id = i]
           IN Append(IF e.parent \in IdsOf(E) THEN f[e.parent] ELSE <<>>, e)]

\* The walk of Branch along the parents ends.
LEMMA ClimbsExists ==
    ASSUME NEW E, NEW n \in Nat, Good(E, n)
    PROVE  \E f : Climbs(E, f) /\ f \in [IdsOf(E) -> Seq(ItemsOf(E))]
<1> DEFINE I == IdsOf(E)
           V == Seq(ItemsOf(E))
           parent == [i \in I |-> EntryOf(E, i).parent]
           step == [x \in I \X V |-> Append(x[2], EntryOf(E, x[1]))]
<1>1. \A i \in I : i \in 1..(n - 1) /\ EntryOf(E, i) \in ItemsOf(E) /\ EntryOf(E, i).parent \in 0..(i - 1)
  <2>. SUFFICES ASSUME NEW i \in I
                PROVE  i \in 1..(n - 1) /\ EntryOf(E, i) \in ItemsOf(E) /\ EntryOf(E, i).parent \in 0..(i - 1)
    OBVIOUS
  <2>1. /\ \E j \in 1..Len(E) : EntryOf(E, i) = E[j]
        /\ EntryOf(E, i).id = i /\ Made(EntryOf(E, i), n)
    BY EntryOfIs
  <2>. QED
    BY <2>1 DEF ItemsOf, Made
<1>. HIDE DEF I
<1>2. I \in SUBSET (0..(n - 1)) /\ parent \in [I -> Nat] /\ \A i \in I : parent[i] < i
  BY <1>1
<1>3. step \in [I \X V -> V]
  <2>1. ASSUME NEW x \in I \X V
        PROVE  Append(x[2], EntryOf(E, x[1])) \in V
    <3>1. x[1] \in I /\ x[2] \in V
      OBVIOUS
    <3>2. EntryOf(E, x[1]) \in ItemsOf(E)
      BY <1>1, <3>1
    <3>. QED
      BY <3>1, <3>2
  <2>. HIDE DEF V
  <2>. QED
    BY <2>1
<1>4. <<>> \in V
  OBVIOUS
<1>5. TreeRecursion(n, I, parent, V, <<>>, step)
  <2>. HIDE DEF V, parent, step
  <2>. QED
    BY <1>2, <1>3, <1>4 DEF TreeRecursion
<1>6. PICK f : TreeSolution(n, I, parent, V, <<>>, step, f)
  <2>. HIDE DEF V, parent, step
  <2>. QED
    BY <1>5, TreeFoldExists
<1>7. f \in [I -> V]
  BY <1>6 DEF TreeSolution
<1>8. ASSUME NEW i \in I
      PROVE  f[i] = Append(IF EntryOf(E, i).parent \in I THEN f[EntryOf(E, i).parent] ELSE <<>>, EntryOf(E, i))
  <2> DEFINE q == IF parent[i] \in I THEN f[parent[i]] ELSE <<>>
  <2>1. f[i] = step[<<i, q>>]
    <3>. HIDE DEF parent, step, V
    <3>. QED
      BY <1>6 DEF TreeSolution
  <2>2. q \in V
    <3>. HIDE DEF V, parent
    <3>. QED
      BY <1>4, <1>7
  <2>3. parent[i] = EntryOf(E, i).parent
    OBVIOUS
  <2>4. step[<<i, q>>] = Append(q, EntryOf(E, i))
    <3>. HIDE DEF V, q
    <3>1. <<i, q>> \in I \X V /\ <<i, q>>[1] = i /\ <<i, q>>[2] = q
      BY <2>2, ZenonT(60)
    <3>. QED
      BY <3>1
  <2>. QED
    BY <2>1, <2>3, <2>4, ZenonT(60)
<1>9. Climbs(E, f)
  <2>1. f = [i \in I |-> f[i]]
    BY <1>7
  <2>2. f = [i \in I |-> Append(IF EntryOf(E, i).parent \in I THEN f[EntryOf(E, i).parent] ELSE <<>>, EntryOf(E, i))]
    BY <1>8, <2>1, ZenonT(60)
  <2>. QED
    BY <2>2, ZenonT(60) DEF Climbs, EntryOf, I
<1>. QED
  BY <1>7, <1>9 DEF I

\* A branch is that of the parent, and the entry.
LEMMA BranchStep ==
    ASSUME NEW E, NEW n \in Nat, Good(E, n), NEW x
    PROVE  /\ Branch(E, x) \in Seq(ItemsOf(E))
           /\ x \notin IdsOf(E) => Branch(E, x) = <<>>
           /\ x \in IdsOf(E) =>
                Branch(E, x) = Append(Branch(E, EntryOf(E, x).parent), EntryOf(E, x))
<1>1. PICK f : Climbs(E, f) /\ f \in [IdsOf(E) -> Seq(ItemsOf(E))]
  BY ClimbsExists
<1> DEFINE to[i \in IdsOf(E)] ==
            LET e == E[CHOOSE j \in DOMAIN E : E[j].id = i]
            IN Append(IF e.parent \in IdsOf(E) THEN to[e.parent] ELSE <<>>, e)
<1>2. Branch(E, x) = IF x \in IdsOf(E) THEN to[x] ELSE <<>>
  BY ZenonT(60) DEF Branch
<1>3. \A y : Branch(E, y) = IF y \in IdsOf(E) THEN to[y] ELSE <<>>
  BY ZenonT(60) DEF Branch
<1>4. Climbs(E, to)
  <2>1. f = [i \in IdsOf(E) |->
           LET e == E[CHOOSE j \in DOMAIN E : E[j].id = i]
           IN Append(IF e.parent \in IdsOf(E) THEN f[e.parent] ELSE <<>>, e)]
    BY <1>1, ZenonT(60) DEF Climbs
  <2>2. to = [i \in IdsOf(E) |->
           LET e == E[CHOOSE j \in DOMAIN E : E[j].id = i]
           IN Append(IF e.parent \in IdsOf(E) THEN to[e.parent] ELSE <<>>, e)]
    BY <2>1, ZenonT(60)
  <2>. HIDE DEF to
  <2>. QED
    BY <2>2, ZenonT(60) DEF Climbs
<1>. HIDE DEF to
<1>5. \A i \in IdsOf(E) : to[i] = Append(IF EntryOf(E, i).parent \in IdsOf(E) THEN to[EntryOf(E, i).parent] ELSE <<>>,
                                        EntryOf(E, i))
  BY <1>4, ZenonT(60) DEF Climbs, EntryOf
<1>6. \A i \in IdsOf(E) : f[i] = Append(IF EntryOf(E, i).parent \in IdsOf(E) THEN f[EntryOf(E, i).parent] ELSE <<>>,
                                       EntryOf(E, i))
  BY <1>1, ZenonT(60) DEF Climbs, EntryOf
<1>7. \A i \in IdsOf(E) : to[i] = f[i]
  <2> DEFINE Wrong == {i \in IdsOf(E) : to[i] # f[i]}
  <2>0. \A i \in IdsOf(E) : i \in Nat /\ EntryOf(E, i).parent \in Nat /\ EntryOf(E, i).parent < i
    <3>. SUFFICES ASSUME NEW i \in IdsOf(E)
                  PROVE  i \in Nat /\ EntryOf(E, i).parent \in Nat /\ EntryOf(E, i).parent < i
      OBVIOUS
    <3>1. EntryOf(E, i).id = i /\ Made(EntryOf(E, i), n)
      BY EntryOfIs
    <3>. QED
      BY <3>1 DEF Made
  <2>1. ASSUME Wrong # {}
        PROVE  FALSE
    <3>1. Wrong \in SUBSET Nat
      BY <2>0
    <3>2. PICK b \in Wrong : \A k \in Wrong : b <= k
      <4>. HIDE DEF Wrong
      <4>. QED
        BY <2>1, <3>1, Least
    <3>3. b \in IdsOf(E) /\ to[b] # f[b]
      BY <3>2
    <3> DEFINE p == EntryOf(E, b).parent
    <3>4. p \notin Wrong
      <4>1. p \in Nat /\ b \in Nat /\ p < b
        BY <2>0, <3>3
      <4>. HIDE DEF Wrong, p
      <4>. QED
        BY <3>2, <4>1
    <3>5. p \in IdsOf(E) => to[p] = f[p]
      BY <3>4
    <3>. HIDE DEF Wrong
    <3>. QED
      BY <1>5, <1>6, <3>3, <3>5
  <2>. QED
    BY <2>1
<1>8. Branch(E, x) \in Seq(ItemsOf(E))
  <2>1. <<>> \in Seq(ItemsOf(E))
    OBVIOUS
  <2>. QED
    BY <1>1, <1>2, <1>7, <2>1
<1>9. ASSUME x \in IdsOf(E)
      PROVE  Branch(E, x) = Append(Branch(E, EntryOf(E, x).parent), EntryOf(E, x))
  <2> DEFINE p == EntryOf(E, x).parent
  <2>1. Branch(E, p) = IF p \in IdsOf(E) THEN to[p] ELSE <<>>
    BY <1>3
  <2>2. to[x] = Append(IF p \in IdsOf(E) THEN to[p] ELSE <<>>, EntryOf(E, x))
    BY <1>5, <1>9
  <2>. QED
    BY <1>2, <1>9, <2>1, <2>2
<1>. QED
  BY <1>2, <1>8, <1>9

\* The ids of a branch grow, and the last is that of its leaf.
LEMMA BranchGood ==
    ASSUME NEW E, NEW n \in Nat, Good(E, n)
    PROVE  \A x \in IdsOf(E) : Good(Branch(E, x), x + 1)
<1> DEFINE Wrong == {x \in IdsOf(E) : ~Good(Branch(E, x), x + 1)}
<1>1. \A x \in IdsOf(E) : /\ x \in Nat /\ EntryOf(E, x).id = x
                          /\ EntryOf(E, x).parent \in Nat /\ EntryOf(E, x).parent < x
                          /\ Made(EntryOf(E, x), x + 1)
  <2>. SUFFICES ASSUME NEW i \in IdsOf(E)
                PROVE  /\ i \in Nat /\ EntryOf(E, i).id = i
                       /\ EntryOf(E, i).parent \in Nat /\ EntryOf(E, i).parent < i
                       /\ Made(EntryOf(E, i), i + 1)
    OBVIOUS
  <2>1. EntryOf(E, i).id = i /\ Made(EntryOf(E, i), n)
    BY EntryOfIs
  <2>. QED
    BY <2>1 DEF Made
<1>2. ASSUME Wrong # {}
      PROVE  FALSE
  <2>1. Wrong \in SUBSET Nat
    BY <1>1
  <2>2. PICK b \in Wrong : \A k \in Wrong : b <= k
    <3>. HIDE DEF Wrong
    <3>. QED
      BY <1>2, <2>1, Least
  <2>3. b \in IdsOf(E) /\ ~Good(Branch(E, b), b + 1)
    BY <2>2
  <2> DEFINE e == EntryOf(E, b)
             p == e.parent
  <2>4. b \in Nat /\ p \in Nat /\ p < b /\ e.id = b /\ Made(e, b + 1)
    BY <1>1, <2>3
  <2>. HIDE DEF p, e
  <2>5. p \notin Wrong
    <3>. HIDE DEF Wrong
    <3>. QED
      BY <2>2, <2>4
  <2>6. Good(Branch(E, p), b)
    <3>1. CASE p \in IdsOf(E)
      <4>1. Good(Branch(E, p), p + 1)
        BY <2>5, <3>1
      <4>. QED
        BY <2>4, <4>1, GoodLater
    <3>2. CASE p \notin IdsOf(E)
      <4>1. Branch(E, p) = <<>>
        BY <3>2, BranchStep
      <4>. QED
        BY <4>1, EmptyIsGood
    <3>. QED
      BY <3>1, <3>2
  <2>7. Branch(E, b) = Append(Branch(E, p), e)
    BY <2>3, BranchStep DEF p, e
  <2>8. Good(Append(Branch(E, p), e), b + 1)
    BY <2>4, <2>6, AppendedGood
  <2>. QED
    BY <2>3, <2>7, <2>8
<1>. QED
  BY <1>2

(***************************************************************************)
(* Forks                                                                   *)
(***************************************************************************)
\* Entries that are picked from a list are in order, too.
LEMMA PickedGood ==
    ASSUME NEW s, NEW n, Good(s, n), NEW I
    PROVE  Good(Picked(s, I), n) /\ IdsOf(Picked(s, I)) \subseteq IdsOf(s)
<1> DEFINE p == Picked(s, I)
           T == ItemsOf(s)
<1>1. s \in Seq(T) /\ Len(s) \in Nat /\ DOMAIN s = 1..Len(s)
  BY GoodIsSeq DEF ItemsOf
<1>2. p \in Seq(T) /\ \E g : Picks(s, I, p, g)
  <2>. HIDE DEF T
  <2>. QED
    BY <1>1, PickedIs
<1>. HIDE DEF p, T
<1>3. PICK g : Picks(s, I, p, g)
  BY <1>2
<1>4. \A k \in 1..Len(p) : g[k] \in 1..Len(s) /\ p[k] = s[g[k]]
  BY <1>3 DEF Picks
<1>5. \A k, l \in 1..Len(p) : k < l => g[k] < g[l]
  BY <1>3 DEF Picks
<1>6. IsSeq(p) /\ DOMAIN p = 1..Len(p)
  BY <1>2 DEF IsSeq
<1>7. \A k \in 1..Len(p) : Made(p[k], n)
  BY <1>4 DEF Good
<1>8. \A k, l \in 1..Len(p) : k < l => p[k].id < p[l].id
  BY <1>4, <1>5 DEF Good
<1>9. IdsOf(p) \subseteq IdsOf(s)
  BY <1>1, <1>4, <1>6 DEF IdsOf
<1>. QED
  BY <1>6, <1>7, <1>8, <1>9 DEF Good, p

\* The last id is that of the last entry, or 0.
LEMMA LastIdOf ==
    ASSUME NEW s, NEW n \in Nat, Good(s, n)
    PROVE  /\ s = <<>> => LastId(s) = 0 /\ Len(s) = 0
           /\ s # <<>> => Len(s) \in 1..Len(s) /\ LastId(s) = s[Len(s)].id
           /\ LastId(s) \in IdsOf(s) \union {0}
           /\ LastId(s) \in Nat /\ (n # 0 => LastId(s) < n)
<1>1. s \in Seq(ItemsOf(s)) /\ Len(s) \in Nat /\ DOMAIN s = 1..Len(s)
  BY GoodIsSeq DEF ItemsOf
<1>2. CASE s = <<>>
  BY <1>1, <1>2 DEF LastId
<1>3. CASE s # <<>>
  <2>1. Len(s) \in 1..Len(s) /\ LastId(s) = s[Len(s)].id
    BY <1>1, <1>3 DEF LastId
  <2>2. s[Len(s)].id \in 1..(n - 1)
    BY <2>1 DEF Good, Made
  <2>3. LastId(s) \in IdsOf(s)
    BY <1>1, <2>1 DEF IdsOf
  <2>. QED
    BY <1>3, <2>1, <2>2, <2>3
<1>. QED
  BY <1>2, <1>3

\* An entry with a new parent.
LEMMA NewParent ==
    ASSUME NEW e, Formed(e), NEW x
    PROVE  [e EXCEPT !.parent = x] = Entry(e.id, x, e.kind, e.ref, e.covers)
<1>1. \E a, b, c, d, f : e = [id |-> a, parent |-> b, kind |-> c, ref |-> d, covers |-> f]
  BY DEF Formed, Entry
<1>2. PICK a, b, c, d, f : e = [id |-> a, parent |-> b, kind |-> c, ref |-> d, covers |-> f]
  BY <1>1
<1>3. e.id = a /\ e.kind = c /\ e.ref = d /\ e.covers = f
  BY <1>2
<1>4. [e EXCEPT !.parent = x] = [id |-> a, parent |-> x, kind |-> c, ref |-> d, covers |-> f]
  BY <1>2
<1>. QED
  BY <1>3, <1>4 DEF Entry

\* The fields of an entry.
LEMMA EntryIs ==
    ASSUME NEW a, NEW b, NEW c, NEW d, NEW f
    PROVE  /\ Formed(Entry(a, b, c, d, f))
           /\ Entry(a, b, c, d, f).id = a /\ Entry(a, b, c, d, f).parent = b
           /\ Entry(a, b, c, d, f).kind = c /\ Entry(a, b, c, d, f).ref = d
           /\ Entry(a, b, c, d, f).covers = f
BY DEF Formed, Entry

\* A chain has the entries it was made from, each the child of the one before.
LEMMA RechainedGood ==
    ASSUME NEW s, NEW n \in Nat, Good(s, n)
    PROVE  /\ Good(Rechained(s), n) /\ WellFormed(Rechained(s))
           /\ Len(Rechained(s)) = Len(s) /\ IdsOf(Rechained(s)) = IdsOf(s)
           /\ \A i \in 1..Len(s) : Rechained(s)[i] = Entry(s[i].id, IF i = 1 THEN 0 ELSE s[i - 1].id,
                                                          s[i].kind, s[i].ref, s[i].covers)
<1> DEFINE t == Rechained(s)
           P(i) == IF i = 1 THEN 0 ELSE s[i - 1].id
<1>1. s \in Seq(ItemsOf(s)) /\ Len(s) \in Nat /\ DOMAIN s = 1..Len(s)
  BY GoodIsSeq DEF ItemsOf
<1>2. t = [i \in 1..Len(s) |-> [s[i] EXCEPT !.parent = P(i)]]
  BY <1>1 DEF Rechained
<1>3. \A i \in 1..Len(s) : t[i] = Entry(s[i].id, P(i), s[i].kind, s[i].ref, s[i].covers)
  <2>. SUFFICES ASSUME NEW i \in 1..Len(s)
                PROVE  t[i] = Entry(s[i].id, P(i), s[i].kind, s[i].ref, s[i].covers)
    OBVIOUS
  <2>1. t[i] = [s[i] EXCEPT !.parent = P(i)]
    <3>. HIDE DEF t, P
    <3>. QED
      BY <1>2
  <2>2. Formed(s[i])
    BY DEF Good, Made
  <2>3. [s[i] EXCEPT !.parent = P(i)] = Entry(s[i].id, P(i), s[i].kind, s[i].ref, s[i].covers)
    <3>. HIDE DEF P
    <3>. QED
      BY <2>2, NewParent
  <2>. QED
    BY <2>1, <2>3
<1>4. Len(t) = Len(s) /\ DOMAIN t = 1..Len(s) /\ IsSeq(t)
  <2> DEFINE U == {[s[i] EXCEPT !.parent = P(i)] : i \in 1..Len(s)}
  <2>1. t \in [1..Len(s) -> U]
    <3>1. \A i \in 1..Len(s) : [s[i] EXCEPT !.parent = P(i)] \in U
      OBVIOUS
    <3>. HIDE DEF U, t, P
    <3>. QED
      BY <1>2, <3>1
  <2>. HIDE DEF U, t, P
  <2>2. t \in Seq(U) /\ Len(t) = Len(s) /\ DOMAIN t = 1..Len(s)
    BY <1>1, <2>1
  <2>. QED
    BY <2>2 DEF IsSeq
<1>. HIDE DEF t
<1>5. \A i \in 1..Len(s) : t[i].id = s[i].id /\ t[i].parent = P(i) /\ t[i].kind = s[i].kind /\ Formed(t[i])
  BY <1>3, EntryIs
<1>6. \A i \in 1..Len(s) : i # 1 => i - 1 \in 1..Len(s) /\ i - 1 < i
  BY <1>1
<1>7. ASSUME NEW i \in 1..Len(s)
      PROVE  Made(t[i], n)
  <2>1. s[i].id \in 1..(n - 1) /\ s[i].kind \in Kinds
    BY DEF Good, Made
  <2>2. P(i) \in 0..(s[i].id - 1)
    <3>1. CASE i = 1
      BY <2>1, <3>1
    <3>2. CASE i # 1
      <4>1. s[i - 1].id < s[i].id
        BY <1>6, <3>2 DEF Good
      <4>2. s[i - 1].id \in 1..(n - 1)
        BY <1>6, <3>2 DEF Good, Made
      <4>. QED
        BY <2>1, <3>2, <4>1, <4>2
    <3>. QED
      BY <3>1, <3>2
  <2>. HIDE DEF P
  <2>. QED
    BY <1>5, <2>1, <2>2 DEF Made
<1>8. \A i, j \in 1..Len(s) : i < j => t[i].id < t[j].id
  BY <1>5 DEF Good
<1>9. Good(t, n)
  BY <1>4, <1>7, <1>8 DEF Good
<1>10. WellFormed(t)
  <2>1. ASSUME NEW j \in 1..Len(s), t[j].parent # 0
        PROVE  \E i \in 1..(j - 1) : t[i].id = t[j].parent
    <3>1. j # 1
      BY <1>5, <2>1
    <3>2. t[j].parent = s[j - 1].id /\ j - 1 \in 1..Len(s) /\ j - 1 \in 1..(j - 1)
      BY <1>1, <1>5, <1>6, <3>1
    <3>3. t[j - 1].id = s[j - 1].id
      BY <1>5, <3>2
    <3>. QED
      BY <3>2, <3>3
  <2>. QED
    BY <1>4, <2>1 DEF WellFormed
<1>11. IdsOf(t) = IdsOf(s)
  BY <1>1, <1>4, <1>5 DEF IdsOf
<1>. QED
  BY <1>3, <1>4, <1>9, <1>10, <1>11 DEF t

\* The labels after one more entry are a list.
LEMMA RelabelIsList ==
    ASSUME NEW T, NEW l \in Seq(T), NEW e, e.ref \in T
    PROVE  Relabel(l, e) \in Seq(T)
<1>1. Append(l, e.ref) \in Seq(T)
  OBVIOUS
<1>2. Picked(l, {i \in DOMAIN l : l[i] # e.ref}) \in Seq(T)
  BY PickedIs
<1>. QED
  BY <1>1, <1>2 DEF Relabel

\* How LabelsOf goes through the entries.
LabelSteps(E, f) ==
    f = [n \in 0..Len(E) |-> IF n = 0 THEN <<>> ELSE Relabel(f[n - 1], E[n])]

\* The labels of a list of entries are a list.
LEMMA LabelsIsList ==
    ASSUME NEW E, NEW m, Good(E, m)
    PROVE  /\ IsSeq(LabelsOf(E))
           /\ (\A i \in 1..Len(E) : E[i].kind \notin LabelKinds) => LabelsOf(E) = <<>>
<1> DEFINE N == Len(E)
           T == {E[i].ref : i \in 1..N}
           V == Seq(T)
           step == [x \in (1..N) \X V |-> Relabel(x[2], E[x[1]])]
<1>1. N \in Nat
  BY GoodIsSeq
<1>. HIDE DEF N
<1>2. step \in [(1..N) \X V -> V]
  <2>1. ASSUME NEW x \in (1..N) \X V
        PROVE  Relabel(x[2], E[x[1]]) \in V
    <3>1. x[1] \in 1..N /\ x[2] \in Seq(T) /\ E[x[1]].ref \in T
      OBVIOUS
    <3>. HIDE DEF T
    <3>. QED
      BY <3>1, RelabelIsList
  <2>. HIDE DEF V
  <2>. QED
    BY <2>1
<1>3. <<>> \in V
  OBVIOUS
<1>. HIDE DEF V
<1>4. Recursion(N, V, <<>>, step)
  <2>. HIDE DEF step
  <2>. QED
    BY <1>1, <1>2, <1>3 DEF Recursion
<1>5. PICK f : Solution(N, V, <<>>, step, f)
  <2>. HIDE DEF step
  <2>. QED
    BY <1>4, FoldExists
<1>6. f \in [0..N -> V]
  BY <1>5 DEF Solution
<1>7. ASSUME NEW n \in 0..N
      PROVE  f[n] = IF n = 0 THEN <<>> ELSE Relabel(f[n - 1], E[n])
  <2>1. f[n] = IF n = 0 THEN <<>> ELSE step[<<n, f[n - 1]>>]
    <3>. HIDE DEF step
    <3>. QED
      BY <1>5 DEF Solution
  <2>2. n # 0 => step[<<n, f[n - 1]>>] = Relabel(f[n - 1], E[n])
    <3>1. n # 0 => n \in 1..N /\ f[n - 1] \in V
      BY <1>1, <1>6
    <3>. QED
      BY <3>1
  <2>. HIDE DEF step
  <2>. QED
    BY <2>1, <2>2
<1>. HIDE DEF step
<1>8. LabelSteps(E, f)
  <2>1. f = [n \in 0..N |-> f[n]]
    BY <1>6
  <2>2. f = [n \in 0..N |-> IF n = 0 THEN <<>> ELSE Relabel(f[n - 1], E[n])]
    BY <1>7, <2>1
  <2>. QED
    BY <2>2 DEF LabelSteps, N
<1> DEFINE after[n \in 0..Len(E)] == IF n = 0 THEN <<>> ELSE Relabel(after[n - 1], E[n])
<1>9. LabelsOf(E) = after[Len(E)]
  BY DEF LabelsOf
<1>10. LabelSteps(E, after)
  <2>1. f = [n \in 0..Len(E) |-> IF n = 0 THEN <<>> ELSE Relabel(f[n - 1], E[n])]
    BY <1>8 DEF LabelSteps
  <2>2. after = [n \in 0..Len(E) |-> IF n = 0 THEN <<>> ELSE Relabel(after[n - 1], E[n])]
    BY <2>1
  <2>. HIDE DEF after
  <2>. QED
    BY <2>2 DEF LabelSteps
<1>. HIDE DEF after
<1>11. \A n \in 0..N : after[n] = IF n = 0 THEN <<>> ELSE Relabel(after[n - 1], E[n])
  BY <1>10 DEF LabelSteps, N
<1>12. after[N] \in Seq(T)
  <2> DEFINE Bad == {n \in 0..N : after[n] \notin V}
  <2>1. ASSUME Bad # {}
        PROVE  FALSE
    <3>1. Bad \in SUBSET Nat
      BY <1>1
    <3>2. PICK b \in Bad : \A k \in Bad : b <= k
      <4>. HIDE DEF Bad
      <4>. QED
        BY <2>1, <3>1, Least
    <3>3. b \in 0..N /\ after[b] \notin V /\ b # 0
      BY <1>3, <1>11, <3>2
    <3>4. b - 1 \in 0..N /\ b - 1 < b /\ b \in 1..N
      BY <1>1, <3>3
    <3>5. b - 1 \notin Bad
      <4>. HIDE DEF Bad
      <4>. QED
        BY <3>2, <3>3, <3>4
    <3>6. after[b - 1] \in V
      BY <3>4, <3>5
    <3>7. E[b].ref \in T
      BY <3>4
    <3>8. Relabel(after[b - 1], E[b]) \in V
      <4>. HIDE DEF T
      <4>. QED
        BY <3>6, <3>7, RelabelIsList DEF V
    <3>. QED
      BY <1>11, <3>3, <3>8
  <2>2. N \in 0..N
    BY <1>1
  <2>. QED
    BY <2>1, <2>2 DEF V
<1>. HIDE DEF T
<1>13. ASSUME \A i \in 1..N : E[i].kind \notin LabelKinds
       PROVE  after[N] = <<>>
  <2> DEFINE Bad == {n \in 0..N : after[n] # <<>>}
  <2>1. ASSUME Bad # {}
        PROVE  FALSE
    <3>1. Bad \in SUBSET Nat
      BY <1>1
    <3>2. PICK b \in Bad : \A k \in Bad : b <= k
      <4>. HIDE DEF Bad
      <4>. QED
        BY <2>1, <3>1, Least
    <3>3. b \in 0..N /\ after[b] # <<>> /\ b # 0
      BY <1>11, <3>2
    <3>4. b - 1 \in 0..N /\ b - 1 < b /\ b \in 1..N
      BY <1>1, <3>3
    <3>5. b - 1 \notin Bad
      <4>. HIDE DEF Bad
      <4>. QED
        BY <3>2, <3>3, <3>4
    <3>6. after[b - 1] = <<>> /\ E[b].kind # "label" /\ E[b].kind # "unlabel"
      BY <1>13, <3>4, <3>5 DEF LabelKinds
    <3>7. Relabel(after[b - 1], E[b]) = after[b - 1]
      BY <3>6 DEF Relabel
    <3>. QED
      BY <1>11, <3>3, <3>6, <3>7
  <2>2. N \in 0..N
    BY <1>1
  <2>. QED
    BY <2>1, <2>2
<1>. QED
  BY <1>9, <1>12, <1>13 DEF IsSeq, N

\* s is p and k labels in a chain behind it.
RelabelledFrom(p, next, k, s) ==
    /\ Len(s) = Len(p) + k
    /\ \A i \in 1..Len(p) : s[i] = p[i]
    /\ \A i \in 1..k : /\ s[Len(p) + i].kind = "label" /\ s[Len(p) + i].id = next + i - 1
                       /\ s[Len(p) + i].parent = IF i = 1 THEN LastId(p) ELSE next + i - 2

\* es is a fork made at an entry of E.
IsFork(E, l, at, next, es) ==
    \E k \in Nat : /\ RelabelledFrom(Rechained(OfKinds(Branch(E, at), Kinds \ LabelKinds)), next, k, es)
                   /\ l = <<>> => k = 0

\* Good entries p whose ids are old, with a chain of k new labels behind them.
LEMMA RelabelledGood ==
    ASSUME NEW p, NEW next \in Nat \ {0}, Good(p, next), WellFormed(p), NEW l, IsSeq(l),
           NEW r, r = [i \in DOMAIN l |->
                         Entry(next + i - 1, IF i = 1 THEN LastId(p) ELSE next + i - 2, "label", l[i], {})]
    PROVE  /\ Len(l) \in Nat /\ Good(p \o r, next + Len(l)) /\ WellFormed(p \o r)
           /\ IdsOf(p \o r) = IdsOf(p) \union next..(next + Len(l) - 1)
           /\ RelabelledFrom(p, next, Len(l), p \o r)
<1> DEFINE m == Len(p)
           k == Len(l)
           s == p \o r
           P(i) == IF i = 1 THEN LastId(p) ELSE next + i - 2
           T == ItemsOf(p) \union {r[i] : i \in 1..k}
<1>1. p \in Seq(ItemsOf(p)) /\ m \in Nat /\ DOMAIN p = 1..m
  BY GoodIsSeq DEF ItemsOf
<1>2. k \in Nat /\ DOMAIN l = 1..k
  BY DEF IsSeq
<1>3. r = [i \in 1..k |-> Entry(next + i - 1, P(i), "label", l[i], {})]
  BY <1>2
<1>4. r = [i \in 1..k |-> r[i]]
  BY <1>2
<1>5. \A i \in 1..k : r[i] = Entry(next + i - 1, P(i), "label", l[i], {})
  <2>. HIDE DEF P, k
  <2>. QED
    BY <1>3
<1>6. \A i \in 1..k : /\ Formed(r[i]) /\ r[i].id = next + i - 1 /\ r[i].parent = P(i)
                      /\ r[i].kind = "label"
  <2>. HIDE DEF P, k
  <2>. SUFFICES ASSUME NEW i \in 1..k
                PROVE  /\ Formed(r[i]) /\ r[i].id = next + i - 1 /\ r[i].parent = P(i)
                       /\ r[i].kind = "label"
    OBVIOUS
  <2> DEFINE a == next + i - 1
             b == P(i)
             c == l[i]
  <2>1. r[i] = Entry(a, b, "label", c, {})
    BY <1>5
  <2>. HIDE DEF a, b, c
  <2>2. Formed(r[i]) /\ r[i].id = a /\ r[i].parent = b /\ r[i].kind = "label"
    BY <2>1, EntryIs
  <2>. QED
    BY <2>2 DEF a, b
<1>60. \A i \in 1..k : r[i].id = next + i - 1
  BY <1>6
<1>7. /\ LastId(p) \in Nat /\ LastId(p) < next
      /\ p # <<>> => m \in 1..m /\ LastId(p) = p[m].id
      /\ p = <<>> => LastId(p) = 0
  BY LastIdOf
<1>8. /\ IsSeq(s) /\ Len(s) = m + k /\ DOMAIN s = 1..(m + k)
      /\ \A j \in 1..(m + k) : \/ j \in 1..m /\ s[j] = p[j]
                               \/ j - m \in 1..k /\ j > m /\ s[j] = r[j - m]
  <2>1. p \in Seq(T) /\ r \in Seq(T) /\ Len(r) = k
    <3>1. p \in Seq(T)
      BY <1>1
    <3>2. r \in [1..k -> T]
      <4>1. \A i \in 1..k : r[i] \in T
        OBVIOUS
      <4>. HIDE DEF T
      <4>. QED
        BY <1>4, <4>1
    <3>. HIDE DEF T, k
    <3>. QED
      BY <1>2, <3>1, <3>2
  <2>. HIDE DEF T, k, m
  <2>2. /\ s \in Seq(T) /\ Len(s) = Len(p) + Len(r)
        /\ \A i \in 1..(Len(p) + Len(r)) : s[i] = IF i <= Len(p) THEN p[i] ELSE r[i - Len(p)]
    BY <2>1, ConcatProperties
  <2>3. Len(p) = m
    BY DEF m
  <2>. HIDE DEF s
  <2>4. \A j \in 1..(m + k) : (j <= m => j \in 1..m) /\ (~(j <= m) => j - m \in 1..k /\ j > m)
    BY <1>1, <1>2
  <2>5. DOMAIN s = 1..(m + k) /\ IsSeq(s)
    BY <2>1, <2>2, <2>3 DEF IsSeq
  <2>6. \A j \in 1..(m + k) : s[j] = IF j <= m THEN p[j] ELSE r[j - m]
    BY <2>1, <2>2, <2>3
  <2>7. Len(s) = m + k
    BY <2>1, <2>2, <2>3
  <2>. QED
    BY <2>4, <2>5, <2>6, <2>7
<1>. HIDE DEF s, m, k, T
<1>9. \A i \in 1..m : s[i] = p[i] /\ i \in 1..(m + k)
  BY <1>1, <1>2, <1>8
<1>10. \A i \in 1..m : p[i].id \in 1..(next - 1) /\ Made(p[i], next)
  BY DEF Good, Made, m
<1>11. ASSUME NEW i \in 1..k
       PROVE  Made(r[i], next + k)
  <2>1. "label" \in Kinds
    BY DEF Kinds, LabelKinds
  <2>2. next + i - 1 \in 1..(next + k - 1) /\ P(i) \in 0..(next + i - 1 - 1)
    <3>1. CASE i = 1
      BY <1>2, <1>7, <3>1
    <3>2. CASE i # 1
      BY <1>2, <3>2
    <3>. QED
      BY <3>1, <3>2
  <2> DEFINE b == P(i)
  <2>3. b \in 0..(next + i - 1 - 1)
    BY <2>2
  <2>4. Formed(r[i]) /\ r[i].id = next + i - 1 /\ r[i].parent = b /\ r[i].kind = "label"
    BY <1>6
  <2>5. next + i - 1 \in 1..(next + k - 1)
    BY <2>2
  <2>. HIDE DEF b, P
  <2>6. r[i].id \in 1..((next + k) - 1)
    BY <1>2, <2>4, <2>5
  <2>7. r[i].parent \in 0..(r[i].id - 1)
    BY <2>3, <2>4
  <2>8. r[i].kind \in Kinds
    BY <2>1, <2>4
  <2>. QED
    BY <2>4, <2>6, <2>7, <2>8 DEF Made
<1>12. \A j \in 1..(m + k) : Made(s[j], next + k)
  <2>1. Good(p, next + k)
    BY <1>2, GoodLater
  <2>2. \A i \in 1..m : Made(p[i], next + k)
    BY <2>1 DEF Good, m
  <2>. SUFFICES ASSUME NEW j \in 1..(m + k)
                PROVE  Made(s[j], next + k)
    OBVIOUS
  <2>3. CASE j \in 1..m /\ s[j] = p[j]
    BY <2>2, <2>3
  <2>4. CASE j - m \in 1..k /\ s[j] = r[j - m]
    BY <1>11, <2>4
  <2>. QED
    BY <1>8, <2>3, <2>4
<1>13. ASSUME NEW i \in 1..(m + k), NEW j \in 1..(m + k), i < j
       PROVE  s[i].id < s[j].id
  <2>1. CASE j \in 1..m
    <3>1. i \in 1..m
      BY <1>1, <1>13, <2>1
    <3>. QED
      BY <1>9, <1>13, <2>1, <3>1 DEF Good, m
  <2>2. CASE i \in 1..m /\ j - m \in 1..k /\ s[j] = r[j - m]
    <3>1. s[i].id \in 1..(next - 1)
      BY <1>9, <1>10, <2>2
    <3>2. s[j].id = next + (j - m) - 1
      BY <1>6, <2>2
    <3>. QED
      BY <1>1, <2>2, <3>1, <3>2
  <2>3. CASE i - m \in 1..k /\ s[i] = r[i - m] /\ j - m \in 1..k /\ s[j] = r[j - m]
    <3>2. s[j].id = next + (j - m) - 1 /\ s[i].id = next + (i - m) - 1
      BY <1>6, <2>3
    <3>. QED
      BY <1>1, <1>13, <3>2
  <2>. QED
    BY <1>8, <2>1, <2>2, <2>3
<1>14. Good(s, next + k)
  BY <1>8, <1>12, <1>13 DEF Good
<1>15. WellFormed(s)
  <2>1. ASSUME NEW j \in 1..(m + k), s[j].parent # 0
        PROVE  \E i \in 1..(j - 1) : s[i].id = s[j].parent
    <3>1. CASE j \in 1..m
      <4>1. j \in DOMAIN p /\ p[j].parent # 0 /\ p[j] = s[j]
        BY <1>1, <1>9, <2>1, <3>1
      <4>2. PICK i \in 1..(j - 1) : p[i].id = p[j].parent
        BY <4>1 DEF WellFormed
      <4>3. i \in 1..m
        BY <1>1, <3>1
      <4>. QED
        BY <1>9, <4>1, <4>2, <4>3
    <3>2. CASE j - m \in 1..k /\ s[j] = r[j - m]
      <4>2. s[j].parent = P(j - m)
        <5>. HIDE DEF P
        <5>. QED
          BY <1>6, <3>2
      <4>3. CASE j - m = 1
        <5>1. p # <<>> /\ m \in 1..m /\ s[j].parent = p[m].id /\ m \in 1..(j - 1)
          BY <1>1, <1>7, <2>1, <4>2, <4>3
        <5>2. s[m] = p[m]
          BY <1>9, <5>1
        <5>. QED
          BY <5>1, <5>2
      <4>4. CASE j - m # 1
        <5>1. /\ j - m - 1 \in 1..k /\ (j - 1) - m = j - m - 1
              /\ j - 1 \in 1..(j - 1) /\ j - 1 \in 1..(m + k) /\ j - 1 \notin 1..m
          BY <1>1, <1>2, <3>2, <4>4
        <5>2. s[j - 1] = r[(j - 1) - m]
          BY <1>8, <5>1
        <5>3. s[j - 1].id = next + (j - m - 1) - 1
          BY <1>6, <5>1, <5>2
        <5>4. s[j].parent = next + (j - m) - 2
          BY <4>2, <4>4
        <5>5. s[j - 1].id = s[j].parent
          BY <1>1, <5>3, <5>4
        <5>. QED
          BY <5>1, <5>5
      <4>. QED
        BY <4>3, <4>4
    <3>. QED
      BY <1>8, <3>1, <3>2
  <2>. QED
    BY <1>8, <2>1 DEF WellFormed
<1>16. IdsOf(s) = IdsOf(p) \union next..(next + k - 1)
  <2>1. ASSUME NEW x \in IdsOf(s)
        PROVE  x \in IdsOf(p) \union next..(next + k - 1)
    <3>1. PICK j \in 1..(m + k) : x = s[j].id
      BY <1>8 DEF IdsOf
    <3>2. CASE j \in 1..m
      BY <1>1, <1>9, <3>1, <3>2 DEF IdsOf
    <3>3. CASE j - m \in 1..k /\ s[j] = r[j - m]
      <4>1. x = next + (j - m) - 1
        BY <1>6, <3>1, <3>3
      <4>. QED
        BY <1>1, <1>2, <3>3, <4>1
    <3>. QED
      BY <1>8, <3>2, <3>3
  <2>2. ASSUME NEW x \in IdsOf(p)
        PROVE  x \in IdsOf(s)
    <3>1. PICK j \in 1..m : x = p[j].id
      BY <1>1 DEF IdsOf
    <3>2. j \in DOMAIN s /\ s[j] = p[j]
      BY <1>8, <1>9
    <3>. QED
      BY <3>1, <3>2 DEF IdsOf
  <2>3. ASSUME NEW x \in next..(next + k - 1)
        PROVE  x \in IdsOf(s)
    <3> DEFINE y == x - next + 1
               j == m + y
    <3>1. y \in 1..k /\ j \in 1..(m + k) /\ j \notin 1..m /\ j - m = y /\ next + y - 1 = x
      BY <1>1, <1>2
    <3>. HIDE DEF y, j
    <3>2. s[j] = r[y]
      BY <1>8, <3>1
    <3>3. s[j].id = x
      BY <1>60, <3>1, <3>2
    <3>. QED
      BY <1>8, <3>1, <3>3 DEF IdsOf
  <2>. QED
    BY <2>1, <2>2, <2>3
<1>17. RelabelledFrom(p, next, k, s)
  <2>1. Len(s) = Len(p) + k /\ \A i \in 1..Len(p) : s[i] = p[i]
    BY <1>8, <1>9 DEF m
  <2>2. ASSUME NEW i \in 1..k
        PROVE  /\ s[m + i].kind = "label" /\ s[m + i].id = next + i - 1 /\ s[m + i].parent = P(i)
    <3>1. m + i \in 1..(m + k) /\ m + i \notin 1..m /\ (m + i) - m = i
      BY <1>1, <1>2
    <3>2. s[m + i] = r[i]
      BY <1>8, <3>1
    <3>. HIDE DEF P
    <3>. QED
      BY <1>6, <3>2
  <2>3. \A i \in 1..k : /\ s[Len(p) + i].kind = "label" /\ s[Len(p) + i].id = next + i - 1
                        /\ s[Len(p) + i].parent = IF i = 1 THEN LastId(p) ELSE next + i - 2
    BY <2>2 DEF m
  <2>. QED
    BY <2>1, <2>3 DEF RelabelledFrom
<1>. QED
  BY <1>2, <1>14, <1>15, <1>16, <1>17 DEF s, k

\* What a fork has, whatever the labels.
LEMMA ForkedGood ==
    ASSUME NEW E, NEW next \in Nat \ {0}, Good(E, next), NEW l, IsSeq(l), NEW at \in IdsOf(E),
           NEW es, es = Forked(E, l, at, next),
           NEW after, after = next + Cardinality(IdsOf(es) \ IdsOf(E))
    PROVE  /\ after \in Nat \ {0} /\ next <= after
           /\ Good(es, after) /\ WellFormed(es) /\ IsFork(E, l, at, next, es)
<1> DEFINE p == Rechained(OfKinds(Branch(E, at), Kinds \ LabelKinds))
           t == Picked(l, {i \in DOMAIN l : l[i] \in IdsOf(p)})
           r == [i \in DOMAIN t |-> Entry(next + i - 1, IF i = 1 THEN LastId(p) ELSE next + i - 2,
                                          "label", t[i], {})]
           k == Len(t)
<1>1. es = p \o r
  BY DEF Forked
<1>2. Good(p, next) /\ WellFormed(p) /\ IdsOf(p) \subseteq IdsOf(E)
  <2> DEFINE b == Branch(E, at)
             q == OfKinds(b, Kinds \ LabelKinds)
  <2>1. Good(b, next) /\ IdsOf(b) \subseteq IdsOf(E)
    <3>1. Good(b, at + 1) /\ at \in Nat /\ at < next
      <4>1. EntryOf(E, at).id = at /\ Made(EntryOf(E, at), next)
        BY EntryOfIs
      <4>2. at \in Nat /\ at < next
        BY <4>1 DEF Made
      <4>. QED
        BY <4>2, BranchGood
    <3>2. Good(b, next)
      BY <3>1, GoodLater
    <3>3. b \in Seq(ItemsOf(E))
      BY BranchStep
    <3>4. IdsOf(b) \subseteq IdsOf(E)
      <4>1. \A i \in DOMAIN b : \E j \in 1..Len(E) : b[i] = E[j]
        BY <3>3 DEF ItemsOf
      <4>2. DOMAIN E = 1..Len(E)
        BY GoodIsSeq
      <4>. QED
        BY <4>1, <4>2 DEF IdsOf
    <3>. QED
      BY <3>2, <3>4
  <2>. HIDE DEF b
  <2>2. Good(q, next) /\ IdsOf(q) \subseteq IdsOf(b)
    BY <2>1, PickedGood DEF OfKinds
  <2>. HIDE DEF q
  <2>3. Good(Rechained(q), next) /\ WellFormed(Rechained(q)) /\ IdsOf(Rechained(q)) = IdsOf(q)
    BY <2>2, RechainedGood
  <2>. QED
    BY <2>1, <2>2, <2>3 DEF q, b
<1>. HIDE DEF p
<1>3. IsSeq(t) /\ (l = <<>> => k = 0)
  <2>1. PICK T : l \in Seq(T)
    BY DEF IsSeq
  <2> DEFINE I == {i \in DOMAIN l : l[i] \in IdsOf(p)}
  <2>0. t = Picked(l, I)
    OBVIOUS
  <2>. HIDE DEF I, t
  <2>2. t \in Seq(T) /\ \E g : Picks(l, I, t, g)
    BY <2>0, <2>1, PickedIs
  <2>3. ASSUME l = <<>>
        PROVE  Len(t) = 0
    <3>1. PICK g : g \in [1..Len(t) -> (1..Len(l)) \intersect I]
      BY <2>2 DEF Picks
    <3>2. Len(l) = 0 /\ Len(t) \in Nat
      BY <2>2, <2>3
    <3>3. \A i \in 1..Len(t) : FALSE
      BY <3>1, <3>2
    <3>. QED
      BY <3>2, <3>3
  <2>. QED
    BY <2>2, <2>3 DEF IsSeq
<1>. HIDE DEF t
<1>4. /\ k \in Nat /\ Good(p \o r, next + k) /\ WellFormed(p \o r)
      /\ IdsOf(p \o r) = IdsOf(p) \union next..(next + k - 1)
      /\ RelabelledFrom(p, next, k, p \o r)
  <2>. HIDE DEF r
  <2>1. r = [i \in DOMAIN t |-> Entry(next + i - 1, IF i = 1 THEN LastId(p) ELSE next + i - 2,
                                      "label", t[i], {})]
    BY DEF r
  <2>. QED
    BY <1>2, <1>3, <2>1, RelabelledGood
<1>. HIDE DEF r
<1>5. \A x \in IdsOf(E) : x \in 1..(next - 1)
  <2>1. DOMAIN E = 1..Len(E)
    BY GoodIsSeq
  <2>. QED
    BY <2>1 DEF IdsOf, Good, Made
<1>6. IdsOf(es) \ IdsOf(E) = next..(next + k - 1)
  <2>1. \A x \in next..(next + k - 1) : x \notin IdsOf(E)
    BY <1>4, <1>5
  <2>. QED
    BY <1>1, <1>2, <1>4, <2>1
<1>7. Cardinality(next..(next + k - 1)) = k
  <2>1. next \in Int /\ next + k - 1 \in Int
    BY <1>4
  <2>2. Cardinality(next..(next + k - 1)) = IF next > next + k - 1 THEN 0 ELSE (next + k - 1) - next + 1
    BY <2>1, FS_Interval
  <2>. QED
    BY <1>4, <2>2
<1>8. after = next + k
  BY <1>6, <1>7
<1>9. IsFork(E, l, at, next, es)
  <2>1. RelabelledFrom(p, next, k, es) /\ k \in Nat /\ (l = <<>> => k = 0)
    BY <1>1, <1>3, <1>4
  <2>. HIDE DEF k
  <2>. QED
    BY <2>1 DEF IsFork, p
<1>. QED
  BY <1>1, <1>4, <1>8, <1>9

(***************************************************************************)
(* The file has what was saved                                             *)
(***************************************************************************)
\* No write that is cut short leaves a piece of a line.
Whole == ~scenario.tears

\* What memory and file have: entries whose ids grow and were given out, a header
\* when the entries are in the file, and the same as long as no write failed.
FileInv ==
    /\ Whole
    /\ nextId \in Nat \ {0} /\ failures \in Nat /\ up \in BOOLEAN /\ flushed \in BOOLEAN
    /\ Good(entries, nextId) /\ leaf \in IdsOf(entries) \union {0}
    /\ FileOk(file, nextId)
    /\ saved \subseteq IdsOf(Load(file))
    /\ up /\ flushed => HasHeader(file)
    /\ failures = 0 => MemoryInFile /\ WellFormed(entries) /\ WellFormed(Load(file))

\* A list of no entries.
LEMMA NothingWellFormed == WellFormed(<<>>) /\ ~HasAssistant(<<>>) /\ IdsOf(<<>>) = {}
BY DEF WellFormed, HasAssistant, IdsOf

\* The file that is not there.
LEMMA NoFileOk ==
    ASSUME NEW n
    PROVE  FileOk(NoFile, n) /\ ~NoFile.there /\ NoFile.lines = <<>> /\ Load(NoFile) = <<>> /\ ~HasHeader(NoFile)
<1>1. NoFile.there = FALSE /\ NoFile.lines = <<>> /\ NoFile = [there |-> FALSE, lines |-> <<>>, end |-> "newline"]
  BY DEF NoFile
<1>2. FileOk(NoFile, n)
  BY <1>1 DEF FileOk
<1>. QED
  BY <1>1, <1>2, LoadNone

\* A list stays well formed when a child of one of its entries is appended.
LEMMA AppendedWellFormed ==
    ASSUME NEW s, NEW n \in Nat, Good(s, n), WellFormed(s), NEW e, Made(e, n + 1), e.id = n,
           e.parent = 0 \/ e.parent \in IdsOf(s)
    PROVE  WellFormed(Append(s, e))
<1> DEFINE t == Append(s, e)
<1>1. Len(s) \in Nat /\ DOMAIN s = 1..Len(s)
  BY GoodIsSeq
<1>2. /\ Good(t, n + 1) /\ Len(t) = Len(s) + 1 /\ t[Len(s) + 1] = e
      /\ \A i \in 1..Len(s) : t[i] = s[i]
  BY AppendedGood
<1>. HIDE DEF t
<1>3. DOMAIN t = 1..(Len(s) + 1)
  BY <1>2, GoodIsSeq
<1>4. ASSUME NEW j \in 1..(Len(s) + 1), t[j].parent # 0
      PROVE  \E i \in 1..(j - 1) : t[i].id = t[j].parent
  <2>1. CASE j \in 1..Len(s)
    <3>1. j \in DOMAIN s /\ t[j] = s[j] /\ s[j].parent # 0
      BY <1>1, <1>2, <1>4, <2>1
    <3>2. PICK i \in 1..(j - 1) : s[i].id = s[j].parent
      BY <3>1 DEF WellFormed
    <3>3. i \in 1..Len(s)
      BY <1>1, <2>1
    <3>. QED
      BY <1>2, <3>1, <3>2, <3>3
  <2>2. CASE j = Len(s) + 1
    <3>1. e.parent \in IdsOf(s)
      BY <1>2, <1>4, <2>2
    <3>2. PICK i \in 1..Len(s) : s[i].id = e.parent
      BY <1>1, <3>1 DEF IdsOf
    <3>3. i \in 1..(j - 1)
      BY <1>1, <2>2
    <3>. QED
      BY <1>2, <2>2, <3>2, <3>3
  <2>. QED
    BY <1>1, <2>1, <2>2
<1>. QED
  BY <1>3, <1>4 DEF WellFormed, t

\* The invariant holds initially.
LEMMA FileInit == Init /\ Whole => FileInv
<1>. SUFFICES ASSUME Init, Whole
              PROVE  FileInv
  OBVIOUS
<1>1. Good(entries, nextId)
  BY EmptyIsGood DEF Init
<1>2. FileOk(file, nextId) /\ ~file.there /\ Load(file) = <<>>
  BY NoFileOk DEF Init
<1>3. /\ entries = <<>> /\ leaf = 0 /\ flushed = FALSE /\ saved = {} /\ nextId = 1
      /\ failures = 0 /\ up = TRUE
  BY DEF Init
<1>4. MemoryInFile
  BY <1>2, <1>3, NothingWellFormed DEF MemoryInFile
<1>5. WellFormed(entries) /\ WellFormed(Load(file))
  BY <1>2, <1>3, NothingWellFormed
<1>6. nextId \in Nat \ {0} /\ failures \in Nat /\ leaf \in IdsOf(entries) \union {0}
  BY <1>3
<1>7. saved \subseteq IdsOf(Load(file))
  BY <1>3
<1>8. up \in BOOLEAN /\ flushed \in BOOLEAN /\ ~flushed
  BY <1>3
<1>. QED
  BY <1>1, <1>2, <1>4, <1>5, <1>6, <1>7, <1>8 DEF FileInv

\* The invariant survives when memory is gone and the file is as it should be.
LEMMA ForgottenInv ==
    ASSUME FileInv, scenario' = scenario, Forget, up' = FALSE,
           nextId' \in Nat \ {0}, failures' \in Nat,
           FileOk(file', nextId'), saved' \subseteq IdsOf(Load(file')),
           failures' = 0 => WellFormed(Load(file'))
    PROVE  FileInv'
<1>1. entries' = <<>> /\ leaf' = 0 /\ flushed' = FALSE
  BY DEF Forget
<1>2. Good(entries', nextId')
  BY <1>1, EmptyIsGood
<1>. QED
  BY <1>1, <1>2, NothingWellFormed DEF FileInv, MemoryInFile, Whole

\* It survives a new session,
LEMMA NewSessionInv == ASSUME FileInv, scenario' = scenario, NewSession PROVE FileInv'
<1>1. entries' = <<>> /\ leaf' = 0 /\ flushed' = FALSE /\ file' = NoFile /\ saved' = {} /\ nextId' = 1
      /\ up' = up /\ failures' = failures
  BY DEF NewSession, Forget
<1>2. Good(entries', nextId')
  BY <1>1, EmptyIsGood
<1>3. FileOk(file', nextId') /\ ~file'.there /\ Load(file') = <<>>
  BY <1>1, NoFileOk
<1>4. MemoryInFile'
  BY <1>1, <1>3, NothingWellFormed DEF MemoryInFile
<1>5. WellFormed(entries') /\ WellFormed(Load(file'))
  BY <1>1, <1>3, NothingWellFormed
<1>6. /\ nextId' \in Nat \ {0} /\ failures' \in Nat /\ leaf' \in IdsOf(entries') \union {0}
      /\ Whole'
  BY <1>1 DEF FileInv, Whole
<1>7. saved' \subseteq IdsOf(Load(file'))
  BY <1>1
<1>8. up' \in BOOLEAN /\ flushed' \in BOOLEAN /\ ~flushed'
  BY <1>1 DEF FileInv
<1>. QED
  BY <1>1, <1>2, <1>3, <1>4, <1>5, <1>6, <1>7, <1>8 DEF FileInv

\* a process that dies,
LEMMA CrashInv == ASSUME FileInv, scenario' = scenario, Crash PROVE FileInv'
BY ForgottenInv DEF Crash, Die, FileInv

\* a move of the leaf,
LEMMA MoveLeafInv == ASSUME FileInv, scenario' = scenario, NEW to, MoveLeaf(to) PROVE FileInv'
BY DEF MoveLeaf, FileInv, MemoryInFile, Whole

\* A file with nothing but a header.
LEMMA Afresh ==
    ASSUME NEW n \in Nat
    PROVE  /\ FileOk(PutLines(NoFile, <<Header>>), n) /\ HasHeader(PutLines(NoFile, <<Header>>))
           /\ Load(PutLines(NoFile, <<Header>>)) = <<>>
<1>1. Good(<<>>, n)
  BY EmptyIsGood
<1>2. FileOk(NoFile, n) /\ NoFile.lines = <<>>
  BY NoFileOk
<1>3. <<Header>> \o <<>> = <<Header>>
  OBVIOUS
<1>4. /\ FileOk(PutLines(NoFile, <<Header>> \o <<>>), n) /\ HasHeader(PutLines(NoFile, <<Header>> \o <<>>))
      /\ Load(PutLines(NoFile, <<Header>> \o <<>>)) = <<>>
  BY <1>1, <1>2, PutFresh
<1>. QED
  BY <1>3, <1>4

\* the opening of a file,
LEMMA OpenInv == ASSUME FileInv, scenario' = scenario, Open PROVE FileInv'
<1> DEFINE b == Load(file)
<1>1. /\ up' = TRUE /\ entries' = b /\ leaf' = LastId(b) /\ flushed' = file.there
      /\ saved' = saved /\ nextId' = nextId /\ failures' = failures
  BY DEF Open
<1>2. /\ Good(b, nextId)
      /\ HasHeader(file) => file.there
      /\ ~HasHeader(file) => file.lines = <<>> /\ b = <<>>
  BY FileLoads DEF FileInv
<1>3. leaf' \in IdsOf(entries') \union {0}
  BY <1>1, <1>2, LastIdOf DEF FileInv
<1>4. file.there \in BOOLEAN /\ nextId \in Nat
  BY DEF FileInv, FileOk
<1>5. CASE file.there /\ ~HasHeader(file)
  <2>1. file' = PutLines(NoFile, <<Header>>)
    BY <1>5 DEF Open
  <2>2. FileOk(file', nextId) /\ HasHeader(file') /\ Load(file') = <<>>
    BY <1>4, <2>1, Afresh
  <2>3. saved' \subseteq IdsOf(Load(file'))
    BY <1>1, <1>2, <1>5, <2>2 DEF FileInv
  <2>. QED
    BY <1>1, <1>2, <1>3, <1>4, <1>5, <2>2, <2>3, NothingWellFormed DEF FileInv, MemoryInFile, Whole
<1>6. CASE ~(file.there /\ ~HasHeader(file))
  <2>1. file' = file
    BY <1>6 DEF Open
  <2>2. file.there <=> HasHeader(file)
    BY <1>2, <1>6
  <2>3. ~file.there => b = <<>>
    BY <1>2, <2>2
  <2>. QED
    BY <1>1, <1>2, <1>3, <1>4, <2>1, <2>2, <2>3, NothingWellFormed DEF FileInv, MemoryInFile, Whole
<1>. QED
  BY <1>5, <1>6

\* a copy of the session,
LEMMA ForkFromInv == ASSUME FileInv, scenario' = scenario, ForkFrom PROVE FileInv'
<1> DEFINE b == Load(file)
<1>1. /\ up' = TRUE /\ entries' = b /\ leaf' = LastId(b) /\ flushed' = TRUE
      /\ saved' = saved /\ nextId' = nextId /\ failures' = failures
      /\ file' = PutLines(NoFile, <<Header>> \o b)
  BY DEF ForkFrom
<1>2. Good(b, nextId) /\ nextId \in Nat
  BY FileLoads DEF FileInv
<1>3. leaf' \in IdsOf(entries') \union {0}
  BY <1>1, <1>2, LastIdOf
<1>4. FileOk(NoFile, nextId) /\ NoFile.lines = <<>>
  BY NoFileOk
<1>5. FileOk(file', nextId) /\ HasHeader(file') /\ Load(file') = b
  BY <1>1, <1>2, <1>4, PutFresh
<1>. QED
  BY <1>1, <1>2, <1>3, <1>5 DEF FileInv, MemoryInFile, Whole

\* a fork of a file without a header,
LEMMA ForkUnreadableInv == ASSUME FileInv, scenario' = scenario, ForkUnreadable PROVE FileInv'
<1>1. /\ up' = up /\ entries' = entries /\ leaf' = leaf /\ flushed' = flushed
      /\ saved' = saved /\ nextId' = nextId /\ failures' = failures
      /\ file' = PutLines(NoFile, <<Header>>) /\ file.there /\ ~HasHeader(file) /\ up
  BY DEF ForkUnreadable, memory
<1>2. nextId \in Nat
  BY DEF FileInv
<1>3. FileOk(file', nextId) /\ HasHeader(file') /\ Load(file') = <<>>
  BY <1>1, <1>2, Afresh
<1>4. Load(file) = <<>>
  BY <1>1, FileLoads DEF FileInv
<1>5. failures # 0
  BY <1>1 DEF FileInv, MemoryInFile
<1>6. saved' \subseteq IdsOf(Load(file'))
  BY <1>1, <1>3, <1>4 DEF FileInv
<1>. QED
  BY <1>1, <1>3, <1>5, <1>6 DEF FileInv, MemoryInFile, Whole

\* a fork: its file has the entries of its memory, or is not written yet.
LEMMA ForkInv == ASSUME FileInv, scenario' = scenario, NEW at, Fork(at) PROVE FileInv'
<1> DEFINE old == Load(file)
           es == Forked(old, LabelsOf(old), at, nextId)
<1>1. /\ up /\ at \in IdsOf(old) /\ up' = up /\ failures' = failures
      /\ nextId' = nextId + Cardinality(IdsOf(es) \ IdsOf(old))
      /\ entries' = es /\ leaf' = LastId(es) /\ flushed' = HasAssistant(es)
      /\ file' = (IF HasAssistant(es) THEN PutLines(NoFile, <<Header>> \o es) ELSE NoFile)
      /\ saved' = (IF HasAssistant(es) THEN IdsOf(es) ELSE {})
  BY DEF Fork
<1>2. Good(old, nextId) /\ nextId \in Nat \ {0}
  BY FileLoads DEF FileInv
<1>3. IsSeq(LabelsOf(old))
  BY <1>2, LabelsIsList
<1>4. nextId' \in Nat \ {0} /\ Good(es, nextId') /\ WellFormed(es)
  <2>. HIDE DEF old
  <2> DEFINE after == nextId + Cardinality(IdsOf(es) \ IdsOf(old))
  <2>1. after \in Nat \ {0} /\ Good(es, after) /\ WellFormed(es)
    <3> DEFINE l == LabelsOf(old)
               fs == Forked(old, l, at, nextId)
               af == nextId + Cardinality(IdsOf(fs) \ IdsOf(old))
    <3>1. IsSeq(l)
      BY <1>3
    <3>. HIDE DEF l
    <3>2. af \in Nat \ {0} /\ Good(fs, af) /\ WellFormed(fs)
      BY <1>1, <1>2, <3>1, ForkedGood
    <3>. QED
      BY <3>2 DEF l
  <2>. QED
    BY <1>1, <2>1
<1>. HIDE DEF es
<1>5. leaf' \in IdsOf(entries') \union {0}
  BY <1>1, <1>4, LastIdOf
<1>6. FileOk(NoFile, nextId') /\ ~NoFile.there /\ NoFile.lines = <<>> /\ Load(NoFile) = <<>>
  BY NoFileOk
<1>7. CASE HasAssistant(es)
  <2>1. FileOk(file', nextId') /\ HasHeader(file') /\ Load(file') = es
    BY <1>1, <1>4, <1>6, <1>7, PutFresh
  <2>2. flushed' = TRUE /\ saved' = IdsOf(es)
    BY <1>1, <1>7 DEF HasAssistant
  <2>. QED
    BY <1>1, <1>4, <1>5, <2>1, <2>2 DEF FileInv, MemoryInFile, Whole
<1>8. CASE ~HasAssistant(es)
  <2>1. file' = NoFile /\ saved' = {}
    BY <1>1, <1>8
  <2>2. flushed' = FALSE
    BY <1>1, <1>8 DEF HasAssistant
  <2>. QED
    BY <1>1, <1>4, <1>5, <1>6, <1>8, <2>1, <2>2, NothingWellFormed DEF FileInv, MemoryInFile, Whole
<1>. QED
  BY <1>7, <1>8

\* e is what the next append adds.
Appends(e) ==
    /\ Made(e, nextId + 1) /\ e.id = nextId
    /\ e.parent = 0 \/ e.parent \in IdsOf(entries)

\* The ids of one entry, and of entries with the header.
LEMMA IdsOfParts ==
    ASSUME NEW e
    PROVE  /\ IdsOf(<<e>>) = {e.id}
           /\ \A s, n : Good(s, n) => IdsOf(<<Header>> \o s) = {0} \union IdsOf(s)
<1>1. IdsOf(<<e>>) = {e.id}
  <2>1. DOMAIN <<e>> = {1} /\ <<e>>[1] = e
    OBVIOUS
  <2>. QED
    BY <2>1 DEF IdsOf
<1>2. ASSUME NEW s, NEW n, Good(s, n)
      PROVE  IdsOf(<<Header>> \o s) = {0} \union IdsOf(s)
  <2> DEFINE T == ItemsOf(s) \union {Header}
             w == <<Header>> \o s
  <2>1. s \in Seq(T) /\ Len(s) \in Nat /\ DOMAIN s = 1..Len(s) /\ <<Header>> \in Seq(T) /\ Len(<<Header>>) = 1
    <3>1. s \in Seq(ItemsOf(s)) /\ Len(s) \in Nat /\ DOMAIN s = 1..Len(s)
      BY <1>2, GoodIsSeq DEF ItemsOf
    <3>. QED
      BY <3>1
  <2>. HIDE DEF T
  <2>2. /\ w \in Seq(T) /\ Len(w) = 1 + Len(s)
        /\ \A i \in 1..(1 + Len(s)) : w[i] = IF i <= 1 THEN <<Header>>[i] ELSE s[i - 1]
    BY <2>1, ConcatProperties
  <2>. HIDE DEF w
  <2>3. DOMAIN w = 1..(1 + Len(s)) /\ w[1] = Header /\ 1 \in 1..(1 + Len(s))
    BY <2>1, <2>2
  <2>4. \A i \in 1..(1 + Len(s)) : i # 1 => i - 1 \in 1..Len(s) /\ w[i] = s[i - 1]
    BY <2>1, <2>2
  <2>5. ASSUME NEW x \in IdsOf(w)
        PROVE  x \in {0} \union IdsOf(s)
    <3>1. PICK i \in 1..(1 + Len(s)) : x = w[i].id
      BY <2>3 DEF IdsOf
    <3>2. CASE i = 1
      BY <2>3, <3>1, <3>2, HeaderIs
    <3>3. CASE i # 1
      BY <2>1, <2>4, <3>1, <3>3 DEF IdsOf
    <3>. QED
      BY <3>2, <3>3
  <2>6. ASSUME NEW x \in IdsOf(s)
        PROVE  x \in IdsOf(w)
    <3>1. PICK i \in 1..Len(s) : x = s[i].id
      BY <2>1 DEF IdsOf
    <3>2. i + 1 \in 1..(1 + Len(s)) /\ i + 1 # 1 /\ (i + 1) - 1 = i
      BY <2>1
    <3>3. w[i + 1] = s[i]
      BY <2>4, <3>2
    <3>. QED
      BY <2>3, <3>1, <3>2, <3>3 DEF IdsOf
  <2>7. 0 \in IdsOf(w)
    BY <2>3, HeaderIs DEF IdsOf
  <2>. QED
    BY <2>5, <2>6, <2>7 DEF w
<1>. QED
  BY <1>1, <1>2

\* Memory after an append.
LEMMA AppendedMemory ==
    ASSUME FileInv, NEW e, Appends(e), NEW es, es = Append(entries, e)
    PROVE  /\ nextId + 1 \in Nat \ {0} /\ Good(es, nextId + 1)
           /\ e.id \in IdsOf(es) /\ es # <<>>
           /\ failures = 0 => WellFormed(es)
<1>1. nextId \in Nat /\ Good(entries, nextId) /\ Made(e, nextId + 1) /\ e.id = nextId
  BY DEF FileInv, Appends
<1>2. /\ Good(Append(entries, e), nextId + 1) /\ Append(entries, e) # <<>>
      /\ IdsOf(Append(entries, e)) = IdsOf(entries) \union {nextId}
  BY <1>1, AppendedGood
<1>3. ASSUME failures = 0
      PROVE  WellFormed(Append(entries, e))
  BY <1>1, <1>3, AppendedWellFormed DEF FileInv, Appends
<1>. QED
  BY <1>1, <1>2, <1>3

\* What the file has after a write that is cut short.
LEMMA CutOk ==
    ASSUME FileInv, up, NEW e, Appends(e), NEW es, es = Append(entries, e),
           ~Blocked(es), ToWrite(es, e) # <<>>, NEW g \in CutShort(file, ToWrite(es, e))
    PROVE  /\ FileOk(g, nextId + 1) /\ saved \subseteq IdsOf(Load(g))
           /\ flushed => HasHeader(g)
           /\ failures = 0 => WellFormed(Load(g))
           /\ Load(g) = Load(file) \/ \E k \in 0..Len(es) : Load(g) = SubSeq(es, 1, k)
<1>1. nextId \in Nat /\ nextId + 1 \in Nat /\ nextId <= nextId + 1 /\ FileOk(file, nextId)
  BY DEF FileInv
<1>2. FileOk(file, nextId + 1)
  BY <1>1, FileLater
<1>3. CASE flushed
  <2>1. ToWrite(es, e) = <<e>> /\ HasHeader(file)
    BY <1>3 DEF ToWrite, FileInv
  <2>2. g \in CutShort(file, <<e>>)
    BY <2>1
  <2>3. g = file
    BY <1>1, <2>1, <2>2, CutAppend DEF FileInv, Whole
  <2>. QED
    BY <1>2, <2>1, <2>3 DEF FileInv
<1>4. CASE ~flushed
  <2>1. ToWrite(es, e) = <<Header>> \o es /\ HasAssistant(es)
    BY <1>4 DEF ToWrite
  <2>2. ~file.there
    BY <1>4, <2>1 DEF Blocked
  <2>3. file.lines = <<>> /\ Load(file) = <<>>
    BY <1>1, <2>2, FileLoads
  <2>4. Good(es, nextId + 1) /\ (failures = 0 => WellFormed(es))
    BY AppendedMemory
  <2>5. g \in CutShort(file, <<Header>> \o es)
    BY <2>1
  <2>6. /\ FileOk(g, nextId + 1) /\ (WellFormed(es) => WellFormed(Load(g)))
        /\ \E k \in 0..Len(es) : Load(g) = SubSeq(es, 1, k)
    <3>1. ~scenario.tears
      BY DEF FileInv, Whole
    <3>2. FileOk(file, nextId + 1) /\ Good(es, nextId + 1) /\ nextId + 1 \in Nat
      BY <1>1, <1>2, <2>4
    <3> DEFINE n == nextId + 1
               f == file
    <3>3. n \in Nat /\ FileOk(f, n) /\ f.lines = <<>> /\ Good(es, n) /\ g \in CutShort(f, <<Header>> \o es)
      BY <2>3, <2>5, <3>2
    <3>. HIDE DEF n, f
    <3>4. /\ FileOk(g, n) /\ (WellFormed(es) => WellFormed(Load(g)))
          /\ \E k \in 0..Len(es) : Load(g) = SubSeq(es, 1, k)
      BY <3>1, <3>3, CutFresh
    <3>. QED
      BY <3>4 DEF n
  <2>7. saved = {}
    BY <2>3, NothingWellFormed DEF FileInv
  <2>. QED
    BY <1>4, <2>4, <2>6, <2>7
<1>. QED
  BY <1>3, <1>4

\* The invariant survives an append that returns,
LEMMA PersistsInv ==
    ASSUME FileInv, scenario' = scenario, up, up' = up, NEW e, Appends(e), nextId' = nextId + 1,
           NEW es, es = Append(entries, e), entries' = es, leaf' = e.id, Persists(es, e)
    PROVE  FileInv'
<1>1. /\ nextId' \in Nat \ {0} /\ Good(es, nextId') /\ e.id \in IdsOf(es)
      /\ failures = 0 => WellFormed(es)
  BY AppendedMemory
<1>2. /\ nextId \in Nat /\ FileOk(file, nextId) /\ Made(e, nextId + 1) /\ e.id = nextId /\ nextId # 0
      /\ nextId <= nextId'
  BY DEF FileInv, Appends
<1>3. /\ failures' = failures /\ ~Blocked(es)
      /\ flushed' = (flushed \/ HasAssistant(es))
      /\ file' = (IF ToWrite(es, e) = <<>> THEN file ELSE PutLines(file, ToWrite(es, e)))
      /\ saved' = saved \union (IdsOf(ToWrite(es, e)) \ {0})
  BY DEF Persists
<1>4. Good(Load(file), nextId)
  BY <1>2, FileLoads
<1>5. Whole' /\ up' \in BOOLEAN /\ failures' \in Nat /\ leaf' \in IdsOf(entries') \union {0}
  BY <1>1, <1>3 DEF FileInv, Whole
<1>6. CASE flushed
  <2>1. ToWrite(es, e) = <<e>> /\ <<e>> # <<>> /\ HasHeader(file)
    BY <1>6 DEF ToWrite, FileInv
  <2>2. file' = PutLines(file, <<e>>) /\ saved' = saved \union {e.id} /\ flushed' = TRUE
    BY <1>2, <1>3, <1>6, <2>1, IdsOfParts
  <2>3. FileOk(file', nextId') /\ HasHeader(file') /\ Load(file') = Append(Load(file), e)
    BY <1>2, <2>1, <2>2, PutAppend
  <2>4. IdsOf(Load(file')) = IdsOf(Load(file)) \union {e.id}
    BY <1>2, <1>4, <2>3, AppendedGood
  <2>5. saved' \subseteq IdsOf(Load(file'))
    BY <2>2, <2>4 DEF FileInv
  <2>6. failures' = 0 => Load(file') = es
    BY <1>3, <1>6, <2>3 DEF FileInv, MemoryInFile
  <2>. QED
    BY <1>1, <1>3, <1>5, <2>2, <2>3, <2>5, <2>6 DEF FileInv, MemoryInFile
<1>7. CASE ~flushed /\ HasAssistant(es)
  <2>1. ToWrite(es, e) = <<Header>> \o es /\ ~file.there
    BY <1>3, <1>7 DEF ToWrite, Blocked
  <2>2. file.lines = <<>> /\ Load(file) = <<>>
    BY <1>2, <2>1, FileLoads
  <2>3. IdsOf(<<Header>> \o es) = {0} \union IdsOf(es)
    BY <1>1, IdsOfParts
  <2>4. <<Header>> \o es # <<>>
    BY <2>3, NothingWellFormed
  <2>5. file' = PutLines(file, <<Header>> \o es) /\ flushed' = TRUE
    BY <1>3, <1>7, <2>1, <2>4
  <2>6. FileOk(file, nextId')
    BY <1>1, <1>2, FileLater
  <2>7. FileOk(file', nextId') /\ HasHeader(file') /\ Load(file') = es
    BY <1>1, <2>2, <2>5, <2>6, PutFresh
  <2>8. saved' \subseteq IdsOf(Load(file'))
    <3>1. saved = {}
      BY <2>2, NothingWellFormed DEF FileInv
    <3>. QED
      BY <1>3, <2>1, <2>3, <2>7, <3>1
  <2>. QED
    BY <1>1, <1>3, <1>5, <2>5, <2>7, <2>8 DEF FileInv, MemoryInFile
<1>8. CASE ~flushed /\ ~HasAssistant(es)
  <2>1. ToWrite(es, e) = <<>>
    BY <1>8 DEF ToWrite
  <2>2. file' = file /\ saved' = saved /\ flushed' = FALSE
    BY <1>3, <1>8, <2>1, NothingWellFormed DEF HasAssistant
  <2>3. FileOk(file, nextId')
    BY <1>1, <1>2, FileLater
  <2>. QED
    BY <1>1, <1>3, <1>5, <1>8, <2>2, <2>3 DEF FileInv, MemoryInFile
<1>. QED
  BY <1>6, <1>7, <1>8

\* one that throws,
LEMMA ThrowsInv ==
    ASSUME FileInv, scenario' = scenario, up, up' = up, NEW e, Appends(e), nextId' = nextId + 1,
           NEW es, es = Append(entries, e), entries' = es, leaf' = e.id, Throws(es, e)
    PROVE  FileInv'
<1>1. /\ nextId' \in Nat \ {0} /\ Good(es, nextId') /\ e.id \in IdsOf(es)
  BY AppendedMemory
<1>2. nextId \in Nat /\ FileOk(file, nextId) /\ nextId <= nextId' /\ failures \in Nat
  BY DEF FileInv
<1>3. flushed' = flushed /\ saved' = saved
  BY DEF Throws
<1>4. CASE Blocked(es) /\ UNCHANGED <<file, failures>>
  <2>1. file' = file /\ failures' = failures /\ ~flushed /\ file.there
    BY <1>4 DEF Blocked
  <2>2. failures # 0
    BY <2>1 DEF FileInv, MemoryInFile
  <2>3. FileOk(file, nextId')
    BY <1>1, <1>2, FileLater
  <2>. QED
    BY <1>1, <1>3, <2>1, <2>2, <2>3 DEF FileInv, Whole
<1>5. CASE ~Blocked(es) /\ ToWrite(es, e) # <<>> /\ failures' = failures + 1 /\ file' \in CutShort(file, ToWrite(es, e))
  <2>1. /\ FileOk(file', nextId + 1) /\ saved \subseteq IdsOf(Load(file'))
        /\ flushed => HasHeader(file')
    BY <1>5, CutOk
  <2>2. failures' \in Nat /\ failures' # 0
    BY <1>2, <1>5
  <2>. QED
    BY <1>1, <1>3, <2>1, <2>2 DEF FileInv, Whole
<1>. QED
  BY <1>4, <1>5 DEF Throws

\* and one that is cut short by the death of the process.
LEMMA AppendEntryInv ==
    ASSUME FileInv, scenario' = scenario, NEW e, Appends(e), AppendEntry(e)
    PROVE  FileInv'
<1> DEFINE es == Append(entries, e)
<1>1. up /\ nextId' = nextId + 1
  BY DEF AppendEntry
<1>2. CASE entries' = es /\ leaf' = e.id /\ up' = up /\ Persists(es, e)
  <2>. HIDE DEF es
  <2>. QED
    BY <1>1, <1>2, PersistsInv DEF es
<1>3. CASE entries' = es /\ leaf' = e.id /\ up' = up /\ Throws(es, e)
  <2>. HIDE DEF es
  <2>. QED
    BY <1>1, <1>3, ThrowsInv DEF es
<1>4. CASE /\ Die /\ ~Blocked(es) /\ ToWrite(es, e) # <<>>
           /\ file' \in CutShort(file, ToWrite(es, e))
           /\ UNCHANGED <<saved, failures>>
  <2>1. /\ FileOk(file', nextId + 1) /\ saved \subseteq IdsOf(Load(file'))
        /\ failures = 0 => WellFormed(Load(file'))
    <3>1. es = Append(entries, e)
      OBVIOUS
    <3>. HIDE DEF es
    <3>. QED
      BY <1>1, <1>4, <3>1, CutOk
  <2>2. Forget /\ up' = FALSE /\ saved' = saved /\ failures' = failures
    BY <1>4 DEF Die
  <2>3. nextId' \in Nat \ {0} /\ failures' \in Nat
    BY <1>1, <2>2 DEF FileInv
  <2>. QED
    BY <1>1, <2>1, <2>2, <2>3, ForgottenInv
<1>. QED
  BY <1>2, <1>3, <1>4 DEF AppendEntry

\* The entries that the methods append.
LEMMA NewEntry ==
    ASSUME FileInv, NEW parent \in IdsOf(entries) \union {0}, NEW kind \in Kinds, NEW ref, NEW covers
    PROVE  Appends(Entry(nextId, parent, kind, ref, covers))
<1> DEFINE e == Entry(nextId, parent, kind, ref, covers)
<1>1. /\ Formed(e) /\ e.id = nextId /\ e.parent = parent /\ e.kind = kind
  BY EntryIs
<1>2. nextId \in Nat \ {0} /\ parent \in 0..(nextId - 1)
  <2>1. DOMAIN entries = 1..Len(entries) /\ Good(entries, nextId)
    BY GoodIsSeq DEF FileInv
  <2>2. \A x \in IdsOf(entries) : x \in 1..(nextId - 1)
    BY <2>1 DEF IdsOf, Good, Made
  <2>. QED
    BY <2>2 DEF FileInv
<1>. HIDE DEF e
<1>3. Made(e, nextId + 1)
  BY <1>1, <1>2 DEF Made
<1>. QED
  BY <1>1, <1>3 DEF Appends, e

\* The invariant survives every step.
LEMMA FileStep == FileInv /\ [Next]_vars => FileInv'
<1>. SUFFICES ASSUME FileInv, [Next]_vars
              PROVE  FileInv'
  OBVIOUS
<1>1. CASE UNCHANGED vars
  BY <1>1 DEF vars, memory, FileInv, MemoryInFile, Whole
<1>2. CASE Next
  <2>0. scenario' = scenario /\ leaf \in IdsOf(entries) \union {0}
    BY <1>2 DEF Next, FileInv
  <2>1. CASE NewSession
    BY <2>0, <2>1, NewSessionInv
  <2>2. CASE Crash
    BY <2>0, <2>2, CrashInv
  <2>3. CASE Open
    BY <2>0, <2>3, OpenInv
  <2>4. CASE ForkFrom
    BY <2>0, <2>4, ForkFromInv
  <2>5. CASE ForkUnreadable
    BY <2>0, <2>5, ForkUnreadableInv
  <2>6. ASSUME NEW kind \in Kinds, AppendPlain(kind)
        PROVE  FileInv'
    <3> DEFINE e == Entry(nextId, leaf, kind, 0, {})
    <3>1. Appends(e) /\ AppendEntry(e)
      BY <2>0, <2>6, NewEntry DEF AppendPlain
    <3>. QED
      BY <2>0, <3>1, AppendEntryInv
  <2>7. ASSUME NEW kind \in LabelKinds, NEW target \in IdsOf(entries), AppendLabelChange(kind, target)
        PROVE  FileInv'
    <3> DEFINE e == Entry(nextId, leaf, kind, target, {})
    <3>1. kind \in Kinds
      BY DEF Kinds
    <3>2. Appends(e) /\ AppendEntry(e)
      BY <2>0, <2>7, <3>1, NewEntry DEF AppendLabelChange
    <3>. QED
      BY <2>0, <3>2, AppendEntryInv
  <2>8. ASSUME NEW over \in 0..Len(Branch(entries, leaf)), AppendCompaction(over)
        PROVE  FileInv'
    <3>1. PICK ref, covers : AppendEntry(Entry(nextId, leaf, "compaction", ref, covers))
      BY <2>8 DEF AppendCompaction
    <3> DEFINE e == Entry(nextId, leaf, "compaction", ref, covers)
    <3>2. "compaction" \in Kinds
      BY DEF Kinds
    <3>3. Appends(e)
      BY <2>0, <3>2, NewEntry
    <3>. QED
      BY <2>0, <3>1, <3>3, AppendEntryInv
  <2>9. ASSUME NEW to \in IdsOf(entries) \union {0}, MoveLeaf(to)
        PROVE  FileInv'
    BY <2>0, <2>9, MoveLeafInv
  <2>10. ASSUME NEW to \in IdsOf(entries) \union {0}, BranchWithSummary(to)
         PROVE  FileInv'
    <3> DEFINE e == Entry(nextId, to, "summary", 0, {})
    <3>1. "summary" \in Kinds
      BY DEF Kinds, ContextKinds
    <3>2. Appends(e) /\ AppendEntry(e)
      BY <2>10, <3>1, NewEntry DEF BranchWithSummary
    <3>. QED
      BY <2>0, <3>2, AppendEntryInv
  <2>11. ASSUME NEW at \in IdsOf(entries), Fork(at)
         PROVE  FileInv'
    BY <2>0, <2>11, ForkInv
  <2>. QED
    BY <1>2, <2>1, <2>2, <2>3, <2>4, <2>5, <2>6, <2>7, <2>8, <2>9, <2>10, <2>11 DEF Next, Step
<1>. QED
  BY <1>1, <1>2

\* What an append wrote and returned is found by whoever opens the file next,
\* after any failed writes, crashes, forks and reopenings, as long as no write
\* that is cut short leaves a piece of a line (_persist, setSessionFile).
THEOREM SavedSurvivesHolds == Spec /\ Whole => []SavedSurvives
<1>1. FileInv => SavedSurvives
  BY DEF FileInv, SavedSurvives
<1>. QED
  BY <1>1, FileInit, FileStep, PTL DEF Spec

\* No line is twice in a file whose ids grow.
LEMMA LinesWrittenOnce == ASSUME FileInv PROVE WrittenOnce
<1>1. CASE file.lines = <<>>
  BY <1>1 DEF WrittenOnce
<1>2. CASE \E b : Good(b, nextId) /\ file.lines = <<Header>> \o b
  <2>1. PICK b : Good(b, nextId) /\ file.lines = <<Header>> \o b
    BY <1>2
  <2> DEFINE T == ItemsOf(b) \union {Header}
             w == file.lines
  <2>2. b \in Seq(T) /\ Len(b) \in Nat /\ <<Header>> \in Seq(T) /\ Len(<<Header>>) = 1
    <3>1. b \in Seq(ItemsOf(b)) /\ Len(b) \in Nat
      BY <2>1, GoodIsSeq DEF ItemsOf
    <3>. QED
      BY <3>1
  <2>. HIDE DEF T
  <2>3. /\ w \in Seq(T) /\ Len(w) = 1 + Len(b)
        /\ \A i \in 1..(1 + Len(b)) : w[i] = IF i <= 1 THEN <<Header>>[i] ELSE b[i - 1]
    BY <2>1, <2>2, ConcatProperties
  <2>. HIDE DEF w
  <2>4. DOMAIN w = 1..(1 + Len(b)) /\ w[1] = Header
    BY <2>2, <2>3
  <2>5. \A i \in 1..(1 + Len(b)) : i # 1 => i - 1 \in 1..Len(b) /\ w[i] = b[i - 1] /\ w[i].id \in Nat \ {0}
    <3>. SUFFICES ASSUME NEW i \in 1..(1 + Len(b)), i # 1
                  PROVE  i - 1 \in 1..Len(b) /\ w[i] = b[i - 1] /\ w[i].id \in Nat \ {0}
      OBVIOUS
    <3>1. i - 1 \in 1..Len(b) /\ w[i] = b[i - 1]
      BY <2>2, <2>3
    <3>2. b[i - 1].id \in 1..(nextId - 1)
      BY <2>1, <3>1 DEF Good, Made
    <3>. QED
      BY <3>1, <3>2
  <2>6. ASSUME NEW i \in 1..(1 + Len(b)), NEW j \in 1..(1 + Len(b)), i < j
        PROVE  w[i].id # w[j].id
    <3>1. j # 1 /\ (i # 1 => i - 1 < j - 1)
      BY <2>2, <2>6
    <3>2. CASE i = 1
      BY <2>4, <2>5, <3>1, <3>2, HeaderIs
    <3>3. CASE i # 1
      <4>1. b[i - 1].id < b[j - 1].id
        BY <2>1, <2>5, <3>1, <3>3 DEF Good
      <4>. QED
        BY <2>5, <3>1, <3>3, <4>1
    <3>. QED
      BY <3>2, <3>3
  <2>7. \A i, j \in DOMAIN w : i # j => w[i].id # w[j].id
    <3>. SUFFICES ASSUME NEW i \in DOMAIN w, NEW j \in DOMAIN w, i # j
                  PROVE  w[i].id # w[j].id
      OBVIOUS
    <3>1. i \in 1..(1 + Len(b)) /\ j \in 1..(1 + Len(b)) /\ (i < j \/ j < i)
      BY <2>2, <2>4
    <3>. QED
      BY <2>6, <3>1
  <2>. QED
    BY <2>7 DEF WrittenOnce, w
<1>. QED
  BY <1>1, <1>2 DEF FileInv, FileOk

\* While no write has failed, the file has the entries of the memory, or nothing
\* before the first answer of the model; no line is ever written twice; and every
\* parent is an earlier entry, whatever is flushed, forked, crashed and reopened.
THEOREM FileIsMemoryHolds == Spec /\ Whole => []FileIsMemory
<1>1. FileInv => FileIsMemory
  <2>. SUFFICES ASSUME FileInv
                PROVE  FileIsMemory
    OBVIOUS
  <2>1. MemoryInFile
    <3>1. CASE failures = 0
      BY <3>1 DEF FileInv
    <3>2. CASE failures # 0
      BY <3>2 DEF MemoryInFile
    <3>. QED
      BY <3>1, <3>2
  <2>2. MemoryWellFormed
    BY DEF FileInv, MemoryWellFormed
  <2>. QED
    BY <2>1, <2>2, LinesWrittenOnce DEF FileIsMemory
<1>. QED
  BY <1>1, FileInit, FileStep, PTL DEF Spec

(***************************************************************************)
(* What a context contains                                                 *)
(***************************************************************************)
\* The greatest number of a set that has 0,
LEMMA MaxIs ==
    ASSUME NEW N \in Nat, NEW S \in SUBSET (0..N), 0 \in S
    PROVE  Max(S) \in S /\ \A x \in S : x <= Max(S)
<1> DEFINE D == {N - x : x \in S}
<1>1. D \in SUBSET Nat /\ D # {}
  BY DEF D
<1>2. PICK d \in D : \A m \in D : d <= m
  <2>. HIDE DEF D
  <2>. QED
    BY <1>1, Least
<1>3. PICK x \in S : d = N - x
  BY <1>2
<1>4. \A y \in S : x >= y
  <2>. SUFFICES ASSUME NEW y \in S
                PROVE  x >= y
    OBVIOUS
  <2>1. N - y \in D
    OBVIOUS
  <2>2. N - x <= N - y
    BY <1>2, <1>3, <2>1
  <2>. QED
    BY <2>2
<1>5. Max(S) \in S /\ \A y \in S : Max(S) >= y
  BY <1>4 DEF Max
<1>. QED
  BY <1>5

\* and the least of one that is not empty.
LEMMA MinIs ==
    ASSUME NEW S \in SUBSET Nat, S # {}
    PROVE  Min(S) \in S /\ \A x \in S : Min(S) <= x
<1>1. \E n \in S : \A m \in S : n =< m
  BY Least
<1>. QED
  BY <1>1 DEF Min

\* The last compaction of a path, if there is one.
LEMMA LastCompactionIs ==
    ASSUME NEW path, NEW n, Good(path, n), NEW c, c = LastCompaction(path)
    PROVE  /\ c \in 0..Len(path)
           /\ c # 0 => c \in 1..Len(path) /\ path[c].kind = "compaction"
           /\ \A i \in 1..Len(path) : path[i].kind = "compaction" => c # 0 /\ i <= c
<1> DEFINE N == Len(path)
           S == {0} \union {i \in DOMAIN path : path[i].kind = "compaction"}
<1>1. N \in Nat /\ DOMAIN path = 1..N
  BY GoodIsSeq
<1>. HIDE DEF N
<1>2. S \in SUBSET (0..N) /\ 0 \in S
  BY <1>1
<1>3. c = Max(S)
  BY DEF LastCompaction
<1>4. \A i \in S : i = 0 \/ (i \in 1..N /\ path[i].kind = "compaction")
  BY <1>1
<1>5. \A i \in 1..N : path[i].kind = "compaction" => i \in S
  BY <1>1
<1>. HIDE DEF S
<1>6. c \in S /\ \A x \in S : x <= c
  BY <1>1, <1>2, <1>3, MaxIs
<1>7. c \in 0..N /\ (c # 0 => c \in 1..N /\ path[c].kind = "compaction")
  BY <1>2, <1>4, <1>6
<1>8. \A i \in 1..N : path[i].kind = "compaction" => c # 0 /\ i <= c
  BY <1>1, <1>5, <1>6, <1>7
<1>. QED
  BY <1>7, <1>8 DEF N

\* An entry is found by its id.
LEMMA IndexOfIs ==
    ASSUME NEW path, NEW n, Good(path, n), NEW f \in 1..Len(path), NEW x, path[f].id = x
    PROVE  IndexOf(path, x) = f
<1> DEFINE N == Len(path)
           S == {0} \union {i \in DOMAIN path : path[i].id = x}
<1>1. N \in Nat /\ DOMAIN path = 1..N
  BY GoodIsSeq
<1>2. f \in 1..N
  OBVIOUS
<1>. HIDE DEF N
<1>3. \A i \in 1..N : path[i].id = x => i = f
  <2>. SUFFICES ASSUME NEW i \in 1..N, path[i].id = x, i # f
                PROVE  FALSE
    OBVIOUS
  <2>1. path[i].id \in Int /\ path[f].id \in Int
    BY <1>2 DEF Good, Made, N
  <2>2. i < f => path[i].id < path[f].id
    BY <1>2 DEF Good, N
  <2>3. f < i => path[f].id < path[i].id
    BY <1>2 DEF Good, N
  <2>. QED
    BY <1>1, <1>2, <2>1, <2>2, <2>3
<1>4. S = {0, f}
  BY <1>1, <1>2, <1>3
<1>5. IndexOf(path, x) = Max(S)
  BY DEF IndexOf
<1>. HIDE DEF S
<1>6. S \in SUBSET (0..N) /\ 0 \in S
  BY <1>1, <1>2, <1>4
<1>7. Max(S) \in S /\ \A y \in S : y <= Max(S)
  BY <1>1, <1>6, MaxIs
<1>. QED
  BY <1>1, <1>2, <1>4, <1>5, <1>7

\* t is the part of a list from a to b.
IsPart(s, a, b, t) ==
    a \in 1..(Len(s) + 1) /\ b \in (a - 1)..Len(s) /\ t = SubSeq(s, a, b)

\* A part of a list is as good as the list.
LEMMA PartGood ==
    ASSUME NEW s, NEW n, Good(s, n), NEW a, NEW b, NEW t, IsPart(s, a, b, t)
    PROVE  /\ Good(t, n) /\ Len(t) = b - a + 1
           /\ \A i \in 1..Len(t) : i + (a - 1) \in a..b /\ t[i] = s[i + (a - 1)]
<1> DEFINE T == {s[i] : i \in 1..Len(s)}
           N == Len(s)
<1>1. N \in Nat /\ DOMAIN s = 1..N
  BY GoodIsSeq
<1>3. a \in 1..(N + 1) /\ b \in (a - 1)..N /\ t = SubSeq(s, a, b)
  BY DEF IsPart
<1>4. a \in Int /\ b \in Int
  BY <1>1, <1>3
<1>2. \A i \in a..b : i \in 1..N /\ s[i] \in T
  BY <1>1, <1>3, <1>4
<1>. HIDE DEF T, N
<1>5. /\ t \in Seq(T) /\ Len(t) = IF a <= b THEN b - a + 1 ELSE 0
      /\ \A i \in 1..(b - a + 1) : t[i] = s[a + i - 1]
  BY <1>2, <1>3, <1>4, SubSeqProperties
<1>6. Len(t) = b - a + 1
  BY <1>1, <1>3, <1>5
<1>7. \A i \in 1..Len(t) : i + (a - 1) \in a..b /\ i + (a - 1) = a + i - 1
  BY <1>1, <1>3, <1>6
<1>8. \A i \in 1..Len(t) : t[i] = s[i + (a - 1)]
  BY <1>5, <1>6, <1>7
<1>9. \A i, j \in 1..Len(t) : i < j => i + (a - 1) < j + (a - 1)
  BY <1>4
<1>10. \A i \in 1..N : Made(s[i], n)
  BY DEF Good, N
<1>11. \A i, j \in 1..N : i < j => s[i].id < s[j].id
  BY DEF Good, N
<1>12. \A i \in 1..Len(t) : Made(t[i], n)
  BY <1>2, <1>7, <1>8, <1>10
<1>13. \A i, j \in 1..Len(t) : i < j => t[i].id < t[j].id
  BY <1>2, <1>7, <1>8, <1>9, <1>11
<1>14. IsSeq(t)
  BY <1>5 DEF IsSeq
<1>. QED
  BY <1>6, <1>7, <1>8, <1>12, <1>13, <1>14 DEF Good

\* The indices of the messages of a list.
Spoken(s) == {i \in 1..Len(s) : s[i].kind \in ContextKinds}

\* The messages of a list are its messages, in order.
LEMMA MessagesIs ==
    ASSUME NEW s, NEW n, Good(s, n)
    PROVE  Good(Messages(s), n) /\ \E g : Picks(s, Spoken(s), Messages(s), g)
<1>1. DOMAIN s = 1..Len(s) /\ s \in Seq({s[i] : i \in 1..Len(s)})
  BY GoodIsSeq
<1>2. Messages(s) = Picked(s, Spoken(s))
  BY <1>1 DEF Messages, OfKinds, Spoken
<1>3. Good(Picked(s, Spoken(s)), n)
  BY PickedGood
<1> DEFINE T == {s[i] : i \in 1..Len(s)}
<1>4. \E g : Picks(s, Spoken(s), Picked(s, Spoken(s)), g)
  <2>1. s \in Seq(T)
    BY <1>1
  <2>. HIDE DEF T
  <2>. QED
    BY <2>1, PickedIs
<1>. QED
  BY <1>2, <1>3, <1>4

\* The messages of a part of a list.
LEMMA PartPicks ==
    ASSUME NEW s, NEW n, Good(s, n), NEW a, NEW b, NEW t, IsPart(s, a, b, t), NEW p, p = Messages(t)
    PROVE  Good(p, n) /\ \E g : Picks(s, {i \in Spoken(s) : i \in a..b}, p, g)
<1> DEFINE I == {i \in Spoken(s) : i \in a..b}
<1>2. Len(s) \in Nat
  BY GoodIsSeq
<1>3. a \in 1..(Len(s) + 1) /\ b \in (a - 1)..Len(s) /\ a \in Int
  BY <1>2 DEF IsPart
<1>1. /\ Good(t, n) /\ Len(t) = b - a + 1
      /\ \A i \in 1..Len(t) : i + (a - 1) \in a..b /\ t[i] = s[i + (a - 1)]
  BY PartGood
<1>4. Good(p, n) /\ \E g : Picks(t, Spoken(t), p, g)
  BY <1>1, MessagesIs
<1>5. PICK g : Picks(t, Spoken(t), p, g)
  BY <1>4
<1>6. /\ g \in [1..Len(p) -> (1..Len(t)) \intersect Spoken(t)]
      /\ \A k \in 1..Len(p) : p[k] = t[g[k]]
      /\ \A k, l \in 1..Len(p) : k < l => g[k] < g[l]
      /\ \A i \in (1..Len(t)) \intersect Spoken(t) : \E k \in 1..Len(p) : g[k] = i
  BY <1>5 DEF Picks
<1> DEFINE h == [k \in 1..Len(p) |-> g[k] + (a - 1)]
<1>7. \A k \in 1..Len(p) : /\ g[k] \in 1..Len(t) /\ g[k] \in Int
                           /\ h[k] = g[k] + (a - 1)
                           /\ h[k] \in a..b /\ p[k] = s[h[k]] /\ p[k] = t[g[k]]
                           /\ t[g[k]].kind \in ContextKinds
  BY <1>1, <1>6 DEF Spoken
<1>8. \A i \in a..b : i \in 1..Len(s) /\ i - (a - 1) \in 1..Len(t) /\ t[i - (a - 1)] = s[i]
  BY <1>1, <1>2, <1>3
<1>9. h \in [1..Len(p) -> (1..Len(s)) \intersect I]
  <2>1. \A k \in 1..Len(p) : h[k] \in (1..Len(s)) \intersect I
    BY <1>7, <1>8 DEF Spoken
  <2>. QED
    BY <2>1
<1>. HIDE DEF h
<1>10. \A k, l \in 1..Len(p) : k < l => h[k] < h[l]
  BY <1>3, <1>6, <1>7
<1>11. ASSUME NEW i \in (1..Len(s)) \intersect I
       PROVE  \E k \in 1..Len(p) : h[k] = i
  <2>1. i \in a..b /\ s[i].kind \in ContextKinds
    BY <1>11 DEF Spoken
  <2>2. i - (a - 1) \in (1..Len(t)) \intersect Spoken(t)
    BY <1>8, <2>1 DEF Spoken
  <2>3. PICK k \in 1..Len(p) : g[k] = i - (a - 1)
    BY <1>6, <2>2
  <2>4. h[k] = i
    BY <1>3, <1>7, <2>1, <2>3
  <2>. QED
    BY <2>4
<1>12. \A k \in 1..Len(p) : p[k] = s[h[k]]
  BY <1>7
<1>. HIDE DEF I
<1>13. Picks(s, I, p, h)
  BY <1>9, <1>10, <1>11, <1>12 DEF Picks
<1>. QED
  BY <1>4, <1>13 DEF I

\* What is picked from two parts of a list, one behind the other.
LEMMA JoinPicks ==
    ASSUME NEW s, NEW I, NEW J, NEW p, NEW q, NEW g, NEW h, IsSeq(p), IsSeq(q),
           Picks(s, I, p, g), Picks(s, J, q, h), \A i \in I, j \in J : i < j
    PROVE  /\ IsSeq(p \o q) /\ Len(p \o q) = Len(p) + Len(q)
           /\ \E e : Picks(s, I \union J, p \o q, e)
<1> DEFINE P == Len(p)
           Q == Len(q)
           r == p \o q
           D == 1..Len(s)
<1>1. /\ P \in Nat /\ Q \in Nat /\ IsSeq(r) /\ Len(r) = P + Q
      /\ \A k \in 1..(P + Q) : r[k] = IF k <= P THEN p[k] ELSE q[k - P]
  <2>1. PICK A : p \in Seq(A)
    BY DEF IsSeq
  <2>2. PICK B : q \in Seq(B)
    BY DEF IsSeq
  <2> DEFINE T == A \union B
  <2>3. p \in Seq(T) /\ q \in Seq(T)
    BY <2>1, <2>2
  <2>. HIDE DEF T
  <2>4. /\ r \in Seq(T) /\ Len(r) = P + Q
        /\ \A k \in 1..(P + Q) : r[k] = IF k <= P THEN p[k] ELSE q[k - P]
    BY <2>3, ConcatProperties
  <2>. QED
    BY <2>3, <2>4 DEF IsSeq
<1>2. /\ g \in [1..P -> D \intersect I]
      /\ \A k \in 1..P : p[k] = s[g[k]]
      /\ \A k, l \in 1..P : k < l => g[k] < g[l]
      /\ \A i \in D \intersect I : \E k \in 1..P : g[k] = i
  BY DEF Picks
<1>3. /\ h \in [1..Q -> D \intersect J]
      /\ \A k \in 1..Q : q[k] = s[h[k]]
      /\ \A k, l \in 1..Q : k < l => h[k] < h[l]
      /\ \A i \in D \intersect J : \E k \in 1..Q : h[k] = i
  BY DEF Picks
<1>. HIDE DEF P, Q, r, D
<1> DEFINE e == [k \in 1..(P + Q) |-> IF k <= P THEN g[k] ELSE h[k - P]]
<1>4. \A k \in 1..(P + Q) : \/ k \in 1..P /\ e[k] = g[k] /\ r[k] = p[k]
                            \/ ~(k \in 1..P) /\ k - P \in 1..Q /\ e[k] = h[k - P] /\ r[k] = q[k - P]
  BY <1>1
<1>5. \A k \in 1..P : k \in 1..(P + Q) /\ e[k] = g[k]
  BY <1>1
<1>6. \A k \in 1..Q : k + P \in 1..(P + Q) /\ e[k + P] = h[k]
  <2>. SUFFICES ASSUME NEW k \in 1..Q
                PROVE  k + P \in 1..(P + Q) /\ e[k + P] = h[k]
    OBVIOUS
  <2>1. k + P \in 1..(P + Q) /\ ~(k + P <= P) /\ (k + P) - P = k
    BY <1>1
  <2>. QED
    BY <2>1
<1>7. e \in [1..(P + Q) -> D \intersect (I \union J)]
  <2>1. e = [k \in 1..(P + Q) |-> e[k]]
    OBVIOUS
  <2>. HIDE DEF e
  <2>2. \A k \in 1..(P + Q) : e[k] \in D \intersect (I \union J)
    BY <1>2, <1>3, <1>4
  <2>. QED
    BY <2>1, <2>2
<1>. HIDE DEF e
<1>8. \A k \in 1..(P + Q) : r[k] = s[e[k]]
  BY <1>2, <1>3, <1>4
<1>9. ASSUME NEW k \in 1..(P + Q), NEW l \in 1..(P + Q), k < l
      PROVE  e[k] < e[l]
  <2>1. CASE k \in 1..P /\ l \in 1..P
    BY <1>2, <1>5, <1>9, <2>1
  <2>2. CASE k \in 1..P /\ ~(l \in 1..P)
    <3>1. e[k] \in I /\ e[l] \in J
      BY <1>2, <1>3, <1>4, <1>5, <2>2
    <3>. QED
      BY <3>1
  <2>3. CASE ~(k \in 1..P) /\ ~(l \in 1..P)
    <3>1. /\ k - P \in 1..Q /\ e[k] = h[k - P] /\ l - P \in 1..Q /\ e[l] = h[l - P]
      BY <1>4, <2>3
    <3>2. k - P < l - P
      BY <1>1, <1>9
    <3>. QED
      BY <1>3, <3>1, <3>2
  <2>4. k \in 1..P \/ ~(l \in 1..P)
    BY <1>1, <1>9
  <2>. QED
    BY <2>1, <2>2, <2>3, <2>4
<1>10. ASSUME NEW i \in D \intersect (I \union J)
       PROVE  \E k \in 1..(P + Q) : e[k] = i
  <2>1. CASE i \in I
    BY <1>2, <1>5, <2>1
  <2>2. CASE i \in J
    BY <1>3, <1>6, <2>2
  <2>. QED
    BY <2>1, <2>2
<1>11. Picks(s, I \union J, r, e)
  BY <1>1, <1>7, <1>8, <1>9, <1>10 DEF Picks, D
<1>. QED
  BY <1>1, <1>11 DEF r, P, Q

\* The item before one that was picked is the last before it that was picked.
LEMMA PickedNext ==
    ASSUME NEW s, NEW I, NEW p, NEW g, IsSeq(p), IsSeq(s), Picks(s, I, p, g), NEW k \in 1..Len(p),
           NEW j \in 1..(g[k] - 1), j \in I, \A i \in (j + 1)..(g[k] - 1) : i \notin I
    PROVE  k - 1 \in 1..Len(p) /\ g[k - 1] = j /\ p[k - 1] = s[j]
<1>1. Len(p) \in Nat /\ Len(s) \in Nat
  BY DEF IsSeq
<1>2. /\ g \in [1..Len(p) -> (1..Len(s)) \intersect I]
      /\ \A l \in 1..Len(p) : p[l] = s[g[l]]
      /\ \A l, m \in 1..Len(p) : l < m => g[l] < g[m]
      /\ \A i \in (1..Len(s)) \intersect I : \E l \in 1..Len(p) : g[l] = i
  BY DEF Picks
<1>3. g[k] \in 1..Len(s) /\ j \in (1..Len(s)) \intersect I /\ j < g[k]
  BY <1>1, <1>2
<1>4. PICK l \in 1..Len(p) : g[l] = j
  BY <1>2, <1>3
<1>5. l < k
  <2>1. k < l => g[k] < g[l]
    BY <1>2
  <2>. QED
    BY <1>1, <1>3, <1>4, <2>1
<1>6. k - 1 \in 1..Len(p) /\ k - 1 < k
  BY <1>1, <1>5
<1>7. l = k - 1
  <2>1. CASE l < k - 1
    <3>1. g[l] < g[k - 1] /\ g[k - 1] < g[k] /\ g[k - 1] \in I /\ g[k - 1] \in 1..Len(s)
      BY <1>2, <1>6, <2>1
    <3>2. g[k - 1] \in (j + 1)..(g[k] - 1)
      BY <1>3, <1>4, <3>1
    <3>. QED
      BY <3>1, <3>2
  <2>. QED
    BY <1>1, <1>5, <1>6, <2>1
<1>. QED
  BY <1>2, <1>4, <1>6, <1>7

\* The result at i of a path has its call or another result before it, with no
\* message between them.
Answered(path, i) ==
    \E j \in 1..(i - 1) : /\ path[j].kind \in {"call", "toolResult"}
                          /\ \A k \in (j + 1)..(i - 1) : path[k].kind \notin ContextKinds

\* The compaction at c of a path keeps its entries from f on: they begin with a
\* message that is no result, and the others are in its summary, unless a
\* summary has been dropped.
Keeps(path, c, f) ==
    /\ path[f].id = path[c].ref
    /\ HandsOn(path, c) => path[c].covers = Said(path, 1, f - 1)
    /\ \E m \in f..(c - 1) : /\ path[m].kind \in ContextKinds
                             /\ \A k \in f..m : path[k].kind # "toolResult"

PathOk(path) ==
    \A i \in 1..Len(path) :
        /\ path[i].kind = "toolResult" => Answered(path, i)
        /\ path[i].kind = "compaction" => \E f \in 1..(i - 1) : Keeps(path, i, f)
PathsOk(E) == \A x \in IdsOf(E) : PathOk(Branch(E, x))

\* The entries that the context of a path has behind its summary.
Behind(path, c, f, P, g) ==
    /\ c \in 1..Len(path) /\ f \in 1..(c - 1) /\ Keeps(path, c, f) /\ IsSeq(P)
    /\ path[c].kind = "compaction"
    /\ Context(path) = <<path[c]>> \o P
    /\ Picks(path, {i \in Spoken(path) : i >= f}, P, g)

\* A context is the messages, or a summary and the messages from what it keeps on.
LEMMA ContextIs ==
    ASSUME NEW path, NEW n, Good(path, n), PathOk(path), NEW c, c = LastCompaction(path)
    PROVE  /\ c = 0 => Context(path) = Messages(path)
           /\ c # 0 => \E f, P, g : Behind(path, c, f, P, g)
<1>1. ASSUME c = 0
      PROVE  Context(path) = Messages(path)
  BY <1>1 DEF Context
<1>2. ASSUME c # 0
      PROVE  \E f, P, g : Behind(path, c, f, P, g)
  <2> DEFINE N == Len(path)
  <2>1. N \in Nat /\ c \in 1..N /\ path[c].kind = "compaction"
    BY <1>2, GoodIsSeq, LastCompactionIs
  <2>2. PICK f \in 1..(c - 1) : Keeps(path, c, f)
    BY <2>1 DEF PathOk
  <2> DEFINE t == SubSeq(path, 1, c - 1)
             u == SubSeq(path, f, c - 1)
             w == SubSeq(path, c + 1, N)
             A == Messages(u)
             B == Messages(w)
             I == {i \in Spoken(path) : i \in f..(c - 1)}
             J == {i \in Spoken(path) : i \in (c + 1)..N}
  <2>3. IsPart(path, 1, c - 1, t) /\ IsPart(path, f, c - 1, u) /\ IsPart(path, c + 1, N, w)
    BY <2>1 DEF IsPart
  <2>. HIDE DEF N
  <2>4. IndexOf(t, path[c].ref) = f
    <3>. HIDE DEF t
    <3>1. /\ Good(t, n) /\ Len(t) = c - 1 - 1 + 1
          /\ \A i \in 1..Len(t) : i + (1 - 1) \in 1..(c - 1) /\ t[i] = path[i + (1 - 1)]
      BY <2>3, PartGood
    <3>2. f \in 1..Len(t) /\ f + (1 - 1) = f
      BY <2>1, <3>1
    <3>3. t[f].id = path[c].ref
      BY <2>2, <3>1, <3>2 DEF Keeps
    <3>. QED
      BY <3>1, <3>2, <3>3, IndexOfIs
  <2>5. Context(path) = (<<path[c]>> \o A) \o B
    <3>1. f # 0
      BY <2>1
    <3>. HIDE DEF t, A, B
    <3>2. Context(path) = <<path[c]>> \o Messages(u) \o Messages(w)
      BY <1>2, <2>4, <3>1 DEF Context, t, N
    <3>. QED
      BY <3>2 DEF A, B
  <2>6. Good(A, n) /\ \E g : Picks(path, I, A, g)
    <3>. HIDE DEF u, I
    <3>1. A = Messages(u)
      OBVIOUS
    <3>. HIDE DEF A
    <3>. QED
      BY <2>3, <3>1, PartPicks DEF I
  <2>7. Good(B, n) /\ \E g : Picks(path, J, B, g)
    <3>. HIDE DEF w, J
    <3>1. B = Messages(w)
      OBVIOUS
    <3>. HIDE DEF B
    <3>. QED
      BY <2>3, <3>1, PartPicks DEF J
  <2>. HIDE DEF t, u, w, A, B
  <2>8. PICK g : Picks(path, I, A, g)
    BY <2>6
  <2>9. PICK h : Picks(path, J, B, h)
    BY <2>7
  <2>10. \A i \in I, j \in J : i < j
    BY <2>1, <2>2
  <2>11. I \union J = {i \in Spoken(path) : i >= f}
    <3>1. \A i \in Spoken(path) : i \in 1..N /\ i # c
      BY <2>1 DEF Spoken, N, ContextKinds, MessageKinds, AssistantKinds
    <3>2. \A i \in Spoken(path) : i >= f => i \in f..(c - 1) \/ i \in (c + 1)..N
      BY <2>1, <2>2, <3>1
    <3>3. \A i \in Spoken(path) : i \in f..(c - 1) \/ i \in (c + 1)..N => i >= f
      BY <2>1, <2>2, <3>1
    <3>. QED
      BY <3>2, <3>3
  <2>. HIDE DEF I, J
  <2>12. IsSeq(A) /\ IsSeq(B)
    BY <2>6, <2>7 DEF Good
  <2>13. IsSeq(A \o B) /\ \E e : Picks(path, I \union J, A \o B, e)
    BY <2>8, <2>9, <2>10, <2>12, JoinPicks
  <2>14. (<<path[c]>> \o A) \o B = <<path[c]>> \o (A \o B)
    <3> DEFINE s == <<path[c]>>
    <3>1. \E T : Lists(T, s, A, B)
      <4>1. PICK T : A \in Seq(T)
        BY <2>12 DEF IsSeq
      <4>2. PICK U : B \in Seq(U)
        BY <2>12 DEF IsSeq
      <4> DEFINE V == T \union U \union {path[c]}
      <4>3. A \in Seq(V) /\ B \in Seq(V) /\ s \in Seq(V)
        BY <4>1, <4>2
      <4>. HIDE DEF V, s
      <4>. QED
        BY <4>3 DEF Lists
    <3>. HIDE DEF s
    <3>2. (s \o A) \o B = s \o (A \o B)
      BY <3>1, Regrouped
    <3>. QED
      BY <3>2 DEF s
  <2>15. PICK e : Picks(path, I \union J, A \o B, e)
    BY <2>13
  <2> DEFINE P == A \o B
  <2>16. Behind(path, c, f, P, e)
    <3>1. Picks(path, {i \in Spoken(path) : i >= f}, P, e)
      BY <2>11, <2>15
    <3>2. Context(path) = <<path[c]>> \o P /\ IsSeq(P)
      BY <2>5, <2>13, <2>14
    <3>. HIDE DEF P
    <3>. QED
      BY <2>1, <2>2, <3>1, <3>2 DEF Behind, N
  <2>. HIDE DEF P
  <2>. QED
    BY <2>16
<1>. QED
  BY <1>1, <1>2

\* The ids of the messages of a list.
LEMMA SpokenIds ==
    ASSUME NEW s, IsSeq(s)
    PROVE  IdsOf(Messages(s)) = {s[i].id : i \in Spoken(s)}
<1>1. PICK T : s \in Seq(T)
  BY DEF IsSeq
<1>2. DOMAIN s = 1..Len(s)
  BY <1>1
<1>3. Messages(s) = Picked(s, Spoken(s))
  BY <1>2 DEF Messages, OfKinds, Spoken
<1> DEFINE p == Messages(s)
<1>4. p \in Seq(T) /\ \E g : Picks(s, Spoken(s), p, g)
  BY <1>1, <1>3, PickedIs
<1>. HIDE DEF p
<1>5. PICK g : Picks(s, Spoken(s), p, g)
  BY <1>4
<1>6. /\ \A k \in 1..Len(p) : g[k] \in Spoken(s) /\ p[k] = s[g[k]]
      /\ \A i \in Spoken(s) : i \in 1..Len(s) => \E k \in 1..Len(p) : g[k] = i
  BY <1>5 DEF Picks
<1>7. DOMAIN p = 1..Len(p)
  BY <1>4
<1>8. \A i \in Spoken(s) : i \in 1..Len(s)
  BY DEF Spoken
<1>9. IdsOf(p) = {p[k].id : k \in 1..Len(p)}
  BY <1>7 DEF IdsOf
<1>10. \A k \in 1..Len(p) : \E i \in Spoken(s) : p[k].id = s[i].id
  BY <1>6
<1>11. \A i \in Spoken(s) : \E k \in 1..Len(p) : p[k].id = s[i].id
  <2>. SUFFICES ASSUME NEW i \in Spoken(s)
                PROVE  \E k \in 1..Len(p) : p[k].id = s[i].id
    OBVIOUS
  <2>1. PICK k \in 1..Len(p) : g[k] = i
    BY <1>6, <1>8
  <2>. QED
    BY <1>6, <2>1
<1>12. IdsOf(p) = {s[i].id : i \in Spoken(s)}
  BY <1>9, <1>10, <1>11
<1>. QED
  BY <1>12 DEF p

\* The items of a context with a summary.
LEMMA BehindItems ==
    ASSUME NEW path, NEW c, NEW f, NEW P, NEW g, Behind(path, c, f, P, g), NEW cx, cx = Context(path)
    PROVE  /\ IsSeq(cx) /\ Len(P) \in Nat /\ Len(cx) = 1 + Len(P) /\ DOMAIN cx = 1..(1 + Len(P))
           /\ cx[1].kind = "compaction"
           /\ \A k \in 1..(1 + Len(P)) : k # 1 => k - 1 \in 1..Len(P) /\ cx[k] = P[k - 1]
<1> DEFINE s == <<path[c]>>
<1>1. IsSeq(P) /\ cx = s \o P /\ path[c].kind = "compaction"
  BY DEF Behind
<1>2. PICK U : P \in Seq(U)
  BY <1>1 DEF IsSeq
<1> DEFINE T == U \union {path[c]}
<1>3. P \in Seq(T) /\ s \in Seq(T) /\ Len(s) = 1 /\ s[1] = path[c]
  BY <1>2
<1>. HIDE DEF s, T
<1>4. /\ cx \in Seq(T) /\ Len(cx) = 1 + Len(P)
      /\ \A k \in 1..(1 + Len(P)) : cx[k] = IF k <= 1 THEN s[k] ELSE P[k - 1]
  BY <1>1, <1>3, ConcatProperties
<1>5. Len(P) \in Nat /\ DOMAIN cx = 1..(1 + Len(P)) /\ IsSeq(cx)
  BY <1>3, <1>4 DEF IsSeq
<1>6. \A k \in 1..(1 + Len(P)) : k # 1 => k - 1 \in 1..Len(P) /\ cx[k] = P[k - 1]
  BY <1>4, <1>5
<1>7. cx[1] = path[c]
  BY <1>3, <1>4, <1>5
<1>. QED
  BY <1>1, <1>4, <1>5, <1>6, <1>7

\* What NoOrphanResult says of one branch.
Paired(path) ==
    LET cx == Context(path)
    IN \A k \in DOMAIN cx : cx[k].kind = "toolResult" =>
           k > 1 /\ cx[k - 1].kind \in {"call", "toolResult"}

\* A good path forgets nothing: the summary has what was before the kept entries.
LEMMA PathRemembers ==
    ASSUME NEW path, NEW n, Good(path, n), PathOk(path), HandsOn(path, Len(path))
    PROVE  Recalled(path)
<1> DEFINE c == LastCompaction(path)
           cx == Context(path)
           all == IdsOf(Messages(path))
           sent == IdsOf(Messages(cx))
<1>1. IsSeq(path) /\ Len(path) \in Nat
  BY GoodIsSeq DEF Good
<1>2. all = {path[i].id : i \in Spoken(path)}
  BY <1>1, SpokenIds
<1>3. \A i \in 1..Len(path) : path[i].id \in Nat
  BY DEF Good, Made
<1>. HIDE DEF c, cx, all, sent
<1>4. ASSUME c = 0
      PROVE  sent = all
  <2>1. cx = Messages(path)
    BY <1>4, ContextIs DEF c, cx
  <2>2. /\ Good(cx, n) /\ \E g : Picks(path, Spoken(path), cx, g)
    BY <2>1, MessagesIs
  <2>3. PICK g : Picks(path, Spoken(path), cx, g)
    BY <2>2
  <2>4. \A k \in 1..Len(cx) : g[k] \in Spoken(path) /\ cx[k] = path[g[k]]
    BY <2>3 DEF Picks
  <2>5. Spoken(cx) = 1..Len(cx)
    BY <2>4 DEF Spoken
  <2>6. IsSeq(cx) /\ DOMAIN cx = 1..Len(cx)
    BY <2>2, GoodIsSeq DEF Good
  <2>7. sent = {cx[k].id : k \in Spoken(cx)}
    BY <2>6, SpokenIds DEF sent
  <2>8. all = {cx[k].id : k \in 1..Len(cx)}
    BY <2>1, <2>6 DEF IdsOf, all
  <2>. QED
    BY <2>5, <2>7, <2>8
<1>5. ASSUME c # 0
      PROVE  all = sent \union path[c].covers /\ sent \intersect path[c].covers = {}
  <2>1. \E f, P, g : Behind(path, c, f, P, g)
    <3>1. c = LastCompaction(path)
      BY DEF c
    <3>. QED
      BY <1>5, <3>1, ContextIs
  <2>2. PICK f, P, g : Behind(path, c, f, P, g)
    BY <2>1
  <2>3. /\ IsSeq(cx) /\ Len(P) \in Nat /\ Len(cx) = 1 + Len(P) /\ DOMAIN cx = 1..(1 + Len(P))
        /\ cx[1].kind = "compaction"
        /\ \A k \in 1..(1 + Len(P)) : k # 1 => k - 1 \in 1..Len(P) /\ cx[k] = P[k - 1]
    <3>1. cx = Context(path)
      BY DEF cx
    <3>. QED
      BY <2>2, <3>1, BehindItems
  <2>4. /\ \A k \in 1..Len(P) : g[k] \in Spoken(path) /\ g[k] >= f /\ P[k] = path[g[k]]
        /\ \A i \in Spoken(path) : i >= f => \E k \in 1..Len(P) : g[k] = i
    <3>1. \A i \in Spoken(path) : i \in 1..Len(path)
      BY DEF Spoken
    <3>2. Picks(path, {i \in Spoken(path) : i >= f}, P, g)
      BY <2>2 DEF Behind
    <3>. QED
      BY <3>1, <3>2 DEF Picks
  <2>5. \A k \in 1..Len(P) : P[k].kind \in ContextKinds
    BY <2>4 DEF Spoken
  <2>6. Spoken(cx) = {k \in 1..(1 + Len(P)) : k # 1}
    <3>1. "compaction" \notin ContextKinds
      BY DEF ContextKinds, MessageKinds, AssistantKinds
    <3>2. \A k \in 1..(1 + Len(P)) : cx[k].kind \in ContextKinds <=> k # 1
      BY <2>3, <2>5, <3>1
    <3>. QED
      BY <2>3, <3>2 DEF Spoken
  <2>7. sent = {cx[k].id : k \in Spoken(cx)}
    BY <2>3, SpokenIds DEF sent
  <2>8. sent = {P[k].id : k \in 1..Len(P)}
    <3>1. \A k \in Spoken(cx) : \E l \in 1..Len(P) : cx[k].id = P[l].id
      BY <2>3, <2>6
    <3>2. \A l \in 1..Len(P) : l + 1 \in Spoken(cx) /\ cx[l + 1].id = P[l].id
      <4>. SUFFICES ASSUME NEW l \in 1..Len(P)
                    PROVE  l + 1 \in Spoken(cx) /\ cx[l + 1].id = P[l].id
        OBVIOUS
      <4>1. l + 1 \in 1..(1 + Len(P)) /\ l + 1 # 1 /\ (l + 1) - 1 = l
        BY <2>3
      <4>. QED
        BY <2>3, <2>6, <4>1
    <3>3. sent \subseteq {P[l].id : l \in 1..Len(P)}
      BY <2>7, <3>1
    <3>4. ASSUME NEW l \in 1..Len(P)
          PROVE  P[l].id \in sent
      <4> DEFINE m == l + 1
      <4>1. m \in Spoken(cx) /\ cx[m].id = P[l].id
        BY <3>2
      <4>. HIDE DEF m
      <4>. QED
        BY <2>7, <4>1
    <3>. QED
      BY <3>3, <3>4
  <2>9. sent = {path[i].id : i \in {j \in Spoken(path) : j >= f}}
    <3>1. \A k \in 1..Len(P) : \E i \in {j \in Spoken(path) : j >= f} : P[k].id = path[i].id
      BY <2>4
    <3>2. \A i \in {j \in Spoken(path) : j >= f} : \E k \in 1..Len(P) : P[k].id = path[i].id
      <4>. SUFFICES ASSUME NEW i \in Spoken(path), i >= f
                    PROVE  \E k \in 1..Len(P) : P[k].id = path[i].id
        OBVIOUS
      <4>1. PICK k \in 1..Len(P) : g[k] = i
        BY <2>4
      <4>. QED
        BY <2>4, <4>1
    <3>3. sent \subseteq {path[i].id : i \in {j \in Spoken(path) : j >= f}}
      BY <2>8, <3>1
    <3>4. {path[i].id : i \in {j \in Spoken(path) : j >= f}} \subseteq sent
      BY <2>8, <3>2
    <3>. QED
      BY <3>3, <3>4
  <2>10. /\ c \in 1..Len(path) /\ f \in 1..(c - 1)
         /\ path[c].covers = {path[i].id : i \in {j \in 1..(f - 1) : path[j].kind \in ContextKinds}}
    <3>1. c \in 1..Len(path) /\ f \in 1..(c - 1) /\ Keeps(path, c, f)
      BY <2>2 DEF Behind
    <3>2. HandsOn(path, c)
      <4>1. \A i \in 1..c : i \in 1..Len(path)
        BY <1>1, <3>1
      <4>. QED
        BY <4>1 DEF HandsOn
    <3>. QED
      BY <3>1, <3>2 DEF Keeps, Said
  <2>11. path[c].covers = {path[i].id : i \in {j \in Spoken(path) : ~(j >= f)}}
    <3>1. \A j \in Int : j \in 1..(f - 1) /\ path[j].kind \in ContextKinds
                           <=> j \in Spoken(path) /\ ~(j >= f)
      BY <1>1, <2>10 DEF Spoken
    <3>2. {j \in 1..(f - 1) : path[j].kind \in ContextKinds} = {j \in Spoken(path) : ~(j >= f)}
      BY <3>1 DEF Spoken
    <3>. QED
      BY <2>10, <3>2
  <2>12. all = sent \union path[c].covers
    BY <1>2, <2>9, <2>11
  <2>13. ASSUME NEW i \in Spoken(path), NEW j \in Spoken(path), i >= f, ~(j >= f)
         PROVE  path[i].id # path[j].id
    <3>1. i \in 1..Len(path) /\ j \in 1..Len(path) /\ j < i
      BY <1>1, <2>10, <2>13 DEF Spoken
    <3>2. path[j].id < path[i].id
      BY <3>1 DEF Good
    <3>. QED
      BY <1>3, <3>1, <3>2
  <2>14. sent \intersect path[c].covers = {}
    BY <2>9, <2>11, <2>13
  <2>. QED
    BY <2>12, <2>14
<1>6. CASE c = 0
  BY <1>4, <1>6 DEF Recalled, c, cx, all, sent
<1>7. CASE c # 0
  BY <1>5, <1>7 DEF Recalled, c, cx, all, sent
<1>. QED
  BY <1>6, <1>7

\* No context of a good path has a result without its call.
LEMMA PathPaired ==
    ASSUME NEW path, NEW n, Good(path, n), PathOk(path)
    PROVE  Paired(path)
<1> DEFINE c == LastCompaction(path)
           cx == Context(path)
<1>1. IsSeq(path) /\ Len(path) \in Nat
  BY GoodIsSeq DEF Good
<1>2. {"call", "toolResult"} \subseteq ContextKinds
  BY DEF ContextKinds, MessageKinds, AssistantKinds
<1>. SUFFICES ASSUME NEW k \in DOMAIN cx, cx[k].kind = "toolResult"
              PROVE  k > 1 /\ cx[k - 1].kind \in {"call", "toolResult"}
  BY DEF Paired
<1>. HIDE DEF c, cx
<1>3. CASE c = 0
  <2>1. cx = Messages(path)
    BY <1>3, ContextIs DEF c, cx
  <2>2. /\ Good(cx, n) /\ \E g : Picks(path, Spoken(path), cx, g)
    BY <2>1, MessagesIs
  <2>3. PICK g : Picks(path, Spoken(path), cx, g)
    BY <2>2
  <2>4. IsSeq(cx) /\ k \in 1..Len(cx) /\ Len(cx) \in Nat
    BY <2>2, GoodIsSeq DEF Good
  <2>5. g[k] \in Spoken(path) /\ g[k] \in 1..Len(path) /\ cx[k] = path[g[k]]
    BY <2>3, <2>4 DEF Picks
  <2>6. Answered(path, g[k])
    BY <2>5 DEF PathOk
  <2>7. PICK j \in 1..(g[k] - 1) :
               /\ path[j].kind \in {"call", "toolResult"}
               /\ \A i \in (j + 1)..(g[k] - 1) : path[i].kind \notin ContextKinds
    BY <2>6 DEF Answered
  <2>8. j \in Spoken(path)
    BY <1>1, <1>2, <2>5, <2>7 DEF Spoken
  <2>9. \A i \in (j + 1)..(g[k] - 1) : i \notin Spoken(path)
    BY <2>7 DEF Spoken
  <2>10. k - 1 \in 1..Len(cx) /\ cx[k - 1] = path[j]
    BY <1>1, <2>3, <2>4, <2>8, <2>9, PickedNext
  <2>. QED
    BY <2>4, <2>7, <2>10
<1>4. CASE c # 0
  <2>1. \E f, P, g : Behind(path, c, f, P, g)
    <3>1. c = LastCompaction(path)
      BY DEF c
    <3>. QED
      BY <1>4, <3>1, ContextIs
  <2>2. PICK f, P, g : Behind(path, c, f, P, g)
    BY <2>1
  <2> DEFINE I == {i \in Spoken(path) : i >= f}
             l == k - 1
  <2>3. /\ IsSeq(cx) /\ Len(P) \in Nat /\ DOMAIN cx = 1..(1 + Len(P))
        /\ cx[1].kind = "compaction"
        /\ \A m \in 1..(1 + Len(P)) : m # 1 => m - 1 \in 1..Len(P) /\ cx[m] = P[m - 1]
    <3>1. cx = Context(path)
      BY DEF cx
    <3>. QED
      BY <2>2, <3>1, BehindItems
  <2>4. k # 1 /\ k \in 1..(1 + Len(P)) /\ l \in 1..Len(P) /\ cx[k] = P[l]
    BY <2>3
  <2>5. Picks(path, I, P, g) /\ IsSeq(P)
    BY <2>2 DEF Behind
  <2>. HIDE DEF l
  <2>6. g[l] \in I /\ g[l] \in 1..Len(path) /\ P[l] = path[g[l]]
    <3>. HIDE DEF I
    <3>. QED
      BY <2>4, <2>5 DEF Picks
  <2>7. Answered(path, g[l])
    BY <2>4, <2>6 DEF PathOk
  <2>8. PICK j \in 1..(g[l] - 1) :
               /\ path[j].kind \in {"call", "toolResult"}
               /\ \A i \in (j + 1)..(g[l] - 1) : path[i].kind \notin ContextKinds
    BY <2>7 DEF Answered
  <2>9. f \in 1..(c - 1) /\ c \in 1..Len(path) /\ Keeps(path, c, f)
    BY <2>2 DEF Behind
  <2>10. PICK m \in f..(c - 1) : /\ path[m].kind \in ContextKinds
                                 /\ \A i \in f..m : path[i].kind # "toolResult"
    BY <2>9 DEF Keeps
  <2>11. f \in Int /\ m \in Int /\ g[l] \in Int /\ g[l] >= f /\ j \in Int
    BY <2>6, <2>9
  <2>12. m < g[l]
    <3>1. CASE g[l] <= m
      <4>1. g[l] \in f..m
        BY <2>11, <3>1
      <4>. QED
        BY <2>4, <2>6, <2>10, <4>1
    <3>. QED
      BY <2>11, <3>1
  <2>13. j >= m
    <3>1. CASE j < m
      <4>1. m \in (j + 1)..(g[l] - 1)
        BY <2>11, <2>12, <3>1
      <4>. QED
        BY <2>8, <2>10, <4>1
    <3>. QED
      BY <2>11, <3>1
  <2>14. j \in I
    <3>1. j >= f /\ j \in 1..Len(path)
      BY <1>1, <2>6, <2>10, <2>11, <2>13
    <3>. QED
      BY <1>2, <2>8, <3>1 DEF Spoken
  <2>15. \A i \in (j + 1)..(g[l] - 1) : i \notin I
    BY <2>8 DEF Spoken
  <2>. HIDE DEF I
  <2>16. l - 1 \in 1..Len(P) /\ P[l - 1] = path[j]
    BY <1>1, <2>4, <2>5, <2>14, <2>15, PickedNext
  <2>17. l \in 1..(1 + Len(P)) /\ l # 1 /\ l = k - 1 /\ k > 1
    BY <2>3, <2>4, <2>16 DEF l
  <2>18. cx[l] = path[j]
    BY <2>3, <2>16, <2>17
  <2>. QED
    BY <2>8, <2>17, <2>18
<1>. QED
  BY <1>3, <1>4

(***************************************************************************)
(* Branches of a list that grows                                           *)
(***************************************************************************)
\* F has entries of E, and their parents.
IsSubtree(F, E) ==
    \A x \in IdsOf(F) : /\ x \in IdsOf(E) /\ EntryOf(F, x) = EntryOf(E, x)
                        /\ EntryOf(E, x).parent = 0 \/ EntryOf(E, x).parent \in IdsOf(F)

\* Ids are numbers above 0, which stands for no entry.
LEMMA IdsArePositive ==
    ASSUME NEW E, NEW n, Good(E, n)
    PROVE  0 \notin IdsOf(E) /\ \A x \in IdsOf(E) : x \in Nat
<1>1. DOMAIN E = 1..Len(E)
  BY GoodIsSeq
<1>2. \A i \in DOMAIN E : E[i].id \in Nat /\ E[i].id # 0
  BY <1>1 DEF Good, Made
<1>. QED
  BY <1>2 DEF IdsOf

\* Branches do not depend on other entries.
LEMMA SameBranches ==
    ASSUME NEW E, NEW n \in Nat, Good(E, n), NEW F, NEW m \in Nat, Good(F, m), IsSubtree(F, E)
    PROVE  \A x \in IdsOf(F) : Branch(F, x) = Branch(E, x)
<1> DEFINE Bad == {x \in IdsOf(F) : Branch(F, x) # Branch(E, x)}
<1>1. Bad = {}
  <2>. SUFFICES ASSUME Bad # {}
                PROVE  FALSE
    OBVIOUS
  <2>1. Bad \in SUBSET Nat
    BY IdsArePositive
  <2>2. PICK x \in Bad : \A y \in Bad : x <= y
    <3>. HIDE DEF Bad
    <3>. QED
      BY <2>1, Least
  <2>3. x \in IdsOf(F) /\ x \in IdsOf(E) /\ EntryOf(F, x) = EntryOf(E, x)
    BY <2>2 DEF IsSubtree
  <2> DEFINE p == EntryOf(E, x).parent
  <2>4. p = 0 \/ p \in IdsOf(F)
    BY <2>3 DEF IsSubtree
  <2>5. EntryOf(E, x).id = x /\ p \in 0..(x - 1) /\ x \in Nat
    BY <2>3, EntryOfIs, IdsArePositive DEF Made
  <2>6. Branch(F, x) = Append(Branch(F, p), EntryOf(E, x))
    BY <2>3, BranchStep
  <2>7. Branch(E, x) = Append(Branch(E, p), EntryOf(E, x))
    BY <2>3, BranchStep
  <2>. HIDE DEF p
  <2>8. Branch(F, p) = Branch(E, p)
    <3>1. CASE p = 0
      <4>1. p \notin IdsOf(F) /\ p \notin IdsOf(E)
        BY <3>1, IdsArePositive
      <4>2. Branch(F, p) = <<>>
        BY <4>1, BranchStep
      <4>3. Branch(E, p) = <<>>
        BY <4>1, BranchStep
      <4>. QED
        BY <4>2, <4>3
    <3>2. CASE p \in IdsOf(F)
      <4>1. ~(x <= p)
        BY <2>5
      <4>. QED
        BY <2>2, <3>2, <4>1
    <3>. QED
      BY <2>4, <3>1, <3>2
  <2>9. Branch(F, x) = Branch(E, x)
    BY <2>6, <2>7, <2>8
  <2>. QED
    BY <2>2, <2>9
<1>. QED
  BY <1>1

\* The first entries of a well-formed list have their parents.
LEMMA PrefixIsSubtree ==
    ASSUME NEW E, NEW n, Good(E, n), NEW F, NEW m, Good(F, m), WellFormed(F), Len(F) <= Len(E),
           \A i \in 1..Len(F) : F[i] = E[i]
    PROVE  IsSubtree(F, E)
<1>1. /\ DOMAIN F = 1..Len(F) /\ DOMAIN E = 1..Len(E)
      /\ Len(F) \in Nat /\ Len(E) \in Nat
  BY GoodIsSeq
<1>2. ASSUME NEW i \in 1..Len(F)
      PROVE  /\ F[i].id \in IdsOf(E) /\ EntryOf(F, F[i].id) = EntryOf(E, F[i].id)
             /\ EntryOf(E, F[i].id).parent = 0 \/ EntryOf(E, F[i].id).parent \in IdsOf(F)
  <2>1. i \in 1..Len(E) /\ F[i] = E[i]
    BY <1>1
  <2>2. EntryOf(F, F[i].id) = F[i]
    BY EntryOfItem
  <2>3. E[i].id \in IdsOf(E) /\ EntryOf(E, E[i].id) = E[i]
    BY <2>1, EntryOfItem
  <2>4. F[i].parent # 0 => \E j \in 1..(i - 1) : F[j].id = F[i].parent
    BY <1>1 DEF WellFormed
  <2>5. F[i].parent # 0 => F[i].parent \in IdsOf(F)
    <3>. SUFFICES ASSUME F[i].parent # 0
                  PROVE  F[i].parent \in IdsOf(F)
      OBVIOUS
    <3>1. PICK j \in 1..(i - 1) : F[j].id = F[i].parent
      BY <2>4
    <3>2. j \in DOMAIN F
      BY <1>1
    <3>. QED
      BY <3>1, <3>2 DEF IdsOf
  <2>. QED
    BY <2>1, <2>2, <2>3, <2>5
<1>3. \A x \in IdsOf(F) : \E i \in 1..Len(F) : x = F[i].id
  BY <1>1 DEF IdsOf
<1>. QED
  BY <1>2, <1>3 DEF IsSubtree

\* es is a well-formed list E and a new entry e, with the id n.
Grown(E, n, e, es) ==
    /\ n \in Nat /\ Good(E, n) /\ WellFormed(E)
    /\ Made(e, n + 1) /\ e.id = n
    /\ e.parent = 0 \/ e.parent \in IdsOf(E)
    /\ es = Append(E, e)

\* The branches of a list with one entry more.
LEMMA AppendedBranches ==
    ASSUME NEW E, NEW n, NEW e, NEW es, Grown(E, n, e, es)
    PROVE  /\ \A x \in IdsOf(E) : Branch(es, x) = Branch(E, x)
           /\ Branch(es, n) = Append(Branch(E, e.parent), e)
           /\ IdsOf(es) = IdsOf(E) \union {n}
<1>0. /\ n \in Nat /\ Good(E, n) /\ WellFormed(E) /\ Made(e, n + 1) /\ e.id = n
      /\ e.parent = 0 \/ e.parent \in IdsOf(E)
      /\ es = Append(E, e)
  BY DEF Grown
<1>1. /\ Good(es, n + 1) /\ IdsOf(es) = IdsOf(E) \union {n}
      /\ Len(es) = Len(E) + 1 /\ es[Len(E) + 1] = e
      /\ \A i \in 1..Len(E) : es[i] = E[i]
  BY <1>0, AppendedGood
<1>2. Len(E) \in Nat /\ n + 1 \in Nat
  BY <1>0, GoodIsSeq
<1>3. IsSubtree(E, es)
  <2>1. Len(E) <= Len(es) /\ \A i \in 1..Len(E) : E[i] = es[i]
    BY <1>1, <1>2
  <2>. QED
    BY <1>0, <1>1, <2>1, PrefixIsSubtree
<1>4. \A x \in IdsOf(E) : Branch(es, x) = Branch(E, x)
  BY <1>0, <1>1, <1>2, <1>3, SameBranches
<1>5. n \in IdsOf(es) /\ EntryOf(es, n) = e
  <2>1. Len(E) + 1 \in 1..Len(es) /\ es[Len(E) + 1].id = n
    BY <1>0, <1>1, <1>2
  <2>. QED
    BY <1>1, <2>1, EntryOfItem
<1>6. Branch(es, n) = Append(Branch(es, e.parent), e)
  BY <1>1, <1>2, <1>5, BranchStep
<1>7. Branch(es, e.parent) = Branch(E, e.parent)
  <2>1. CASE e.parent \in IdsOf(E)
    BY <1>4, <2>1
  <2>2. CASE e.parent = 0
    <3>1. 0 \notin IdsOf(es) /\ 0 \notin IdsOf(E)
      BY <1>0, <1>1, IdsArePositive
    <3>2. Branch(es, 0) = <<>>
      BY <1>1, <1>2, <3>1, BranchStep
    <3>3. Branch(E, 0) = <<>>
      BY <1>0, <3>1, BranchStep
    <3>. QED
      BY <2>2, <3>2, <3>3
  <2>. QED
    BY <1>0, <2>1, <2>2
<1>. QED
  BY <1>1, <1>4, <1>6, <1>7

(***************************************************************************)
(* Good paths                                                              *)
(***************************************************************************)
\* Two paths begin with the same entries, whatever their parents are.
Alike(p, q, N) ==
    \A i \in 1..N : p[i].id = q[i].id /\ p[i].kind = q[i].kind /\ p[i].ref = q[i].ref /\ p[i].covers = q[i].covers

\* Paths that differ in parents have their compactions and their ids at the same places.
LEMMA AlikePlaces ==
    ASSUME NEW s, NEW t, DOMAIN s = 1..Len(s), DOMAIN t = 1..Len(t), Len(s) = Len(t), Alike(s, t, Len(s))
    PROVE  LastCompaction(s) = LastCompaction(t) /\ \A x : IndexOf(s, x) = IndexOf(t, x)
<1>1. {i \in DOMAIN s : s[i].kind = "compaction"} = {i \in DOMAIN t : t[i].kind = "compaction"}
  BY DEF Alike
<1>2. \A x : {i \in DOMAIN s : s[i].id = x} = {i \in DOMAIN t : t[i].id = x}
  BY DEF Alike
<1>3. LastCompaction(s) = LastCompaction(t)
  BY <1>1 DEF LastCompaction
<1>4. \A x : IndexOf(s, x) = IndexOf(t, x)
  <2>. TAKE x
  <2>. QED
    BY <1>2 DEF IndexOf
<1>. QED
  BY <1>3, <1>4

\* The first items of a list.
LEMMA FirstItems ==
    ASSUME NEW s, IsSeq(s), NEW m \in 0..Len(s), NEW t, t = SubSeq(s, 1, m)
    PROVE  Len(t) = m /\ DOMAIN t = 1..m /\ \A i \in 1..m : t[i] = s[i]
<1>1. PICK T : s \in Seq(T)
  BY DEF IsSeq
<1>2. Len(s) \in Nat
  BY <1>1
<1>3. \A i \in 1..m : i \in 1..Len(s) /\ s[i] \in T
  BY <1>1, <1>2
<1>4. m \in Int /\ 1 \in Int /\ m >= 0
  BY <1>2
<1>5. /\ t \in Seq(T) /\ Len(t) = IF 1 <= m THEN m - 1 + 1 ELSE 0
      /\ \A i \in 1..(m - 1 + 1) : t[i] = s[1 + i - 1]
  BY <1>3, <1>4, SubSeqProperties
<1>6. Len(t) = m /\ DOMAIN t = 1..m
  BY <1>4, <1>5
<1>7. \A i \in 1..m : t[i] = s[i]
  BY <1>4, <1>5
<1>. QED
  BY <1>6, <1>7

\* What a compaction would summarize does not depend on parents,
LEMMA AlikeHistory ==
    ASSUME NEW u, NEW v, NEW N \in Nat, DOMAIN u = 1..N, DOMAIN v = 1..N, Len(u) = N, Len(v) = N,
           Alike(u, v, N), NEW k \in 1..N
    PROVE  LastCompaction(u) = LastCompaction(v) /\ History(u, k) = History(v, k)
<1> DEFINE c == LastCompaction(u)
           S == {0} \union {i \in DOMAIN u : u[i].kind = "compaction"}
           s == BoundaryStart(u)
<1>1. LastCompaction(v) = c /\ \A x : IndexOf(u, x) = IndexOf(v, x)
  BY AlikePlaces
<1>2. c \in 0..N
  <2>1. S \in SUBSET (0..N) /\ 0 \in S
    OBVIOUS
  <2>2. c = Max(S)
    BY DEF LastCompaction
  <2>. HIDE DEF S, c
  <2>. QED
    BY <2>1, <2>2, MaxIs
<1>3. \A i \in 1..N : u[i].id = v[i].id /\ u[i].kind = v[i].kind /\ u[i].ref = v[i].ref
  BY DEF Alike
<1>4. ASSUME NEW x
      PROVE  IndexOf(u, x) \in 0..N
  <2> DEFINE I == {0} \union {i \in DOMAIN u : u[i].id = x}
  <2>1. I \in SUBSET (0..N) /\ 0 \in I
    OBVIOUS
  <2>2. IndexOf(u, x) = Max(I)
    BY DEF IndexOf
  <2>. HIDE DEF I
  <2>. QED
    BY <2>1, <2>2, MaxIs
<1>5. s = BoundaryStart(v) /\ s \in Nat \ {0}
  <2> DEFINE h == IndexOf(u, u[c].ref)
  <2>0. s = IF c = 0 THEN 1 ELSE IF h # 0 THEN h ELSE c + 1
    BY DEF BoundaryStart
  <2>1. c # 0 => u[c].ref = v[c].ref
    BY <1>2, <1>3
  <2>2. h \in 0..N
    BY <1>4
  <2>3. c # 0 => h = IndexOf(v, v[c].ref)
    BY <1>1, <2>1
  <2>4. BoundaryStart(v) = IF c = 0 THEN 1 ELSE IF IndexOf(v, v[c].ref) # 0 THEN IndexOf(v, v[c].ref) ELSE c + 1
    BY <1>1 DEF BoundaryStart
  <2>. HIDE DEF h, c, s
  <2>. QED
    BY <1>2, <2>0, <2>2, <2>3, <2>4
<1>. HIDE DEF c, s, S
<1>6. \A j \in s..k : j \in 1..N
  BY <1>5
<1>7. TurnStart(u, s, k) = TurnStart(v, s, k)
  <2>1. {j \in s..k : u[j].kind \in TurnStarts} = {j \in s..k : v[j].kind \in TurnStarts}
    BY <1>3, <1>6
  <2>. QED
    BY <2>1 DEF TurnStart
<1>8. TurnStart(u, s, k) = 0 \/ TurnStart(u, s, k) \in 1..k
  <2> DEFINE J == {0} \union {j \in s..k : u[j].kind \in TurnStarts}
  <2>1. J \in SUBSET (0..N) /\ 0 \in J /\ \A j \in J : j = 0 \/ j \in 1..k
    BY <1>5, <1>6
  <2>2. TurnStart(u, s, k) = Max(J)
    BY DEF TurnStart
  <2>. HIDE DEF J
  <2>3. Max(J) \in J
    BY <2>1, MaxIs
  <2>. QED
    BY <2>1, <2>2, <2>3
<1>9. SplitTurn(u, k) = SplitTurn(v, k) /\ (SplitTurn(u, k) = 0 \/ SplitTurn(u, k) \in 1..k)
  <2>1. u[k].kind = v[k].kind
    BY <1>3
  <2>. QED
    BY <1>5, <1>7, <1>8, <2>1 DEF SplitTurn, s
<1> DEFINE turn == SplitTurn(u, k)
           end == IF turn # 0 THEN turn ELSE k
<1>10. end \in 1..k
  BY <1>9
<1>11. History(u, k) = Said(u, s, end - 1) /\ History(v, k) = Said(v, s, end - 1)
  BY <1>5, <1>9 DEF History, s
<1>. HIDE DEF end, turn
<1>12. Said(u, s, end - 1) = Said(v, s, end - 1)
  <2> DEFINE J == {j \in s..(end - 1) : u[j].kind \in ContextKinds}
             K == {j \in s..(end - 1) : v[j].kind \in ContextKinds}
  <2>1. \A j \in s..(end - 1) : j \in 1..N
    BY <1>5, <1>10
  <2>2. J = K /\ \A j \in J : u[j].id = v[j].id
    BY <1>3, <2>1
  <2>3. Said(u, s, end - 1) = {u[i].id : i \in J} /\ Said(v, s, end - 1) = {v[i].id : i \in K}
    BY DEF Said
  <2>. HIDE DEF J, K
  <2>4. {u[i].id : i \in J} = {v[i].id : i \in J}
    BY <2>2
  <2>. QED
    BY <2>2, <2>3, <2>4
<1>. QED
  BY <1>1, <1>11, <1>12 DEF c

\* nor does whether the summaries are handed on,
LEMMA AlikeHandsOn ==
    ASSUME NEW p, NEW q, IsSeq(p), IsSeq(q), NEW N \in Nat, N <= Len(p), N <= Len(q), Alike(p, q, N),
           NEW c \in 1..N, HandsOn(q, c)
    PROVE  HandsOn(p, c)
<1>. SUFFICES ASSUME NEW i \in 1..c, NEW k \in 1..(i - 1), p[i].kind = "compaction", p[k].id = p[i].ref
              PROVE  LastCompaction(SubSeq(p, 1, i - 1)) = 0 \/ History(SubSeq(p, 1, i - 1), k) # {}
  BY DEF HandsOn
<1> DEFINE u == SubSeq(p, 1, i - 1)
           v == SubSeq(q, 1, i - 1)
<1>1. i - 1 \in 0..Len(p) /\ i - 1 \in 0..Len(q) /\ i - 1 \in Nat /\ i \in 1..N /\ k \in 1..N
  <2>1. Len(p) \in Nat /\ Len(q) \in Nat
    BY DEF IsSeq
  <2>. QED
    BY <2>1
<1>2. \A j \in 1..N : p[j].id = q[j].id /\ p[j].kind = q[j].kind /\ p[j].ref = q[j].ref /\ p[j].covers = q[j].covers
  BY DEF Alike
<1>3. q[i].kind = "compaction" /\ q[k].id = q[i].ref
  BY <1>1, <1>2
<1>4. LastCompaction(v) = 0 \/ History(v, k) # {}
  BY <1>3 DEF HandsOn
<1>5. Len(u) = i - 1 /\ DOMAIN u = 1..(i - 1) /\ \A j \in 1..(i - 1) : u[j] = p[j]
  <2>1. u = SubSeq(p, 1, i - 1)
    OBVIOUS
  <2>. HIDE DEF u
  <2>. QED
    BY <1>1, <2>1, FirstItems
<1>6. Len(v) = i - 1 /\ DOMAIN v = 1..(i - 1) /\ \A j \in 1..(i - 1) : v[j] = q[j]
  <2>1. v = SubSeq(q, 1, i - 1)
    OBVIOUS
  <2>. HIDE DEF v
  <2>. QED
    BY <1>1, <2>1, FirstItems
<1>. HIDE DEF u, v
<1>7. Alike(u, v, i - 1)
  <2>1. \A j \in 1..(i - 1) : j \in 1..N
    BY <1>1
  <2>. QED
    BY <1>2, <1>5, <1>6, <2>1 DEF Alike
<1>8. LastCompaction(u) = LastCompaction(v) /\ History(u, k) = History(v, k)
  BY <1>1, <1>5, <1>6, <1>7, AlikeHistory
<1>. QED
  BY <1>4, <1>8 DEF u

\* nor what a compaction keeps,
LEMMA AlikeKeeps ==
    ASSUME NEW p, NEW q, IsSeq(p), IsSeq(q), NEW N \in Nat, N <= Len(p), N <= Len(q), Alike(p, q, N),
           NEW c \in 1..N, NEW f \in 1..(c - 1), Keeps(p, c, f)
    PROVE  Keeps(q, c, f)
<1>1. \A i \in 1..N : p[i].id = q[i].id /\ p[i].kind = q[i].kind /\ p[i].ref = q[i].ref /\ p[i].covers = q[i].covers
  BY DEF Alike
<1>2. f \in 1..N /\ q[f].id = q[c].ref
  BY <1>1 DEF Keeps
<1>3. {j \in 1..(f - 1) : p[j].kind \in ContextKinds} = {j \in 1..(f - 1) : q[j].kind \in ContextKinds}
  <2>1. \A j \in 1..(f - 1) : j \in 1..N
    OBVIOUS
  <2>. QED
    BY <1>1, <2>1
<1> DEFINE J == {j \in 1..(f - 1) : q[j].kind \in ContextKinds}
<1>4. ASSUME HandsOn(q, c)
      PROVE  q[c].covers = {q[i].id : i \in J}
  <2>0. HandsOn(p, c)
    BY <1>4, AlikeHandsOn
  <2>1. \A i \in J : p[i].id = q[i].id
    <3>1. \A i \in J : i \in 1..N
      OBVIOUS
    <3>. QED
      BY <1>1, <3>1
  <2>2. q[c].covers = {p[i].id : i \in J}
    BY <1>1, <1>3, <2>0 DEF Keeps, Said
  <2>. QED
    BY <2>1, <2>2
<1>5. PICK m \in f..(c - 1) : p[m].kind \in ContextKinds /\ \A k \in f..m : p[k].kind # "toolResult"
  BY DEF Keeps
<1>6. m \in 1..N /\ \A k \in f..m : k \in 1..N
  OBVIOUS
<1>7. q[m].kind \in ContextKinds /\ \A k \in f..m : q[k].kind # "toolResult"
  BY <1>1, <1>5, <1>6
<1>. QED
  BY <1>2, <1>4, <1>7 DEF Keeps, Said

\* nor does the call before a result.
LEMMA AlikeAnswered ==
    ASSUME NEW p, NEW q, NEW N \in Nat, Alike(p, q, N), NEW i \in 1..(N + 1), Answered(p, i)
    PROVE  Answered(q, i)
<1>1. PICK j \in 1..(i - 1) : /\ p[j].kind \in {"call", "toolResult"}
                              /\ \A k \in (j + 1)..(i - 1) : p[k].kind \notin ContextKinds
  BY DEF Answered
<1>2. j \in 1..N /\ \A k \in (j + 1)..(i - 1) : k \in 1..N
  OBVIOUS
<1>3. \A k \in 1..N : p[k].kind = q[k].kind
  BY DEF Alike
<1>. QED
  BY <1>1, <1>2, <1>3 DEF Answered

\* A path stays good when it is cut short and nothing but parents changes.
LEMMA AlikePathOk ==
    ASSUME NEW p, NEW q, IsSeq(p), IsSeq(q), Len(p) \in Nat, Len(q) \in 0..Len(p), Alike(p, q, Len(q)), PathOk(p)
    PROVE  PathOk(q)
<1>. SUFFICES ASSUME NEW i \in 1..Len(q)
              PROVE  /\ q[i].kind = "toolResult" => Answered(q, i)
                     /\ q[i].kind = "compaction" => \E f \in 1..(i - 1) : Keeps(q, i, f)
  BY DEF PathOk
<1>1. q[i].kind = p[i].kind /\ i \in 1..Len(p) /\ Len(q) \in Nat
  BY DEF Alike
<1>2. q[i].kind = "toolResult" => Answered(q, i)
  <2>1. i \in 1..(Len(q) + 1)
    BY <1>1
  <2>. QED
    BY <1>1, <2>1, AlikeAnswered DEF PathOk
<1>3. q[i].kind = "compaction" => \E f \in 1..(i - 1) : Keeps(q, i, f)
  <2>1. Len(q) <= Len(p) /\ Len(q) <= Len(q)
    BY <1>1
  <2>. QED
    BY <1>1, <2>1, AlikeKeeps DEF PathOk
<1>. QED
  BY <1>2, <1>3

\* e may come behind the path p.
MayFollow(p, e) ==
    /\ e.kind = "toolResult" => Answered(p, Len(p) + 1)
    /\ e.kind = "compaction" => \E f \in 1..Len(p) : Keeps(Append(p, e), Len(p) + 1, f)

\* A path stays good when such an entry comes.
LEMMA AppendedPathOk ==
    ASSUME NEW p, IsSeq(p), PathOk(p), NEW e, MayFollow(p, e)
    PROVE  PathOk(Append(p, e))
<1> DEFINE q == Append(p, e)
           N == Len(p)
<1>1. N \in Nat /\ Len(q) = N + 1 /\ q[N + 1] = e /\ \A i \in 1..N : q[i] = p[i]
  BY DEF IsSeq
<1>0. IsSeq(q) /\ N <= Len(p) /\ N <= Len(q)
  <2>1. PICK T : p \in Seq(T)
    BY DEF IsSeq
  <2> DEFINE U == T \union {e}
  <2>2. p \in Seq(U) /\ e \in U
    BY <2>1
  <2>. HIDE DEF U
  <2>3. q \in Seq(U)
    BY <2>2
  <2>. QED
    BY <1>1, <2>3 DEF IsSeq
<1>. HIDE DEF q
<1>2. Alike(p, q, N)
  BY <1>1 DEF Alike
<1>. SUFFICES ASSUME NEW i \in 1..(N + 1)
              PROVE  /\ q[i].kind = "toolResult" => Answered(q, i)
                     /\ q[i].kind = "compaction" => \E f \in 1..(i - 1) : Keeps(q, i, f)
  BY <1>1 DEF PathOk, q
<1>3. CASE i \in 1..N
  <2>1. q[i].kind = "toolResult" => Answered(q, i)
    BY <1>1, <1>2, <1>3, AlikeAnswered DEF PathOk
  <2>2. q[i].kind = "compaction" => \E f \in 1..(i - 1) : Keeps(q, i, f)
    BY <1>0, <1>1, <1>2, <1>3, AlikeKeeps DEF PathOk
  <2>. QED
    BY <2>1, <2>2
<1>4. CASE i = N + 1
  <2>1. e.kind = "toolResult" => Answered(q, N + 1)
    BY <1>1, <1>2, AlikeAnswered DEF MayFollow
  <2>2. e.kind = "compaction" => \E f \in 1..N : Keeps(q, N + 1, f)
    BY DEF MayFollow, q
  <2>3. 1..N = 1..(i - 1) /\ q[i] = e
    BY <1>1, <1>4
  <2>. QED
    BY <1>4, <2>1, <2>2, <2>3
<1>. QED
  BY <1>1, <1>3, <1>4

\* All paths stay good when an entry comes that may follow its branch.
LEMMA AppendedPathsOk ==
    ASSUME NEW E, NEW n, NEW e, NEW es, Grown(E, n, e, es), PathsOk(E), MayFollow(Branch(E, e.parent), e)
    PROVE  PathsOk(es)
<1>1. /\ \A x \in IdsOf(E) : Branch(es, x) = Branch(E, x)
      /\ Branch(es, n) = Append(Branch(E, e.parent), e)
      /\ IdsOf(es) = IdsOf(E) \union {n}
  BY AppendedBranches
<1>0. n \in Nat /\ Good(E, n)
  BY DEF Grown
<1> DEFINE p == Branch(E, e.parent)
<1>2. IsSeq(p)
  BY <1>0, BranchStep DEF IsSeq
<1>3. PathOk(p)
  <2>1. CASE e.parent \in IdsOf(E)
    BY <2>1 DEF PathsOk
  <2>2. CASE e.parent \notin IdsOf(E)
    <3>1. p = <<>> /\ Len(<<>>) = 0
      BY <1>0, <2>2, BranchStep
    <3>. QED
      BY <3>1 DEF PathOk
  <2>. QED
    BY <2>1, <2>2
<1>4. MayFollow(p, e)
  OBVIOUS
<1>. HIDE DEF p
<1>5. PathOk(Append(p, e))
  BY <1>2, <1>3, <1>4, AppendedPathOk
<1>6. \A x \in IdsOf(es) : PathOk(Branch(es, x))
  BY <1>1, <1>5 DEF PathsOk, p
<1>. QED
  BY <1>6 DEF PathsOk

\* The paths of the first entries are among those of all.
LEMMA PrefixPathsOk ==
    ASSUME NEW E, NEW n \in Nat, Good(E, n), PathsOk(E), NEW F, NEW m \in Nat, Good(F, m), WellFormed(F),
           Len(F) <= Len(E), \A i \in 1..Len(F) : F[i] = E[i]
    PROVE  PathsOk(F)
<1>1. IsSubtree(F, E)
  BY PrefixIsSubtree
<1>2. \A x \in IdsOf(F) : Branch(F, x) = Branch(E, x)
  BY <1>1, SameBranches
<1>. QED
  BY <1>1, <1>2 DEF PathsOk, IsSubtree

\* A result that fits has its call before it.
LEMMA ResultFollows ==
    ASSUME NEW path, NEW n, Good(path, n), NEW said, said = Messages(path), said # <<>>,
           said[Len(said)].kind \in {"call", "toolResult"}
    PROVE  Answered(path, Len(path) + 1)
<1>1. Good(said, n) /\ \E g : Picks(path, Spoken(path), said, g)
  BY MessagesIs
<1>2. PICK g : Picks(path, Spoken(path), said, g)
  BY <1>1
<1> DEFINE L == Len(said)
           N == Len(path)
<1>3. L \in Nat /\ N \in Nat /\ IsSeq(said)
  BY <1>1, GoodIsSeq DEF Good
<1>4. L # 0
  <2>1. PICK T : said \in Seq(T)
    BY <1>3 DEF IsSeq
  <2>. QED
    BY <2>1
<1>5. L \in 1..L
  BY <1>3, <1>4
<1>6. /\ g \in [1..L -> (1..N) \intersect Spoken(path)]
      /\ \A k \in 1..L : said[k] = path[g[k]]
      /\ \A k, l \in 1..L : k < l => g[k] < g[l]
      /\ \A i \in (1..N) \intersect Spoken(path) : \E k \in 1..L : g[k] = i
  BY <1>2 DEF Picks
<1> DEFINE j == g[L]
<1>7. j \in 1..N /\ path[j].kind \in {"call", "toolResult"}
  BY <1>5, <1>6
<1>. HIDE DEF N
<1>8. ASSUME NEW k \in (j + 1)..N, path[k].kind \in ContextKinds
      PROVE  FALSE
  <2>1. k \in 1..N /\ j < k
    BY <1>3, <1>7
  <2>2. k \in Spoken(path)
    BY <1>8, <2>1 DEF Spoken, N
  <2>3. PICK l \in 1..L : g[l] = k
    BY <1>6, <2>1, <2>2
  <2>4. l # L => g[l] < g[L]
    <3>1. l # L => l < L
      BY <1>3
    <3>. QED
      BY <1>5, <1>6, <3>1
  <2>5. l # L
    BY <1>7, <2>1, <2>3
  <2>. HIDE DEF L
  <2>. QED
    BY <1>7, <2>1, <2>3, <2>4, <2>5
<1>. HIDE DEF j
<1>9. (N + 1) - 1 = N
  BY <1>3
<1>. QED
  BY <1>7, <1>8, <1>9 DEF Answered, N

\* Where the span of a compaction starts, and what the previous one covers.
LEMMA BoundaryIs ==
    ASSUME NEW path, NEW n, Good(path, n), PathOk(path), path # <<>>,
           NEW start, start = BoundaryStart(path), NEW prev, prev = LastCompaction(path)
    PROVE  /\ Len(path) \in Nat /\ start \in 1..Len(path)
           /\ prev = 0 => start = 1
           /\ prev # 0 /\ HandsOn(path, prev) => path[prev].covers = Said(path, 1, start - 1)
<1> DEFINE N == Len(path)
<1>1. N \in Nat /\ N # 0
  <2>1. PICK T : path \in Seq(T)
    BY DEF Good, IsSeq
  <2>. QED
    BY <2>1
<1>. HIDE DEF N
<1>2. CASE prev = 0
  <2>1. start = 1
    BY <1>2 DEF BoundaryStart
  <2>2. start \in 1..N
    BY <1>1, <2>1
  <2>. QED
    BY <1>1, <1>2, <2>1, <2>2 DEF N
<1>3. CASE prev # 0
  <2>1. prev \in 1..N /\ path[prev].kind = "compaction"
    BY <1>3, LastCompactionIs DEF N
  <2>2. PICK f \in 1..(prev - 1) : Keeps(path, prev, f)
    BY <2>1 DEF PathOk, N
  <2>3. f \in 1..N /\ f # 0 /\ path[f].id = path[prev].ref
    BY <1>1, <2>1, <2>2 DEF Keeps
  <2>4. IndexOf(path, path[prev].ref) = f
    BY <2>3, IndexOfIs DEF N
  <2>5. start = f
    BY <1>3, <2>3, <2>4 DEF BoundaryStart
  <2>6. HandsOn(path, prev) => path[prev].covers = Said(path, 1, start - 1)
    BY <2>2, <2>5 DEF Keeps
  <2>. QED
    BY <1>1, <1>3, <2>3, <2>5, <2>6 DEF N
<1>. QED
  BY <1>2, <1>3

\* The first entry that is kept: those from it to a message that is no result
\* have no result.
LEMMA FirstKeptIs ==
    ASSUME NEW path, NEW start, Len(path) \in Nat, start \in 1..Len(path), NEW over,
           CutPoints(path, start) # {}, NEW first, first = FirstKept(path, start, over)
    PROVE  \E cut \in start..Len(path) :
              /\ path[cut].kind \in ContextKinds \ {"toolResult"}
              /\ first \in start..cut
              /\ \A k \in first..(cut - 1) : path[k].kind # "toolResult"
<1> DEFINE cuts == CutPoints(path, start)
           later == {i \in cuts : i >= over}
           cut == IF over = 0 \/ later = {} THEN Min(cuts) ELSE Min(later)
           back == {j \in start..cut :
                      \A k \in j..(cut - 1) : path[k].kind \notin MessageKinds \union {"compaction"}}
<1>1. first = IF cuts = {} THEN start ELSE Min(back)
  BY DEF FirstKept
<1>2. cuts \in SUBSET Nat /\ cuts # {}
  BY DEF CutPoints
<1>3. \A i \in cuts : i \in start..Len(path) /\ path[i].kind \in ContextKinds \ {"toolResult"}
  BY DEF CutPoints
<1>. HIDE DEF cuts
<1>4. later \in SUBSET Nat /\ later \subseteq cuts
  BY <1>2
<1>5. Min(cuts) \in cuts /\ (later # {} => Min(later) \in later)
  <2>. HIDE DEF later
  <2>1. Min(cuts) \in cuts
    BY <1>2, MinIs
  <2>2. later # {} => Min(later) \in later
    BY <1>4, MinIs
  <2>. QED
    BY <2>1, <2>2
<1>6. cut \in cuts
  <2>. HIDE DEF later
  <2>. QED
    BY <1>4, <1>5
<1>. HIDE DEF cut, later
<1>7. cut \in start..Len(path) /\ path[cut].kind \in ContextKinds \ {"toolResult"}
  BY <1>3, <1>6
<1>8. back \in SUBSET Nat /\ back # {}
  <2>1. cut \in start..cut /\ cut..(cut - 1) = {}
    BY <1>7
  <2>2. cut \in back
    BY <2>1
  <2>3. back \in SUBSET Nat
    BY <1>7
  <2>. QED
    BY <2>2, <2>3
<1>9. \A j \in back : j \in start..cut /\ \A k \in j..(cut - 1) : path[k].kind # "toolResult"
  BY DEF MessageKinds
<1>. HIDE DEF back
<1>10. first \in back
  <2>1. Min(back) \in back
    BY <1>8, MinIs
  <2>. QED
    BY <1>1, <1>2, <2>1
<1>. QED
  BY <1>7, <1>9, <1>10

\* Where a turn starts, if it does.
LEMMA TurnStartIs ==
    ASSUME NEW path, NEW start \in Nat, NEW i \in Nat, start <= i, NEW turn, turn = TurnStart(path, start, i)
    PROVE  turn = 0 \/ (turn \in start..i /\ path[turn].kind \in TurnStarts)
<1> DEFINE S == {0} \union {j \in start..i : path[j].kind \in TurnStarts}
<1>1. turn = Max(S)
  BY DEF TurnStart
<1>2. S \in SUBSET (0..i) /\ 0 \in S
  OBVIOUS
<1>3. \A j \in S : j = 0 \/ (j \in start..i /\ path[j].kind \in TurnStarts)
  OBVIOUS
<1>. HIDE DEF S
<1>4. Max(S) \in S
  BY <1>2, MaxIs
<1>. QED
  BY <1>1, <1>3, <1>4

\* What is summarized is what is before the first entry that is kept.
LEMMA SummarizedIs ==
    ASSUME NEW path, NEW start, start = BoundaryStart(path), start \in Nat \ {0}, NEW first \in Nat, start <= first
    PROVE  Summarized(path, first) = Said(path, start, first - 1)
<1> DEFINE turn == SplitTurn(path, first)
           end == IF turn # 0 THEN turn ELSE first
<1>1. Summarized(path, first) = Said(path, start, end - 1)
                                  \union IF turn # 0 THEN Said(path, turn, first - 1) ELSE {}
  BY DEF Summarized, History, TurnPrefix
<1>2. turn = 0 \/ turn \in start..first
  <2>1. TurnStart(path, start, first) = 0 \/ TurnStart(path, start, first) \in start..first
    <3> DEFINE t == TurnStart(path, start, first)
    <3>1. t = TurnStart(path, start, first) /\ start \in Nat
      OBVIOUS
    <3>. HIDE DEF t
    <3>2. t = 0 \/ t \in start..first
      BY <3>1, TurnStartIs
    <3>. QED
      BY <3>2 DEF t
  <2>. QED
    BY <2>1 DEF SplitTurn
<1>. HIDE DEF turn
<1>3. CASE turn = 0
  BY <1>1, <1>3
<1>4. CASE turn # 0
  <2>1. turn \in start..first /\ end = turn
    BY <1>2, <1>4
  <2>2. (start..(turn - 1)) \union (turn..(first - 1)) = start..(first - 1)
    BY <2>1
  <2>3. Said(path, start, turn - 1) \union Said(path, turn, first - 1) = Said(path, start, first - 1)
    BY <2>2 DEF Said
  <2>. QED
    BY <1>1, <1>4, <2>1, <2>3
<1>. QED
  BY <1>3, <1>4

\* There is a place to cut when there is something to summarize.
LEMMA SomethingToCut ==
    ASSUME NEW path, NEW start, start = BoundaryStart(path), Len(path) \in Nat, start \in 1..Len(path), NEW over,
           NEW first, first = FirstKept(path, start, over), Summarized(path, first) # {}
    PROVE  CutPoints(path, start) # {}
<1>. SUFFICES ASSUME CutPoints(path, start) = {}
              PROVE  FALSE
  OBVIOUS
<1>1. first = start
  BY DEF FirstKept
<1>2. start \in Nat \ {0} /\ first \in Nat /\ start <= first
  BY <1>1
<1>3. Summarized(path, first) = Said(path, start, first - 1)
  BY <1>2, SummarizedIs
<1>4. start..(first - 1) = {}
  BY <1>1
<1>5. Said(path, start, first - 1) = {}
  BY <1>4 DEF Said
<1>. QED
  BY <1>3, <1>5

\* A compaction that has something to summarize keeps the rest of its branch.
LEMMA CompactionFollows ==
    ASSUME NEW path, NEW n, Good(path, n), PathOk(path), path # <<>>, NEW over,
           NEW first, first = FirstKept(path, BoundaryStart(path), over), Summarized(path, first) # {},
           NEW e, e.kind = "compaction", e.ref = path[first].id, e.covers = Covered(path, first)
    PROVE  \E f \in 1..Len(path) : Keeps(Append(path, e), Len(path) + 1, f)
<1> DEFINE N == Len(path)
           q == Append(path, e)
           start == BoundaryStart(path)
           prev == LastCompaction(path)
<1>1. /\ N \in Nat /\ start \in 1..N
      /\ prev = 0 => start = 1
      /\ prev # 0 /\ HandsOn(path, prev) => path[prev].covers = Said(path, 1, start - 1)
  <2> DEFINE s == start
             p == prev
  <2>1. s = BoundaryStart(path) /\ p = LastCompaction(path)
    OBVIOUS
  <2>. HIDE DEF s, p
  <2>2. /\ N \in Nat /\ s \in 1..N
        /\ p = 0 => s = 1
        /\ p # 0 /\ HandsOn(path, p) => path[p].covers = Said(path, 1, s - 1)
    BY <2>1, BoundaryIs
  <2>. QED
    BY <2>2 DEF s, p
<1>2. start = BoundaryStart(path) /\ first = FirstKept(path, start, over)
  OBVIOUS
<1>3. prev = 0 \/ History(path, first) # {} =>
        Covered(path, first) = Summarized(path, first) \union IF prev = 0 THEN {} ELSE path[prev].covers
  BY DEF Covered
<1>4. /\ Len(q) = N + 1 /\ q[N + 1] = e /\ \A i \in 1..N : q[i] = path[i]
  BY <1>1 DEF Good, IsSeq
<1>. HIDE DEF start, prev, q, N
<1>5. CutPoints(path, start) # {}
  BY <1>1, <1>2, SomethingToCut DEF N
<1>6. PICK cut \in start..N :
              /\ path[cut].kind \in ContextKinds \ {"toolResult"}
              /\ first \in start..cut
              /\ \A k \in first..(cut - 1) : path[k].kind # "toolResult"
  BY <1>1, <1>2, <1>5, FirstKeptIs DEF N
<1>7. first \in 1..N /\ start <= first /\ cut \in first..N /\ cut \in 1..N /\ first \in Nat /\ start \in Nat \ {0}
  BY <1>1, <1>6
<1>8. Summarized(path, first) = Said(path, start, first - 1)
  BY <1>2, <1>7, SummarizedIs
<1>14. SubSeq(q, 1, (N + 1) - 1) = path
  <2>1. PICK T : path \in Seq(T)
    BY DEF Good, IsSeq
  <2>2. \A i \in 1..N : q[i] = path[i] /\ path[i] \in T
    BY <1>1, <1>4, <2>1 DEF N
  <2> DEFINE t == SubSeq(q, 1, N)
  <2>3. t \in Seq(T) /\ Len(t) = (IF 1 <= N THEN N - 1 + 1 ELSE 0) /\ \A i \in 1..(N - 1 + 1) : t[i] = q[1 + i - 1]
    <3>1. 1 \in Int /\ N \in Int /\ \A i \in 1..N : q[i] \in T
      BY <1>1, <2>2
    <3>. QED
      BY <3>1, SubSeqProperties
  <2>. HIDE DEF t
  <2>4. Len(t) = N /\ \A i \in 1..N : t[i] = path[i]
    BY <1>1, <2>2, <2>3
  <2>5. t = path
    BY <2>1, <2>3, <2>4, SeqEqual DEF N
  <2>6. (N + 1) - 1 = N
    BY <1>1
  <2>. QED
    BY <2>5, <2>6 DEF t
<1>15. ASSUME HandsOn(q, N + 1)
       PROVE  (prev = 0 \/ History(path, first) # {}) /\ (prev # 0 => HandsOn(path, prev))
  <2>1. N + 1 \in 1..(N + 1) /\ first \in 1..((N + 1) - 1)
    BY <1>1, <1>7
  <2>2. q[N + 1].kind = "compaction" /\ q[first].id = q[N + 1].ref
    BY <1>4, <1>7
  <2>3. prev = 0 \/ History(path, first) # {}
    BY <1>14, <1>15, <2>1, <2>2 DEF HandsOn, prev
  <2>4. ASSUME prev # 0
        PROVE  HandsOn(path, prev)
    <3>1. prev \in 1..N
      BY <2>4, LastCompactionIs DEF prev, N
    <3>2. HandsOn(q, prev)
      <4>1. \A i \in 1..prev : i \in 1..(N + 1)
        BY <1>1, <3>1
      <4>. QED
        BY <1>15, <4>1 DEF HandsOn
    <3>3. Alike(path, q, N)
      BY <1>4 DEF Alike
    <3>4. IsSeq(path) /\ IsSeq(q)
      <4>1. PICK T : path \in Seq(T)
        BY DEF Good, IsSeq
      <4> DEFINE U == T \union {e}
      <4>2. path \in Seq(U) /\ e \in U
        BY <4>1
      <4>. HIDE DEF U
      <4>3. q \in Seq(U)
        BY <4>2 DEF q
      <4>. QED
        BY <4>2, <4>3 DEF IsSeq
    <3>5. N <= Len(path) /\ N <= Len(q)
      BY <1>1, <1>4 DEF N
    <3>. QED
      BY <1>1, <3>1, <3>2, <3>3, <3>4, <3>5, AlikeHandsOn
  <2>. QED
    BY <2>3, <2>4
<1>9. ASSUME HandsOn(q, N + 1)
      PROVE  e.covers = Said(path, 1, first - 1)
  <2>0. /\ prev = 0 \/ History(path, first) # {}
        /\ prev # 0 => HandsOn(path, prev)
    BY <1>9, <1>15
  <2>1. CASE prev = 0
    BY <1>1, <1>3, <1>8, <2>1
  <2>2. CASE prev # 0
    <3>1. 1..(first - 1) = (1..(start - 1)) \union (start..(first - 1))
      BY <1>7
    <3>2. Said(path, 1, first - 1) = Said(path, 1, start - 1) \union Said(path, start, first - 1)
      BY <3>1 DEF Said
    <3>. QED
      BY <1>1, <1>3, <1>8, <2>0, <2>2, <3>2
  <2>. QED
    BY <2>1, <2>2
<1>10. Said(path, 1, first - 1) = Said(q, 1, first - 1)
  <2>1. \A i \in 1..(first - 1) : q[i] = path[i]
    BY <1>1, <1>4, <1>7
  <2> DEFINE J == {j \in 1..(first - 1) : path[j].kind \in ContextKinds}
             K == {j \in 1..(first - 1) : q[j].kind \in ContextKinds}
  <2>2. J = K /\ \A i \in J : q[i].id = path[i].id
    BY <2>1
  <2>3. Said(path, 1, first - 1) = {path[i].id : i \in J} /\ Said(q, 1, first - 1) = {q[i].id : i \in K}
    BY DEF Said
  <2>. HIDE DEF J, K
  <2>4. {path[i].id : i \in J} = {q[i].id : i \in J}
    BY <2>2
  <2>. QED
    BY <2>2, <2>3, <2>4
<1>11. q[first].id = q[N + 1].ref /\ (HandsOn(q, N + 1) => q[N + 1].covers = Said(q, 1, first - 1))
  BY <1>4, <1>7, <1>9, <1>10
<1>12. cut \in first..((N + 1) - 1) /\ q[cut].kind \in ContextKinds /\ \A k \in first..cut : q[k].kind # "toolResult"
  <2>1. cut \in first..((N + 1) - 1)
    BY <1>1, <1>7
  <2>2. q[cut].kind \in ContextKinds \ {"toolResult"}
    BY <1>4, <1>6, <1>7
  <2>3. ASSUME NEW k \in first..cut
        PROVE  q[k].kind # "toolResult"
    <3>1. k \in 1..N /\ (k = cut \/ k \in first..(cut - 1))
      BY <1>1, <1>7
    <3>2. path[k].kind # "toolResult"
      BY <1>6, <3>1
    <3>. QED
      BY <1>4, <3>1, <3>2
  <2>. QED
    BY <2>1, <2>2, <2>3
<1>13. Keeps(q, N + 1, first)
  BY <1>11, <1>12 DEF Keeps
<1>. QED
  BY <1>7, <1>13 DEF q, N

\* Memory has good paths, and so has the file, while no write has failed.
PathsInv == failures = 0 => PathsOk(entries) /\ PathsOk(Load(file))

\* What may be appended to memory.
Fitting(e) == Appends(e) /\ MayFollow(Branch(entries, e.parent), e)

\* The branch at the leaf, or at another entry, is good.
LEMMA BranchAt ==
    ASSUME FileInv, PathsOk(entries), NEW at \in IdsOf(entries) \union {0}
    PROVE  Good(Branch(entries, at), nextId) /\ PathOk(Branch(entries, at))
<1>1. Good(entries, nextId) /\ nextId \in Nat
  BY DEF FileInv
<1>2. CASE at \in IdsOf(entries)
  <2>1. Good(Branch(entries, at), at + 1) /\ at \in Nat /\ at < nextId
    <3>1. Good(Branch(entries, at), at + 1)
      BY <1>1, <1>2, BranchGood
    <3>2. at \in Nat /\ at < nextId
      <4>1. EntryOf(entries, at).id = at /\ Made(EntryOf(entries, at), nextId)
        BY <1>1, <1>2, EntryOfIs
      <4>. QED
        BY <1>1, <4>1 DEF Made
    <3>. QED
      BY <3>1, <3>2
  <2>2. Good(Branch(entries, at), nextId)
    BY <1>1, <2>1, GoodLater
  <2>. QED
    BY <1>2, <2>2 DEF PathsOk
<1>3. CASE at \notin IdsOf(entries)
  <2>1. Branch(entries, at) = <<>> /\ Len(<<>>) = 0
    BY <1>1, <1>3, BranchStep
  <2>. QED
    BY <2>1, EmptyIsGood DEF PathOk
<1>. QED
  BY <1>2, <1>3

\* A plain entry fits,
LEMMA PlainFits ==
    ASSUME FileInv, PathsOk(entries), NEW kind \in Kinds \ {"compaction"}, Fits(kind)
    PROVE  Fitting(Entry(nextId, leaf, kind, 0, {}))
<1> DEFINE e == Entry(nextId, leaf, kind, 0, {})
           path == Branch(entries, leaf)
<1>1. leaf \in IdsOf(entries) \union {0}
  BY DEF FileInv
<1>2. Appends(e)
  BY <1>1, NewEntry
<1>3. e.kind = kind /\ e.parent = leaf
  BY EntryIs
<1>4. Good(path, nextId)
  BY <1>1, BranchAt
<1>. HIDE DEF e
<1>5. ASSUME kind = "toolResult"
      PROVE  Answered(path, Len(path) + 1)
  <2> DEFINE said == Messages(path)
  <2>1. said # <<>> /\ said[Len(said)].kind \in {"call", "toolResult"}
    BY <1>5 DEF Fits
  <2>2. said = Messages(path)
    OBVIOUS
  <2>. HIDE DEF said, path
  <2>. QED
    BY <1>4, <2>1, <2>2, ResultFollows
<1>6. MayFollow(Branch(entries, e.parent), e)
  BY <1>3, <1>5 DEF MayFollow
<1>. QED
  BY <1>2, <1>6 DEF Fitting, e

\* one that is neither a result nor a compaction fits anywhere,
LEMMA OtherFits ==
    ASSUME FileInv, NEW at \in IdsOf(entries) \union {0},
           NEW kind \in Kinds \ {"compaction", "toolResult"}, NEW ref
    PROVE  Fitting(Entry(nextId, at, kind, ref, {}))
<1> DEFINE e == Entry(nextId, at, kind, ref, {})
<1>1. Appends(e)
  BY NewEntry
<1>2. e.kind = kind
  BY EntryIs
<1>. HIDE DEF e
<1>3. MayFollow(Branch(entries, e.parent), e)
  BY <1>2 DEF MayFollow
<1>. QED
  BY <1>1, <1>3 DEF Fitting, e

\* and so does a compaction.
LEMMA CompactionFits ==
    ASSUME FileInv, PathsOk(entries), NEW over, NEW path, path = Branch(entries, leaf), path # <<>>,
           NEW first, first = FirstKept(path, BoundaryStart(path), over), Summarized(path, first) # {}
    PROVE  Fitting(Entry(nextId, leaf, "compaction", path[first].id, Covered(path, first)))
<1> DEFINE e == Entry(nextId, leaf, "compaction", path[first].id, Covered(path, first))
<1>1. leaf \in IdsOf(entries) \union {0} /\ "compaction" \in Kinds
  BY DEF FileInv, Kinds
<1>2. Appends(e)
  BY <1>1, NewEntry
<1>3. e.kind = "compaction" /\ e.parent = leaf /\ e.ref = path[first].id /\ e.covers = Covered(path, first)
  BY EntryIs
<1>4. Good(path, nextId) /\ PathOk(path)
  BY <1>1, BranchAt
<1>. HIDE DEF e
<1>5. \E f \in 1..Len(path) : Keeps(Append(path, e), Len(path) + 1, f)
  BY <1>3, <1>4, CompactionFollows
<1>6. MayFollow(Branch(entries, e.parent), e)
  BY <1>3, <1>5 DEF MayFollow
<1>. QED
  BY <1>2, <1>6 DEF Fitting, e

(***************************************************************************)
(* The paths in memory and in the file                                     *)
(***************************************************************************)
KindsIn(E) == {E[i].kind : i \in 1..Len(E)}

\* What can be loaded after an append: the same, the first entries of memory, or one entry more.
LEMMA AppendLoads ==
    ASSUME FileInv, NEW e, Appends(e), AppendEntry(e), NEW es, es = Append(entries, e)
    PROVE  /\ entries' = es \/ entries' = <<>>
           /\ failures' = failures \/ failures' = failures + 1
           /\ \/ Load(file') = Load(file)
              \/ \E k \in 0..Len(es) : Load(file') = SubSeq(es, 1, k)
              \/ Load(file') = Append(Load(file), e) /\ (failures = 0 => Load(file) = entries)
<1>1. up /\ nextId' = nextId + 1
  BY DEF AppendEntry
<1>2. Good(es, nextId + 1) /\ nextId + 1 \in Nat
  BY AppendedMemory
<1>3. /\ nextId \in Nat /\ FileOk(file, nextId) /\ Made(e, nextId + 1) /\ e.id = nextId /\ nextId <= nextId + 1
  BY DEF FileInv, Appends
<1>4. CASE entries' = es /\ Persists(es, e)
  <2>1. /\ failures' = failures /\ ~Blocked(es)
        /\ file' = (IF ToWrite(es, e) = <<>> THEN file ELSE PutLines(file, ToWrite(es, e)))
    BY <1>4 DEF Persists
  <2>2. CASE flushed
    <3>1. ToWrite(es, e) = <<e>> /\ <<e>> # <<>> /\ HasHeader(file)
      BY <1>1, <2>2 DEF ToWrite, FileInv
    <3>2. file' = PutLines(file, <<e>>)
      BY <2>1, <3>1
    <3>3. Load(file') = Append(Load(file), e)
      BY <1>3, <3>1, <3>2, PutAppend
    <3>4. failures = 0 => Load(file) = entries
      BY <1>1, <2>2 DEF FileInv, MemoryInFile
    <3>. QED
      BY <1>4, <2>1, <3>3, <3>4
  <2>3. CASE ~flushed /\ HasAssistant(es)
    <3>1. ToWrite(es, e) = <<Header>> \o es /\ ~file.there
      BY <2>1, <2>3 DEF ToWrite, Blocked
    <3>2. file.lines = <<>> /\ Load(file) = <<>> /\ FileOk(file, nextId + 1)
      BY <1>2, <1>3, <3>1, FileLoads, FileLater
    <3>3. <<Header>> \o es # <<>>
      BY <1>2, IdsOfParts, NothingWellFormed
    <3>4. file' = PutLines(file, <<Header>> \o es)
      BY <2>1, <3>1, <3>3
    <3>5. Load(file') = es
      BY <1>2, <3>2, <3>4, PutFresh
    <3>6. Len(es) \in 0..Len(es) /\ SubSeq(es, 1, Len(es)) = es
      <4>1. es \in Seq(ItemsOf(es)) /\ Len(es) \in Nat
        BY <1>2, GoodIsSeq DEF ItemsOf
      <4>. QED
        BY <4>1
    <3>. QED
      BY <1>4, <2>1, <3>5, <3>6
  <2>4. CASE ~flushed /\ ~HasAssistant(es)
    <3>1. ToWrite(es, e) = <<>>
      BY <2>4 DEF ToWrite
    <3>. QED
      BY <1>4, <2>1, <3>1
  <2>. QED
    BY <2>2, <2>3, <2>4
<1>5. CASE entries' = es /\ Throws(es, e)
  <2>1. CASE Blocked(es) /\ UNCHANGED <<file, failures>>
    BY <1>5, <2>1
  <2>2. CASE ~Blocked(es) /\ ToWrite(es, e) # <<>> /\ failures' = failures + 1 /\ file' \in CutShort(file, ToWrite(es, e))
    BY <1>1, <1>5, <2>2, CutOk
  <2>. QED
    BY <1>5, <2>1, <2>2 DEF Throws
<1>6. CASE /\ Die /\ ~Blocked(es) /\ ToWrite(es, e) # <<>>
           /\ file' \in CutShort(file, ToWrite(es, e))
           /\ UNCHANGED <<saved, failures>>
  <2>1. entries' = <<>> /\ failures' = failures
    BY <1>6 DEF Die, Forget
  <2>. QED
    BY <1>1, <1>6, <2>1, CutOk
<1>. QED
  BY <1>4, <1>5, <1>6 DEF AppendEntry

\* No entries have no paths.
LEMMA NoPaths == PathsOk(<<>>) /\ KindsIn(<<>>) = {}
BY DEF PathsOk, IdsOf, KindsIn

\* The paths of the first entries of a list.
LEMMA FirstPathsOk ==
    ASSUME NEW E, NEW n \in Nat, Good(E, n), WellFormed(E), PathsOk(E), NEW k \in 0..Len(E),
           NEW F, F = SubSeq(E, 1, k)
    PROVE  PathsOk(F)
<1>1. Len(E) \in Nat
  BY GoodIsSeq
<1>2. Good(F, n) /\ WellFormed(F)
  BY PrefixGood
<1>3. IsPart(E, 1, k, F)
  BY <1>1 DEF IsPart
<1>4. Len(F) = k - 1 + 1 /\ \A i \in 1..Len(F) : F[i] = E[i + (1 - 1)]
  BY <1>3, PartGood
<1>5. Len(F) <= Len(E)
  BY <1>1, <1>4
<1>6. \A i \in 1..Len(F) : F[i] = E[i]
  BY <1>4
<1>. QED
  BY <1>2, <1>5, <1>6, PrefixPathsOk

\* The paths stay good when an entry comes that fits.
LEMMA AppendPaths ==
    ASSUME FileInv, PathsInv, NEW e, Appends(e), failures = 0 => Fitting(e), AppendEntry(e)
    PROVE  PathsInv'
<1> DEFINE es == Append(entries, e)
<1>0. /\ entries' = es \/ entries' = <<>>
      /\ failures' = failures \/ failures' = failures + 1
      /\ \/ Load(file') = Load(file)
         \/ \E k \in 0..Len(es) : Load(file') = SubSeq(es, 1, k)
         \/ Load(file') = Append(Load(file), e) /\ (failures = 0 => Load(file) = entries)
  <2>1. es = Append(entries, e)
    OBVIOUS
  <2>. HIDE DEF es
  <2>. QED
    BY <2>1, AppendLoads
<1>. SUFFICES ASSUME failures' = 0
              PROVE  PathsOk(entries') /\ PathsOk(Load(file'))
  BY DEF PathsInv
<1>1. failures = 0
  BY <1>0 DEF FileInv
<1>2. Fitting(e) /\ PathsOk(entries) /\ PathsOk(Load(file)) /\ WellFormed(entries)
  BY <1>1 DEF PathsInv, FileInv
<1>3. Grown(entries, nextId, e, es)
  BY <1>2 DEF Grown, Appends, FileInv
<1>4. Good(es, nextId + 1) /\ WellFormed(es) /\ nextId + 1 \in Nat
  <2>1. es = Append(entries, e)
    OBVIOUS
  <2>. HIDE DEF es
  <2>. QED
    BY <1>1, <2>1, AppendedMemory
<1>5. MayFollow(Branch(entries, e.parent), e)
  BY <1>2 DEF Fitting
<1>. HIDE DEF es
<1>6. PathsOk(es)
  BY <1>2, <1>3, <1>5, AppendedPathsOk
<1>7. PathsOk(entries')
  BY <1>0, <1>6, NoPaths
<1>8. CASE Load(file') = Load(file)
  BY <1>2, <1>7, <1>8
<1>9. CASE \E k \in 0..Len(es) : Load(file') = SubSeq(es, 1, k)
  <2>1. PICK k \in 0..Len(es) : Load(file') = SubSeq(es, 1, k)
    BY <1>9
  <2> DEFINE F == SubSeq(es, 1, k)
  <2>2. F = SubSeq(es, 1, k)
    OBVIOUS
  <2>. HIDE DEF F
  <2>3. PathsOk(F)
    BY <1>4, <1>6, <2>2, FirstPathsOk
  <2>. QED
    BY <1>7, <2>1, <2>2, <2>3
<1>10. CASE Load(file') = Append(Load(file), e) /\ Load(file) = entries
  BY <1>6, <1>7, <1>10 DEF es
<1>. QED
  BY <1>0, <1>1, <1>8, <1>9, <1>10

\* The kinds of a list with one entry more, and of its first entries.
LEMMA KindsAppended ==
    ASSUME NEW E, NEW n, Good(E, n), NEW e, NEW es, es = Append(E, e)
    PROVE  /\ KindsIn(es) = KindsIn(E) \union {e.kind}
           /\ \A k \in 0..Len(es) : KindsIn(SubSeq(es, 1, k)) \subseteq KindsIn(es)
<1> DEFINE T == ItemsOf(E) \union {e}
<1>1. E \in Seq(T) /\ e \in T /\ Len(E) \in Nat
  <2>1. E \in Seq(ItemsOf(E)) /\ Len(E) \in Nat
    BY GoodIsSeq DEF ItemsOf
  <2>. QED
    BY <2>1
<1>. HIDE DEF T
<1>2. /\ es \in Seq(T) /\ Len(es) = Len(E) + 1 /\ es[Len(E) + 1] = e
      /\ \A i \in 1..Len(E) : es[i] = E[i]
  BY <1>1
<1>3. KindsIn(es) \subseteq KindsIn(E) \union {e.kind}
  <2>1. \A i \in 1..Len(es) : i = Len(E) + 1 \/ i \in 1..Len(E)
    BY <1>1, <1>2
  <2>. QED
    BY <1>2, <2>1 DEF KindsIn
<1>4. KindsIn(E) \union {e.kind} \subseteq KindsIn(es)
  <2>1. \A i \in 1..Len(E) : i \in 1..Len(es)
    BY <1>1, <1>2
  <2>2. Len(E) + 1 \in 1..Len(es)
    BY <1>1, <1>2
  <2>. QED
    BY <1>2, <2>1, <2>2 DEF KindsIn
<1>5. ASSUME NEW k \in 0..Len(es)
      PROVE  KindsIn(SubSeq(es, 1, k)) \subseteq KindsIn(es)
  <2> DEFINE t == SubSeq(es, 1, k)
  <2>1. Len(t) = k /\ \A i \in 1..k : t[i] = es[i] /\ i \in 1..Len(es)
    <3>1. \A i \in 1..k : es[i] \in T /\ i \in 1..Len(es)
      BY <1>2
    <3>2. k \in Nat /\ k <= Len(es)
      BY <1>1, <1>2
    <3>. QED
      BY <1>2, <3>1, <3>2
  <2>. HIDE DEF t
  <2>. QED
    BY <2>1 DEF KindsIn, t
<1>. QED
  BY <1>3, <1>4, <1>5

\* The kinds of entries there can be: a fork writes a label where there was one.
PossibleKinds ==
    scenario.kinds \union IF LabelKinds \intersect scenario.kinds = {} THEN {} ELSE LabelKinds
KindsInv == KindsIn(entries) \union KindsIn(Load(file)) \subseteq PossibleKinds

\* The kinds stay possible when an entry of a kind that happens comes.
LEMMA AppendKinds ==
    ASSUME FileInv, KindsInv, scenario' = scenario, NEW e, Appends(e), e.kind \in scenario.kinds, AppendEntry(e)
    PROVE  KindsInv'
<1> DEFINE es == Append(entries, e)
<1>1. es = Append(entries, e)
  OBVIOUS
<1>. HIDE DEF es
<1>2. /\ entries' = es \/ entries' = <<>>
      /\ \/ Load(file') = Load(file)
         \/ \E k \in 0..Len(es) : Load(file') = SubSeq(es, 1, k)
         \/ Load(file') = Append(Load(file), e)
  BY <1>1, AppendLoads
<1>3. Good(entries, nextId) /\ Good(Load(file), nextId)
  BY FileLoads DEF FileInv
<1>4. /\ KindsIn(es) = KindsIn(entries) \union {e.kind}
      /\ \A k \in 0..Len(es) : KindsIn(SubSeq(es, 1, k)) \subseteq KindsIn(es)
  BY <1>1, <1>3, KindsAppended
<1>5. KindsIn(Append(Load(file), e)) = KindsIn(Load(file)) \union {e.kind}
  BY <1>3, KindsAppended
<1>6. PossibleKinds' = PossibleKinds /\ e.kind \in PossibleKinds
  BY DEF PossibleKinds
<1>7. KindsIn(es) \subseteq PossibleKinds /\ KindsIn(Append(Load(file), e)) \subseteq PossibleKinds
  BY <1>4, <1>5, <1>6 DEF KindsInv
<1>8. KindsIn(entries') \subseteq PossibleKinds
  BY <1>2, <1>7, NoPaths
<1>9. KindsIn(Load(file')) \subseteq PossibleKinds
  BY <1>2, <1>4, <1>7 DEF KindsInv
<1>10. KindsInv' <=> KindsIn(entries') \union KindsIn(Load(file')) \subseteq PossibleKinds'
  BY DEF KindsInv
<1>. QED
  BY <1>6, <1>8, <1>9, <1>10

(***************************************************************************)
(* Forks                                                                   *)
(***************************************************************************)
\* Every entry is the child of the one before it.
Chained(E) == \A i \in 1..Len(E) : E[i].parent = IF i = 1 THEN 0 ELSE E[i - 1].id

\* The branches of a chain are its beginnings.
LEMMA ChainBranches ==
    ASSUME NEW E, NEW n \in Nat, Good(E, n), Chained(E)
    PROVE  \A k \in 1..Len(E) : Branch(E, E[k].id) = SubSeq(E, 1, k)
<1> DEFINE T == ItemsOf(E)
           Bad == {k \in 1..Len(E) : Branch(E, E[k].id) # SubSeq(E, 1, k)}
<1>1. E \in Seq(T) /\ Len(E) \in Nat /\ DOMAIN E = 1..Len(E)
  BY GoodIsSeq DEF ItemsOf
<1>. HIDE DEF T
<1>0. Branch(E, 0) = <<>>
  <2>. HIDE DEF Bad
  <2>1. 0 \notin IdsOf(E)
    BY IdsArePositive
  <2> DEFINE x == 0
  <2>2. x \notin IdsOf(E)
    BY <2>1
  <2>. HIDE DEF x
  <2>3. Branch(E, x) = <<>>
    BY <2>2, BranchStep
  <2>. QED
    BY <2>3 DEF x
<1>2. Bad = {}
  <2>. SUFFICES ASSUME Bad # {}
                PROVE  FALSE
    OBVIOUS
  <2>1. Bad \in SUBSET Nat
    OBVIOUS
  <2>2. PICK k \in Bad : \A j \in Bad : k <= j
    <3>. HIDE DEF Bad
    <3>. QED
      BY <2>1, Least
  <2>3. k \in 1..Len(E) /\ Branch(E, E[k].id) # SubSeq(E, 1, k)
    BY <2>2
  <2>4. E[k].id \in IdsOf(E) /\ EntryOf(E, E[k].id) = E[k]
    BY <2>3, EntryOfItem
  <2>5. Branch(E, E[k].id) = Append(Branch(E, E[k].parent), E[k])
    BY <2>4, BranchStep
  <2>6. CASE k = 1
    <3>1. E[k].parent = 0
      BY <2>3, <2>6 DEF Chained
    <3>2. Branch(E, 0) = <<>>
      BY <1>0
    <3>3. SubSeq(E, 1, 1) = <<E[1]>>
      <4>1. 1 \in 1..Len(E) /\ E[1] \in T
        BY <1>1, <2>3, <2>6
      <4>2. Len(SubSeq(E, 1, 1)) = 1 /\ SubSeq(E, 1, 1)[1] = E[1] /\ SubSeq(E, 1, 1) \in Seq(T)
        <5>1. \A i \in 1..1 : E[i] \in T
          BY <4>1
        <5>2. /\ SubSeq(E, 1, 1) \in Seq(T)
              /\ Len(SubSeq(E, 1, 1)) = IF 1 <= 1 THEN 1 - 1 + 1 ELSE 0
              /\ \A i \in 1..(1 - 1 + 1) : SubSeq(E, 1, 1)[i] = E[1 + i - 1]
          BY <5>1, SubSeqProperties
        <5>. QED
          BY <5>2
      <4>3. <<E[1]>> \in Seq(T) /\ Len(<<E[1]>>) = 1 /\ <<E[1]>>[1] = E[1]
        BY <4>1
      <4> DEFINE s == SubSeq(E, 1, 1)
                 t == <<E[1]>>
      <4>4. s \in Seq(T) /\ t \in Seq(T) /\ Len(s) = Len(t) /\ Len(s) = 1 /\ s[1] = t[1]
        BY <4>2, <4>3
      <4>. HIDE DEF s, t
      <4>5. \A i \in 1..Len(s) : s[i] = t[i]
        BY <4>4
      <4>6. s = t
        BY <4>4, <4>5, SeqEqual
      <4>. QED
        BY <4>6 DEF s, t
    <3>. QED
      BY <2>3, <2>5, <2>6, <3>1, <3>2, <3>3
  <2>7. CASE k # 1
    <3>1. k - 1 \in 1..Len(E) /\ ~(k <= k - 1)
      BY <1>1, <2>3, <2>7
    <3>2. k - 1 \notin Bad
      <4>. HIDE DEF Bad
      <4>. QED
        BY <2>2, <3>1
    <3>3. Branch(E, E[k - 1].id) = SubSeq(E, 1, k - 1)
      BY <3>1, <3>2
    <3>4. E[k].parent = E[k - 1].id
      BY <2>3, <2>7 DEF Chained
    <3>5. Append(SubSeq(E, 1, k - 1), E[k]) = SubSeq(E, 1, k)
      BY <1>1, <2>3, <3>1
    <3>. QED
      BY <2>3, <2>5, <3>3, <3>4, <3>5
  <2>. QED
    BY <2>3, <2>6, <2>7
<1>. QED
  BY <1>2

\* es begins as q does, and the rest is labels.
ForkOf(q, l, es) ==
    /\ Chained(es) /\ Len(q) \in Nat /\ Len(es) \in Nat /\ Len(q) <= Len(es) /\ Alike(q, es, Len(q))
    /\ \A i \in 1..Len(es) : i \in 1..Len(q) \/ es[i].kind = "label"
    /\ l = <<>> => Len(es) = Len(q)

\* What a fork is.
LEMMA ForkIs ==
    ASSUME NEW E, NEW l, NEW at, NEW next \in Nat \ {0}, NEW es, IsFork(E, l, at, next, es),
           NEW q, q = OfKinds(Branch(E, at), Kinds \ LabelKinds), Good(q, next)
    PROVE  ForkOf(q, l, es)
<1> DEFINE p == Rechained(q)
           m == Len(p)
<1>1. PICK k \in Nat : RelabelledFrom(p, next, k, es) /\ (l = <<>> => k = 0)
  BY DEF IsFork
<1>2. /\ Good(p, next) /\ m = Len(q)
      /\ \A i \in 1..Len(q) : p[i] = Entry(q[i].id, IF i = 1 THEN 0 ELSE q[i - 1].id, q[i].kind, q[i].ref, q[i].covers)
  BY RechainedGood
<1>. HIDE DEF p
<1>3. Len(q) \in Nat /\ Len(p) \in Nat
  BY <1>2, GoodIsSeq
<1>4. /\ Len(es) = m + k
      /\ \A i \in 1..m : es[i] = p[i]
      /\ \A i \in 1..k : /\ es[m + i].kind = "label" /\ es[m + i].id = next + i - 1
                         /\ es[m + i].parent = IF i = 1 THEN LastId(p) ELSE next + i - 2
  BY <1>1 DEF RelabelledFrom
<1>5. /\ p # <<>> => LastId(p) = p[m].id /\ m \in 1..m
      /\ p = <<>> => LastId(p) = 0 /\ m = 0
  BY <1>2, LastIdOf
<1>. HIDE DEF m
<1>6. \A i \in 1..m : /\ p[i].id = q[i].id /\ p[i].kind = q[i].kind /\ p[i].ref = q[i].ref /\ p[i].covers = q[i].covers
                      /\ p[i].parent = IF i = 1 THEN 0 ELSE q[i - 1].id
  <2>. SUFFICES ASSUME NEW i \in 1..m
                PROVE  /\ p[i].id = q[i].id /\ p[i].kind = q[i].kind /\ p[i].ref = q[i].ref /\ p[i].covers = q[i].covers
                       /\ p[i].parent = IF i = 1 THEN 0 ELSE q[i - 1].id
    OBVIOUS
  <2> DEFINE a == IF i = 1 THEN 0 ELSE q[i - 1].id
  <2>1. p[i] = Entry(q[i].id, a, q[i].kind, q[i].ref, q[i].covers)
    BY <1>2
  <2>. HIDE DEF a
  <2>2. /\ p[i].id = q[i].id /\ p[i].kind = q[i].kind /\ p[i].ref = q[i].ref /\ p[i].covers = q[i].covers
        /\ p[i].parent = a
    BY <2>1, EntryIs
  <2>. QED
    BY <2>2 DEF a
<1>7. Alike(q, es, Len(q))
  <2>1. Len(q) = m
    BY <1>2
  <2>2. ASSUME NEW i \in 1..m
        PROVE  q[i].id = es[i].id /\ q[i].kind = es[i].kind /\ q[i].ref = es[i].ref /\ q[i].covers = es[i].covers
    <3>1. es[i] = p[i]
      BY <1>4
    <3>. QED
      BY <1>6, <3>1
  <2>. QED
    BY <2>1, <2>2 DEF Alike
<1>70. m \in Nat /\ Len(q) = m
  BY <1>2, <1>3
<1>8. \A i \in 1..Len(es) : i \in 1..m \/ (i - m \in 1..k /\ m + (i - m) = i)
  <2>1. Len(es) = m + k
    BY <1>4
  <2>. QED
    BY <1>1, <1>70, <2>1
<1>9. ASSUME NEW i \in 1..Len(es)
      PROVE  es[i].parent = IF i = 1 THEN 0 ELSE es[i - 1].id
  <2>1. CASE i \in 1..m
    <3>1. es[i].parent = IF i = 1 THEN 0 ELSE q[i - 1].id
      <4>1. es[i] = p[i] /\ p[i].parent = IF i = 1 THEN 0 ELSE q[i - 1].id
        BY <1>4, <1>6, <2>1
      <4>. QED
        BY <4>1
    <3>2. i # 1 => i - 1 \in 1..m
      BY <1>70, <2>1
    <3>3. i # 1 => es[i - 1].id = q[i - 1].id
      <4>1. i # 1 => es[i - 1] = p[i - 1] /\ p[i - 1].id = q[i - 1].id
        BY <1>4, <1>6, <3>2
      <4>. QED
        BY <4>1
    <3>. QED
      BY <3>1, <3>3
  <2>2. CASE i - m = 1 /\ 1 \in 1..k /\ m + 1 = i
    <3>1. es[i].parent = LastId(p)
      BY <1>4, <2>2
    <3>2. CASE p = <<>>
      BY <1>5, <2>2, <3>1, <3>2
    <3>3. CASE p # <<>>
      <4>1. m \in 1..m /\ i # 1 /\ i - 1 = m
        BY <1>2, <1>3, <1>5, <2>2, <3>3
      <4>2. es[i - 1].id = p[m].id
        BY <1>4, <4>1
      <4>. QED
        BY <1>5, <3>1, <3>3, <4>1, <4>2
    <3>. QED
      BY <3>2, <3>3
  <2>3. CASE i - m \in 1..k /\ i - m # 1 /\ m + (i - m) = i
    <3>1. i - m - 1 \in 1..k /\ m + (i - m - 1) = i - 1 /\ i # 1
      BY <1>2, <1>3, <2>3
    <3>2. es[i].parent = next + (i - m) - 2
      BY <1>4, <2>3
    <3>3. es[i - 1].id = next + (i - m - 1) - 1
      BY <1>4, <3>1
    <3>4. next + (i - m) - 2 = next + (i - m - 1) - 1
      BY <1>2, <1>3
    <3>. QED
      BY <3>1, <3>2, <3>3, <3>4
  <2>. QED
    BY <1>8, <2>1, <2>2, <2>3
<1>10. \A i \in 1..Len(es) : i \in 1..Len(q) \/ es[i].kind = "label"
  <2>1. \A i \in 1..k : es[m + i].kind = "label"
    BY <1>4
  <2>. SUFFICES ASSUME NEW i \in 1..Len(es)
                PROVE  i \in 1..m \/ es[i].kind = "label"
    BY <1>70
  <2>2. CASE i - m \in 1..k /\ m + (i - m) = i
    BY <2>1, <2>2
  <2>. QED
    BY <1>8, <2>2
<1>11. Chained(es)
  BY <1>9 DEF Chained
<1>12. Len(es) \in Nat /\ Len(q) <= Len(es) /\ (l = <<>> => Len(es) = Len(q))
  BY <1>1, <1>2, <1>3, <1>4
<1>. QED
  BY <1>3, <1>7, <1>10, <1>11, <1>12 DEF ForkOf

\* A path without labels is left as it is.
LEMMA UnlabelledIsAll ==
    ASSUME NEW b, NEW n, Good(b, n), NEW q, q = OfKinds(b, Kinds \ LabelKinds),
           LabelKinds \intersect KindsIn(b) = {}
    PROVE  q = b
<1> DEFINE I == {i \in DOMAIN b : b[i].kind \in Kinds \ LabelKinds}
           T == ItemsOf(b)
<1>1. b \in Seq(T) /\ Len(b) \in Nat /\ DOMAIN b = 1..Len(b)
  BY GoodIsSeq DEF ItemsOf
<1>2. q = Picked(b, I)
  BY <1>1 DEF OfKinds
<1>3. \A i \in 1..Len(b) : b[i].kind \in Kinds /\ b[i].kind \in KindsIn(b) /\ (i \in I <=> b[i].kind \notin LabelKinds)
  BY <1>1 DEF Good, Made, KindsIn
<1>. HIDE DEF T, I
<1>4. \A i \in 1..Len(b) : i \in I <=> i > 0
  BY <1>3
<1>5. q = SubSeq(b, 0 + 1, Len(b))
  <2>1. 0 \in 0..Len(b)
    BY <1>1
  <2>. QED
    BY <1>1, <1>2, <1>4, <2>1, PickedFrom
<1>6. SubSeq(b, 0 + 1, Len(b)) = b
  BY <1>1
<1>. QED
  BY <1>5, <1>6

\* A path stays good without its labels when it has no compaction or no label.
LEMMA UnlabelledPathOk ==
    ASSUME NEW b, NEW n, Good(b, n), PathOk(b), NEW q, q = OfKinds(b, Kinds \ LabelKinds),
           "compaction" \notin KindsIn(b) \/ LabelKinds \intersect KindsIn(b) = {}
    PROVE  PathOk(q)
<1> DEFINE I == {i \in DOMAIN b : b[i].kind \in Kinds \ LabelKinds}
           T == ItemsOf(b)
<1>1. b \in Seq(T) /\ Len(b) \in Nat /\ DOMAIN b = 1..Len(b)
  BY GoodIsSeq DEF ItemsOf
<1>2. q = Picked(b, I) /\ I \subseteq 1..Len(b)
  BY <1>1 DEF OfKinds
<1>3. \A i \in 1..Len(b) : b[i].kind \in Kinds /\ b[i].kind \in KindsIn(b) /\ (i \in I <=> b[i].kind \notin LabelKinds)
  BY <1>1 DEF Good, Made, KindsIn
<1>. HIDE DEF T, I
<1>4. CASE LabelKinds \intersect KindsIn(b) = {}
  BY <1>4, UnlabelledIsAll
<1>5. CASE "compaction" \notin KindsIn(b)
  <2>1. q \in Seq(T) /\ \E g : Picks(b, I, q, g)
    BY <1>1, <1>2, PickedIs
  <2>2. PICK g : Picks(b, I, q, g)
    BY <2>1
  <2> DEFINE M == Len(q)
             N == Len(b)
  <2>3. M \in Nat /\ N \in Nat
    BY <1>1, <2>1
  <2>4. /\ \A k \in 1..M : g[k] \in 1..N /\ g[k] \in I /\ q[k] = b[g[k]]
        /\ \A k, l \in 1..M : k < l => g[k] < g[l]
        /\ \A i \in 1..N : i \in I => \E k \in 1..M : g[k] = i
    BY <2>2 DEF Picks
  <2>. HIDE DEF M, N
  <2>5. ASSUME NEW i \in 1..M
        PROVE  q[i].kind # "compaction"
    <3>1. g[i] \in 1..N /\ q[i] = b[g[i]]
      BY <2>4
    <3>2. b[g[i]].kind \in KindsIn(b)
      BY <1>3, <3>1 DEF N
    <3>. QED
      BY <1>5, <3>1, <3>2
  <2>6. ASSUME NEW i \in 1..M, q[i].kind = "toolResult"
        PROVE  Answered(q, i)
    <3>1. g[i] \in 1..N /\ b[g[i]].kind = "toolResult"
      BY <2>4, <2>6
    <3>2. Answered(b, g[i])
      BY <3>1 DEF PathOk, N
    <3>3. PICK j \in 1..(g[i] - 1) : /\ b[j].kind \in {"call", "toolResult"}
                                     /\ \A k \in (j + 1)..(g[i] - 1) : b[k].kind \notin ContextKinds
      BY <3>2 DEF Answered
    <3>4. j \in 1..N /\ j < g[i]
      BY <2>3, <3>1
    <3>5. j \in I
      <4>1. b[j].kind \notin LabelKinds
        BY <3>3 DEF LabelKinds
      <4>. QED
        BY <1>3, <3>4, <4>1 DEF N
    <3>6. PICK h \in 1..M : g[h] = j
      BY <2>4, <3>4, <3>5
    <3>7. h < i
      <4>1. h = i => FALSE
        BY <3>1, <3>4, <3>6
      <4>2. i < h => FALSE
        <5>1. i < h => g[i] < g[h]
          BY <2>4
        <5>. QED
          BY <3>1, <3>4, <3>6, <5>1
      <4>. QED
        BY <2>3, <4>1, <4>2
    <3>8. ASSUME NEW k \in (h + 1)..(i - 1)
          PROVE  q[k].kind \notin ContextKinds
      <4>1. k \in 1..M /\ h < k /\ k < i
        BY <2>3
      <4>2. g[h] < g[k] /\ g[k] < g[i] /\ g[k] \in 1..N
        BY <2>4, <4>1
      <4>3. g[k] \in (j + 1)..(g[i] - 1)
        BY <2>3, <3>1, <3>4, <3>6, <4>2
      <4>. QED
        BY <2>4, <3>3, <4>1, <4>3
    <3>9. h \in 1..(i - 1) /\ q[h].kind \in {"call", "toolResult"}
      <4>1. h \in 1..(i - 1)
        BY <2>3, <3>7
      <4>2. q[h] = b[j]
        BY <2>4, <3>6
      <4>. QED
        BY <3>3, <4>1, <4>2
    <3>. QED
      BY <3>8, <3>9 DEF Answered
  <2>. QED
    BY <2>5, <2>6 DEF PathOk, M
<1>. QED
  BY <1>4, <1>5

\* The kinds of a branch are kinds of the tree.
LEMMA BranchKinds ==
    ASSUME NEW E, NEW n \in Nat, Good(E, n), NEW x
    PROVE  KindsIn(Branch(E, x)) \subseteq KindsIn(E)
<1> DEFINE b == Branch(E, x)
<1>1. b \in Seq(ItemsOf(E))
  BY BranchStep
<1>. HIDE DEF b
<1>2. \A i \in 1..Len(b) : \E j \in 1..Len(E) : b[i] = E[j]
  BY <1>1 DEF ItemsOf
<1>. QED
  BY <1>2 DEF KindsIn, b

\* The branch that a fork is made of.
LEMMA ForkedBranch ==
    ASSUME NEW E, NEW n \in Nat, Good(E, n), NEW at \in IdsOf(E),
           NEW q, q = OfKinds(Branch(E, at), Kinds \ LabelKinds)
    PROVE  Good(Branch(E, at), n) /\ Good(q, n) /\ KindsIn(q) \subseteq KindsIn(E)
<1> DEFINE b == Branch(E, at)
<1>1. Good(b, n)
  <2>1. Good(b, at + 1) /\ at \in Nat /\ at < n
    <3>1. EntryOf(E, at).id = at /\ Made(EntryOf(E, at), n)
      BY EntryOfIs
    <3>2. at \in Nat /\ at < n
      BY <3>1 DEF Made
    <3>. QED
      BY <3>2, BranchGood
  <2>. HIDE DEF b
  <2>. QED
    BY <2>1, GoodLater
<1>2. KindsIn(b) \subseteq KindsIn(E)
  BY BranchKinds
<1>. HIDE DEF b
<1> DEFINE I == {i \in DOMAIN b : b[i].kind \in Kinds \ LabelKinds}
<1>3. q = Picked(b, I)
  BY DEF OfKinds, b
<1>. HIDE DEF I
<1>4. Good(q, n)
  BY <1>1, <1>3, PickedGood
<1>5. \A k \in 1..Len(q) : \E i \in 1..Len(b) : q[k] = b[i]
  <2>1. b \in Seq(ItemsOf(b))
    BY <1>1, GoodIsSeq DEF ItemsOf
  <2>2. PICK g : Picks(b, I, q, g)
    BY <1>3, <2>1, PickedIs
  <2>3. \A k \in 1..Len(q) : g[k] \in 1..Len(b) /\ q[k] = b[g[k]]
    BY <2>2 DEF Picks
  <2>. QED
    BY <2>3
<1>6. KindsIn(q) \subseteq KindsIn(b)
  <2>. SUFFICES ASSUME NEW k \in 1..Len(q)
                PROVE  q[k].kind \in KindsIn(b)
    BY DEF KindsIn
  <2>1. PICK i \in 1..Len(b) : q[k] = b[i]
    BY <1>5
  <2>. QED
    BY <2>1 DEF KindsIn
<1>. QED
  BY <1>1, <1>2, <1>4, <1>6 DEF b

\* The kinds of a fork are those of the tree, and labels only if there were some.
LEMMA ForkKinds ==
    ASSUME NEW E, NEW n \in Nat \ {0}, Good(E, n), NEW at \in IdsOf(E), NEW l, l = LabelsOf(E),
           NEW es, IsFork(E, l, at, n, es)
    PROVE  KindsIn(es) \subseteq KindsIn(E) \union IF LabelKinds \intersect KindsIn(E) = {} THEN {} ELSE LabelKinds
<1> DEFINE q == OfKinds(Branch(E, at), Kinds \ LabelKinds)
<1>1. q = OfKinds(Branch(E, at), Kinds \ LabelKinds)
  OBVIOUS
<1>. HIDE DEF q
<1>2. Good(q, n) /\ KindsIn(q) \subseteq KindsIn(E)
  <2>1. n \in Nat /\ Good(E, n)
    OBVIOUS
  <2>2. Good(Branch(E, at), n) /\ Good(q, n) /\ KindsIn(q) \subseteq KindsIn(E)
    BY <1>1, <2>1, ForkedBranch
  <2>. QED
    BY <2>2
<1>3. ForkOf(q, l, es) /\ (l = <<>> => Len(es) = Len(q))
  <2>1. ForkOf(q, l, es)
    BY <1>1, <1>2, ForkIs
  <2>. QED
    BY <2>1 DEF ForkOf
<1>4. \A i \in 1..Len(q) : es[i].kind = q[i].kind
  BY <1>3 DEF ForkOf, Alike
<1>5. \A i \in 1..Len(es) : i \in 1..Len(q) \/ es[i].kind = "label"
  BY <1>3 DEF ForkOf
<1>6. \A i \in 1..Len(es) : es[i].kind \in KindsIn(q) \/ es[i].kind = "label"
  BY <1>4, <1>5 DEF KindsIn
<1>7. CASE LabelKinds \intersect KindsIn(E) = {}
  <2>1. \A i \in 1..Len(E) : E[i].kind \notin LabelKinds
    BY <1>7 DEF KindsIn
  <2>2. l = <<>>
    BY <2>1, LabelsIsList
  <2>3. \A i \in 1..Len(es) : es[i].kind \in KindsIn(q)
    BY <1>3, <1>4, <2>2 DEF KindsIn
  <2>4. KindsIn(es) \subseteq KindsIn(q)
    BY <2>3 DEF KindsIn
  <2>. QED
    BY <1>2, <1>7, <2>4
<1>8. CASE LabelKinds \intersect KindsIn(E) # {}
  <2>1. KindsIn(es) \subseteq KindsIn(q) \union {"label"}
    BY <1>6 DEF KindsIn
  <2>2. "label" \in LabelKinds
    BY DEF LabelKinds
  <2>. QED
    BY <1>2, <1>8, <2>1, <2>2
<1>. QED
  BY <1>7, <1>8

\* The paths of a fork are good.
LEMMA ForkPaths ==
    ASSUME NEW E, NEW n \in Nat \ {0}, Good(E, n), PathsOk(E), NEW at \in IdsOf(E), NEW l,
           NEW es, IsFork(E, l, at, n, es), NEW m \in Nat, Good(es, m),
           "compaction" \notin KindsIn(E) \/ LabelKinds \intersect KindsIn(E) = {}
    PROVE  PathsOk(es)
<1> DEFINE b == Branch(E, at)
           q == OfKinds(b, Kinds \ LabelKinds)
<1>1. q = OfKinds(b, Kinds \ LabelKinds) /\ b = Branch(E, at)
  OBVIOUS
<1>. HIDE DEF q, b
<1>2. Good(b, n) /\ Good(q, n)
  BY <1>1, ForkedBranch
<1>3. PathOk(b)
  BY <1>1 DEF PathsOk
<1>4. KindsIn(b) \subseteq KindsIn(E)
  BY <1>1, BranchKinds
<1>5. PathOk(q)
  BY <1>1, <1>2, <1>3, <1>4, UnlabelledPathOk
<1>6. ForkOf(q, l, es)
  BY <1>1, <1>2, ForkIs
<1>7. /\ Chained(es) /\ Len(q) \in Nat /\ Len(es) \in Nat /\ Len(q) <= Len(es) /\ Alike(q, es, Len(q))
      /\ \A i \in 1..Len(es) : i \in 1..Len(q) \/ es[i].kind = "label"
  BY <1>6 DEF ForkOf
<1>8. PathOk(es)
  <2>. SUFFICES ASSUME NEW i \in 1..Len(es)
                PROVE  /\ es[i].kind = "toolResult" => Answered(es, i)
                       /\ es[i].kind = "compaction" => \E f \in 1..(i - 1) : Keeps(es, i, f)
    BY DEF PathOk
  <2>1. CASE i \in 1..Len(q)
    <3>1. q[i].kind = es[i].kind
      BY <1>7, <2>1 DEF Alike
    <3>2. i \in 1..(Len(q) + 1)
      BY <1>7, <2>1
    <3>3. es[i].kind = "toolResult" => Answered(es, i)
      BY <1>5, <1>7, <2>1, <3>1, <3>2, AlikeAnswered DEF PathOk
    <3>4. es[i].kind = "compaction" => \E f \in 1..(i - 1) : Keeps(es, i, f)
      <4>1. IsSeq(q) /\ IsSeq(es) /\ Len(q) <= Len(q)
        BY <1>2, <1>7 DEF Good
      <4>. QED
        BY <1>5, <1>7, <2>1, <3>1, <4>1, AlikeKeeps DEF PathOk
    <3>. QED
      BY <3>3, <3>4
  <2>2. CASE es[i].kind = "label"
    BY <2>2
  <2>. QED
    BY <1>7, <2>1, <2>2
<1>9. ASSUME NEW x \in IdsOf(es)
      PROVE  PathOk(Branch(es, x))
  <2>1. PICK k \in 1..Len(es) : x = es[k].id
    BY GoodIsSeq DEF IdsOf
  <2> DEFINE t == SubSeq(es, 1, k)
  <2>2. Branch(es, x) = t
    BY <1>7, <2>1, ChainBranches
  <2>3. Len(t) = k /\ \A i \in 1..k : t[i] = es[i]
    <3>1. es \in Seq(ItemsOf(es))
      BY GoodIsSeq DEF ItemsOf
    <3>. QED
      BY <1>7, <3>1
  <2>6. IsSeq(es) /\ IsSeq(t)
    <3>1. es \in Seq(ItemsOf(es))
      BY GoodIsSeq DEF ItemsOf
    <3>2. t \in Seq(ItemsOf(es))
      BY <1>7, <3>1
    <3>. QED
      BY <3>1, <3>2 DEF IsSeq
  <2>. HIDE DEF t
  <2>4. Len(t) \in 0..Len(es) /\ Alike(es, t, Len(t))
    BY <1>7, <2>3 DEF Alike
  <2>5. PathOk(t)
    BY <1>7, <1>8, <2>4, <2>6, AlikePathOk
  <2>. QED
    BY <2>2, <2>5
<1>. QED
  BY <1>9 DEF PathsOk

(***************************************************************************)
(* No branch forgets a message                                             *)
(***************************************************************************)
\* The application does not both compact and label,
Apart == "compaction" \notin scenario.kinds \/ LabelKinds \intersect scenario.kinds = {}

\* or does not fork.
ForksWhole == scenario.forks => Apart

TreeInv == ForksWhole /\ KindsInv /\ PathsInv

\* The invariant says the same of lists that are the same.
LEMMA SameTrees ==
    ASSUME TreeInv, scenario' = scenario, failures' = failures,
           NEW E, NEW F, entries' = E, Load(file') = F,
           E = <<>> \/ E = entries \/ E = Load(file), F = <<>> \/ F = entries \/ F = Load(file)
    PROVE  TreeInv'
<1>1. ForksWhole' /\ PossibleKinds' = PossibleKinds
  BY DEF TreeInv, ForksWhole, Apart, PossibleKinds
<1>2. KindsIn(E) \subseteq PossibleKinds /\ KindsIn(F) \subseteq PossibleKinds
  BY NoPaths DEF TreeInv, KindsInv
<1>3. failures = 0 => PathsOk(E) /\ PathsOk(F)
  BY NoPaths DEF TreeInv, PathsInv
<1>4. KindsInv'
  <2>1. KindsInv' <=> KindsIn(E) \union KindsIn(F) \subseteq PossibleKinds'
    BY DEF KindsInv
  <2>. QED
    BY <1>1, <1>2, <2>1
<1>5. PathsInv'
  <2>1. PathsInv' <=> (failures = 0 => PathsOk(E) /\ PathsOk(F))
    BY DEF PathsInv
  <2>. QED
    BY <1>3, <2>1
<1>. QED
  BY <1>1, <1>4, <1>5 DEF TreeInv

\* The invariant holds initially.
LEMMA TreeInit == Init /\ ForksWhole => TreeInv
<1>. SUFFICES ASSUME Init, ForksWhole
              PROVE  TreeInv
  OBVIOUS
<1>1. entries = <<>> /\ Load(file) = <<>>
  BY NoFileOk DEF Init
<1>. QED
  BY <1>1, NoPaths DEF TreeInv, KindsInv, PathsInv

\* It survives an append,
LEMMA AppendTree ==
    ASSUME FileInv, TreeInv, scenario' = scenario, NEW e, Appends(e), e.kind \in scenario.kinds,
           failures = 0 => Fitting(e), AppendEntry(e)
    PROVE  TreeInv'
<1>1. ForksWhole'
  BY DEF TreeInv, ForksWhole, Apart
<1>2. KindsInv'
  BY AppendKinds DEF TreeInv
<1>3. PathsInv'
  BY AppendPaths DEF TreeInv
<1>. QED
  BY <1>1, <1>2, <1>3 DEF TreeInv

\* and a fork.
LEMMA ForkTree ==
    ASSUME FileInv, TreeInv, scenario' = scenario, NEW at, Fork(at)
    PROVE  TreeInv'
<1> DEFINE old == Load(file)
           l == LabelsOf(old)
           es == Forked(old, l, at, nextId)
           after == nextId + Cardinality(IdsOf(es) \ IdsOf(old))
<1>1. /\ scenario.forks /\ at \in IdsOf(old) /\ failures' = failures /\ entries' = es
      /\ file' = (IF HasAssistant(es) THEN PutLines(NoFile, <<Header>> \o es) ELSE NoFile)
  BY DEF Fork
<1>2. Good(old, nextId) /\ nextId \in Nat \ {0}
  BY FileLoads DEF FileInv
<1>3. es = Forked(old, l, at, nextId) /\ after = nextId + Cardinality(IdsOf(es) \ IdsOf(old)) /\ l = LabelsOf(old)
  OBVIOUS
<1>. HIDE DEF es, after, l
<1>4. IsSeq(l)
  BY <1>2, <1>3, LabelsIsList
<1>. HIDE DEF old
<1>5. after \in Nat \ {0} /\ Good(es, after) /\ WellFormed(es) /\ IsFork(old, l, at, nextId, es)
  BY <1>1, <1>2, <1>3, <1>4, ForkedGood
<1>6. FileOk(NoFile, after) /\ NoFile.lines = <<>> /\ Load(NoFile) = <<>>
  BY NoFileOk
<1>7. Load(file') = es \/ Load(file') = <<>>
  <2>1. CASE HasAssistant(es)
    BY <1>1, <1>5, <1>6, <2>1, PutFresh
  <2>2. CASE ~HasAssistant(es)
    BY <1>1, <1>6, <2>2
  <2>. QED
    BY <2>1, <2>2
<1>8. KindsIn(old) \subseteq PossibleKinds
  BY DEF TreeInv, KindsInv, old
<1>9. KindsIn(es) \subseteq KindsIn(old) \union IF LabelKinds \intersect KindsIn(old) = {} THEN {} ELSE LabelKinds
  BY <1>1, <1>2, <1>3, <1>5, ForkKinds
<1>10. KindsIn(es) \subseteq PossibleKinds
  <2>1. CASE LabelKinds \intersect scenario.kinds = {}
    <3>1. LabelKinds \intersect KindsIn(old) = {}
      BY <1>8, <2>1 DEF PossibleKinds
    <3>. QED
      BY <1>8, <1>9, <3>1
  <2>2. CASE LabelKinds \intersect scenario.kinds # {}
    <3>1. LabelKinds \subseteq PossibleKinds
      BY <2>2 DEF PossibleKinds
    <3>. QED
      BY <1>8, <1>9, <3>1
  <2>. QED
    BY <2>1, <2>2
<1>11. "compaction" \notin KindsIn(old) \/ LabelKinds \intersect KindsIn(old) = {}
  <2>1. "compaction" \notin LabelKinds
    BY DEF LabelKinds
  <2>2. CASE "compaction" \notin scenario.kinds
    BY <1>8, <2>1, <2>2 DEF PossibleKinds
  <2>3. CASE LabelKinds \intersect scenario.kinds = {}
    BY <1>8, <2>3 DEF PossibleKinds
  <2>. QED
    BY <1>1, <2>2, <2>3 DEF TreeInv, ForksWhole, Apart
<1>12. failures = 0 => PathsOk(es)
  <2>. SUFFICES ASSUME failures = 0
                PROVE  PathsOk(es)
    OBVIOUS
  <2>1. PathsOk(old)
    BY DEF TreeInv, PathsInv, old
  <2>. QED
    BY <1>1, <1>2, <1>5, <1>11, <2>1, ForkPaths
<1>13. ForksWhole' /\ PossibleKinds' = PossibleKinds
  BY DEF TreeInv, ForksWhole, Apart, PossibleKinds
<1>14. KindsInv'
  <2>1. KindsInv' <=> KindsIn(es) \union KindsIn(Load(file')) \subseteq PossibleKinds'
    BY <1>1 DEF KindsInv
  <2>2. KindsIn(Load(file')) \subseteq PossibleKinds
    BY <1>7, <1>10, NoPaths
  <2>. QED
    BY <1>10, <1>13, <2>1, <2>2
<1>15. PathsInv'
  <2>1. PathsInv' <=> (failures = 0 => PathsOk(es) /\ PathsOk(Load(file')))
    BY <1>1 DEF PathsInv
  <2>. QED
    BY <1>7, <1>12, <2>1, NoPaths
<1>. QED
  BY <1>13, <1>14, <1>15 DEF TreeInv

\* The invariant survives every step.
LEMMA TreeStep == FileInv /\ TreeInv /\ [Next]_vars => TreeInv'
<1>. SUFFICES ASSUME FileInv, TreeInv, [Next]_vars
              PROVE  TreeInv'
  OBVIOUS
<1>0. nextId \in Nat
  BY DEF FileInv
<1>1. CASE UNCHANGED vars
  <2>1. scenario' = scenario /\ failures' = failures /\ entries' = entries /\ file' = file
    BY <1>1 DEF vars, memory
  <2>. QED
    BY <2>1, SameTrees
<1>2. CASE Next
  <2>0. scenario' = scenario /\ leaf \in IdsOf(entries) \union {0}
    BY <1>2 DEF Next, FileInv
  <2>1. CASE NewSession
    <3>1. failures' = failures /\ entries' = <<>> /\ Load(file') = <<>>
      BY <2>1, NoFileOk DEF NewSession, Forget
    <3>. QED
      BY <2>0, <3>1, SameTrees
  <2>2. CASE Crash
    <3>1. failures' = failures /\ entries' = <<>> /\ file' = file
      BY <2>2 DEF Crash, Die, Forget
    <3>. QED
      BY <2>0, <3>1, SameTrees
  <2>3. CASE Open
    <3>1. failures' = failures /\ entries' = Load(file) /\ (file' = file \/ file' = PutLines(NoFile, <<Header>>))
      BY <2>3 DEF Open
    <3>2. Load(file') = Load(file) \/ Load(file') = <<>>
      BY <1>0, <3>1, Afresh
    <3>. QED
      BY <2>0, <3>1, <3>2, SameTrees
  <2>4. CASE ForkFrom
    <3>1. failures' = failures /\ entries' = Load(file) /\ file' = PutLines(NoFile, <<Header>> \o Load(file))
      BY <2>4 DEF ForkFrom
    <3>2. Good(Load(file), nextId)
      BY FileLoads DEF FileInv
    <3>3. FileOk(NoFile, nextId) /\ NoFile.lines = <<>>
      BY NoFileOk
    <3>4. Load(file') = Load(file)
      BY <1>0, <3>1, <3>2, <3>3, PutFresh
    <3>. QED
      BY <2>0, <3>1, <3>4, SameTrees
  <2>5. CASE ForkUnreadable
    <3>1. failures' = failures /\ entries' = entries /\ file' = PutLines(NoFile, <<Header>>)
      BY <2>5 DEF ForkUnreadable, memory
    <3>2. Load(file') = <<>>
      BY <1>0, <3>1, Afresh
    <3>. QED
      BY <2>0, <3>1, <3>2, SameTrees
  <2>6. ASSUME NEW kind \in Kinds, AppendPlain(kind)
        PROVE  TreeInv'
    <3> DEFINE e == Entry(nextId, leaf, kind, 0, {})
    <3>1. kind \in scenario.kinds /\ kind \in Kinds \ {"compaction"} /\ Fits(kind) /\ AppendEntry(e)
      BY <2>6 DEF AppendPlain
    <3>2. e.kind = kind
      BY EntryIs
    <3>3. Appends(e)
      BY <2>0, NewEntry
    <3>4. failures = 0 => Fitting(e)
      BY <3>1, PlainFits DEF TreeInv, PathsInv
    <3>. HIDE DEF e
    <3>. QED
      BY <2>0, <3>1, <3>2, <3>3, <3>4, AppendTree
  <2>7. ASSUME NEW kind \in LabelKinds, NEW target \in IdsOf(entries), AppendLabelChange(kind, target)
        PROVE  TreeInv'
    <3> DEFINE e == Entry(nextId, leaf, kind, target, {})
    <3>1. kind \in scenario.kinds /\ AppendEntry(e)
      BY <2>7 DEF AppendLabelChange
    <3>2. kind \in Kinds \ {"compaction", "toolResult"}
      BY DEF Kinds, LabelKinds
    <3>3. e.kind = kind
      BY EntryIs
    <3>4. Fitting(e) /\ Appends(e)
      BY <2>0, <3>2, OtherFits DEF Fitting
    <3>. HIDE DEF e
    <3>. QED
      BY <2>0, <3>1, <3>3, <3>4, AppendTree
  <2>8. ASSUME NEW over \in 0..Len(Branch(entries, leaf)), AppendCompaction(over)
        PROVE  TreeInv'
    <3> DEFINE path == Branch(entries, leaf)
               first == FirstKept(path, BoundaryStart(path), over)
               e == Entry(nextId, leaf, "compaction", path[first].id, Covered(path, first))
    <3>1. /\ "compaction" \in scenario.kinds /\ path # <<>> /\ Summarized(path, first) # {}
          /\ AppendEntry(e)
      BY <2>8 DEF AppendCompaction
    <3>2. path = Branch(entries, leaf) /\ first = FirstKept(path, BoundaryStart(path), over)
          /\ e = Entry(nextId, leaf, "compaction", path[first].id, Covered(path, first))
      OBVIOUS
    <3>. HIDE DEF path, first, e
    <3>3. e.kind = "compaction"
      BY <3>2, EntryIs
    <3>4. Appends(e)
      BY <2>0, <3>2, NewEntry DEF Kinds
    <3>5. failures = 0 => Fitting(e)
      <4>. SUFFICES ASSUME failures = 0
                    PROVE  Fitting(e)
        OBVIOUS
      <4>1. PathsOk(entries)
        BY DEF TreeInv, PathsInv
      <4>. QED
        BY <3>1, <3>2, <4>1, CompactionFits
    <3>. QED
      BY <2>0, <3>1, <3>3, <3>4, <3>5, AppendTree
  <2>9. ASSUME NEW to \in IdsOf(entries) \union {0}, MoveLeaf(to)
        PROVE  TreeInv'
    <3>1. failures' = failures /\ entries' = entries /\ file' = file
      BY <2>9 DEF MoveLeaf
    <3>. QED
      BY <2>0, <3>1, SameTrees
  <2>10. ASSUME NEW to \in IdsOf(entries) \union {0}, BranchWithSummary(to)
         PROVE  TreeInv'
    <3> DEFINE e == Entry(nextId, to, "summary", 0, {})
    <3>1. "summary" \in scenario.kinds /\ AppendEntry(e)
      BY <2>10 DEF BranchWithSummary
    <3>2. "summary" \in Kinds \ {"compaction", "toolResult"}
      BY DEF Kinds, ContextKinds
    <3>3. e.kind = "summary"
      BY EntryIs
    <3>4. Fitting(e) /\ Appends(e)
      BY <3>2, OtherFits DEF Fitting
    <3>. HIDE DEF e
    <3>. QED
      BY <2>0, <3>1, <3>3, <3>4, AppendTree
  <2>11. ASSUME NEW at \in IdsOf(entries), Fork(at)
         PROVE  TreeInv'
    BY <2>0, <2>11, ForkTree
  <2>. QED
    BY <1>2, <2>1, <2>2, <2>3, <2>4, <2>5, <2>6, <2>7, <2>8, <2>9, <2>10, <2>11 DEF Next, Step
<1>. QED
  BY <1>1, <1>2

\* The branch at every entry in memory is good.
LEMMA BranchesGood ==
    ASSUME FileInv, TreeInv, failures = 0, NEW i \in DOMAIN entries
    PROVE  Good(Branch(entries, entries[i].id), nextId) /\ PathOk(Branch(entries, entries[i].id))
<1>1. entries[i].id \in IdsOf(entries) \union {0}
  BY DEF IdsOf
<1>2. PathsOk(entries)
  BY DEF TreeInv, PathsInv
<1>. QED
  BY <1>1, <1>2, BranchAt

\* While no write has failed, every message of every branch is either in its
\* context or in a summary that its context has, and never in both, whatever is
\* compacted, branched, forked, crashed and reopened (appendCompaction,
\* prepareCompaction, buildSessionContext, createBranchedSession). A piece of a
\* line, a failed write, and a fork of a session with labels behind a
\* compaction are what breaks it, and a compaction that drops the summary before
\* it, whose branches the property leaves out.
THEOREM NothingForgottenHolds ==
    Spec /\ Whole /\ ForksWhole => [](failures = 0 => NothingForgotten)
<1>1. FileInv /\ TreeInv => (failures = 0 => NothingForgotten)
  <2>. SUFFICES ASSUME FileInv, TreeInv, failures = 0, NEW i \in DOMAIN entries
                PROVE  HandsOn(Branch(entries, entries[i].id), Len(Branch(entries, entries[i].id)))
                         => Recalled(Branch(entries, entries[i].id))
    BY DEF NothingForgotten
  <2>. QED
    BY BranchesGood, PathRemembers
<1>. QED
  BY <1>1, FileInit, FileStep, TreeInit, TreeStep, PTL DEF Spec

\* Under the same conditions no context has the result of a tool without the
\* call before it: no compaction cuts between them (findValidCutPoints).
THEOREM NoOrphanResultHolds ==
    Spec /\ Whole /\ ForksWhole => [](failures = 0 => NoOrphanResult)
<1>1. FileInv /\ TreeInv => (failures = 0 => NoOrphanResult)
  <2>. SUFFICES ASSUME FileInv, TreeInv, failures = 0, NEW i \in DOMAIN entries
                PROVE  Paired(Branch(entries, entries[i].id))
    BY DEF NoOrphanResult, Paired
  <2>. QED
    BY BranchesGood, PathPaired
<1>. QED
  BY <1>1, FileInit, FileStep, TreeInit, TreeStep, PTL DEF Spec

(***************************************************************************)
(* A fork sends what the original would                                    *)
(***************************************************************************)
\* Every id of a list is one of the other.
Within(s, t) == \A i \in 1..Len(s) : \E j \in 1..Len(t) : t[j].id = s[i].id

\* Two lists have the same ids, in the same order.
SameIds(x, y) ==
    /\ IsSeq(x) /\ IsSeq(y) /\ Len(x) = Len(y)
    /\ \A i \in 1..Len(x) : x[i].id = y[i].id

\* Ids that grow are enumerated in one way.
LEMMA OneOrder ==
    ASSUME NEW s, NEW n, Good(s, n), NEW t, NEW m, Good(t, m), Within(s, t), Within(t, s)
    PROVE  \A k \in 1..Len(s) : k \in 1..Len(t) /\ s[k].id = t[k].id
<1> DEFINE K == Len(s)
           L == Len(t)
           bad == {k \in 1..K : ~(k \in 1..L /\ s[k].id = t[k].id)}
<1>1. K \in Nat /\ L \in Nat
  BY GoodIsSeq
<1>2. /\ \A i \in 1..K : s[i].id \in Nat
      /\ \A j \in 1..L : t[j].id \in Nat
  <2>1. /\ \A i \in 1..K : s[i].id \in 1..(n - 1)
        /\ \A j \in 1..L : t[j].id \in 1..(m - 1)
    BY DEF Good, Made
  <2>. QED
    BY <2>1
<1>3. /\ \A i, j \in 1..K : i < j => s[i].id < s[j].id
      /\ \A i, j \in 1..L : i < j => t[i].id < t[j].id
  BY DEF Good
<1>4. /\ \A i \in 1..K : \E j \in 1..L : t[j].id = s[i].id
      /\ \A j \in 1..L : \E i \in 1..K : s[i].id = t[j].id
  BY DEF Within
<1>. HIDE DEF K, L
<1>5. CASE bad # {}
  <2>1. PICK k \in bad : \A j \in bad : k <= j
    <3>1. bad \in SUBSET Nat
      BY <1>1
    <3>. HIDE DEF bad
    <3>. QED
      BY <1>5, <3>1, Least
  <2>2. k \in 1..K /\ ~(k \in 1..L /\ s[k].id = t[k].id)
    BY <2>1
  <2>3. ASSUME NEW j \in 1..(k - 1)
        PROVE  j \in 1..K /\ j \in 1..L /\ s[j].id = t[j].id /\ j < k
    <3>1. j \in 1..K /\ j < k /\ ~(k <= j)
      BY <1>1, <2>2
    <3>2. j \notin bad
      BY <2>1, <3>1
    <3>. QED
      BY <3>1, <3>2
  <2>4. PICK j \in 1..L : t[j].id = s[k].id
    BY <1>4, <2>2
  <2>5. ~(j < k)
    <3>. SUFFICES ASSUME j < k
                  PROVE  FALSE
      OBVIOUS
    <3>1. j \in 1..(k - 1)
      BY <1>1, <2>2
    <3>2. s[j].id = t[j].id /\ s[j].id < s[k].id
      BY <1>3, <2>2, <2>3, <3>1
    <3>. QED
      BY <1>2, <2>2, <2>4, <3>2
  <2>6. k \in 1..L /\ k < j
    <3>1. k \in 1..L
      BY <1>1, <2>2, <2>5
    <3>2. k # j
      BY <2>2, <2>4, <3>1
    <3>. QED
      BY <1>1, <2>2, <2>5, <3>1, <3>2
  <2>7. t[k].id < s[k].id
    BY <1>3, <2>4, <2>6
  <2>8. PICK i \in 1..K : s[i].id = t[k].id
    BY <1>4, <2>6
  <2>9. i < k
    <3>1. i = k => FALSE
      BY <1>2, <2>2, <2>7, <2>8
    <3>2. k < i => FALSE
      <4>1. k < i => s[k].id < s[i].id
        BY <1>3, <2>2
      <4>. QED
        BY <1>2, <2>2, <2>7, <2>8, <4>1
    <3>. QED
      BY <1>1, <2>2, <3>1, <3>2
  <2>10. t[i].id = t[k].id /\ t[i].id < t[k].id
    <3>1. i \in 1..(k - 1)
      BY <1>1, <2>2, <2>9
    <3>2. i \in 1..L /\ s[i].id = t[i].id
      BY <2>3, <3>1
    <3>3. t[i].id < t[k].id
      BY <1>3, <2>6, <2>9, <3>2
    <3>. QED
      BY <2>8, <3>2, <3>3
  <2>. QED
    BY <1>2, <2>6, <2>10
<1>6. CASE bad = {}
  BY <1>6 DEF K, L
<1>. QED
  BY <1>5, <1>6

\* So two such lists with one set of ids have the same.
LEMMA SameIdsGood ==
    ASSUME NEW s, NEW n, Good(s, n), NEW t, NEW m, Good(t, m), IdsOf(s) = IdsOf(t)
    PROVE  SameIds(s, t)
<1>1. /\ Len(s) \in Nat /\ DOMAIN s = 1..Len(s) /\ IsSeq(s)
      /\ Len(t) \in Nat /\ DOMAIN t = 1..Len(t) /\ IsSeq(t)
  BY GoodIsSeq DEF Good
<1>2. Within(s, t)
  BY <1>1 DEF Within, IdsOf
<1>3. Within(t, s)
  BY <1>1 DEF Within, IdsOf
<1>4. \A k \in 1..Len(s) : k \in 1..Len(t) /\ s[k].id = t[k].id
  BY <1>2, <1>3, OneOrder
<1>5. \A k \in 1..Len(t) : k \in 1..Len(s)
  BY <1>2, <1>3, OneOrder
<1>6. Len(s) = Len(t)
  <2>1. Len(s) <= Len(t)
    <3>1. Len(s) # 0 => Len(s) \in 1..Len(s)
      BY <1>1
    <3>2. Len(s) # 0 => Len(s) \in 1..Len(t)
      BY <1>4, <3>1
    <3>. QED
      BY <1>1, <3>2
  <2>2. Len(t) <= Len(s)
    <3>1. Len(t) # 0 => Len(t) \in 1..Len(t)
      BY <1>1
    <3>2. Len(t) # 0 => Len(t) \in 1..Len(s)
      BY <1>5, <3>1
    <3>. QED
      BY <1>1, <3>2
  <2>3. \A a, b \in Nat : a <= b /\ b <= a => a = b
    OBVIOUS
  <2>4. Len(s) \in Nat /\ Len(t) \in Nat
    BY <1>1
  <2>. QED
    BY <2>1, <2>2, <2>3, <2>4, Zenon
<1>. QED
  BY <1>1, <1>4, <1>6 DEF SameIds

\* The same for joined lists.
LEMMA SameIdsJoined ==
    ASSUME NEW x, NEW y, SameIds(x, y), NEW u, NEW v, SameIds(u, v)
    PROVE  SameIds(x \o u, y \o v)
<1>1. PICK A, B, C, D : x \in Seq(A) /\ y \in Seq(B) /\ u \in Seq(C) /\ v \in Seq(D)
  BY DEF SameIds, IsSeq
<1> DEFINE T == (A \union B) \union (C \union D)
<1>2. x \in Seq(T) /\ y \in Seq(T) /\ u \in Seq(T) /\ v \in Seq(T)
  <2>1. A \subseteq T /\ B \subseteq T /\ C \subseteq T /\ D \subseteq T
    OBVIOUS
  <2>. HIDE DEF T
  <2>2. x \in Seq(T)
    BY <1>1, <2>1
  <2>3. y \in Seq(T)
    BY <1>1, <2>1
  <2>4. u \in Seq(T)
    BY <1>1, <2>1
  <2>5. v \in Seq(T)
    BY <1>1, <2>1
  <2>. QED
    BY <2>2, <2>3, <2>4, <2>5
<1>. HIDE DEF T
<1>3. /\ Len(x) \in Nat /\ Len(u) \in Nat /\ Len(x) = Len(y) /\ Len(u) = Len(v)
      /\ \A i \in 1..Len(x) : x[i].id = y[i].id
      /\ \A i \in 1..Len(u) : u[i].id = v[i].id
  BY <1>2 DEF SameIds
<1>4. /\ x \o u \in Seq(T) /\ y \o v \in Seq(T)
      /\ Len(x \o u) = Len(x) + Len(u) /\ Len(y \o v) = Len(y) + Len(v)
  BY <1>2
<1>5. ASSUME NEW i \in 1..(Len(x) + Len(u))
      PROVE  (x \o u)[i].id = (y \o v)[i].id
  <2>1. CASE i <= Len(x)
    <3>1. i \in 1..Len(x)
      BY <1>3, <2>1
    <3>2. (x \o u)[i] = x[i] /\ (y \o v)[i] = y[i]
      BY <1>2, <1>3, <3>1
    <3>. QED
      BY <1>3, <3>1, <3>2
  <2>2. CASE i > Len(x)
    <3>1. i - Len(x) \in 1..Len(u)
      BY <1>3, <2>2
    <3>2. (x \o u)[i] = u[i - Len(x)] /\ (y \o v)[i] = v[i - Len(x)]
      BY <1>2, <1>3, <2>2
    <3>. QED
      BY <1>3, <3>1, <3>2
  <2>. QED
    BY <1>3, <2>1, <2>2
<1>. QED
  BY <1>3, <1>4, <1>5 DEF SameIds, IsSeq

\* Paths that differ in parents say the same.
LEMMA AlikeMessages ==
    ASSUME NEW s, NEW n, Good(s, n), NEW t, NEW m, Good(t, m), Len(s) = Len(t), Alike(s, t, Len(s))
    PROVE  SameIds(Messages(s), Messages(t))
<1>1. IsSeq(s) /\ IsSeq(t)
  BY DEF Good
<1>2. Spoken(s) = Spoken(t) /\ \A i \in Spoken(s) : s[i].id = t[i].id
  BY DEF Spoken, Alike
<1>3. {s[i].id : i \in Spoken(s)} = {t[i].id : i \in Spoken(t)}
  BY <1>2
<1>4. IdsOf(Messages(s)) = IdsOf(Messages(t))
  BY <1>1, <1>3, SpokenIds
<1>5. Good(Messages(s), n) /\ Good(Messages(t), m)
  BY MessagesIs
<1>. QED
  BY <1>4, <1>5, SameIdsGood

\* So do parts of them.
LEMMA AlikeParts ==
    ASSUME NEW s, NEW n, Good(s, n), NEW t, NEW m, Good(t, m), Len(s) = Len(t), Alike(s, t, Len(s)),
           NEW a, NEW b, NEW u, NEW v, IsPart(s, a, b, u), IsPart(t, a, b, v)
    PROVE  /\ Good(u, n) /\ Good(v, m) /\ Len(u) = Len(v) /\ Alike(u, v, Len(u))
           /\ SameIds(Messages(u), Messages(v))
<1>1. /\ Good(u, n) /\ Len(u) = b - a + 1
      /\ \A i \in 1..Len(u) : i + (a - 1) \in a..b /\ u[i] = s[i + (a - 1)]
  BY PartGood
<1>2. /\ Good(v, m) /\ Len(v) = b - a + 1
      /\ \A i \in 1..Len(v) : i + (a - 1) \in a..b /\ v[i] = t[i + (a - 1)]
  BY PartGood
<1>3. Len(u) = Len(v)
  BY <1>1, <1>2
<1>4. a..b \subseteq 1..Len(s)
  <2>1. Len(s) \in Nat
    BY GoodIsSeq
  <2>. QED
    BY <2>1 DEF IsPart
<1>5. ASSUME NEW i \in 1..Len(u)
      PROVE  u[i].id = v[i].id /\ u[i].kind = v[i].kind /\ u[i].ref = v[i].ref /\ u[i].covers = v[i].covers
  <2>1. i + (a - 1) \in 1..Len(s) /\ u[i] = s[i + (a - 1)] /\ v[i] = t[i + (a - 1)]
    BY <1>1, <1>2, <1>3, <1>4
  <2>. QED
    BY <2>1 DEF Alike
<1>6. Alike(u, v, Len(u))
  BY <1>5 DEF Alike
<1>. QED
  BY <1>1, <1>2, <1>3, <1>6, AlikeMessages

\* The index of an id, if it has one.
LEMMA IndexIsPlace ==
    ASSUME NEW s, NEW n, Good(s, n), NEW x
    PROVE  IndexOf(s, x) \in 0..Len(s)
<1>1. Len(s) \in Nat /\ DOMAIN s = 1..Len(s)
  BY GoodIsSeq
<1> DEFINE S == {0} \union {i \in DOMAIN s : s[i].id = x}
<1>2. S \in SUBSET (0..Len(s)) /\ 0 \in S
  BY <1>1
<1>3. IndexOf(s, x) = Max(S)
  BY DEF IndexOf
<1>. HIDE DEF S
<1>4. Max(S) \in S
  BY <1>1, <1>2, MaxIs
<1>. QED
  BY <1>2, <1>3, <1>4

\* The context behind a compaction, in its parts.
LEMMA ContextParts ==
    ASSUME NEW path, NEW c, c = LastCompaction(path), c # 0,
           NEW first, first = IndexOf(SubSeq(path, 1, c - 1), path[c].ref)
    PROVE  Context(path) = <<path[c]>> \o Messages(IF first = 0 THEN <<>> ELSE SubSeq(path, first, c - 1))
                                       \o Messages(SubSeq(path, c + 1, Len(path)))
BY DEF Context

\* Their contexts have the same ids.
LEMMA AlikeContexts ==
    ASSUME NEW s, NEW n, Good(s, n), NEW t, NEW m, Good(t, m), Len(s) = Len(t), Alike(s, t, Len(s))
    PROVE  SameIds(Context(s), Context(t))
<1> DEFINE N == Len(s)
           c == LastCompaction(s)
<1>1. N \in Nat /\ DOMAIN s = 1..N /\ DOMAIN t = 1..N
  BY GoodIsSeq
<1>2. c = LastCompaction(t)
  BY <1>1, AlikePlaces
<1>3. c \in 0..N
  BY LastCompactionIs
<1>4. CASE c = 0
  <2>1. Context(s) = Messages(s) /\ Context(t) = Messages(t)
    BY <1>2, <1>4 DEF Context
  <2>. QED
    BY <2>1, AlikeMessages
<1>5. CASE c # 0
  <2> DEFINE us == SubSeq(s, 1, c - 1)
             ut == SubSeq(t, 1, c - 1)
             first == IndexOf(us, s[c].ref)
             ks == IF first = 0 THEN <<>> ELSE SubSeq(s, first, c - 1)
             kt == IF first = 0 THEN <<>> ELSE SubSeq(t, first, c - 1)
             rs == SubSeq(s, c + 1, N)
             rt == SubSeq(t, c + 1, N)
  <2>0. c = LastCompaction(s)
    OBVIOUS
  <2>. HIDE DEF c
  <2>1. c \in 1..N /\ s[c].ref = t[c].ref /\ s[c].id = t[c].id
    BY <1>1, <1>3, <1>5 DEF Alike
  <2>2. IsPart(s, 1, c - 1, us) /\ IsPart(t, 1, c - 1, ut)
    BY <1>1, <2>1 DEF IsPart
  <2>3. Good(us, n) /\ Good(ut, m) /\ Len(us) = Len(ut) /\ Alike(us, ut, Len(us)) /\ Len(us) = c - 1
    <3>. HIDE DEF us, ut
    <3>1. Good(us, n) /\ Good(ut, m) /\ Len(us) = Len(ut) /\ Alike(us, ut, Len(us))
      BY <2>2, AlikeParts
    <3>2. Len(us) = (c - 1) - 1 + 1
      BY <2>2, PartGood
    <3>. QED
      BY <1>1, <2>1, <3>1, <3>2
  <2>4. first = IndexOf(ut, t[c].ref) /\ first \in 0..(c - 1)
    <3>1. first = IndexOf(us, s[c].ref)
      OBVIOUS
    <3>. HIDE DEF us, ut, first
    <3>2. DOMAIN us = 1..Len(us) /\ DOMAIN ut = 1..Len(ut)
      BY <2>3, GoodIsSeq
    <3>3. \A x : IndexOf(us, x) = IndexOf(ut, x)
      BY <2>3, <3>2, AlikePlaces
    <3>4. IndexOf(us, s[c].ref) \in 0..Len(us)
      BY <2>3, IndexIsPlace
    <3>. QED
      BY <2>1, <2>3, <3>1, <3>3, <3>4
  <2>5. Context(s) = <<s[c]>> \o Messages(ks) \o Messages(rs)
    BY <1>5, <2>0, ContextParts
  <2>6. Context(t) = <<t[c]>> \o Messages(kt) \o Messages(rt)
    BY <1>2, <1>5, <2>4, ContextParts DEF c
  <2>7. SameIds(Messages(ks), Messages(kt))
    <3>1. CASE first = 0
      <4>1. ks = <<>> /\ kt = <<>>
        BY <3>1
      <4>2. Good(<<>>, n) /\ IdsOf(Messages(<<>>)) = IdsOf(Messages(<<>>))
        BY EmptyIsGood
      <4>3. Good(Messages(<<>>), n)
        BY <4>2, MessagesIs
      <4>. HIDE DEF ks, kt
      <4>. QED
        BY <4>1, <4>3, SameIdsGood
    <3>2. CASE first # 0
      <4>1. ks = SubSeq(s, first, c - 1) /\ kt = SubSeq(t, first, c - 1)
        BY <3>2
      <4>2. first \in Nat /\ first # 0 /\ first <= c - 1 /\ c \in Nat /\ c <= N /\ N = Len(s) /\ N = Len(t)
        BY <1>1, <2>1, <2>4, <3>2
      <4>. HIDE DEF first, ks, kt, N
      <4>3. IsPart(s, first, c - 1, ks) /\ IsPart(t, first, c - 1, kt)
        BY <1>1, <4>1, <4>2 DEF IsPart
      <4>. QED
        BY <4>3, AlikeParts
    <3>. QED
      BY <3>1, <3>2
  <2>8. SameIds(Messages(rs), Messages(rt))
    <3>1. IsPart(s, c + 1, N, rs) /\ IsPart(t, c + 1, N, rt)
      BY <1>1, <2>1 DEF IsPart
    <3>. HIDE DEF rs, rt
    <3>. QED
      BY <3>1, AlikeParts
  <2>9. SameIds(<<s[c]>>, <<t[c]>>)
    <3>1. <<s[c]>> \in Seq({s[c]}) /\ <<t[c]>> \in Seq({t[c]})
      OBVIOUS
    <3>2. Len(<<s[c]>>) = 1 /\ Len(<<t[c]>>) = 1 /\ <<s[c]>>[1] = s[c] /\ <<t[c]>>[1] = t[c]
      OBVIOUS
    <3>3. ASSUME NEW i \in 1..Len(<<s[c]>>)
          PROVE  <<s[c]>>[i].id = <<t[c]>>[i].id
      <4>1. i = 1
        BY <3>2
      <4>. QED
        BY <2>1, <3>2, <4>1
    <3>4. IsSeq(<<s[c]>>) /\ IsSeq(<<t[c]>>)
      BY <3>1 DEF IsSeq
    <3>. QED
      BY <3>2, <3>3, <3>4 DEF SameIds
  <2>. HIDE DEF ks, kt, rs, rt
  <2>10. SameIds(<<s[c]>> \o Messages(ks), <<t[c]>> \o Messages(kt))
    BY <2>7, <2>9, SameIdsJoined
  <2>. QED
    BY <2>5, <2>6, <2>8, <2>10, SameIdsJoined
<1>. QED
  BY <1>4, <1>5

\* Without compactions the context is the messages.
LEMMA NothingCompacted ==
    ASSUME NEW s, NEW n, Good(s, n), "compaction" \notin KindsIn(s)
    PROVE  Context(s) = Messages(s)
<1>1. LastCompaction(s) = 0
  <2> DEFINE c == LastCompaction(s)
  <2>1. c # 0 => c \in 1..Len(s) /\ s[c].kind = "compaction"
    BY LastCompactionIs
  <2>. QED
    BY <2>1 DEF KindsIn
<1>. QED
  BY <1>1 DEF Context

\* A path without its labels has the same messages.
LEMMA UnlabelledSays ==
    ASSUME NEW b, NEW n, Good(b, n), NEW q, q = OfKinds(b, Kinds \ LabelKinds)
    PROVE  IdsOf(Messages(q)) = IdsOf(Messages(b))
<1> DEFINE I == {i \in DOMAIN b : b[i].kind \in Kinds \ LabelKinds}
           T == ItemsOf(b)
<1>1. b \in Seq(T) /\ Len(b) \in Nat /\ DOMAIN b = 1..Len(b)
  BY GoodIsSeq DEF ItemsOf
<1>2. q = Picked(b, I) /\ I \subseteq 1..Len(b)
  BY <1>1 DEF OfKinds
<1>3. \A i \in Spoken(b) : i \in 1..Len(b) /\ i \in I
  <2>1. \A i \in 1..Len(b) : b[i].kind \in Kinds
    BY DEF Good, Made
  <2>2. ContextKinds \intersect LabelKinds = {}
    BY DEF ContextKinds, MessageKinds, AssistantKinds, LabelKinds
  <2>. QED
    BY <1>1, <2>1, <2>2 DEF Spoken
<1>. HIDE DEF T, I
<1>4. q \in Seq(T) /\ \E g : Picks(b, I, q, g)
  BY <1>1, <1>2, PickedIs
<1>5. PICK g : Picks(b, I, q, g)
  BY <1>4
<1>6. /\ \A k \in 1..Len(q) : g[k] \in 1..Len(b) /\ q[k] = b[g[k]]
      /\ \A i \in 1..Len(b) : i \in I => \E k \in 1..Len(q) : g[k] = i
  BY <1>5 DEF Picks
<1>7. ASSUME NEW i \in Spoken(q)
      PROVE  \E j \in Spoken(b) : b[j].id = q[i].id
  <2>1. i \in 1..Len(q) /\ q[i].kind \in ContextKinds
    BY DEF Spoken
  <2>2. g[i] \in Spoken(b) /\ b[g[i]].id = q[i].id
    BY <1>6, <2>1 DEF Spoken
  <2>. QED
    BY <2>2
<1>8. ASSUME NEW j \in Spoken(b)
      PROVE  \E i \in Spoken(q) : q[i].id = b[j].id
  <2>1. j \in 1..Len(b) /\ j \in I /\ b[j].kind \in ContextKinds
    BY <1>3 DEF Spoken
  <2>2. PICK k \in 1..Len(q) : g[k] = j
    BY <1>6, <2>1
  <2>3. q[k] = b[j]
    BY <1>6, <2>2
  <2>4. k \in Spoken(q) /\ q[k].id = b[j].id
    BY <2>1, <2>3 DEF Spoken
  <2>. QED
    BY <2>4
<1> DEFINE X == {q[i].id : i \in Spoken(q)}
           Y == {b[i].id : i \in Spoken(b)}
<1>9. ASSUME NEW x \in X
      PROVE  x \in Y
  <2>1. PICK i \in Spoken(q) : x = q[i].id
    BY <1>9
  <2>2. PICK j \in Spoken(b) : b[j].id = q[i].id
    BY <1>7
  <2>. QED
    BY <2>1, <2>2
<1>10. ASSUME NEW x \in Y
       PROVE  x \in X
  <2>1. PICK i \in Spoken(b) : x = b[i].id
    BY <1>10
  <2>2. PICK j \in Spoken(q) : q[j].id = b[i].id
    BY <1>8
  <2>. QED
    BY <2>1, <2>2
<1>11. IsSeq(q) /\ IsSeq(b)
  BY <1>1, <1>4 DEF IsSeq
<1>12. IdsOf(Messages(q)) = X
  BY <1>11, SpokenIds
<1>13. IdsOf(Messages(b)) = Y
  BY <1>11, SpokenIds
<1>. HIDE DEF X, Y
<1>. QED
  BY <1>9, <1>10, <1>12, <1>13

\* A chain is the branch of its last entry.
LEMMA ChainIsBranch ==
    ASSUME NEW es, NEW n \in Nat, Good(es, n), Chained(es)
    PROVE  Branch(es, LastId(es)) = es
<1>1. es \in Seq({es[i] : i \in 1..Len(es)}) /\ Len(es) \in Nat
  BY GoodIsSeq
<1>2. CASE es = <<>>
  <2>1. LastId(es) = 0 /\ 0 \notin IdsOf(es)
    BY <1>2, IdsArePositive DEF LastId
  <2>. QED
    BY <1>2, <2>1, BranchStep
<1>3. CASE es # <<>>
  <2>1. Len(es) \in 1..Len(es) /\ LastId(es) = es[Len(es)].id
    BY <1>3, LastIdOf
  <2>2. Branch(es, LastId(es)) = SubSeq(es, 1, Len(es))
    BY <2>1, ChainBranches
  <2>3. SubSeq(es, 1, Len(es)) = es
    BY <1>1
  <2>. QED
    BY <2>2, <2>3
<1>. QED
  BY <1>2, <1>3

\* The fork at an entry sends what the branch at the entry would.
LEMMA ForkSays ==
    ASSUME NEW E, NEW n \in Nat \ {0}, Good(E, n), NEW at \in IdsOf(E), NEW l,
           NEW es, IsFork(E, l, at, n, es), NEW m \in Nat, Good(es, m),
           \/ "compaction" \notin KindsIn(E)
           \/ LabelKinds \intersect KindsIn(E) = {} /\ l = <<>>
    PROVE  SameIds(Context(Branch(es, LastId(es))), Context(Branch(E, at)))
<1> DEFINE b == Branch(E, at)
           q == OfKinds(b, Kinds \ LabelKinds)
<1>1. Good(b, n) /\ Good(q, n) /\ KindsIn(q) \subseteq KindsIn(E) /\ KindsIn(b) \subseteq KindsIn(E)
  <2>1. n \in Nat
    OBVIOUS
  <2>2. Good(b, n) /\ Good(q, n) /\ KindsIn(q) \subseteq KindsIn(E)
    BY <2>1, ForkedBranch
  <2>. QED
    BY <2>1, <2>2, BranchKinds
<1>2. b = Branch(E, at) /\ q = OfKinds(b, Kinds \ LabelKinds)
  OBVIOUS
<1>. HIDE DEF b, q
<1>3. ForkOf(q, l, es)
  BY <1>1, <1>2, ForkIs
<1>4. Branch(es, LastId(es)) = es
  BY <1>3, ChainIsBranch DEF ForkOf
<1>5. CASE "compaction" \notin KindsIn(E)
  <2>1. /\ Len(q) \in Nat /\ Len(es) \in Nat /\ Len(q) <= Len(es)
        /\ \A i \in 1..Len(q) : es[i].id = q[i].id /\ es[i].kind = q[i].kind
        /\ \A i \in 1..Len(es) : i \in 1..Len(q) \/ es[i].kind = "label"
    BY <1>3 DEF ForkOf, Alike
  <2>2. "compaction" \notin KindsIn(es)
    <3>1. \A i \in 1..Len(q) : q[i].kind # "compaction"
      BY <1>1, <1>5 DEF KindsIn
    <3>. QED
      BY <2>1, <3>1 DEF KindsIn
  <2>3. Context(es) = Messages(es) /\ Context(b) = Messages(b)
    BY <1>1, <1>5, <2>2, NothingCompacted
  <2>4. "label" \notin ContextKinds
    BY DEF ContextKinds, MessageKinds, AssistantKinds
  <2>5. Spoken(es) = Spoken(q)
    BY <2>1, <2>4 DEF Spoken
  <2>6. {es[i].id : i \in Spoken(es)} = {q[i].id : i \in Spoken(q)}
    <3>1. \A i \in Spoken(q) : es[i].id = q[i].id
      BY <2>1 DEF Spoken
    <3>. QED
      BY <2>5, <3>1
  <2>7. IdsOf(Messages(q)) = IdsOf(Messages(b))
    BY <1>1, <1>2, UnlabelledSays
  <2>8. IsSeq(es) /\ IsSeq(q)
    BY <1>1 DEF Good
  <2>9. IdsOf(Messages(es)) = IdsOf(Messages(b))
    BY <2>6, <2>7, <2>8, SpokenIds
  <2>10. Good(Messages(es), m) /\ Good(Messages(b), n)
    BY <1>1, MessagesIs
  <2>11. SameIds(Messages(es), Messages(b))
    BY <2>9, <2>10, SameIdsGood
  <2>. QED
    BY <1>2, <1>4, <2>3, <2>11
<1>6. CASE LabelKinds \intersect KindsIn(E) = {} /\ l = <<>>
  <2>1. q = b
    <3>1. LabelKinds \intersect KindsIn(b) = {}
      BY <1>1, <1>6
    <3>. QED
      BY <1>1, <1>2, <3>1, UnlabelledIsAll
  <2>2. Len(es) = Len(b) /\ Alike(b, es, Len(b))
    BY <1>3, <1>6, <2>1 DEF ForkOf
  <2>3. Alike(es, b, Len(es))
    BY <2>2 DEF Alike
  <2>4. SameIds(Context(es), Context(b))
    BY <1>1, <2>2, <2>3, AlikeContexts
  <2>. QED
    BY <1>2, <1>4, <2>4
<1>. QED
  BY <1>5, <1>6

\* The labels of entries are a list, and an empty one where nothing is labelled.
LEMMA LabelsOfEntries ==
    ASSUME NEW E, NEW n, Good(E, n), KindsIn(E) \subseteq PossibleKinds
    PROVE  /\ IsSeq(LabelsOf(E))
           /\ LabelKinds \intersect scenario.kinds = {} => LabelsOf(E) = <<>>
<1>1. IsSeq(LabelsOf(E))
  BY LabelsIsList
<1>2. ASSUME LabelKinds \intersect scenario.kinds = {}
      PROVE  LabelsOf(E) = <<>>
  <2>1. KindsIn(E) \intersect LabelKinds = {}
    BY <1>2 DEF PossibleKinds
  <2>2. \A i \in 1..Len(E) : E[i].kind \notin LabelKinds
    BY <2>1 DEF KindsIn
  <2>. QED
    BY <2>2, LabelsIsList
<1>. QED
  BY <1>1, <1>2

\* Wherever it is made, a fork of the file sends the model what the branch in
\* memory sends (createBranchedSession, buildSessionContext), through any crashes,
\* compactions and forks and as long as no write has failed, unless a session
\* is both compacted and labelled.
THEOREM ForkKeepsContextHolds == Spec /\ Whole /\ Apart => []ForkKeepsContext
<1>1. ASSUME FileInv, TreeInv, Apart
      PROVE  ForkKeepsContext
  <2>. SUFFICES ASSUME up, failures = 0, NEW at \in IdsOf(Load(file))
                PROVE  ForkSends(at)
    BY DEF ForkKeepsContext
  <2> DEFINE old == Load(file)
  <2>1. flushed
    <3>1. ~flushed => ~file.there
      BY <1>1 DEF FileInv, MemoryInFile
    <3>2. ~file.there => file.lines = <<>>
      BY <1>1 DEF FileInv, FileOk
    <3>3. IdsOf(<<>>) = {} /\ (file.lines = <<>> => Load(file) = <<>>)
      BY LoadNone, NothingWellFormed
    <3>. QED
      BY <3>1, <3>2, <3>3
  <2>2. old = entries
    BY <1>1, <2>1 DEF FileInv, MemoryInFile
  <2>3. /\ Good(entries, nextId) /\ nextId \in Nat \ {0} /\ KindsIn(entries) \subseteq PossibleKinds
    BY <1>1 DEF FileInv, TreeInv, KindsInv
  <2> DEFINE ls == LabelsOf(entries)
             fork == Forked(entries, ls, at, nextId)
             x == Context(Branch(fork, LastId(fork)))
             y == Context(Branch(entries, at))
             after == nextId + Cardinality(IdsOf(fork) \ IdsOf(entries))
  <2>4. at \in IdsOf(entries)
    BY <2>2
  <2>5. ForkSends(at) <=> ContextIds(Branch(fork, LastId(fork))) = ContextIds(Branch(entries, at))
    BY <2>2 DEF ForkSends
  <2>6. IsSeq(ls) /\ (LabelKinds \intersect scenario.kinds = {} => ls = <<>>)
    BY <2>3, LabelsOfEntries
  <2>7. fork = Forked(entries, ls, at, nextId) /\ after = nextId + Cardinality(IdsOf(fork) \ IdsOf(entries))
    OBVIOUS
  <2>. HIDE DEF ls, fork, after, old
  <2>8. after \in Nat \ {0} /\ Good(fork, after) /\ IsFork(entries, ls, at, nextId, fork)
    BY <2>3, <2>4, <2>6, <2>7, ForkedGood
  <2>9. after \in Nat
    BY <2>8
  <2>10. \/ "compaction" \notin KindsIn(entries)
         \/ LabelKinds \intersect KindsIn(entries) = {} /\ ls = <<>>
    <3>1. "compaction" \notin LabelKinds
      BY DEF LabelKinds
    <3>2. CASE "compaction" \notin scenario.kinds
      BY <2>3, <3>1, <3>2 DEF PossibleKinds
    <3>3. CASE LabelKinds \intersect scenario.kinds = {}
      BY <2>3, <2>6, <3>3 DEF PossibleKinds
    <3>. QED
      BY <1>1, <3>2, <3>3 DEF Apart
  <2>11. SameIds(x, y)
    BY <2>3, <2>4, <2>8, <2>9, <2>10, ForkSays
  <2>12. ContextIds(Branch(fork, LastId(fork))) = [i \in DOMAIN x |-> x[i].id]
         /\ ContextIds(Branch(entries, at)) = [i \in DOMAIN y |-> y[i].id]
    BY DEF ContextIds
  <2>. HIDE DEF x, y
  <2>13. DOMAIN x = 1..Len(x) /\ DOMAIN y = 1..Len(x) /\ \A i \in 1..Len(x) : x[i].id = y[i].id
    BY <2>11 DEF SameIds, IsSeq
  <2>. QED
    BY <2>5, <2>12, <2>13
<1>2. Apart => ForksWhole
  BY DEF ForksWhole
<1>3. Apart /\ [Next]_vars => Apart'
  BY DEF Apart, Next, vars
<1>. QED
  BY <1>1, <1>2, <1>3, FileInit, FileStep, TreeInit, TreeStep, PTL DEF Spec
=============================================================================
