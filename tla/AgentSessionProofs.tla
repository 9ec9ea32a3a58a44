------------------------- MODULE AgentSessionProofs -------------------------
(***************************************************************************)
(* Theorems about AgentSession: with one caller of prompt(), a session     *)
(* that counts as idle has no run but the one that continues before a      *)
(* prompt; every message of the application arrives once or is given back  *)
(* unless compact() or clearQueue() takes it; a tool call and its result   *)
(* stay together; between two steps of the session the transcript is the   *)
(* context of its branch; the queued texts on display are those of the     *)
(* queues; continue() is called only with something to go on from; and     *)
(* failing requests are retried a bounded number of times                  *)
(* unless somebody interferes.                                             *)
(***************************************************************************)
EXTENDS AgentSession, TLAPS, FiniteSetTheorems, WellFoundedInduction

(***************************************************************************)
(* The places of messages                                                  *)
(***************************************************************************)
PlaceNames == {"steer", "follow", "next", "bash", "out", "saving", "branch", "batch"}

IsSeq(s) == \E T : s \in Seq(T)

\* Contents S of the places, the next id n, the ids X that the application sent
\* and that were not given back.
Lists(S) == /\ S = [a \in PlaceNames |-> S[a]]
            /\ \A a \in PlaceNames : IsSeq(S[a])
Once(S) == \A a, b \in PlaceNames : \A i \in DOMAIN S[a], j \in DOMAIN S[b] :
              S[a][i].id = S[b][j].id => a = b /\ i = j
Older(S, n) == \A a \in PlaceNames : \A i \in DOMAIN S[a] : S[a][i].id \in 1..(n - 1)
Messages(S) == \A a \in PlaceNames \ {"branch"} : \A i \in DOMAIN S[a] : S[a][i] # None
Present(S, X) == \A id \in X : \E a \in PlaceNames : \E i \in DOMAIN S[a] : S[a][i].id = id
Expected(S, X) == \A a \in PlaceNames : \A i \in DOMAIN S[a] :
                     a \notin {"saving", "branch"} \/ S[a][i].role = "user" => S[a][i].id \in X

WellPlaced(S, n, X) ==
    Lists(S) /\ Once(S) /\ Older(S, n) /\ Messages(S) /\ Present(S, X) /\ Expected(S, X)

LEMMA EmptyList == IsSeq(<<>>) /\ DOMAIN <<>> = {} /\ Len(<<>>) = 0
BY DEF IsSeq

LEMMA OneItem ==
    ASSUME NEW m
    PROVE  IsSeq(<<m>>) /\ DOMAIN <<m>> = {1} /\ <<m>>[1] = m
<1>1. <<m>> \in Seq({m}) /\ Len(<<m>>) = 1 /\ <<m>>[1] = m
  OBVIOUS
<1>2. IsSeq(<<m>>)
  BY <1>1 DEF IsSeq
<1>3. DOMAIN <<m>> = {1}
  BY <1>1
<1>. QED
  BY <1>1, <1>2, <1>3

LEMMA AppendList ==
    ASSUME NEW s, NEW m, IsSeq(s)
    PROVE  /\ IsSeq(Append(s, m)) /\ Len(s) \in Nat
           /\ DOMAIN s = 1..Len(s) /\ DOMAIN Append(s, m) = 1..(Len(s) + 1)
           /\ \A i \in DOMAIN s : Append(s, m)[i] = s[i]
           /\ Append(s, m)[Len(s) + 1] = m
<1>1. PICK T : s \in Seq(T)
  BY DEF IsSeq
<1>2. s \in Seq(T \union {m}) /\ m \in T \union {m}
  BY <1>1
<1>3. Append(s, m) \in Seq(T \union {m})
  BY <1>2
<1>. QED
  BY <1>2, <1>3 DEF IsSeq

LEMMA JoinLists ==
    ASSUME NEW s, NEW t, IsSeq(s), IsSeq(t)
    PROVE  /\ IsSeq(s \o t) /\ Len(s) \in Nat /\ Len(t) \in Nat
           /\ DOMAIN s = 1..Len(s) /\ DOMAIN t = 1..Len(t)
           /\ DOMAIN (s \o t) = 1..(Len(s) + Len(t))
           /\ \A i \in 1..Len(s) : (s \o t)[i] = s[i]
           /\ \A i \in 1..Len(t) : (s \o t)[Len(s) + i] = t[i]
<1>1. PICK T : s \in Seq(T)
  BY DEF IsSeq
<1>2. PICK U : t \in Seq(U)
  BY DEF IsSeq
<1>3. s \in Seq(T \union U) /\ t \in Seq(T \union U)
  BY <1>1, <1>2
<1>4. s \o t \in Seq(T \union U)
  BY <1>3
<1>. QED
  BY <1>3, <1>4 DEF IsSeq

LEMMA RestOfList ==
    ASSUME NEW s, IsSeq(s), s # <<>>
    PROVE  /\ IsSeq(Tail(s)) /\ Len(s) \in Nat /\ Len(s) > 0
           /\ DOMAIN s = 1..Len(s) /\ DOMAIN Tail(s) = 1..(Len(s) - 1)
           /\ \A i \in 1..(Len(s) - 1) : Tail(s)[i] = s[i + 1]
           /\ Head(s) = s[1]
<1>1. PICK T : s \in Seq(T)
  BY DEF IsSeq
<1>2. Tail(s) \in Seq(T)
  BY <1>1
<1>. QED
  BY <1>1, <1>2 DEF IsSeq

\* Item j of a list of length m with one of length k behind it.
LEMMA WhichList ==
    ASSUME NEW m \in Nat, NEW k \in Nat, NEW j \in 1..(m + k)
    PROVE  \/ j \in 1..m /\ ~(j > m)
           \/ j > m /\ j - m \in 1..k /\ j = m + (j - m)
OBVIOUS

\* All messages of place a go behind those of place b.
LEMMA AllMove ==
    ASSUME NEW S, NEW n, NEW X, WellPlaced(S, n, X), NEW a \in PlaceNames \ {"saving", "branch"},
           NEW b \in PlaceNames \ {a}
    PROVE  WellPlaced([S EXCEPT ![b] = S[b] \o S[a], ![a] = <<>>], n, X)
<1> DEFINE R == [S EXCEPT ![b] = S[b] \o S[a], ![a] = <<>>]
           m == Len(S[b])
           k == Len(S[a])
           From(c, j) == IF c = b /\ j > m THEN <<a, j - m>> ELSE <<c, j>>    \* where R[c][j] was
<1>1. /\ R = [c \in PlaceNames |-> R[c]]
      /\ R[a] = <<>> /\ R[b] = S[b] \o S[a]
      /\ \A c \in PlaceNames \ {a, b} : R[c] = S[c]
  BY DEF WellPlaced, Lists
<1>2. IsSeq(S[a]) /\ IsSeq(S[b])
  BY DEF WellPlaced, Lists
<1>3. /\ IsSeq(R[b]) /\ m \in Nat /\ k \in Nat
      /\ DOMAIN S[a] = 1..k /\ DOMAIN S[b] = 1..m /\ DOMAIN R[b] = 1..(m + k)
      /\ \A i \in 1..m : R[b][i] = S[b][i]
      /\ \A i \in 1..k : R[b][m + i] = S[a][i]
  <2>1. /\ IsSeq(S[b] \o S[a]) /\ m \in Nat /\ k \in Nat
        /\ DOMAIN S[b] = 1..m /\ DOMAIN S[a] = 1..k
        /\ DOMAIN (S[b] \o S[a]) = 1..(m + k)
        /\ \A i \in 1..m : (S[b] \o S[a])[i] = S[b][i]
        /\ \A i \in 1..k : (S[b] \o S[a])[m + i] = S[a][i]
    BY <1>2, JoinLists
  <2>. HIDE DEF R, m, k
  <2>. QED
    BY <1>1, <2>1
<1>4. DOMAIN R[a] = {} /\ IsSeq(R[a])
  BY <1>1, EmptyList
<1>. HIDE DEF R, m, k
<1>5. ASSUME NEW c \in PlaceNames, NEW j \in DOMAIN R[c]
      PROVE  \/ c = b /\ j > m /\ j - m \in DOMAIN S[a] /\ R[c][j] = S[a][j - m] /\ j = m + (j - m)
             \/ c # a /\ ~(c = b /\ j > m) /\ j \in DOMAIN S[c] /\ R[c][j] = S[c][j]
  BY <1>1, <1>3, <1>4, WhichList
<1>6. ASSUME NEW c \in PlaceNames, NEW j \in DOMAIN R[c]
      PROVE  \E e \in PlaceNames : \E i \in DOMAIN S[e] :
                /\ From(c, j) = <<e, i>> /\ R[c][j] = S[e][i] /\ (e = c \/ (e = a /\ c = b))
  BY <1>5
<1>7. ASSUME NEW c \in PlaceNames, NEW i \in DOMAIN S[c]
      PROVE  \E d \in PlaceNames : \E j \in DOMAIN R[d] : R[d][j] = S[c][i]
  <2>1. CASE c = a
    BY <1>3, <2>1
  <2>2. CASE c = b
    BY <1>3, <2>2
  <2>3. CASE c \notin {a, b}
    BY <1>1, <2>3
  <2>. QED
    BY <2>1, <2>2, <2>3
<1>8. ASSUME NEW c \in PlaceNames, NEW d \in PlaceNames, NEW i \in DOMAIN R[c], NEW j \in DOMAIN R[d],
             R[c][i].id = R[d][j].id
      PROVE  c = d /\ i = j
  <2>1. From(c, i) = From(d, j)
    <3> HIDE DEF From
    <3>1. PICK e \in PlaceNames : \E x \in DOMAIN S[e] : From(c, i) = <<e, x>> /\ R[c][i] = S[e][x]
      BY <1>6
    <3>2. PICK f \in PlaceNames : \E x \in DOMAIN S[f] : From(d, j) = <<f, x>> /\ R[d][j] = S[f][x]
      BY <1>6
    <3>. QED
      BY <1>8, <3>1, <3>2 DEF WellPlaced, Once
  <2>2. CASE c = b /\ i > m
    BY <1>5, <2>1, <2>2
  <2>3. CASE d = b /\ j > m
    BY <1>5, <2>1, <2>2, <2>3
  <2>4. CASE ~(c = b /\ i > m) /\ ~(d = b /\ j > m)
    BY <2>1, <2>4
  <2>. QED
    BY <2>2, <2>3, <2>4
<1>. HIDE DEF From
<1>9. Lists(R)
  BY <1>1, <1>3, <1>4 DEF WellPlaced, Lists
<1>10. Once(R)
  BY <1>8 DEF Once
<1>11. Older(R, n)
  BY <1>6 DEF WellPlaced, Older
<1>12. Messages(R)
  BY <1>6 DEF WellPlaced, Messages
<1>13. Present(R, X)
  BY <1>7 DEF WellPlaced, Present
<1>14. Expected(R, X)
  BY <1>6 DEF WellPlaced, Expected
<1>. QED
  BY <1>9, <1>10, <1>11, <1>12, <1>13, <1>14 DEF WellPlaced, R

\* The first message of place a goes behind those of place b.
LEMMA HeadMoves ==
    ASSUME NEW S, NEW n, NEW X, WellPlaced(S, n, X), NEW a \in PlaceNames \ {"branch"},
           NEW b \in PlaceNames \ {a}, a = "saving" => b = "branch", S[a] # <<>>
    PROVE  WellPlaced([S EXCEPT ![b] = Append(S[b], Head(S[a])), ![a] = Tail(S[a])], n, X)
<1> DEFINE R == [S EXCEPT ![b] = Append(S[b], Head(S[a])), ![a] = Tail(S[a])]
           m == Len(S[b])
           k == Len(S[a])
           From(c, j) == IF c = b /\ j > m THEN <<a, 1>>      \* where R[c][j] was
                         ELSE IF c = a THEN <<a, j + 1>> ELSE <<c, j>>
<1>1. /\ R = [c \in PlaceNames |-> R[c]]
      /\ R[a] = Tail(S[a]) /\ R[b] = Append(S[b], Head(S[a]))
      /\ \A c \in PlaceNames \ {a, b} : R[c] = S[c]
  BY DEF WellPlaced, Lists
<1>2. IsSeq(S[a]) /\ IsSeq(S[b])
  BY DEF WellPlaced, Lists
<1>3. /\ IsSeq(R[b]) /\ m \in Nat
      /\ DOMAIN S[b] = 1..m /\ DOMAIN R[b] = 1..(m + 1)
      /\ \A i \in DOMAIN S[b] : R[b][i] = S[b][i]
      /\ R[b][m + 1] = Head(S[a])
  <2>1. /\ IsSeq(Append(S[b], Head(S[a]))) /\ m \in Nat
        /\ DOMAIN S[b] = 1..m /\ DOMAIN Append(S[b], Head(S[a])) = 1..(m + 1)
        /\ \A i \in DOMAIN S[b] : Append(S[b], Head(S[a]))[i] = S[b][i]
        /\ Append(S[b], Head(S[a]))[m + 1] = Head(S[a])
    BY <1>2, AppendList
  <2>. HIDE DEF R, m, k
  <2>. QED
    BY <1>1, <2>1
<1>4. /\ IsSeq(R[a]) /\ k \in Nat /\ k > 0
      /\ DOMAIN S[a] = 1..k /\ DOMAIN R[a] = 1..(k - 1)
      /\ \A i \in 1..(k - 1) : R[a][i] = S[a][i + 1]
      /\ Head(S[a]) = S[a][1]
  <2>1. /\ IsSeq(Tail(S[a])) /\ k \in Nat /\ k > 0
        /\ DOMAIN S[a] = 1..k /\ DOMAIN Tail(S[a]) = 1..(k - 1)
        /\ \A i \in 1..(k - 1) : Tail(S[a])[i] = S[a][i + 1]
        /\ Head(S[a]) = S[a][1]
    BY <1>2, RestOfList
  <2>. HIDE DEF R, m, k
  <2>. QED
    BY <1>1, <2>1
<1>. HIDE DEF R, m, k
<1>5. ASSUME NEW c \in PlaceNames, NEW j \in DOMAIN R[c]
      PROVE  \/ c = b /\ j > m /\ 1 \in DOMAIN S[a] /\ R[c][j] = S[a][1] /\ j = m + 1
             \/ c = a /\ j \in Int /\ j + 1 \in DOMAIN S[a] /\ j + 1 # 1 /\ R[c][j] = S[a][j + 1]
             \/ c \notin {a} /\ ~(c = b /\ j > m) /\ j \in DOMAIN S[c] /\ R[c][j] = S[c][j]
  <2>1. CASE c = b
    <3>1. (j \in 1..m /\ ~(j > m)) \/ (j = m + 1 /\ j > m)
      BY <1>3, <2>1
    <3>2. 1 \in DOMAIN S[a]
      BY <1>4
    <3>. QED
      BY <1>3, <1>4, <2>1, <3>1, <3>2
  <2>2. CASE c = a
    BY <1>4, <2>2
  <2>3. CASE c \notin {a, b}
    BY <1>1, <2>3
  <2>. QED
    BY <2>1, <2>2, <2>3
<1>6. ASSUME NEW c \in PlaceNames, NEW j \in DOMAIN R[c]
      PROVE  \E e \in PlaceNames : \E i \in DOMAIN S[e] :
                /\ From(c, j) = <<e, i>> /\ R[c][j] = S[e][i] /\ (e = c \/ (e = a /\ c = b))
  BY <1>5
<1>7. ASSUME NEW c \in PlaceNames, NEW i \in DOMAIN S[c]
      PROVE  \E d \in PlaceNames : \E j \in DOMAIN R[d] : R[d][j] = S[c][i]
  <2>1. CASE c = a /\ i = 1
    BY <1>3, <1>4, <2>1
  <2>2. CASE c = a /\ i # 1
    <3>1. i - 1 \in 1..(k - 1) /\ (i - 1) + 1 = i
      BY <1>4, <2>2
    <3>2. i - 1 \in DOMAIN R[a] /\ R[a][i - 1] = S[c][i]
      BY <1>4, <2>2, <3>1
    <3>. QED
      BY <3>2
  <2>3. CASE c = b
    <3>1. i \in 1..(m + 1)
      BY <1>3, <2>3
    <3>2. i \in DOMAIN R[b] /\ R[b][i] = S[b][i]
      BY <1>3, <2>3, <3>1
    <3>. QED
      BY <2>3, <3>2
  <2>4. CASE c \notin {a, b}
    BY <1>1, <2>4
  <2>. QED
    BY <2>1, <2>2, <2>3, <2>4
<1>8. ASSUME NEW c \in PlaceNames, NEW d \in PlaceNames, NEW i \in DOMAIN R[c], NEW j \in DOMAIN R[d],
             R[c][i].id = R[d][j].id
      PROVE  c = d /\ i = j
  <2>1. From(c, i) = From(d, j)
    <3> HIDE DEF From
    <3>1. PICK e \in PlaceNames : \E x \in DOMAIN S[e] : From(c, i) = <<e, x>> /\ R[c][i] = S[e][x]
      BY <1>6
    <3>2. PICK f \in PlaceNames : \E x \in DOMAIN S[f] : From(d, j) = <<f, x>> /\ R[d][j] = S[f][x]
      BY <1>6
    <3>. QED
      BY <1>8, <3>1, <3>2 DEF WellPlaced, Once
  <2>2. CASE c = b /\ i > m
    BY <1>5, <2>1, <2>2
  <2>3. CASE d = b /\ j > m
    BY <1>5, <2>1, <2>3
  <2>4. CASE ~(c = b /\ i > m) /\ ~(d = b /\ j > m)
    <3>1. /\ c = a => i \in Int /\ From(c, i) = <<a, i + 1>>
          /\ c # a => From(c, i) = <<c, i>>
      BY <1>5, <2>4
    <3>2. /\ d = a => j \in Int /\ From(d, j) = <<a, j + 1>>
          /\ d # a => From(d, j) = <<d, j>>
      BY <1>5, <2>4
    <3>. HIDE DEF From
    <3>. QED
      BY <2>1, <3>1, <3>2
  <2>. QED
    BY <2>2, <2>3, <2>4
<1>. HIDE DEF From
<1>9. Lists(R)
  BY <1>1, <1>3, <1>4 DEF WellPlaced, Lists
<1>10. Once(R)
  BY <1>8 DEF Once
<1>11. Older(R, n)
  BY <1>6 DEF WellPlaced, Older
<1>12. Messages(R)
  BY <1>6 DEF WellPlaced, Messages
<1>13. Present(R, X)
  BY <1>7 DEF WellPlaced, Present
<1>14. Expected(R, X)
  BY <1>6 DEF WellPlaced, Expected
<1>. QED
  BY <1>9, <1>10, <1>11, <1>12, <1>13, <1>14 DEF WellPlaced, R

\* A new message is put behind those of place a.
LEMMA MessageAdded ==
    ASSUME NEW S, NEW n \in Nat \ {0}, NEW X, WellPlaced(S, n, X), NEW a \in PlaceNames, NEW m,
           m.id = n, a # "branch" => m # None, NEW Y, X \subseteq Y, Y \subseteq X \union {n},
           (a \in {"saving", "branch"} /\ m.role # "user") \/ n \in Y
    PROVE  WellPlaced([S EXCEPT ![a] = Append(S[a], m)], n + 1, Y)
<1> DEFINE R == [S EXCEPT ![a] = Append(S[a], m)]
           k == Len(S[a])
<1>1. /\ R = [c \in PlaceNames |-> R[c]]
      /\ R[a] = Append(S[a], m)
      /\ \A c \in PlaceNames \ {a} : R[c] = S[c]
  BY DEF WellPlaced, Lists
<1>2. /\ IsSeq(R[a]) /\ k \in Nat
      /\ DOMAIN S[a] = 1..k /\ DOMAIN R[a] = 1..(k + 1)
      /\ \A i \in DOMAIN S[a] : R[a][i] = S[a][i]
      /\ R[a][k + 1] = m
  <2>1. IsSeq(S[a])
    BY DEF WellPlaced, Lists
  <2>2. /\ IsSeq(Append(S[a], m)) /\ k \in Nat
        /\ DOMAIN S[a] = 1..k /\ DOMAIN Append(S[a], m) = 1..(k + 1)
        /\ \A i \in DOMAIN S[a] : Append(S[a], m)[i] = S[a][i]
        /\ Append(S[a], m)[k + 1] = m
    BY <2>1, AppendList
  <2>. HIDE DEF R, k
  <2>. QED
    BY <1>1, <2>2
<1>. HIDE DEF R, k
<1>3. ASSUME NEW c \in PlaceNames, NEW j \in DOMAIN R[c]
      PROVE  \/ c = a /\ j = k + 1 /\ R[c][j] = m
             \/ j \in DOMAIN S[c] /\ R[c][j] = S[c][j]
  <2>1. CASE c = a
    <3>1. j \in 1..(k + 1)
      BY <1>2, <2>1
    <3>2. j = k + 1 \/ j \in 1..k
      BY <1>2, <3>1
    <3>. QED
      BY <1>2, <2>1, <3>2
  <2>2. CASE c # a
    BY <1>1, <2>2
  <2>. QED
    BY <2>1, <2>2
<1>4. ASSUME NEW c \in PlaceNames, NEW i \in DOMAIN S[c]
      PROVE  i \in DOMAIN R[c] /\ R[c][i] = S[c][i]
  <2>1. CASE c = a
    BY <1>2, <2>1
  <2>2. CASE c # a
    BY <1>1, <2>2
  <2>. QED
    BY <2>1, <2>2
<1>5. \A c \in PlaceNames : \A i \in DOMAIN S[c] : S[c][i].id \in 1..(n - 1) /\ S[c][i].id # n
  BY DEF WellPlaced, Older
<1>6. Lists(R)
  BY <1>1, <1>2 DEF WellPlaced, Lists
<1>7. Once(R)
  BY <1>3, <1>5 DEF WellPlaced, Once
<1>8. Older(R, n + 1)
  BY <1>3, <1>5 DEF Older
<1>9. Messages(R)
  BY <1>3 DEF WellPlaced, Messages
<1>10. Present(R, Y)
  <2>1. ASSUME NEW id \in X
        PROVE  \E c \in PlaceNames : \E i \in DOMAIN R[c] : R[c][i].id = id
    <3>1. PICK c \in PlaceNames : \E i \in DOMAIN S[c] : S[c][i].id = id
      BY DEF WellPlaced, Present
    <3>. QED
      BY <1>4, <3>1
  <2>2. k + 1 \in DOMAIN R[a] /\ R[a][k + 1].id = n
    BY <1>2
  <2>. QED
    BY <2>1, <2>2 DEF Present
<1>11. Expected(R, Y)
  BY <1>3 DEF WellPlaced, Expected
<1>. QED
  BY <1>6, <1>7, <1>8, <1>9, <1>10, <1>11 DEF WellPlaced, R

\* The messages of place a are given back.
LEMMA MessagesGivenBack ==
    ASSUME NEW S, NEW n, NEW X, WellPlaced(S, n, X), NEW a \in PlaceNames
    PROVE  WellPlaced([S EXCEPT ![a] = <<>>], n, X \ IdsIn(S[a]))
<1> DEFINE R == [S EXCEPT ![a] = <<>>]
<1>1. /\ R = [c \in PlaceNames |-> R[c]]
      /\ DOMAIN R[a] = {} /\ IsSeq(R[a])
      /\ \A c \in PlaceNames \ {a} : R[c] = S[c]
  BY EmptyList DEF WellPlaced, Lists
<1>. HIDE DEF R
<1>2. ASSUME NEW c \in PlaceNames, NEW j \in DOMAIN R[c]
      PROVE  c # a /\ j \in DOMAIN S[c] /\ R[c][j] = S[c][j]
  BY <1>1
<1>3. ASSUME NEW c \in PlaceNames \ {a}, NEW i \in DOMAIN S[c]
      PROVE  i \in DOMAIN R[c] /\ R[c][i] = S[c][i] /\ S[c][i].id \notin IdsIn(S[a])
  BY <1>1 DEF WellPlaced, Once, IdsIn
<1>4. Lists(R)
  BY <1>1 DEF WellPlaced, Lists
<1>5. Once(R)
  BY <1>2 DEF WellPlaced, Once
<1>6. Older(R, n)
  BY <1>2 DEF WellPlaced, Older
<1>7. Messages(R)
  BY <1>2 DEF WellPlaced, Messages
<1>8. Present(R, X \ IdsIn(S[a]))
  <2>1. ASSUME NEW id \in X \ IdsIn(S[a])
        PROVE  \E c \in PlaceNames : \E i \in DOMAIN R[c] : R[c][i].id = id
    <3>1. PICK c \in PlaceNames : \E i \in DOMAIN S[c] : S[c][i].id = id
      BY DEF WellPlaced, Present
    <3>2. c # a
      BY <3>1 DEF IdsIn
    <3>. QED
      BY <1>3, <3>1, <3>2
  <2>. QED
    BY <2>1 DEF Present
<1>9. Expected(R, X \ IdsIn(S[a]))
  BY <1>2, <1>3 DEF WellPlaced, Expected
<1>. QED
  BY <1>4, <1>5, <1>6, <1>7, <1>8, <1>9 DEF WellPlaced, R

(***************************************************************************)
(* One caller                                                              *)
(***************************************************************************)

\* Where the messages are, for the only caller.
Contents(p) ==
    [steer |-> steerQ, follow |-> followQ, next |-> nextTurn, bash |-> bash, out |-> run.out,
     saving |-> IF run.saving = None THEN <<>> ELSE <<run.saving>>, branch |-> branch,
     batch |-> call[p].batch]

\* A sum over one caller.
LEMMA SumOfOne ==
    ASSUME NEW p, NEW id, CountIn(id, call[p].batch) \in Nat
    PROVE  MapThenSumSet(LAMBDA q : CountIn(id, call[q].batch), {p}) = CountIn(id, call[p].batch)
<1> DEFINE G(f) == [s \in SUBSET {p} |->
                       IF s = {} THEN 0
                       ELSE CountIn(id, call[CHOOSE x \in s : TRUE].batch) + f[s \ {CHOOSE x \in s : TRUE}]]
           g == [s \in SUBSET {p} |-> IF s = {} THEN 0 ELSE CountIn(id, call[p].batch)]
           h == CHOOSE f : f = G(f)
<1>1. \A s \in SUBSET {p} : s # {} => s = {p} /\ (CHOOSE x \in s : TRUE) = p /\ s \ {p} = {}
  OBVIOUS
<1>2. g = G(g)
  BY <1>1
<1>3. h = G(h)
  BY <1>2
<1>4. h[{p}] = CountIn(id, call[p].batch) + 0
  <2>1. {} \in SUBSET {p} /\ {p} \in SUBSET {p} /\ {p} # {} /\ {p} \ {p} = {}
    OBVIOUS
  <2>. HIDE DEF h
  <2>2. h[{}] = 0
    BY <1>3, <2>1
  <2>3. h[{p}] = CountIn(id, call[CHOOSE x \in {p} : TRUE].batch) + h[{p} \ {CHOOSE x \in {p} : TRUE}]
    BY <1>3, <2>1
  <2>4. (CHOOSE x \in {p} : TRUE) = p
    BY <1>1, <2>1
  <2>. QED
    BY <2>1, <2>2, <2>3, <2>4
<1>5. MapThenSumSet(LAMBDA q : CountIn(id, call[q].batch), {p}) = h[{p}]
  BY DEF MapThenSumSet, MapThenFoldSet
<1>. HIDE DEF h
<1>. QED
  BY <1>4, <1>5

\* Where messages are in one place each, nothing is lost.
LEMMA PlacedIsNotLost ==
    ASSUME NEW p, Callers = {p}, WellPlaced(Contents(p), nextId, sent)
    PROVE  NothingLost
<1> DEFINE S == Contents(p)
<1>1. /\ S["steer"] = steerQ /\ S["follow"] = followQ /\ S["next"] = nextTurn /\ S["bash"] = bash
      /\ S["out"] = run.out /\ S["branch"] = branch /\ S["batch"] = call[p].batch
      /\ S["saving"] = IF run.saving = None THEN <<>> ELSE <<run.saving>>
  BY DEF Contents
<1>2. WellPlaced(S, nextId, sent)
  OBVIOUS
<1>. HIDE DEF S
<1>3. ASSUME NEW id \in sent
      PROVE  Places(id) = 1
  <2>1. PICK a \in PlaceNames : \E i \in DOMAIN S[a] : S[a][i].id = id
    BY <1>2 DEF WellPlaced, Present
  <2>2. ASSUME NEW b \in PlaceNames
        PROVE  CountIn(id, S[b]) = IF b = a THEN 1 ELSE 0
    <3> DEFINE At == {i \in DOMAIN S[b] : S[b][i].id = id}
    <3>1. CASE b = a
      <4>1. PICK i \in DOMAIN S[a] : S[a][i].id = id
        BY <2>1
      <4>2. At = {i}
        BY <1>2, <3>1, <4>1 DEF WellPlaced, Once
      <4>. QED
        BY <3>1, <4>2, FS_Singleton DEF CountIn
    <3>2. CASE b # a
      <4>1. At = {}
        BY <1>2, <2>1, <3>2 DEF WellPlaced, Once
      <4>. QED
        BY <3>2, <4>1, FS_EmptySet DEF CountIn
    <3>. QED
      BY <3>1, <3>2
  <2>3. CountIn(id, S["saving"]) = IF run.saving # None /\ run.saving.id = id THEN 1 ELSE 0
    <3>1. CASE run.saving = None
      BY <1>1, <3>1, EmptyList, FS_EmptySet DEF CountIn
    <3>2. CASE run.saving # None
      <4>1. DOMAIN S["saving"] = {1} /\ S["saving"][1] = run.saving
        BY <1>1, <3>2, OneItem
      <4>2. CASE run.saving.id = id
        <5>1. {i \in DOMAIN S["saving"] : S["saving"][i].id = id} = {1}
          BY <4>1, <4>2
        <5>. QED
          BY <3>2, <4>2, <5>1, FS_Singleton DEF CountIn
      <4>3. CASE run.saving.id # id
        BY <3>2, <4>1, <4>3, FS_EmptySet DEF CountIn
      <4>. QED
        BY <4>2, <4>3
    <3>. QED
      BY <3>1, <3>2
  <2>4. MapThenSumSet(LAMBDA q : CountIn(id, call[q].batch), Callers) = CountIn(id, S["batch"])
    <3>1. CountIn(id, call[p].batch) \in Nat
      BY <1>1, <2>2 DEF PlaceNames
    <3>2. MapThenSumSet(LAMBDA q : CountIn(id, call[q].batch), {p}) = CountIn(id, call[p].batch)
      BY <3>1, SumOfOne
    <3>. QED
      BY <1>1, <3>2
  <2>5. Places(id) = CountIn(id, S["steer"]) + CountIn(id, S["follow"]) + CountIn(id, S["next"])
                     + CountIn(id, S["bash"]) + CountIn(id, S["out"]) + CountIn(id, S["saving"])
                     + CountIn(id, S["branch"]) + CountIn(id, S["batch"])
    BY <1>1, <2>3, <2>4 DEF Places
  <2>. QED
    BY <2>2, <2>5 DEF PlaceNames
<1>4. ASSUME NEW i \in DOMAIN branch, branch[i].role = "user"
      PROVE  branch[i].id \in sent
  BY <1>1, <1>2, <1>4 DEF WellPlaced, Expected, PlaceNames
<1>. QED
  BY <1>3, <1>4 DEF NothingLost, OnePlace, GivenBackIsGone

\* What a call and a run look like; the fields that carry data are of any value.
RunPlaces == {"none", "prompt", "first", "ask", "tools", "answered", "stopped", "end"}
CallShape(c) ==
    [at : CallPhases, phase : {"check", "pre", "main"}, batch : {c.batch}, msg : {c.msg},
     recover : {c.recover}, cut : {c.cut}]
RunShape(r) ==
    [at : RunPlaces, by : {r.by}, out : {r.out}, via : {r.via}, saving : {r.saving},
     aborted : {r.aborted}]

\* The only caller p with its call c, a run r, and whether the session counts as
\* active: a run is one that the call waits for, and a call that runs the agent is
\* in the loop of prompt() that makes the session active, or in the one before.
InRun == {"running", "post", "sleeping", "cancelled", "continue"}
Controlled(p, c, r, a) ==
    /\ c \in CallShape(c) /\ r \in RunShape(r)
    /\ IF r.at = "none" THEN r.out = <<>> /\ r.saving = None ELSE r.by = p /\ c.at = "running"
    /\ c.at \in InRun => c.phase # "check"
    /\ c.phase = "main" => a
    /\ c.at \in {"idle", "settling"} \/ c.phase = "main" => c.batch = <<>>

ControlInv(p) == call = [q \in {p} |-> call[p]] /\ Controlled(p, call[p], run, active)

\* The call becomes c; what is kept for the next turn may join its messages, and
\* the shell results the entries br.
Moves(p, c, br) ==
    /\ call' = [q \in {p} |-> c] /\ Controlled(p, c, run, active')
    /\ \/ c.batch = call[p].batch /\ UNCHANGED nextTurn
       \/ c.batch = call[p].batch \o nextTurn /\ nextTurn' = <<>>
    /\ \/ branch' = br /\ UNCHANGED bash
       \/ branch' = br \o bash /\ bash' = <<>>

LEMMA Decided ==
    ASSUME NEW p, ControlInv(p), call[p].at # "running",
           NEW goOn, NEW msgs, NEW br, Decide(p, goOn, msgs, br)
    PROVE  \E c : Moves(p, c, br)
<1>1. CASE goOn
  <2> DEFINE c == [call[p] EXCEPT !.at = "continue", !.phase = IF @ = "check" THEN "pre" ELSE @,
                                  !.msg = None, !.cut = 0]
  <2>1. /\ call' = [call EXCEPT ![p].at = "continue", ![p].phase = IF @ = "check" THEN "pre" ELSE @,
                                ![p].msg = None, ![p].cut = 0]
        /\ branch' = br /\ UNCHANGED <<bash, nextTurn, active>>
    BY <1>1 DEF Decide
  <2>2. call' = [q \in {p} |-> c]
    BY <2>1 DEF ControlInv
  <2>3. /\ c \in CallShape(c) /\ c.batch = call[p].batch /\ c.at = "continue"
        /\ c.phase # "check" /\ (c.phase = "main" => call[p].phase = "main")
    BY DEF ControlInv, Controlled, CallShape, CallPhases
  <2>. HIDE DEF c
  <2>4. Controlled(p, c, run, active')
    BY <2>1, <2>3 DEF ControlInv, Controlled
  <2>. QED
    BY <2>1, <2>2, <2>3, <2>4 DEF Moves
<1>2. CASE ~goOn /\ call[p].phase # "main"
  <2> DEFINE c == [NoCall EXCEPT !.at = "before", !.batch = call[p].batch \o nextTurn]
  <2>1. /\ call' = [call EXCEPT ![p] = c] /\ nextTurn' = <<>> /\ UNCHANGED active
        /\ \/ branch' = br /\ UNCHANGED bash
           \/ branch' = br \o bash /\ bash' = <<>>
    BY <1>2 DEF Decide, Build, Flush
  <2>2. call' = [q \in {p} |-> c]
    <3> HIDE DEF c
    <3>. QED
      BY <2>1 DEF ControlInv
  <2>3. /\ c \in CallShape(c) /\ c.batch = call[p].batch \o nextTurn /\ c.at = "before"
        /\ c.phase = "check"
    BY DEF CallShape, CallPhases, NoCall
  <2>. HIDE DEF c
  <2>4. Controlled(p, c, run, active')
    BY <2>1, <2>3 DEF ControlInv, Controlled, InRun
  <2>. QED
    BY <2>1, <2>2, <2>3, <2>4 DEF Moves
<1>3. CASE ~goOn /\ call[p].phase = "main"
  <2> DEFINE c == [NoCall EXCEPT !.at = "settling"]
  <2>1. /\ call' = [call EXCEPT ![p] = c] /\ UNCHANGED nextTurn /\ active' = FALSE
        /\ branch' = br \o bash /\ bash' = <<>>
    BY <1>3 DEF Decide, Flush
  <2>2. call' = [q \in {p} |-> c]
    <3> HIDE DEF c
    <3>. QED
      BY <2>1 DEF ControlInv
  <2>3. /\ c \in CallShape(c) /\ c.batch = <<>> /\ c.at = "settling" /\ c.phase = "check"
    BY DEF CallShape, CallPhases, NoCall
  <2>. HIDE DEF c
  <2>4. Controlled(p, c, run, active')
    BY <2>1, <2>3 DEF ControlInv, Controlled, InRun
  <2>5. call[p].batch = <<>>
    BY <1>3 DEF ControlInv, Controlled
  <2>. QED
    BY <2>1, <2>2, <2>3, <2>4, <2>5 DEF Moves
<1>. QED
  BY <1>1, <1>2, <1>3

\* A call goes on to another place with the messages it has.
LEMMA GoesOn ==
    ASSUME NEW p, ControlInv(p), call[p].at \notin {"running", "idle", "settling"}, NEW c,
           c \in CallShape(c), c.batch = call[p].batch, c.phase = call[p].phase,
           c.at \notin {"running", "idle", "settling"},
           c.at \in InRun => call[p].at \in InRun,
           call' = [q \in {p} |-> c], UNCHANGED <<active, branch, bash, nextTurn>>
    PROVE  Moves(p, c, branch)
<1>1. Controlled(p, c, run, active')
  BY DEF ControlInv, Controlled
<1>. QED
  BY <1>1 DEF Moves

LEMMA Checked ==
    ASSUME NEW p, ControlInv(p), call[p].at \notin {"running", "idle", "settling"},
           NEW m, NEW skipAborted, Check(p, m, skipAborted)
    PROVE  \E c : Moves(p, c, branch)
<1>1. CASE DecideQueued(p)
  BY <1>1, Decided DEF DecideQueued
<1>2. ASSUME NEW recover \in BOOLEAN,
             call' = [call EXCEPT ![p].at = "prepare", ![p].recover = recover, ![p].msg = None],
             UNCHANGED <<branch, bash, nextTurn, active>>
      PROVE  \E c : Moves(p, c, branch)
  <2> DEFINE c == [call[p] EXCEPT !.at = "prepare", !.recover = recover, !.msg = None]
  <2>1. call' = [q \in {p} |-> c]
    BY <1>2 DEF ControlInv
  <2>2. c \in CallShape(c) /\ c.batch = call[p].batch /\ c.phase = call[p].phase /\ c.at = "prepare"
    BY DEF ControlInv, Controlled, CallShape, CallPhases
  <2>. HIDE DEF c
  <2>3. Moves(p, c, branch)
    BY <1>2, <2>1, <2>2, GoesOn DEF InRun
  <2>. QED
    BY <2>3
<1>. QED
  BY <1>1, <1>2 DEF Check

\* What the steps of a call do that neither begin nor end a run.
Decides(p) == PostRun(p) \/ Wake(p) \/ RetryCancelled(p) \/ Prepare(p) \/ SummaryFails(p) \/ Accepted(p)

LEMMA DecidesEffect ==
    ASSUME NEW p, ControlInv(p), Decides(p)
    PROVE  /\ \E c : Moves(p, c, branch)
           /\ UNCHANGED <<steerQ, followQ, run, connected, comp, nextId, compacts, sent>>
<1>1. CASE PostRun(p)
  <2>1. call[p].at = "post"
    BY <1>1 DEF PostRun
  <2>2. CASE last = None
    BY <1>1, <2>1, <2>2, Decided DEF PostRun, counters
  <2>3. CASE last # None /\ IsKind(last, {"error"}) /\ retries < MaxRetries
    <3> DEFINE c == [call[p] EXCEPT !.at = "sleeping", !.msg = last]
    <3>1. /\ call' = [call EXCEPT ![p].at = "sleeping", ![p].msg = last]
          /\ UNCHANGED <<branch, bash, nextTurn, active>>
      BY <1>1, <2>3 DEF PostRun
    <3>2. call' = [q \in {p} |-> c]
      BY <3>1 DEF ControlInv
    <3>3. c \in CallShape(c) /\ c.batch = call[p].batch /\ c.phase = call[p].phase /\ c.at = "sleeping"
      BY DEF ControlInv, Controlled, CallShape, CallPhases
    <3>. HIDE DEF c
    <3>4. Moves(p, c, branch)
      BY <2>1, <3>1, <3>2, <3>3, GoesOn DEF InRun
    <3>. QED
      BY <1>1, <3>4 DEF PostRun, counters
  <2>4. CASE last # None /\ ~(IsKind(last, {"error"}) /\ retries < MaxRetries)
    BY <1>1, <2>1, <2>4, Checked DEF PostRun, counters
  <2>. QED
    BY <2>2, <2>3, <2>4
<1>2. CASE Wake(p)
  BY <1>2, Decided DEF Wake, counters
<1>3. CASE RetryCancelled(p)
  BY <1>3, Checked DEF RetryCancelled, counters
<1>4. CASE Prepare(p)
  <2>1. CASE DecideQueued(p)
    BY <1>4, <2>1, Decided DEF DecideQueued, Prepare, counters
  <2>2. ASSUME NEW cut \in Cuts(branch),
               call' = [call EXCEPT ![p].at = "summarizing", ![p].cut = cut],
               UNCHANGED <<branch, bash, nextTurn, active>>
        PROVE  \E c : Moves(p, c, branch)
    <3> DEFINE c == [call[p] EXCEPT !.at = "summarizing", !.cut = cut]
    <3>1. call' = [q \in {p} |-> c]
      BY <2>2 DEF ControlInv
    <3>2. c \in CallShape(c) /\ c.batch = call[p].batch /\ c.phase = call[p].phase
          /\ c.at = "summarizing"
      BY DEF ControlInv, Controlled, CallShape, CallPhases
    <3>. HIDE DEF c
    <3>3. Moves(p, c, branch)
      BY <1>4, <2>2, <3>1, <3>2, GoesOn DEF InRun, Prepare
    <3>. QED
      BY <3>3
  <2>3. DecideQueued(p) \/ \E cut \in Cuts(branch) :
           /\ call' = [call EXCEPT ![p].at = "summarizing", ![p].cut = cut]
           /\ UNCHANGED <<branch, bash, nextTurn, active>>
    BY <1>4 DEF Prepare
  <2>4. \E c : Moves(p, c, branch)
    BY <1>4, <2>2, <2>3, Decided DEF DecideQueued, Prepare
  <2>. QED
    BY <1>4, <2>4 DEF Prepare, counters
<1>5. CASE SummaryFails(p)
  BY <1>5, Decided DEF DecideQueued, SummaryFails, counters
<1>6. CASE Accepted(p)
  <2>1. \E c : Moves(p, c, branch)
    BY <1>6, Decided, Checked DEF Accepted, DecideQueued
  <2>. QED
    BY <1>6, <2>1 DEF Accepted, counters
<1>. QED
  BY <1>1, <1>2, <1>3, <1>4, <1>5, <1>6 DEF Decides

LEMMA CompactedEffect ==
    ASSUME NEW p, ControlInv(p), Compacted(p)
    PROVE  /\ \E c : Moves(p, c, Append(branch, Compaction(nextId, call[p].cut)))
           /\ nextId' = nextId + 1
           /\ UNCHANGED <<steerQ, followQ, run, connected, comp, compacts, sent>>
BY Decided DEF Compacted, NewId, counters

\* A run begins for the call that waits for it, or has gone on.
LEMMA RunIsControlled ==
    ASSUME NEW p, NEW c, NEW r, NEW a, c \in CallShape(c), r \in RunShape(r),
           r.at # "none", r.by = p, c.at = "running", c.phase # "check", c.phase = "main" => a,
           c.phase = "main" => c.batch = <<>>
    PROVE  Controlled(p, c, r, a)
BY DEF Controlled

\* The steps of a run that go on with it.
LEMMA RunStep ==
    ASSUME NEW p, ControlInv(p), Deliver \/ Save \/ Respond \/ ToolDone \/ Poll
    PROVE  UNCHANGED <<call, active>> /\ Controlled(p, call[p], run', active)
<1>1. ASSUME NEW r, run' = r, r \in RunShape(r), r.at # "none", r.by = run.by, run.at # "none"
      PROVE  Controlled(p, call[p], run', active)
  BY <1>1 DEF ControlInv, Controlled
<1>2. run \in RunShape(run) /\ (run.at = "none" => run.out = <<>> /\ run.saving = None)
  BY DEF ControlInv, Controlled
<1>3. CASE Deliver
  <2> DEFINE r == [run EXCEPT !.out = Tail(@), !.saving = IF connected THEN Head(run.out) ELSE None]
  <2>1. r \in RunShape(r) /\ r.at = run.at /\ r.by = run.by
    BY <1>2 DEF RunShape
  <2>2. run' = r /\ run.at # "none" /\ UNCHANGED <<call, active>>
    BY <1>2, <1>3 DEF Deliver
  <2>. HIDE DEF r
  <2>. QED
    BY <1>1, <2>1, <2>2
<1>4. CASE Save
  <2> DEFINE r == [run EXCEPT !.saving = None]
  <2>1. r \in RunShape(r) /\ r.at = run.at /\ r.by = run.by
    BY <1>2 DEF RunShape
  <2>2. run' = r /\ run.at # "none" /\ UNCHANGED <<call, active>>
    BY <1>2, <1>4 DEF Save
  <2>. HIDE DEF r
  <2>. QED
    BY <1>1, <2>1, <2>2
<1>5. ASSUME NEW m, NEW at \in RunPlaces \ {"none"}, Produce(m, at), run.at # "none"
      PROVE  UNCHANGED <<call, active>> /\ Controlled(p, call[p], run', active)
  <2> DEFINE r == [run EXCEPT !.at = at, !.saving = IF connected THEN m ELSE None]
  <2>1. r \in RunShape(r) /\ r.at = at /\ r.by = run.by
    BY <1>2 DEF RunShape
  <2>2. run' = r /\ run.at # "none" /\ UNCHANGED <<call, active>>
    BY <1>2, <1>5 DEF Produce
  <2>. HIDE DEF r
  <2>. QED
    BY <1>1, <2>1, <2>2
<1>6. CASE Respond
  <2>1. PICK kind : Produce(AssistantMsg(nextId, kind), AfterReply(kind))
    BY <1>6 DEF Respond
  <2>2. AfterReply(kind) \in RunPlaces \ {"none"}
    BY DEF AfterReply, RunPlaces
  <2>3. run.at # "none"
    BY <1>6 DEF Respond, Ready
  <2>. QED
    BY <1>5, <2>1, <2>2, <2>3
<1>7. CASE ToolDone
  BY <1>5, <1>7 DEF ToolDone, Ready, RunPlaces
<1>8. CASE Poll
  <2>1. run.at # "none" /\ UNCHANGED <<call, active>>
    BY <1>8 DEF Poll, Ready
  <2>2. ASSUME NEW at \in RunPlaces \ {"none"}, NEW out, NEW via,
               run' = [run EXCEPT !.at = at, !.out = out, !.via = via]
        PROVE  Controlled(p, call[p], run', active)
    <3> DEFINE r == [run EXCEPT !.at = at, !.out = out, !.via = via]
    <3>1. r \in RunShape(r) /\ r.at = at /\ r.by = run.by
      BY <1>2 DEF RunShape
    <3>2. run' = r
      BY <2>2
    <3>. HIDE DEF r
    <3>. QED
      BY <1>1, <2>1, <3>1, <3>2
  <2>3. ASSUME NEW at \in RunPlaces \ {"none"}, run' = [run EXCEPT !.at = at]
        PROVE  Controlled(p, call[p], run', active)
    <3> DEFINE r == [run EXCEPT !.at = at]
    <3>1. r \in RunShape(r) /\ r.at = at /\ r.by = run.by
      BY <1>2 DEF RunShape
    <3>2. run' = r
      BY <2>3
    <3>. HIDE DEF r
    <3>. QED
      BY <1>1, <2>1, <3>1, <3>2
  <2>4. \/ FromSteering("first") \/ FromSteering("ask") \/ FromFollowUps("ask")
        \/ run' = [run EXCEPT !.at = "end"] \/ run' = [run EXCEPT !.at = "ask"]
    BY <1>8 DEF Poll
  <2>. QED
    BY <2>1, <2>2, <2>3, <2>4 DEF FromSteering, FromFollowUps, RunPlaces
<1>. QED
  BY <1>3, <1>4, <1>6, <1>7, <1>8

\* The only caller's call becomes c.
LEMMA ControlKept ==
    ASSUME NEW p, NEW c, call' = [q \in {p} |-> c], Controlled(p, c, run', active')
    PROVE  ControlInv(p)'
<1>1. call'[p] = c
  OBVIOUS
<1>. QED
  BY <1>1 DEF ControlInv

\* The steps of the application that change nothing of a run or a call.
Quietly == Steer \/ FollowUp \/ SendNextTurn \/ SendCustom \/ RecordBash \/ ClearQueue \/ CompStep

LEMMA ControlStep ==
    ASSUME NEW p, Callers = {p}, ControlInv(p), [Next]_vars
    PROVE  ControlInv(p)'
<1>1. /\ call[p] \in CallShape(call[p]) /\ run \in RunShape(run)
      /\ call = [q \in {p} |-> call[p]]
      /\ run.at = "none" => run.out = <<>> /\ run.saving = None
      /\ run.at # "none" => run.by = p /\ call[p].at = "running"
  BY DEF ControlInv, Controlled
<1>2. NoRun \in RunShape(NoRun) /\ NoRun.at = "none" /\ NoRun.out = <<>> /\ NoRun.saving = None
  BY DEF NoRun, RunShape, RunPlaces
<1>3. CASE UNCHANGED <<call, run, active>>
  BY <1>3 DEF ControlInv, Controlled, RunShape, CallShape
<1>4. CASE Deliver \/ Save \/ Respond \/ ToolDone \/ Poll
  BY <1>1, <1>4, RunStep, ControlKept
<1>5. CASE RunEnds
  <2> DEFINE c == [call[p] EXCEPT !.at = "post"]
  <2>1. run.by = p /\ run' = NoRun /\ active' = active /\ call' = [call EXCEPT ![run.by].at = "post"]
        /\ call[p].at = "running"
    BY <1>1, <1>5 DEF RunEnds, Ready
  <2>2. call' = [q \in {p} |-> c]
    BY <1>1, <2>1
  <2>3. c \in CallShape(c) /\ c.at = "post" /\ c.phase = call[p].phase /\ c.batch = call[p].batch
    BY <1>1 DEF CallShape, CallPhases
  <2>. HIDE DEF c
  <2>4. Controlled(p, c, run', active')
    BY <1>2, <2>1, <2>3 DEF ControlInv, Controlled, InRun
  <2>. QED
    BY <2>2, <2>4, ControlKept
<1>6. CASE Decides(p) \/ Compacted(p)
  <2>1. PICK c, br : Moves(p, c, br) /\ run' = run
    BY <1>6, DecidesEffect, CompactedEffect
  <2>. QED
    BY <2>1, ControlKept DEF Moves
\* The call is over, or waits for its last listeners.
<1>7. ASSUME NEW c, c \in CallShape(c), c.at \in {"idle", "settling"}, c.phase = "check", c.batch = <<>>,
             call' = [call EXCEPT ![p] = c], run' = run, run.at = "none"
      PROVE  ControlInv(p)'
  BY <1>1, <1>7, ControlKept DEF Controlled, InRun
<1>8. /\ NoCall \in CallShape(NoCall) /\ NoCall.at = "idle" /\ NoCall.phase = "check"
      /\ NoCall.batch = <<>>
  BY DEF CallShape, CallPhases, NoCall
<1>9. CASE Continue(p)
  <2> DEFINE c == [call[p] EXCEPT !.at = "running"]
  <2>1. call' = [call EXCEPT ![p].at = "running"] /\ UNCHANGED active /\ call[p].at = "continue"
    BY <1>9 DEF Continue, Go
  <2>2. call' = [q \in {p} |-> c]
    BY <1>1, <2>1
  <2>3. c \in CallShape(c) /\ c.at = "running" /\ c.phase = call[p].phase /\ c.batch = call[p].batch
    BY <1>1 DEF CallShape, CallPhases
  <2>. HIDE DEF c
  <2>4. ASSUME NEW at \in {"prompt", "ask"}, NEW out, NEW via, Start(p, at, out, via)
        PROVE  run' \in RunShape(run') /\ run'.at # "none" /\ run'.by = p
    BY <2>4 DEF Start, NoRun, RunShape, RunPlaces
  <2>5. run' \in RunShape(run') /\ run'.at # "none" /\ run'.by = p
    BY <1>9, <2>4 DEF Continue
  <2>6. Controlled(p, c, run', active')
    BY <2>1, <2>3, <2>5, RunIsControlled DEF ControlInv, Controlled, InRun
  <2>. QED
    BY <2>2, <2>6, ControlKept
<1>10. CASE ContinueThrows(p) \/ Settled(p) \/ Refused(p)
  <2>1. run' = run /\ run.at = "none"
    BY <1>1, <1>10 DEF ContinueThrows, Settled, Refused, agentVars
  <2>2. \/ call' = [call EXCEPT ![p] = NoCall]
        \/ call' = [call EXCEPT ![p] = [NoCall EXCEPT !.at = "settling"]]
    BY <1>10 DEF ContinueThrows, Settled, Refused
  <2>3. CASE call' = [call EXCEPT ![p] = NoCall]
    BY <1>7, <1>8, <2>1, <2>3
  <2>4. CASE call' = [call EXCEPT ![p] = [NoCall EXCEPT !.at = "settling"]]
    <3> DEFINE c == [NoCall EXCEPT !.at = "settling"]
    <3>1. c \in CallShape(c) /\ c.at = "settling" /\ c.phase = "check" /\ c.batch = <<>>
      BY DEF CallShape, CallPhases, NoCall
    <3>2. call' = [call EXCEPT ![p] = c]
      BY <2>4
    <3>. HIDE DEF c
    <3>. QED
      BY <1>7, <2>1, <3>1, <3>2
  <2>. QED
    BY <2>2, <2>3, <2>4
<1>11. ASSUME NEW batch, RunPrompt(p, batch), call[p].at # "running"
       PROVE  ControlInv(p)'
  <2> DEFINE c == [NoCall EXCEPT !.at = "running", !.phase = "main"]
  <2>1. /\ active' = TRUE /\ Start(p, "prompt", batch, "prompt")
        /\ call' = [call EXCEPT ![p] = c]
    BY <1>1, <1>11 DEF RunPrompt
  <2>2. call' = [q \in {p} |-> c]
    <3> HIDE DEF c
    <3>. QED
      BY <1>1, <2>1
  <2>3. c \in CallShape(c) /\ c.at = "running" /\ c.phase = "main" /\ c.batch = <<>>
    BY DEF CallShape, CallPhases, NoCall
  <2>. HIDE DEF c
  <2>4. run' \in RunShape(run') /\ run'.at # "none" /\ run'.by = p
    BY <2>1 DEF Start, NoRun, RunShape, RunPlaces
  <2>5. Controlled(p, c, run', active')
    BY <2>1, <2>3, <2>4, RunIsControlled
  <2>. QED
    BY <2>2, <2>5, ControlKept
<1>12. CASE BeforeDone(p)
  BY <1>11, <1>12 DEF BeforeDone
<1>13. CASE SendTurn(p)
  BY <1>11, <1>13 DEF SendTurn
<1>14. CASE Prompt(p)
  <2> DEFINE c == [NoCall EXCEPT !.at = "auth", !.batch = <<UserMsg(nextId)>>]
  <2>1. call' = [call EXCEPT ![p] = c] /\ UNCHANGED <<run, active>> /\ call[p].at = "idle"
    BY <1>14 DEF Prompt
  <2>2. call' = [q \in {p} |-> c]
    <3> HIDE DEF c
    <3>. QED
      BY <1>1, <2>1
  <2>3. c \in CallShape(c) /\ c.at = "auth" /\ c.phase = "check"
    BY DEF CallShape, CallPhases, NoCall
  <2>. HIDE DEF c
  <2>4. Controlled(p, c, run', active')
    BY <1>1, <2>1, <2>3 DEF Controlled, InRun
  <2>. QED
    BY <2>2, <2>4, ControlKept
<1>15. CASE Abort \/ Compact
  <2>1. AbortAll /\ UNCHANGED active
    BY <1>15 DEF Abort, Compact
  <2> DEFINE c == IF call[p].at = "sleeping" THEN [call[p] EXCEPT !.at = "cancelled"] ELSE call[p]
             r == IF run.at = "none" THEN run ELSE [run EXCEPT !.aborted = TRUE]
  <2>2. call' = [q \in {p} |-> c] /\ run' = r
    BY <1>1, <2>1 DEF AbortAll
  <2>3. /\ c \in CallShape(c) /\ c.phase = call[p].phase /\ c.batch = call[p].batch
        /\ c.at = call[p].at \/ (c.at = "cancelled" /\ call[p].at = "sleeping")
    BY <1>1 DEF CallShape, CallPhases
  <2>4. r \in RunShape(r) /\ r.at = run.at /\ r.by = run.by /\ r.out = run.out /\ r.saving = run.saving
    BY <1>1 DEF RunShape
  <2>. HIDE DEF c, r
  <2>5. Controlled(p, c, run', active')
    BY <2>1, <2>2, <2>3, <2>4 DEF ControlInv, Controlled, InRun
  <2>. QED
    BY <2>2, <2>5, ControlKept
<1>16. CASE Quietly
  <2>1. UNCHANGED <<call, run, active>>
    BY <1>16 DEF Quietly, Steer, FollowUp, SendNextTurn, SendCustom, RecordBash, ClearQueue, CompStep,
          CompactPrepare, CompactDone, agentVars
  <2>. QED
    BY <1>3, <2>1
<1>17. CASE UNCHANGED vars
  BY <1>3, <1>17 DEF vars, agentVars
<1>18. CASE Next
  <2>1. \/ Deliver \/ Save \/ Respond \/ ToolDone \/ Poll \/ RunEnds
        \/ CallStep(p) \/ CompStep \/ Prompt(p) \/ SendTurn(p)
        \/ Steer \/ FollowUp \/ SendNextTurn \/ SendCustom \/ RecordBash \/ ClearQueue
        \/ Abort \/ Compact
    BY <1>18 DEF Next, AgentStep, Application
  <2>2. CallStep(p) =>
           \/ Decides(p) \/ Compacted(p) \/ Continue(p) \/ ContinueThrows(p) \/ Settled(p)
           \/ Refused(p) \/ BeforeDone(p)
    BY DEF CallStep, Decides
  <2>. QED
    BY <2>1, <2>2, <1>4, <1>5, <1>6, <1>9, <1>10, <1>12, <1>13, <1>14, <1>15, <1>16 DEF Quietly
<1>. QED
  BY <1>17, <1>18

LEMMA ControlInit ==
    ASSUME NEW p, Callers = {p}, Init
    PROVE  ControlInv(p)
<1>1. call = [q \in {p} |-> call[p]] /\ call[p] = NoCall /\ run = NoRun
  BY DEF Init
<1>2. /\ NoCall \in CallShape(NoCall) /\ NoCall.at = "idle" /\ NoCall.phase = "check"
      /\ NoCall.batch = <<>>
  BY DEF CallShape, CallPhases, NoCall
<1>3. NoRun \in RunShape(NoRun) /\ NoRun.at = "none" /\ NoRun.out = <<>> /\ NoRun.saving = None
  BY DEF NoRun, RunShape, RunPlaces
<1>. QED
  BY <1>1, <1>2, <1>3 DEF ControlInv, Controlled, InRun

OneCaller == \E p : Callers = {p}

\* "Whether the session has no active agent run, retry, auto-compaction, or
\* queued continuation": with one caller of prompt(), whatever is aborted,
\* compacted or cleared meanwhile, a session that counts as idle has no run but
\* the one that a prompt continues before it becomes active itself.
THEOREM IdleIsIdleHolds == ASSUME OneCaller PROVE Spec => []IdleIsIdle
<1>1. PICK p : Callers = {p}
  BY DEF OneCaller
<1>2. Init => ControlInv(p)
  BY <1>1, ControlInit
<1>3. ControlInv(p) /\ [Next]_vars => ControlInv(p)'
  BY <1>1, ControlStep
<1>4. ControlInv(p) => IdleIsIdle
  BY <1>1 DEF ControlInv, Controlled, IdleIsIdle, InRun, CallShape
<1>. QED
  BY <1>2, <1>3, <1>4, PTL DEF Spec

(***************************************************************************)
(* Nothing is lost                                                         *)
(***************************************************************************)

\* Nothing but a run and its caller takes messages from where they are: compact()
\* and clearQueue() are not called.
Steady == scenario.compacts = 0 /\ "clear" \notin scenario.ways

PlacedInv(p) ==
    /\ Steady /\ scenario \in Scenarios /\ compacts = 0 /\ comp = NoComp /\ connected = TRUE
    /\ nextId \in Nat \ {0}
    /\ WellPlaced(Contents(p), nextId, sent)

LEMMA PlacesOf ==
    ASSUME NEW p
    PROVE  LET S == Contents(p) IN
           /\ S["steer"] = steerQ /\ S["follow"] = followQ /\ S["next"] = nextTurn /\ S["bash"] = bash
           /\ S["out"] = run.out /\ S["branch"] = branch /\ S["batch"] = call[p].batch
           /\ S["saving"] = IF run.saving = None THEN <<>> ELSE <<run.saving>>
BY DEF Contents

LEMMA Placed ==
    ASSUME NEW p, PlacedInv(p), UNCHANGED <<scenario, compacts, comp, connected>>,
           nextId' \in Nat \ {0}, NEW R, WellPlaced(R, nextId', sent'), Contents(p)' = R
    PROVE  PlacedInv(p)'
BY DEF PlacedInv, Steady

LEMMA EmptyJoin ==
    ASSUME NEW s, IsSeq(s)
    PROVE  <<>> \o s = s
<1>1. PICK T : s \in Seq(T)
  BY DEF IsSeq
<1>. QED
  BY <1>1

LEMMA AppendOne ==
    ASSUME NEW m
    PROVE  /\ Append(<<>>, m) = <<m>> /\ Head(<<m>>) = m /\ Tail(<<m>>) = <<>>
           /\ <<m>> # <<>>
OBVIOUS

LEMMA NewMessages ==
    ASSUME NEW id \in Nat
    PROVE  /\ UserMsg(id).id = id /\ UserMsg(id) # None
           /\ \A kind \in AllReplies : /\ AssistantMsg(id, kind).id = id /\ AssistantMsg(id, kind) # None
                                       /\ AssistantMsg(id, kind).role = "assistant"
           /\ \A role \in {"toolResult", "custom", "bashExecution"} :
                 OtherMsg(id, role).id = id /\ OtherMsg(id, role) # None /\ OtherMsg(id, role).role = role
<1>1. UserMsg(id) \in Message /\ UserMsg(id).id = id
  BY DEF UserMsg, Message
<1>2. ASSUME NEW kind \in AllReplies
      PROVE  AssistantMsg(id, kind) \in Message /\ AssistantMsg(id, kind).id = id
             /\ AssistantMsg(id, kind).role = "assistant"
  BY DEF AssistantMsg, Message
<1>3. ASSUME NEW role \in {"toolResult", "custom", "bashExecution"}
      PROVE  OtherMsg(id, role) \in Message /\ OtherMsg(id, role).id = id /\ OtherMsg(id, role).role = role
  BY DEF OtherMsg, Message
<1>. QED
  BY <1>1, <1>2, <1>3, NoneAssumption

\* The places in a next state, given one by one.
LEMMA PlacedBecomes ==
    ASSUME NEW p, NEW R, NEW n, NEW X, WellPlaced(R, n, X),
           R["steer"] = steerQ', R["follow"] = followQ', R["next"] = nextTurn', R["bash"] = bash',
           R["out"] = run'.out, R["branch"] = branch', R["batch"] = call'[p].batch,
           R["saving"] = IF run'.saving = None THEN <<>> ELSE <<run'.saving>>
    PROVE  WellPlaced(Contents(p)', n, X)
<1>1. R = [a \in PlaceNames |-> R[a]]
  BY DEF WellPlaced, Lists
<1>2. Contents(p)' = [a \in PlaceNames |-> R[a]]
  BY DEF Contents, PlaceNames
<1>. QED
  BY <1>1, <1>2

\* The places but for those of A are the same in R and in S.
Rest(R, S, A) ==
    /\ "steer" \in A \/ R["steer"] = S["steer"]
    /\ "follow" \in A \/ R["follow"] = S["follow"]
    /\ "next" \in A \/ R["next"] = S["next"]
    /\ "bash" \in A \/ R["bash"] = S["bash"]
    /\ "out" \in A \/ R["out"] = S["out"]
    /\ "saving" \in A \/ R["saving"] = S["saving"]
    /\ "branch" \in A \/ R["branch"] = S["branch"]
    /\ "batch" \in A \/ R["batch"] = S["batch"]

LEMMA TheRest ==
    ASSUME NEW R, NEW S, NEW A, \A c \in PlaceNames \ A : R[c] = S[c]
    PROVE  Rest(R, S, A)
BY DEF Rest, PlaceNames

\* The moves of messages: all those of a place, its first one, a new one, and
\* those that are given back.
Joining(S, a, b) == [S EXCEPT ![b] = S[b] \o S[a], ![a] = <<>>]
Heading(S, a, b) == [S EXCEPT ![b] = Append(S[b], Head(S[a])), ![a] = Tail(S[a])]
Adding(S, a, m) == [S EXCEPT ![a] = Append(S[a], m)]
Emptying(S, a) == [S EXCEPT ![a] = <<>>]

LEMMA AllGo ==
    ASSUME NEW S, NEW n, NEW X, WellPlaced(S, n, X), NEW a \in PlaceNames \ {"saving", "branch"},
           NEW b \in PlaceNames \ {a}
    PROVE  LET R == Joining(S, a, b)
           IN  WellPlaced(R, n, X) /\ R[a] = <<>> /\ R[b] = S[b] \o S[a]
               /\ Rest(R, S, {a, b})
<1>1. WellPlaced(Joining(S, a, b), n, X)
  BY AllMove DEF Joining
<1>2. S = [c \in PlaceNames |-> S[c]]
  BY DEF WellPlaced, Lists
<1>3. \A c \in PlaceNames \ {a, b} : Joining(S, a, b)[c] = S[c]
  BY <1>2 DEF Joining
<1>4. Joining(S, a, b)[a] = <<>> /\ Joining(S, a, b)[b] = S[b] \o S[a]
  BY <1>2 DEF Joining
<1>. QED
  BY <1>1, <1>3, <1>4, TheRest

LEMMA HeadGoes ==
    ASSUME NEW S, NEW n, NEW X, WellPlaced(S, n, X), NEW a \in PlaceNames \ {"branch"},
           NEW b \in PlaceNames \ {a}, a = "saving" => b = "branch", S[a] # <<>>
    PROVE  LET R == Heading(S, a, b)
           IN  WellPlaced(R, n, X) /\ R[a] = Tail(S[a]) /\ R[b] = Append(S[b], Head(S[a]))
               /\ Rest(R, S, {a, b})
<1>1. WellPlaced(Heading(S, a, b), n, X)
  BY HeadMoves DEF Heading
<1>2. S = [c \in PlaceNames |-> S[c]]
  BY DEF WellPlaced, Lists
<1>3. \A c \in PlaceNames \ {a, b} : Heading(S, a, b)[c] = S[c]
  BY <1>2 DEF Heading
<1>4. Heading(S, a, b)[a] = Tail(S[a]) /\ Heading(S, a, b)[b] = Append(S[b], Head(S[a]))
  BY <1>2 DEF Heading
<1>. QED
  BY <1>1, <1>3, <1>4, TheRest

LEMMA Added ==
    ASSUME NEW S, NEW n, NEW X, WellPlaced(S, n, X), NEW a \in PlaceNames, NEW m
    PROVE  LET R == Adding(S, a, m)
           IN  R[a] = Append(S[a], m) /\ Rest(R, S, {a})
<1>1. S = [c \in PlaceNames |-> S[c]]
  BY DEF WellPlaced, Lists
<1>2. \A c \in PlaceNames \ {a} : Adding(S, a, m)[c] = S[c]
  BY <1>1 DEF Adding
<1>3. Adding(S, a, m)[a] = Append(S[a], m)
  BY <1>1 DEF Adding
<1>. QED
  BY <1>2, <1>3, TheRest

LEMMA MessageComes ==
    ASSUME NEW S, NEW n \in Nat \ {0}, NEW X, WellPlaced(S, n, X), NEW a \in PlaceNames, NEW m,
           m.id = n, a # "branch" => m # None, NEW k, k = n + 1, NEW Y, Y = X \union {n}
    PROVE  WellPlaced(Adding(S, a, m), k, Y)
BY MessageAdded DEF Adding

LEMMA EntryComes ==
    ASSUME NEW S, NEW n \in Nat \ {0}, NEW X, WellPlaced(S, n, X), NEW a \in {"saving", "branch"}, NEW m,
           m.id = n, m.role # "user", a # "branch" => m # None, NEW k, k = n + 1
    PROVE  WellPlaced(Adding(S, a, m), k, X)
<1>1. a \in PlaceNames
  BY DEF PlaceNames
<1>. QED
  BY <1>1, MessageAdded DEF Adding

LEMMA MessagesGo ==
    ASSUME NEW S, NEW n, NEW X, WellPlaced(S, n, X), NEW a \in PlaceNames
    PROVE  LET R == Emptying(S, a)
           IN  WellPlaced(R, n, X \ IdsIn(S[a])) /\ R[a] = <<>>
               /\ Rest(R, S, {a})
<1>1. WellPlaced(Emptying(S, a), n, X \ IdsIn(S[a]))
  BY MessagesGivenBack DEF Emptying
<1>2. S = [c \in PlaceNames |-> S[c]]
  BY DEF WellPlaced, Lists
<1>3. \A c \in PlaceNames \ {a} : Emptying(S, a)[c] = S[c]
  BY <1>2 DEF Emptying
<1>4. Emptying(S, a)[a] = <<>>
  BY <1>2 DEF Emptying
<1>. QED
  BY <1>1, <1>3, <1>4, TheRest

\* The steps of a call that neither begin nor end a run keep the messages, given
\* the entries br by then.
LEMMA MovesPlaced ==
    ASSUME NEW p, NEW c, NEW br, Moves(p, c, br), UNCHANGED <<steerQ, followQ, run>>,
           NEW n, NEW X, NEW S, WellPlaced(S, n, X), S["branch"] = br,
           \A a \in PlaceNames \ {"branch"} : S[a] = Contents(p)[a]
    PROVE  WellPlaced(Contents(p)', n, X)
<1>1. call'[p] = c
  BY DEF Moves
<1>2. /\ S["steer"] = steerQ /\ S["follow"] = followQ /\ S["next"] = nextTurn /\ S["bash"] = bash
      /\ S["out"] = run.out /\ S["batch"] = call[p].batch
      /\ S["saving"] = IF run.saving = None THEN <<>> ELSE <<run.saving>>
  BY PlacesOf DEF PlaceNames
<1> DEFINE T == Joining(S, "next", "batch")
<1>3. /\ WellPlaced(T, n, X) /\ T["next"] = <<>> /\ T["batch"] = S["batch"] \o S["next"]
      /\ Rest(T, S, {"next", "batch"})
  BY AllGo DEF PlaceNames
<1>4. PICK R : /\ WellPlaced(R, n, X) /\ R["branch"] = br /\ R["bash"] = bash
               /\ R["next"] = nextTurn' /\ R["batch"] = c.batch
               /\ \A a \in {"steer", "follow", "out", "saving"} : R[a] = S[a]
  <2>. HIDE DEF T
  <2>1. CASE c.batch = call[p].batch /\ UNCHANGED nextTurn
    BY <1>2, <2>1
  <2>2. CASE c.batch = call[p].batch \o nextTurn /\ nextTurn' = <<>>
    BY <1>2, <1>3, <2>2 DEF Rest
  <2>. QED
    BY <2>1, <2>2 DEF Moves
<1>5. CASE branch' = br /\ UNCHANGED bash
  BY <1>1, <1>2, <1>4, <1>5, PlacedBecomes
<1>6. CASE branch' = br \o bash /\ bash' = <<>>
  <2> DEFINE U == Joining(R, "bash", "branch")
  <2>1. /\ WellPlaced(U, n, X) /\ U["bash"] = <<>> /\ U["branch"] = R["branch"] \o R["bash"]
        /\ Rest(U, R, {"bash", "branch"})
    BY <1>4, AllGo DEF PlaceNames
  <2>. HIDE DEF U
  <2>2. \A a \in {"steer", "follow", "next", "out", "saving", "batch"} : U[a] = R[a]
    BY <2>1 DEF Rest
  <2>. QED
    BY <1>1, <1>2, <1>4, <1>6, <2>1, <2>2, PlacedBecomes
<1>. QED
  BY <1>5, <1>6 DEF Moves

\* The places of the only caller now, one by one, with what is known of them.
Here(p, S) ==
    /\ S["steer"] = steerQ /\ S["follow"] = followQ /\ S["next"] = nextTurn /\ S["bash"] = bash
    /\ S["out"] = run.out /\ S["branch"] = branch /\ S["batch"] = call[p].batch
    /\ S["saving"] = IF run.saving = None THEN <<>> ELSE <<run.saving>>
    /\ WellPlaced(S, nextId, sent) /\ nextId \in Nat \ {0} /\ connected = TRUE

LEMMA PlacesAre ==
    ASSUME NEW p, PlacedInv(p)
    PROVE  Here(p, Contents(p))
BY PlacesOf DEF PlacedInv, Here

\* The messages are still placed after a step.
Still(p) == WellPlaced(Contents(p)', nextId', sent')

LEMMA NothingMoves ==
    ASSUME NEW p, PlacedInv(p), UNCHANGED <<steerQ, followQ, nextTurn, bash, branch, nextId, sent>>,
           run'.out = run.out, run'.saving = run.saving, call'[p].batch = call[p].batch
    PROVE  Still(p)
BY PlacesAre, PlacedBecomes DEF Here, Still

LEMMA RunPlaced ==
    ASSUME NEW p, Callers = {p}, ControlInv(p), PlacedInv(p), AgentStep
    PROVE  Still(p)
<1> DEFINE S == Contents(p)
<1>1. Here(p, S)
  BY PlacesAre
<1>2. run \in RunShape(run) /\ call[p] \in CallShape(call[p]) /\ call = [q \in {p} |-> call[p]]
      /\ (run.at # "none" => run.by = p)
  BY DEF ControlInv, Controlled
<1>. HIDE DEF S
<1>3. CASE Deliver
  <2> DEFINE R == Heading(S, "out", "saving")
             m == Head(run.out)
  <2>1. /\ run.out # <<>> /\ run.saving = None /\ run' = [run EXCEPT !.out = Tail(@), !.saving = m]
        /\ UNCHANGED <<steerQ, followQ, branch, nextTurn, bash, call, nextId, sent>>
    BY <1>1, <1>3 DEF Deliver, Here
  <2>2. run'.out = Tail(run.out) /\ run'.saving = m
    BY <1>2, <2>1 DEF RunShape
  <2>3. m # None
    <3>1. IsSeq(run.out) /\ "out" \in PlaceNames \ {"branch"}
      BY <1>1 DEF WellPlaced, Lists, PlaceNames, Here
    <3>2. m = run.out[1] /\ 1 \in DOMAIN run.out
      BY <2>1, <3>1, RestOfList
    <3>. QED
      BY <1>1, <3>1, <3>2 DEF WellPlaced, Messages, Here
  <2>4. "out" \in PlaceNames \ {"branch"} /\ "saving" \in PlaceNames \ {"out"}
    BY DEF PlaceNames
  <2>5. /\ WellPlaced(R, nextId, sent) /\ R["out"] = Tail(run.out) /\ R["saving"] = Append(<<>>, m)
        /\ Rest(R, S, {"out", "saving"})
    <3>1. WellPlaced(S, nextId, sent) /\ S["out"] # <<>> /\ ("out" = "saving" => "saving" = "branch")
      BY <1>1, <2>1 DEF Here
    <3>2. /\ WellPlaced(R, nextId, sent) /\ R["out"] = Tail(S["out"])
          /\ R["saving"] = Append(S["saving"], Head(S["out"])) /\ Rest(R, S, {"out", "saving"})
      BY <2>4, <3>1, HeadGoes
    <3>. HIDE DEF R
    <3>. QED
      BY <1>1, <2>1, <3>2 DEF Here
  <2>. HIDE DEF R, m
  <2>. QED
    BY <1>1, <2>1, <2>2, <2>3, <2>5, AppendOne, PlacedBecomes DEF Rest, Here, Still
<1>4. CASE Save
  <2> DEFINE R == Heading(S, "saving", "branch")
  <2>1. /\ run.saving # None /\ run' = [run EXCEPT !.saving = None] /\ branch' = Append(branch, run.saving)
        /\ UNCHANGED <<steerQ, followQ, nextTurn, bash, call, nextId, sent>>
    BY <1>4 DEF Save
  <2>2. run'.out = run.out /\ run'.saving = None
    BY <1>2, <2>1 DEF RunShape
  <2>3. /\ S["saving"] = <<run.saving>> /\ S["saving"] # <<>>
        /\ Head(S["saving"]) = run.saving /\ Tail(S["saving"]) = <<>>
    BY <1>1, <2>1, AppendOne DEF Here
  <2>4. "saving" \in PlaceNames \ {"branch"} /\ "branch" \in PlaceNames \ {"saving"}
    BY DEF PlaceNames
  <2>5. /\ WellPlaced(R, nextId, sent) /\ R["saving"] = <<>> /\ R["branch"] = Append(branch, run.saving)
        /\ Rest(R, S, {"saving", "branch"})
    <3>1. WellPlaced(S, nextId, sent) /\ S["saving"] # <<>> /\ ("saving" = "saving" => "branch" = "branch")
      BY <1>1, <2>3 DEF Here
    <3>2. /\ WellPlaced(R, nextId, sent) /\ R["saving"] = Tail(S["saving"])
          /\ R["branch"] = Append(S["branch"], Head(S["saving"])) /\ Rest(R, S, {"saving", "branch"})
      BY <2>4, <3>1, HeadGoes
    <3>. HIDE DEF R
    <3>. QED
      BY <1>1, <2>3, <3>2 DEF Here
  <2>. HIDE DEF R
  <2>. QED
    BY <1>1, <2>1, <2>2, <2>5, PlacedBecomes DEF Rest, Here, Still
<1>5. ASSUME NEW m, NEW at, Produce(m, at), m.id = nextId, m # None, m.role # "user",
             run.saving = None
      PROVE  Still(p)
  <2> DEFINE R == Adding(S, "saving", m)
  <2>1. /\ run' = [run EXCEPT !.at = at, !.saving = m] /\ nextId' = nextId + 1
        /\ UNCHANGED <<steerQ, followQ, branch, nextTurn, bash, call, sent>>
    BY <1>1, <1>5 DEF Produce, NewId, Here
  <2>2. run'.out = run.out /\ run'.saving = m
    BY <1>2, <2>1 DEF RunShape
  <2>4. /\ WellPlaced(R, nextId', sent) /\ R["saving"] = Append(<<>>, m)
        /\ Rest(R, S, {"saving"})
    <3>1. /\ WellPlaced(S, nextId, sent) /\ nextId \in Nat \ {0} /\ S["saving"] = <<>>
          /\ m.id = nextId /\ m.role # "user" /\ ("saving" # "branch" => m # None)
          /\ "saving" \in {"saving", "branch"} /\ nextId' = nextId + 1
      BY <1>1, <1>5, <2>1 DEF Here
    <3>2. /\ WellPlaced(R, nextId', sent) /\ R["saving"] = Append(S["saving"], m)
          /\ Rest(R, S, {"saving"})
      BY <3>1, EntryComes, Added DEF PlaceNames
    <3>. QED
      BY <3>1, <3>2
  <2>. HIDE DEF R
  <2>. QED
    BY <1>1, <1>5, <2>1, <2>2, <2>4, AppendOne, PlacedBecomes DEF Rest, Here, Still
<1>6. CASE Respond
  <2>1. PICK kind \in {"stop"} \union (IF run.aborted THEN {"aborted"} ELSE {})
                      \union (IF replies < scenario.replies THEN scenario.kinds ELSE {}) :
           Produce(AssistantMsg(nextId, kind), AfterReply(kind))
    BY <1>6 DEF Respond
  <2>2. scenario.kinds \subseteq AllReplies
    BY SessionAssumption DEF PlacedInv
  <2>3. kind \in AllReplies
    BY <2>2 DEF AllReplies
  <2>4. run.saving = None /\ nextId \in Nat
    BY <1>1, <1>6 DEF Respond, Ready, Here
  <2>. QED
    BY <1>5, <2>1, <2>3, <2>4, NewMessages
<1>7. CASE ToolDone
  BY <1>1, <1>5, <1>7, NewMessages DEF ToolDone, Ready, Here
<1>8. CASE Poll
  <2>1. /\ run.out = <<>> /\ UNCHANGED <<branch, nextTurn, bash, call, nextId, sent>>
        /\ \/ steerQ # <<>> /\ \E at \in RunPlaces : FromSteering(at)
           \/ followQ # <<>> /\ \E at \in RunPlaces : FromFollowUps(at)
           \/ \E at \in RunPlaces : run' = [run EXCEPT !.at = at] /\ UNCHANGED <<steerQ, followQ>>
    BY <1>8 DEF Poll, Ready, RunPlaces
  <2>2. ASSUME NEW at, FromSteering(at), steerQ # <<>>
        PROVE  Still(p)
    <3> DEFINE R == Heading(S, "steer", "out")
    <3>1. /\ run' = [run EXCEPT !.at = at, !.out = <<Head(steerQ)>>, !.via = "steer"]
          /\ steerQ' = Tail(steerQ) /\ UNCHANGED followQ
      BY <2>2 DEF FromSteering
    <3>2. run'.out = <<Head(steerQ)>> /\ run'.saving = run.saving
      BY <1>2, <3>1 DEF RunShape
    <3>3. "steer" \in PlaceNames \ {"branch"} /\ "out" \in PlaceNames \ {"steer"}
      BY DEF PlaceNames
    <3>4. /\ WellPlaced(R, nextId, sent) /\ R["steer"] = Tail(steerQ) /\ R["out"] = Append(<<>>, Head(steerQ))
          /\ Rest(R, S, {"steer", "out"})
      <4>1. WellPlaced(S, nextId, sent) /\ S["steer"] # <<>> /\ ("steer" = "saving" => "out" = "branch")
        BY <1>1, <2>2 DEF Here
      <4>2. /\ WellPlaced(R, nextId, sent) /\ R["steer"] = Tail(S["steer"])
            /\ R["out"] = Append(S["out"], Head(S["steer"])) /\ Rest(R, S, {"steer", "out"})
        BY <3>3, <4>1, HeadGoes
      <4>. HIDE DEF R
      <4>. QED
        BY <1>1, <2>1, <4>2 DEF Here
    <3>. HIDE DEF R
    <3>. QED
      BY <1>1, <2>1, <3>1, <3>2, <3>4, AppendOne, PlacedBecomes DEF Rest, Here, Still
  <2>3. ASSUME NEW at, FromFollowUps(at), followQ # <<>>
        PROVE  Still(p)
    <3> DEFINE R == Heading(S, "follow", "out")
    <3>1. /\ run' = [run EXCEPT !.at = at, !.out = <<Head(followQ)>>, !.via = "followUp"]
          /\ followQ' = Tail(followQ) /\ UNCHANGED steerQ
      BY <2>3 DEF FromFollowUps
    <3>2. run'.out = <<Head(followQ)>> /\ run'.saving = run.saving
      BY <1>2, <3>1 DEF RunShape
    <3>3. "follow" \in PlaceNames \ {"branch"} /\ "out" \in PlaceNames \ {"follow"}
      BY DEF PlaceNames
    <3>4. /\ WellPlaced(R, nextId, sent) /\ R["follow"] = Tail(followQ) /\ R["out"] = Append(<<>>, Head(followQ))
          /\ Rest(R, S, {"follow", "out"})
      <4>1. WellPlaced(S, nextId, sent) /\ S["follow"] # <<>> /\ ("follow" = "saving" => "out" = "branch")
        BY <1>1, <2>3 DEF Here
      <4>2. /\ WellPlaced(R, nextId, sent) /\ R["follow"] = Tail(S["follow"])
            /\ R["out"] = Append(S["out"], Head(S["follow"])) /\ Rest(R, S, {"follow", "out"})
        BY <3>3, <4>1, HeadGoes
      <4>. HIDE DEF R
      <4>. QED
        BY <1>1, <2>1, <4>2 DEF Here
    <3>. HIDE DEF R
    <3>. QED
      BY <1>1, <2>1, <3>1, <3>2, <3>4, AppendOne, PlacedBecomes DEF Rest, Here, Still
  <2>4. ASSUME NEW at, run' = [run EXCEPT !.at = at], UNCHANGED <<steerQ, followQ>>
        PROVE  Still(p)
    BY <1>2, <2>1, <2>4, NothingMoves DEF RunShape
  <2>. QED
    BY <2>1, <2>2, <2>3, <2>4
<1>9. CASE RunEnds
  BY <1>2, <1>9, NothingMoves DEF RunEnds, Ready, CallShape, NoRun
<1>. QED
  BY <1>3, <1>4, <1>6, <1>7, <1>8, <1>9 DEF AgentStep

\* The shell results go behind the entries.
LEMMA BashSaved ==
    ASSUME NEW p, NEW S, NEW n, NEW X, WellPlaced(S, n, X),
           S["steer"] = steerQ', S["follow"] = followQ', S["next"] = nextTurn',
           S["out"] = run'.out, S["batch"] = call'[p].batch,
           S["saving"] = IF run'.saving = None THEN <<>> ELSE <<run'.saving>>,
           S["branch"] = branch, S["bash"] = bash, branch' = branch \o bash, bash' = <<>>
    PROVE  WellPlaced(Contents(p)', n, X)
<1> DEFINE R == Joining(S, "bash", "branch")
<1>1. "bash" \in PlaceNames \ {"saving", "branch"} /\ "branch" \in PlaceNames \ {"bash"}
  BY DEF PlaceNames
<1>2. /\ WellPlaced(R, n, X) /\ R["bash"] = <<>> /\ R["branch"] = S["branch"] \o S["bash"]
      /\ Rest(R, S, {"bash", "branch"})
  BY <1>1, AllGo
<1>. HIDE DEF R
<1>. QED
  BY <1>2, PlacedBecomes DEF Rest

\* What the call becomes.
LEMMA CallBecomes ==
    ASSUME NEW p, ControlInv(p), NEW c, call' = [call EXCEPT ![p] = c]
    PROVE  call'[p] = c
BY DEF ControlInv

LEMMA CallEnds ==
    ASSUME NEW p, ControlInv(p), call' = [call EXCEPT ![p] = NoCall]
    PROVE  call'[p].batch = <<>>
<1>1. NoCall.batch = <<>>
  BY DEF NoCall
<1>2. call'[p] = NoCall
  BY CallBecomes
<1>. QED
  BY <1>1, <1>2

LEMMA CallPlaced ==
    ASSUME NEW p, Callers = {p}, ControlInv(p), PlacedInv(p), CallStep(p)
    PROVE  Still(p)
<1> DEFINE S == Contents(p)
<1>1. Here(p, S)
  BY PlacesAre
<1>2. call[p] \in CallShape(call[p]) /\ call = [q \in {p} |-> call[p]]
      /\ (run.at # "none" => call[p].at = "running")
      /\ (run.at = "none" => run.out = <<>> /\ run.saving = None)
      /\ (call[p].at \in {"idle", "settling"} \/ call[p].phase = "main" => call[p].batch = <<>>)
  BY DEF ControlInv, Controlled
<1>. HIDE DEF S
<1>3. CASE Decides(p)
  BY <1>1, <1>3, DecidesEffect, MovesPlaced DEF S, Here, Still
<1>4. CASE Compacted(p)
  <2> DEFINE m == Compaction(nextId, call[p].cut)
             R == Adding(S, "branch", m)
  <2>1. /\ \E c : Moves(p, c, Append(branch, m))
        /\ nextId' = nextId + 1 /\ UNCHANGED <<steerQ, followQ, run, sent>>
    BY <1>4, CompactedEffect
  <2>2. m.id = nextId /\ m.role # "user"
    BY DEF Compaction
  <2>. HIDE DEF m
  <2>3. "branch" \in {"saving", "branch"} /\ ("branch" # "branch" => m # None)
        /\ WellPlaced(S, nextId, sent) /\ nextId \in Nat \ {0}
    BY <1>1 DEF Here
  <2>4. /\ WellPlaced(R, nextId', sent) /\ R["branch"] = Append(S["branch"], m) /\ Rest(R, S, {"branch"})
    BY <2>1, <2>2, <2>3, EntryComes, Added DEF PlaceNames
  <2>. HIDE DEF R
  <2>5. R["branch"] = Append(branch, m) /\ \A a \in PlaceNames \ {"branch"} : R[a] = Contents(p)[a]
    BY <1>1, <2>4 DEF S, Rest, Here, PlaceNames
  <2>. QED
    BY <2>1, <2>4, <2>5, MovesPlaced DEF Still
<1>5. CASE Continue(p)
  <2>1. /\ run.out = <<>> /\ run.saving = None
        /\ call' = [call EXCEPT ![p].at = "running"]
        /\ UNCHANGED <<branch, nextTurn, bash, nextId, sent>>
        /\ \/ run'.out = <<>> /\ UNCHANGED <<steerQ, followQ>>
           \/ steerQ # <<>> /\ run'.out = <<Head(steerQ)>> /\ steerQ' = Tail(steerQ) /\ UNCHANGED followQ
           \/ followQ # <<>> /\ run'.out = <<Head(followQ)>> /\ followQ' = Tail(followQ) /\ UNCHANGED steerQ
        /\ run'.saving = None
    BY <1>2, <1>5 DEF Continue, Start, Go, NoRun, NothingToSend, HasQueued, LastIs
  <2>2. call'[p].batch = call[p].batch
    BY <1>2, <2>1 DEF CallShape
  <2>3. CASE run'.out = <<>> /\ UNCHANGED <<steerQ, followQ>>
    BY <2>1, <2>2, <2>3, NothingMoves
  <2>4. CASE steerQ # <<>> /\ run'.out = <<Head(steerQ)>> /\ steerQ' = Tail(steerQ) /\ UNCHANGED followQ
    <3> DEFINE R == Heading(S, "steer", "out")
    <3>1. "steer" \in PlaceNames \ {"branch"} /\ "out" \in PlaceNames \ {"steer"}
          /\ ("steer" = "saving" => "out" = "branch")
      BY DEF PlaceNames
    <3>2. WellPlaced(S, nextId, sent) /\ S["steer"] # <<>>
      BY <1>1, <2>4 DEF Here
    <3>3. /\ WellPlaced(R, nextId, sent) /\ R["steer"] = Tail(S["steer"])
          /\ R["out"] = Append(S["out"], Head(S["steer"])) /\ Rest(R, S, {"steer", "out"})
      BY <3>1, <3>2, HeadGoes
    <3>. HIDE DEF R
    <3>. QED
      BY <1>1, <2>1, <2>2, <2>4, <3>3, AppendOne, PlacedBecomes DEF Rest, Here, Still
  <2>5. CASE followQ # <<>> /\ run'.out = <<Head(followQ)>> /\ followQ' = Tail(followQ) /\ UNCHANGED steerQ
    <3> DEFINE R == Heading(S, "follow", "out")
    <3>1. "follow" \in PlaceNames \ {"branch"} /\ "out" \in PlaceNames \ {"follow"}
          /\ ("follow" = "saving" => "out" = "branch")
      BY DEF PlaceNames
    <3>2. WellPlaced(S, nextId, sent) /\ S["follow"] # <<>>
      BY <1>1, <2>5 DEF Here
    <3>3. /\ WellPlaced(R, nextId, sent) /\ R["follow"] = Tail(S["follow"])
          /\ R["out"] = Append(S["out"], Head(S["follow"])) /\ Rest(R, S, {"follow", "out"})
      BY <3>1, <3>2, HeadGoes
    <3>. HIDE DEF R
    <3>. QED
      BY <1>1, <2>1, <2>2, <2>5, <3>3, AppendOne, PlacedBecomes DEF Rest, Here, Still
  <2>. QED
    BY <2>1, <2>3, <2>4, <2>5
<1>6. CASE ContinueThrows(p)
  <2>1. /\ branch' = branch \o bash /\ bash' = <<>>
        /\ UNCHANGED <<steerQ, followQ, run, nextTurn, nextId>>
    BY <1>6 DEF ContinueThrows, Flush
  <2>2. CASE call[p].phase = "main"
    <3> DEFINE c == [NoCall EXCEPT !.at = "settling"]
    <3>1. call' = [call EXCEPT ![p] = c] /\ UNCHANGED sent
      BY <1>6, <2>2 DEF ContinueThrows
    <3>2. c.batch = <<>> /\ call[p].batch = <<>>
      BY <1>2, <2>2 DEF NoCall
    <3>. HIDE DEF c
    <3>3. call'[p].batch = call[p].batch
      BY <3>1, <3>2, CallBecomes
    <3>. QED
      BY <1>1, <2>1, <3>1, <3>3, BashSaved DEF Here, Still
  <2>3. CASE call[p].phase # "main"
    <3> DEFINE R == Emptying(S, "batch")
    <3>1. call' = [call EXCEPT ![p] = NoCall] /\ sent' = sent \ IdsIn(call[p].batch)
      BY <1>6, <2>3 DEF ContinueThrows
    <3>2. call'[p].batch = <<>>
      BY <3>1, CallEnds
    <3>3. "batch" \in PlaceNames /\ WellPlaced(S, nextId, sent)
      BY <1>1 DEF PlaceNames, Here
    <3>4. WellPlaced(R, nextId, sent \ IdsIn(S["batch"])) /\ R["batch"] = <<>> /\ Rest(R, S, {"batch"})
      BY <3>3, MessagesGo
    <3>. HIDE DEF R
    <3>. QED
      BY <1>1, <2>1, <3>1, <3>2, <3>4, BashSaved DEF Rest, Here, Still
  <2>. QED
    BY <2>2, <2>3
<1>7. CASE Settled(p)
  BY <1>2, <1>7, CallEnds, NothingMoves DEF Settled, agentVars
<1>8. CASE Refused(p)
  <2> DEFINE R == Emptying(S, "batch")
  <2>1. call' = [call EXCEPT ![p] = NoCall] /\ sent' = sent \ IdsIn(call[p].batch)
        /\ UNCHANGED <<steerQ, followQ, run, nextTurn, bash, branch, nextId>>
    BY <1>8 DEF Refused, agentVars
  <2>2. call'[p].batch = <<>>
    BY <2>1, CallEnds
  <2>3. "batch" \in PlaceNames /\ WellPlaced(S, nextId, sent)
    BY <1>1 DEF PlaceNames, Here
  <2>4. WellPlaced(R, nextId, sent \ IdsIn(S["batch"])) /\ R["batch"] = <<>> /\ Rest(R, S, {"batch"})
    BY <2>3, MessagesGo
  <2>. HIDE DEF R
  <2>. QED
    BY <1>1, <2>1, <2>2, <2>4, PlacedBecomes DEF Rest, Here, Still
<1>9. CASE BeforeDone(p)
  <2> DEFINE c == [NoCall EXCEPT !.at = "running", !.phase = "main"]
             R == Joining(S, "batch", "out")
  <2>1. call[p].at = "before" /\ run.at = "none" /\ run.out = <<>> /\ run.saving = None
    BY <1>2, <1>9 DEF BeforeDone
  <2>2. /\ call' = [call EXCEPT ![p] = c] /\ run'.out = call[p].batch /\ run'.saving = None
        /\ UNCHANGED <<steerQ, followQ, nextTurn, bash, branch, nextId, sent>>
    BY <1>9, <2>1 DEF BeforeDone, RunPrompt, Start, NoRun
  <2>3. c.batch = <<>>
    BY DEF NoCall
  <2>. HIDE DEF c
  <2>4. call'[p].batch = <<>>
    BY <2>2, <2>3, CallBecomes
  <2>5. "batch" \in PlaceNames \ {"saving", "branch"} /\ "out" \in PlaceNames \ {"batch"}
        /\ WellPlaced(S, nextId, sent)
    BY <1>1 DEF PlaceNames, Here
  <2>6. /\ WellPlaced(R, nextId, sent) /\ R["batch"] = <<>> /\ R["out"] = S["out"] \o S["batch"]
        /\ Rest(R, S, {"batch", "out"})
    BY <2>5, AllGo
  <2>7. S["out"] \o S["batch"] = call[p].batch
    BY <1>1, <2>1, EmptyJoin DEF Here, WellPlaced, Lists, PlaceNames
  <2>. HIDE DEF R
  <2>. QED
    BY <1>1, <2>1, <2>2, <2>4, <2>6, <2>7, PlacedBecomes DEF Rest, Here, Still
<1>. QED
  BY <1>3, <1>4, <1>5, <1>6, <1>7, <1>8, <1>9 DEF CallStep, Decides

\* A new message comes to one place.
LEMMA Arrived ==
    ASSUME NEW p, PlacedInv(p), NEW a \in PlaceNames \ {"saving"}, NEW m, m.id = nextId, m # None,
           nextId' = nextId + 1, sent' = sent \union {nextId},
           Rest(Contents(p)', Contents(p), {a}), Contents(p)'[a] = Append(Contents(p)[a], m)
    PROVE  Still(p)
<1> DEFINE S == Contents(p)
           R == Adding(S, a, m)
<1>1. WellPlaced(S, nextId, sent) /\ nextId \in Nat \ {0} /\ a \in PlaceNames
      /\ (a # "branch" => m # None)
  BY DEF PlacedInv
<1>2. WellPlaced(R, nextId', sent') /\ R[a] = Append(S[a], m) /\ Rest(R, S, {a})
  BY <1>1, MessageComes, Added
<1>3. Rest(Contents(p)', S, {a}) /\ Contents(p)'[a] = Append(S[a], m)
  OBVIOUS
<1>4. R = [c \in PlaceNames |-> R[c]]
  BY <1>2 DEF WellPlaced, Lists
<1>5. Contents(p)' = [c \in PlaceNames |-> Contents(p)'[c]]
  BY DEF Contents, PlaceNames
<1>. HIDE DEF R, S
<1>6. ASSUME NEW c \in PlaceNames
      PROVE  Contents(p)'[c] = R[c]
  <2>1. CASE c = a
    BY <1>2, <1>3, <2>1
  <2>2. CASE c # a
    BY <1>2, <1>3, <2>2 DEF Rest, PlaceNames
  <2>. QED
    BY <2>1, <2>2
<1>7. Contents(p)' = R
  BY <1>4, <1>5, <1>6
<1>. QED
  BY <1>2, <1>7 DEF Still

\* The same, with the places one by one.
LEMMA ArrivedAt ==
    ASSUME NEW p, PlacedInv(p), NEW a \in {"steer", "follow", "next", "bash", "branch"}, NEW m,
           m.id = nextId, m # None, nextId' = nextId + 1, sent' = sent \union {nextId},
           steerQ' = IF a = "steer" THEN Append(steerQ, m) ELSE steerQ,
           followQ' = IF a = "follow" THEN Append(followQ, m) ELSE followQ,
           nextTurn' = IF a = "next" THEN Append(nextTurn, m) ELSE nextTurn,
           bash' = IF a = "bash" THEN Append(bash, m) ELSE bash,
           branch' = IF a = "branch" THEN Append(branch, m) ELSE branch,
           UNCHANGED <<run, call>>
    PROVE  Still(p)
<1>1. Rest(Contents(p)', Contents(p), {a})
  BY DEF Contents, Rest
<1>2. Contents(p)'[a] = Append(Contents(p)[a], m)
  BY DEF Contents
<1>3. a \in PlaceNames \ {"saving"}
  BY DEF PlaceNames
<1>. QED
  BY <1>1, <1>2, <1>3, Arrived

LEMMA ApplicationPlaced ==
    ASSUME NEW p, Callers = {p}, ControlInv(p), PlacedInv(p), Application
    PROVE  Still(p)
<1> DEFINE S == Contents(p)
<1>1. Here(p, S) /\ nextId \in Nat
  BY PlacesAre DEF Here
<1>2. call[p] \in CallShape(call[p]) /\ call = [q \in {p} |-> call[p]] /\ run \in RunShape(run)
      /\ (run.at # "none" => call[p].at = "running")
      /\ (run.at = "none" => run.out = <<>> /\ run.saving = None)
      /\ (call[p].at \in {"idle", "settling"} \/ call[p].phase = "main" => call[p].batch = <<>>)
  BY DEF ControlInv, Controlled
<1>3. UserMsg(nextId).id = nextId /\ UserMsg(nextId) # None
      /\ \A role \in {"custom", "bashExecution"} :
            OtherMsg(nextId, role).id = nextId /\ OtherMsg(nextId, role) # None
  BY <1>1, NewMessages
<1>. HIDE DEF S
<1>4. ASSUME NEW kind, NEW m, Send(kind, m), m.id = nextId
      PROVE  nextId' = nextId + 1 /\ sent' = sent \union {nextId}
  BY <1>4 DEF Send, NewId
<1>5. CASE Prompt(p)
  <2> DEFINE m == UserMsg(nextId)
             c == [NoCall EXCEPT !.at = "auth", !.batch = <<m>>]
             R == Adding(S, "batch", m)
  <2>1. /\ call[p].at = "idle" /\ call' = [call EXCEPT ![p] = c]
        /\ branch' = branch \o bash /\ bash' = <<>>
        /\ UNCHANGED <<steerQ, followQ, run, nextTurn>>
        /\ nextId' = nextId + 1 /\ sent' = sent \union {nextId}
    BY <1>3, <1>4, <1>5 DEF Prompt, Flush
  <2>2. c.batch = <<m>>
    BY DEF NoCall
  <2>. HIDE DEF m, c
  <2>3. call'[p].batch = <<m>> /\ call[p].batch = <<>>
    BY <1>2, <2>1, <2>2, CallBecomes
  <2>4. /\ WellPlaced(S, nextId, sent) /\ nextId \in Nat \ {0} /\ "batch" \in PlaceNames
        /\ m.id = nextId /\ ("batch" # "branch" => m # None)
    BY <1>1, <1>3 DEF Here, PlaceNames, m
  <2>5. WellPlaced(R, nextId', sent') /\ R["batch"] = Append(S["batch"], m) /\ Rest(R, S, {"batch"})
    BY <2>1, <2>4, MessageComes, Added
  <2>. HIDE DEF R
  <2>6. R["batch"] = call'[p].batch
    BY <1>1, <2>3, <2>5, AppendOne DEF Here
  <2>7. /\ R["steer"] = steerQ' /\ R["follow"] = followQ' /\ R["next"] = nextTurn'
        /\ R["out"] = run'.out /\ R["saving"] = IF run'.saving = None THEN <<>> ELSE <<run'.saving>>
        /\ R["branch"] = branch /\ R["bash"] = bash
    BY <1>1, <2>1, <2>5 DEF Rest, Here
  <2>. QED
    BY <2>1, <2>5, <2>6, <2>7, BashSaved DEF Still
<1>6. CASE SendTurn(p)
  <2> DEFINE m == OtherMsg(nextId, "custom")
             c == [NoCall EXCEPT !.at = "running", !.phase = "main"]
             R == Adding(S, "out", m)
  <2>1. call[p].at = "idle" /\ run.at = "none"
    BY <1>2, <1>6 DEF SendTurn
  <2>2. /\ call' = [call EXCEPT ![p] = c] /\ run'.out = <<m>> /\ run'.saving = None
        /\ UNCHANGED <<steerQ, followQ, nextTurn, bash, branch>>
        /\ nextId' = nextId + 1 /\ sent' = sent \union {nextId}
    BY <1>6, <2>1 DEF SendTurn, RunPrompt, Start, NoRun, NewId
  <2>3. c.batch = <<>>
    BY DEF NoCall
  <2>. HIDE DEF m, c
  <2>4. call'[p].batch = <<>> /\ call[p].batch = <<>>
    BY <1>2, <2>1, <2>2, <2>3, CallBecomes
  <2>5. /\ WellPlaced(S, nextId, sent) /\ nextId \in Nat \ {0} /\ "out" \in PlaceNames
        /\ m.id = nextId /\ ("out" # "branch" => m # None)
    BY <1>1, <1>3 DEF Here, PlaceNames, m
  <2>6. WellPlaced(R, nextId', sent') /\ R["out"] = Append(S["out"], m) /\ Rest(R, S, {"out"})
    BY <2>2, <2>5, MessageComes, Added
  <2>7. S["out"] = <<>> /\ S["saving"] = <<>>
    BY <1>1, <1>2, <2>1 DEF Here
  <2>. HIDE DEF R
  <2>. QED
    BY <1>1, <2>2, <2>4, <2>6, <2>7, AppendOne, PlacedBecomes DEF Rest, Here, Still
<1>7. CASE Steer
  BY <1>3, <1>4, <1>7, ArrivedAt DEF Steer
<1>8. CASE FollowUp
  BY <1>3, <1>4, <1>8, ArrivedAt DEF FollowUp
<1>9. CASE SendNextTurn
  BY <1>3, <1>4, <1>9, ArrivedAt DEF SendNextTurn, agentVars
<1>10. CASE SendCustom
  <2> DEFINE m == OtherMsg(nextId, "custom")
  <2>1. /\ \/ steerQ' = Append(steerQ, m) /\ UNCHANGED <<followQ, branch>>
           \/ followQ' = Append(followQ, m) /\ UNCHANGED <<steerQ, branch>>
           \/ branch' = Append(branch, m) /\ UNCHANGED <<steerQ, followQ>>
        /\ UNCHANGED <<run, nextTurn, bash, call>> /\ m.id = nextId /\ m # None
        /\ nextId' = nextId + 1 /\ sent' = sent \union {nextId}
    BY <1>3, <1>4, <1>10 DEF SendCustom
  <2>. HIDE DEF m
  <2>. QED
    BY <2>1, ArrivedAt
<1>11. CASE RecordBash
  <2> DEFINE m == OtherMsg(nextId, "bashExecution")
  <2>1. /\ \/ bash' = Append(bash, m) /\ UNCHANGED branch
           \/ branch' = Append(branch, m) /\ UNCHANGED bash
        /\ UNCHANGED <<run, nextTurn, steerQ, followQ, call>> /\ m.id = nextId /\ m # None
        /\ nextId' = nextId + 1 /\ sent' = sent \union {nextId}
    BY <1>3, <1>4, <1>11 DEF RecordBash
  <2>. HIDE DEF m
  <2>. QED
    BY <2>1, ArrivedAt
<1>12. CASE ClearQueue \/ Compact
  BY <1>12 DEF ClearQueue, Compact, PlacedInv, Steady
<1>13. CASE Abort
  BY <1>2, <1>13, NothingMoves DEF Abort, AbortAll, RunShape, CallShape
<1>. QED
  BY <1>5, <1>6, <1>7, <1>8, <1>9, <1>10, <1>11, <1>12, <1>13 DEF Application

LEMMA PlacedStep ==
    ASSUME NEW p, Callers = {p}, ControlInv(p), PlacedInv(p), [Next]_vars
    PROVE  PlacedInv(p)'
<1>1. CASE UNCHANGED vars
  <2>1. Still(p)
    BY <1>1, NothingMoves DEF vars, agentVars
  <2>. QED
    BY <1>1, <2>1 DEF vars, counters, PlacedInv, Steady, Still
<1>2. CASE Next
  <2>1. ~CompStep
    BY DEF PlacedInv, NoComp, CompStep, CompactPrepare, CompactDone
  <2>2. Still(p)
    BY <1>2, <2>1, RunPlaced, CallPlaced, ApplicationPlaced DEF Next
  <2>3. UNCHANGED scenario
    BY <1>2 DEF Next
  <2>4. compacts' = 0 /\ connected' = TRUE /\ comp' = NoComp
    <3>1. ASSUME UNCHANGED <<compacts, connected, comp>>
          PROVE  compacts' = 0 /\ connected' = TRUE /\ comp' = NoComp
      BY <3>1 DEF PlacedInv
    <3>2. CASE AgentStep
      BY <3>1, <3>2 DEF AgentStep, Deliver, Save, Respond, ToolDone, Poll, RunEnds, Produce, counters
    <3>3. CASE CallStep(p)
      <4>1. CASE Decides(p) \/ Compacted(p)
        BY <3>1, <4>1, DecidesEffect, CompactedEffect
      <4>2. CASE Settled(p)
        BY <4>2 DEF Settled, counters, PlacedInv, NoComp
      <4>3. CASE Continue(p) \/ ContinueThrows(p) \/ Refused(p) \/ BeforeDone(p)
        BY <3>1, <4>3 DEF Continue, ContinueThrows, Refused, BeforeDone, counters
      <4>. QED
        BY <3>3, <4>1, <4>2, <4>3 DEF CallStep, Decides
    <3>4. CASE Application
      <4>1. ~Compact /\ ~ClearQueue
        <5>1. Compact => compacts < scenario.compacts
          BY DEF Compact
        <5>2. ClearQueue => "clear" \in scenario.ways
          BY DEF ClearQueue
        <5>. QED
          BY <5>1, <5>2 DEF PlacedInv, Steady
      <4>. QED
        BY <1>1, <3>1, <3>4, <4>1 DEF Application, Prompt, SendTurn, Steer, FollowUp, SendNextTurn,
           SendCustom, RecordBash, Abort
    <3>. QED
      BY <1>2, <2>1, <3>2, <3>3, <3>4 DEF Next
  <2>5. nextId' = nextId \/ nextId' = nextId + 1
    <3>1. CASE AgentStep
      BY <3>1 DEF AgentStep, Deliver, Save, Respond, ToolDone, Poll, RunEnds, Produce, NewId
    <3>2. CASE CallStep(p)
      BY <3>2, DecidesEffect, CompactedEffect DEF Settled, Continue, ContinueThrows, Refused, BeforeDone,
         CallStep, Decides
    <3>3. CASE Application
      BY <3>3 DEF Application, Prompt, SendTurn, Steer, FollowUp, SendNextTurn, SendCustom,
                  RecordBash, ClearQueue, Abort, Compact, Send, NewId
    <3>. QED
      BY <1>2, <2>1, <3>1, <3>2, <3>3 DEF Next
  <2>6. nextId' \in Nat \ {0}
    BY <2>5 DEF PlacedInv
  <2>. QED
    BY <2>2, <2>3, <2>4, <2>6 DEF PlacedInv, Steady, Still
<1>. QED
  BY <1>1, <1>2

LEMMA PlacedInit ==
    ASSUME NEW p, Callers = {p}, Init, Steady
    PROVE  PlacedInv(p)
<1> DEFINE S == Contents(p)
<1>1. /\ steerQ = <<>> /\ followQ = <<>> /\ run = NoRun /\ nextTurn = <<>> /\ bash = <<>>
      /\ branch = <<>> /\ call[p] = NoCall /\ nextId = 1 /\ sent = {}
      /\ scenario \in Scenarios /\ compacts = 0 /\ comp = NoComp /\ connected = TRUE
  BY DEF Init
<1>2. \A a \in PlaceNames : S[a] = <<>>
  BY <1>1 DEF Contents, NoRun, NoCall, PlaceNames
<1>3. S = [a \in PlaceNames |-> S[a]]
  BY DEF Contents, PlaceNames
<1>. HIDE DEF S
<1>4. WellPlaced(S, 1, {})
  BY <1>2, <1>3, EmptyList DEF WellPlaced, Lists, Once, Older, Messages, Present, Expected
<1>. QED
  BY <1>1, <1>4 DEF PlacedInv, S

\* Every message that the application sent, and that was not given back to it, is
\* in one place, once, and none that was given back is in the session: neither a
\* failed check of the credentials, nor a prompt or continue() that the agent
\* refuses, nor retries, recoveries and automatic compactions, lose or double a
\* message.  It is not so with a second caller, or with clearQueue().
THEOREM NothingLostHolds == ASSUME OneCaller PROVE Spec /\ Steady => []NothingLost
<1>1. PICK p : Callers = {p}
  BY DEF OneCaller
<1>2. Init /\ Steady => ControlInv(p) /\ PlacedInv(p)
  BY <1>1, ControlInit, PlacedInit
<1>3. ControlInv(p) /\ PlacedInv(p) /\ [Next]_vars => (ControlInv(p) /\ PlacedInv(p))'
  BY <1>1, ControlStep, PlacedStep
<1>4. PlacedInv(p) => NothingLost
  BY <1>1, PlacedIsNotLost DEF PlacedInv
<1>. QED
  BY <1>2, <1>3, <1>4, PTL DEF Spec

(***************************************************************************)
(* Lists that leave something out                                          *)
(***************************************************************************)
LEMMA Least ==
    ASSUME NEW S \in SUBSET Nat, S # {}
    PROVE  \E n \in S : \A m \in S : n <= m
<1>1. PICK n \in S : \A m \in S : ~(<<m, n>> \in OpToRel(<, Nat))
  BY WFMin, NatLessThanWellFounded
<1>2. ASSUME NEW m \in S
      PROVE  n <= m
  <2>1. <<m, n>> \in Nat \X Nat
    OBVIOUS
  <2>2. ~(m < n)
    BY <1>1, <2>1 DEF OpToRel
  <2>. QED
    BY <2>2
<1>. QED
  BY <1>2

\* f gives what is left of the first items of s, up to n of them.
KeptUpTo(s, out, n, f) ==
    f = [i \in 0..n |-> IF i = 0 THEN <<>>
                        ELSE IF i \in out THEN f[i - 1]
                        ELSE Append(f[i - 1], s[i])]

\* What is left exists, and is a list of the items.
LEMMA KeptExists ==
    ASSUME NEW T, NEW s \in Seq(T), NEW out, NEW n \in 0..Len(s)
    PROVE  \E f : KeptUpTo(s, out, n, f) /\ f \in [0..n -> Seq(T)]
<1> DEFINE Bad == {k \in 0..Len(s) : ~ \E f : KeptUpTo(s, out, k, f) /\ f \in [0..k -> Seq(T)]}
<1> SUFFICES ASSUME Bad # {}
             PROVE  FALSE
  OBVIOUS
<1>1. Bad \in SUBSET Nat /\ Len(s) \in Nat
  OBVIOUS
<1>2. PICK b \in Bad : \A k \in Bad : b <= k
  <2>. HIDE DEF Bad
  <2>. QED
    BY <1>1, Least
<1>3. b \in 0..Len(s) /\ ~ \E f : KeptUpTo(s, out, b, f) /\ f \in [0..b -> Seq(T)]
  BY <1>2
<1>4. CASE b = 0
  <2> DEFINE f == [i \in 0..0 |-> <<>>]
  <2>1. f \in [0..0 -> Seq(T)] /\ f[0] = <<>>
    OBVIOUS
  <2>2. KeptUpTo(s, out, 0, f)
    BY DEF KeptUpTo
  <2>. QED
    BY <1>3, <1>4, <2>1, <2>2
<1>5. CASE b # 0
  <2>1. b - 1 \in 0..Len(s) /\ b \in 1..Len(s) /\ b \in Nat /\ s[b] \in T
    BY <1>1, <1>3, <1>5
  <2>2. b - 1 \notin Bad
    <3>. HIDE DEF Bad
    <3>. QED
      BY <1>2, <2>1
  <2>3. PICK f : KeptUpTo(s, out, b - 1, f) /\ f \in [0..(b - 1) -> Seq(T)]
    BY <2>1, <2>2
  <2> DEFINE x == IF b \in out THEN f[b - 1] ELSE Append(f[b - 1], s[b])
             g == [i \in 0..b |-> IF i = b THEN x ELSE f[i]]
  <2>4. x \in Seq(T)
    BY <2>1, <2>3
  <2>5. g \in [0..b -> Seq(T)] /\ g[b] = x /\ \A i \in 0..(b - 1) : g[i] = f[i]
    <3>. HIDE DEF x
    <3>. QED
      BY <2>1, <2>3, <2>4
  <2>6. \A i \in 0..b : g[i] = IF i = 0 THEN <<>>
                               ELSE IF i \in out THEN g[i - 1]
                               ELSE Append(g[i - 1], s[i])
    <3>. HIDE DEF g
    <3> SUFFICES ASSUME NEW i \in 0..b
                 PROVE  g[i] = IF i = 0 THEN <<>>
                               ELSE IF i \in out THEN g[i - 1]
                               ELSE Append(g[i - 1], s[i])
      OBVIOUS
    <3>1. CASE i = b
      <4>1. b # 0 /\ b - 1 \in 0..(b - 1)
        BY <2>1
      <4>2. g[b] = x /\ g[b - 1] = f[b - 1]
        BY <2>5, <4>1
      <4>. QED
        BY <3>1, <4>1, <4>2
    <3>2. CASE i # b
      <4>1. i \in 0..(b - 1) /\ (i # 0 => i - 1 \in 0..(b - 1))
        BY <2>1, <3>2
      <4>2. f[i] = IF i = 0 THEN <<>>
                   ELSE IF i \in out THEN f[i - 1]
                   ELSE Append(f[i - 1], s[i])
        BY <2>3, <4>1 DEF KeptUpTo
      <4>. QED
        BY <2>5, <4>1, <4>2
    <3>. QED
      BY <3>1, <3>2
  <2>7. KeptUpTo(s, out, b, g)
    <3>1. g = [i \in 0..b |-> g[i]]
      OBVIOUS
    <3>. HIDE DEF g
    <3>2. g = [i \in 0..b |-> IF i = 0 THEN <<>>
                              ELSE IF i \in out THEN g[i - 1]
                              ELSE Append(g[i - 1], s[i])]
      BY <2>6, <3>1
    <3>. QED
      BY <3>2 DEF KeptUpTo
  <2>. HIDE DEF g
  <2>. QED
    BY <1>3, <2>5, <2>7
<1>. QED
  BY <1>4, <1>5

LEMMA KeptIsList ==
    ASSUME NEW U, NEW s \in Seq(U), NEW out, NEW f, KeptUpTo(s, out, Len(s), f),
           NEW T, \A i \in DOMAIN s : i \in out \/ s[i] \in T
    PROVE  f[Len(s)] \in Seq(T)
<1> DEFINE Bad == {k \in 0..Len(s) : f[k] \notin Seq(T)}
<1>0. \A i \in 0..Len(s) : f[i] = IF i = 0 THEN <<>>
                                  ELSE IF i \in out THEN f[i - 1]
                                  ELSE Append(f[i - 1], s[i])
  BY DEF KeptUpTo
<1>1. Bad \in SUBSET Nat /\ Len(s) \in Nat
  OBVIOUS
<1>2. CASE Bad = {}
  BY <1>1, <1>2
<1>3. CASE Bad # {}
  <2>1. PICK b \in Bad : \A k \in Bad : b <= k
    <3>. HIDE DEF Bad
    <3>. QED
      BY <1>1, <1>3, Least
  <2>2. b \in 0..Len(s) /\ f[b] \notin Seq(T)
    BY <2>1
  <2>3. b # 0
    <3>1. b = 0 => f[b] = <<>>
      BY <1>0, <2>2
    <3>2. <<>> \in Seq(T)
      OBVIOUS
    <3>. QED
      BY <2>2, <3>1, <3>2
  <2>4. b - 1 \in 0..Len(s) /\ (b \in out \/ s[b] \in T) /\ b - 1 < b
    BY <1>1, <2>2, <2>3
  <2>5. f[b - 1] \in Seq(T)
    BY <2>1, <2>4
  <2>6. f[b] = IF b \in out THEN f[b - 1] ELSE Append(f[b - 1], s[b])
    BY <1>0, <2>2, <2>3
  <2>7. s[b] \in T => Append(f[b - 1], s[b]) \in Seq(T)
    BY <2>5
  <2>. QED
    BY <2>2, <2>4, <2>5, <2>6, <2>7
<1>. QED
  BY <1>2, <1>3

\* What Without gives, step by step.
LEMMA WithoutSteps ==
    ASSUME NEW T, NEW s \in Seq(T), NEW out
    PROVE  \E f : KeptUpTo(s, out, Len(s), f) /\ Without(s, out) = f[Len(s)] /\ f[Len(s)] \in Seq(T)
<1> DEFINE upTo[n \in 0..Len(s)] ==
             IF n = 0 THEN <<>> ELSE IF n \in out THEN upTo[n - 1] ELSE Append(upTo[n - 1], s[n])
<1>1. Without(s, out) = upTo[Len(s)]
  BY DEF Without
<1>2. Len(s) \in 0..Len(s)
  OBVIOUS
<1>3. PICK f : KeptUpTo(s, out, Len(s), f)
  BY <1>2, KeptExists
<1>4. KeptUpTo(s, out, Len(s), upTo)
  <2>1. f = [n \in 0..Len(s) |-> IF n = 0 THEN <<>>
                        ELSE IF n \in out THEN f[n - 1]
                        ELSE Append(f[n - 1], s[n])]
    BY <1>3 DEF KeptUpTo
  <2>2. upTo = [n \in 0..Len(s) |-> IF n = 0 THEN <<>>
                        ELSE IF n \in out THEN upTo[n - 1]
                        ELSE Append(upTo[n - 1], s[n])]
    BY <2>1
  <2>. HIDE DEF upTo
  <2>. QED
    BY <2>2 DEF KeptUpTo
<1>. HIDE DEF upTo
<1>5. upTo[Len(s)] \in Seq(T)
  BY <1>4, KeptIsList
<1>. QED
  BY <1>1, <1>4, <1>5

LEMMA NotCompactionsIsList ==
    ASSUME NEW T, NEW s \in Seq(T)
    PROVE  NotCompactions(s) \in Seq(T)
BY WithoutSteps DEF NotCompactions

(***************************************************************************)
(* Retries are bounded: what lists the session keeps                       *)
(***************************************************************************)
\* What the application sends is no reply.
Input == {m \in Message : ~IsAssistant(m)}

\* Nobody ends a retry by hand, takes messages of a run from the session, or puts
\* something after a reply before it is saved: abort() and abortRetry(), compact(),
\* and the messages that an idle session takes at once, are left out.
Undisturbed == scenario.compacts = 0 /\ scenario.aborts = 0 /\ {"custom", "bash"} \cap scenario.ways = {}

Setting ==
    /\ Undisturbed /\ scenario \in Scenarios /\ compacts = 0 /\ aborts = 0
    /\ connected = TRUE /\ comp = NoComp /\ bash = <<>>

\* What a compaction keeps begins with an entry of the branch.
KeepsOwn(s) == \A i \in DOMAIN s : s[i].role = "compaction" => s[i].keep \in IdsIn(s)

\* What lists the session keeps; a prompt has a message from its start to its run.
ShapeInv(p) ==
    /\ Setting
    /\ nextId \in Nat /\ messages \in Seq(EntryType) /\ branch \in Seq(EntryType)
    /\ {steerQ, followQ, nextTurn, run.out, call[p].batch} \subseteq Seq(Input)
    /\ run.saving \in Message \union {None}
    /\ call[p].at # "cancelled" /\ (call[p].at \in {"auth", "before"} => call[p].phase = "check")
    /\ call[p].at \in {"idle", "settling"} \/ call[p].phase = "main" \/ call[p].batch # <<>>
    /\ call[p].at = "summarizing" => call[p].cut \in IdsIn(branch)
    /\ KeepsOwn(branch)

LEMMA InputIsMessage == Input \subseteq Message /\ Message \subseteq EntryType
BY DEF Input, EntryType

LEMMA MessageIsSomething == \A m \in Message : m # None
BY NoneAssumption

LEMMA NewInput ==
    ASSUME NEW id \in Nat
    PROVE  UserMsg(id) \in Input /\ OtherMsg(id, "custom") \in Input
<1>1. UserMsg(id) \in [role : {"user"}, id : Nat, is : Nat]
  BY DEF UserMsg
<1>2. OtherMsg(id, "custom") \in [role : {"toolResult", "custom", "bashExecution"}, id : Nat]
  BY DEF OtherMsg
<1>3. UserMsg(id) \in Message /\ OtherMsg(id, "custom") \in Message
  BY <1>1, <1>2 DEF Message
<1>4. ~IsAssistant(UserMsg(id)) /\ ~IsAssistant(OtherMsg(id, "custom"))
  BY DEF UserMsg, OtherMsg, IsAssistant
<1>. QED
  BY <1>3, <1>4 DEF Input

LEMMA NewReply ==
    ASSUME NEW id \in Nat, NEW kind \in AllReplies
    PROVE  /\ AssistantMsg(id, kind) \in Message /\ IsAssistant(AssistantMsg(id, kind))
           /\ AssistantMsg(id, kind).is = kind
<1>1. AssistantMsg(id, kind) \in [role : {"assistant"}, id : Nat, is : AllReplies]
  BY DEF AssistantMsg
<1>. QED
  BY <1>1 DEF Message, AssistantMsg, IsAssistant

LEMMA NewResult ==
    ASSUME NEW id \in Nat
    PROVE  /\ OtherMsg(id, "toolResult") \in Message /\ ~IsAssistant(OtherMsg(id, "toolResult"))
           /\ OtherMsg(id, "toolResult").role = "toolResult"
<1>1. OtherMsg(id, "toolResult") \in [role : {"toolResult", "custom", "bashExecution"}, id : Nat]
  BY DEF OtherMsg
<1>. QED
  BY <1>1 DEF Message, OtherMsg, IsAssistant

\* An entry has a number, and a compaction the number of the entry it keeps.
LEMMA EntryHasId ==
    ASSUME NEW e \in EntryType
    PROVE  e.id \in Nat
<1>1. CASE e \in Message
  BY <1>1 DEF Message
<1>2. CASE e \in [role : {"compaction"}, id : Nat, keep : Nat]
  BY <1>2
<1>. QED
  BY <1>1, <1>2 DEF EntryType

LEMMA NewCompaction ==
    ASSUME NEW id \in Nat, NEW s \in Seq(EntryType), NEW cut \in IdsIn(s)
    PROVE  Compaction(id, cut) \in EntryType
<1>1. cut \in Nat
  BY EntryHasId DEF IdsIn
<1>2. Compaction(id, cut) \in [role : {"compaction"}, id : Nat, keep : Nat]
  BY <1>1 DEF Compaction
<1>. QED
  BY <1>2 DEF EntryType

\* A new entry is the last, and all others stay.
LEMMA Longer ==
    ASSUME NEW T, NEW s \in Seq(T), NEW e \in T
    PROVE  LET r == Append(s, e)
           IN /\ r \in Seq(T) /\ r # <<>> /\ Len(r) = Len(s) + 1 /\ r[Len(r)] = e
              /\ \A i \in DOMAIN s : i \in DOMAIN r /\ r[i] = s[i]
              /\ \A i \in DOMAIN r : i \in DOMAIN s \/ i = Len(s) + 1
              /\ DOMAIN s = 1..Len(s) /\ Len(s) \in Nat /\ DOMAIN r = 1..(Len(s) + 1)
OBVIOUS

\* The context of r after compaction e: the summary, and the entries up to n since
\* the one with number cut.
ContextKeeps(r, e, cut, n) ==
    \E keep \in DOMAIN r :
        /\ r[keep].id = cut /\ SubSeq(r, keep, n) \in Seq(EntryType)
        /\ Context(r) = <<e>> \o NotCompactions(SubSeq(r, keep, n))

LEMMA ContextIs ==
    ASSUME NEW s \in Seq(EntryType), NEW id \in Nat, NEW cut \in IdsIn(s)
    PROVE  LET e == Compaction(id, cut)
               r == Append(s, e)
           IN /\ e \in EntryType /\ r \in Seq(EntryType)
              /\ ContextKeeps(r, e, cut, Len(s))
<1> DEFINE e == Compaction(id, cut)
           r == Append(s, e)
           at == {0} \union {i \in DOMAIN r : r[i].role = "compaction"}
           c == LastCompaction(r)
           keep == CHOOSE i \in DOMAIN r : r[i].id = r[c].keep
<1>1. e \in EntryType /\ e.role = "compaction" /\ e.keep = cut
  BY NewCompaction DEF Compaction
<1>. HIDE DEF e
<1>2. /\ r \in Seq(EntryType) /\ Len(r) = Len(s) + 1 /\ r[Len(r)] = e /\ Len(s) \in Nat
      /\ DOMAIN r = 1..(Len(s) + 1) /\ \A i \in DOMAIN s : i \in DOMAIN r /\ r[i] = s[i]
  BY <1>1, Longer
<1>. HIDE DEF r
<1>3. c = Len(r)
  <2>1. Len(r) \in at /\ \A i \in at : Len(r) >= i
    BY <1>1, <1>2
  <2>2. at \subseteq Nat
    BY <1>2
  <2>. HIDE DEF at
  <2>3. Max(at) \in at /\ \A i \in at : Max(at) >= i
    BY <2>1 DEF Max
  <2>4. Max(at) = Len(r)
    <3>1. Max(at) \in Nat /\ Len(r) \in Nat
      BY <2>1, <2>2, <2>3
    <3>2. Max(at) >= Len(r) /\ Len(r) >= Max(at)
      BY <2>1, <2>3
    <3>. QED
      BY <3>1, <3>2
  <2>. QED
    BY <2>4 DEF LastCompaction, at
<1>. HIDE DEF c
<1>4. keep \in DOMAIN r /\ r[keep].id = cut
  <2>1. PICK i \in DOMAIN s : s[i].id = cut
    BY DEF IdsIn
  <2>2. i \in DOMAIN r /\ r[i].id = r[c].keep
    BY <1>1, <1>2, <1>3, <2>1
  <2>3. keep \in DOMAIN r /\ r[keep].id = r[c].keep
    BY <2>2
  <2>. QED
    BY <1>1, <1>2, <1>3, <2>3
<1>5. Context(r) = <<r[c]>> \o NotCompactions(SubSeq(r, keep, c - 1)) \o SubSeq(r, c + 1, Len(r))
  BY <1>2, <1>3 DEF Context, c
<1>. HIDE DEF keep
<1>6. c - 1 = Len(s) /\ r[c] = e
  BY <1>2, <1>3
<1>7. SubSeq(r, keep, Len(s)) \in Seq(EntryType)
  BY <1>2, <1>4
<1>8. NotCompactions(SubSeq(r, keep, Len(s))) \in Seq(EntryType)
  BY <1>7, NotCompactionsIsList
<1>9. SubSeq(r, c + 1, Len(r)) = <<>>
  BY <1>2, <1>3
<1>10. ASSUME NEW x \in Seq(EntryType), NEW y \in Seq(EntryType)
       PROVE  x \o y \in Seq(EntryType) /\ x \o y \o <<>> = x \o y
  OBVIOUS
<1>11. <<e>> \in Seq(EntryType)
  BY <1>1
<1>12. Context(r) = <<e>> \o NotCompactions(SubSeq(r, keep, Len(s)))
  <2>1. Context(r) = <<e>> \o NotCompactions(SubSeq(r, keep, Len(s))) \o <<>>
    BY <1>5, <1>6, <1>9
  <2>. QED
    BY <1>8, <1>10, <1>11, <2>1
<1>13. ContextKeeps(r, e, cut, Len(s))
  BY <1>4, <1>7, <1>12 DEF ContextKeeps
<1>. QED
  BY <1>1, <1>2, <1>13 DEF r, e

LEMMA ContextIsList ==
    ASSUME NEW s \in Seq(EntryType), NEW id \in Nat, NEW cut \in IdsIn(s)
    PROVE  Context(Append(s, Compaction(id, cut))) \in Seq(EntryType)
<1> DEFINE e == Compaction(id, cut)
           r == Append(s, e)
<1>0. e \in EntryType /\ ContextKeeps(r, e, cut, Len(s))
  BY ContextIs
<1>. HIDE DEF e, r
<1>1. PICK keep \in DOMAIN r : /\ SubSeq(r, keep, Len(s)) \in Seq(EntryType)
                               /\ Context(r) = <<e>> \o NotCompactions(SubSeq(r, keep, Len(s)))
  BY <1>0 DEF ContextKeeps
<1>2. <<e>> \in Seq(EntryType)
  BY <1>0
<1>3. NotCompactions(SubSeq(r, keep, Len(s))) \in Seq(EntryType)
  BY <1>1, NotCompactionsIsList
<1>4. Context(r) \in Seq(EntryType)
  BY <1>1, <1>2, <1>3
<1>. QED
  BY <1>4 DEF r, e

LEMMA StripIsList ==
    ASSUME NEW T, NEW s \in Seq(T), NEW kinds
    PROVE  Strip(s, kinds) \in Seq(T)
<1>1. s # <<>> => Front(s) \in Seq(T)
  BY DEF Front
<1>. QED
  BY <1>1 DEF Strip, LastIs

LEMMA NothingAdded ==
    ASSUME NEW T, NEW s \in Seq(T)
    PROVE  s \o <<>> = s
OBVIOUS

\* What the decision whether the agent goes on does with the call.
Decision(p, goOn) ==
    \/ /\ goOn /\ call'[p].at = "continue" /\ call'[p].phase # "check"
       /\ call'[p].batch = call[p].batch /\ nextTurn' = nextTurn
       /\ call[p].phase = "main" <=> call'[p].phase = "main"
    \/ /\ ~goOn /\ call'[p].at = "before" /\ call'[p].phase = "check"
       /\ call'[p].batch = call[p].batch \o nextTurn /\ nextTurn' = <<>> /\ call[p].phase # "main"
    \/ /\ ~goOn /\ call'[p].at = "settling" /\ call'[p].batch = <<>> /\ nextTurn' = nextTurn

LEMMA DecisionIs ==
    ASSUME NEW p, ControlInv(p), NEW goOn \in BOOLEAN, NEW msgs, NEW br, Decide(p, goOn, msgs, br)
    PROVE  Decision(p, goOn)
<1>1. call = [q \in {p} |-> call[p]] /\ call[p] \in CallShape(call[p])
  BY DEF ControlInv, Controlled
<1>2. CASE goOn
  <2> DEFINE c == [call[p] EXCEPT !.at = "continue", !.phase = IF @ = "check" THEN "pre" ELSE @,
                                  !.msg = None, !.cut = 0]
  <2>1. /\ call' = [call EXCEPT ![p].at = "continue", ![p].phase = IF @ = "check" THEN "pre" ELSE @,
                                ![p].msg = None, ![p].cut = 0]
        /\ UNCHANGED <<bash, nextTurn, active>>
    BY <1>2 DEF Decide
  <2>2. call'[p] = c
    BY <1>1, <2>1
  <2>3. /\ c.batch = call[p].batch /\ c.at = "continue"
        /\ c.phase # "check" /\ (c.phase = "main" <=> call[p].phase = "main")
    BY <1>1 DEF CallShape, CallPhases
  <2>. HIDE DEF c
  <2>. QED
    BY <1>2, <2>1, <2>2, <2>3 DEF Decision
<1>3. CASE ~goOn /\ call[p].phase # "main"
  <2> DEFINE c == [NoCall EXCEPT !.at = "before", !.batch = call[p].batch \o nextTurn]
  <2>1. call' = [call EXCEPT ![p] = c] /\ nextTurn' = <<>>
    BY <1>3 DEF Decide, Build
  <2>2. call'[p] = c
    <3> HIDE DEF c
    <3>. QED
      BY <1>1, <2>1
  <2>3. c.batch = call[p].batch \o nextTurn /\ c.at = "before" /\ c.phase = "check"
    BY DEF NoCall
  <2>. HIDE DEF c
  <2>. QED
    BY <1>3, <2>1, <2>2, <2>3 DEF Decision
<1>4. CASE ~goOn /\ call[p].phase = "main"
  <2> DEFINE c == [NoCall EXCEPT !.at = "settling"]
  <2>1. call' = [call EXCEPT ![p] = c] /\ UNCHANGED nextTurn
    BY <1>4 DEF Decide
  <2>2. call'[p] = c
    <3> HIDE DEF c
    <3>. QED
      BY <1>1, <2>1
  <2>3. c.batch = <<>> /\ c.at = "settling"
    BY DEF NoCall
  <2>. HIDE DEF c
  <2>. QED
    BY <1>4, <2>1, <2>2, <2>3 DEF Decision
<1>. QED
  BY <1>2, <1>3, <1>4

LEMMA DecisionMade ==
    ASSUME NEW p, ControlInv(p), bash = <<>>, NEW goOn \in BOOLEAN, NEW T, NEW msgs \in Seq(T),
           NEW br \in Seq(T), Decide(p, goOn, msgs, br)
    PROVE  messages' = msgs /\ branch' = br /\ bash' = <<>> /\ Decision(p, goOn)
<1>1. msgs \o bash = msgs /\ br \o bash = br
  BY NothingAdded
<1>2. messages' = msgs /\ branch' = br /\ bash' = <<>>
  BY <1>1 DEF Decide, Flush
<1>. QED
  BY <1>2, DecisionIs

LEMMA SettingKept ==
    ASSUME NEW p, Callers = {p}, ControlInv(p), Setting, [Next]_vars
    PROVE  Setting'
<1>1. CASE UNCHANGED vars
  BY <1>1 DEF vars, agentVars, counters, Setting, Undisturbed
<1>2. CASE Next
  <2>1. UNCHANGED scenario
    BY <1>2 DEF Next
  <2>2. ~CompStep
    BY DEF Setting, NoComp, CompStep, CompactPrepare, CompactDone
  <2>3. ASSUME UNCHANGED <<compacts, aborts, connected, comp>>, bash' = <<>>
        PROVE  Setting'
    BY <2>1, <2>3 DEF Setting, Undisturbed
  <2>4. CASE AgentStep
    <3>1. UNCHANGED <<compacts, aborts, connected, comp, bash>>
      BY <2>4 DEF AgentStep, Deliver, Save, Respond, ToolDone, Poll, RunEnds, Produce, counters
    <3>. QED
      BY <2>3, <3>1 DEF Setting
  <2>5. CASE CallStep(p)
    <3>1. bash = <<>> /\ comp.at # "waiting"
      BY DEF Setting, NoComp
    <3>2. CASE Decides(p) \/ Compacted(p)
      <4>1. PICK c, br : Moves(p, c, br)
        BY <3>2, DecidesEffect, CompactedEffect
      <4>2. bash' = <<>>
        BY <3>1, <4>1 DEF Moves
      <4>3. UNCHANGED <<compacts, aborts, connected, comp>>
        BY <3>2 DEF Decides, PostRun, Wake, RetryCancelled, Prepare, SummaryFails, Accepted, Compacted, counters
      <4>. QED
        BY <2>3, <4>2, <4>3
    <3>3. CASE Continue(p) \/ ContinueThrows(p) \/ Settled(p) \/ Refused(p) \/ BeforeDone(p)
      BY <2>3, <3>1, <3>3 DEF Continue, ContinueThrows, Settled, Refused, BeforeDone, RunPrompt, Flush,
         counters
    <3>. QED
      BY <2>5, <3>2, <3>3 DEF CallStep, Decides
  <2>6. CASE Application
    <3>1. ~Compact /\ ~Abort /\ ~SendCustom /\ ~RecordBash
      <4>1. ~(compacts < scenario.compacts) /\ ~(aborts < scenario.aborts)
        BY DEF Setting, Undisturbed
      <4>2. "custom" \notin scenario.ways /\ "bash" \notin scenario.ways
        BY DEF Setting, Undisturbed
      <4>. QED
        BY <4>1, <4>2 DEF Compact, Abort, SendCustom, RecordBash, Send
    <3>2. bash = <<>>
      BY DEF Setting
    <3>3. bash' = <<>> /\ UNCHANGED <<compacts, aborts, connected, comp>>
      BY <1>2, <2>6, <3>1, <3>2 DEF Application, Prompt, SendTurn, Steer, FollowUp, SendNextTurn, ClearQueue,
          RunPrompt, Flush, counters
    <3>. QED
      BY <2>3, <3>3
  <2>. QED
    BY <1>2, <2>2, <2>4, <2>5, <2>6 DEF Next
<1>. QED
  BY <1>1, <1>2

LEMMA TakingInput ==
    ASSUME NEW s \in Seq(Input)
    PROVE  /\ s # <<>> => Head(s) \in Input /\ Tail(s) \in Seq(Input) /\ <<Head(s)>> \in Seq(Input)
                          /\ <<Head(s)>> # <<>>
           /\ \A t \in Seq(Input) : s \o t \in Seq(Input) /\ (s # <<>> => s \o t # <<>>)
           /\ \A m \in Input : Append(s, m) \in Seq(Input)
           /\ <<>> \in Seq(Input)
<1>1. ASSUME s # <<>>
      PROVE  Head(s) \in Input /\ Tail(s) \in Seq(Input)
  BY <1>1
<1>2. \A m \in Input : <<m>> \in Seq(Input) /\ <<m>> # <<>>
  OBVIOUS
<1>3. ASSUME NEW t \in Seq(Input), s # <<>>
      PROVE  s \o t # <<>>
  BY <1>3
<1>4. \A t \in Seq(Input) : s \o t \in Seq(Input)
  OBVIOUS
<1>5. (\A m \in Input : Append(s, m) \in Seq(Input)) /\ <<>> \in Seq(Input)
  OBVIOUS
<1>. QED
  BY <1>1, <1>2, <1>3, <1>4, <1>5

\* What a run holds after one of its steps.
LEMMA RunShaped ==
    ASSUME NEW p, ControlInv(p), ShapeInv(p), AgentStep
    PROVE  /\ nextId' \in Nat /\ messages' \in Seq(EntryType) /\ branch' \in Seq(EntryType)
           /\ {steerQ', followQ', nextTurn', run'.out} \subseteq Seq(Input)
           /\ run'.saving \in Message \union {None}
<1>1. run \in RunShape(run) /\ connected = TRUE
  BY DEF ControlInv, Controlled, ShapeInv, Setting
<1>2. /\ nextId \in Nat /\ messages \in Seq(EntryType) /\ branch \in Seq(EntryType)
      /\ steerQ \in Seq(Input) /\ followQ \in Seq(Input) /\ nextTurn \in Seq(Input)
      /\ run.out \in Seq(Input) /\ run.saving \in Message \union {None}
  BY DEF ShapeInv
<1>3. CASE Deliver
  BY <1>1, <1>2, <1>3, TakingInput, InputIsMessage, Longer DEF Deliver, RunShape
<1>4. CASE Save
  BY <1>1, <1>2, <1>4, InputIsMessage, Longer DEF Save, RunShape
<1>5. ASSUME NEW m \in Message, NEW at, Produce(m, at)
      PROVE  /\ nextId' \in Nat /\ messages' \in Seq(EntryType) /\ branch' \in Seq(EntryType)
             /\ {steerQ', followQ', nextTurn', run'.out} \subseteq Seq(Input)
             /\ run'.saving \in Message \union {None}
  BY <1>1, <1>2, <1>5, InputIsMessage, Longer DEF Produce, NewId, RunShape
<1>6. CASE Respond
  <2>1. PICK kind : /\ kind \in {"stop", "aborted"} \union scenario.kinds
                    /\ Produce(AssistantMsg(nextId, kind), AfterReply(kind))
    BY <1>6 DEF Respond
  <2>2. kind \in AllReplies
    BY <2>1, SessionAssumption DEF ShapeInv, Setting, AllReplies
  <2>. QED
    BY <1>2, <1>5, <2>1, <2>2, NewReply
<1>7. CASE ToolDone
  BY <1>2, <1>5, <1>7, NewResult DEF ToolDone
<1>8. CASE Poll
  <2>1. UNCHANGED <<nextId, messages, branch, nextTurn>>
    BY <1>8 DEF Poll
  <2>2. CASE steerQ # <<>> /\ \E at : FromSteering(at)
    BY <1>1, <1>2, <2>1, <2>2, TakingInput DEF FromSteering, RunShape
  <2>3. CASE followQ # <<>> /\ FromFollowUps("ask")
    BY <1>1, <1>2, <2>1, <2>3, TakingInput DEF FromFollowUps, RunShape
  <2>4. CASE (\E at \in {"end", "ask"} : run' = [run EXCEPT !.at = at]) /\ UNCHANGED <<steerQ, followQ>>
    BY <1>1, <1>2, <2>1, <2>4 DEF RunShape
  <2>. QED
    BY <1>8, <2>2, <2>3, <2>4 DEF Poll
<1>9. CASE RunEnds
  BY <1>2, <1>9, TakingInput DEF RunEnds, NoRun
<1>. QED
  BY <1>3, <1>4, <1>6, <1>7, <1>8, <1>9 DEF AgentStep

\* A set of numbers up to n that is not empty has a greatest one.
LEMMA MaxIsIn ==
    ASSUME NEW n \in Nat, NEW S \in SUBSET (0..n), S # {}
    PROVE  Max(S) \in S /\ \A i \in S : i <= Max(S)
<1> DEFINE D == {n - i : i \in S}
<1>1. D \in SUBSET Nat /\ D # {}
  <2>1. \A i \in S : n - i \in Nat
    OBVIOUS
  <2>2. PICK i \in S : TRUE
    OBVIOUS
  <2>3. n - i \in D
    OBVIOUS
  <2>4. \A d \in D : d \in Nat
    BY <2>1
  <2>. HIDE DEF D
  <2>. QED
    BY <2>3, <2>4
<1>. HIDE DEF D
<1>2. PICK d \in D : \A e \in D : d <= e
  BY <1>1, Least
<1>3. PICK m \in S : d = n - m
  BY <1>2 DEF D
<1>4. \A i \in S : m >= i
  <2> SUFFICES ASSUME NEW i \in S
               PROVE  m >= i
    OBVIOUS
  <2>1. n - i \in D
    BY DEF D
  <2>2. n - m <= n - i
    BY <1>2, <1>3, <2>1
  <2>. QED
    BY <2>2
<1>5. Max(S) \in S /\ \A i \in S : Max(S) >= i
  BY <1>4 DEF Max
<1>. QED
  BY <1>5

\* What the check of a reply m does: nothing, or a compaction is prepared.
CheckMakes(p, m, skipAborted) ==
    \/ /\ "none" \in Outcomes(m, skipAborted)
       /\ messages' = messages /\ overflowTried' = overflowTried
       /\ Decision(p, call[p].phase # "check" /\ HasQueued)
    \/ \E o \in Outcomes(m, skipAborted) :
       /\ o # "none" /\ call'[p].at = "prepare"
       /\ call'[p].phase = call[p].phase /\ call'[p].batch = call[p].batch /\ nextTurn' = nextTurn
       /\ overflowTried' = (overflowTried \/ o = "recover")
       /\ messages' = IF o = "recover" THEN Strip(messages, AllReplies) ELSE messages

LEMMA DecisionQueued ==
    ASSUME NEW p, ControlInv(p), ShapeInv(p), DecideQueued(p)
    PROVE  messages' = messages /\ branch' = branch /\ Decision(p, call[p].phase # "check" /\ HasQueued)
<1>1. bash = <<>> /\ messages \in Seq(EntryType) /\ branch \in Seq(EntryType)
  BY DEF ShapeInv, Setting
<1>2. (call[p].phase # "check" /\ HasQueued) \in BOOLEAN
  OBVIOUS
<1>. QED
  BY <1>1, <1>2, DecisionMade DEF DecideQueued

LEMMA CheckMade ==
    ASSUME NEW p, ControlInv(p), ShapeInv(p), NEW m, NEW skipAborted, Check(p, m, skipAborted)
    PROVE  branch' = branch /\ CheckMakes(p, m, skipAborted)
<1>1. PICK o \in Outcomes(m, skipAborted) :
        \/ /\ o = "none"
           /\ DecideQueued(p) /\ UNCHANGED overflowTried
        \/ /\ o # "none"
           /\ call' = [call EXCEPT ![p].at = "prepare", ![p].recover = (o = "recover"), ![p].msg = None]
           /\ overflowTried' = (overflowTried \/ o = "recover")
           /\ messages' = IF o = "recover" THEN Strip(messages, AllReplies) ELSE messages
           /\ UNCHANGED <<branch, bash, nextTurn, active>>
  BY DEF Check
<1>2. CASE o = "none"
  BY <1>1, <1>2, DecisionQueued DEF CheckMakes
<1>3. CASE o # "none"
  <2> DEFINE c == [call[p] EXCEPT !.at = "prepare", !.recover = (o = "recover"), !.msg = None]
  <2>1. call = [q \in {p} |-> call[p]] /\ call[p] \in CallShape(call[p])
    BY DEF ControlInv, Controlled
  <2>2. call'[p] = c
    BY <1>1, <1>3, <2>1
  <2>3. c.at = "prepare" /\ c.phase = call[p].phase /\ c.batch = call[p].batch
    BY <2>1 DEF CallShape
  <2>. HIDE DEF c
  <2>. QED
    BY <1>1, <1>3, <2>2, <2>3 DEF CheckMakes
<1>. QED
  BY <1>2, <1>3

\* What the call holds: its messages, where it is, and the cut of its compaction.
CallHolds(c, br) ==
    /\ c.batch \in Seq(Input) /\ c.at # "cancelled" /\ (c.at \in {"auth", "before"} => c.phase = "check")
    /\ c.at \in {"idle", "settling"} \/ c.phase = "main" \/ c.batch # <<>>
    /\ c.at = "summarizing" => c.cut \in IdsIn(br)

LEMMA DecisionHolds ==
    ASSUME NEW p, ControlInv(p), ShapeInv(p), NEW goOn, Decision(p, goOn),
           call[p].at \notin {"idle", "settling"}
    PROVE  CallHolds(call'[p], branch') /\ nextTurn' \in Seq(Input)
<1>1. /\ call[p].batch \in Seq(Input) /\ nextTurn \in Seq(Input)
      /\ call[p].phase = "main" \/ call[p].batch # <<>>
  BY DEF ShapeInv
<1>2. CASE call'[p].at = "continue"
  BY <1>1, <1>2 DEF Decision, CallHolds
<1>3. CASE call'[p].at = "before"
  BY <1>1, <1>3, TakingInput DEF Decision, CallHolds
<1>4. CASE call'[p].at = "settling"
  BY <1>1, <1>4, TakingInput DEF Decision, CallHolds
<1>. QED
  BY <1>2, <1>3, <1>4 DEF Decision

LEMMA CheckHolds ==
    ASSUME NEW p, ControlInv(p), ShapeInv(p), NEW m, NEW skipAborted, Check(p, m, skipAborted),
           call[p].at \notin {"idle", "settling"}
    PROVE  /\ CallHolds(call'[p], branch') /\ nextTurn' \in Seq(Input)
           /\ branch' \in Seq(EntryType) /\ messages' \in Seq(EntryType)
<1>1. branch' = branch /\ CheckMakes(p, m, skipAborted)
  BY CheckMade
<1>2. messages \in Seq(EntryType) /\ branch \in Seq(EntryType) /\ nextTurn \in Seq(Input)
      /\ call[p].batch \in Seq(Input) /\ (call[p].phase = "main" \/ call[p].batch # <<>>)
  BY DEF ShapeInv
<1>3. messages' = messages \/ messages' = Strip(messages, AllReplies)
  BY <1>1 DEF CheckMakes
<1>4. messages' \in Seq(EntryType)
  BY <1>2, <1>3, StripIsList
<1>5. CASE Decision(p, call[p].phase # "check" /\ HasQueued)
  BY <1>1, <1>2, <1>4, <1>5, DecisionHolds
<1>6. CASE /\ call'[p].at = "prepare"
           /\ call'[p].phase = call[p].phase /\ call'[p].batch = call[p].batch /\ nextTurn' = nextTurn
  BY <1>1, <1>2, <1>4, <1>6 DEF CallHolds
<1>. QED
  BY <1>1, <1>5, <1>6 DEF CheckMakes

\* What a compaction keeps begins with an entry, and not with the result of a tool.
LEMMA CutIsPoint ==
    ASSUME NEW s \in Seq(EntryType), KeepsOwn(s), NEW cut \in Cuts(s)
    PROVE  \E k \in DOMAIN s : cut = s[k].id /\ s[k].role \notin {"toolResult", "compaction"}
<1> DEFINE c == LastCompaction(s)
           start == IF c = 0 THEN 1 ELSE CHOOSE i \in DOMAIN s : s[i].id = s[c].keep
           cutPoints == {i \in start..Len(s) : s[i].role \notin {"toolResult", "compaction"}}
<1>1. Len(s) \in Nat /\ DOMAIN s = 1..Len(s)
  OBVIOUS
<1>2. PICK k \in start..Len(s) : cut = s[k].id /\ s[k].role \notin {"toolResult", "compaction"}
  BY DEF Cuts
<1>3. c = 0 \/ (c \in DOMAIN s /\ s[c].role = "compaction")
  <2> DEFINE at == {0} \union {i \in DOMAIN s : s[i].role = "compaction"}
  <2>1. at \subseteq 0..Len(s) /\ at # {}
    BY <1>1
  <2>2. c = Max(at)
    BY DEF LastCompaction
  <2>. HIDE DEF at
  <2>3. c \in at
    BY <1>1, <2>1, <2>2, MaxIsIn
  <2>. QED
    BY <2>3 DEF at
<1>. HIDE DEF c
<1>4. start \in Nat \ {0}
  <2>1. CASE c = 0
    BY <2>1
  <2>2. CASE c # 0
    <3>1. s[c].keep \in IdsIn(s)
      BY <1>3, <2>2 DEF KeepsOwn
    <3>2. PICK i \in DOMAIN s : s[i].id = s[c].keep
      BY <3>1 DEF IdsIn
    <3>3. start \in DOMAIN s
      BY <2>2, <3>2
    <3>. HIDE DEF start
    <3>. QED
      BY <1>1, <3>3
  <2>. QED
    BY <2>1, <2>2
<1>. HIDE DEF start
<1>5. k \in DOMAIN s
  BY <1>1, <1>2, <1>4
<1>. QED
  BY <1>2, <1>5

LEMMA CutIsEntry ==
    ASSUME NEW s \in Seq(EntryType), KeepsOwn(s), NEW cut \in Cuts(s)
    PROVE  cut \in IdsIn(s)
BY CutIsPoint DEF IdsIn

LEMMA CompactionKeepsOwn ==
    ASSUME NEW s \in Seq(EntryType), KeepsOwn(s), NEW id \in Nat, NEW cut \in IdsIn(s)
    PROVE  KeepsOwn(Append(s, Compaction(id, cut)))
<1> DEFINE e == Compaction(id, cut)
           r == Append(s, e)
<1>1. e \in EntryType /\ e.keep = cut
  BY NewCompaction DEF Compaction
<1>. HIDE DEF e
<1>2. /\ \A i \in DOMAIN s : i \in DOMAIN r /\ r[i] = s[i]
      /\ \A i \in DOMAIN r : i \in DOMAIN s \/ r[i] = e
  BY <1>1, Longer
<1>. HIDE DEF r
<1>3. IdsIn(s) \subseteq IdsIn(r)
  BY <1>2 DEF IdsIn
<1>4. KeepsOwn(r)
  BY <1>1, <1>2, <1>3 DEF KeepsOwn
<1>. QED
  BY <1>4 DEF r, e

LEMMA MessageKeepsOwn ==
    ASSUME NEW s \in Seq(EntryType), KeepsOwn(s), NEW m \in Message
    PROVE  KeepsOwn(Append(s, m))
<1> DEFINE r == Append(s, m)
<1>1. m \in EntryType /\ m.role # "compaction"
  BY DEF EntryType, Message
<1>2. /\ \A i \in DOMAIN s : i \in DOMAIN r /\ r[i] = s[i]
      /\ \A i \in DOMAIN r : i \in DOMAIN s \/ r[i] = m
  BY <1>1, Longer
<1>. HIDE DEF r
<1>3. IdsIn(s) \subseteq IdsIn(r)
  BY <1>2 DEF IdsIn
<1>4. KeepsOwn(r)
  BY <1>1, <1>2, <1>3 DEF KeepsOwn
<1>. QED
  BY <1>4 DEF r

\* What ShapeInv says beside the setting, after a step.
Shaped(p) ==
    /\ nextId' \in Nat /\ messages' \in Seq(EntryType) /\ branch' \in Seq(EntryType)
    /\ {steerQ', followQ', nextTurn', run'.out} \subseteq Seq(Input)
    /\ run'.saving \in Message \union {None}
    /\ CallHolds(call'[p], branch') /\ KeepsOwn(branch')

LEMMA CallShaped ==
    ASSUME NEW p, Callers = {p}, ControlInv(p), ShapeInv(p), CallStep(p)
    PROVE  Shaped(p)
<1>1. call = [q \in {p} |-> call[p]] /\ call[p] \in CallShape(call[p]) /\ run \in RunShape(run)
      /\ (call[p].at # "running" => run.at = "none")
  BY DEF ControlInv, Controlled
<1>2. /\ nextId \in Nat /\ messages \in Seq(EntryType) /\ branch \in Seq(EntryType)
      /\ steerQ \in Seq(Input) /\ followQ \in Seq(Input) /\ nextTurn \in Seq(Input)
      /\ run.out \in Seq(Input) /\ run.saving \in Message \union {None} /\ bash = <<>>
      /\ call[p].batch \in Seq(Input) /\ call[p].at # "cancelled"
      /\ call[p].at \in {"idle", "settling"} \/ call[p].phase = "main" \/ call[p].batch # <<>>
      /\ call[p].at = "summarizing" => call[p].cut \in IdsIn(branch)
      /\ KeepsOwn(branch)
  BY DEF ShapeInv, Setting
<1>3. <<>> \in Seq(Input)
  BY <1>2, TakingInput
<1>4. ASSUME UNCHANGED <<steerQ, followQ, run>>, nextId' \in Nat, messages' \in Seq(EntryType),
             branch' \in Seq(EntryType), nextTurn' \in Seq(Input), CallHolds(call'[p], branch'),
             KeepsOwn(branch')
      PROVE  Shaped(p)
  BY <1>2, <1>4 DEF Shaped
<1>5. CASE PostRun(p)
  <2>1. UNCHANGED <<steerQ, followQ, run, nextId>> /\ call[p].at = "post"
    BY <1>5 DEF PostRun
  <2>2. CASE last = None
    BY <1>2, <1>4, <1>5, <2>1, <2>2, DecisionMade, DecisionHolds DEF PostRun
  <2>3. CASE last # None /\ IsKind(last, {"error"}) /\ retries < MaxRetries
    <3> DEFINE c == [call[p] EXCEPT !.at = "sleeping", !.msg = last]
    <3>1. /\ messages' = Strip(messages, AllReplies)
          /\ call' = [call EXCEPT ![p].at = "sleeping", ![p].msg = last]
          /\ UNCHANGED <<branch, bash, nextTurn, active, overflowTried>>
      BY <1>5, <2>3 DEF PostRun
    <3>2. call'[p] = c
      BY <1>1, <3>1
    <3>3. c.at = "sleeping" /\ c.batch = call[p].batch /\ c.phase = call[p].phase
      BY <1>1 DEF CallShape
    <3>. HIDE DEF c
    <3>4. CallHolds(call'[p], branch')
      BY <1>2, <2>1, <3>2, <3>3 DEF CallHolds
    <3>5. messages' \in Seq(EntryType)
      BY <1>2, <3>1, StripIsList
    <3>. QED
      BY <1>2, <1>4, <2>1, <3>1, <3>4, <3>5
  <2>4. CASE last # None /\ ~(IsKind(last, {"error"}) /\ retries < MaxRetries)
    BY <1>2, <1>4, <1>5, <2>1, <2>4, CheckHolds, CheckMade DEF PostRun
  <2>. QED
    BY <2>2, <2>3, <2>4 DEF Shaped
<1>6. CASE Wake(p)
  BY <1>2, <1>4, <1>6, DecisionMade, DecisionHolds DEF Wake
<1>7. CASE RetryCancelled(p)
  BY <1>2, <1>7 DEF RetryCancelled
<1>8. ASSUME DecideQueued(p), UNCHANGED <<steerQ, followQ, run, nextId>>,
             call[p].at \notin {"idle", "settling"}
      PROVE  Shaped(p)
  BY <1>2, <1>4, <1>8, DecisionQueued, DecisionHolds
<1>9. CASE Prepare(p)
  <2>1. call[p].at = "prepare" /\ UNCHANGED <<steerQ, followQ, run, nextId>>
    BY <1>9 DEF Prepare
  <2>2. ASSUME NEW cut \in Cuts(branch),
               call' = [call EXCEPT ![p].at = "summarizing", ![p].cut = cut],
               UNCHANGED <<messages, branch, bash, nextTurn, active>>
        PROVE  Shaped(p)
    <3> DEFINE c == [call[p] EXCEPT !.at = "summarizing", !.cut = cut]
    <3>1. call'[p] = c
      BY <1>1, <2>2
    <3>2. c.at = "summarizing" /\ c.batch = call[p].batch /\ c.phase = call[p].phase /\ c.cut = cut
      BY <1>1 DEF CallShape
    <3>. HIDE DEF c
    <3>3. cut \in IdsIn(branch)
      BY <1>2, <2>2, CutIsEntry
    <3>4. CallHolds(call'[p], branch')
      BY <1>2, <2>1, <2>2, <3>1, <3>2, <3>3 DEF CallHolds, IdsIn
    <3>. QED
      BY <1>2, <1>4, <2>1, <2>2, <3>4
  <2>3. DecideQueued(p) \/ \E cut \in Cuts(branch) :
           /\ call' = [call EXCEPT ![p].at = "summarizing", ![p].cut = cut]
           /\ UNCHANGED <<messages, branch, bash, nextTurn, active>>
    BY <1>9 DEF Prepare
  <2>. QED
    BY <1>8, <2>1, <2>2, <2>3
<1>10. CASE SummaryFails(p)
  BY <1>8, <1>10 DEF SummaryFails
<1>11. CASE Compacted(p)
  <2> DEFINE saved == Append(branch, Compaction(nextId, call[p].cut))
             context == IF call[p].recover THEN Strip(Context(saved), ErrorKinds) ELSE Context(saved)
  <2>1. /\ Decide(p, call[p].recover \/ HasQueued, context, saved) /\ nextId' = nextId + 1
        /\ call[p].at = "summarizing" /\ UNCHANGED <<steerQ, followQ, run>>
    BY <1>11 DEF Compacted, NewId
  <2>2. saved \in Seq(EntryType)
    BY <1>2, <2>1, NewCompaction
  <2>3. Context(saved) \in Seq(EntryType)
    BY <1>2, <2>1, ContextIsList
  <2>. HIDE DEF saved
  <2>4. context \in Seq(EntryType)
    BY <2>3, StripIsList
  <2>. HIDE DEF context
  <2>5. (call[p].recover \/ HasQueued) \in BOOLEAN
    OBVIOUS
  <2>6. messages' = context /\ branch' = saved /\ Decision(p, call[p].recover \/ HasQueued)
    BY <1>2, <2>1, <2>2, <2>4, <2>5, DecisionMade
  <2>7. CallHolds(call'[p], branch') /\ nextTurn' \in Seq(Input)
    BY <2>1, <2>6, DecisionHolds
  <2>8. nextId' \in Nat
    BY <1>2, <2>1
  <2>9. KeepsOwn(saved)
    BY <1>2, <2>1, CompactionKeepsOwn DEF saved
  <2>. QED
    BY <1>4, <2>1, <2>2, <2>4, <2>6, <2>7, <2>8, <2>9
<1>12. CASE Accepted(p)
  <2>1. call[p].at = "auth" /\ UNCHANGED <<steerQ, followQ, run, nextId>>
        /\ (DecideQueued(p) \/ Check(p, LastAssistant(messages, {}), FALSE))
    BY <1>12 DEF Accepted
  <2>2. CASE DecideQueued(p)
    BY <1>8, <2>1, <2>2
  <2>3. CASE Check(p, LastAssistant(messages, {}), FALSE)
    BY <1>2, <1>4, <2>1, <2>3, CheckHolds, CheckMade
  <2>. QED
    BY <2>1, <2>2, <2>3
<1>13. CASE Continue(p)
  <2> DEFINE c == [call[p] EXCEPT !.at = "running"]
  <2>1. /\ call' = [call EXCEPT ![p].at = "running"] /\ call[p].at = "continue"
        /\ UNCHANGED <<messages, branch, nextTurn, nextId>>
    BY <1>13 DEF Continue, Go
  <2>2. call'[p] = c
    BY <1>1, <2>1
  <2>3. c.at = "running" /\ c.phase = call[p].phase /\ c.batch = call[p].batch
    BY <1>1 DEF CallShape
  <2>. HIDE DEF c
  <2>4. CallHolds(call'[p], branch')
    BY <1>2, <2>1, <2>2, <2>3 DEF CallHolds
  <2>5. ASSUME NEW at, NEW out \in Seq(Input), NEW via, Start(p, at, out, via)
        PROVE  run'.out = out /\ run'.saving = None
    BY <2>5 DEF Start, NoRun
  <2>6. \/ Start(p, "prompt", <<>>, "prompt") /\ UNCHANGED <<steerQ, followQ>>
        \/ /\ steerQ # <<>> /\ Start(p, "ask", <<Head(steerQ)>>, "steer")
           /\ steerQ' = Tail(steerQ) /\ UNCHANGED followQ
        \/ /\ followQ # <<>> /\ Start(p, "prompt", <<Head(followQ)>>, "followUp")
           /\ followQ' = Tail(followQ) /\ UNCHANGED steerQ
    BY <1>13 DEF Continue, NothingToSend, HasQueued
  <2>7. {steerQ', followQ', run'.out} \subseteq Seq(Input) /\ run'.saving = None
    BY <1>2, <1>3, <2>5, <2>6, TakingInput
  <2>. QED
    BY <1>2, <2>1, <2>4, <2>7 DEF Shaped
<1>14. ASSUME NEW c, call' = [call EXCEPT ![p] = c], c.batch = <<>>, c.at \in {"idle", "settling"},
              UNCHANGED <<steerQ, followQ, run, nextId, nextTurn>>, messages' = messages, branch' = branch
       PROVE  Shaped(p)
  BY <1>1, <1>2, <1>3, <1>4, <1>14 DEF CallHolds
<1>15. ASSUME \/ call' = [call EXCEPT ![p] = NoCall]
              \/ call' = [call EXCEPT ![p] = [NoCall EXCEPT !.at = "settling"]],
              UNCHANGED <<steerQ, followQ, run, nextId, nextTurn>>, messages' = messages, branch' = branch
       PROVE  Shaped(p)
  <2> DEFINE d == [NoCall EXCEPT !.at = "settling"]
  <2>1. NoCall.batch = <<>> /\ NoCall.at = "idle" /\ d.batch = <<>> /\ d.at = "settling"
    BY DEF NoCall
  <2>2. call' = [call EXCEPT ![p] = NoCall] \/ call' = [call EXCEPT ![p] = d]
    BY <1>15
  <2>. HIDE DEF d
  <2>. QED
    BY <1>14, <1>15, <2>1, <2>2
<1>16. messages \o bash = messages /\ branch \o bash = branch
  BY <1>2, NothingAdded
<1>17. CASE ContinueThrows(p)
  BY <1>15, <1>16, <1>17 DEF ContinueThrows, Flush
<1>18. CASE Settled(p) \/ Refused(p)
  BY <1>15, <1>18 DEF Settled, Refused, agentVars
<1>19. CASE BeforeDone(p)
  <2> DEFINE c == [NoCall EXCEPT !.at = "running", !.phase = "main"]
  <2>1. /\ call' = [call EXCEPT ![p] = c] /\ Start(p, "prompt", call[p].batch, "prompt")
        /\ UNCHANGED <<steerQ, followQ, nextId, nextTurn, messages, branch>>
    BY <1>1, <1>19 DEF BeforeDone, RunPrompt
  <2>2. run'.out = call[p].batch /\ run'.saving = None
    BY <2>1 DEF Start, NoRun
  <2>3. c.batch = <<>> /\ c.at = "running" /\ c.phase = "main"
    BY DEF NoCall
  <2>. HIDE DEF c
  <2>4. call'[p] = c
    BY <1>1, <2>1
  <2>5. CallHolds(call'[p], branch')
    BY <1>3, <2>3, <2>4 DEF CallHolds
  <2>. QED
    BY <1>2, <2>1, <2>2, <2>5 DEF Shaped
<1>. QED
  BY <1>5, <1>6, <1>7, <1>9, <1>10, <1>11, <1>12, <1>13, <1>17, <1>18, <1>19 DEF CallStep

LEMMA CallEntered ==
    ASSUME NEW p, ControlInv(p), NEW c, call' = [call EXCEPT ![p] = c]
    PROVE  call'[p] = c
BY DEF ControlInv

LEMMA RunKeepsShape ==
    ASSUME NEW p, ControlInv(p), ShapeInv(p), AgentStep
    PROVE  Shaped(p)
<1>1. call = [q \in {p} |-> call[p]] /\ call[p] \in CallShape(call[p])
      /\ (run.at # "none" => run.by = p /\ call[p].at = "running")
  BY DEF ControlInv, Controlled
<1>2. CallHolds(call[p], branch) /\ branch \in Seq(EntryType) /\ KeepsOwn(branch)
      /\ run.saving \in Message \union {None}
  BY DEF ShapeInv, CallHolds
<1>3. CASE UNCHANGED <<call, branch>>
  BY <1>2, <1>3, RunShaped DEF Shaped
<1>4. CASE Save
  BY <1>1, <1>2, <1>4, MessageKeepsOwn, RunShaped DEF Save, ControlInv, Controlled, CallHolds, Shaped
<1>5. CASE RunEnds
  <2> DEFINE c == [call[p] EXCEPT !.at = "post"]
  <2>1. call' = [call EXCEPT ![p].at = "post"] /\ UNCHANGED branch /\ call[p].at = "running"
    BY <1>1, <1>5 DEF RunEnds, Ready
  <2>2. call'[p] = c
    BY <1>1, <2>1
  <2>3. c.at = "post" /\ c.batch = call[p].batch /\ c.phase = call[p].phase
    BY <1>1 DEF CallShape
  <2>. HIDE DEF c
  <2>4. CallHolds(call'[p], branch')
    BY <1>2, <2>1, <2>2, <2>3 DEF CallHolds
  <2>. QED
    BY <1>2, <2>1, <2>4, RunShaped DEF Shaped
<1>6. AgentStep => UNCHANGED <<call, branch>> \/ Save \/ RunEnds
  BY DEF AgentStep, Deliver, Respond, ToolDone, Poll, Produce
<1>. QED
  BY <1>3, <1>4, <1>5, <1>6

\* What an undisturbed session never does.
LEMMA NotDone ==
    ASSUME NEW p, ShapeInv(p)
    PROVE  ~Compact /\ ~Abort /\ ~SendCustom /\ ~RecordBash
<1>1. ~(compacts < scenario.compacts) /\ ~(aborts < scenario.aborts)
  BY DEF ShapeInv, Setting, Undisturbed
<1>2. "custom" \notin scenario.ways /\ "bash" \notin scenario.ways
  BY DEF ShapeInv, Setting, Undisturbed
<1>. QED
  BY <1>1, <1>2 DEF Compact, Abort, SendCustom, RecordBash, Send

LEMMA ApplicationKeepsShape ==
    ASSUME NEW p, Callers = {p}, ControlInv(p), ShapeInv(p), Application
    PROVE  Shaped(p)
<1>1. call = [q \in {p} |-> call[p]] /\ (call[p].at # "running" => run.at = "none")
  BY DEF ControlInv, Controlled
<1>2. /\ nextId \in Nat /\ messages \in Seq(EntryType) /\ branch \in Seq(EntryType)
      /\ steerQ \in Seq(Input) /\ followQ \in Seq(Input) /\ nextTurn \in Seq(Input)
      /\ run.out \in Seq(Input) /\ run.saving \in Message \union {None} /\ bash = <<>>
      /\ CallHolds(call[p], branch) /\ KeepsOwn(branch)
  BY DEF ShapeInv, Setting, CallHolds
<1>3. UserMsg(nextId) \in Input /\ OtherMsg(nextId, "custom") \in Input
  BY <1>2, NewInput
<1>4. <<>> \in Seq(Input) /\ <<UserMsg(nextId)>> \in Seq(Input)
      /\ <<OtherMsg(nextId, "custom")>> \in Seq(Input) /\ nextId + 1 \in Nat
  BY <1>2, <1>3
<1>5. ~Compact /\ ~Abort /\ ~SendCustom /\ ~RecordBash
  BY NotDone
<1>6. ASSUME NEW m, NEW kind, Send(kind, m)
      PROVE  nextId' \in Nat
  BY <1>4, <1>6 DEF Send, NewId
<1>7. CASE Prompt(p)
  <2> DEFINE c == [NoCall EXCEPT !.at = "auth", !.batch = <<UserMsg(nextId)>>]
  <2>1. /\ call' = [call EXCEPT ![p] = c] /\ UNCHANGED <<steerQ, followQ, run, nextTurn>>
        /\ messages' = messages \o bash /\ branch' = branch \o bash /\ Send("prompt", UserMsg(nextId))
    BY <1>7 DEF Prompt, Flush
  <2>2. messages' = messages /\ branch' = branch
    BY <1>2, <2>1, NothingAdded
  <2>3. c.at = "auth" /\ c.phase = "check" /\ c.batch = <<UserMsg(nextId)>> /\ c.batch # <<>>
    BY DEF NoCall
  <2>. HIDE DEF c
  <2>4. call'[p] = c
    BY <2>1, CallEntered
  <2>5. CallHolds(call'[p], branch')
    BY <1>4, <2>3, <2>4 DEF CallHolds
  <2>. QED
    BY <1>2, <1>6, <2>1, <2>2, <2>5 DEF Shaped
<1>8. CASE SendTurn(p)
  <2> DEFINE c == [NoCall EXCEPT !.at = "running", !.phase = "main"]
  <2>1. /\ call' = [call EXCEPT ![p] = c] /\ Start(p, "prompt", <<OtherMsg(nextId, "custom")>>, "prompt")
        /\ nextId' = nextId + 1 /\ UNCHANGED <<steerQ, followQ, nextTurn, messages, branch>>
    BY <1>1, <1>8 DEF SendTurn, RunPrompt, NewId
  <2>2. run'.out = <<OtherMsg(nextId, "custom")>> /\ run'.saving = None
    BY <2>1 DEF Start, NoRun
  <2>3. c.batch = <<>> /\ c.at = "running" /\ c.phase = "main"
    BY DEF NoCall
  <2>. HIDE DEF c
  <2>4. call'[p] = c
    BY <2>1, CallEntered
  <2>5. CallHolds(call'[p], branch')
    BY <1>4, <2>3, <2>4 DEF CallHolds
  <2>. QED
    BY <1>2, <1>4, <2>1, <2>2, <2>5 DEF Shaped
<1>9. ASSUME UNCHANGED <<messages, branch, run, call>>, nextId' \in Nat, steerQ' \in Seq(Input),
             followQ' \in Seq(Input), nextTurn' \in Seq(Input)
      PROVE  Shaped(p)
  BY <1>2, <1>9 DEF Shaped
<1>10. CASE Steer
  BY <1>2, <1>3, <1>6, <1>9, <1>10, TakingInput DEF Steer
<1>11. CASE FollowUp
  BY <1>2, <1>3, <1>6, <1>9, <1>11, TakingInput DEF FollowUp
<1>12. CASE SendNextTurn
  BY <1>2, <1>3, <1>6, <1>9, <1>12, TakingInput DEF SendNextTurn, agentVars
<1>13. CASE ClearQueue
  BY <1>2, <1>4, <1>9, <1>13 DEF ClearQueue
<1>. QED
  BY <1>5, <1>7, <1>8, <1>10, <1>11, <1>12, <1>13 DEF Application

LEMMA ShapeStep ==
    ASSUME NEW p, Callers = {p}, ControlInv(p), ShapeInv(p), [Next]_vars
    PROVE  ShapeInv(p)'
<1>1. Setting'
  BY SettingKept DEF ShapeInv
<1>2. Shaped(p)
  <2>1. CASE UNCHANGED vars
    BY <2>1 DEF vars, agentVars, ShapeInv, Shaped, CallHolds
  <2>2. CASE Next
    <3>1. ~CompStep
      BY DEF ShapeInv, Setting, NoComp, CompStep, CompactPrepare, CompactDone
    <3>. QED
      BY <2>2, <3>1, RunKeepsShape, CallShaped, ApplicationKeepsShape DEF Next
  <2>. QED
    BY <2>1, <2>2
<1>. QED
  BY <1>1, <1>2 DEF ShapeInv, Shaped, CallHolds

LEMMA ShapeInit ==
    ASSUME NEW p, Callers = {p}, Init, Undisturbed
    PROVE  ShapeInv(p)
<1>1. <<>> \in Seq(Input) /\ <<>> \in Seq(EntryType) /\ DOMAIN <<>> = {}
  OBVIOUS
<1>2. call[p] = NoCall /\ run = NoRun
  BY DEF Init
<1>3. call[p].batch = <<>> /\ call[p].at = "idle" /\ run.out = <<>> /\ run.saving = None
  BY <1>2 DEF NoCall, NoRun
<1>4. Setting
  BY DEF Init, Setting
<1>5. KeepsOwn(<<>>)
  BY <1>1 DEF KeepsOwn
<1>6. nextId \in Nat /\ messages = <<>> /\ branch = <<>> /\ steerQ = <<>> /\ followQ = <<>> /\ nextTurn = <<>>
  BY DEF Init
<1>. QED
  BY <1>1, <1>3, <1>4, <1>5, <1>6 DEF ShapeInv

(***************************************************************************)
(* Retries are bounded: replies and where they end                         *)
(***************************************************************************)
Ends(s, m) == s # <<>> /\ s[Len(s)] = m

\* A reply is in the transcript when it is saved, and the last one that was saved,
\* until a finished run is looked at, ends the branch; a failed one ends the
\* transcript too, and its run.
ReplyInv(p) ==
    /\ run.saving # None =>
         Ends(messages, run.saving) /\ (IsKind(run.saving, ErrorKinds) => run.at = "end")
    /\ run.at \in {"stopped", "end"} => run.out = <<>> /\ (run.saving = None \/ IsAssistant(run.saving))
    /\ last # None =>
         /\ last \in Message /\ IsAssistant(last)
         /\ run.at = "none" => call[p].at = "post"
         /\ run.at \in {"none", "stopped", "end"} /\ run.saving = None => Ends(branch, last)
         /\ IsKind(last, ErrorKinds) =>
              run.at \in {"none", "end"} /\ run.saving = None /\ Ends(messages, last)

LEMMA RunReplies ==
    ASSUME NEW p, Callers = {p}, ControlInv(p), ShapeInv(p), ReplyInv(p), AgentStep
    PROVE  ReplyInv(p)'
<1>1. /\ run \in RunShape(run) /\ connected = TRUE
      /\ run.at = "none" => run.out = <<>> /\ run.saving = None
      /\ run.at # "none" => run.by = p
      /\ call = [q \in {p} |-> call[p]]
      /\ messages \in Seq(EntryType) /\ branch \in Seq(EntryType)
      /\ run.out \in Seq(Input) /\ run.saving \in Message \union {None} /\ nextId \in Nat
  BY DEF ControlInv, Controlled, ShapeInv, Setting
<1>2. ASSUME NEW s \in Seq(EntryType), NEW m \in Message
      PROVE  Ends(Append(s, m), m)
  BY <1>2, Longer, InputIsMessage DEF Ends
<1>3. \A m \in Input : m \in Message /\ ~IsAssistant(m) /\ m # None
  BY MessageIsSomething DEF Input
<1>4. CASE Deliver
  <2> DEFINE m == Head(run.out)
  <2>1. m \in Input /\ run.at \notin {"none", "stopped", "end"}
    BY <1>1, <1>4, TakingInput DEF Deliver, ReplyInv
  <2>2. /\ run' = [run EXCEPT !.out = Tail(@), !.saving = m]
        /\ messages' = Append(messages, m) /\ UNCHANGED <<branch, last, call>>
        /\ run.out # <<>> /\ run.saving = None
    BY <1>1, <1>4 DEF Deliver
  <2>. HIDE DEF m
  <2>3. run'.saving = m /\ run'.at = run.at
    BY <1>1, <2>2 DEF RunShape
  <2>4. Ends(messages', m) /\ ~IsKind(m, ErrorKinds)
    BY <1>1, <1>2, <1>3, <2>1, <2>2 DEF IsKind
  <2>5. ~(last # None /\ IsKind(last, ErrorKinds))
    BY <2>1 DEF ReplyInv
  <2>. QED
    BY <2>1, <2>2, <2>3, <2>4, <2>5 DEF ReplyInv
<1>5. CASE Save
  <2> DEFINE m == run.saving
  <2>1. /\ m \in Message /\ run' = [run EXCEPT !.saving = None] /\ branch' = Append(branch, m)
        /\ UNCHANGED <<messages, call>> /\ last' = IF IsAssistant(m) THEN m ELSE last
        /\ run.at # "none" /\ run.saving # None
    BY <1>1, <1>5 DEF Save, flagVars
  <2>2. Ends(branch', m) /\ m # None
    BY <1>1, <1>2, <2>1, MessageIsSomething
  <2>3. run'.saving = None /\ run'.at = run.at /\ run'.out = run.out
    BY <1>1, <2>1 DEF RunShape
  <2>. HIDE DEF m
  <2>4. CASE IsAssistant(m)
    BY <2>1, <2>2, <2>3, <2>4 DEF ReplyInv, m
  <2>5. CASE ~IsAssistant(m)
    BY <2>1, <2>3, <2>5 DEF ReplyInv, IsKind, m
  <2>. QED
    BY <2>4, <2>5
<1>6. ASSUME NEW m \in Message, NEW at \in RunPlaces \ {"none"}, Produce(m, at), Ready({"ask", "first", "tools"}),
             IsAssistant(m) \/ at = "answered", IsKind(m, ErrorKinds) => at = "end"
      PROVE  ReplyInv(p)'
  BY <1>1, <1>2, <1>6, MessageIsSomething DEF Produce, Ready, flagVars, RunShape, ReplyInv
<1>7. CASE Respond
  <2>1. PICK kind : /\ kind \in {"stop", "aborted"} \union scenario.kinds
                    /\ Produce(AssistantMsg(nextId, kind), AfterReply(kind))
    BY <1>7 DEF Respond
  <2>2. kind \in AllReplies
    BY <2>1, SessionAssumption DEF ShapeInv, Setting, AllReplies
  <2> DEFINE m == AssistantMsg(nextId, kind)
  <2>3. m \in Message /\ IsAssistant(m) /\ m.is = kind
    BY <1>1, <2>2, NewReply
  <2>. HIDE DEF m
  <2>4. AfterReply(kind) \in RunPlaces \ {"none"} /\ (IsKind(m, ErrorKinds) => AfterReply(kind) = "end")
    BY <2>3 DEF AfterReply, RunPlaces, IsKind, ErrorKinds
  <2>5. Ready({"ask", "first", "tools"})
    BY <1>7 DEF Respond, Ready
  <2>. QED
    BY <1>6, <2>1, <2>3, <2>4, <2>5 DEF m
<1>8. CASE ToolDone
  <2>1. Ready({"ask", "first", "tools"})
    BY <1>8 DEF ToolDone, Ready
  <2> DEFINE m == OtherMsg(nextId, "toolResult")
  <2>2. m \in Message /\ ~IsKind(m, ErrorKinds) /\ Produce(m, "answered")
    BY <1>1, <1>8, NewResult DEF IsKind, ToolDone
  <2>3. "answered" \in RunPlaces \ {"none"}
    BY DEF RunPlaces
  <2>. HIDE DEF m
  <2>. QED
    BY <1>6, <2>1, <2>2, <2>3
<1>9. CASE Poll
  BY <1>1, <1>9 DEF Poll, Ready, flagVars, ReplyInv, FromSteering, FromFollowUps, RunShape
<1>10. CASE RunEnds
  <2>1. /\ run.at = "end" /\ run.out = <<>> /\ run.saving = None /\ run' = NoRun
        /\ UNCHANGED <<messages, branch, last>> /\ call' = [call EXCEPT ![p].at = "post"]
    BY <1>1, <1>10 DEF RunEnds, Ready, flagVars
  <2>2. call'[p].at = "post"
    BY <1>1, <2>1 DEF ControlInv, Controlled, CallShape
  <2>3. run'.at = "none" /\ run'.out = <<>> /\ run'.saving = None
    BY <2>1 DEF NoRun
  <2>. QED
    BY <2>1, <2>2, <2>3 DEF ReplyInv
<1>. QED
  BY <1>4, <1>5, <1>7, <1>8, <1>9, <1>10 DEF AgentStep

LEMMA OtherReplies ==
    ASSUME NEW p, Callers = {p}, ControlInv(p), ShapeInv(p), ReplyInv(p), CallStep(p) \/ Application
    PROVE  ReplyInv(p)'
<1>1. /\ run.at = "none" => run.out = <<>> /\ run.saving = None
      /\ call[p].at # "running" => run.at = "none"
      /\ call = [q \in {p} |-> call[p]] /\ call[p].at # "cancelled"
  BY DEF ControlInv, Controlled, ShapeInv
<1>2. ASSUME UNCHANGED run, run.at = "none", last' = None
      PROVE  ReplyInv(p)'
  BY <1>1, <1>2 DEF ReplyInv
<1>3. ASSUME NEW at \in {"prompt", "ask"}, NEW out, NEW via, Start(p, at, out, via), UNCHANGED last,
             run.at = "none", call[p].at # "post"
      PROVE  ReplyInv(p)'
  BY <1>3 DEF Start, NoRun, ReplyInv
<1>4. CASE PostRun(p)
  BY <1>1, <1>2, <1>4 DEF PostRun
<1>5. ASSUME UNCHANGED <<run, last>>, call[p].at \notin {"post", "running"}
      PROVE  ReplyInv(p)'
  BY <1>1, <1>2, <1>5 DEF ReplyInv
<1>6. CASE Wake(p) \/ Prepare(p) \/ SummaryFails(p) \/ Compacted(p) \/ ContinueThrows(p)
           \/ Settled(p) \/ Refused(p) \/ Accepted(p) \/ Prompt(p)
  <2>1. UNCHANGED <<run, last>>
    BY <1>6 DEF Wake, Prepare, SummaryFails, Compacted, ContinueThrows, Settled, Refused, Accepted, Prompt,
                flagVars, agentVars
  <2>2. call[p].at \notin {"post", "running"}
    BY <1>6 DEF Wake, Prepare, SummaryFails, Compacted, ContinueThrows, Settled, Refused, Accepted, Prompt
  <2>. QED
    BY <1>5, <2>1, <2>2
<1>7. CASE Continue(p)
  BY <1>3, <1>7 DEF Continue, flagVars
<1>8. CASE BeforeDone(p)
  BY <1>1, <1>3, <1>8 DEF BeforeDone, RunPrompt, flagVars
<1>9. CASE SendTurn(p)
  BY <1>1, <1>3, <1>9 DEF SendTurn, RunPrompt, flagVars
<1>10. ASSUME UNCHANGED <<messages, branch, run, call, last>>
       PROVE  ReplyInv(p)'
  BY <1>10 DEF ReplyInv
<1>11. CASE Steer \/ FollowUp \/ SendNextTurn \/ ClearQueue
  BY <1>10, <1>11 DEF Steer, FollowUp, SendNextTurn, ClearQueue, agentVars, flagVars
<1>12. CallStep(p) => ~RetryCancelled(p)
  BY <1>1 DEF RetryCancelled
<1>13. ~Compact /\ ~Abort /\ ~SendCustom /\ ~RecordBash
  BY NotDone
<1>. QED
  BY <1>4, <1>6, <1>7, <1>8, <1>9, <1>11, <1>12, <1>13 DEF CallStep, Application

LEMMA ReplyStep ==
    ASSUME NEW p, Callers = {p}, ControlInv(p), ShapeInv(p), ReplyInv(p), [Next]_vars
    PROVE  ReplyInv(p)'
<1>1. CASE UNCHANGED vars
  BY <1>1 DEF vars, agentVars, flagVars, ReplyInv
<1>2. CASE Next
  <2>1. ~CompStep
    BY DEF ShapeInv, Setting, NoComp, CompStep, CompactPrepare, CompactDone
  <2>. QED
    BY <1>2, <2>1, RunReplies, OtherReplies DEF Next
<1>. QED
  BY <1>1, <1>2

(***************************************************************************)
(* Retries are bounded: errors in a row                                    *)
(***************************************************************************)
IsError(m) == IsKind(m, {"error"})

\* The entries s end with at most n errors.
AtMost(n, s) == n < Len(s) => \E j \in (Len(s) - n)..Len(s) : ~IsError(s[j])

Few(s) ==
    \A i \in DOMAIN s :
        i + MaxRetries + 1 \in DOMAIN s => \E j \in i..(i + MaxRetries + 1) : ~IsError(s[j])

LEMMA NoneAdded ==
    ASSUME NEW s \in Seq(EntryType), NEW e \in EntryType, ~IsError(e), NEW n \in Nat
    PROVE  AtMost(n, Append(s, e))
<1> DEFINE r == Append(s, e)
<1>1. Len(r) \in Nat /\ r[Len(r)] = e
  BY Longer
<1>. HIDE DEF r
<1>2. Len(r) \in (Len(r) - n)..Len(r)
  BY <1>1
<1>3. AtMost(n, r)
  BY <1>1, <1>2 DEF AtMost
<1>. QED
  BY <1>3 DEF r

LEMMA OneAdded ==
    ASSUME NEW s \in Seq(EntryType), NEW e \in EntryType, NEW n \in Nat, AtMost(n, s)
    PROVE  AtMost(n + 1, Append(s, e))
<1> DEFINE r == Append(s, e)
<1>1. /\ Len(s) \in Nat /\ Len(r) = Len(s) + 1 /\ DOMAIN s = 1..Len(s)
      /\ \A i \in DOMAIN s : r[i] = s[i]
  BY Longer
<1>. HIDE DEF r
<1>2. SUFFICES ASSUME n + 1 < Len(r)
               PROVE  \E j \in (Len(r) - (n + 1))..Len(r) : ~IsError(r[j])
  BY <1>1 DEF AtMost, r
<1>3. n < Len(s)
  BY <1>1, <1>2
<1>4. PICK j \in (Len(s) - n)..Len(s) : ~IsError(s[j])
  BY <1>3 DEF AtMost
<1>5. j \in DOMAIN s /\ j \in (Len(r) - (n + 1))..Len(r)
  BY <1>1, <1>3
<1>. QED
  BY <1>1, <1>4, <1>5

LEMMA MoreAllowed ==
    ASSUME NEW s \in Seq(EntryType), NEW n \in Nat, NEW k \in Nat, n <= k, AtMost(n, s)
    PROVE  AtMost(k, s)
<1>1. SUFFICES ASSUME k < Len(s)
               PROVE  \E j \in (Len(s) - k)..Len(s) : ~IsError(s[j])
  BY DEF AtMost
<1>2. Len(s) \in Nat
  OBVIOUS
<1>3. PICK j \in (Len(s) - n)..Len(s) : ~IsError(s[j])
  BY <1>1, <1>2 DEF AtMost
<1>4. j \in (Len(s) - k)..Len(s)
  BY <1>2
<1>. QED
  BY <1>3, <1>4

LEMMA FewAdded ==
    ASSUME NEW s \in Seq(EntryType), NEW e \in EntryType, Few(s),
           ~IsError(e) \/ \E n \in 0..MaxRetries : AtMost(n, s)
    PROVE  Few(Append(s, e))
<1> DEFINE r == Append(s, e)
           M == MaxRetries
<1>0. M \in Nat
  BY SessionAssumption
<1>1. /\ Len(s) \in Nat /\ Len(r) = Len(s) + 1 /\ DOMAIN s = 1..Len(s) /\ DOMAIN r = 1..(Len(s) + 1)
      /\ \A i \in DOMAIN s : r[i] = s[i]
      /\ r[Len(s) + 1] = e
  BY Longer
<1>. HIDE DEF r, M
<1>2. SUFFICES ASSUME NEW i \in DOMAIN r, i + M + 1 \in DOMAIN r
               PROVE  \E j \in i..(i + M + 1) : ~IsError(r[j])
  BY DEF Few, r, M
<1>3. i \in Nat /\ i >= 1 /\ i + M + 1 <= Len(s) + 1
  BY <1>0, <1>1, <1>2
<1>4. CASE i + M + 1 <= Len(s)
  <2>1. i \in DOMAIN s /\ i + M + 1 \in DOMAIN s
    BY <1>0, <1>1, <1>3, <1>4
  <2>2. PICK j \in i..(i + M + 1) : ~IsError(s[j])
    BY <2>1 DEF Few, M
  <2>3. j \in DOMAIN s
    BY <1>0, <1>1, <1>3, <1>4
  <2>. QED
    BY <1>1, <2>2, <2>3
<1>5. CASE i + M + 1 = Len(s) + 1
  <2>1. CASE ~IsError(e)
    BY <1>0, <1>1, <1>3, <1>5, <2>1
  <2>2. CASE \E n \in 0..MaxRetries : AtMost(n, s)
    <3>1. PICK n \in 0..M : AtMost(n, s)
      BY <2>2 DEF M
    <3>2. n < Len(s)
      BY <1>0, <1>1, <1>3, <1>5
    <3>3. PICK j \in (Len(s) - n)..Len(s) : ~IsError(s[j])
      BY <3>1, <3>2 DEF AtMost
    <3>4. j \in DOMAIN s /\ j \in i..(i + M + 1)
      BY <1>0, <1>1, <1>3, <1>5, <3>2
    <3>. QED
      BY <1>1, <3>3, <3>4
  <2>. QED
    BY <2>1, <2>2
<1>. QED
  BY <1>0, <1>1, <1>3, <1>4, <1>5

\* Something that is no error is saved before the model is asked again.
Heard == run.out # <<>> \/ (run.saving # None /\ ~IsError(run.saving))
Covered(p) ==
    IF run.at # "none" THEN Heard
    ELSE /\ call[p].at \notin {"post", "sleeping"}
         /\ call[p].at \in {"continue", "prepare", "summarizing"} /\ call[p].phase # "check"
              => LastIs(messages, IsAssistant)

\* The branch ends with as many errors as were retried, and the one that has not
\* been looked at; where the count began again after one error too many,
\* something else comes first.
ErrorsInv(p) ==
    /\ retries \in 0..MaxRetries
    /\ IF last # None /\ IsError(last) THEN AtMost(retries + 1, branch)
       ELSE AtMost(retries, branch) \/ (AtMost(MaxRetries + 1, branch) /\ Covered(p))
    /\ Few(branch)

LEMMA ErrorsKept ==
    ASSUME NEW p, ErrorsInv(p), UNCHANGED <<retries, branch, last>>,
           last = None \/ ~IsError(last), Covered(p) => Covered(p)'
    PROVE  ErrorsInv(p)'
BY DEF ErrorsInv

LEMMA ErrorIsFailed ==
    ASSUME NEW m, IsError(m)
    PROVE  IsKind(m, ErrorKinds) /\ IsAssistant(m)
BY DEF IsError, IsKind, ErrorKinds

LEMMA RunErrors ==
    ASSUME NEW p, Callers = {p}, ControlInv(p), ShapeInv(p), ReplyInv(p), ErrorsInv(p), AgentStep
    PROVE  ErrorsInv(p)'
<1>1. /\ run \in RunShape(run) /\ connected = TRUE
      /\ run.at = "none" => run.out = <<>> /\ run.saving = None
      /\ messages \in Seq(EntryType) /\ branch \in Seq(EntryType)
      /\ run.out \in Seq(Input) /\ run.saving \in Message \union {None}
  BY DEF ControlInv, Controlled, ShapeInv, Setting
<1>2. last # None /\ IsError(last) => run.at \in {"none", "end"} /\ run.saving = None /\ run.out = <<>>
  BY <1>1, ErrorIsFailed DEF ReplyInv
<1>3. MaxRetries \in Nat
  BY SessionAssumption
<1>4. CASE Deliver
  <2> DEFINE m == Head(run.out)
  <2>1. /\ run' = [run EXCEPT !.out = Tail(@), !.saving = m]
        /\ UNCHANGED <<branch, last, retries, call>> /\ run.out # <<>> /\ run.at # "none"
    BY <1>1, <1>4 DEF Deliver
  <2>2. m \in Message /\ m # None /\ ~IsError(m)
    <3>1. m \in Input
      BY <1>1, <2>1, TakingInput
    <3>. QED
      BY <3>1, MessageIsSomething DEF Input, IsError, IsKind
  <2>. HIDE DEF m
  <2>3. run'.saving = m /\ run'.at = run.at
    BY <1>1, <2>1 DEF RunShape
  <2>4. Covered(p)'
    BY <2>1, <2>2, <2>3 DEF Covered, Heard
  <2>5. last = None \/ ~IsError(last)
    BY <1>2, <2>1
  <2>. QED
    BY <2>1, <2>4, <2>5, ErrorsKept
<1>5. CASE Save
  <2> DEFINE m == run.saving
  <2>1. /\ m \in Message /\ branch' = Append(branch, m)
        /\ run.saving # None /\ run.at # "none" /\ (last = None \/ ~IsError(last))
    BY <1>1, <1>2, <1>5 DEF Save
  <2>2. IF IsAssistant(m) THEN last' = m /\ (m.is \in ErrorKinds \/ retries' = 0) /\ (m.is \in ErrorKinds => retries' = retries)
        ELSE UNCHANGED <<last, retries>>
    BY <1>5 DEF Save, flagVars
  <2>3. m \in EntryType
    BY <2>1, InputIsMessage
  <2>4. retries \in 0..MaxRetries /\ Few(branch)
    BY DEF ErrorsInv
  <2>. HIDE DEF m
  <2>5. CASE IsError(m)
    <3>1. run.out = <<>>
      BY <2>1, <2>5, ErrorIsFailed DEF ReplyInv, m
    <3>2. ~Heard
      BY <2>5, <3>1 DEF Heard, m
    <3>3. AtMost(retries, branch)
      BY <2>1, <3>2 DEF ErrorsInv, Covered
    <3>4. AtMost(retries + 1, branch')
      BY <1>1, <2>1, <2>3, <2>4, <3>3, OneAdded
    <3>5. last' = m /\ retries' = retries
      BY <2>2, <2>5 DEF IsError, IsKind, ErrorKinds
    <3>6. Few(branch')
      BY <1>1, <2>1, <2>3, <2>4, <3>3, FewAdded
    <3>7. m # None
      BY <2>1 DEF m
    <3>. QED
      BY <2>4, <2>5, <3>4, <3>5, <3>6, <3>7 DEF ErrorsInv
  <2>6. CASE ~IsError(m)
    <3>1. retries' \in 0..MaxRetries /\ (last' = None \/ ~IsError(last'))
      BY <1>3, <2>1, <2>2, <2>4, <2>6
    <3>2. AtMost(retries', branch')
      BY <1>1, <2>1, <2>3, <2>6, <3>1, NoneAdded
    <3>3. Few(branch')
      BY <1>1, <2>1, <2>3, <2>4, <2>6, FewAdded
    <3>. QED
      BY <3>1, <3>2, <3>3 DEF ErrorsInv
  <2>. QED
    BY <2>5, <2>6
<1>6. ASSUME UNCHANGED <<branch, last, retries>>, run.out = <<>>, run.saving = None, run.at # "none"
      PROVE  ErrorsInv(p)'
  <2>1. ~Covered(p)
    BY <1>6 DEF Covered, Heard
  <2>. QED
    BY <1>6, <2>1 DEF ErrorsInv
<1>7. CASE Respond \/ ToolDone \/ Poll \/ RunEnds
  BY <1>6, <1>7 DEF Respond, ToolDone, Poll, RunEnds, Ready, Produce, flagVars
<1>. QED
  BY <1>4, <1>5, <1>7 DEF AgentStep

\* What the steps of a call and of the application may find.
LEMMA AtRest ==
    ASSUME NEW p, ControlInv(p), ShapeInv(p), ReplyInv(p), call[p].at # "running"
    PROVE  /\ run.at = "none" /\ run.out = <<>> /\ run.saving = None
           /\ call[p].at # "post" => last = None
BY DEF ControlInv, Controlled, ReplyInv

LEMMA PostRunErrors ==
    ASSUME NEW p, ControlInv(p), ShapeInv(p), ReplyInv(p), ErrorsInv(p), PostRun(p)
    PROVE  ErrorsInv(p)'
<1>1. /\ call[p].at = "post" /\ last' = None /\ UNCHANGED run /\ run.at = "none" /\ run.saving = None
      /\ bash = <<>> /\ messages \in Seq(EntryType) /\ branch \in Seq(EntryType)
  BY AtRest DEF PostRun, ShapeInv, Setting
<1>2. MaxRetries \in Nat /\ retries \in 0..MaxRetries /\ Few(branch)
  BY SessionAssumption DEF ErrorsInv
<1>3. ~Covered(p)
  BY <1>1 DEF Covered
<1>4. CASE last = None
  BY <1>1, <1>3, <1>4, DecisionMade DEF PostRun, ErrorsInv
<1>5. CASE last # None /\ IsError(last) /\ retries < MaxRetries
  BY <1>1, <1>2, <1>5 DEF PostRun, IsError, ErrorsInv
<1>6. CASE last # None /\ ~(IsError(last) /\ retries < MaxRetries)
  <2>1. /\ retries' = IF last.is \in ErrorKinds THEN 0 ELSE retries
        /\ Check(p, last, TRUE)
    BY <1>6 DEF PostRun, IsError
  <2>2. branch' = branch /\ CheckMakes(p, last, TRUE)
    BY <2>1, CheckMade
  <2>3. CASE IsError(last)
    <3>1. retries = MaxRetries /\ AtMost(MaxRetries + 1, branch)
      BY <1>2, <1>6, <2>3 DEF ErrorsInv
    <3>2. retries' = 0 /\ last.is = "error"
      BY <2>1, <2>3 DEF IsError, IsKind, ErrorKinds
    <3>3. "recover" \notin Outcomes(last, TRUE)
      BY <3>2 DEF Outcomes
    <3>4. messages' = messages /\ call'[p].at \notin {"post", "sleeping"}
      BY <2>2, <3>3 DEF CheckMakes, Decision
    <3>5. LastIs(messages, IsAssistant)
      BY <1>6, <2>3, ErrorIsFailed DEF ReplyInv, Ends, LastIs
    <3>6. Covered(p)'
      BY <1>1, <3>4, <3>5 DEF Covered
    <3>. QED
      BY <1>1, <1>2, <2>2, <3>1, <3>2, <3>6 DEF ErrorsInv
  <2>4. CASE ~IsError(last)
    BY <1>1, <1>2, <1>3, <1>6, <2>1, <2>2, <2>4 DEF ErrorsInv, ReplyInv, AtMost, Ends
  <2>. QED
    BY <2>3, <2>4
<1>. QED
  BY <1>4, <1>5, <1>6

LEMMA OtherErrors ==
    ASSUME NEW p, Callers = {p}, ControlInv(p), ShapeInv(p), ReplyInv(p), ErrorsInv(p),
           CallStep(p) \/ Application
    PROVE  ErrorsInv(p)'
<1>1. /\ call = [q \in {p} |-> call[p]] /\ call[p] \in CallShape(call[p]) /\ call[p].at # "cancelled"
      /\ call[p].at \in InRun => call[p].phase # "check"
      /\ call[p].at \in {"auth", "before"} => call[p].phase = "check"
      /\ bash = <<>> /\ messages \in Seq(EntryType) /\ branch \in Seq(EntryType)
      /\ nextId \in Nat
      /\ call[p].at = "summarizing" => call[p].cut \in IdsIn(branch)
  BY DEF ControlInv, Controlled, ShapeInv, Setting
<1>2. ASSUME UNCHANGED <<retries, branch, last>>, call[p].at \notin {"running", "post"},
             Covered(p) => Covered(p)'
      PROVE  ErrorsInv(p)'
  BY <1>2, AtRest, ErrorsKept
<1>3. messages \o bash = messages /\ branch \o bash = branch
  BY <1>1, NothingAdded
<1>4. CASE Wake(p)
  BY <1>1, <1>2, <1>4, DecisionMade, AtRest DEF Wake, flagVars, Covered
\* The agent goes on only after a run, with what ended its transcript.
<1>5. ASSUME DecideQueued(p), UNCHANGED <<run, retries, last>>,
             call[p].at \in {"auth", "prepare", "summarizing"}
      PROVE  ErrorsInv(p)'
  BY <1>1, <1>2, <1>5, DecisionQueued, AtRest DEF Covered, Decision
<1>6. CASE Prepare(p)
  <2>1. call[p].at = "prepare" /\ UNCHANGED <<run, retries, last>>
    BY <1>6 DEF Prepare, flagVars
  <2>2. ASSUME NEW cut, call' = [call EXCEPT ![p].at = "summarizing", ![p].cut = cut],
               UNCHANGED <<messages, branch>>
        PROVE  ErrorsInv(p)'
    <3> DEFINE c == [call[p] EXCEPT !.at = "summarizing", !.cut = cut]
    <3>1. call'[p] = c
      BY <1>1, <2>2
    <3>2. c.at = "summarizing" /\ c.phase = call[p].phase
      BY <1>1 DEF CallShape
    <3>. HIDE DEF c
    <3>3. Covered(p) => Covered(p)'
      BY <2>1, <2>2, <3>1, <3>2, AtRest DEF Covered
    <3>. QED
      BY <1>2, <2>1, <2>2, <3>3
  <2>3. DecideQueued(p) \/ \E cut \in Cuts(branch) :
           /\ call' = [call EXCEPT ![p].at = "summarizing", ![p].cut = cut]
           /\ UNCHANGED <<messages, branch, bash, nextTurn, active>>
    BY <1>6 DEF Prepare
  <2>. QED
    BY <1>5, <2>1, <2>2, <2>3
<1>7. CASE SummaryFails(p)
  BY <1>5, <1>7 DEF SummaryFails, flagVars
<1>8. CASE Compacted(p)
  <2> DEFINE e == Compaction(nextId, call[p].cut)
             context == IF call[p].recover THEN Strip(Context(Append(branch, e)), ErrorKinds)
                        ELSE Context(Append(branch, e))
  <2>1. /\ Decide(p, call[p].recover \/ HasQueued, context, Append(branch, e))
        /\ call[p].at = "summarizing" /\ UNCHANGED <<run, retries, last>>
    BY <1>8 DEF Compacted, flagVars
  <2>2. e \in EntryType /\ ~IsError(e)
    <3>1. e \in EntryType
      BY <1>1, <2>1, NewCompaction
    <3>. QED
      BY <3>1 DEF Compaction, IsError, IsKind, IsAssistant
  <2>3. Context(Append(branch, e)) \in Seq(EntryType)
    BY <1>1, <2>1, ContextIsList
  <2>. HIDE DEF e
  <2>4. context \in Seq(EntryType) /\ Append(branch, e) \in Seq(EntryType)
    BY <1>1, <2>2, <2>3, StripIsList
  <2>. HIDE DEF context
  <2>5. (call[p].recover \/ HasQueued) \in BOOLEAN
    OBVIOUS
  <2>6. branch' = Append(branch, e)
    BY <1>1, <2>1, <2>4, <2>5, DecisionMade
  <2>7. retries \in 0..MaxRetries /\ Few(branch) /\ last = None
    BY <2>1, AtRest DEF ErrorsInv
  <2>8. AtMost(retries, branch') /\ Few(branch')
    BY <1>1, <2>2, <2>6, <2>7, NoneAdded, FewAdded
  <2>. QED
    BY <2>1, <2>7, <2>8 DEF ErrorsInv
<1>9. CASE Accepted(p)
  <2>1. call[p].at = "auth" /\ UNCHANGED <<run, retries, last>>
        /\ (DecideQueued(p) \/ Check(p, LastAssistant(messages, {}), FALSE))
    BY <1>9 DEF Accepted, flagVars
  <2>2. CASE DecideQueued(p)
    BY <1>5, <2>1, <2>2
  <2>3. CASE Check(p, LastAssistant(messages, {}), FALSE)
    BY <1>1, <1>2, <2>1, <2>3, CheckMade, AtRest DEF CheckMakes, Decision, Covered
  <2>. QED
    BY <2>1, <2>2, <2>3
<1>10. ASSUME NEW at \in {"prompt", "ask"}, NEW out, NEW via, Start(p, at, out, via),
              UNCHANGED <<retries, branch, last>>, call[p].at \notin {"running", "post"},
              out # <<>> \/ ~Covered(p)
       PROVE  ErrorsInv(p)'
  BY <1>2, <1>10 DEF Start, NoRun, Covered, Heard
<1>11. <<Head(steerQ)>> # <<>> /\ <<Head(followQ)>> # <<>> /\ <<OtherMsg(nextId, "custom")>> # <<>>
  OBVIOUS
<1>12. CASE Continue(p)
  BY <1>1, <1>10, <1>11, <1>12, AtRest DEF Continue, flagVars, Covered, InRun
<1>13. CASE BeforeDone(p)
  BY <1>1, <1>10, <1>13, AtRest DEF BeforeDone, RunPrompt, flagVars, ShapeInv
<1>14. CASE SendTurn(p)
  BY <1>10, <1>11, <1>14, AtRest DEF SendTurn, RunPrompt, flagVars
<1>15. ASSUME NEW c, call' = [call EXCEPT ![p] = c], c.at \in {"idle", "settling", "auth"},
              UNCHANGED <<run, retries, branch, last>>, call[p].at \notin {"running", "post"}
       PROVE  ErrorsInv(p)'
  BY <1>2, <1>15, CallEntered, AtRest DEF Covered
<1>16. ASSUME \/ call' = [call EXCEPT ![p] = NoCall]
              \/ call' = [call EXCEPT ![p] = [NoCall EXCEPT !.at = "settling"]]
              \/ call' = [call EXCEPT ![p] = [NoCall EXCEPT !.at = "auth", !.batch = <<UserMsg(nextId)>>]],
              UNCHANGED <<run, retries, branch, last>>, call[p].at \notin {"running", "post"}
       PROVE  ErrorsInv(p)'
  <2> DEFINE c == [NoCall EXCEPT !.at = "settling"]
             d == [NoCall EXCEPT !.at = "auth", !.batch = <<UserMsg(nextId)>>]
  <2>1. NoCall.at = "idle" /\ c.at = "settling" /\ d.at = "auth"
    BY DEF NoCall
  <2>2. call' = [call EXCEPT ![p] = NoCall] \/ call' = [call EXCEPT ![p] = c]
        \/ call' = [call EXCEPT ![p] = d]
    BY <1>16
  <2>. HIDE DEF c, d
  <2>. QED
    BY <1>15, <1>16, <2>1, <2>2
<1>17. CASE ContinueThrows(p) \/ Settled(p) \/ Refused(p) \/ Prompt(p)
  BY <1>3, <1>16, <1>17 DEF ContinueThrows, Settled, Refused, Prompt, Flush, flagVars, agentVars
<1>18. CASE Steer \/ FollowUp \/ SendNextTurn \/ ClearQueue
  <2>1. UNCHANGED <<messages, branch, run, call, last, retries>>
    BY <1>18 DEF Steer, FollowUp, SendNextTurn, ClearQueue, agentVars, flagVars
  <2>. QED
    BY <2>1 DEF ErrorsInv, Covered, Heard
<1>19. CallStep(p) => ~RetryCancelled(p)
  BY <1>1 DEF RetryCancelled
<1>20. ~Compact /\ ~Abort /\ ~SendCustom /\ ~RecordBash
  BY NotDone
<1>. QED
  BY <1>4, <1>6, <1>7, <1>8, <1>9, <1>12, <1>13, <1>14, <1>17, <1>18, <1>19, <1>20, PostRunErrors
     DEF CallStep, Application

LEMMA ErrorsStep ==
    ASSUME NEW p, Callers = {p}, ControlInv(p), ShapeInv(p), ReplyInv(p), ErrorsInv(p), [Next]_vars
    PROVE  ErrorsInv(p)'
<1>1. CASE UNCHANGED vars
  BY <1>1 DEF vars, agentVars, flagVars, ErrorsInv, Covered, Heard
<1>2. CASE Next
  <2>1. ~CompStep
    BY DEF ShapeInv, Setting, NoComp, CompStep, CompactPrepare, CompactDone
  <2>. QED
    BY <1>2, <2>1, RunErrors, OtherErrors DEF Next
<1>. QED
  BY <1>1, <1>2

(***************************************************************************)
(* Retries are bounded: recoveries from an overflow                        *)
(***************************************************************************)
IsOverflow(m) == IsKind(m, {"overflow"})
Closing(m) == m.role = "user" \/ (IsAssistant(m) /\ m.is \notin ErrorKinds)
RecoversIn(s, i) == i > 1 /\ s[i].role = "compaction" /\ IsOverflow(s[i - 1])

\* The last recovery from an overflow is not closed yet.
OpenIn(s) == \E i \in DOMAIN s : RecoversIn(s, i) /\ \A k \in i..Len(s) : ~Closing(s[k])
Separated(s) ==
    \A i, j \in DOMAIN s : i < j /\ RecoversIn(s, i) /\ RecoversIn(s, j) => \E k \in i..j : Closing(s[k])

LEMMA SeparatedAdded ==
    ASSUME NEW s \in Seq(EntryType), NEW e \in EntryType, Separated(s),
           e.role = "compaction" /\ LastIs(s, IsOverflow) => ~OpenIn(s)
    PROVE  Separated(Append(s, e))
<1> DEFINE r == Append(s, e)
<1>1. /\ Len(s) \in Nat /\ Len(r) = Len(s) + 1 /\ DOMAIN s = 1..Len(s) /\ DOMAIN r = 1..(Len(s) + 1)
      /\ \A i \in DOMAIN s : r[i] = s[i]
      /\ r[Len(s) + 1] = e
  BY Longer
<1>. HIDE DEF r
<1>2. SUFFICES ASSUME NEW i \in DOMAIN r, NEW j \in DOMAIN r, i < j, RecoversIn(r, i), RecoversIn(r, j)
               PROVE  \E k \in i..j : Closing(r[k])
  BY DEF Separated, r
<1>3. i \in DOMAIN s /\ i - 1 \in DOMAIN s /\ RecoversIn(s, i)
  BY <1>1, <1>2 DEF RecoversIn
<1>4. CASE j \in DOMAIN s
  <2>1. j > 1 /\ j - 1 \in DOMAIN s
    BY <1>1, <1>2, <1>4 DEF RecoversIn
  <2>2. RecoversIn(s, j)
    BY <1>1, <1>2, <1>4, <2>1 DEF RecoversIn
  <2>3. PICK k \in i..j : Closing(s[k])
    BY <1>2, <1>3, <1>4, <2>2 DEF Separated
  <2>4. k \in DOMAIN s
    BY <1>1, <1>3, <1>4
  <2>. QED
    BY <1>1, <2>3, <2>4
<1>5. CASE j = Len(s) + 1
  <2>1. j - 1 = Len(s) /\ Len(s) \in DOMAIN s
    BY <1>1, <1>3, <1>5
  <2>2. e.role = "compaction" /\ IsOverflow(s[Len(s)])
    BY <1>1, <1>2, <1>5, <2>1 DEF RecoversIn
  <2>3. s # <<>>
    BY <2>1
  <2>4. ~OpenIn(s)
    BY <2>2, <2>3 DEF LastIs
  <2>5. PICK k \in i..Len(s) : Closing(s[k])
    BY <1>3, <2>4 DEF OpenIn
  <2>6. k \in DOMAIN s /\ k \in i..j
    BY <1>1, <1>3, <1>5
  <2>. QED
    BY <1>1, <2>5, <2>6
<1>. QED
  BY <1>1, <1>4, <1>5

LEMMA OpenAdded ==
    ASSUME NEW s \in Seq(EntryType), NEW e \in EntryType, OpenIn(Append(s, e))
    PROVE  ~Closing(e) /\ (OpenIn(s) \/ (e.role = "compaction" /\ LastIs(s, IsOverflow)))
<1> DEFINE r == Append(s, e)
<1>1. /\ Len(s) \in Nat /\ Len(r) = Len(s) + 1 /\ DOMAIN s = 1..Len(s) /\ DOMAIN r = 1..(Len(s) + 1)
      /\ \A i \in DOMAIN s : r[i] = s[i]
      /\ r[Len(s) + 1] = e
  BY Longer
<1>. HIDE DEF r
<1>2. PICK i \in DOMAIN r : RecoversIn(r, i) /\ \A k \in i..Len(r) : ~Closing(r[k])
  BY DEF OpenIn, r
<1>3. Len(r) \in i..Len(r)
  BY <1>1
<1>4. ~Closing(e)
  BY <1>1, <1>2, <1>3
<1>5. i > 1 /\ i - 1 \in DOMAIN s /\ r[i].role = "compaction" /\ IsOverflow(s[i - 1])
  BY <1>1, <1>2 DEF RecoversIn
<1>6. CASE i \in DOMAIN s
  <2>1. RecoversIn(s, i)
    BY <1>1, <1>5, <1>6 DEF RecoversIn
  <2>2. ASSUME NEW k \in i..Len(s)
        PROVE  ~Closing(s[k])
    BY <1>1, <1>2, <1>6
  <2>3. OpenIn(s)
    BY <1>6, <2>1, <2>2 DEF OpenIn
  <2>. QED
    BY <1>4, <2>3
<1>7. CASE i = Len(s) + 1
  BY <1>1, <1>4, <1>5, <1>7 DEF LastIs
<1>. QED
  BY <1>1, <1>6, <1>7

LEMMA LastReply ==
    ASSUME NEW s \in Seq(EntryType), LastIs(s, IsOverflow)
    PROVE  IsOverflow(LastAssistant(s, {}))
<1> DEFINE at == {i \in DOMAIN s : IsAssistant(s[i]) /\ ~IsKind(s[i], {})}
<1>1. Len(s) \in Nat /\ DOMAIN s = 1..Len(s) /\ Len(s) \in DOMAIN s /\ IsOverflow(s[Len(s)])
  BY DEF LastIs
<1>2. at \in SUBSET (0..Len(s)) /\ Len(s) \in at
  BY <1>1 DEF IsOverflow, IsKind
<1>3. Max(at) \in at /\ Len(s) <= Max(at)
  <2>. HIDE DEF at
  <2>. QED
    BY <1>1, <1>2, MaxIsIn
<1>4. Max(at) = Len(s)
  <2>1. Max(at) \in 0..Len(s)
    <3>. HIDE DEF at
    <3>. QED
      BY <1>2, <1>3
  <2>. HIDE DEF at
  <2>. QED
    BY <1>1, <1>3, <2>1
<1>5. LastAssistant(s, {}) = s[Max(at)]
  BY <1>2 DEF LastAssistant
<1>. QED
  BY <1>1, <1>4, <1>5

Halted == run.at \in {"none", "end"} \/ run.out # <<>>

\* A recovery that nothing has closed is remembered.  An overflow that ends the
\* branch has been met with a recovery, or it ends the transcript too, and nothing
\* but what is queued comes next; after a recovery, it is not compacted.
OverflowInv(p) ==
    /\ overflowTried \in BOOLEAN
    /\ OpenIn(branch) => overflowTried \/ (run.saving # None /\ run.saving.role = "user")
    /\ LastIs(branch, IsOverflow) /\ run.saving = None =>
         /\ overflowTried \/ (LastIs(messages, IsOverflow) /\ Halted)
         /\ call[p].at \in {"prepare", "summarizing"} => overflowTried
         /\ OpenIn(branch) => /\ LastIs(messages, IsOverflow) /\ Halted
                              /\ call[p].at \notin {"prepare", "summarizing"}
    /\ LastIs(branch, IsOverflow) /\ run.saving # None /\ IsAssistant(run.saving)
         => overflowTried /\ ~OpenIn(branch)
    /\ Separated(branch)

LEMMA RunOverflows ==
    ASSUME NEW p, Callers = {p}, ControlInv(p), ShapeInv(p), ReplyInv(p), OverflowInv(p), AgentStep
    PROVE  OverflowInv(p)'
<1>1. /\ run \in RunShape(run) /\ connected = TRUE
      /\ run.at = "none" => run.out = <<>> /\ run.saving = None
      /\ run.at # "none" => call[p].at = "running" /\ run.by = p
      /\ call = [q \in {p} |-> call[p]]
      /\ messages \in Seq(EntryType) /\ branch \in Seq(EntryType)
      /\ run.out \in Seq(Input) /\ run.saving \in Message \union {None}
      /\ overflowTried \in BOOLEAN /\ Separated(branch)
  BY DEF ControlInv, Controlled, ShapeInv, Setting, OverflowInv
<1>2. CASE Deliver
  <2> DEFINE m == Head(run.out)
  <2>1. /\ run' = [run EXCEPT !.out = Tail(@), !.saving = m] /\ run.saving = None
        /\ UNCHANGED branch
        /\ overflowTried' = IF m.role = "user" THEN FALSE ELSE overflowTried
    BY <1>1, <1>2 DEF Deliver
  <2>2. m # None /\ ~IsAssistant(m)
    <3>1. m \in Input
      BY <1>1, <1>2, TakingInput DEF Deliver
    <3>. QED
      BY <3>1, MessageIsSomething DEF Input
  <2>. HIDE DEF m
  <2>3. run'.saving = m
    BY <1>1, <2>1 DEF RunShape
  <2>. QED
    BY <1>1, <2>1, <2>2, <2>3 DEF OverflowInv
<1>3. CASE Save
  <2> DEFINE m == run.saving
  <2>1. /\ m \in Message /\ m # None /\ branch' = Append(branch, m) /\ UNCHANGED <<messages, call>>
        /\ run' = [run EXCEPT !.saving = None] /\ run.at # "none" /\ run.saving # None
        /\ overflowTried' = IF IsAssistant(m) /\ m.is \notin ErrorKinds THEN FALSE ELSE overflowTried
    BY <1>1, <1>3 DEF Save, flagVars
  <2>2. m \in EntryType /\ m.role # "compaction"
    BY <2>1, InputIsMessage DEF Message
  <2>3. run'.saving = None /\ run'.at = run.at
    BY <1>1, <2>1 DEF RunShape
  <2>4. Ends(messages, m) /\ (IsKind(m, ErrorKinds) => run.at = "end")
    BY <2>1 DEF ReplyInv, m
  <2>5. OpenIn(branch') => ~Closing(m) /\ OpenIn(branch)
    BY <1>1, <2>1, <2>2, OpenAdded
  <2>6. Separated(branch')
    BY <1>1, <2>1, <2>2, SeparatedAdded
  <2>7. OpenIn(branch) => overflowTried \/ m.role = "user"
    BY DEF OverflowInv, m
  <2>. HIDE DEF m
  <2>8. OpenIn(branch') => overflowTried'
    BY <2>1, <2>5, <2>7 DEF Closing
  <2>9. ASSUME LastIs(branch', IsOverflow)
        PROVE  LastIs(messages', IsOverflow) /\ Halted'
    BY <1>1, <2>1, <2>2, <2>3, <2>4, <2>9, Longer DEF LastIs, IsOverflow, IsKind, ErrorKinds, Ends, Halted
  <2>10. call'[p].at = "running" /\ overflowTried' \in BOOLEAN
    BY <1>1, <2>1
  <2>. QED
    BY <2>3, <2>6, <2>8, <2>9, <2>10 DEF OverflowInv
\* A run that asks has said something after an overflow, or has recovered.
<1>4. ASSUME UNCHANGED <<branch, overflowTried, call>>, ~Halted, run.saving = None, run.at # "none"
      PROVE  OverflowInv(p)'
  BY <1>1, <1>4 DEF OverflowInv
<1>5. CASE Respond \/ ToolDone \/ Poll
  BY <1>4, <1>5 DEF Respond, ToolDone, Poll, Ready, Produce, flagVars, Halted
<1>6. CASE RunEnds
  <2>1. /\ run' = NoRun /\ UNCHANGED <<messages, branch, overflowTried>>
        /\ call' = [call EXCEPT ![p].at = "post"] /\ run.saving = None
    BY <1>1, <1>6 DEF RunEnds, flagVars, Ready
  <2>2. call'[p].at = "post"
    BY <1>1, <2>1 DEF ControlInv, Controlled, CallShape
  <2>3. run'.saving = None /\ Halted'
    BY <2>1 DEF NoRun, Halted
  <2>. QED
    BY <2>1, <2>2, <2>3 DEF OverflowInv
<1>. QED
  BY <1>2, <1>3, <1>5, <1>6 DEF AgentStep

LEMMA CheckOverflows ==
    ASSUME NEW p, ControlInv(p), ShapeInv(p), OverflowInv(p),
           run.at = "none", run.saving = None, UNCHANGED run,
           NEW m, NEW skipAborted, Check(p, m, skipAborted), call[p].at \notin {"prepare", "summarizing"},
           LastIs(branch, IsOverflow) => IsOverflow(m) \/ (overflowTried /\ ~OpenIn(branch))
    PROVE  OverflowInv(p)'
<1>1. branch' = branch /\ CheckMakes(p, m, skipAborted)
  BY CheckMade
<1>2. /\ overflowTried \in BOOLEAN /\ Separated(branch)
      /\ OpenIn(branch) => overflowTried
      /\ LastIs(branch, IsOverflow) =>
           /\ overflowTried \/ LastIs(messages, IsOverflow)
           /\ OpenIn(branch) => LastIs(messages, IsOverflow)
  BY DEF OverflowInv
<1>3. run'.at = "none" /\ run'.saving = None /\ Halted'
  BY DEF Halted
<1>4. CASE /\ messages' = messages /\ overflowTried' = overflowTried
           /\ Decision(p, call[p].phase # "check" /\ HasQueued)
  BY <1>1, <1>2, <1>3, <1>4 DEF Decision, OverflowInv
<1>5. ASSUME NEW o \in Outcomes(m, skipAborted), o # "none",
             overflowTried' = (overflowTried \/ o = "recover")
      PROVE  OverflowInv(p)'
  <2>1. overflowTried' \in BOOLEAN /\ (overflowTried => overflowTried')
    BY <1>2, <1>5
  <2>2. IsOverflow(m) => o = "recover" /\ ~overflowTried
    BY <1>5 DEF IsOverflow, IsKind, Outcomes
  <2>3. LastIs(branch, IsOverflow) => overflowTried' /\ ~OpenIn(branch)
    BY <1>2, <1>5, <2>2
  <2>. QED
    BY <1>1, <1>2, <1>3, <2>1, <2>3 DEF OverflowInv
<1>. QED
  BY <1>1, <1>4, <1>5 DEF CheckMakes

LEMMA OtherOverflows ==
    ASSUME NEW p, Callers = {p}, ControlInv(p), ShapeInv(p), ReplyInv(p), OverflowInv(p),
           CallStep(p) \/ Application
    PROVE  OverflowInv(p)'
<1>1. /\ call = [q \in {p} |-> call[p]] /\ call[p] \in CallShape(call[p]) /\ call[p].at # "cancelled"
      /\ bash = <<>> /\ messages \in Seq(EntryType) /\ branch \in Seq(EntryType)
      /\ nextId \in Nat
      /\ call[p].at = "summarizing" => call[p].cut \in IdsIn(branch)
  BY DEF ControlInv, Controlled, ShapeInv, Setting
<1>2. /\ overflowTried \in BOOLEAN /\ Separated(branch)
      /\ call[p].at # "running" => (OpenIn(branch) => overflowTried)
      /\ call[p].at # "running" /\ LastIs(branch, IsOverflow) =>
           /\ overflowTried \/ LastIs(messages, IsOverflow)
           /\ OpenIn(branch) => LastIs(messages, IsOverflow)
           /\ call[p].at \in {"prepare", "summarizing"} => overflowTried /\ ~OpenIn(branch)
  BY AtRest DEF OverflowInv
<1>3. messages \o bash = messages /\ branch \o bash = branch
  BY <1>1, NothingAdded
<1>4. ASSUME UNCHANGED <<run, messages, branch, overflowTried>>, call[p].at # "running",
             call'[p].at \in {"prepare", "summarizing"} => call[p].at \in {"prepare", "summarizing"}
      PROVE  OverflowInv(p)'
  BY <1>2, <1>4, AtRest DEF Halted, OverflowInv
<1>5. ASSUME NEW goOn, Decision(p, goOn), UNCHANGED <<run, messages, branch, overflowTried>>,
             call[p].at # "running"
      PROVE  OverflowInv(p)'
  BY <1>4, <1>5 DEF Decision
<1>6. ASSUME DecideQueued(p), UNCHANGED <<run, overflowTried>>, call[p].at # "running"
      PROVE  OverflowInv(p)'
  BY <1>5, <1>6, DecisionQueued
<1>7. CASE PostRun(p)
  <2>1. call[p].at = "post" /\ UNCHANGED run /\ run.at = "none" /\ run.saving = None
    BY <1>7, AtRest DEF PostRun
  <2>2. last # None => Ends(branch, last)
    BY <2>1 DEF ReplyInv
  <2>3. CASE last = None
    BY <1>1, <1>5, <1>7, <2>1, <2>3, DecisionMade DEF PostRun
  <2>4. CASE last # None /\ IsKind(last, {"error"}) /\ retries < MaxRetries
    BY <1>2, <1>7, <2>1, <2>2, <2>4 DEF PostRun, Ends, LastIs, IsOverflow, IsKind, OverflowInv
  <2>5. CASE last # None /\ ~(IsKind(last, {"error"}) /\ retries < MaxRetries)
    BY <1>7, <2>1, <2>2, <2>5, CheckOverflows DEF PostRun, Ends, LastIs
  <2>. QED
    BY <2>3, <2>4, <2>5
<1>8. CASE Wake(p)
  BY <1>1, <1>5, <1>8, DecisionMade DEF Wake, flagVars
<1>9. CASE Prepare(p)
  BY <1>4, <1>6, <1>9 DEF Prepare, flagVars
<1>10. CASE SummaryFails(p)
  BY <1>6, <1>10 DEF SummaryFails, flagVars
<1>11. CASE Compacted(p)
  <2> DEFINE e == Compaction(nextId, call[p].cut)
             context == IF call[p].recover THEN Strip(Context(Append(branch, e)), ErrorKinds)
                        ELSE Context(Append(branch, e))
  <2>1. /\ Decide(p, call[p].recover \/ HasQueued, context, Append(branch, e))
        /\ call[p].at = "summarizing" /\ UNCHANGED <<run, overflowTried>>
    BY <1>11 DEF Compacted, flagVars
  <2>2. e \in EntryType /\ ~IsOverflow(e)
    <3>1. e \in EntryType
      BY <1>1, <2>1, NewCompaction
    <3>. QED
      BY <3>1 DEF Compaction, IsOverflow, IsKind, IsAssistant
  <2>3. Context(Append(branch, e)) \in Seq(EntryType)
    BY <1>1, <2>1, ContextIsList
  <2>. HIDE DEF e
  <2>4. context \in Seq(EntryType) /\ Append(branch, e) \in Seq(EntryType)
    BY <1>1, <2>2, <2>3, StripIsList
  <2>. HIDE DEF context
  <2>5. (call[p].recover \/ HasQueued) \in BOOLEAN
    OBVIOUS
  <2>6. branch' = Append(branch, e)
    BY <1>1, <2>1, <2>4, <2>5, DecisionMade
  <2>7. ~LastIs(branch', IsOverflow)
    BY <1>1, <2>2, <2>6, Longer DEF LastIs
  <2>8. Separated(branch')
    BY <1>1, <1>2, <2>1, <2>2, <2>6, SeparatedAdded
  <2>9. OpenIn(branch') => overflowTried
    BY <1>1, <1>2, <2>1, <2>2, <2>6, OpenAdded
  <2>10. run'.saving = None
    BY <2>1, AtRest
  <2>. QED
    BY <1>2, <2>1, <2>7, <2>8, <2>9, <2>10 DEF OverflowInv
<1>12. CASE Accepted(p)
  <2> DEFINE m == LastAssistant(messages, {})
  <2>1. call[p].at = "auth" /\ UNCHANGED run
    BY <1>12 DEF Accepted
  <2>2. (DecideQueued(p) /\ UNCHANGED overflowTried) \/ Check(p, m, FALSE)
    BY <1>12 DEF Accepted
  <2>3. LastIs(messages, IsOverflow) => IsOverflow(m)
    BY <1>1, LastReply
  <2>. HIDE DEF m
  <2>4. LastIs(branch, IsOverflow) => IsOverflow(m) \/ (overflowTried /\ ~OpenIn(branch))
    BY <1>2, <2>1, <2>3
  <2>5. run.at = "none" /\ run.saving = None
    BY <2>1, AtRest
  <2>. QED
    BY <1>6, <2>1, <2>2, <2>4, <2>5, CheckOverflows
\* A run that starts over something says it before it asks.
<1>13. ASSUME NEW at, NEW out, NEW via, Start(p, at, out, via), call[p].at # "running",
              UNCHANGED <<messages, branch, overflowTried>>, call'[p].at = "running",
              out # <<>> \/ ~LastIs(messages, IsAssistant)
       PROVE  OverflowInv(p)'
  BY <1>2, <1>13 DEF Start, NoRun, LastIs, IsOverflow, IsKind, Halted, OverflowInv
<1>14. <<Head(steerQ)>> # <<>> /\ <<Head(followQ)>> # <<>> /\ <<OtherMsg(nextId, "custom")>> # <<>>
  OBVIOUS
<1>15. CASE Continue(p)
  BY <1>1, <1>13, <1>14, <1>15 DEF Continue, Go, flagVars, CallShape
<1>16. ASSUME call' = [call EXCEPT ![p] = [NoCall EXCEPT !.at = "running", !.phase = "main"]]
       PROVE  call'[p].at = "running"
  <2> DEFINE c == [NoCall EXCEPT !.at = "running", !.phase = "main"]
  <2>1. c.at = "running"
    BY DEF NoCall
  <2>. HIDE DEF c
  <2>. QED
    BY <1>16, <2>1, CallEntered DEF c
<1>17. CASE BeforeDone(p)
  BY <1>1, <1>13, <1>16, <1>17, AtRest DEF BeforeDone, RunPrompt, flagVars, ShapeInv
<1>18. CASE SendTurn(p)
  BY <1>13, <1>14, <1>16, <1>18, AtRest DEF SendTurn, RunPrompt, flagVars
<1>19. ASSUME NEW c, call' = [call EXCEPT ![p] = c], c.at \in {"idle", "settling", "auth"},
              UNCHANGED <<run, messages, branch, overflowTried>>, call[p].at # "running"
       PROVE  OverflowInv(p)'
  <2>1. call'[p] = c
    BY <1>19, CallEntered
  <2>. QED
    BY <1>4, <1>19, <2>1
<1>20. ASSUME \/ call' = [call EXCEPT ![p] = NoCall]
              \/ call' = [call EXCEPT ![p] = [NoCall EXCEPT !.at = "settling"]]
              \/ call' = [call EXCEPT ![p] = [NoCall EXCEPT !.at = "auth", !.batch = <<UserMsg(nextId)>>]],
              UNCHANGED <<run, messages, branch, overflowTried>>, call[p].at # "running"
       PROVE  OverflowInv(p)'
  <2> DEFINE c == [NoCall EXCEPT !.at = "settling"]
             d == [NoCall EXCEPT !.at = "auth", !.batch = <<UserMsg(nextId)>>]
  <2>1. NoCall.at = "idle" /\ c.at = "settling" /\ d.at = "auth"
    BY DEF NoCall
  <2>2. call' = [call EXCEPT ![p] = NoCall] \/ call' = [call EXCEPT ![p] = c]
        \/ call' = [call EXCEPT ![p] = d]
    BY <1>20
  <2>. HIDE DEF c, d
  <2>. QED
    BY <1>19, <1>20, <2>1, <2>2
<1>21. CASE ContinueThrows(p) \/ Settled(p) \/ Refused(p) \/ Prompt(p)
  BY <1>3, <1>20, <1>21 DEF ContinueThrows, Settled, Refused, Prompt, Flush, flagVars, agentVars
<1>22. CASE Steer \/ FollowUp \/ SendNextTurn \/ ClearQueue
  BY <1>22 DEF Steer, FollowUp, SendNextTurn, ClearQueue, agentVars, flagVars, OverflowInv, Halted
<1>23. CallStep(p) => ~RetryCancelled(p)
  BY <1>1 DEF RetryCancelled
<1>24. ~Compact /\ ~Abort /\ ~SendCustom /\ ~RecordBash
  BY NotDone
<1>. QED
  BY <1>7, <1>8, <1>9, <1>10, <1>11, <1>12, <1>15, <1>17, <1>18, <1>21, <1>22, <1>23, <1>24
     DEF CallStep, Application

LEMMA OverflowStep ==
    ASSUME NEW p, Callers = {p}, ControlInv(p), ShapeInv(p), ReplyInv(p), OverflowInv(p), [Next]_vars
    PROVE  OverflowInv(p)'
<1>1. CASE UNCHANGED vars
  BY <1>1 DEF vars, agentVars, flagVars, OverflowInv, Halted
<1>2. CASE Next
  <2>1. ~CompStep
    BY DEF ShapeInv, Setting, NoComp, CompStep, CompactPrepare, CompactDone
  <2>. QED
    BY <1>2, <2>1, RunOverflows, OtherOverflows DEF Next
<1>. QED
  BY <1>1, <1>2

(***************************************************************************)
(* Retries are bounded                                                     *)
(***************************************************************************)
LEMMA RetriesInit ==
    ASSUME NEW p, Callers = {p}, Init
    PROVE  ReplyInv(p) /\ ErrorsInv(p) /\ OverflowInv(p)
<1>1. /\ branch = <<>> /\ last = None /\ retries = 0 /\ overflowTried = FALSE
      /\ run = NoRun /\ DOMAIN <<>> = {} /\ Len(<<>>) = 0
  BY DEF Init
<1>2. run.at = "none" /\ run.out = <<>> /\ run.saving = None
  BY <1>1 DEF NoRun
<1>3. ReplyInv(p)
  BY <1>1, <1>2 DEF ReplyInv
<1>4. ErrorsInv(p)
  <2>1. MaxRetries \in Nat
    BY SessionAssumption
  <2>. QED
    BY <1>1, <2>1 DEF ErrorsInv, AtMost, Few
<1>5. OverflowInv(p)
  BY <1>1, <1>2 DEF OverflowInv, OpenIn, Separated, LastIs
<1>. QED
  BY <1>3, <1>4, <1>5

LEMMA BoundedFollows ==
    ASSUME NEW p, ErrorsInv(p), OverflowInv(p)
    PROVE  RetriesBounded
<1>1. FewErrors
  BY DEF ErrorsInv, Few, FewErrors, IsError
<1>2. OneRecovery
  BY DEF Recovers, RecoversIn, IsOverflow, Closing, OverflowInv, Separated, OneRecovery
<1>. QED
  BY <1>1, <1>2 DEF RetriesBounded

\* The session does not send failing requests for ever: whatever replies the model
\* gives, and whatever the application sends or clears meanwhile, an error is
\* retried at most MaxRetries times in a row, and after a compaction that recovers
\* from an overflow there is another only when a user message or a reply that is
\* no error has come between.  With one caller; abort(), compact() and what an idle
\* session takes into its branch at once are not part of it.
THEOREM RetriesBoundedHolds == ASSUME OneCaller PROVE Spec /\ Undisturbed => []RetriesBounded
<1>1. PICK p : Callers = {p}
  BY DEF OneCaller
<1> DEFINE IInv == ControlInv(p) /\ ShapeInv(p) /\ ReplyInv(p) /\ ErrorsInv(p) /\ OverflowInv(p)
<1>2. Init /\ Undisturbed => IInv
  BY <1>1, ControlInit, ShapeInit, RetriesInit
<1>3. IInv /\ [Next]_vars => IInv'
  BY <1>1, ControlStep, ShapeStep, ReplyStep, ErrorsStep, OverflowStep
<1>4. IInv => RetriesBounded
  BY BoundedFollows
<1>. QED
  BY <1>2, <1>3, <1>4, PTL DEF Spec

(***************************************************************************)
(* Calls and results stay together: lists of entries                       *)
(***************************************************************************)
\* What PairsTogether says of one list.
IsCall(m) == IsKind(m, {"calls"})
IsResult(m) == m.role = "toolResult"
CallIsLast(s) == s # <<>> /\ IsCall(s[Len(s)])
Pairs(s) == \A i \in DOMAIN s :
    /\ IsCall(s[i]) /\ i < Len(s) => IsResult(s[i + 1])
    /\ IsResult(s[i]) => i > 1 /\ IsCall(s[i - 1])

\* A list whose calls have their results, and one whose last call has none yet.
Closed(s) == s \in Seq(EntryType) /\ Pairs(s) /\ ~CallIsLast(s)
Asking(s) == s \in Seq(EntryType) /\ Pairs(s) /\ CallIsLast(s)

LEMMA PairAt ==
    ASSUME NEW s, Closed(s), NEW i \in 1..Len(s)
    PROVE  /\ IsCall(s[i]) /\ i < Len(s) => IsResult(s[i + 1])
           /\ IsResult(s[i]) => i > 1 /\ IsCall(s[i - 1])
<1>1. DOMAIN s = 1..Len(s)
  BY DEF Closed
<1>. QED
  BY <1>1 DEF Closed, Pairs

\* What comes from outside of a run.
Outside == {m \in Message : ~IsAssistant(m) /\ ~IsResult(m)}

LEMMA OutsideIsNeither ==
    ASSUME NEW m \in Outside
    PROVE  m \in Message /\ m \in EntryType /\ m # None /\ ~IsCall(m) /\ ~IsResult(m) /\ ~IsAssistant(m)
BY MessageIsSomething, InputIsMessage DEF Outside, IsCall, IsKind

LEMMA CallIsNoResult ==
    ASSUME NEW m, IsCall(m)
    PROVE  ~IsResult(m) /\ m.role # "compaction"
BY DEF IsCall, IsKind, IsAssistant, IsResult

\* A call is answered by what follows, and only a call is.
LEMMA PairsAdded ==
    ASSUME NEW s \in Seq(EntryType), NEW m \in EntryType, Pairs(s), IsResult(m) <=> CallIsLast(s)
    PROVE  LET r == Append(s, m)
           IN r \in Seq(EntryType) /\ Pairs(r) /\ (CallIsLast(r) <=> IsCall(m))
<1> DEFINE r == Append(s, m)
           n == Len(s)
<1>1. /\ r \in Seq(EntryType) /\ r # <<>> /\ Len(r) = n + 1 /\ r[n + 1] = m /\ n \in Nat
      /\ DOMAIN s = 1..n /\ DOMAIN r = 1..(n + 1)
      /\ \A i \in 1..n : r[i] = s[i]
  BY Longer
<1>2. s = <<>> => n = 0
  OBVIOUS
<1>. HIDE DEF r, n
<1>3. CallIsLast(s) <=> n > 0 /\ IsCall(s[n])
  <2>1. n > 0 => s # <<>>
    BY DEF n
  <2>2. n = 0 => ~CallIsLast(s)
    BY DEF n, CallIsLast
  <2>. QED
    BY <1>1, <2>1, <2>2 DEF CallIsLast, n
<1>4. ASSUME NEW i \in 1..(n + 1)
      PROVE  /\ IsCall(r[i]) /\ i < n + 1 => IsResult(r[i + 1])
             /\ IsResult(r[i]) => i > 1 /\ IsCall(r[i - 1])
  <2>1. CASE i = n + 1
    BY <1>1, <1>3, <2>1
  <2>2. CASE i = n /\ i # n + 1
    BY <1>1, <1>3, <2>2 DEF Pairs
  <2>3. CASE i < n
    BY <1>1, <2>3 DEF Pairs, n
  <2>. QED
    BY <1>1, <2>1, <2>2, <2>3
<1>5. Pairs(r)
  BY <1>1, <1>4 DEF Pairs
<1>6. CallIsLast(r) <=> IsCall(m)
  BY <1>1 DEF CallIsLast
<1>. QED
  BY <1>1, <1>5, <1>6 DEF r

LEMMA ClosedAdded ==
    ASSUME NEW s, NEW m \in EntryType
    PROVE  /\ Closed(s) /\ ~IsCall(m) /\ ~IsResult(m) => Closed(Append(s, m))
           /\ Closed(s) /\ IsCall(m) => Asking(Append(s, m))
           /\ Asking(s) /\ IsResult(m) => Closed(Append(s, m))
<1>1. IsResult(m) => ~IsCall(m)
  BY CallIsNoResult
<1>2. CASE Closed(s) /\ ~IsResult(m)
  BY <1>1, <1>2, PairsAdded DEF Closed, Asking
<1>3. CASE Asking(s) /\ IsResult(m)
  BY <1>1, <1>3, PairsAdded DEF Closed, Asking
<1>4. IsCall(m) => ~IsResult(m)
  BY CallIsNoResult
<1>5. Closed(s) => ~Asking(s)
  BY DEF Closed, Asking
<1>. QED
  BY <1>2, <1>3, <1>4, <1>5

LEMMA ClosedJoined ==
    ASSUME NEW s, Closed(s), NEW t \in Seq(Outside)
    PROVE  Closed(s \o t)
<1> DEFINE r == s \o t
           n == Len(s)
           k == Len(t)
<1>1. s \in Seq(EntryType) /\ Outside \subseteq EntryType
  BY OutsideIsNeither DEF Closed
<1>2. t \in Seq(EntryType)
  BY <1>1
<1>3. IsSeq(s) /\ IsSeq(t)
  BY <1>1 DEF IsSeq
<1>4. /\ r \in Seq(EntryType) /\ n \in Nat /\ k \in Nat /\ Len(r) = n + k
      /\ DOMAIN s = 1..n /\ DOMAIN t = 1..k /\ DOMAIN r = 1..(n + k)
      /\ \A i \in 1..n : r[i] = s[i]
      /\ \A i \in 1..k : r[n + i] = t[i]
  BY <1>1, <1>2, <1>3, JoinLists
<1>5. \A i \in 1..k : ~IsCall(t[i]) /\ ~IsResult(t[i])
  BY <1>4, OutsideIsNeither
<1>6. n > 0 => ~IsCall(s[n])
  <2>1. n > 0 => s # <<>>
    OBVIOUS
  <2>. QED
    BY <2>1 DEF Closed, CallIsLast
<1>. HIDE DEF r, n, k
<1>7. ASSUME NEW i \in 1..(n + k)
      PROVE  /\ IsCall(r[i]) /\ i < n + k => IsResult(r[i + 1])
             /\ IsResult(r[i]) => i > 1 /\ IsCall(r[i - 1])
             /\ i = n + k => ~IsCall(r[i])
  <2>1. CASE i > n
    BY <1>4, <1>5, <2>1, WhichList
  <2>2. CASE ~(i > n)
    <3>1. i \in 1..n /\ r[i] = s[i] /\ (i > 1 => i - 1 \in 1..n)
      BY <1>4, <2>2
    <3>2. CASE i < n
      <4>1. /\ IsCall(s[i]) => IsResult(s[i + 1])
            /\ IsResult(s[i]) => i > 1 /\ IsCall(s[i - 1])
        BY <3>1, <3>2, PairAt DEF n
      <4>2. i + 1 \in 1..n /\ i # n + k
        BY <1>4, <3>1, <3>2
      <4>3. r[i + 1] = s[i + 1] /\ (i > 1 => r[i - 1] = s[i - 1])
        BY <1>4, <3>1, <4>2
      <4>. QED
        BY <3>1, <4>1, <4>2, <4>3
    <3>3. CASE i = n
      <4>1. ~IsCall(s[i])
        BY <1>4, <1>6, <3>1, <3>3
      <4>2. IsResult(s[i]) => i > 1 /\ IsCall(s[i - 1])
        BY <1>4, <3>1 DEF Closed, Pairs
      <4>. QED
        BY <1>4, <3>1, <4>1, <4>2
    <3>. QED
      BY <1>4, <3>1, <3>2, <3>3
  <2>. QED
    BY <2>1, <2>2
<1>8. Pairs(r)
  BY <1>4, <1>7 DEF Pairs
<1>9. ~CallIsLast(r)
  <2>1. r # <<>> => n + k \in 1..(n + k)
    BY <1>4
  <2>. QED
    BY <1>4, <1>7, <2>1 DEF CallIsLast
<1>. QED
  BY <1>4, <1>8, <1>9 DEF Closed, r

\* A reply that is no call may be taken back.
LEMMA ClosedStripped ==
    ASSUME NEW s, Closed(s), NEW kinds
    PROVE  Closed(Strip(s, kinds))
<1> DEFINE n == Len(s)
           r == Front(s)
<1>1. s \in Seq(EntryType) /\ n \in Nat /\ DOMAIN s = 1..n
  BY DEF Closed
<1>2. CASE s # <<>> /\ IsAssistant(s[n])
  <2>1. n > 0
    BY <1>1, <1>2
  <2>2. /\ r \in Seq(EntryType) /\ Len(r) = n - 1 /\ DOMAIN r = 1..(n - 1)
        /\ \A i \in 1..(n - 1) : r[i] = s[i]
    BY <1>1, <2>1 DEF Front
  <2>3. ~IsResult(s[n])
    BY <1>2 DEF IsAssistant, IsResult
  <2>. HIDE DEF r, n
  <2>4. ASSUME NEW i \in 1..(n - 1)
        PROVE  /\ IsCall(r[i]) => IsResult(s[i + 1])
               /\ IsResult(r[i]) => i > 1 /\ IsCall(r[i - 1])
               /\ i = n - 1 => ~IsCall(r[i])
    <3>1. i \in 1..n /\ i < n /\ r[i] = s[i]
      BY <1>1, <2>2
    <3>2. /\ IsCall(s[i]) => IsResult(s[i + 1])
          /\ IsResult(s[i]) => i > 1 /\ IsCall(s[i - 1])
      BY <3>1, PairAt DEF n
    <3>3. i > 1 => i - 1 \in 1..(n - 1)
      BY <1>1
    <3>4. i > 1 => r[i - 1] = s[i - 1]
      BY <2>2, <3>3
    <3>5. i = n - 1 => i + 1 = n
      BY <1>1
    <3>. QED
      BY <2>3, <3>1, <3>2, <3>4, <3>5
  <2>5. Pairs(r)
    BY <1>1, <2>2, <2>4 DEF Pairs
  <2>6. ~CallIsLast(r)
    <3>1. r # <<>> => n - 1 \in 1..(n - 1)
      BY <1>1, <2>1, <2>2
    <3>. QED
      BY <2>2, <2>4, <3>1 DEF CallIsLast
  <2>7. Closed(r)
    BY <2>2, <2>5, <2>6 DEF Closed
  <2>. QED
    BY <2>7 DEF Strip, r
<1>3. CASE ~(s # <<>> /\ IsAssistant(s[n]))
  BY <1>3 DEF Strip, LastIs, IsKind
<1>. QED
  BY <1>2, <1>3

\* Entries of a closed list from one that is no result up to its end.
LEMMA ClosedEnd ==
    ASSUME NEW s, Closed(s), NEW e \in EntryType, NEW k \in 1..Len(s), ~IsResult(s[k])
    PROVE  Closed(SubSeq(Append(s, e), k, Len(s)))
<1> DEFINE n == Len(s)
           r == Append(s, e)
           t == SubSeq(r, k, n)
           d == k - 1
<1>1. s \in Seq(EntryType) /\ n \in Nat /\ DOMAIN s = 1..n /\ k \in 1..n /\ d \in Nat
  BY DEF Closed
<1>2. r \in Seq(EntryType) /\ DOMAIN r = 1..(n + 1) /\ Len(r) = n + 1 /\ \A i \in 1..n : r[i] = s[i]
  BY <1>1, Longer
<1>3. t \in Seq(EntryType) /\ Len(t) = n - d /\ DOMAIN t = 1..(n - d) /\ \A i \in 1..(n - d) : t[i] = r[d + i]
  BY <1>1, <1>2
<1>4. ASSUME NEW i \in 1..(n - d)
      PROVE  d + i \in 1..n /\ t[i] = s[d + i]
  <2>1. d + i \in 1..n
    BY <1>1
  <2>. HIDE DEF r, n, t, d
  <2>. QED
    BY <1>2, <1>3, <2>1
<1>5. ~IsResult(s[d + 1])
  <2>1. d + 1 = k
    BY <1>1
  <2>. QED
    BY <2>1
<1>6. \A i \in 1..n : /\ IsCall(s[i]) /\ i < n => IsResult(s[i + 1])
                      /\ IsResult(s[i]) => i > 1 /\ IsCall(s[i - 1])
                      /\ i = n => ~IsCall(s[i])
  <2>1. n \in 1..n => s # <<>>
    OBVIOUS
  <2>. QED
    BY <1>1, <2>1 DEF Closed, Pairs, CallIsLast
<1>. HIDE DEF r, n, t, d
<1>7. ASSUME NEW i \in 1..(n - d)
      PROVE  /\ IsCall(t[i]) /\ i < n - d => IsResult(t[i + 1])
             /\ IsResult(t[i]) => i > 1 /\ IsCall(t[i - 1])
             /\ i = n - d => ~IsCall(t[i])
  <2>1. d + i \in 1..n /\ t[i] = s[d + i]
    BY <1>4
  <2>2. ASSUME i < n - d
        PROVE  i + 1 \in 1..(n - d) /\ t[i + 1] = s[(d + i) + 1] /\ d + i < n
    BY <1>1, <1>4, <2>2
  <2>3. ASSUME i > 1
        PROVE  t[i - 1] = s[(d + i) - 1]
    BY <1>1, <1>4, <2>3
  <2>4. (i = n - d => d + i = n) /\ (~(i > 1) => d + i = d + 1)
    BY <1>1
  <2>. QED
    BY <1>5, <1>6, <2>1, <2>2, <2>3, <2>4
<1>8. Pairs(t)
  BY <1>3, <1>7 DEF Pairs
<1>9. ~CallIsLast(t)
  <2>1. n - d \in 1..(n - d)
    BY <1>1 DEF d
  <2>. QED
    BY <1>3, <1>7, <2>1 DEF CallIsLast
<1>. QED
  BY <1>3, <1>8, <1>9 DEF Closed, t, r, n

\* Without its compactions, a closed list is closed.
LEMMA ClosedKept ==
    ASSUME NEW t, Closed(t)
    PROVE  Closed(NotCompactions(t))
<1> DEFINE out == {i \in DOMAIN t : t[i].role = "compaction"}
<1>1. t \in Seq(EntryType) /\ Len(t) \in Nat /\ DOMAIN t = 1..Len(t)
  BY DEF Closed
<1>2. PICK f : KeptUpTo(t, out, Len(t), f) /\ NotCompactions(t) = f[Len(t)]
  BY <1>1, WithoutSteps DEF NotCompactions
<1> DEFINE Good(k) == /\ f[k] \in Seq(EntryType) /\ Pairs(f[k])
                      /\ CallIsLast(f[k]) <=> k > 0 /\ IsCall(t[k])
           Bad == {k \in 0..Len(t) : ~Good(k)}
<1>4. \A i \in 0..Len(t) : f[i] = IF i = 0 THEN <<>>
                                  ELSE IF t[i].role = "compaction" THEN f[i - 1]
                                  ELSE Append(f[i - 1], t[i])
  <2>1. \A i \in 0..Len(t) : f[i] = IF i = 0 THEN <<>>
                                    ELSE IF i \in out THEN f[i - 1]
                                    ELSE Append(f[i - 1], t[i])
    <3>. HIDE DEF out
    <3>. QED
      BY <1>2 DEF KeptUpTo
  <2>2. \A i \in 0..Len(t) : i # 0 => (i \in out <=> t[i].role = "compaction")
    BY <1>1
  <2>. HIDE DEF out
  <2>. QED
    BY <2>1, <2>2
<1>. HIDE DEF out
<1>5. Good(0)
  <2>1. f[0] = <<>>
    BY <1>1, <1>4
  <2>. QED
    BY <2>1 DEF Pairs, CallIsLast
<1>6. ASSUME NEW b \in 1..Len(t), Good(b - 1)
      PROVE  Good(b)
  <2> DEFINE a == b - 1
  <2>1. a \in Int /\ b = a + 1 /\ (a > 0 => a \in 1..Len(t) /\ a < Len(t)) /\ t[b] \in EntryType /\ b > 0
        /\ b \in 0..Len(t) /\ b # 0 /\ (b > 1 <=> a > 0)
    BY <1>1
  <2>2. /\ f[a] \in Seq(EntryType) /\ Pairs(f[a]) /\ (CallIsLast(f[a]) <=> a > 0 /\ IsCall(t[a]))
    BY <1>6
  <2>3. f[b] = IF t[b].role = "compaction" THEN f[a] ELSE Append(f[a], t[b])
    BY <1>4, <2>1
  <2>4. a > 0 => (IsCall(t[a]) => IsResult(t[b]))
    BY <1>1, <2>1 DEF Closed, Pairs
  <2>5. IsResult(t[b]) => a > 0 /\ IsCall(t[a])
    BY <1>1, <2>1 DEF Closed, Pairs
  <2>. HIDE DEF a, Good
  <2>6. CASE t[b].role = "compaction"
    BY <2>2, <2>3, <2>4, <2>6, CallIsNoResult DEF IsResult, Good
  <2>7. CASE t[b].role # "compaction"
    BY <2>1, <2>2, <2>3, <2>4, <2>5, <2>7, PairsAdded DEF Good
  <2>. QED
    BY <2>6, <2>7
<1>. HIDE DEF Good
<1>7. Bad = {}
  <2> SUFFICES ASSUME Bad # {}
               PROVE  FALSE
    OBVIOUS
  <2>1. Bad \in SUBSET Nat
    BY <1>1
  <2>2. PICK b \in Bad : \A k \in Bad : b <= k
    <3>. HIDE DEF Bad
    <3>. QED
      BY <2>1, Least
  <2>3. b \in 0..Len(t) /\ ~Good(b)
    OBVIOUS
  <2>4. b # 0
    BY <1>5, <2>3
  <2>5. b \in 1..Len(t) /\ b - 1 \in 0..Len(t) /\ b - 1 < b
    BY <1>1, <2>3, <2>4
  <2>6. b - 1 \notin Bad
    <3>1. b - 1 \in Bad => b <= b - 1
      <4>. HIDE DEF Bad
      <4>. QED
        BY <2>2
    <3>. QED
      BY <2>5, <3>1
  <2>7. Good(b - 1)
    BY <2>5, <2>6
  <2>. QED
    BY <1>6, <2>3, <2>5, <2>7
<1>8. Good(Len(t))
  <2>1. Len(t) \in 0..Len(t)
    BY <1>1
  <2>. QED
    BY <1>7, <2>1
<1>9. ~CallIsLast(f[Len(t)])
  BY <1>8 DEF Good, Closed, CallIsLast
<1>. QED
  BY <1>2, <1>8, <1>9 DEF Good, Closed

\* A list that begins with a compaction and goes on with a closed one is closed.
LEMMA ClosedAfter ==
    ASSUME NEW s, Closed(s), NEW e \in EntryType, ~IsCall(e), ~IsResult(e)
    PROVE  Closed(<<e>> \o s)
<1> DEFINE r == <<e>> \o s
           n == Len(s)
<1>1. s \in Seq(EntryType) /\ n \in Nat /\ DOMAIN s = 1..n
  BY DEF Closed
<1>2. r \in Seq(EntryType) /\ Len(r) = n + 1 /\ DOMAIN r = 1..(n + 1) /\ r[1] = e
      /\ \A i \in 1..(n + 1) : i # 1 => r[i] = s[i - 1]
  BY <1>1
<1>3. \A i \in 1..n : /\ IsCall(s[i]) /\ i < n => IsResult(s[i + 1])
                      /\ IsResult(s[i]) => i > 1 /\ IsCall(s[i - 1])
                      /\ i = n => ~IsCall(s[i])
  <2>1. n \in 1..n => s # <<>>
    OBVIOUS
  <2>. QED
    BY <1>1, <2>1 DEF Closed, Pairs, CallIsLast
<1>. HIDE DEF r, n
<1>4. ASSUME NEW i \in 1..(n + 1)
      PROVE  /\ IsCall(r[i]) /\ i < n + 1 => IsResult(r[i + 1])
             /\ IsResult(r[i]) => i > 1 /\ IsCall(r[i - 1])
             /\ i = n + 1 => ~IsCall(r[i])
  <2>1. CASE i = 1
    BY <1>2, <2>1
  <2>2. CASE i # 1
    <3> DEFINE j == i - 1
    <3>1. j \in 1..n /\ r[i] = s[j] /\ i > 1
      BY <1>1, <1>2, <2>2
    <3>2. i < n + 1 => j < n /\ i + 1 \in 1..(n + 1) /\ i + 1 # 1 /\ (i + 1) - 1 = j + 1
      BY <1>1
    <3>3. j > 1 => i - 1 \in 1..(n + 1) /\ i - 1 # 1 /\ (i - 1) - 1 = j - 1
      BY <1>1
    <3>4. i = n + 1 => j = n
      BY <1>1
    <3>5. i < n + 1 => r[i + 1] = s[j + 1]
      BY <1>2, <3>2
    <3>6. j > 1 => r[i - 1] = s[j - 1]
      BY <1>2, <3>3
    <3>. HIDE DEF j
    <3>. QED
      BY <1>3, <3>1, <3>2, <3>4, <3>5, <3>6
  <2>. QED
    BY <2>1, <2>2
<1>5. Pairs(r)
  BY <1>2, <1>4 DEF Pairs
<1>6. ~CallIsLast(r)
  <2>1. n + 1 \in 1..(n + 1)
    BY <1>1
  <2>. QED
    BY <1>2, <1>4, <2>1 DEF CallIsLast
<1>. QED
  BY <1>2, <1>5, <1>6 DEF Closed, r

\* A compaction that keeps what begins with no result leaves closed lists.
LEMMA ClosedCompacted ==
    ASSUME NEW s, Closed(s), NEW id \in Nat, NEW cut \in IdsIn(s), cut # id,
           \A i \in DOMAIN s : s[i].id = cut => ~IsResult(s[i])
    PROVE  LET r == Append(s, Compaction(id, cut))
           IN Closed(r) /\ Closed(Context(r))
<1> DEFINE e == Compaction(id, cut)
           r == Append(s, e)
<1>1. s \in Seq(EntryType) /\ DOMAIN s = 1..Len(s) /\ Len(s) \in Nat
  BY DEF Closed
<1>2. e.role = "compaction" /\ e.id = id
  BY DEF Compaction
<1>3. e \in EntryType /\ ContextKeeps(r, e, cut, Len(s))
  BY <1>1, ContextIs
<1>. HIDE DEF e
<1>4. ~IsCall(e) /\ ~IsResult(e)
  BY <1>2, CallIsNoResult DEF IsResult
<1>5. Closed(r)
  BY <1>3, <1>4, ClosedAdded
<1>6. /\ DOMAIN r = 1..(Len(s) + 1) /\ r[Len(s) + 1] = e /\ \A i \in DOMAIN s : r[i] = s[i]
  BY <1>1, <1>3, Longer
<1>7. PICK keep \in DOMAIN r : /\ r[keep].id = cut
                               /\ Context(r) = <<e>> \o NotCompactions(SubSeq(r, keep, Len(s)))
  BY <1>3 DEF ContextKeeps
<1>8. keep \in 1..Len(s) /\ ~IsResult(s[keep])
  BY <1>1, <1>2, <1>6, <1>7
<1>9. Closed(SubSeq(r, keep, Len(s)))
  BY <1>3, <1>8, ClosedEnd
<1>10. Closed(NotCompactions(SubSeq(r, keep, Len(s))))
  BY <1>9, ClosedKept
<1>. HIDE DEF r
<1>11. Closed(Context(r))
  BY <1>3, <1>4, <1>7, <1>10, ClosedAfter
<1>. QED
  BY <1>5, <1>11 DEF r, e

(***************************************************************************)
(* Calls and results stay together: what a session keeps                   *)
(***************************************************************************)
\* A transcript waits for a result while the tool of its last reply runs, and the
\* session from when the reply is saved until its result is.
TogetherInv ==
    /\ IF run.at = "tools" THEN Asking(messages) ELSE Closed(messages)
    /\ IF \/ run.at = "tools" /\ run.saving = None
          \/ run.saving # None /\ IsResult(run.saving)
       THEN Asking(branch) ELSE Closed(branch)
    /\ run.at = "tools" => run.out = <<>> /\ (run.saving = None \/ IsCall(run.saving))
    /\ run.saving # None /\ IsCall(run.saving) => run.at = "tools"

MayBegin(m) == ~IsResult(m) /\ m.role # "compaction"
CutsWell(s, cut) == cut \in IdsIn(s) /\ \A i \in DOMAIN s : s[i].id = cut => MayBegin(s[i])

\* What waits comes from outside, and a compaction keeps what begins with a message, but with no result.
ItemsInv(p) ==
    /\ {steerQ, followQ, nextTurn, bash, run.out, call[p].batch} \subseteq Seq(Outside)
    /\ run.saving \in Message \union {None}
    /\ KeepsOwn(branch)
    /\ call[p].at = "summarizing" => CutsWell(branch, call[p].cut)

LEMMA TakingOutside ==
    ASSUME NEW s \in Seq(Outside)
    PROVE  /\ s # <<>> => Head(s) \in Outside /\ Tail(s) \in Seq(Outside) /\ <<Head(s)>> \in Seq(Outside)
           /\ \A t \in Seq(Outside) : s \o t \in Seq(Outside)
           /\ \A m \in Outside : Append(s, m) \in Seq(Outside) /\ <<m>> \in Seq(Outside)
           /\ <<>> \in Seq(Outside)
<1>1. ASSUME s # <<>>
      PROVE  Head(s) \in Outside /\ Tail(s) \in Seq(Outside)
  BY <1>1
<1>2. \A m \in Outside : <<m>> \in Seq(Outside) /\ Append(s, m) \in Seq(Outside)
  OBVIOUS
<1>3. \A t \in Seq(Outside) : s \o t \in Seq(Outside)
  OBVIOUS
<1>4. <<>> \in Seq(Outside)
  OBVIOUS
<1>. QED
  BY <1>1, <1>2, <1>3, <1>4

LEMMA NewOutside ==
    ASSUME NEW id \in Nat
    PROVE  /\ UserMsg(id) \in Outside /\ OtherMsg(id, "custom") \in Outside
           /\ OtherMsg(id, "bashExecution") \in Outside
<1>1. UserMsg(id) \in Input /\ OtherMsg(id, "custom") \in Input
  BY NewInput
<1>2. OtherMsg(id, "bashExecution") \in [role : {"toolResult", "custom", "bashExecution"}, id : Nat]
  BY DEF OtherMsg
<1>3. OtherMsg(id, "bashExecution") \in Message
  BY <1>2 DEF Message
<1>. QED
  BY <1>1, <1>3 DEF Input, Outside, UserMsg, OtherMsg, IsResult, IsAssistant

LEMMA JoinKeepsOwn ==
    ASSUME NEW s \in Seq(EntryType), KeepsOwn(s), NEW t \in Seq(Outside)
    PROVE  KeepsOwn(s \o t)
<1> DEFINE r == s \o t
<1>1. t \in Seq(Message) /\ t \in Seq(EntryType)
  BY OutsideIsNeither
<1>2. IsSeq(s) /\ IsSeq(t)
  BY <1>1 DEF IsSeq
<1>3. /\ Len(s) \in Nat /\ Len(t) \in Nat /\ DOMAIN s = 1..Len(s) /\ DOMAIN t = 1..Len(t)
      /\ DOMAIN r = 1..(Len(s) + Len(t))
      /\ \A i \in 1..Len(s) : r[i] = s[i]
      /\ \A i \in 1..Len(t) : r[Len(s) + i] = t[i]
  BY <1>2, JoinLists
<1>4. \A i \in 1..Len(t) : t[i].role # "compaction"
  BY <1>1, <1>3 DEF Message
<1>5. \A i \in 1..Len(s) : i \in DOMAIN r
  BY <1>3
<1>6. IdsIn(s) \subseteq IdsIn(r)
  BY <1>3, <1>5 DEF IdsIn
<1>. HIDE DEF r
<1>7. ASSUME NEW i \in DOMAIN r, r[i].role = "compaction"
      PROVE  r[i].keep \in IdsIn(r)
  <2>1. CASE i \in 1..Len(s)
    BY <1>3, <1>6, <1>7, <2>1 DEF KeepsOwn
  <2>2. CASE i \notin 1..Len(s)
    <3>1. i - Len(s) \in 1..Len(t) /\ i = Len(s) + (i - Len(s))
      BY <1>3, <2>2
    <3>. QED
      BY <1>3, <1>4, <1>7, <3>1
  <2>. QED
    BY <2>1, <2>2
<1>8. KeepsOwn(r)
  BY <1>7 DEF KeepsOwn
<1>. QED
  BY <1>8 DEF r

\* What is put behind the entries does not change where a compaction begins.
LEMMA CutStays ==
    ASSUME NEW s \in Seq(EntryType), NEW cut, CutsWell(s, cut), NEW t \in Seq(Outside)
    PROVE  CutsWell(s \o t, cut)
<1> DEFINE r == s \o t
<1>1. t \in Seq(EntryType) /\ \A i \in DOMAIN t : MayBegin(t[i])
  <2>1. Outside \subseteq EntryType /\ \A m \in Outside : MayBegin(m)
    BY OutsideIsNeither DEF MayBegin, Message
  <2>. QED
    BY <2>1
<1>2. IsSeq(s) /\ IsSeq(t)
  BY <1>1 DEF IsSeq
<1>3. /\ Len(s) \in Nat /\ Len(t) \in Nat /\ DOMAIN s = 1..Len(s) /\ DOMAIN t = 1..Len(t)
      /\ DOMAIN r = 1..(Len(s) + Len(t))
      /\ \A i \in 1..Len(s) : r[i] = s[i]
      /\ \A i \in 1..Len(t) : r[Len(s) + i] = t[i]
  BY <1>2, JoinLists
<1>4. \A i \in 1..Len(s) : i \in DOMAIN r
  BY <1>3
<1>5. cut \in IdsIn(r)
  BY <1>3, <1>4 DEF IdsIn, CutsWell
<1>. HIDE DEF r
<1>6. ASSUME NEW i \in DOMAIN r, r[i].id = cut
      PROVE  MayBegin(r[i])
  <2>1. CASE i \in 1..Len(s)
    BY <1>3, <1>6, <2>1 DEF CutsWell
  <2>2. CASE i \notin 1..Len(s)
    <3>1. i - Len(s) \in 1..Len(t) /\ i = Len(s) + (i - Len(s))
      BY <1>3, <2>2
    <3>. QED
      BY <1>1, <1>3, <3>1
  <2>. QED
    BY <2>1, <2>2
<1>7. CutsWell(r, cut)
  BY <1>5, <1>6 DEF CutsWell
<1>. QED
  BY <1>7 DEF r

\* Numbers of entries: each one's own, and older than the next.
LEMMA BranchIds ==
    ASSUME NEW p, PlacedInv(p)
    PROVE  /\ nextId \in Nat /\ connected = TRUE
           /\ \A i \in DOMAIN branch : branch[i].id \in 1..(nextId - 1) /\ branch[i].id # nextId
           /\ \A i, j \in DOMAIN branch : branch[i].id = branch[j].id => i = j
<1>1. Here(p, Contents(p))
  BY PlacesAre
<1>. HIDE DEF Contents
<1>2. Contents(p)["branch"] = branch /\ nextId \in Nat /\ connected = TRUE /\ "branch" \in PlaceNames
  BY <1>1 DEF Here, PlaceNames
<1>3. Once(Contents(p)) /\ Older(Contents(p), nextId)
  BY <1>1 DEF Here, WellPlaced
<1>4. \A i, j \in DOMAIN branch : branch[i].id = branch[j].id => i = j
  BY <1>2, <1>3 DEF Once
<1>5. \A i \in DOMAIN branch : branch[i].id \in 1..(nextId - 1)
  BY <1>2, <1>3 DEF Older
<1>6. \A x \in 1..(nextId - 1) : x # nextId
  BY <1>2
<1>. QED
  BY <1>2, <1>4, <1>5, <1>6

LEMMA CutIsWell ==
    ASSUME NEW p, PlacedInv(p), branch \in Seq(EntryType), KeepsOwn(branch), NEW cut \in Cuts(branch)
    PROVE  CutsWell(branch, cut)
<1>1. PICK k \in DOMAIN branch : cut = branch[k].id /\ branch[k].role \notin {"toolResult", "compaction"}
  BY CutIsPoint
<1>2. \A i \in DOMAIN branch : branch[i].id = cut => i = k
  BY <1>1, BranchIds
<1>. QED
  BY <1>1, <1>2 DEF CutsWell, MayBegin, IdsIn, IsResult

\* Nothing is saved and no tool runs.
LEMMA Together ==
    ASSUME run'.at # "tools", run'.saving = None, Closed(messages'), Closed(branch')
    PROVE  TogetherInv'
BY DEF TogetherInv

LEMMA NoToolRuns ==
    ASSUME NEW p, ControlInv(p), TogetherInv, run.at = "none"
    PROVE  /\ Closed(messages) /\ Closed(branch) /\ run.saving = None /\ run.out = <<>>
           /\ messages \in Seq(EntryType) /\ branch \in Seq(EntryType)
BY DEF TogetherInv, ControlInv, Controlled, Closed

\* A run that saves message m, or nothing, and is at a place where no tool runs.
LEMMA RunTogether ==
    ASSUME NEW p, Callers = {p}, ControlInv(p), PlacedInv(p), TogetherInv, ItemsInv(p), AgentStep
    PROVE  TogetherInv'
<1>1. run \in RunShape(run) /\ connected = TRUE /\ nextId \in Nat
      /\ (run.at = "none" => run.out = <<>> /\ run.saving = None)
  BY BranchIds DEF ControlInv, Controlled
<1>2. run.out \in Seq(Outside) /\ run.saving \in Message \union {None}
      /\ steerQ \in Seq(Outside) /\ followQ \in Seq(Outside)
  BY DEF ItemsInv
<1>3. \A m \in Message : m # None /\ m \in EntryType
  BY MessageIsSomething, InputIsMessage
<1>4. CASE Deliver
  <2> DEFINE m == Head(run.out)
  <2>1. m \in Outside /\ run.at # "tools"
    BY <1>2, <1>4, TakingOutside DEF Deliver, TogetherInv
  <2>2. /\ run' = [run EXCEPT !.out = Tail(@), !.saving = m]
        /\ messages' = Append(messages, m) /\ UNCHANGED branch /\ run.saving = None
    BY <1>1, <1>4 DEF Deliver
  <2>. HIDE DEF m
  <2>3. run'.saving = m /\ run'.at = run.at
    BY <1>1, <2>2 DEF RunShape
  <2>4. Closed(messages) /\ Closed(branch)
    BY <2>1, <2>2 DEF TogetherInv
  <2>5. ~IsCall(m) /\ ~IsResult(m) /\ m \in EntryType
    BY <2>1, OutsideIsNeither
  <2>6. Closed(messages')
    BY <2>2, <2>4, <2>5, ClosedAdded
  <2>. QED
    BY <2>1, <2>2, <2>3, <2>4, <2>5, <2>6 DEF TogetherInv
<1>5. CASE Save
  <2> DEFINE m == run.saving
  <2>1. /\ m \in Message /\ m \in EntryType /\ m # None
        /\ run' = [run EXCEPT !.saving = None] /\ branch' = Append(branch, m) /\ UNCHANGED messages
    BY <1>2, <1>3, <1>5 DEF Save
  <2>2. run'.saving = None /\ run'.at = run.at /\ run'.out = run.out
    BY <1>1, <2>1 DEF RunShape
  <2>3. IF run.at = "tools" THEN Asking(messages') ELSE Closed(messages')
    BY <2>1 DEF TogetherInv
  <2>4. /\ IF IsResult(m) THEN Asking(branch) ELSE Closed(branch)
        /\ run.at = "tools" <=> IsCall(m)
        /\ run.at = "tools" => run.out = <<>>
    BY <2>1 DEF TogetherInv
  <2>. HIDE DEF m
  <2>5. IF IsCall(m) THEN Asking(branch') ELSE Closed(branch')
    BY <2>1, <2>4, ClosedAdded, CallIsNoResult
  <2>. QED
    BY <2>1, <2>2, <2>3, <2>4, <2>5 DEF TogetherInv
<1>6. CASE Respond
  <2>1. PICK kind : /\ kind \in {"stop", "aborted"} \union scenario.kinds
                    /\ Produce(AssistantMsg(nextId, kind), AfterReply(kind))
    BY <1>6 DEF Respond
  <2>2. kind \in AllReplies
    BY <2>1, SessionAssumption DEF PlacedInv, AllReplies
  <2> DEFINE m == AssistantMsg(nextId, kind)
             at == AfterReply(kind)
  <2>3. m \in Message /\ IsAssistant(m) /\ m.is = kind /\ m \in EntryType /\ m # None
    BY <1>1, <1>3, <2>2, NewReply
  <2>4. at = "tools" <=> kind = "calls"
    BY DEF AfterReply, ErrorKinds
  <2>5. /\ run' = [run EXCEPT !.at = at, !.saving = m]
        /\ messages' = Append(messages, m) /\ UNCHANGED branch
        /\ run.saving = None /\ run.at \in {"ask", "first"} /\ run.out = <<>>
    BY <1>1, <1>6, <2>1 DEF Respond, Produce, Ready
  <2>. HIDE DEF m, at
  <2>6. run'.saving = m /\ run'.at = at /\ run'.out = <<>>
    BY <1>1, <2>5 DEF RunShape
  <2>7. ~IsResult(m) /\ (IsCall(m) <=> at = "tools")
    BY <2>3, <2>4 DEF IsCall, IsKind, IsAssistant, IsResult
  <2>8. Closed(messages) /\ Closed(branch)
    BY <2>5 DEF TogetherInv
  <2>9. IF IsCall(m) THEN Asking(messages') ELSE Closed(messages')
    BY <2>3, <2>5, <2>7, <2>8, ClosedAdded
  <2>. QED
    BY <2>3, <2>5, <2>6, <2>7, <2>8, <2>9 DEF TogetherInv
<1>7. CASE ToolDone
  <2> DEFINE m == OtherMsg(nextId, "toolResult")
  <2>1. m \in Message /\ IsResult(m) /\ m \in EntryType /\ m # None
    BY <1>1, <1>3, NewResult DEF IsResult
  <2>2. /\ run' = [run EXCEPT !.at = "answered", !.saving = m]
        /\ messages' = Append(messages, m) /\ UNCHANGED branch
        /\ run.saving = None /\ run.at = "tools"
    BY <1>1, <1>7 DEF ToolDone, Produce, Ready
  <2>. HIDE DEF m
  <2>3. run'.saving = m /\ run'.at = "answered" /\ ~IsCall(m)
    BY <1>1, <2>1, <2>2, CallIsNoResult DEF RunShape
  <2>4. Asking(messages) /\ Asking(branch)
    BY <2>2 DEF TogetherInv
  <2>5. Closed(messages')
    BY <2>1, <2>2, <2>4, ClosedAdded
  <2>. QED
    BY <2>1, <2>2, <2>3, <2>4, <2>5 DEF TogetherInv
<1>8. CASE Poll
  BY <1>1, <1>8, Together DEF Poll, Ready, FromSteering, FromFollowUps, RunShape, TogetherInv
<1>9. CASE RunEnds
  BY <1>9, Together DEF RunEnds, Ready, NoRun, TogetherInv
<1>. QED
  BY <1>4, <1>5, <1>6, <1>7, <1>8, <1>9 DEF AgentStep

LEMMA RunItems ==
    ASSUME NEW p, Callers = {p}, ControlInv(p), PlacedInv(p), TogetherInv, ItemsInv(p), AgentStep
    PROVE  ItemsInv(p)'
<1>1. /\ run \in RunShape(run) /\ nextId \in Nat /\ connected = TRUE
      /\ (run.at = "none" => run.out = <<>> /\ run.saving = None)
      /\ (run.at # "none" => run.by = p /\ call[p].at = "running")
      /\ call = [q \in {p} |-> call[p]] /\ call[p] \in CallShape(call[p])
  BY BranchIds DEF ControlInv, Controlled
<1>2. /\ steerQ \in Seq(Outside) /\ followQ \in Seq(Outside) /\ nextTurn \in Seq(Outside)
      /\ bash \in Seq(Outside) /\ run.out \in Seq(Outside) /\ call[p].batch \in Seq(Outside)
      /\ run.saving \in Message \union {None} /\ KeepsOwn(branch)
  BY DEF ItemsInv
<1>3. branch \in Seq(EntryType)
  BY DEF TogetherInv, Asking, Closed
<1>4. <<>> \in Seq(Outside)
  BY <1>2, TakingOutside
<1>5. run.at # "none"
  BY <1>1 DEF AgentStep, Deliver, Save, Respond, ToolDone, Poll, RunEnds, Ready
<1>6. UNCHANGED <<nextTurn, bash>> /\ call'[p].batch = call[p].batch /\ call'[p].at # "summarizing"
  <2>1. CASE RunEnds
    <3> DEFINE c == [call[p] EXCEPT !.at = "post"]
    <3>1. call' = [call EXCEPT ![p].at = "post"] /\ UNCHANGED <<nextTurn, bash>>
      BY <1>1, <2>1, <1>5 DEF RunEnds
    <3>2. call'[p] = c
      BY <1>1, <3>1
    <3>3. c.at = "post" /\ c.batch = call[p].batch
      BY <1>1 DEF CallShape
    <3>. HIDE DEF c
    <3>. QED
      BY <3>1, <3>2, <3>3
  <2>2. CASE UNCHANGED <<call, nextTurn, bash>>
    BY <1>1, <1>5, <2>2
  <2>. QED
    BY <2>1, <2>2 DEF AgentStep, Deliver, Save, Respond, ToolDone, Poll, Produce
<1>7. ASSUME steerQ' \in Seq(Outside), followQ' \in Seq(Outside), run'.out \in Seq(Outside),
             run'.saving \in Message \union {None}, KeepsOwn(branch')
      PROVE  ItemsInv(p)'
  BY <1>2, <1>6, <1>7 DEF ItemsInv
<1>8. CASE Deliver
  BY <1>1, <1>2, <1>7, <1>8, TakingOutside DEF Deliver, Outside, RunShape
<1>9. CASE Save
  BY <1>1, <1>2, <1>3, <1>7, <1>9, MessageKeepsOwn DEF Save, RunShape
<1>10. ASSUME NEW m \in Message, NEW at, Produce(m, at)
       PROVE  ItemsInv(p)'
  BY <1>1, <1>2, <1>7, <1>10 DEF Produce, RunShape
<1>11. CASE Respond
  <2>1. PICK kind : /\ kind \in {"stop", "aborted"} \union scenario.kinds
                    /\ Produce(AssistantMsg(nextId, kind), AfterReply(kind))
    BY <1>11 DEF Respond
  <2>2. kind \in AllReplies
    BY <2>1, SessionAssumption DEF PlacedInv, AllReplies
  <2>. QED
    BY <1>1, <1>10, <2>1, <2>2, NewReply
<1>12. CASE ToolDone
  BY <1>1, <1>10, <1>12, NewResult DEF ToolDone
<1>13. CASE Poll
  <2>1. UNCHANGED branch
    BY <1>13 DEF Poll
  <2>2. CASE steerQ # <<>> /\ \E at : FromSteering(at)
    BY <1>1, <1>2, <1>7, <2>1, <2>2, TakingOutside DEF FromSteering, RunShape
  <2>3. CASE followQ # <<>> /\ FromFollowUps("ask")
    BY <1>1, <1>2, <1>7, <2>1, <2>3, TakingOutside DEF FromFollowUps, RunShape
  <2>4. CASE (\E at \in {"end", "ask"} : run' = [run EXCEPT !.at = at]) /\ UNCHANGED <<steerQ, followQ>>
    BY <1>1, <1>2, <1>7, <2>1, <2>4 DEF RunShape
  <2>. QED
    BY <1>13, <2>2, <2>3, <2>4 DEF Poll
<1>14. CASE RunEnds
  BY <1>2, <1>4, <1>7, <1>14 DEF RunEnds, NoRun
<1>. QED
  BY <1>8, <1>9, <1>11, <1>12, <1>13, <1>14 DEF AgentStep

\* What a decision does to the transcript, and where the call is then.
LEMMA DecideLists ==
    ASSUME NEW p, ControlInv(p), NEW goOn, NEW msgs, NEW br, Decide(p, goOn, msgs, br)
    PROVE  messages' \in {msgs, msgs \o bash} /\ call'[p].at \in {"continue", "before", "settling"}
<1>1. call = [q \in {p} |-> call[p]] /\ call[p] \in CallShape(call[p])
  BY DEF ControlInv, Controlled
<1>2. CASE goOn
  <2> DEFINE c == [call[p] EXCEPT !.at = "continue", !.phase = IF @ = "check" THEN "pre" ELSE @,
                                  !.msg = None, !.cut = 0]
  <2>1. /\ call' = [call EXCEPT ![p].at = "continue", ![p].phase = IF @ = "check" THEN "pre" ELSE @,
                                ![p].msg = None, ![p].cut = 0]
        /\ messages' = msgs
    BY <1>2 DEF Decide
  <2>2. call'[p] = c
    BY <1>1, <2>1
  <2>3. c.at = "continue"
    BY <1>1 DEF CallShape
  <2>. HIDE DEF c
  <2>. QED
    BY <2>1, <2>2, <2>3
<1>3. CASE ~goOn
  <2>1. PICK c : call' = [call EXCEPT ![p] = c] /\ c.at \in {"before", "settling"}
                 /\ messages' \in {msgs, msgs \o bash}
    <3> DEFINE b == [NoCall EXCEPT !.at = "before", !.batch = call[p].batch \o nextTurn]
               d == [NoCall EXCEPT !.at = "settling"]
    <3>1. b.at = "before" /\ d.at = "settling"
      BY DEF NoCall
    <3>2. (call' = [call EXCEPT ![p] = b] \/ call' = [call EXCEPT ![p] = d])
          /\ messages' \in {msgs, msgs \o bash}
      BY <1>3 DEF Decide, Build, Flush
    <3>. HIDE DEF b, d
    <3>. QED
      BY <3>1, <3>2
  <2>2. call'[p] = c
    BY <2>1, CallEntered
  <2>. QED
    BY <2>1, <2>2
<1>. QED
  BY <1>2, <1>3

\* What becomes of the transcript without a compaction, and where one begins.
ListsAfter(p) ==
    /\ messages' \in {messages, messages \o bash, Strip(messages, AllReplies)}
    /\ call'[p].at = "summarizing" => branch' = branch /\ call'[p].cut \in Cuts(branch)

LEMMA QueuedLists ==
    ASSUME NEW p, ControlInv(p), DecideQueued(p)
    PROVE  ListsAfter(p)
BY DecideLists DEF DecideQueued, ListsAfter

LEMMA CheckLists ==
    ASSUME NEW p, ControlInv(p), NEW m, NEW skipAborted, Check(p, m, skipAborted)
    PROVE  ListsAfter(p)
<1>1. CASE DecideQueued(p)
  BY <1>1, QueuedLists
<1>2. ASSUME NEW recover, NEW strip \in BOOLEAN,
             call' = [call EXCEPT ![p].at = "prepare", ![p].recover = recover, ![p].msg = None],
             messages' = IF strip THEN Strip(messages, AllReplies) ELSE messages
      PROVE  ListsAfter(p)
  <2> DEFINE c == [call[p] EXCEPT !.at = "prepare", !.recover = recover, !.msg = None]
  <2>1. call = [q \in {p} |-> call[p]] /\ call[p] \in CallShape(call[p])
    BY DEF ControlInv, Controlled
  <2>2. call'[p] = c
    BY <1>2, <2>1
  <2>3. c.at = "prepare"
    BY <2>1 DEF CallShape
  <2>. HIDE DEF c
  <2>. QED
    BY <1>2, <2>2, <2>3 DEF ListsAfter
<1>. QED
  BY <1>1, <1>2 DEF Check

LEMMA DecidesLists ==
    ASSUME NEW p, ControlInv(p), Decides(p)
    PROVE  ListsAfter(p)
<1>1. call = [q \in {p} |-> call[p]] /\ call[p] \in CallShape(call[p])
  BY DEF ControlInv, Controlled
<1>2. CASE PostRun(p)
  <2>1. CASE last = None
    BY <1>2, <2>1, DecideLists DEF PostRun, ListsAfter
  <2>2. CASE last # None /\ IsKind(last, {"error"}) /\ retries < MaxRetries
    <3> DEFINE c == [call[p] EXCEPT !.at = "sleeping", !.msg = last]
    <3>1. /\ messages' = Strip(messages, AllReplies)
          /\ call' = [call EXCEPT ![p].at = "sleeping", ![p].msg = last]
      BY <1>2, <2>2 DEF PostRun
    <3>2. call'[p] = c
      BY <1>1, <3>1
    <3>3. c.at = "sleeping"
      BY <1>1 DEF CallShape
    <3>. HIDE DEF c
    <3>. QED
      BY <3>1, <3>2, <3>3 DEF ListsAfter
  <2>3. CASE last # None /\ ~(IsKind(last, {"error"}) /\ retries < MaxRetries)
    BY <1>2, <2>3, CheckLists DEF PostRun
  <2>. QED
    BY <2>1, <2>2, <2>3
<1>3. CASE Wake(p)
  BY <1>3, DecideLists DEF Wake, ListsAfter
<1>4. CASE RetryCancelled(p)
  BY <1>4, CheckLists DEF RetryCancelled
<1>5. CASE Prepare(p)
  <2>1. ASSUME NEW cut \in Cuts(branch),
               call' = [call EXCEPT ![p].at = "summarizing", ![p].cut = cut],
               UNCHANGED <<messages, branch, bash, nextTurn, active>>
        PROVE  ListsAfter(p)
    <3> DEFINE c == [call[p] EXCEPT !.at = "summarizing", !.cut = cut]
    <3>1. call'[p] = c
      BY <1>1, <2>1
    <3>2. c.cut = cut
      BY <1>1 DEF CallShape
    <3>. HIDE DEF c
    <3>. QED
      BY <2>1, <3>1, <3>2 DEF ListsAfter
  <2>2. DecideQueued(p) \/ \E cut \in Cuts(branch) :
           /\ call' = [call EXCEPT ![p].at = "summarizing", ![p].cut = cut]
           /\ UNCHANGED <<messages, branch, bash, nextTurn, active>>
    BY <1>5 DEF Prepare
  <2>. QED
    BY <2>1, <2>2, QueuedLists
<1>6. CASE SummaryFails(p)
  BY <1>6, QueuedLists DEF SummaryFails
<1>7. CASE Accepted(p)
  BY <1>7, QueuedLists, CheckLists DEF Accepted
<1>. QED
  BY <1>2, <1>3, <1>4, <1>5, <1>6, <1>7 DEF Decides

\* The calls' own lists after a step that moves them.
LEMMA MovedItems ==
    ASSUME NEW p, ItemsInv(p), NEW c, NEW br, Moves(p, c, br), UNCHANGED <<steerQ, followQ, run>>,
           br \in Seq(EntryType), KeepsOwn(br),
           call'[p].at = "summarizing" => CutsWell(branch', call'[p].cut)
    PROVE  ItemsInv(p)'
<1>1. /\ steerQ \in Seq(Outside) /\ followQ \in Seq(Outside) /\ nextTurn \in Seq(Outside)
      /\ bash \in Seq(Outside) /\ run.out \in Seq(Outside) /\ call[p].batch \in Seq(Outside)
      /\ run.saving \in Message \union {None}
  BY DEF ItemsInv
<1>2. <<>> \in Seq(Outside) /\ call[p].batch \o nextTurn \in Seq(Outside)
  BY <1>1, TakingOutside
<1>3. call'[p] = c
  BY DEF Moves
<1>4. call'[p].batch \in Seq(Outside) /\ nextTurn' \in Seq(Outside)
  BY <1>1, <1>2, <1>3 DEF Moves
<1>5. KeepsOwn(br \o bash)
  BY <1>1, JoinKeepsOwn
<1>6. KeepsOwn(branch') /\ bash' \in Seq(Outside)
  BY <1>1, <1>2, <1>5 DEF Moves
<1>. QED
  BY <1>1, <1>4, <1>6 DEF ItemsInv

LEMMA CallTogether ==
    ASSUME NEW p, Callers = {p}, ControlInv(p), PlacedInv(p), TogetherInv, ItemsInv(p), CallStep(p)
    PROVE  TogetherInv' /\ ItemsInv(p)'
<1>1. call = [q \in {p} |-> call[p]] /\ call[p] \in CallShape(call[p])
      /\ (call[p].at # "running" => run.at = "none") /\ nextId \in Nat
  BY BranchIds DEF ControlInv, Controlled
<1>2. call[p].at # "running"
  BY DEF CallStep, PostRun, Wake, RetryCancelled, Prepare, SummaryFails, Compacted, Continue,
         ContinueThrows, Settled, Refused, Accepted, BeforeDone
<1>3. /\ Closed(messages) /\ Closed(branch) /\ run.saving = None /\ run.out = <<>> /\ run.at = "none"
      /\ messages \in Seq(EntryType) /\ branch \in Seq(EntryType)
  BY <1>1, <1>2, NoToolRuns
<1>4. /\ steerQ \in Seq(Outside) /\ followQ \in Seq(Outside) /\ nextTurn \in Seq(Outside)
      /\ bash \in Seq(Outside) /\ call[p].batch \in Seq(Outside) /\ KeepsOwn(branch)
  BY DEF ItemsInv
<1>5. Closed(messages \o bash) /\ Closed(branch \o bash) /\ KeepsOwn(branch \o bash)
  BY <1>3, <1>4, ClosedJoined, JoinKeepsOwn
<1>6. <<>> \in Seq(Outside)
  BY <1>4, TakingOutside
<1>7. CASE Decides(p)
  <2>1. PICK c : Moves(p, c, branch)
    BY <1>7, DecidesEffect
  <2>2. UNCHANGED <<steerQ, followQ, run>>
    BY <1>7, DecidesEffect
  <2>3. ListsAfter(p)
    BY <1>7, DecidesLists
  <2>4. Closed(messages')
    BY <1>3, <1>5, <2>3, ClosedStripped DEF ListsAfter
  <2>5. Closed(branch')
    BY <1>3, <1>5, <2>1 DEF Moves
  <2>6. TogetherInv'
    BY <1>3, <2>2, <2>4, <2>5, Together
  <2>7. call'[p].at = "summarizing" => CutsWell(branch', call'[p].cut)
    BY <1>3, <1>4, <2>3, CutIsWell DEF ListsAfter
  <2>. QED
    BY <1>3, <1>4, <2>1, <2>2, <2>6, <2>7, MovedItems
<1>8. CASE Compacted(p)
  <2> DEFINE saved == Append(branch, Compaction(nextId, call[p].cut))
             context == IF call[p].recover THEN Strip(Context(saved), ErrorKinds) ELSE Context(saved)
  <2>1. /\ Decide(p, call[p].recover \/ HasQueued, context, saved)
        /\ call[p].at = "summarizing" /\ UNCHANGED <<steerQ, followQ, run>>
    BY <1>8 DEF Compacted
  <2>2. PICK c : Moves(p, c, saved)
    BY <1>8, CompactedEffect
  <2>3. CutsWell(branch, call[p].cut)
    BY <2>1 DEF ItemsInv
  <2>4. call[p].cut # nextId /\ call[p].cut \in IdsIn(branch)
    BY <2>3, BranchIds DEF CutsWell, IdsIn
  <2>5. Closed(saved) /\ Closed(Context(saved))
    BY <1>1, <1>3, <2>3, <2>4, ClosedCompacted DEF CutsWell, MayBegin
  <2>6. KeepsOwn(saved)
    BY <1>1, <1>3, <1>4, <2>4, CompactionKeepsOwn
  <2>. HIDE DEF saved
  <2>7. Closed(context)
    BY <2>5, ClosedStripped
  <2>. HIDE DEF context
  <2>8. messages' \in {context, context \o bash} /\ call'[p].at # "summarizing"
    BY <2>1, DecideLists
  <2>9. Closed(messages')
    BY <1>4, <2>7, <2>8, ClosedJoined
  <2>10. Closed(branch')
    BY <1>4, <2>2, <2>5, ClosedJoined DEF Moves
  <2>11. TogetherInv'
    BY <1>3, <2>1, <2>9, <2>10, Together
  <2>12. saved \in Seq(EntryType)
    BY <2>5 DEF Closed
  <2>. QED
    BY <2>1, <2>2, <2>6, <2>8, <2>11, <2>12, MovedItems
\* A run starts with messages from outside, or the call is over.
<1>9. ASSUME NEW c, call'[p] = c, c.batch \in Seq(Outside), c.at # "summarizing",
             run'.at # "tools", run'.saving = None, run'.out \in Seq(Outside),
             steerQ' \in Seq(Outside), followQ' \in Seq(Outside), nextTurn' = nextTurn,
             \/ UNCHANGED <<messages, branch, bash>>
             \/ messages' = messages \o bash /\ branch' = branch \o bash /\ bash' = <<>>
      PROVE  TogetherInv' /\ ItemsInv(p)'
  BY <1>3, <1>4, <1>5, <1>6, <1>9, Together DEF ItemsInv
<1>10. NoCall.batch = <<>> /\ NoCall.at = "idle"
  BY DEF NoCall
<1>11. ASSUME NEW at, NEW out, NEW via, Start(p, at, out, via)
       PROVE  run'.at = at /\ run'.out = out /\ run'.saving = None
  BY <1>11 DEF Start, NoRun
<1>12. CASE Continue(p)
  <2> DEFINE c == [call[p] EXCEPT !.at = "running"]
  <2>1. /\ call' = [call EXCEPT ![p].at = "running"] /\ UNCHANGED <<messages, branch, bash, nextTurn>>
    BY <1>12 DEF Continue, Go
  <2>2. call'[p] = c
    BY <1>1, <2>1
  <2>3. c.at = "running" /\ c.batch = call[p].batch
    BY <1>1 DEF CallShape
  <2>. HIDE DEF c
  <2>4. \/ Start(p, "prompt", <<>>, "prompt") /\ UNCHANGED <<steerQ, followQ>>
        \/ /\ steerQ # <<>> /\ Start(p, "ask", <<Head(steerQ)>>, "steer")
           /\ steerQ' = Tail(steerQ) /\ UNCHANGED followQ
        \/ /\ followQ # <<>> /\ Start(p, "prompt", <<Head(followQ)>>, "followUp")
           /\ followQ' = Tail(followQ) /\ UNCHANGED steerQ
    BY <1>12 DEF Continue, NothingToSend, HasQueued
  <2>5. /\ run'.at # "tools" /\ run'.saving = None /\ run'.out \in Seq(Outside)
        /\ steerQ' \in Seq(Outside) /\ followQ' \in Seq(Outside)
    <3>1. CASE Start(p, "prompt", <<>>, "prompt") /\ UNCHANGED <<steerQ, followQ>>
      <4>1. run'.at = "prompt" /\ run'.out = <<>> /\ run'.saving = None
        BY <1>11, <3>1
      <4>. QED
        BY <1>4, <1>6, <3>1, <4>1
    <3>2. CASE /\ steerQ # <<>> /\ Start(p, "ask", <<Head(steerQ)>>, "steer")
               /\ steerQ' = Tail(steerQ) /\ UNCHANGED followQ
      <4>1. run'.at = "ask" /\ run'.out = <<Head(steerQ)>> /\ run'.saving = None
        BY <1>11, <3>2
      <4>. QED
        BY <1>4, <3>2, <4>1, TakingOutside
    <3>3. CASE /\ followQ # <<>> /\ Start(p, "prompt", <<Head(followQ)>>, "followUp")
               /\ followQ' = Tail(followQ) /\ UNCHANGED steerQ
      <4>1. run'.at = "prompt" /\ run'.out = <<Head(followQ)>> /\ run'.saving = None
        BY <1>11, <3>3
      <4>. QED
        BY <1>4, <3>3, <4>1, TakingOutside
    <3>. QED
      BY <2>4, <3>1, <3>2, <3>3
  <2>. QED
    BY <1>4, <1>9, <2>1, <2>2, <2>3, <2>5
<1>13. CASE ContinueThrows(p)
  <2>1. /\ UNCHANGED <<run, steerQ, followQ, nextTurn>>
        /\ messages' = messages \o bash /\ branch' = branch \o bash /\ bash' = <<>>
    BY <1>13 DEF ContinueThrows, Flush
  <2>2. PICK c : call' = [call EXCEPT ![p] = c] /\ c.batch = <<>> /\ c.at \in {"idle", "settling"}
    <3> DEFINE d == [NoCall EXCEPT !.at = "settling"]
    <3>1. d.batch = <<>> /\ d.at = "settling"
      BY DEF NoCall
    <3>2. call' = [call EXCEPT ![p] = d] \/ call' = [call EXCEPT ![p] = NoCall]
      BY <1>13 DEF ContinueThrows
    <3>. HIDE DEF d
    <3>. QED
      BY <1>10, <3>1, <3>2
  <2>3. call'[p] = c
    BY <2>2, CallEntered
  <2>. QED
    BY <1>3, <1>4, <1>6, <1>9, <2>1, <2>2, <2>3
<1>14. CASE Settled(p) \/ Refused(p)
  BY <1>3, <1>4, <1>6, <1>9, <1>10, <1>14, CallEntered DEF Settled, Refused, agentVars
<1>15. CASE BeforeDone(p)
  <2> DEFINE c == [NoCall EXCEPT !.at = "running", !.phase = "main"]
  <2>1. /\ call' = [call EXCEPT ![p] = c] /\ Start(p, "prompt", call[p].batch, "prompt")
        /\ UNCHANGED <<steerQ, followQ, nextTurn, messages, branch, bash>>
    BY <1>3, <1>15 DEF BeforeDone, RunPrompt
  <2>2. c.batch = <<>> /\ c.at = "running"
    BY DEF NoCall
  <2>. HIDE DEF c
  <2>3. call'[p] = c
    BY <2>1, CallEntered
  <2>. QED
    BY <1>4, <1>6, <1>9, <1>11, <2>1, <2>2, <2>3
<1>. QED
  BY <1>7, <1>8, <1>12, <1>13, <1>14, <1>15 DEF CallStep, Decides

\* The application puts something into an idle session at once only while no run
\* is hidden from it.
Undivided == {"custom", "bash"} \cap scenario.ways = {} \/ NoHiddenRun

LEMMA ApplicationTogether ==
    ASSUME NEW p, Callers = {p}, ControlInv(p), PlacedInv(p), Undivided, TogetherInv, ItemsInv(p),
           Application
    PROVE  TogetherInv' /\ ItemsInv(p)'
<1>1. /\ call = [q \in {p} |-> call[p]] /\ call[p] \in CallShape(call[p]) /\ run \in RunShape(run)
      /\ (call[p].at # "running" => run.at = "none") /\ nextId \in Nat
  BY BranchIds DEF ControlInv, Controlled
<1>2. /\ steerQ \in Seq(Outside) /\ followQ \in Seq(Outside) /\ nextTurn \in Seq(Outside)
      /\ bash \in Seq(Outside) /\ run.out \in Seq(Outside) /\ call[p].batch \in Seq(Outside)
      /\ run.saving \in Message \union {None} /\ KeepsOwn(branch)
      /\ call[p].at = "summarizing" => CutsWell(branch, call[p].cut)
  BY DEF ItemsInv
<1>3. messages \in Seq(EntryType) /\ branch \in Seq(EntryType)
  BY DEF TogetherInv, Asking, Closed
<1>4. /\ UserMsg(nextId) \in Outside /\ OtherMsg(nextId, "custom") \in Outside
      /\ OtherMsg(nextId, "bashExecution") \in Outside
  BY <1>1, NewOutside
<1>5. <<>> \in Seq(Outside)
  BY <1>2, TakingOutside
<1>6. ~Compact /\ ~ClearQueue
  <2>1. Compact => compacts < scenario.compacts
    BY DEF Compact
  <2>2. ClearQueue => "clear" \in scenario.ways
    BY DEF ClearQueue
  <2>. QED
    BY <2>1, <2>2 DEF PlacedInv, Steady
\* A message is queued or kept for later.
<1>7. ASSUME UNCHANGED <<messages, branch, run, call>>, steerQ' \in Seq(Outside),
             followQ' \in Seq(Outside), nextTurn' \in Seq(Outside), bash' \in Seq(Outside)
      PROVE  TogetherInv' /\ ItemsInv(p)'
  BY <1>2, <1>7 DEF TogetherInv, ItemsInv
\* A message m is put into the idle session at once.
<1>8. ASSUME NEW m \in Outside, NEW kind \in {"custom", "bash"}, Send(kind, m), ~active,
             messages' = Append(messages, m), branch' = Append(branch, m),
             UNCHANGED <<steerQ, followQ, nextTurn, bash, run, call>>
      PROVE  TogetherInv' /\ ItemsInv(p)'
  <2>1. run.at = "none"
    BY <1>8 DEF Undivided, NoHiddenRun, Send
  <2>2. Closed(messages) /\ Closed(branch) /\ run.saving = None
    BY <2>1, NoToolRuns
  <2>3. m \in EntryType /\ m \in Message /\ ~IsCall(m) /\ ~IsResult(m)
    BY <1>8, OutsideIsNeither
  <2>4. Closed(messages') /\ Closed(branch')
    BY <1>8, <2>2, <2>3, ClosedAdded
  <2>5. TogetherInv'
    BY <1>8, <2>1, <2>2, <2>4, Together
  <2>6. KeepsOwn(branch')
    BY <1>2, <1>3, <1>8, <2>3, MessageKeepsOwn
  <2>7. call[p].at = "summarizing" => CutsWell(branch', call[p].cut)
    <3>1. <<m>> \in Seq(Outside) /\ branch' = branch \o <<m>>
      BY <1>3, <1>8
    <3>. QED
      BY <1>2, <1>3, <3>1, CutStays
  <2>. QED
    BY <1>2, <1>8, <2>5, <2>6, <2>7 DEF ItemsInv
<1>9. CASE Prompt(p)
  <2> DEFINE c == [NoCall EXCEPT !.at = "auth", !.batch = <<UserMsg(nextId)>>]
  <2>1. /\ call' = [call EXCEPT ![p] = c] /\ UNCHANGED <<steerQ, followQ, run, nextTurn>>
        /\ messages' = messages \o bash /\ branch' = branch \o bash /\ bash' = <<>>
        /\ call[p].at = "idle"
    BY <1>9 DEF Prompt, Flush
  <2>2. c.at = "auth" /\ c.batch = <<UserMsg(nextId)>>
    BY DEF NoCall
  <2>. HIDE DEF c
  <2>3. call'[p] = c /\ c.batch \in Seq(Outside)
    BY <1>2, <1>4, <2>1, <2>2, CallEntered, TakingOutside
  <2>4. run.at = "none"
    BY <1>1, <2>1
  <2>5. Closed(messages) /\ Closed(branch) /\ run.saving = None
    BY <2>4, NoToolRuns
  <2>6. Closed(messages') /\ Closed(branch') /\ KeepsOwn(branch')
    BY <1>2, <1>3, <2>1, <2>5, ClosedJoined, JoinKeepsOwn
  <2>7. TogetherInv'
    BY <2>1, <2>4, <2>5, <2>6, Together
  <2>. QED
    BY <1>2, <1>5, <2>1, <2>2, <2>3, <2>6, <2>7 DEF ItemsInv
<1>10. CASE SendTurn(p)
  <2> DEFINE c == [NoCall EXCEPT !.at = "running", !.phase = "main"]
  <2>1. run.at = "none"
    BY <1>1, <1>10 DEF SendTurn
  <2>2. /\ call' = [call EXCEPT ![p] = c] /\ Start(p, "prompt", <<OtherMsg(nextId, "custom")>>, "prompt")
        /\ UNCHANGED <<steerQ, followQ, nextTurn, messages, branch, bash>>
    BY <1>10, <2>1 DEF SendTurn, RunPrompt
  <2>3. run'.at = "prompt" /\ run'.out = <<OtherMsg(nextId, "custom")>> /\ run'.saving = None
    BY <2>2 DEF Start, NoRun
  <2>4. c.batch = <<>> /\ c.at = "running"
    BY DEF NoCall
  <2>. HIDE DEF c
  <2>5. call'[p] = c
    BY <2>2, CallEntered
  <2>6. run'.out \in Seq(Outside)
    BY <1>2, <1>4, <2>3, TakingOutside
  <2>7. Closed(messages') /\ Closed(branch')
    BY <2>1, <2>2, NoToolRuns
  <2>8. TogetherInv'
    BY <2>3, <2>7, Together
  <2>. QED
    BY <1>2, <1>5, <2>2, <2>3, <2>4, <2>5, <2>6, <2>8 DEF ItemsInv
<1>11. CASE Steer \/ FollowUp
  <2>1. /\ UNCHANGED <<messages, branch, run, call, nextTurn, bash>>
        /\ steerQ' \in {steerQ, Append(steerQ, UserMsg(nextId))}
        /\ followQ' \in {followQ, Append(followQ, UserMsg(nextId))}
    BY <1>11 DEF Steer, FollowUp
  <2> DEFINE m == UserMsg(nextId)
  <2>2. m \in Outside
    BY <1>4
  <2>. HIDE DEF m
  <2>3. Append(steerQ, m) \in Seq(Outside) /\ Append(followQ, m) \in Seq(Outside)
    BY <1>2, <2>2, TakingOutside
  <2>4. steerQ' \in Seq(Outside) /\ followQ' \in Seq(Outside)
    BY <1>2, <2>1, <2>3 DEF m
  <2>5. nextTurn' \in Seq(Outside) /\ bash' \in Seq(Outside)
    BY <1>2, <2>1
  <2>. QED
    BY <1>7, <2>1, <2>4, <2>5
<1>12. CASE SendNextTurn
  BY <1>2, <1>4, <1>7, <1>12, TakingOutside DEF SendNextTurn, agentVars
<1>13. CASE SendCustom
  <2> DEFINE m == OtherMsg(nextId, "custom")
  <2>1. m \in Outside /\ Send("custom", m) /\ UNCHANGED <<run, call, nextTurn, bash>>
    BY <1>4, <1>13 DEF SendCustom
  <2>2. \/ /\ active /\ UNCHANGED <<messages, branch>>
           /\ steerQ' \in {steerQ, Append(steerQ, m)} /\ followQ' \in {followQ, Append(followQ, m)}
        \/ /\ ~active /\ messages' = Append(messages, m) /\ branch' = Append(branch, m)
           /\ UNCHANGED <<steerQ, followQ>>
    BY <1>13 DEF SendCustom
  <2>. HIDE DEF m
  <2>3. CASE active
    <3>1. Append(steerQ, m) \in Seq(Outside) /\ Append(followQ, m) \in Seq(Outside)
      BY <1>2, <2>1, TakingOutside
    <3>2. steerQ' \in Seq(Outside) /\ followQ' \in Seq(Outside)
      BY <1>2, <2>2, <2>3, <3>1
    <3>3. nextTurn' \in Seq(Outside) /\ bash' \in Seq(Outside) /\ UNCHANGED <<messages, branch, run, call>>
      BY <1>2, <2>1, <2>2, <2>3
    <3>. QED
      BY <1>7, <3>2, <3>3
  <2>4. CASE ~active
    BY <1>8, <2>1, <2>2, <2>4
  <2>. QED
    BY <2>3, <2>4
<1>14. CASE RecordBash
  <2> DEFINE m == OtherMsg(nextId, "bashExecution")
  <2>1. m \in Outside /\ Send("bash", m) /\ UNCHANGED <<run, call, nextTurn, steerQ, followQ>>
    BY <1>4, <1>14 DEF RecordBash
  <2>2. \/ active /\ UNCHANGED <<messages, branch>> /\ bash' = Append(bash, m)
        \/ /\ ~active /\ messages' = Append(messages, m) /\ branch' = Append(branch, m)
           /\ UNCHANGED bash
    BY <1>14 DEF RecordBash
  <2>. HIDE DEF m
  <2>3. CASE active
    BY <1>2, <1>7, <2>1, <2>2, <2>3, TakingOutside
  <2>4. CASE ~active
    BY <1>8, <2>1, <2>2, <2>4
  <2>. QED
    BY <2>3, <2>4
<1>15. CASE Abort
  <2> DEFINE c == IF call[p].at = "sleeping" THEN [call[p] EXCEPT !.at = "cancelled"] ELSE call[p]
             r == IF run.at = "none" THEN run ELSE [run EXCEPT !.aborted = TRUE]
  <2>1. /\ call' = [q \in {p} |-> c] /\ run' = r
        /\ UNCHANGED <<messages, branch, steerQ, followQ, nextTurn, bash>>
    BY <1>1, <1>15 DEF Abort, AbortAll
  <2>2. r.at = run.at /\ r.out = run.out /\ r.saving = run.saving
    BY <1>1 DEF RunShape
  <2>3. c.batch = call[p].batch /\ c.cut = call[p].cut /\ (c.at = "summarizing" => call[p].at = "summarizing")
    BY <1>1 DEF CallShape
  <2>. HIDE DEF c, r
  <2>4. call'[p] = c
    BY <2>1
  <2>5. TogetherInv'
    BY <2>1, <2>2 DEF TogetherInv
  <2>6. /\ run'.out = run.out /\ run'.saving = run.saving /\ call'[p].batch = call[p].batch
        /\ call'[p].cut = call[p].cut /\ (call'[p].at = "summarizing" => call[p].at = "summarizing")
    BY <2>1, <2>2, <2>3, <2>4
  <2>. QED
    BY <1>2, <2>1, <2>5, <2>6 DEF ItemsInv
<1>. QED
  BY <1>1, <1>6, <1>9, <1>10, <1>11, <1>12, <1>13, <1>14, <1>15 DEF Application

LEMMA TogetherStep ==
    ASSUME NEW p, Callers = {p}, ControlInv(p), PlacedInv(p), Undivided, TogetherInv, ItemsInv(p),
           [Next]_vars
    PROVE  TogetherInv' /\ ItemsInv(p)'
<1>1. CASE UNCHANGED vars
  BY <1>1 DEF vars, agentVars, TogetherInv, ItemsInv
<1>2. CASE Next
  <2>1. ~CompStep
    BY DEF PlacedInv, NoComp, CompStep, CompactPrepare, CompactDone
  <2>. QED
    BY <1>2, <2>1, RunTogether, RunItems, CallTogether, ApplicationTogether DEF Next
<1>. QED
  BY <1>1, <1>2

LEMMA TogetherInit ==
    ASSUME NEW p, Callers = {p}, Init
    PROVE  TogetherInv /\ ItemsInv(p)
<1>1. <<>> \in Seq(Outside) /\ <<>> \in Seq(EntryType) /\ DOMAIN <<>> = {}
  OBVIOUS
<1>2. /\ call[p] = NoCall /\ run = NoRun /\ messages = <<>> /\ branch = <<>> /\ steerQ = <<>>
      /\ followQ = <<>> /\ nextTurn = <<>> /\ bash = <<>>
  BY DEF Init
<1>3. call[p].batch = <<>> /\ call[p].at = "idle" /\ run.out = <<>> /\ run.saving = None /\ run.at = "none"
  BY <1>2 DEF NoCall, NoRun
<1>4. Closed(<<>>) /\ KeepsOwn(<<>>)
  BY <1>1 DEF Closed, Pairs, CallIsLast, KeepsOwn
<1>. QED
  BY <1>1, <1>2, <1>3, <1>4 DEF TogetherInv, ItemsInv

LEMMA TogetherFollows ==
    ASSUME TogetherInv
    PROVE  PairsTogether
<1>1. Pairs(messages) /\ Pairs(branch)
  BY DEF TogetherInv, Asking, Closed
<1>. QED
  BY <1>1 DEF PairsTogether, Pairs, IsCall, IsResult

(***************************************************************************)
(* Calls and results stay together: sessions that never fill the context   *)
(***************************************************************************)
\* The replies that call for a compaction.
Heavy == {"full", "length", "overflow"}
IsLight(m) == IsAssistant(m) => m.is \notin Heavy
AllLight(s) == \A i \in DOMAIN s : IsLight(s[i])

\* No reply calls for a compaction, so that none is made and no prompt continues a
\* run before it becomes active.
LightInv(p) ==
    /\ Heavy \cap scenario.kinds = {}
    /\ AllLight(messages)
    /\ run.saving # None => IsLight(run.saving)
    /\ last # None => last.is \notin Heavy
    /\ call[p].at \in {"sleeping", "cancelled"} => call[p].msg.is \notin Heavy
    /\ call[p].phase # "pre" /\ call[p].at \notin {"prepare", "summarizing"}

LEMMA LightAdded ==
    ASSUME NEW s \in Seq(EntryType), AllLight(s), NEW m \in EntryType, IsLight(m)
    PROVE  AllLight(Append(s, m))
BY Longer DEF AllLight

LEMMA LightJoined ==
    ASSUME NEW s \in Seq(EntryType), AllLight(s), NEW t \in Seq(Outside)
    PROVE  AllLight(s \o t)
<1> DEFINE r == s \o t
<1>1. t \in Seq(EntryType) /\ \A i \in DOMAIN t : IsLight(t[i])
  BY OutsideIsNeither DEF IsLight
<1>2. IsSeq(s) /\ IsSeq(t)
  BY <1>1 DEF IsSeq
<1>3. /\ Len(s) \in Nat /\ Len(t) \in Nat /\ DOMAIN s = 1..Len(s) /\ DOMAIN t = 1..Len(t)
      /\ DOMAIN r = 1..(Len(s) + Len(t))
      /\ \A i \in 1..Len(s) : r[i] = s[i]
      /\ \A i \in 1..Len(t) : r[Len(s) + i] = t[i]
  BY <1>2, JoinLists
<1>. HIDE DEF r
<1>4. ASSUME NEW i \in DOMAIN r
      PROVE  IsLight(r[i])
  <2>1. \/ i \in 1..Len(s)
        \/ i - Len(s) \in 1..Len(t) /\ i = Len(s) + (i - Len(s))
    BY <1>3
  <2>. QED
    BY <1>1, <1>3, <2>1 DEF AllLight
<1>5. AllLight(r)
  BY <1>4 DEF AllLight
<1>. QED
  BY <1>5 DEF r

LEMMA LightStripped ==
    ASSUME NEW s \in Seq(EntryType), AllLight(s), NEW kinds
    PROVE  AllLight(Strip(s, kinds))
<1>1. ASSUME s # <<>>
      PROVE  AllLight(Front(s))
  BY <1>1 DEF Front, AllLight
<1>. QED
  BY <1>1 DEF Strip, LastIs

LEMMA LastIsLight ==
    ASSUME NEW s \in Seq(EntryType), AllLight(s), LastAssistant(s, {}) # None
    PROVE  LastAssistant(s, {}).is \notin Heavy
<1> DEFINE at == {i \in DOMAIN s : IsAssistant(s[i]) /\ ~IsKind(s[i], {})}
<1>1. at # {} /\ LastAssistant(s, {}) = s[Max(at)]
  BY DEF LastAssistant
<1>2. at \in SUBSET (0..Len(s)) /\ Len(s) \in Nat
  OBVIOUS
<1>3. Max(at) \in at
  <2>. HIDE DEF at
  <2>. QED
    BY <1>1, <1>2, MaxIsIn
<1>4. Max(at) \in DOMAIN s /\ IsAssistant(s[Max(at)])
  <2> DEFINE k == Max(at)
  <2>1. k \in at
    BY <1>3
  <2>. HIDE DEF k
  <2>2. k \in DOMAIN s /\ IsAssistant(s[k])
    BY <2>1
  <2>. QED
    BY <2>2 DEF k
<1>. QED
  BY <1>1, <1>4 DEF AllLight, IsLight

\* Who is in no loop before a prompt is in none after a decision.
LEMMA LightDecision ==
    ASSUME NEW p, ControlInv(p), LightInv(p), NEW goOn, NEW msgs, NEW br, Decide(p, goOn, msgs, br),
           goOn => call[p].phase # "check"
    PROVE  call'[p].phase # "pre" /\ call'[p].at \in {"continue", "before", "settling"}
<1>1. call = [q \in {p} |-> call[p]] /\ call[p] \in CallShape(call[p]) /\ call[p].phase # "pre"
  BY DEF ControlInv, Controlled, LightInv
<1>2. CASE goOn
  <2> DEFINE c == [call[p] EXCEPT !.at = "continue", !.phase = IF @ = "check" THEN "pre" ELSE @,
                                  !.msg = None, !.cut = 0]
  <2>1. call' = [call EXCEPT ![p].at = "continue", ![p].phase = IF @ = "check" THEN "pre" ELSE @,
                             ![p].msg = None, ![p].cut = 0]
    BY <1>2 DEF Decide
  <2>2. call'[p] = c
    BY <1>1, <2>1
  <2>3. c.phase = call[p].phase
    BY <1>1, <1>2 DEF CallShape
  <2>. HIDE DEF c
  <2>. QED
    BY <1>1, <2>2, <2>3, DecideLists
<1>3. CASE ~goOn
  <2>1. PICK c : call' = [call EXCEPT ![p] = c] /\ c.phase = "check"
    <3> DEFINE b == [NoCall EXCEPT !.at = "before", !.batch = call[p].batch \o nextTurn]
               d == [NoCall EXCEPT !.at = "settling"]
    <3>1. b.phase = "check" /\ d.phase = "check"
      BY DEF NoCall
    <3>2. call' = [call EXCEPT ![p] = b] \/ call' = [call EXCEPT ![p] = d]
      BY <1>3 DEF Decide, Build, Flush
    <3>. HIDE DEF b, d
    <3>. QED
      BY <3>1, <3>2
  <2>2. call'[p] = c
    BY <2>1, CallEntered
  <2>. QED
    BY <2>1, <2>2, DecideLists
<1>. QED
  BY <1>2, <1>3

LEMMA LightCheck ==
    ASSUME NEW p, LightInv(p), NEW m, m.is \notin Heavy, NEW skipAborted, Check(p, m, skipAborted)
    PROVE  DecideQueued(p)
<1>1. ~Fills
  BY DEF LightInv, Heavy, Fills
<1>2. Outcomes(m, skipAborted) = {"none"}
  BY <1>1 DEF Heavy, Outcomes
<1>. QED
  BY <1>2 DEF Check

LEMMA RunLight ==
    ASSUME NEW p, Callers = {p}, ControlInv(p), PlacedInv(p), TogetherInv, ItemsInv(p), LightInv(p),
           UNCHANGED scenario, AgentStep
    PROVE  LightInv(p)'
<1>1. /\ run \in RunShape(run) /\ nextId \in Nat /\ connected = TRUE
      /\ (run.at = "none" => run.out = <<>> /\ run.saving = None)
      /\ (run.at # "none" => run.by = p)
      /\ call = [q \in {p} |-> call[p]] /\ call[p] \in CallShape(call[p])
  BY BranchIds DEF ControlInv, Controlled
<1>2. /\ messages \in Seq(EntryType) /\ run.out \in Seq(Outside) /\ run.saving \in Message \union {None}
      /\ AllLight(messages) /\ (run.saving # None => IsLight(run.saving))
      /\ (last # None => last.is \notin Heavy) /\ Heavy \cap scenario.kinds = {}
  BY DEF TogetherInv, Asking, Closed, ItemsInv, LightInv
<1>3. ASSUME UNCHANGED call, AllLight(messages'), run'.saving # None => IsLight(run'.saving),
             last' # None => last'.is \notin Heavy
      PROVE  LightInv(p)'
  BY <1>3 DEF LightInv
<1>4. CASE Deliver
  <2> DEFINE m == Head(run.out)
  <2>1. m \in Outside
    BY <1>2, <1>4, TakingOutside DEF Deliver
  <2>2. /\ run' = [run EXCEPT !.out = Tail(@), !.saving = m]
        /\ messages' = Append(messages, m) /\ UNCHANGED <<call, last>>
    BY <1>1, <1>4 DEF Deliver
  <2>. HIDE DEF m
  <2>3. run'.saving = m
    BY <1>1, <2>2 DEF RunShape
  <2>4. m \in EntryType /\ IsLight(m)
    BY <2>1, OutsideIsNeither DEF IsLight
  <2>. QED
    BY <1>2, <1>3, <2>2, <2>3, <2>4, LightAdded
<1>5. CASE Save
  BY <1>1, <1>2, <1>3, <1>5 DEF Save, flagVars, RunShape, IsLight
<1>6. ASSUME NEW m \in Message, NEW at, Produce(m, at), IsLight(m)
      PROVE  LightInv(p)'
  BY <1>1, <1>2, <1>3, <1>6, InputIsMessage, LightAdded DEF Produce, flagVars, RunShape
<1>7. CASE Respond
  <2>1. PICK kind : /\ kind \in {"stop", "aborted"} \union scenario.kinds
                    /\ Produce(AssistantMsg(nextId, kind), AfterReply(kind))
    BY <1>7 DEF Respond
  <2>2. kind \in AllReplies
    BY <2>1, SessionAssumption DEF PlacedInv, AllReplies
  <2>3. kind \notin Heavy
    BY <1>2, <2>1 DEF Heavy
  <2> DEFINE m == AssistantMsg(nextId, kind)
  <2>4. m \in Message /\ m.is = kind
    BY <1>1, <2>2, NewReply
  <2>. HIDE DEF m
  <2>5. IsLight(m)
    BY <2>3, <2>4 DEF IsLight
  <2>. QED
    BY <1>6, <2>1, <2>4, <2>5 DEF m
<1>8. CASE ToolDone
  <2> DEFINE m == OtherMsg(nextId, "toolResult")
  <2>1. m \in Message /\ ~IsAssistant(m) /\ Produce(m, "answered")
    BY <1>1, <1>8, NewResult DEF ToolDone
  <2>. HIDE DEF m
  <2>. QED
    BY <1>6, <2>1 DEF IsLight
<1>9. CASE Poll
  BY <1>1, <1>2, <1>3, <1>9 DEF Poll, Ready, flagVars, FromSteering, FromFollowUps, RunShape
<1>10. CASE RunEnds
  <2> DEFINE c == [call[p] EXCEPT !.at = "post"]
  <2>1. /\ run' = NoRun /\ UNCHANGED <<messages, last>> /\ run.at = "end"
        /\ call' = [call EXCEPT ![run.by].at = "post"]
    BY <1>10 DEF RunEnds, Ready, flagVars
  <2>2. call'[p] = c
    BY <1>1, <2>1
  <2>3. c.at = "post" /\ c.phase = call[p].phase
    BY <1>1 DEF CallShape
  <2>. HIDE DEF c
  <2>4. run'.saving = None
    BY <2>1 DEF NoRun
  <2>. QED
    BY <1>2, <2>1, <2>2, <2>3, <2>4 DEF LightInv
<1>. QED
  BY <1>4, <1>5, <1>7, <1>8, <1>9, <1>10 DEF AgentStep

LEMMA CallLight ==
    ASSUME NEW p, Callers = {p}, ControlInv(p), PlacedInv(p), TogetherInv, ItemsInv(p), LightInv(p),
           UNCHANGED scenario, CallStep(p)
    PROVE  LightInv(p)'
<1>1. /\ call = [q \in {p} |-> call[p]] /\ call[p] \in CallShape(call[p])
      /\ (call[p].at # "running" => run.at = "none")
      /\ (call[p].at \in InRun => call[p].phase # "check")
  BY DEF ControlInv, Controlled
<1>2. call[p].at # "running"
  BY DEF CallStep, PostRun, Wake, RetryCancelled, Prepare, SummaryFails, Compacted, Continue,
         ContinueThrows, Settled, Refused, Accepted, BeforeDone
<1>3. /\ run.saving = None /\ run.at = "none" /\ messages \in Seq(EntryType) /\ bash \in Seq(Outside)
  BY <1>1, <1>2, NoToolRuns DEF ItemsInv
<1>4. /\ AllLight(messages) /\ (last # None => last.is \notin Heavy)
      /\ call[p].phase # "pre" /\ call[p].at \notin {"prepare", "summarizing"}
      /\ (call[p].at \in {"sleeping", "cancelled"} => call[p].msg.is \notin Heavy)
  BY DEF LightInv
<1>5. AllLight(messages \o bash)
  BY <1>3, <1>4, LightJoined
<1>6. ASSUME messages' \in {messages, messages \o bash, Strip(messages, AllReplies)}, run'.saving = None,
             last' \in {None, last}, call'[p].phase # "pre",
             call'[p].at \notin {"prepare", "summarizing", "sleeping", "cancelled"}
      PROVE  LightInv(p)'
  BY <1>3, <1>4, <1>5, <1>6, LightStripped DEF LightInv
<1>7. ASSUME NEW goOn, Decide(p, goOn, messages, branch), goOn => call[p].phase # "check",
             last' \in {None, last}, UNCHANGED run
      PROVE  LightInv(p)'
  BY <1>3, <1>6, <1>7, DecideLists, LightDecision
<1>8. ASSUME DecideQueued(p), last' \in {None, last}, UNCHANGED run
      PROVE  LightInv(p)'
  BY <1>7, <1>8 DEF DecideQueued
<1>9. CASE PostRun(p)
  <2>1. last' = None /\ UNCHANGED run /\ call[p].at = "post"
    BY <1>9 DEF PostRun
  <2>2. CASE last = None
    BY <1>7, <1>9, <2>1, <2>2 DEF PostRun
  <2>3. CASE last # None /\ IsKind(last, {"error"}) /\ retries < MaxRetries
    <3> DEFINE c == [call[p] EXCEPT !.at = "sleeping", !.msg = last]
    <3>1. /\ messages' = Strip(messages, AllReplies)
          /\ call' = [call EXCEPT ![p].at = "sleeping", ![p].msg = last]
      BY <1>9, <2>3 DEF PostRun
    <3>2. call'[p] = c
      BY <1>1, <3>1
    <3>3. c.at = "sleeping" /\ c.msg = last /\ c.phase = call[p].phase
      BY <1>1 DEF CallShape
    <3>. HIDE DEF c
    <3>4. AllLight(messages')
      BY <1>3, <1>4, <3>1, LightStripped
    <3>. QED
      BY <1>3, <1>4, <2>1, <2>3, <3>2, <3>3, <3>4 DEF LightInv
  <2>4. CASE last # None /\ ~(IsKind(last, {"error"}) /\ retries < MaxRetries)
    BY <1>4, <1>8, <1>9, <2>1, <2>4, LightCheck DEF PostRun
  <2>. QED
    BY <2>2, <2>3, <2>4
<1>10. CASE Wake(p)
  BY <1>1, <1>7, <1>10 DEF Wake, InRun, flagVars
<1>11. CASE RetryCancelled(p)
  BY <1>4, <1>8, <1>11, LightCheck DEF RetryCancelled
<1>12. CASE Accepted(p)
  <2> DEFINE m == LastAssistant(messages, {})
  <2>1. UNCHANGED <<run, last>> /\ IF m = None THEN DecideQueued(p) ELSE Check(p, m, FALSE)
    BY <1>12 DEF Accepted
  <2>2. m # None => m.is \notin Heavy
    BY <1>3, <1>4, LastIsLight
  <2>. HIDE DEF m
  <2>. QED
    BY <1>8, <2>1, <2>2, LightCheck
<1>13. ~Prepare(p) /\ ~SummaryFails(p) /\ ~Compacted(p)
  BY <1>4 DEF Prepare, SummaryFails, Compacted
<1>14. CASE Continue(p)
  <2> DEFINE c == [call[p] EXCEPT !.at = "running"]
  <2>1. /\ call' = [call EXCEPT ![p].at = "running"] /\ UNCHANGED <<messages, last>>
    BY <1>14 DEF Continue, Go, flagVars
  <2>2. call'[p] = c
    BY <1>1, <2>1
  <2>3. c.at = "running" /\ c.phase = call[p].phase
    BY <1>1 DEF CallShape
  <2>. HIDE DEF c
  <2>4. ASSUME NEW at, NEW out, NEW via, Start(p, at, out, via)
        PROVE  run'.saving = None
    BY <2>4 DEF Start, NoRun
  <2>5. run'.saving = None
    BY <1>14, <2>4 DEF Continue
  <2>. QED
    BY <1>4, <1>6, <2>1, <2>2, <2>3, <2>5
<1>15. NoCall.phase = "check" /\ NoCall.at = "idle"
  BY DEF NoCall
<1>16. CASE ContinueThrows(p) \/ Settled(p) \/ Refused(p)
  <2>1. UNCHANGED <<run, last>> /\ messages' \in {messages, messages \o bash}
    BY <1>16 DEF ContinueThrows, Settled, Refused, Flush, agentVars, flagVars
  <2>2. PICK c : call' = [call EXCEPT ![p] = c] /\ c.phase = "check" /\ c.at \in {"idle", "settling"}
    <3> DEFINE d == [NoCall EXCEPT !.at = "settling"]
    <3>1. d.phase = "check" /\ d.at = "settling"
      BY DEF NoCall
    <3>2. call' = [call EXCEPT ![p] = d] \/ call' = [call EXCEPT ![p] = NoCall]
      BY <1>16 DEF ContinueThrows, Settled, Refused
    <3>. HIDE DEF d
    <3>. QED
      BY <1>15, <3>1, <3>2
  <2>3. call'[p] = c
    BY <2>2, CallEntered
  <2>. QED
    BY <1>3, <1>6, <2>1, <2>2, <2>3
<1>17. CASE BeforeDone(p)
  <2> DEFINE c == [NoCall EXCEPT !.at = "running", !.phase = "main"]
  <2>1. /\ call' = [call EXCEPT ![p] = c] /\ Start(p, "prompt", call[p].batch, "prompt")
        /\ UNCHANGED <<messages, last>>
    BY <1>3, <1>17 DEF BeforeDone, RunPrompt, flagVars
  <2>2. c.phase = "main" /\ c.at = "running"
    BY DEF NoCall
  <2>. HIDE DEF c
  <2>3. call'[p] = c
    BY <2>1, CallEntered
  <2>4. run'.saving = None
    BY <2>1 DEF Start, NoRun
  <2>. QED
    BY <1>6, <2>1, <2>2, <2>3, <2>4
<1>. QED
  BY <1>9, <1>10, <1>11, <1>12, <1>13, <1>14, <1>16, <1>17 DEF CallStep

LEMMA ApplicationLight ==
    ASSUME NEW p, Callers = {p}, ControlInv(p), PlacedInv(p), TogetherInv, ItemsInv(p), LightInv(p),
           UNCHANGED scenario, Application
    PROVE  LightInv(p)'
<1>1. /\ call = [q \in {p} |-> call[p]] /\ call[p] \in CallShape(call[p]) /\ run \in RunShape(run)
      /\ (call[p].at # "running" => run.at = "none") /\ nextId \in Nat
  BY BranchIds DEF ControlInv, Controlled
<1>2. messages \in Seq(EntryType) /\ bash \in Seq(Outside)
  BY DEF TogetherInv, Asking, Closed, ItemsInv
<1>3. /\ AllLight(messages) /\ (run.saving # None => IsLight(run.saving))
      /\ (last # None => last.is \notin Heavy)
      /\ call[p].phase # "pre" /\ call[p].at \notin {"prepare", "summarizing"}
      /\ (call[p].at \in {"sleeping", "cancelled"} => call[p].msg.is \notin Heavy)
  BY DEF LightInv
<1>4. ~Compact /\ ~ClearQueue
  <2>1. Compact => compacts < scenario.compacts
    BY DEF Compact
  <2>2. ClearQueue => "clear" \in scenario.ways
    BY DEF ClearQueue
  <2>. QED
    BY <2>1, <2>2 DEF PlacedInv, Steady
<1>5. ASSUME NEW m \in Outside, messages' \in {messages, Append(messages, m)},
             UNCHANGED <<run, call, last>>
      PROVE  LightInv(p)'
  BY <1>2, <1>3, <1>5, OutsideIsNeither, LightAdded DEF IsLight, LightInv
<1>6. CASE Prompt(p)
  <2> DEFINE c == [NoCall EXCEPT !.at = "auth", !.batch = <<UserMsg(nextId)>>]
  <2>1. /\ call' = [call EXCEPT ![p] = c] /\ UNCHANGED <<run, last>> /\ messages' = messages \o bash
    BY <1>6 DEF Prompt, Flush, flagVars
  <2>2. c.at = "auth" /\ c.phase = "check"
    BY DEF NoCall
  <2>. HIDE DEF c
  <2>3. call'[p] = c
    BY <2>1, CallEntered
  <2>4. AllLight(messages')
    BY <1>2, <1>3, <2>1, LightJoined
  <2>. QED
    BY <2>1, <2>2, <2>3, <2>4 DEF LightInv
<1>7. CASE SendTurn(p)
  <2> DEFINE c == [NoCall EXCEPT !.at = "running", !.phase = "main"]
  <2>1. run.at = "none"
    BY <1>1, <1>7 DEF SendTurn
  <2>2. /\ call' = [call EXCEPT ![p] = c] /\ Start(p, "prompt", <<OtherMsg(nextId, "custom")>>, "prompt")
        /\ UNCHANGED <<messages, last>>
    BY <1>7, <2>1 DEF SendTurn, RunPrompt, flagVars
  <2>3. run'.saving = None
    BY <2>2 DEF Start, NoRun
  <2>4. c.phase = "main" /\ c.at = "running"
    BY DEF NoCall
  <2>. HIDE DEF c
  <2>5. call'[p] = c
    BY <2>2, CallEntered
  <2>. QED
    BY <1>3, <2>2, <2>3, <2>4, <2>5 DEF LightInv
<1>8. CASE Steer \/ FollowUp \/ SendNextTurn
  BY <1>1, <1>5, <1>8, NewOutside DEF Steer, FollowUp, SendNextTurn, agentVars, flagVars
<1>9. CASE SendCustom \/ RecordBash
  BY <1>1, <1>5, <1>9, NewOutside DEF SendCustom, RecordBash, flagVars
<1>10. CASE Abort
  <2> DEFINE c == IF call[p].at = "sleeping" THEN [call[p] EXCEPT !.at = "cancelled"] ELSE call[p]
             r == IF run.at = "none" THEN run ELSE [run EXCEPT !.aborted = TRUE]
  <2>1. /\ call' = [q \in {p} |-> c] /\ run' = r /\ UNCHANGED <<messages, last>>
    BY <1>1, <1>10 DEF Abort, AbortAll, flagVars
  <2>2. r.saving = run.saving
    BY <1>1 DEF RunShape
  <2>3. /\ c.phase = call[p].phase /\ c.msg = call[p].msg
        /\ c.at = call[p].at \/ (c.at = "cancelled" /\ call[p].at = "sleeping")
    BY <1>1 DEF CallShape
  <2>. HIDE DEF c, r
  <2>4. call'[p] = c
    BY <2>1
  <2>. QED
    BY <1>3, <2>1, <2>2, <2>3, <2>4 DEF LightInv
<1>. QED
  BY <1>4, <1>6, <1>7, <1>8, <1>9, <1>10 DEF Application

LEMMA LightStep ==
    ASSUME NEW p, Callers = {p}, ControlInv(p), PlacedInv(p), TogetherInv, ItemsInv(p), LightInv(p),
           [Next]_vars
    PROVE  LightInv(p)'
<1>1. CASE UNCHANGED vars
  BY <1>1 DEF vars, agentVars, flagVars, LightInv
<1>2. CASE Next
  <2>1. ~CompStep
    BY DEF PlacedInv, NoComp, CompStep, CompactPrepare, CompactDone
  <2>. QED
    BY <1>2, <2>1, RunLight, CallLight, ApplicationLight DEF Next
<1>. QED
  BY <1>1, <1>2

LEMMA LightInit ==
    ASSUME NEW p, Callers = {p}, Init, Heavy \cap scenario.kinds = {}
    PROVE  LightInv(p)
<1>1. call[p] = NoCall /\ run = NoRun /\ messages = <<>> /\ last = None
  BY DEF Init
<1>2. call[p].at = "idle" /\ call[p].phase = "check" /\ run.saving = None
  BY <1>1 DEF NoCall, NoRun
<1>3. AllLight(<<>>)
  BY DEF AllLight
<1>. QED
  BY <1>1, <1>2, <1>3 DEF LightInv

LEMMA LightIsSeen ==
    ASSUME NEW p, ControlInv(p), LightInv(p)
    PROVE  NoHiddenRun
<1>1. ASSUME run.at # "none"
      PROVE  active
  BY <1>1 DEF ControlInv, Controlled, LightInv, InRun, CallShape
<1>. QED
  BY <1>1 DEF NoHiddenRun

\* While a run is on, the session says that it is active, and so treats as pending
\* what the application sends it.  One caller, whose prompts never find a context
\* that is due for compaction: prompt() compacts before it is active, and when
\* messages are queued it goes on with a run that nobody sees.
THEOREM NoHiddenRunHolds ==
    ASSUME OneCaller PROVE Spec /\ Steady /\ Heavy \cap scenario.kinds = {} => []NoHiddenRun
<1>1. PICK p : Callers = {p}
  BY DEF OneCaller
<1> DEFINE Light == Heavy \cap scenario.kinds = {}
           IInv == ControlInv(p) /\ PlacedInv(p) /\ TogetherInv /\ ItemsInv(p) /\ LightInv(p)
<1>2. Init /\ Steady /\ Light => IInv
  BY <1>1, ControlInit, PlacedInit, TogetherInit, LightInit
<1>3. IInv /\ [Next]_vars => IInv'
  BY <1>1, ControlStep, PlacedStep, TogetherStep, LightStep, LightIsSeen DEF Undivided
<1>4. IInv => NoHiddenRun
  BY LightIsSeen
<1>. QED
  BY <1>2, <1>3, <1>4, PTL DEF Spec

\* The application puts nothing into an idle session at once, or no reply calls for
\* a compaction.
Apart == {"custom", "bash"} \cap scenario.ways = {} \/ Heavy \cap scenario.kinds = {}

\* Every result of a tool call directly follows the reply that made the call, and
\* that reply is followed by nothing else, in the transcript the next request is
\* built from and in the branch a new process would load: retries, recoveries,
\* aborts and compactions keep the two together.  One caller; compact() and
\* clearQueue() are not part of it.  The application may record shell results and
\* custom messages where no compaction is due; with both, the run that prompt()
\* goes on with before the session is active can be split by such a message.
THEOREM PairsTogetherHolds ==
    ASSUME OneCaller PROVE Spec /\ Steady /\ Apart => []PairsTogether
<1>1. PICK p : Callers = {p}
  BY DEF OneCaller
<1> DEFINE Guard == {"custom", "bash"} \cap scenario.ways = {} \/ LightInv(p)
           IInv == ControlInv(p) /\ PlacedInv(p) /\ TogetherInv /\ ItemsInv(p) /\ Guard
<1>2. Init /\ Steady /\ Apart => IInv
  BY <1>1, ControlInit, PlacedInit, TogetherInit, LightInit DEF Apart
<1>3. IInv /\ [Next]_vars => IInv'
  <2> SUFFICES ASSUME IInv, [Next]_vars
               PROVE  IInv'
    OBVIOUS
  <2>1. Undivided
    BY LightIsSeen DEF Undivided
  <2>2. UNCHANGED scenario
    BY DEF Next, vars
  <2>3. Guard'
    BY <1>1, <2>2, LightStep
  <2>. QED
    BY <1>1, <2>1, <2>3, ControlStep, PlacedStep, TogetherStep
<1>4. IInv => PairsTogether
  BY TogetherFollows
<1>. QED
  BY <1>2, <1>3, <1>4, PTL DEF Spec

(***************************************************************************)
(* The transcript is the context of the session: lists                     *)
(***************************************************************************)
(***************************************************************************)
(* The transcript is the context: lists of entries                         *)
(***************************************************************************)
\* Without goes on with the items that follow.
LEMMA WithoutAdded ==
    ASSUME NEW T, NEW s \in Seq(T), NEW m \in T, NEW out, NEW more,
           \A i \in DOMAIN s : i \in out <=> i \in more
    PROVE  Without(Append(s, m), more)
             = IF Len(s) + 1 \in more THEN Without(s, out) ELSE Append(Without(s, out), m)
<1> DEFINE r == Append(s, m)
           n == Len(s)
<1>1. /\ r \in Seq(T) /\ Len(r) = n + 1 /\ r[n + 1] = m /\ n \in Nat /\ DOMAIN s = 1..n
      /\ \A i \in 1..n : r[i] = s[i]
  OBVIOUS
<1>2. PICK f : KeptUpTo(s, out, n, f) /\ Without(s, out) = f[n]
  BY WithoutSteps
<1>3. PICK g : KeptUpTo(r, more, Len(r), g) /\ Without(r, more) = g[Len(r)]
  BY <1>1, WithoutSteps
<1>. HIDE DEF r, n
<1>4. \A i \in 0..n : f[i] = IF i = 0 THEN <<>> ELSE IF i \in out THEN f[i - 1] ELSE Append(f[i - 1], s[i])
  BY <1>2 DEF KeptUpTo
<1>5. \A i \in 0..(n + 1) :
        g[i] = IF i = 0 THEN <<>> ELSE IF i \in more THEN g[i - 1] ELSE Append(g[i - 1], r[i])
  BY <1>1, <1>3 DEF KeptUpTo
<1> DEFINE Bad == {i \in 0..n : f[i] # g[i]}
<1>6. Bad = {}
  <2> SUFFICES ASSUME Bad # {}
               PROVE  FALSE
    OBVIOUS
  <2>1. Bad \in SUBSET Nat
    BY <1>1
  <2>2. PICK b \in Bad : \A k \in Bad : b <= k
    <3>. HIDE DEF Bad
    <3>. QED
      BY <2>1, Least
  <2>3. b \in 0..n /\ f[b] # g[b]
    OBVIOUS
  <2>4. b # 0
    BY <1>1, <1>4, <1>5, <2>3
  <2>5. b \in 1..n /\ b - 1 \in 0..n /\ b - 1 < b /\ b \in 0..(n + 1)
    BY <1>1, <2>3, <2>4
  <2>6. f[b - 1] = g[b - 1]
    <3>1. b - 1 \in Bad => b <= b - 1
      <4>. HIDE DEF Bad
      <4>. QED
        BY <2>2
    <3>. QED
      BY <2>5, <3>1
  <2>7. (b \in out <=> b \in more) /\ s[b] = r[b]
    BY <1>1, <2>5
  <2>. QED
    BY <1>4, <1>5, <2>3, <2>4, <2>5, <2>6, <2>7
<1>7. f[n] = g[n]
  BY <1>1, <1>6
<1>8. g[n + 1] = IF n + 1 \in more THEN g[n] ELSE Append(g[n], m)
  BY <1>1, <1>5
<1>. QED
  BY <1>1, <1>2, <1>3, <1>7, <1>8 DEF r, n

\* The replies that Kept leaves out.
Failed == ErrorKinds \union {"length"}

LEMMA KeptAdded ==
    ASSUME NEW s \in Seq(EntryType), NEW m \in EntryType
    PROVE  /\ Kept(s) \in Seq(EntryType)
           /\ Kept(Append(s, m)) = IF IsKind(m, Failed) THEN Kept(s) ELSE Append(Kept(s), m)
<1> DEFINE r == Append(s, m)
           out == {i \in DOMAIN s : IsKind(s[i], Failed)}
           more == {i \in DOMAIN r : IsKind(r[i], Failed)}
<1>1. /\ r \in Seq(EntryType) /\ Len(s) \in Nat /\ DOMAIN s = 1..Len(s) /\ DOMAIN r = 1..(Len(s) + 1)
      /\ r[Len(s) + 1] = m /\ \A i \in 1..Len(s) : r[i] = s[i]
  OBVIOUS
<1>2. Kept(s) = Without(s, out) /\ Kept(r) = Without(r, more)
  BY DEF Kept, Failed
<1>3. (Len(s) + 1 \in more <=> IsKind(m, Failed)) /\ \A i \in DOMAIN s : i \in out <=> i \in more
  <2>. HIDE DEF r
  <2>. QED
    BY <1>1
<1>4. Without(s, out) \in Seq(EntryType)
  BY WithoutSteps
<1>. HIDE DEF out, more
<1>5. Without(r, more) = IF Len(s) + 1 \in more THEN Without(s, out) ELSE Append(Without(s, out), m)
  BY <1>3, WithoutAdded
<1>. QED
  BY <1>2, <1>3, <1>4, <1>5

LEMMA LastOfList ==
    ASSUME NEW T, NEW s \in Seq(T), s # <<>>
    PROVE  /\ Front(s) \in Seq(T) /\ s[Len(s)] \in T /\ s = Append(Front(s), s[Len(s)])
           /\ Len(Front(s)) = Len(s) - 1
<1>1. Len(s) \in Nat /\ Len(s) > 0 /\ DOMAIN s = 1..Len(s)
  OBVIOUS
<1>2. Front(s) \in Seq(T) /\ Len(Front(s)) = Len(s) - 1 /\ \A i \in 1..(Len(s) - 1) : Front(s)[i] = s[i]
  BY <1>1 DEF Front
<1> DEFINE f == Front(s)
           m == s[Len(s)]
           r == Append(f, m)
<1>3. m \in T
  BY <1>1
<1>4. r \in Seq(T) /\ Len(r) = Len(s) /\ r[Len(s)] = s[Len(s)] /\ \A i \in 1..(Len(s) - 1) : r[i] = s[i]
  <2>1. f \in Seq(T) /\ Len(f) = Len(s) - 1 /\ \A i \in 1..(Len(s) - 1) : f[i] = s[i]
    BY <1>2
  <2>. HIDE DEF f, m
  <2>2. Len(r) = Len(f) + 1 /\ r[Len(f) + 1] = m /\ (\A i \in 1..Len(f) : r[i] = f[i]) /\ r \in Seq(T)
    BY <1>3, <2>1
  <2>3. Len(f) + 1 = Len(s)
    BY <1>1, <2>1
  <2>. QED
    BY <2>1, <2>2, <2>3 DEF m
<1>5. r = s
  <2>. HIDE DEF r
  <2>1. ASSUME NEW i \in 1..Len(s)
        PROVE  r[i] = s[i]
    <3>1. CASE i = Len(s)
      BY <1>4, <3>1
    <3>2. CASE i # Len(s)
      <4>0. \A k \in Nat : \A j \in 1..k : j = k \/ j \in 1..(k - 1)
        OBVIOUS
      <4>1. i \in 1..(Len(s) - 1)
        BY <1>1, <3>2, <4>0
      <4>. QED
        BY <1>4, <4>1
    <3>. QED
      BY <3>1, <3>2
  <2>. QED
    BY <1>4, <2>1
<1>. QED
  BY <1>2, <1>3, <1>5

\* A reply that is taken back is one that Kept leaves out.
LEMMA KeptStripped ==
    ASSUME NEW s \in Seq(EntryType), NEW kinds,
           LastIs(s, IsAssistant) /\ s[Len(s)].is \in kinds => s[Len(s)].is \in Failed
    PROVE  Kept(Strip(s, kinds)) = Kept(s) /\ Strip(s, kinds) \in Seq(EntryType)
<1>1. CASE s # <<>> /\ IsKind(s[Len(s)], kinds)
  BY <1>1, LastOfList, KeptAdded DEF LastIs, IsKind, Strip
<1>2. CASE ~(s # <<>> /\ IsKind(s[Len(s)], kinds))
  BY <1>2 DEF Strip, LastIs
<1>. QED
  BY <1>1, <1>2

LEMMA JoinLast ==
    ASSUME NEW T, NEW s \in Seq(T), NEW t \in Seq(T), t # <<>>
    PROVE  s \o t = Append(s \o Front(t), t[Len(t)])
<1>1. Front(t) \in Seq(T) /\ t[Len(t)] \in T /\ t = Append(Front(t), t[Len(t)])
  BY LastOfList
<1>. HIDE DEF Front
<1>2. \A u \in Seq(T), m \in T : s \o Append(u, m) = Append(s \o u, m)
  OBVIOUS
<1>. QED
  BY <1>1, <1>2

LEMMA KeptJoined ==
    ASSUME NEW s \in Seq(EntryType), NEW u \in Seq(EntryType), Kept(s) = Kept(u), NEW t \in Seq(EntryType)
    PROVE  Kept(s \o t) = Kept(u \o t)
<1> DEFINE Good(k) == \A x \in Seq(EntryType) : Len(x) = k => Kept(s \o x) = Kept(u \o x)
           Bad == {k \in Nat : ~Good(k)}
<1>1. Good(0)
  OBVIOUS
<1>2. ASSUME NEW k \in Nat, k # 0, Good(k - 1)
      PROVE  Good(k)
  <2> SUFFICES ASSUME NEW x \in Seq(EntryType), Len(x) = k
               PROVE  Kept(s \o x) = Kept(u \o x)
    OBVIOUS
  <2>1. x # <<>>
    BY <1>2
  <2> DEFINE y == Front(x)
             m == x[Len(x)]
  <2>2. y \in Seq(EntryType) /\ m \in EntryType /\ Len(y) = Len(x) - 1
    BY <2>1, LastOfList
  <2>3. Len(y) = k - 1
    BY <2>2
  <2>4. s \o x = Append(s \o y, m) /\ u \o x = Append(u \o y, m)
    BY <2>1, JoinLast
  <2>. HIDE DEF y, m
  <2>5. s \o y \in Seq(EntryType) /\ u \o y \in Seq(EntryType)
    BY <2>2
  <2>6. Kept(s \o y) = Kept(u \o y)
    BY <1>2, <2>2, <2>3
  <2>7. \A v \in Seq(EntryType) :
          Kept(Append(v, m)) = IF IsKind(m, Failed) THEN Kept(v) ELSE Append(Kept(v), m)
    BY <2>2, KeptAdded
  <2>8. /\ Kept(s \o x) = IF IsKind(m, Failed) THEN Kept(s \o y) ELSE Append(Kept(s \o y), m)
        /\ Kept(u \o x) = IF IsKind(m, Failed) THEN Kept(u \o y) ELSE Append(Kept(u \o y), m)
    BY <2>4, <2>5, <2>7
  <2>. QED
    BY <2>6, <2>8
<1>. HIDE DEF Good
<1>3. Bad = {}
  <2> SUFFICES ASSUME Bad # {}
               PROVE  FALSE
    OBVIOUS
  <2>1. PICK b \in Bad : \A k \in Bad : b <= k
    <3>1. Bad \in SUBSET Nat
      OBVIOUS
    <3>. HIDE DEF Bad
    <3>. QED
      BY <3>1, Least
  <2>2. b \in Nat /\ ~Good(b) /\ b # 0
    BY <1>1
  <2>3. b - 1 \in Nat /\ b - 1 < b
    BY <2>2
  <2>4. b - 1 \notin Bad
    <3>1. b - 1 \in Bad => b <= b - 1
      <4>. HIDE DEF Bad
      <4>. QED
        BY <2>1
    <3>. QED
      BY <2>2, <2>3, <3>1
  <2>. QED
    BY <1>2, <2>2, <2>3, <2>4
<1>4. Len(t) \in Nat /\ Good(Len(t))
  BY <1>3
<1>. QED
  BY <1>4 DEF Good

LEMMA CompactionOf ==
    ASSUME NEW s \in Seq(EntryType)
    PROVE  /\ LastCompaction(s) \in 0..Len(s)
           /\ LastCompaction(s) # 0 => s[LastCompaction(s)].role = "compaction"
           /\ \A i \in DOMAIN s : s[i].role = "compaction" => i <= LastCompaction(s)
<1> DEFINE at == {0} \union {i \in DOMAIN s : s[i].role = "compaction"}
<1>1. at \in SUBSET (0..Len(s)) /\ at # {} /\ Len(s) \in Nat /\ LastCompaction(s) = Max(at)
  BY DEF LastCompaction
<1>2. Max(at) \in at /\ \A i \in at : i <= Max(at)
  <2>. HIDE DEF at
  <2>. QED
    BY <1>1, MaxIsIn
<1> DEFINE c == Max(at)
<1>3. c \in at /\ \A i \in at : i <= c
  BY <1>2
<1>. HIDE DEF c
<1>. QED
  BY <1>1, <1>3 DEF c

\* What comes behind an entry that is no compaction does not change what comes before.
LEMMA ContextJoined ==
    ASSUME NEW s \in Seq(EntryType), KeepsOwn(s), NEW t \in Seq(EntryType),
           \A i \in DOMAIN t : t[i].role # "compaction",
           \A i, j \in DOMAIN (s \o t) : (s \o t)[i].id = (s \o t)[j].id => i = j
    PROVE  Context(s) \in Seq(EntryType) /\ Context(s \o t) = Context(s) \o t
<1> DEFINE r == s \o t
           c == LastCompaction(s)
           d == LastCompaction(r)
           keep == CHOOSE i \in DOMAIN s : s[i].id = s[c].keep
           keepR == CHOOSE i \in DOMAIN r : r[i].id = r[d].keep
<1>1. /\ Len(s) \in Nat /\ Len(t) \in Nat /\ r \in Seq(EntryType) /\ DOMAIN s = 1..Len(s)
      /\ DOMAIN r = 1..(Len(s) + Len(t)) /\ Len(r) = Len(s) + Len(t) /\ DOMAIN t = 1..Len(t)
      /\ \A i \in 1..Len(s) : r[i] = s[i]
      /\ \A i \in 1..Len(t) : r[Len(s) + i] = t[i]
  OBVIOUS
<1>2. \A i, j \in DOMAIN r : r[i].id = r[j].id => i = j
  OBVIOUS
<1>. HIDE DEF r
<1>3. /\ c \in 0..Len(s) /\ (c # 0 => s[c].role = "compaction")
      /\ \A i \in DOMAIN s : s[i].role = "compaction" => i <= c
  BY CompactionOf
<1>4. /\ d \in 0..Len(r) /\ (d # 0 => r[d].role = "compaction")
      /\ \A i \in DOMAIN r : r[i].role = "compaction" => i <= d
  BY <1>1, CompactionOf
<1>. HIDE DEF c, d
<1>5. d = c
  <2>1. c # 0 => c \in DOMAIN s /\ c \in DOMAIN r /\ r[c] = s[c]
    BY <1>1, <1>3
  <2>2. c <= d
    BY <1>1, <1>3, <1>4, <2>1
  <2>3. d # 0 => d \in DOMAIN s
    <3>1. ASSUME d > Len(s)
          PROVE  FALSE
      <4>1. d - Len(s) \in 1..Len(t) /\ d = Len(s) + (d - Len(s)) /\ d # 0
        BY <1>1, <1>4, <3>1
      <4>2. r[d] = t[d - Len(s)]
        BY <1>1, <4>1
      <4>. QED
        BY <1>1, <1>4, <4>1, <4>2
    <3>. QED
      BY <1>1, <1>4, <3>1
  <2>4. d # 0 => d <= c
    BY <1>1, <1>3, <1>4, <2>3
  <2>. QED
    BY <1>1, <1>3, <1>4, <2>2, <2>4
<1>6. CASE c = 0
  BY <1>5, <1>6 DEF Context, c, d, r
<1>7. CASE c # 0
  <2>1. c \in DOMAIN s /\ s[c].role = "compaction" /\ s[c].keep \in IdsIn(s) /\ r[c] = s[c] /\ c \in DOMAIN r
    BY <1>1, <1>3, <1>7 DEF KeepsOwn
  <2>2. keep \in DOMAIN s /\ s[keep].id = s[c].keep
    BY <2>1 DEF IdsIn
  <2>3. keep \in DOMAIN r /\ r[keep] = s[keep] /\ r[keep].id = r[d].keep
    <3>. HIDE DEF keep
    <3>. QED
      BY <1>1, <1>5, <2>1, <2>2
  <2>4. keepR \in DOMAIN r /\ r[keepR].id = r[d].keep
    BY <2>3
  <2>5. keepR = keep
    <3>. HIDE DEF keep, keepR
    <3>. QED
      BY <1>2, <2>3, <2>4
  <2>6. Context(s) = <<s[c]>> \o NotCompactions(SubSeq(s, keep, c - 1)) \o SubSeq(s, c + 1, Len(s))
    BY <1>7 DEF Context, c
  <2>7. Context(r) = <<r[d]>> \o NotCompactions(SubSeq(r, keepR, d - 1)) \o SubSeq(r, d + 1, Len(r))
    BY <1>5, <1>7 DEF Context, d
  <2>. HIDE DEF keep, keepR
  <2>8. SubSeq(r, keep, c - 1) = SubSeq(s, keep, c - 1) /\ SubSeq(s, keep, c - 1) \in Seq(EntryType)
    <3>1. c \in 1..Len(s) /\ keep \in 1..Len(s)
      BY <1>1, <2>1, <2>2
    <3> DEFINE n == IF keep <= c - 1 THEN c - keep ELSE 0
               x == SubSeq(r, keep, c - 1)
               y == SubSeq(s, keep, c - 1)
    <3>2. x \in Seq(EntryType) /\ y \in Seq(EntryType)
      BY <1>1, <3>1
    <3>3. Len(x) = n /\ Len(y) = n /\ n \in Nat
      BY <1>1, <3>1
    <3>4. \A i \in 1..n : keep + i - 1 \in 1..Len(s) /\ x[i] = r[keep + i - 1] /\ y[i] = s[keep + i - 1]
      BY <1>1, <3>1
    <3>. HIDE DEF x, y, n
    <3>5. \A i \in 1..n : x[i] = y[i]
      BY <1>1, <3>4
    <3>6. x = y
      BY <3>2, <3>3, <3>5
    <3>. QED
      BY <3>2, <3>6 DEF x, y
  <2>9. SubSeq(r, c + 1, Len(r)) = SubSeq(s, c + 1, Len(s)) \o t /\ SubSeq(s, c + 1, Len(s)) \in Seq(EntryType)
    <3>1. c \in 1..Len(s)
      BY <1>1, <2>1
    <3> DEFINE n == Len(s) - c
               x == SubSeq(r, c + 1, Len(r))
               y == SubSeq(s, c + 1, Len(s))
               z == y \o t
    <3>2. x \in Seq(EntryType) /\ y \in Seq(EntryType) /\ z \in Seq(EntryType)
      BY <1>1, <3>1
    <3>3. Len(x) = n + Len(t) /\ Len(y) = n /\ n \in Nat /\ Len(z) = n + Len(t)
      <4>0. \A T : \A q \in Seq(T) : \A a \in 1..Len(q) : Len(SubSeq(q, a + 1, Len(q))) = Len(q) - a
        OBVIOUS
      <4>1. Len(x) = n + Len(t) /\ Len(y) = n /\ n \in Nat
        <5>1. c \in 1..Len(r) /\ Len(r) - c = n + Len(t)
          BY <1>1, <3>1
        <5>2. Len(x) = Len(r) - c /\ Len(y) = Len(s) - c
          BY <1>1, <3>1, <4>0, <5>1
        <5>3. n \in Nat
          BY <1>1, <3>1
        <5>. QED
          BY <5>1, <5>2, <5>3
      <4>2. y \in Seq(EntryType)
        BY <3>2
      <4>. HIDE DEF x, y, n
      <4>3. t \in Seq(EntryType) /\ Len(z) = Len(y) + Len(t)
        BY <4>2
      <4>4. Len(z) = n + Len(t)
        BY <4>1, <4>3
      <4>. QED
        BY <4>1, <4>4
    <3>4. /\ \A i \in 1..(n + Len(t)) : x[i] = r[c + i]
          /\ \A i \in 1..n : y[i] = s[c + i] /\ z[i] = y[i]
          /\ \A i \in 1..Len(t) : z[n + i] = t[i]
      <4>1. \A i \in 1..(n + Len(t)) : x[i] = r[c + i]
        BY <1>1, <3>1
      <4>2. \A i \in 1..n : y[i] = s[c + i]
        BY <1>1, <3>1
      <4>. HIDE DEF y, n
      <4>3. (\A i \in 1..n : z[i] = y[i]) /\ \A i \in 1..Len(t) : z[n + i] = t[i]
        <5>1. IsSeq(y) /\ IsSeq(t)
          BY <3>2 DEF IsSeq
        <5>. QED
          BY <3>3, <5>1, JoinLists
      <4>. QED
        BY <4>1, <4>2, <4>3
    <3>5. ASSUME NEW i \in 1..(n + Len(t))
          PROVE  x[i] = z[i]
      <4>1. CASE i \in 1..n
        <5>1. c + i \in 1..Len(s)
          BY <1>1, <3>1, <4>1
        <5>. HIDE DEF x, y, z
        <5>2. x[i] = r[c + i] /\ z[i] = y[i] /\ y[i] = s[c + i]
          BY <3>4, <4>1
        <5>3. r[c + i] = s[c + i]
          BY <1>1, <5>1
        <5>. QED
          BY <5>2, <5>3
      <4>2. CASE i \notin 1..n
        <5> DEFINE j == i - n
        <5>0. \A a, b \in Nat : \A k \in 1..(a + b) : k \in 1..a \/ (k - a \in 1..b /\ k = a + (k - a))
          OBVIOUS
        <5>1. j \in 1..Len(t) /\ i = n + j /\ c + i = Len(s) + j
          <6>1. n \in Nat /\ Len(t) \in Nat
            BY <1>1, <3>3
          <6>2. c + i = Len(s) + j
            BY <1>1, <3>1, <6>1
          <6>. HIDE DEF n
          <6>3. i - n \in 1..Len(t) /\ i = n + (i - n)
            BY <4>2, <5>0, <6>1
          <6>. QED
            BY <6>2, <6>3
        <5>. HIDE DEF j, x, z
        <5>2. x[i] = r[c + i] /\ r[Len(s) + j] = t[j] /\ z[n + j] = t[j]
          BY <1>1, <3>4, <5>1
        <5>. QED
          BY <5>1, <5>2
      <4>. QED
        BY <4>1, <4>2
    <3>. HIDE DEF x, y, z, n
    <3>6. x = z
      BY <3>2, <3>3, <3>5
    <3>. QED
      BY <3>2, <3>6 DEF x, y, z
  <2> DEFINE head == <<s[c]>>
             kept == NotCompactions(SubSeq(s, keep, c - 1))
             rest == SubSeq(s, c + 1, Len(s))
  <2>10. head \in Seq(EntryType)
    BY <2>1
  <2>11. kept \in Seq(EntryType)
    BY <2>8, NotCompactionsIsList
  <2>12. rest \in Seq(EntryType)
    BY <2>9
  <2>13. Context(s) = head \o kept \o rest
    BY <2>6
  <2>14. Context(r) = head \o kept \o (rest \o t)
    <3> DEFINE a == SubSeq(r, keep, c - 1)
               b == SubSeq(r, c + 1, Len(r))
               h == <<r[d]>>
    <3>1. h = head
      BY <1>5, <2>1
    <3>2. NotCompactions(a) = kept /\ b = rest \o t
      BY <2>8, <2>9
    <3>3. Context(r) = h \o NotCompactions(a) \o b
      BY <1>5, <2>5, <2>7
    <3>. HIDE DEF a, b, h, head, kept, rest
    <3>. QED
      BY <3>1, <3>2, <3>3
  <2>. HIDE DEF head, kept, rest
  <2>15. \A a, b \in Seq(EntryType) : a \o b \in Seq(EntryType) /\ a \o (b \o t) = (a \o b) \o t
    OBVIOUS
  <2>16. head \o kept \in Seq(EntryType)
    BY <2>10, <2>11, <2>15
  <2>17. Context(s) \in Seq(EntryType) /\ Context(r) = Context(s) \o t
    <3> DEFINE a == head \o kept
    <3>1. a \in Seq(EntryType) /\ Context(s) = a \o rest /\ Context(r) = a \o (rest \o t)
      BY <2>13, <2>14, <2>16
    <3>. HIDE DEF a
    <3>. QED
      BY <2>12, <2>15, <3>1
  <2>. QED
    BY <2>17 DEF r
<1>. QED
  BY <1>6, <1>7

\* The branch once the message under way is saved.
SavedIn(S) == S["branch"] \o S["saving"]
Saved == branch \o (IF run.saving = None THEN <<>> ELSE <<run.saving>>)
OwnIds(s) == \A i, j \in DOMAIN s : s[i].id = s[j].id => i = j
NoCompaction(s) == \A i \in DOMAIN s : s[i].role # "compaction"

LEMMA EntriesOnce ==
    ASSUME NEW S, NEW n, NEW X, WellPlaced(S, n, X)
    PROVE  OwnIds(SavedIn(S))
<1> DEFINE s == S["branch"]
           t == S["saving"]
           r == s \o t
<1>1. "branch" \in PlaceNames /\ "saving" \in PlaceNames /\ "branch" # "saving"
  BY DEF PlaceNames
<1>2. IsSeq(s) /\ IsSeq(t)
  BY <1>1 DEF WellPlaced, Lists
<1>3. /\ \A i, j \in DOMAIN s : s[i].id = s[j].id => i = j
      /\ \A i, j \in DOMAIN t : t[i].id = t[j].id => i = j
      /\ \A i \in DOMAIN s, j \in DOMAIN t : s[i].id # t[j].id
  BY <1>1 DEF WellPlaced, Once
<1>. HIDE DEF s, t
<1>4. /\ Len(s) \in Nat /\ Len(t) \in Nat /\ DOMAIN s = 1..Len(s) /\ DOMAIN t = 1..Len(t)
      /\ DOMAIN r = 1..(Len(s) + Len(t))
      /\ \A i \in 1..Len(s) : r[i] = s[i]
      /\ \A i \in 1..Len(t) : r[Len(s) + i] = t[i]
  BY <1>2, JoinLists
<1>. HIDE DEF r
<1>5. ASSUME NEW i \in DOMAIN r
      PROVE  \/ i \in DOMAIN s /\ r[i] = s[i]
             \/ i - Len(s) \in DOMAIN t /\ r[i] = t[i - Len(s)]
  BY <1>4, WhichList
<1>6. ASSUME NEW i \in DOMAIN r, NEW j \in DOMAIN r, r[i].id = r[j].id
      PROVE  i = j
  <2>1. i \in Int /\ j \in Int /\ Len(s) \in Int
    BY <1>4
  <2>2. CASE i \in DOMAIN s /\ r[i] = s[i]
    BY <1>3, <1>5, <1>6, <2>2
  <2>3. CASE i - Len(s) \in DOMAIN t /\ r[i] = t[i - Len(s)]
    BY <1>3, <1>5, <1>6, <2>1, <2>3
  <2>. QED
    BY <1>5, <2>2, <2>3
<1>7. OwnIds(r)
  BY <1>6 DEF OwnIds
<1>. QED
  BY <1>7 DEF SavedIn, r, s, t

LEMMA SavedOnce ==
    ASSUME NEW p, PlacedInv(p)'
    PROVE  OwnIds(Saved')
<1>1. WellPlaced(Contents(p)', nextId', sent')
  BY DEF PlacedInv
<1>2. OwnIds(SavedIn(Contents(p)'))
  <2> DEFINE S == Contents(p)'
  <2>1. WellPlaced(S, nextId', sent')
    BY <1>1
  <2>. HIDE DEF S
  <2>2. OwnIds(SavedIn(S))
    BY <2>1, EntriesOnce
  <2>. QED
    BY <2>2 DEF S
<1>3. SavedIn(Contents(p)') = Saved'
  BY DEF SavedIn, Contents, Saved
<1>. QED
  BY <1>2, <1>3

\* Messages that come to the transcript and to the branch alike.
LEMMA MirrorGrows ==
    ASSUME NEW p, PlacedInv(p)', NEW msgs \in Seq(EntryType), NEW br \in Seq(EntryType),
           KeepsOwn(br), Kept(msgs) = Kept(Context(br)),
           NEW t \in Seq(EntryType), NoCompaction(t), messages' = msgs \o t, Saved' = br \o t
    PROVE  Kept(messages') = Kept(Context(Saved'))
<1>1. OwnIds(br \o t)
  BY SavedOnce
<1>2. Context(br) \in Seq(EntryType) /\ Context(br \o t) = Context(br) \o t
  BY <1>1, ContextJoined DEF OwnIds, NoCompaction
<1>3. Kept(msgs \o t) = Kept(Context(br) \o t)
  BY <1>2, KeptJoined
<1>. QED
  BY <1>2, <1>3

LEMMA OutsideIsNoCompaction ==
    ASSUME NEW s \in Seq(Outside)
    PROVE  s \in Seq(EntryType) /\ NoCompaction(s)
<1>1. \A m \in Outside : m \in EntryType /\ m \in Message
  BY OutsideIsNeither
<1>2. \A m \in Message : m.role # "compaction"
  BY DEF Message
<1>3. s \in Seq(EntryType)
  BY <1>1
<1>. QED
  BY <1>1, <1>2, <1>3 DEF NoCompaction

LEMMA MessageIsNoCompaction ==
    ASSUME NEW m \in Message
    PROVE  <<m>> \in Seq(EntryType) /\ NoCompaction(<<m>>)
<1>1. m \in EntryType /\ m.role # "compaction"
  BY DEF EntryType, Message
<1>. QED
  BY <1>1 DEF NoCompaction

(***************************************************************************)
(* The transcript is the context: what a step does to both                 *)
(***************************************************************************)
\* A run that is over, or about to be, with nothing left to save.
Reached(p) == call[p].at = "post" \/ (run.at \in {"stopped", "end"} /\ run.saving = None)

\* The transcript is the context of the branch and of the message under way, but for
\* the failed replies.  The reply that a finished run is judged by, if the transcript
\* ends with a reply, is that one: what is taken back is a failed reply.
MirrorInv(p) ==
    /\ Kept(messages) = Kept(Context(Saved))
    /\ run.saving # None => Ends(messages, run.saving)
    /\ Reached(p) /\ LastIs(messages, IsAssistant) => last = messages[Len(messages)]
    /\ call[p].at \in {"sleeping", "cancelled"} => call[p].msg.is = "error"

LEMMA LastOfReplies ==
    ASSUME NEW s \in Seq(EntryType), LastIs(s, IsAssistant)
    PROVE  LastAssistant(s, {}) = s[Len(s)]
<1> DEFINE at == {i \in DOMAIN s : IsAssistant(s[i]) /\ ~IsKind(s[i], {})}
<1>1. Len(s) \in Nat /\ DOMAIN s = 1..Len(s) /\ Len(s) \in DOMAIN s /\ IsAssistant(s[Len(s)])
  BY DEF LastIs
<1>2. at \in SUBSET (0..Len(s)) /\ Len(s) \in at
  BY <1>1 DEF IsKind
<1>3. Max(at) \in at /\ Len(s) <= Max(at)
  <2>. HIDE DEF at
  <2>. QED
    BY <1>1, <1>2, MaxIsIn
<1>4. Max(at) = Len(s)
  <2>1. Max(at) \in 0..Len(s)
    <3>. HIDE DEF at
    <3>. QED
      BY <1>2, <1>3
  <2>. HIDE DEF at
  <2>. QED
    BY <1>1, <1>3, <2>1
<1>5. LastAssistant(s, {}) = s[Max(at)]
  BY <1>2 DEF LastAssistant
<1>. QED
  BY <1>4, <1>5

\* The transcript and the branch after a step that gives both the same messages, or
\* that takes back a failed reply.
Alike(msgs, br) ==
    (messages' = msgs /\ branch' = br) \/ (messages' = msgs \o bash /\ branch' = br \o bash)
TakesBack ==
    /\ messages' = Strip(messages, AllReplies) /\ branch' = branch
    /\ LastIs(messages, IsAssistant) => messages[Len(messages)].is \in Failed

LEMMA DecideAlike ==
    ASSUME NEW p, ControlInv(p), NEW goOn, NEW msgs, NEW br, Decide(p, goOn, msgs, br)
    PROVE  Alike(msgs, br) /\ call'[p].at \in {"continue", "before", "settling"}
<1>1. call'[p].at \in {"continue", "before", "settling"}
  BY DecideLists
<1>2. Alike(msgs, br)
  BY DEF Decide, Flush, Alike
<1>. QED
  BY <1>1, <1>2

LEMMA CheckAlike ==
    ASSUME NEW p, ControlInv(p), NEW m, NEW skipAborted, Check(p, m, skipAborted),
           LastIs(messages, IsAssistant) => m = messages[Len(messages)]
    PROVE  /\ Alike(messages, branch) \/ TakesBack
           /\ call'[p].at \in {"continue", "before", "settling", "prepare"}
<1>1. CASE DecideQueued(p)
  BY <1>1, DecideAlike DEF DecideQueued
<1>2. ASSUME NEW o \in Outcomes(m, skipAborted), NEW recover \in BOOLEAN, recover <=> o = "recover",
             call' = [call EXCEPT ![p].at = "prepare", ![p].recover = recover, ![p].msg = None],
             messages' = IF o = "recover" THEN Strip(messages, AllReplies) ELSE messages,
             UNCHANGED branch
      PROVE  /\ Alike(messages, branch) \/ TakesBack
             /\ call'[p].at \in {"continue", "before", "settling", "prepare"}
  <2> DEFINE c == [call[p] EXCEPT !.at = "prepare", !.recover = recover, !.msg = None]
  <2>1. call = [q \in {p} |-> call[p]] /\ call[p] \in CallShape(call[p])
    BY DEF ControlInv, Controlled
  <2>2. call'[p] = c
    BY <1>2, <2>1
  <2>3. c.at = "prepare"
    BY <2>1 DEF CallShape
  <2>. HIDE DEF c
  <2>4. o = "recover" => m.is \in {"overflow", "length"}
    BY <1>2 DEF Outcomes
  <2>5. o = "recover" => TakesBack
    BY <1>2, <2>4 DEF TakesBack, Failed, ErrorKinds
  <2>6. o # "recover" => Alike(messages, branch)
    BY <1>2 DEF Alike
  <2>. QED
    BY <2>2, <2>3, <2>5, <2>6
<1>. QED
  BY <1>1, <1>2 DEF Check

LEMMA DecidesAlike ==
    ASSUME NEW p, ControlInv(p), MirrorInv(p), messages \in Seq(EntryType), Decides(p)
    PROVE  /\ Alike(messages, branch) \/ TakesBack
           /\ call'[p].at # "post"
           /\ call'[p].at \in {"sleeping", "cancelled"} => call'[p].msg.is = "error"
<1>1. call = [q \in {p} |-> call[p]] /\ call[p] \in CallShape(call[p])
  BY DEF ControlInv, Controlled
<1>2. CASE PostRun(p)
  <2>1. LastIs(messages, IsAssistant) => last = messages[Len(messages)]
    BY <1>2 DEF PostRun, MirrorInv, Reached
  <2>2. CASE last = None
    BY <1>2, <2>2, DecideAlike DEF PostRun
  <2>3. CASE last # None /\ IsKind(last, {"error"}) /\ retries < MaxRetries
    <3> DEFINE c == [call[p] EXCEPT !.at = "sleeping", !.msg = last]
    <3>1. /\ messages' = Strip(messages, AllReplies) /\ branch' = branch
          /\ call' = [call EXCEPT ![p].at = "sleeping", ![p].msg = last]
      BY <1>2, <2>3 DEF PostRun
    <3>2. call'[p] = c
      BY <1>1, <3>1
    <3>3. c.at = "sleeping" /\ c.msg = last
      BY <1>1 DEF CallShape
    <3>. HIDE DEF c
    <3>4. last.is = "error"
      BY <2>3 DEF IsKind
    <3>5. TakesBack
      BY <2>1, <3>1, <3>4 DEF TakesBack, Failed, ErrorKinds
    <3>. QED
      BY <3>2, <3>3, <3>4, <3>5
  <2>4. CASE last # None /\ ~(IsKind(last, {"error"}) /\ retries < MaxRetries)
    BY <1>2, <2>1, <2>4, CheckAlike DEF PostRun
  <2>. QED
    BY <2>2, <2>3, <2>4
<1>3. CASE Wake(p)
  BY <1>3, DecideAlike DEF Wake
<1>4. CASE RetryCancelled(p)
  <2>1. Check(p, call[p].msg, TRUE) /\ call[p].msg.is = "error"
    BY <1>4 DEF RetryCancelled, MirrorInv
  <2>2. ASSUME NEW o \in Outcomes(call[p].msg, TRUE)
        PROVE  o # "recover"
    BY <2>1 DEF Outcomes
  <2>3. CASE DecideQueued(p)
    BY <2>3, DecideAlike DEF DecideQueued
  <2>4. ASSUME NEW recover,
               call' = [call EXCEPT ![p].at = "prepare", ![p].recover = recover, ![p].msg = None],
               UNCHANGED <<messages, branch>>
        PROVE  Alike(messages, branch) /\ call'[p].at = "prepare"
    <3> DEFINE c == [call[p] EXCEPT !.at = "prepare", !.recover = recover, !.msg = None]
    <3>1. call'[p] = c
      BY <1>1, <2>4
    <3>2. c.at = "prepare"
      BY <1>1 DEF CallShape
    <3>. HIDE DEF c
    <3>. QED
      BY <2>4, <3>1, <3>2 DEF Alike
  <2>5. \/ DecideQueued(p)
        \/ \E recover : /\ call' = [call EXCEPT ![p].at = "prepare", ![p].recover = recover, ![p].msg = None]
                        /\ UNCHANGED <<messages, branch>>
    BY <2>1, <2>2 DEF Check
  <2>. QED
    BY <2>3, <2>4, <2>5
<1>5. CASE Prepare(p)
  <2>1. ASSUME NEW cut,
               call' = [call EXCEPT ![p].at = "summarizing", ![p].cut = cut],
               UNCHANGED <<messages, branch, bash, nextTurn, active>>
        PROVE  Alike(messages, branch) /\ call'[p].at = "summarizing"
    <3> DEFINE c == [call[p] EXCEPT !.at = "summarizing", !.cut = cut]
    <3>1. call'[p] = c
      BY <1>1, <2>1
    <3>2. c.at = "summarizing"
      BY <1>1 DEF CallShape
    <3>. HIDE DEF c
    <3>. QED
      BY <2>1, <3>1, <3>2 DEF Alike
  <2>2. DecideQueued(p) \/ \E cut :
           /\ call' = [call EXCEPT ![p].at = "summarizing", ![p].cut = cut]
           /\ UNCHANGED <<messages, branch, bash, nextTurn, active>>
    BY <1>5 DEF Prepare
  <2>3. CASE DecideQueued(p)
    BY <2>3, DecideAlike DEF DecideQueued
  <2>. QED
    BY <2>1, <2>2, <2>3
<1>6. CASE SummaryFails(p)
  BY <1>6, DecideAlike DEF SummaryFails, DecideQueued
<1>7. CASE Accepted(p)
  <2>1. DecideQueued(p) \/ Check(p, LastAssistant(messages, {}), FALSE)
    BY <1>7 DEF Accepted
  <2>2. LastIs(messages, IsAssistant) => LastAssistant(messages, {}) = messages[Len(messages)]
    BY LastOfReplies
  <2>3. CASE DecideQueued(p)
    BY <2>3, DecideAlike DEF DecideQueued
  <2>4. CASE Check(p, LastAssistant(messages, {}), FALSE)
    <3> DEFINE m == LastAssistant(messages, {})
    <3>1. Check(p, m, FALSE) /\ (LastIs(messages, IsAssistant) => m = messages[Len(messages)])
      BY <2>2, <2>4
    <3>. HIDE DEF m
    <3>. QED
      BY <3>1, CheckAlike
  <2>. QED
    BY <2>1, <2>3, <2>4
<1>. QED
  BY <1>2, <1>3, <1>4, <1>5, <1>6, <1>7 DEF Decides

\* What a session that mirrors its branch keeps, and where its messages are.
Mirrors(p) == ControlInv(p) /\ PlacedInv(p) /\ TogetherInv /\ ItemsInv(p) /\ MirrorInv(p)

LEMMA MirrorFacts ==
    ASSUME NEW p, Mirrors(p)
    PROVE  /\ messages \in Seq(EntryType) /\ branch \in Seq(EntryType) /\ KeepsOwn(branch)
           /\ run.saving \in Message \union {None} /\ nextId \in Nat /\ connected = TRUE
           /\ run.saving = None => Kept(messages) = Kept(Context(branch))
           /\ call = [q \in {p} |-> call[p]] /\ call[p] \in CallShape(call[p]) /\ run \in RunShape(run)
           /\ IF run.at = "none" THEN run.out = <<>> /\ run.saving = None ELSE call[p].at = "running"
           /\ {run.out, bash} \subseteq Seq(Outside)
<1>1. messages \in Seq(EntryType) /\ branch \in Seq(EntryType)
  BY DEF Mirrors, TogetherInv, Asking, Closed
<1>2. nextId \in Nat /\ connected = TRUE
  BY BranchIds DEF Mirrors
<1>3. /\ KeepsOwn(branch) /\ run.saving \in Message \union {None} /\ {run.out, bash} \subseteq Seq(Outside)
  BY DEF Mirrors, ItemsInv
<1>4. run.saving = None => Kept(messages) = Kept(Context(branch))
  BY <1>1, NothingAdded DEF Mirrors, MirrorInv, Saved
<1>5. /\ call = [q \in {p} |-> call[p]] /\ call[p] \in CallShape(call[p]) /\ run \in RunShape(run)
      /\ IF run.at = "none" THEN run.out = <<>> /\ run.saving = None ELSE call[p].at = "running"
  BY DEF Mirrors, ControlInv, Controlled
<1>. QED
  BY <1>1, <1>2, <1>3, <1>4, <1>5

\* A run puts message m into the transcript, which is not saved yet.
LEMMA MessageMirrored ==
    ASSUME NEW p, Mirrors(p), PlacedInv(p)', NEW m \in Message, run.saving = None, run'.saving = m,
           messages' = Append(messages, m), branch' = branch, call' = call, call[p].at = "running"
    PROVE  MirrorInv(p)'
<1>1. /\ messages \in Seq(EntryType) /\ branch \in Seq(EntryType) /\ KeepsOwn(branch)
      /\ Kept(messages) = Kept(Context(branch))
  BY MirrorFacts
<1>2. m # None /\ m \in EntryType
  BY MessageIsSomething, InputIsMessage
<1>3. <<m>> \in Seq(EntryType) /\ NoCompaction(<<m>>)
  BY MessageIsNoCompaction
<1>4. messages' = messages \o <<m>> /\ Saved' = branch \o <<m>>
  <2>1. messages \o <<m>> = Append(messages, m)
    BY <1>1, <1>2
  <2>. QED
    BY <1>2, <2>1 DEF Saved
<1>5. Kept(messages') = Kept(Context(Saved'))
  BY <1>1, <1>3, <1>4, MirrorGrows
<1>6. Ends(messages', m)
  BY <1>1, <1>2, Longer DEF Ends
<1>. QED
  BY <1>2, <1>5, <1>6 DEF MirrorInv, Reached

LEMMA MirrorRun ==
    ASSUME NEW p, Callers = {p}, Mirrors(p), PlacedInv(p)', AgentStep
    PROVE  MirrorInv(p)'
<1>1. /\ messages \in Seq(EntryType) /\ branch \in Seq(EntryType)
      /\ run.saving \in Message \union {None} /\ nextId \in Nat /\ connected = TRUE
      /\ call = [q \in {p} |-> call[p]] /\ call[p] \in CallShape(call[p]) /\ run \in RunShape(run)
      /\ IF run.at = "none" THEN run.out = <<>> /\ run.saving = None ELSE call[p].at = "running"
      /\ run.out \in Seq(Outside)
  BY MirrorFacts
<1>2. run.at # "none" /\ call[p].at = "running"
  BY <1>1 DEF AgentStep, Deliver, Save, Respond, ToolDone, Poll, RunEnds, Ready
<1>3. /\ Kept(messages) = Kept(Context(Saved))
      /\ run.saving # None => Ends(messages, run.saving)
      /\ Reached(p) /\ LastIs(messages, IsAssistant) => last = messages[Len(messages)]
  BY DEF Mirrors, MirrorInv
<1>4. CASE Deliver
  <2> DEFINE m == Head(run.out)
  <2>1. m \in Outside
    BY <1>1, <1>4, TakingOutside DEF Deliver
  <2>2. /\ run' = [run EXCEPT !.out = Tail(@), !.saving = m] /\ run.saving = None
        /\ messages' = Append(messages, m) /\ branch' = branch /\ call' = call
    BY <1>1, <1>4 DEF Deliver
  <2>. HIDE DEF m
  <2>3. run'.saving = m /\ m \in Message
    BY <1>1, <2>1, <2>2 DEF RunShape, Outside
  <2>. QED
    BY <1>2, <2>2, <2>3, MessageMirrored
<1>5. ASSUME NEW m \in Message, NEW at, Produce(m, at), run.saving = None
      PROVE  MirrorInv(p)'
  BY <1>1, <1>2, <1>5, MessageMirrored DEF Produce, RunShape
<1>6. CASE Respond
  <2>1. PICK kind : /\ kind \in {"stop", "aborted"} \union scenario.kinds
                    /\ Produce(AssistantMsg(nextId, kind), AfterReply(kind))
    BY <1>6 DEF Respond
  <2>2. kind \in AllReplies
    BY <2>1, SessionAssumption DEF PlacedInv, Mirrors, AllReplies
  <2>3. run.saving = None
    BY <1>6 DEF Respond, Ready
  <2>. QED
    BY <1>1, <1>5, <2>1, <2>2, <2>3, NewReply
<1>7. CASE ToolDone
  BY <1>1, <1>5, <1>7, NewResult DEF ToolDone, Ready
<1>8. CASE Save
  <2> DEFINE m == run.saving
  <2>1. /\ run' = [run EXCEPT !.saving = None] /\ branch' = Append(branch, m) /\ messages' = messages
        /\ m \in Message /\ m # None /\ call' = call
        /\ last' = IF IsAssistant(m) THEN m ELSE last
    BY <1>1, <1>8 DEF Save, flagVars
  <2>2. run'.saving = None /\ m \in EntryType
    BY <1>1, <2>1, InputIsMessage DEF RunShape
  <2>3. Ends(messages, m) /\ Saved = branch \o <<m>>
    BY <1>3, <2>1 DEF Saved
  <2>. HIDE DEF m
  <2>4. branch \o <<m>> = Append(branch, m) /\ Append(branch, m) \in Seq(EntryType)
    BY <1>1, <2>2
  <2>5. Saved' = branch'
    BY <2>1, <2>2, <2>4, NothingAdded DEF Saved
  <2>6. Kept(messages') = Kept(Context(Saved'))
    BY <1>3, <2>1, <2>3, <2>4, <2>5
  <2>7. LastIs(messages', IsAssistant) => last' = messages'[Len(messages')]
    BY <2>1, <2>3 DEF LastIs, Ends
  <2>. QED
    BY <1>2, <2>1, <2>2, <2>6, <2>7 DEF MirrorInv
<1>9. CASE Poll
  <2>1. /\ run.at \in {"prompt", "answered", "stopped"} /\ run.saving = None
        /\ UNCHANGED <<messages, branch, call, last>>
    BY <1>9 DEF Poll, Ready, flagVars
  <2>2. \/ \E at \in {"ask", "end"} : run' = [run EXCEPT !.at = at] /\ (at = "end" => run.at = "stopped")
        \/ \E out, via : \E at \in {"first", "ask"} : run' = [run EXCEPT !.at = at, !.out = out, !.via = via]
    BY <1>9, <2>1 DEF Poll, FromSteering, FromFollowUps
  <2>3. run'.saving = None /\ run'.at \notin {"stopped"} /\ (run'.at = "end" => run.at = "stopped")
    BY <1>1, <2>1, <2>2 DEF RunShape
  <2>4. Saved' = Saved
    BY <2>1, <2>3 DEF Saved
  <2>. QED
    BY <1>2, <1>3, <2>1, <2>3, <2>4 DEF MirrorInv, Reached
<1>10. CASE RunEnds
  <2> DEFINE c == [call[p] EXCEPT !.at = "post"]
  <2>1. /\ run.at = "end" /\ run.saving = None /\ run' = NoRun /\ UNCHANGED <<messages, branch, last>>
        /\ call' = [call EXCEPT ![p].at = "post"]
    BY <1>1, <1>2, <1>10 DEF RunEnds, Ready, flagVars, Mirrors, ControlInv, Controlled
  <2>2. run'.at = "none" /\ run'.saving = None
    BY <2>1 DEF NoRun
  <2>3. call'[p] = c
    BY <1>1, <2>1
  <2>4. c.at = "post"
    BY <1>1 DEF CallShape
  <2>. HIDE DEF c
  <2>5. Saved' = Saved
    BY <2>1, <2>2 DEF Saved
  <2>. QED
    BY <1>3, <2>1, <2>2, <2>3, <2>4, <2>5 DEF MirrorInv, Reached
<1>. QED
  BY <1>4, <1>6, <1>7, <1>8, <1>9, <1>10 DEF AgentStep

LEMMA AlikeMirrored ==
    ASSUME NEW p, PlacedInv(p)', NEW msgs \in Seq(EntryType), NEW br \in Seq(EntryType), KeepsOwn(br),
           Kept(msgs) = Kept(Context(br)), bash \in Seq(Outside), Alike(msgs, br),
           run'.saving = None, run'.at \notin {"stopped", "end"}, call'[p].at # "post",
           call'[p].at \in {"sleeping", "cancelled"} => call'[p].msg.is = "error"
    PROVE  MirrorInv(p)'
<1>1. bash \in Seq(EntryType) /\ NoCompaction(bash)
  BY OutsideIsNoCompaction
<1>2. branch' \in Seq(EntryType)
  <2>1. br \o bash \in Seq(EntryType)
    BY <1>1
  <2>. QED
    BY <2>1 DEF Alike
<1>3. Saved' = branch'
  BY <1>2, NothingAdded DEF Saved
<1>4. Kept(messages') = Kept(Context(Saved'))
  BY <1>1, <1>3, MirrorGrows DEF Alike
<1>. QED
  BY <1>4 DEF MirrorInv, Reached

LEMMA MirrorCall ==
    ASSUME NEW p, Callers = {p}, Mirrors(p), PlacedInv(p)', CallStep(p)
    PROVE  MirrorInv(p)'
<1>1. /\ messages \in Seq(EntryType) /\ branch \in Seq(EntryType) /\ KeepsOwn(branch)
      /\ nextId \in Nat /\ (run.saving = None => Kept(messages) = Kept(Context(branch)))
      /\ call = [q \in {p} |-> call[p]] /\ call[p] \in CallShape(call[p])
      /\ IF run.at = "none" THEN run.out = <<>> /\ run.saving = None ELSE call[p].at = "running"
      /\ bash \in Seq(Outside)
  BY MirrorFacts
<1>2. call[p].at # "running"
  BY DEF CallStep, PostRun, Wake, RetryCancelled, Prepare, SummaryFails, Compacted, Continue,
         ContinueThrows, Settled, Refused, Accepted, BeforeDone
<1>3. run.at = "none" /\ run.saving = None /\ Kept(messages) = Kept(Context(branch))
  BY <1>1, <1>2
<1>4. ControlInv(p) /\ PlacedInv(p) /\ MirrorInv(p) /\ ItemsInv(p)
  BY DEF Mirrors
<1>5. CASE Decides(p)
  <2>1. run' = run
    BY <1>4, <1>5, DecidesEffect
  <2>2. /\ Alike(messages, branch) \/ TakesBack
        /\ call'[p].at # "post"
        /\ call'[p].at \in {"sleeping", "cancelled"} => call'[p].msg.is = "error"
    BY <1>1, <1>4, <1>5, DecidesAlike
  <2>3. CASE Alike(messages, branch)
    BY <1>1, <1>3, <2>1, <2>2, <2>3, AlikeMirrored
  <2>4. CASE TakesBack
    <3> DEFINE msgs == Strip(messages, AllReplies)
    <3>1. Kept(msgs) = Kept(messages) /\ msgs \in Seq(EntryType)
      BY <1>1, <2>4, KeptStripped DEF TakesBack
    <3>2. Alike(msgs, branch)
      BY <2>4 DEF TakesBack, Alike
    <3>. HIDE DEF msgs
    <3>. QED
      BY <1>1, <1>3, <2>1, <2>2, <3>1, <3>2, AlikeMirrored
  <2>. QED
    BY <2>2, <2>3, <2>4
<1>6. CASE Compacted(p)
  <2> DEFINE saved == Append(branch, Compaction(nextId, call[p].cut))
             context == IF call[p].recover THEN Strip(Context(saved), ErrorKinds) ELSE Context(saved)
  <2>1. /\ Decide(p, call[p].recover \/ HasQueued, context, saved)
        /\ call[p].at = "summarizing" /\ run' = run
    BY <1>6 DEF Compacted
  <2>2. call[p].cut \in IdsIn(branch)
    BY <1>4, <2>1 DEF ItemsInv, CutsWell
  <2>3. Context(saved) \in Seq(EntryType) /\ KeepsOwn(saved) /\ saved \in Seq(EntryType)
    <3>1. Compaction(nextId, call[p].cut) \in EntryType
      BY <1>1, <2>2, NewCompaction
    <3>2. saved \in Seq(EntryType)
      <4> DEFINE e == Compaction(nextId, call[p].cut)
      <4>. HIDE DEF e
      <4>. QED
        BY <1>1, <3>1 DEF e
    <3>. QED
      BY <1>1, <2>2, <3>2, ContextIsList, CompactionKeepsOwn
  <2>. HIDE DEF saved
  <2>4. Kept(context) = Kept(Context(saved)) /\ context \in Seq(EntryType)
    BY <2>3, KeptStripped DEF Failed
  <2>. HIDE DEF context
  <2>5. Alike(context, saved) /\ call'[p].at \in {"continue", "before", "settling"}
    BY <1>4, <2>1, DecideAlike
  <2>. QED
    BY <1>1, <1>3, <2>1, <2>3, <2>4, <2>5, AlikeMirrored
\* A run starts, or the call is over.
<1>7. ASSUME NEW c, call'[p] = c, c.at \in {"idle", "settling", "running"},
             run'.at \notin {"stopped", "end"}, run'.saving = None, Alike(messages, branch)
      PROVE  MirrorInv(p)'
  BY <1>1, <1>3, <1>7, AlikeMirrored
<1>8. ASSUME NEW at, NEW out, NEW via, Start(p, at, out, via)
      PROVE  run'.at = at /\ run'.saving = None
  BY <1>8 DEF Start, NoRun
<1>9. CASE Continue(p)
  <2> DEFINE c == [call[p] EXCEPT !.at = "running"]
  <2>1. /\ call' = [call EXCEPT ![p].at = "running"] /\ Alike(messages, branch)
    BY <1>9 DEF Continue, Go, Alike
  <2>2. call'[p] = c
    BY <1>1, <2>1
  <2>3. c.at = "running"
    BY <1>1 DEF CallShape
  <2>. HIDE DEF c
  <2>4. \E out, via : \E at \in {"prompt", "ask"} : Start(p, at, out, via)
    BY <1>9 DEF Continue
  <2>5. run'.at \in {"prompt", "ask"} /\ run'.saving = None
    BY <1>8, <2>4
  <2>. QED
    BY <1>7, <2>1, <2>2, <2>3, <2>5
<1>10. NoCall.at = "idle"
  BY DEF NoCall
<1>11. CASE ContinueThrows(p)
  <2>1. run' = run /\ Alike(messages, branch)
    BY <1>11 DEF ContinueThrows, Flush, Alike
  <2>2. PICK c : call' = [call EXCEPT ![p] = c] /\ c.at \in {"idle", "settling"}
    <3> DEFINE d == [NoCall EXCEPT !.at = "settling"]
    <3>1. d.at = "settling"
      BY DEF NoCall
    <3>2. call' = [call EXCEPT ![p] = d] \/ call' = [call EXCEPT ![p] = NoCall]
      BY <1>11 DEF ContinueThrows
    <3>. HIDE DEF d
    <3>. QED
      BY <1>10, <3>1, <3>2
  <2>3. call'[p] = c
    BY <1>4, <2>2, CallEntered
  <2>. QED
    BY <1>3, <1>7, <2>1, <2>2, <2>3
<1>12. CASE Settled(p) \/ Refused(p)
  BY <1>3, <1>4, <1>7, <1>10, <1>12, CallEntered DEF Settled, Refused, agentVars, Alike
<1>13. CASE BeforeDone(p)
  <2> DEFINE c == [NoCall EXCEPT !.at = "running", !.phase = "main"]
  <2>1. /\ call' = [call EXCEPT ![p] = c] /\ Start(p, "prompt", call[p].batch, "prompt")
        /\ Alike(messages, branch)
    BY <1>3, <1>13 DEF BeforeDone, RunPrompt, Alike
  <2>2. c.at = "running"
    BY DEF NoCall
  <2>. HIDE DEF c
  <2>3. call'[p] = c
    BY <1>4, <2>1, CallEntered
  <2>4. run'.at = "prompt" /\ run'.saving = None
    BY <1>8, <2>1
  <2>. QED
    BY <1>7, <2>1, <2>2, <2>3, <2>4
<1>. QED
  BY <1>5, <1>6, <1>9, <1>11, <1>12, <1>13 DEF CallStep, Decides

LEMMA MirrorApplication ==
    ASSUME NEW p, Callers = {p}, Mirrors(p), Undivided, PlacedInv(p)', Application
    PROVE  MirrorInv(p)'
<1>1. /\ messages \in Seq(EntryType) /\ branch \in Seq(EntryType) /\ KeepsOwn(branch)
      /\ nextId \in Nat /\ (run.saving = None => Kept(messages) = Kept(Context(branch)))
      /\ call = [q \in {p} |-> call[p]] /\ call[p] \in CallShape(call[p]) /\ run \in RunShape(run)
      /\ IF run.at = "none" THEN run.out = <<>> /\ run.saving = None ELSE call[p].at = "running"
      /\ bash \in Seq(Outside)
  BY MirrorFacts
<1>2. ControlInv(p) /\ PlacedInv(p) /\ MirrorInv(p)
  BY DEF Mirrors
<1>3. /\ OtherMsg(nextId, "custom") \in Outside /\ OtherMsg(nextId, "bashExecution") \in Outside
  BY <1>1, NewOutside
<1>4. ~Compact /\ ~ClearQueue
  BY <1>2 DEF Compact, ClearQueue, PlacedInv, Steady
\* Nothing that the transcript or a run knows of.
<1>5. ASSUME UNCHANGED <<messages, branch, run, call, last>>
      PROVE  MirrorInv(p)'
  BY <1>2, <1>5 DEF MirrorInv, Reached, Saved
\* A message m is put into the idle session at once.
<1>6. ASSUME NEW m \in Outside, NEW kind \in {"custom", "bash"}, Send(kind, m), ~active,
             messages' = Append(messages, m), branch' = Append(branch, m), UNCHANGED <<run, call>>
      PROVE  MirrorInv(p)'
  <2>1. run.at = "none" /\ run.saving = None
    BY <1>1, <1>6 DEF Undivided, NoHiddenRun, Send
  <2>2. m \in EntryType /\ m \in Message /\ ~IsAssistant(m)
    BY <1>6, OutsideIsNeither
  <2>3. <<m>> \in Seq(EntryType) /\ NoCompaction(<<m>>)
    BY <2>2, MessageIsNoCompaction
  <2>4. messages' = messages \o <<m>> /\ branch' = branch \o <<m>> /\ branch' \in Seq(EntryType)
    <3>1. \A s \in Seq(EntryType) : Append(s, m) = s \o <<m>> /\ Append(s, m) \in Seq(EntryType)
      BY <2>2
    <3>. QED
      BY <1>1, <1>6, <3>1
  <2>5. Saved' = branch \o <<m>>
    BY <1>6, <2>1, <2>4, NothingAdded DEF Saved
  <2>6. Kept(messages') = Kept(Context(Saved'))
    BY <1>1, <2>1, <2>3, <2>4, <2>5, MirrorGrows
  <2>7. ~LastIs(messages', IsAssistant)
    BY <1>1, <1>6, <2>2, Longer DEF LastIs
  <2>. QED
    BY <1>2, <1>6, <2>1, <2>6, <2>7 DEF MirrorInv
<1>7. CASE Prompt(p)
  <2> DEFINE c == [NoCall EXCEPT !.at = "auth", !.batch = <<UserMsg(nextId)>>]
  <2>1. /\ call' = [call EXCEPT ![p] = c] /\ run' = run /\ Alike(messages, branch) /\ call[p].at = "idle"
    BY <1>7 DEF Prompt, Flush, Alike
  <2>2. c.at = "auth"
    BY DEF NoCall
  <2>. HIDE DEF c
  <2>3. call'[p] = c
    BY <1>2, <2>1, CallEntered
  <2>4. run.at = "none" /\ run.saving = None
    BY <1>1, <2>1
  <2>. QED
    BY <1>1, <2>1, <2>2, <2>3, <2>4, AlikeMirrored
<1>8. CASE SendTurn(p)
  <2> DEFINE c == [NoCall EXCEPT !.at = "running", !.phase = "main"]
  <2>1. run.at = "none" /\ run.saving = None
    BY <1>1, <1>8 DEF SendTurn
  <2>2. /\ call' = [call EXCEPT ![p] = c] /\ Start(p, "prompt", <<OtherMsg(nextId, "custom")>>, "prompt")
        /\ Alike(messages, branch)
    BY <1>8, <2>1 DEF SendTurn, RunPrompt, Alike
  <2>3. run'.at = "prompt" /\ run'.saving = None
    BY <2>2 DEF Start, NoRun
  <2>4. c.at = "running"
    BY DEF NoCall
  <2>. HIDE DEF c
  <2>5. call'[p] = c
    BY <1>2, <2>2, CallEntered
  <2>. QED
    BY <1>1, <2>1, <2>2, <2>3, <2>4, <2>5, AlikeMirrored
<1>9. CASE Steer \/ FollowUp
  BY <1>5, <1>9 DEF Steer, FollowUp, flagVars
<1>10. CASE SendNextTurn
  BY <1>5, <1>10 DEF SendNextTurn, agentVars, flagVars
<1>11. CASE SendCustom
  <2> DEFINE m == OtherMsg(nextId, "custom")
  <2>1. m \in Outside /\ Send("custom", m) /\ UNCHANGED <<run, call, last>>
    BY <1>3, <1>11 DEF SendCustom, flagVars
  <2>2. \/ active /\ UNCHANGED <<messages, branch>>
        \/ ~active /\ messages' = Append(messages, m) /\ branch' = Append(branch, m)
    BY <1>11 DEF SendCustom
  <2>. HIDE DEF m
  <2>. QED
    BY <1>5, <1>6, <2>1, <2>2
<1>12. CASE RecordBash
  <2> DEFINE m == OtherMsg(nextId, "bashExecution")
  <2>1. m \in Outside /\ Send("bash", m) /\ UNCHANGED <<run, call, last>>
    BY <1>3, <1>12 DEF RecordBash, flagVars
  <2>2. \/ active /\ UNCHANGED <<messages, branch>>
        \/ ~active /\ messages' = Append(messages, m) /\ branch' = Append(branch, m)
    BY <1>12 DEF RecordBash
  <2>. HIDE DEF m
  <2>. QED
    BY <1>5, <1>6, <2>1, <2>2
<1>13. CASE Abort
  <2> DEFINE c == IF call[p].at = "sleeping" THEN [call[p] EXCEPT !.at = "cancelled"] ELSE call[p]
             r == IF run.at = "none" THEN run ELSE [run EXCEPT !.aborted = TRUE]
  <2>1. /\ call' = [q \in {p} |-> c] /\ run' = r /\ UNCHANGED <<messages, branch, last>>
    BY <1>1, <1>13 DEF Abort, AbortAll, flagVars
  <2>2. r.at = run.at /\ r.saving = run.saving
    BY <1>1 DEF RunShape
  <2>3. /\ c.msg = call[p].msg
        /\ c.at \in {"sleeping", "cancelled"} => call[p].at \in {"sleeping", "cancelled"}
        /\ c.at = "post" <=> call[p].at = "post"
    BY <1>1 DEF CallShape
  <2>. HIDE DEF c, r
  <2>4. call'[p] = c
    BY <2>1
  <2>5. Saved' = Saved /\ (Reached(p)' => Reached(p))
    BY <2>1, <2>2, <2>3, <2>4 DEF Saved, Reached
  <2>. QED
    BY <1>2, <2>1, <2>2, <2>3, <2>4, <2>5 DEF MirrorInv
<1>. QED
  BY <1>1, <1>4, <1>7, <1>8, <1>9, <1>10, <1>11, <1>12, <1>13 DEF Application

LEMMA MirrorStep ==
    ASSUME NEW p, Callers = {p}, Mirrors(p), Undivided, PlacedInv(p)', [Next]_vars
    PROVE  MirrorInv(p)'
<1>1. CASE UNCHANGED vars
  BY <1>1 DEF vars, agentVars, flagVars, Mirrors, MirrorInv, Reached, Saved
<1>2. CASE Next
  <2>1. ~CompStep
    BY DEF Mirrors, PlacedInv, NoComp, CompStep, CompactPrepare, CompactDone
  <2>. QED
    BY <1>2, <2>1, MirrorRun, MirrorCall, MirrorApplication DEF Next
<1>. QED
  BY <1>1, <1>2

LEMMA MirrorInit ==
    ASSUME NEW p, Callers = {p}, Init
    PROVE  MirrorInv(p)
<1>1. /\ call[p] = NoCall /\ run = NoRun /\ messages = <<>> /\ branch = <<>>
  BY DEF Init
<1>2. call[p].at = "idle" /\ run.saving = None /\ run.at = "none"
  BY <1>1 DEF NoCall, NoRun
<1>3. Saved = <<>>
  BY <1>1, <1>2 DEF Saved
<1>4. Context(<<>>) = <<>>
  <2> DEFINE e == <<>>
  <2>1. e \in Seq(EntryType) /\ Len(e) = 0
    OBVIOUS
  <2>. HIDE DEF e
  <2>2. LastCompaction(e) \in 0..Len(e)
    BY <2>1, CompactionOf
  <2>3. LastCompaction(e) = 0
    BY <2>1, <2>2
  <2>. QED
    BY <2>3 DEF Context, e
<1>. QED
  BY <1>1, <1>2, <1>3, <1>4 DEF MirrorInv, Reached

\* When nothing is under way, a process that opened the session would start from the
\* transcript that the agent has, but for the failed replies that retries and
\* recoveries removed: what is taken back from the transcript is a failed reply,
\* whatever came between the reply and the decision, and what is compacted, deferred
\* or saved reaches both.  One caller; compact() and clearQueue() are not part of it;
\* shell results and custom messages where no compaction is due.
THEOREM TranscriptIsContextHolds ==
    ASSUME OneCaller PROVE Spec /\ Steady /\ Apart => []TranscriptIsContext
<1>1. PICK p : Callers = {p}
  BY DEF OneCaller
<1> DEFINE Guard == {"custom", "bash"} \cap scenario.ways = {} \/ LightInv(p)
           IInv == Mirrors(p) /\ Guard
<1>2. Init /\ Steady /\ Apart => IInv
  BY <1>1, ControlInit, PlacedInit, TogetherInit, LightInit, MirrorInit DEF Apart, Mirrors
<1>3. IInv /\ [Next]_vars => IInv'
  <2> SUFFICES ASSUME IInv, [Next]_vars
               PROVE  IInv'
    OBVIOUS
  <2>1. ControlInv(p) /\ PlacedInv(p) /\ TogetherInv /\ ItemsInv(p)
    BY DEF Mirrors
  <2>2. Undivided
    BY <2>1, LightIsSeen DEF Undivided
  <2>3. UNCHANGED scenario
    BY DEF Next, vars
  <2>4. Guard'
    BY <1>1, <2>3, <2>1, LightStep
  <2>5. (ControlInv(p) /\ PlacedInv(p) /\ TogetherInv /\ ItemsInv(p))'
    BY <1>1, <2>2, <2>1, ControlStep, PlacedStep, TogetherStep
  <2>6. MirrorInv(p)'
    BY <1>1, <2>2, <2>5, MirrorStep
  <2>. QED
    BY <2>4, <2>5, <2>6 DEF Mirrors
<1>4. IInv => TranscriptIsContext
  <2> SUFFICES ASSUME Mirrors(p), Quiet
               PROVE  Kept(messages) = Kept(Context(branch))
    BY DEF TranscriptIsContext
  <2>1. run.at = "none"
    BY DEF Quiet
  <2>. QED
    BY <2>1, MirrorFacts
<1>. QED
  BY <1>2, <1>3, <1>4, PTL DEF Spec

(***************************************************************************)
(* What is displayed is what is pending: texts of lists                    *)
(***************************************************************************)
LEMMA WithoutIn ==
    ASSUME NEW U, NEW s \in Seq(U), NEW out, NEW T, \A i \in DOMAIN s : i \in out \/ s[i] \in T
    PROVE  Without(s, out) \in Seq(T)
<1>1. PICK f : KeptUpTo(s, out, Len(s), f) /\ Without(s, out) = f[Len(s)]
  BY WithoutSteps
<1>. QED
  BY <1>1, KeptIsList

\* A message whose text, if it is a user's, is its own.
Told == {m \in Message : m.role = "user" => m.is = m.id}
Said == {m \in Message : m.role = "user"}

LEMMA UsersAdded ==
    ASSUME NEW s \in Seq(Message), NEW m \in Message
    PROVE  /\ Users(s) \in Seq(Said)
           /\ Users(Append(s, m)) = IF m.role = "user" THEN Append(Users(s), m) ELSE Users(s)
<1> DEFINE r == Append(s, m)
           out == {i \in DOMAIN s : s[i].role # "user"}
           more == {i \in DOMAIN r : r[i].role # "user"}
<1>1. /\ r \in Seq(Message) /\ Len(s) \in Nat /\ DOMAIN s = 1..Len(s) /\ DOMAIN r = 1..(Len(s) + 1)
      /\ r[Len(s) + 1] = m /\ \A i \in 1..Len(s) : r[i] = s[i]
  OBVIOUS
<1>2. Users(s) = Without(s, out) /\ Users(r) = Without(r, more)
  BY DEF Users
<1>3. (Len(s) + 1 \in more <=> m.role # "user") /\ \A i \in DOMAIN s : i \in out <=> i \in more
  <2>. HIDE DEF r
  <2>. QED
    BY <1>1
<1>4. \A i \in DOMAIN s : i \in out \/ s[i] \in Said
  BY DEF Said
<1>. HIDE DEF out, more
<1>5. Without(s, out) \in Seq(Said)
  BY <1>4, WithoutIn
<1>6. Without(r, more) = IF Len(s) + 1 \in more THEN Without(s, out) ELSE Append(Without(s, out), m)
  BY <1>3, WithoutAdded
<1>. QED
  BY <1>2, <1>3, <1>5, <1>6

LEMMA TextsAdded ==
    ASSUME NEW s \in Seq(Message), NEW m \in Message
    PROVE  /\ TextsOf(s) \in Seq(Nat)
           /\ TextsOf(Append(s, m)) = IF m.role = "user" THEN Append(TextsOf(s), m.is) ELSE TextsOf(s)
<1> DEFINE u == Users(s)
           v == Users(Append(s, m))
           x == TextsOf(s)
<1>1. u \in Seq(Said) /\ v = IF m.role = "user" THEN Append(u, m) ELSE u
  BY UsersAdded
<1>2. \A e \in Said : e.is \in Nat
  BY DEF Said, Message
<1>3. x = [i \in DOMAIN u |-> u[i].is] /\ TextsOf(Append(s, m)) = [i \in DOMAIN v |-> v[i].is]
  BY DEF TextsOf
<1>. HIDE DEF u, v, x
<1>4. Len(u) \in Nat /\ DOMAIN u = 1..Len(u) /\ \A i \in 1..Len(u) : u[i] \in Said
  BY <1>1
<1>5. x = [i \in 1..Len(u) |-> u[i].is] /\ \A i \in 1..Len(u) : u[i].is \in Nat
  BY <1>2, <1>3, <1>4
<1>6. x \in Seq(Nat) /\ Len(x) = Len(u)
  BY <1>4, <1>5
<1>7. CASE m.role = "user"
  <2>1. m \in Said /\ m.is \in Nat
    BY <1>2, <1>7 DEF Said
  <2>2. v = Append(u, m)
    BY <1>1, <1>7
  <2>3. DOMAIN v = 1..(Len(u) + 1) /\ v[Len(u) + 1] = m /\ \A i \in 1..Len(u) : v[i] = u[i]
    BY <1>1, <2>1, <2>2
  <2> DEFINE y == [i \in DOMAIN v |-> v[i].is]
             z == Append(x, m.is)
  <2>4. y = [i \in 1..(Len(u) + 1) |-> v[i].is]
    BY <2>3
  <2>5. \A i \in 1..(Len(u) + 1) : i = Len(u) + 1 \/ i \in 1..Len(u)
    BY <1>4
  <2>6. z = [i \in 1..(Len(u) + 1) |-> z[i]]
    BY <1>6, <2>1
  <2>7. z[Len(u) + 1] = m.is /\ \A i \in 1..Len(u) : z[i] = u[i].is
    BY <1>5, <1>6, <2>1
  <2>8. \A i \in 1..(Len(u) + 1) : v[i].is = z[i]
    BY <2>3, <2>5, <2>7
  <2>. HIDE DEF y, z
  <2>9. y = z
    BY <2>4, <2>6, <2>8
  <2>. QED
    BY <1>3, <1>6, <1>7, <2>9 DEF y, z, x
<1>8. CASE m.role # "user"
  BY <1>1, <1>3, <1>6, <1>8 DEF x
<1>. QED
  BY <1>7, <1>8

LEMMA NoTexts == TextsOf(<<>>) = <<>>
<1> DEFINE e == <<>>
           u == Users(e)
<1>1. e \in Seq({}) /\ DOMAIN e = {}
  OBVIOUS
<1>2. u \in Seq({})
  <2>. HIDE DEF e
  <2>. QED
    BY <1>1, WithoutIn DEF Users
<1>. HIDE DEF u
<1>3. u = <<>>
  BY <1>2
<1>4. TextsOf(e) = [i \in DOMAIN u |-> u[i].is]
  BY DEF TextsOf, u
<1>5. TextsOf(e) = <<>>
  BY <1>3, <1>4
<1>. QED
  BY <1>5

LEMMA JoinAppend ==
    ASSUME NEW T, NEW a \in Seq(T)
    PROVE  \A b \in Seq(T), e \in T : a \o Append(b, e) = Append(a \o b, e)
OBVIOUS

LEMMA TextsJoined ==
    ASSUME NEW s \in Seq(Message), NEW t \in Seq(Message)
    PROVE  TextsOf(s \o t) = TextsOf(s) \o TextsOf(t)
<1> DEFINE Good(k) == \A x \in Seq(Message) : Len(x) = k => TextsOf(s \o x) = TextsOf(s) \o TextsOf(x)
           Bad == {k \in Nat : ~Good(k)}
<1>0. TextsOf(s) \in Seq(Nat)
  <2>1. UserMsg(0) \in Message
    BY NewInput, InputIsMessage
  <2>. QED
    BY <2>1, TextsAdded
<1>1. Good(0)
  BY <1>0, NothingAdded, NoTexts
<1>2. ASSUME NEW k \in Nat, k # 0, Good(k - 1)
      PROVE  Good(k)
  <2> SUFFICES ASSUME NEW x \in Seq(Message), Len(x) = k
               PROVE  TextsOf(s \o x) = TextsOf(s) \o TextsOf(x)
    OBVIOUS
  <2>1. x # <<>>
    BY <1>2
  <2> DEFINE y == Front(x)
             m == x[Len(x)]
  <2>2. y \in Seq(Message) /\ m \in Message /\ Len(y) = Len(x) - 1 /\ x = Append(y, m)
    BY <2>1, LastOfList
  <2>3. Len(y) = k - 1
    BY <2>2
  <2>4. s \o x = Append(s \o y, m)
    BY <2>1, JoinLast
  <2>. HIDE DEF y, m
  <2>5. s \o y \in Seq(Message)
    BY <2>2
  <2>6. TextsOf(s \o y) = TextsOf(s) \o TextsOf(y)
    BY <1>2, <2>2, <2>3
  <2>7. /\ TextsOf(y) \in Seq(Nat)
        /\ TextsOf(Append(y, m)) = IF m.role = "user" THEN Append(TextsOf(y), m.is) ELSE TextsOf(y)
    BY <2>2, TextsAdded
  <2>8. TextsOf(Append(s \o y, m)) = IF m.role = "user" THEN Append(TextsOf(s \o y), m.is) ELSE TextsOf(s \o y)
    BY <2>2, <2>5, TextsAdded
  <2>9. m.role = "user" => m.is \in Nat
    BY <2>2 DEF Message
  <2> DEFINE a == TextsOf(s)
             b == TextsOf(y)
             c == TextsOf(Append(s \o y, m))
             d == TextsOf(Append(y, m))
  <2>10. a \in Seq(Nat) /\ b \in Seq(Nat)
    BY <1>0, <2>7
  <2>11. c = IF m.role = "user" THEN Append(a \o b, m.is) ELSE a \o b
    BY <2>6, <2>8
  <2>12. d = IF m.role = "user" THEN Append(b, m.is) ELSE b
    BY <2>7
  <2>13. TextsOf(s \o x) = c /\ TextsOf(x) = d
    BY <2>2, <2>4
  <2>. HIDE DEF a, b, c, d
  <2>14. m.role = "user" => a \o Append(b, m.is) = Append(a \o b, m.is)
    <3> DEFINE N == Nat
    <3>1. a \in Seq(N) /\ b \in Seq(N) /\ (m.role = "user" => m.is \in N)
      BY <2>9, <2>10
    <3>. HIDE DEF N
    <3>. QED
      BY <3>1, JoinAppend
  <2>15. c = a \o d
    BY <2>11, <2>12, <2>14
  <2>. QED
    BY <2>13, <2>15 DEF a
<1>. HIDE DEF Good
<1>3. Bad = {}
  <2> SUFFICES ASSUME Bad # {}
               PROVE  FALSE
    OBVIOUS
  <2>1. PICK b \in Bad : \A k \in Bad : b <= k
    <3>1. Bad \in SUBSET Nat
      OBVIOUS
    <3>. HIDE DEF Bad
    <3>. QED
      BY <3>1, Least
  <2>2. b \in Nat /\ ~Good(b) /\ b # 0
    BY <1>1
  <2>3. b - 1 \in Nat /\ b - 1 < b
    BY <2>2
  <2>4. b - 1 \notin Bad
    <3>1. b - 1 \in Bad => b <= b - 1
      <4>. HIDE DEF Bad
      <4>. QED
        BY <2>1
    <3>. QED
      BY <2>2, <2>3, <3>1
  <2>. QED
    BY <1>2, <2>2, <2>3, <2>4
<1>4. Len(t) \in Nat /\ Good(Len(t))
  BY <1>3
<1>. QED
  BY <1>4 DEF Good

\* The first text, if the first message is a user's.
LEMMA TextsOfFirst ==
    ASSUME NEW s \in Seq(Message), NEW m \in Message
    PROVE  /\ TextsOf(s) \in Seq(Nat)
           /\ m.role = "user" => m.is \in Nat /\ TextsOf(<<m>> \o s) = <<m.is>> \o TextsOf(s)
           /\ m.role # "user" => TextsOf(<<m>> \o s) = TextsOf(s)
<1>1. <<>> \in Seq(Message) /\ Append(<<>>, m) = <<m>> /\ <<m>> \in Seq(Message)
  OBVIOUS
<1>2. TextsOf(<<m>>) = IF m.role = "user" THEN Append(<<>>, m.is) ELSE <<>>
  BY <1>1, NoTexts, TextsAdded
<1>3. TextsOf(<<m>> \o s) = TextsOf(<<m>>) \o TextsOf(s) /\ TextsOf(s) \in Seq(Nat)
  BY <1>1, TextsJoined, TextsAdded
<1>4. m.role = "user" => m.is \in Nat /\ Append(<<>>, m.is) = <<m.is>>
  BY DEF Message
<1>5. \A a \in Seq(Nat) : <<>> \o a = a
  OBVIOUS
<1>. QED
  BY <1>2, <1>3, <1>4, <1>5

LEMMA TextsAreIds ==
    ASSUME NEW s \in Seq(Told), NEW x, Contains(TextsOf(s), x)
    PROVE  \E j \in DOMAIN s : s[j].id = x
<1> DEFINE u == Users(s)
           T == {s[j] : j \in {j \in DOMAIN s : s[j].role = "user"}}
           out == {i \in DOMAIN s : s[i].role # "user"}
<1>1. \A i \in DOMAIN s : i \in out \/ s[i] \in T
  OBVIOUS
<1>2. u \in Seq(T)
  <2>1. u = Without(s, out)
    BY DEF Users
  <2>. HIDE DEF out, T, u
  <2>. QED
    BY <1>1, <2>1, WithoutIn
<1>3. TextsOf(s) = [i \in DOMAIN u |-> u[i].is]
  BY DEF TextsOf
<1>. HIDE DEF u
<1>4. PICK i \in 1..Len(u) : u[i].is = x
  <2>1. TextsOf(s) = [i \in 1..Len(u) |-> u[i].is] /\ Len(u) \in Nat
    <3>. HIDE DEF T
    <3>. QED
      BY <1>2, <1>3
  <2>2. Len(TextsOf(s)) = Len(u)
    BY <2>1
  <2>. QED
    BY <2>1, <2>2 DEF Contains
<1>5. u[i] \in T
  <2>. HIDE DEF T
  <2>. QED
    BY <1>2, <1>4
<1>6. PICK j \in DOMAIN s : u[i] = s[j] /\ s[j].role = "user"
  BY <1>5
<1>7. s[j].is = s[j].id
  BY <1>6 DEF Told
<1>. QED
  BY <1>4, <1>6, <1>7

LEMMA FirstGoes ==
    ASSUME NEW s \in Seq(Nat), NEW x \in Nat
    PROVE  Contains(<<x>> \o s, x) /\ RemoveFirst(<<x>> \o s, x) = s
<1> DEFINE r == <<x>> \o s
           I == {i \in 1..Len(r) : r[i] = x}
<1>1. /\ r \in Seq(Nat) /\ Len(r) = Len(s) + 1 /\ Len(s) \in Nat /\ r[1] = x /\ 1 \in 1..Len(r)
      /\ \A i \in 1..Len(s) : r[i + 1] = s[i]
  OBVIOUS
<1>. HIDE DEF r
<1>2. 1 \in I /\ \A i \in I : i \in Int /\ 1 <= i
  BY <1>1
<1>3. Min(I) = 1
  <2>. HIDE DEF I
  <2>1. \A y \in I : (\A i \in I : y <= i) => y = 1
    BY <1>2
  <2>. QED
    BY <1>2, <2>1 DEF Min
<1>4. RemoveFirst(r, x) = RemoveAt(r, 1)
  BY <1>1, <1>2, <1>3 DEF RemoveFirst, SelectInSeq
<1>5. SubSeq(r, 1, 0) = <<>> /\ SubSeq(r, 2, Len(r)) \in Seq(Nat)
  BY <1>1
<1>6. SubSeq(r, 2, Len(r)) = s
  <2> DEFINE z == SubSeq(r, 2, Len(r))
  <2>1. z \in Seq(Nat) /\ Len(z) = Len(s) /\ \A i \in 1..Len(s) : z[i] = r[i + 1]
    BY <1>1
  <2>. HIDE DEF z
  <2>2. \A i \in 1..Len(s) : z[i] = s[i]
    BY <1>1, <2>1
  <2>3. Len(z) \in Nat /\ z = [i \in 1..Len(z) |-> z[i]] /\ s = [i \in 1..Len(s) |-> s[i]]
    BY <2>1
  <2>4. z = s
    BY <2>1, <2>2, <2>3
  <2>. QED
    BY <2>4 DEF z
<1>7. RemoveAt(r, 1) = s
  BY <1>5, <1>6 DEF RemoveAt
<1>8. Contains(r, x)
  BY <1>1 DEF Contains
<1>. QED
  BY <1>4, <1>7, <1>8 DEF r

LEMMA NoneGoes ==
    ASSUME NEW s, NEW x, ~Contains(s, x)
    PROVE  RemoveFirst(s, x) = s
BY DEF Contains, RemoveFirst

(***************************************************************************)
(* What is displayed is what is pending: the queues and the run            *)
(***************************************************************************)
\* What the display should show: what the run has taken from a queue and not yet
\* delivered, and the queue.
SteerPending == (IF run.via = "steer" THEN run.out ELSE <<>>) \o steerQ
FollowPending == (IF run.via = "followUp" THEN run.out ELSE <<>>) \o followQ

PendingInv(p) ==
    /\ {steerQ, followQ, nextTurn, run.out, call[p].batch} \subseteq Seq(Told)
    /\ shownSteer = TextsOf(SteerPending) /\ shownFollow = TextsOf(FollowPending)

LEMMA TakingTold ==
    ASSUME NEW s \in Seq(Told)
    PROVE  /\ s \in Seq(Message) /\ <<>> \in Seq(Told)
           /\ s # <<>> => /\ Head(s) \in Told /\ Head(s) \in Message /\ Tail(s) \in Seq(Told)
                          /\ <<Head(s)>> \in Seq(Told) /\ s = <<Head(s)>> \o Tail(s)
           /\ \A t \in Seq(Told) : s \o t \in Seq(Told)
           /\ \A m \in Told : Append(s, m) \in Seq(Told) /\ <<m>> \in Seq(Told)
<1>1. Told \subseteq Message
  BY DEF Told
<1>2. s \in Seq(Message) /\ <<>> \in Seq(Told)
  BY <1>1
<1>3. ASSUME s # <<>>
      PROVE  Head(s) \in Told /\ Tail(s) \in Seq(Told) /\ <<Head(s)>> \in Seq(Told)
  BY <1>3
<1>4. ASSUME s # <<>>
      PROVE  s = <<Head(s)>> \o Tail(s)
  <2> DEFINE r == <<Head(s)>> \o Tail(s)
  <2>1. Len(s) \in Nat /\ Len(s) # 0 /\ Tail(s) \in Seq(Told) /\ Len(Tail(s)) = Len(s) - 1
        /\ \A i \in 1..(Len(s) - 1) : Tail(s)[i] = s[i + 1]
    BY <1>4
  <2>2. r \in Seq(Told) /\ Len(r) = Len(s) /\ r[1] = s[1]
    BY <1>3, <1>4, <2>1
  <2>3. \A i \in 2..Len(s) : r[i] = s[i]
    BY <1>3, <1>4, <2>1
  <2>4. \A i \in 1..Len(s) : i = 1 \/ i \in 2..Len(s)
    BY <2>1
  <2>. HIDE DEF r
  <2>5. \A i \in 1..Len(s) : r[i] = s[i]
    BY <2>2, <2>3, <2>4
  <2>6. r = s
    BY <2>2, <2>5
  <2>. QED
    BY <2>6 DEF r
<1>5. \A t \in Seq(Told) : s \o t \in Seq(Told)
  OBVIOUS
<1>6. \A m \in Told : Append(s, m) \in Seq(Told) /\ <<m>> \in Seq(Told)
  OBVIOUS
<1>. QED
  BY <1>1, <1>2, <1>3, <1>4, <1>5, <1>6

LEMMA NewTold ==
    ASSUME Distinct, NEW id \in Nat
    PROVE  /\ UserMsg(id) \in Told /\ UserMsg(id).role = "user" /\ UserMsg(id).is = id
           /\ OtherMsg(id, "custom") \in Told /\ OtherMsg(id, "custom").role # "user"
<1>1. UserMsg(id) \in Message /\ OtherMsg(id, "custom") \in Message
  BY NewInput DEF Input
<1>. QED
  BY <1>1 DEF Told, UserMsg, OtherMsg

\* What a run is about to deliver is in no queue.
LEMMA OutIsTaken ==
    ASSUME NEW p, PlacedInv(p), run.out \in Seq(Told), run.out # <<>>
    PROVE  /\ \A j \in DOMAIN steerQ : steerQ[j].id # Head(run.out).id
           /\ \A j \in DOMAIN followQ : followQ[j].id # Head(run.out).id
<1>1. Here(p, Contents(p))
  BY PlacesAre
<1>. HIDE DEF Contents
<1> DEFINE S == Contents(p)
<1>2. S["steer"] = steerQ /\ S["follow"] = followQ /\ S["out"] = run.out /\ Once(S)
  BY <1>1 DEF Here, WellPlaced
<1>. HIDE DEF S
<1>3. "steer" \in PlaceNames /\ "follow" \in PlaceNames /\ "out" \in PlaceNames
  BY DEF PlaceNames
<1>4. 1 \in DOMAIN run.out /\ Head(run.out) = run.out[1]
  OBVIOUS
<1>5. \A j \in DOMAIN steerQ : steerQ[j].id # run.out[1].id
  BY <1>2, <1>3, <1>4 DEF Once
<1>6. \A j \in DOMAIN followQ : followQ[j].id # run.out[1].id
  BY <1>2, <1>3, <1>4 DEF Once
<1>. QED
  BY <1>4, <1>5, <1>6

\* A run that has delivered what it took takes the next, or begins with a prompt.
LEMMA NothingTaken ==
    ASSUME steerQ \in Seq(Told), followQ \in Seq(Told), run.out = <<>>
    PROVE  SteerPending = steerQ /\ FollowPending = followQ
BY DEF SteerPending, FollowPending

LEMMA Taken ==
    ASSUME steerQ \in Seq(Told), followQ \in Seq(Told), run.out = <<>>,
           \/ /\ run'.out = <<>> \/ run'.via = "prompt"
              /\ UNCHANGED <<steerQ, followQ>>
           \/ /\ steerQ # <<>> /\ run'.out = <<Head(steerQ)>> /\ run'.via = "steer"
              /\ steerQ' = Tail(steerQ) /\ UNCHANGED followQ
           \/ /\ followQ # <<>> /\ run'.out = <<Head(followQ)>> /\ run'.via = "followUp"
              /\ followQ' = Tail(followQ) /\ UNCHANGED steerQ
    PROVE  /\ SteerPending' = SteerPending /\ FollowPending' = FollowPending
           /\ steerQ' \in Seq(Told) /\ followQ' \in Seq(Told)
<1>1. SteerPending = steerQ /\ FollowPending = followQ
  BY NothingTaken
<1>2. <<>> \o steerQ = steerQ /\ <<>> \o followQ = followQ
  OBVIOUS
<1>3. CASE /\ run'.out = <<>> \/ run'.via = "prompt"
           /\ UNCHANGED <<steerQ, followQ>>
  BY <1>1, <1>2, <1>3 DEF SteerPending, FollowPending
<1>4. CASE /\ steerQ # <<>> /\ run'.out = <<Head(steerQ)>> /\ run'.via = "steer"
           /\ steerQ' = Tail(steerQ) /\ UNCHANGED followQ
  BY <1>1, <1>2, <1>4, TakingTold DEF SteerPending, FollowPending
<1>5. CASE /\ followQ # <<>> /\ run'.out = <<Head(followQ)>> /\ run'.via = "followUp"
           /\ followQ' = Tail(followQ) /\ UNCHANGED steerQ
  BY <1>1, <1>2, <1>5, TakingTold DEF SteerPending, FollowPending
<1>. QED
  BY <1>3, <1>4, <1>5

\* The display forgets what is delivered.
LEMMA Undisplayed ==
    ASSUME NEW p, PlacedInv(p), PendingInv(p), run.out # <<>>,
           NEW m, m = Head(run.out), run'.out = Tail(run.out), run'.via = run.via,
           UNCHANGED <<steerQ, followQ>>,
           IF m.role = "user" THEN Undisplay(m) ELSE UNCHANGED shownVars
    PROVE  shownSteer' = TextsOf(SteerPending') /\ shownFollow' = TextsOf(FollowPending')
<1> DEFINE t == Tail(run.out)
<1>1. /\ run.out \in Seq(Told) /\ steerQ \in Seq(Told) /\ followQ \in Seq(Told)
      /\ shownSteer = TextsOf(SteerPending) /\ shownFollow = TextsOf(FollowPending)
  BY DEF PendingInv
<1>2. m \in Told /\ m \in Message /\ t \in Seq(Told) /\ run.out = <<m>> \o t
  BY <1>1, TakingTold
<1>3. /\ \A j \in DOMAIN steerQ : steerQ[j].id # m.id
      /\ \A j \in DOMAIN followQ : followQ[j].id # m.id
  BY <1>1, OutIsTaken
<1>4. m.role = "user" => m.is = m.id /\ m.is \in Nat
  BY <1>2 DEF Told, Message
<1>5. m.role = "user" => ~Contains(TextsOf(steerQ), m.is) /\ ~Contains(TextsOf(followQ), m.is)
  BY <1>1, <1>3, <1>4, TextsAreIds
<1>6. run'.out = t
  OBVIOUS
<1>. HIDE DEF t
<1>7. \A q \in Seq(Told) :
        /\ <<>> \o q = q /\ t \o q \in Seq(Message) /\ run.out \o q = <<m>> \o (t \o q)
  <2>1. \A q \in Seq(Told) : <<>> \o q = q
    OBVIOUS
  <2>2. \A q \in Seq(Told) : t \o q \in Seq(Message)
    BY <1>2, TakingTold
  <2>3. ASSUME NEW q \in Seq(Told)
        PROVE  (<<m>> \o t) \o q = <<m>> \o (t \o q)
    BY <1>2
  <2>. QED
    BY <1>2, <2>1, <2>2, <2>3
\* The texts of a list whose first message is delivered.
<1>8. ASSUME NEW q \in Seq(Told)
      PROVE  /\ m.role = "user" => /\ Contains(TextsOf(run.out \o q), m.is)
                                   /\ RemoveFirst(TextsOf(run.out \o q), m.is) = TextsOf(t \o q)
             /\ m.role # "user" => TextsOf(run.out \o q) = TextsOf(t \o q)
  <2> DEFINE x == t \o q
             y == TextsOf(x)
  <2>1. x \in Seq(Message) /\ run.out \o q = <<m>> \o x
    BY <1>7, <1>8
  <2>. HIDE DEF x
  <2>2. /\ y \in Seq(Nat)
        /\ m.role = "user" => TextsOf(<<m>> \o x) = <<m.is>> \o y
        /\ m.role # "user" => TextsOf(<<m>> \o x) = y
    BY <1>2, <2>1, TextsOfFirst
  <2>. HIDE DEF y
  <2>3. m.role = "user" => Contains(<<m.is>> \o y, m.is) /\ RemoveFirst(<<m.is>> \o y, m.is) = y
    BY <1>4, <2>2, FirstGoes
  <2>. QED
    BY <2>1, <2>2, <2>3 DEF x, y
<1>9. CASE run.via = "steer"
  BY <1>1, <1>6, <1>8, <1>9 DEF SteerPending, FollowPending, Undisplay, shownVars
<1>10. CASE run.via = "followUp"
  BY <1>1, <1>5, <1>6, <1>7, <1>8, <1>10 DEF SteerPending, FollowPending, Undisplay, shownVars
<1>11. CASE run.via \notin {"steer", "followUp"}
  BY <1>1, <1>5, <1>7, <1>11, NoneGoes DEF SteerPending, FollowPending, Undisplay, shownVars
<1>. QED
  BY <1>9, <1>10, <1>11

\* A step that displays what it did before.
LEMMA StillShown ==
    ASSUME NEW p, PendingInv(p), {steerQ', followQ', nextTurn', run'.out, call'[p].batch} \subseteq Seq(Told),
           UNCHANGED shownVars, SteerPending' = SteerPending, FollowPending' = FollowPending
    PROVE  PendingInv(p)'
BY DEF PendingInv, shownVars

LEMMA PendingRun ==
    ASSUME NEW p, Callers = {p}, ControlInv(p), PlacedInv(p), PendingInv(p), AgentStep
    PROVE  PendingInv(p)'
<1>1. /\ run \in RunShape(run) /\ connected = TRUE
      /\ (run.at = "none" => run.out = <<>> /\ run.saving = None)
      /\ (run.at # "none" => run.by = p)
      /\ call = [q \in {p} |-> call[p]] /\ call[p] \in CallShape(call[p])
  BY BranchIds DEF ControlInv, Controlled
<1>2. /\ steerQ \in Seq(Told) /\ followQ \in Seq(Told) /\ nextTurn \in Seq(Told)
      /\ run.out \in Seq(Told) /\ call[p].batch \in Seq(Told)
  BY DEF PendingInv
<1>3. <<>> \in Seq(Told)
  BY <1>2, TakingTold
<1>4. CASE Deliver
  <2> DEFINE m == Head(run.out)
  <2>1. /\ run' = [run EXCEPT !.out = Tail(@), !.saving = m] /\ run.out # <<>>
        /\ IF m.role = "user" THEN Undisplay(m) ELSE UNCHANGED shownVars
        /\ UNCHANGED <<steerQ, followQ, nextTurn, call>>
    BY <1>1, <1>4 DEF Deliver
  <2>2. m = Head(run.out)
    OBVIOUS
  <2>. HIDE DEF m
  <2>3. run'.out = Tail(run.out) /\ run'.via = run.via
    BY <1>1, <2>1 DEF RunShape
  <2>4. shownSteer' = TextsOf(SteerPending') /\ shownFollow' = TextsOf(FollowPending')
    BY <2>1, <2>2, <2>3, Undisplayed
  <2>5. Tail(run.out) \in Seq(Told)
    BY <1>2, <2>1, TakingTold
  <2>. QED
    BY <1>2, <2>1, <2>3, <2>4, <2>5 DEF PendingInv
\* What is pending does not change.
<1>5. ASSUME UNCHANGED <<steerQ, followQ, nextTurn, call, shownVars>>, run'.out = run.out, run'.via = run.via
      PROVE  PendingInv(p)'
  BY <1>2, <1>5, StillShown DEF SteerPending, FollowPending
<1>6. CASE Save
  BY <1>1, <1>5, <1>6 DEF Save, RunShape
<1>7. CASE Respond \/ ToolDone
  <2>1. PICK m, at : Produce(m, at)
    BY <1>7 DEF Respond, ToolDone
  <2>2. /\ run' = [run EXCEPT !.at = at, !.saving = m]
        /\ UNCHANGED <<steerQ, followQ, nextTurn, call, shownVars>>
    BY <1>1, <2>1 DEF Produce
  <2>3. run'.out = run.out /\ run'.via = run.via
    BY <1>1, <2>2 DEF RunShape
  <2>. QED
    BY <1>5, <2>2, <2>3
\* What a queue gives is taken.
<1>8. ASSUME run.out = <<>>, UNCHANGED <<nextTurn, shownVars>>, call'[p].batch = call[p].batch,
             run'.out \in Seq(Told),
             \/ /\ run'.out = <<>> \/ run'.via = "prompt"
                /\ UNCHANGED <<steerQ, followQ>>
             \/ /\ steerQ # <<>> /\ run'.out = <<Head(steerQ)>> /\ run'.via = "steer"
                /\ steerQ' = Tail(steerQ) /\ UNCHANGED followQ
             \/ /\ followQ # <<>> /\ run'.out = <<Head(followQ)>> /\ run'.via = "followUp"
                /\ followQ' = Tail(followQ) /\ UNCHANGED steerQ
      PROVE  PendingInv(p)'
  BY <1>2, <1>8, Taken, StillShown
<1>9. CASE Poll
  <2>1. run.out = <<>> /\ UNCHANGED <<nextTurn, shownVars, call>>
    BY <1>9 DEF Poll, Ready
  <2>2. CASE steerQ # <<>> /\ \E at : FromSteering(at)
    BY <1>1, <1>2, <1>8, <2>1, <2>2, TakingTold DEF FromSteering, RunShape
  <2>3. CASE followQ # <<>> /\ FromFollowUps("ask")
    BY <1>1, <1>2, <1>8, <2>1, <2>3, TakingTold DEF FromFollowUps, RunShape
  <2>4. CASE (\E at \in {"end", "ask"} : run' = [run EXCEPT !.at = at]) /\ UNCHANGED <<steerQ, followQ>>
    BY <1>1, <1>5, <2>1, <2>4 DEF RunShape
  <2>. QED
    BY <1>9, <2>2, <2>3, <2>4 DEF Poll
<1>10. CASE RunEnds
  <2> DEFINE c == [call[p] EXCEPT !.at = "post"]
  <2>1. /\ run' = NoRun /\ run.out = <<>> /\ UNCHANGED <<steerQ, followQ, nextTurn, shownVars>>
        /\ call' = [call EXCEPT ![p].at = "post"]
    BY <1>1, <1>10 DEF RunEnds, Ready
  <2>2. run'.out = <<>>
    BY <2>1 DEF NoRun
  <2>3. call'[p] = c
    BY <1>1, <2>1
  <2>4. c.batch = call[p].batch
    BY <1>1 DEF CallShape
  <2>. HIDE DEF c
  <2>. QED
    BY <1>3, <1>8, <2>1, <2>2, <2>3, <2>4
<1>. QED
  BY <1>4, <1>6, <1>7, <1>9, <1>10 DEF AgentStep

LEMMA PendingCall ==
    ASSUME NEW p, Callers = {p}, ControlInv(p), PlacedInv(p), PendingInv(p), CallStep(p)
    PROVE  PendingInv(p)'
<1>1. call = [q \in {p} |-> call[p]] /\ call[p] \in CallShape(call[p])
      /\ (call[p].at # "running" => run.at = "none")
      /\ (run.at = "none" => run.out = <<>>)
  BY DEF ControlInv, Controlled
<1>2. call[p].at # "running"
  BY DEF CallStep, PostRun, Wake, RetryCancelled, Prepare, SummaryFails, Compacted, Continue,
         ContinueThrows, Settled, Refused, Accepted, BeforeDone
<1>3. run.at = "none" /\ run.out = <<>>
  BY <1>1, <1>2
<1>4. /\ steerQ \in Seq(Told) /\ followQ \in Seq(Told) /\ nextTurn \in Seq(Told)
      /\ call[p].batch \in Seq(Told)
  BY DEF PendingInv
<1>5. <<>> \in Seq(Told) /\ call[p].batch \o nextTurn \in Seq(Told) /\ UNCHANGED shownVars
  <2>1. UNCHANGED shownVars
    BY DEF CallStep, PostRun, Wake, RetryCancelled, Prepare, SummaryFails, Compacted, Continue,
           ContinueThrows, Settled, Refused, Accepted, BeforeDone
  <2>. QED
    BY <1>4, <2>1, TakingTold
<1>6. ASSUME call'[p].batch \in Seq(Told), nextTurn' \in Seq(Told), run'.out \in Seq(Told),
             \/ /\ run'.out = <<>> \/ run'.via = "prompt"
                /\ UNCHANGED <<steerQ, followQ>>
             \/ /\ steerQ # <<>> /\ run'.out = <<Head(steerQ)>> /\ run'.via = "steer"
                /\ steerQ' = Tail(steerQ) /\ UNCHANGED followQ
             \/ /\ followQ # <<>> /\ run'.out = <<Head(followQ)>> /\ run'.via = "followUp"
                /\ followQ' = Tail(followQ) /\ UNCHANGED steerQ
      PROVE  PendingInv(p)'
  BY <1>3, <1>4, <1>5, <1>6, Taken, StillShown
<1>7. CASE Decides(p) \/ Compacted(p)
  <2>1. PICK c, br : Moves(p, c, br)
    BY <1>7, DecidesEffect, CompactedEffect
  <2>2. UNCHANGED <<steerQ, followQ, run>>
    BY <1>7, DecidesEffect, CompactedEffect
  <2>3. call'[p] = c
    BY <2>1 DEF Moves
  <2>4. call'[p].batch \in Seq(Told) /\ nextTurn' \in Seq(Told)
    BY <1>4, <1>5, <2>1, <2>3 DEF Moves
  <2>. QED
    BY <1>3, <1>5, <1>6, <2>2, <2>4
<1>8. NoCall.batch = <<>>
  BY DEF NoCall
<1>9. ASSUME NEW at, NEW out, NEW via, Start(p, at, out, via)
      PROVE  run'.out = out /\ run'.via = via
  BY <1>9 DEF Start, NoRun
<1>10. CASE Continue(p)
  <2> DEFINE c == [call[p] EXCEPT !.at = "running"]
  <2>1. call' = [call EXCEPT ![p].at = "running"] /\ UNCHANGED nextTurn
    BY <1>10 DEF Continue, Go
  <2>2. call'[p] = c
    BY <1>1, <2>1
  <2>3. c.batch = call[p].batch
    BY <1>1 DEF CallShape
  <2>. HIDE DEF c
  <2>4. call'[p].batch \in Seq(Told) /\ nextTurn' \in Seq(Told)
    BY <1>4, <2>1, <2>2, <2>3
  <2>5. \/ Start(p, "prompt", <<>>, "prompt") /\ UNCHANGED <<steerQ, followQ>>
        \/ /\ steerQ # <<>> /\ Start(p, "ask", <<Head(steerQ)>>, "steer")
           /\ steerQ' = Tail(steerQ) /\ UNCHANGED followQ
        \/ /\ followQ # <<>> /\ Start(p, "prompt", <<Head(followQ)>>, "followUp")
           /\ followQ' = Tail(followQ) /\ UNCHANGED steerQ
    BY <1>10 DEF Continue, NothingToSend, HasQueued
  <2>6. CASE Start(p, "prompt", <<>>, "prompt") /\ UNCHANGED <<steerQ, followQ>>
    BY <1>5, <1>6, <1>9, <2>4, <2>6
  <2>7. CASE /\ steerQ # <<>> /\ Start(p, "ask", <<Head(steerQ)>>, "steer")
             /\ steerQ' = Tail(steerQ) /\ UNCHANGED followQ
    <3>1. run'.out = <<Head(steerQ)>> /\ run'.via = "steer"
      BY <1>9, <2>7
    <3>2. run'.out \in Seq(Told)
      BY <1>4, <2>7, <3>1, TakingTold
    <3>. QED
      BY <1>6, <2>4, <2>7, <3>1, <3>2
  <2>8. CASE /\ followQ # <<>> /\ Start(p, "prompt", <<Head(followQ)>>, "followUp")
             /\ followQ' = Tail(followQ) /\ UNCHANGED steerQ
    <3>1. run'.out = <<Head(followQ)>> /\ run'.via = "followUp"
      BY <1>9, <2>8
    <3>2. run'.out \in Seq(Told)
      BY <1>4, <2>8, <3>1, TakingTold
    <3>. QED
      BY <1>6, <2>4, <2>8, <3>1, <3>2
  <2>. QED
    BY <2>5, <2>6, <2>7, <2>8
<1>11. CASE ContinueThrows(p) \/ Settled(p) \/ Refused(p)
  <2>1. UNCHANGED <<run, steerQ, followQ, nextTurn>>
    BY <1>11 DEF ContinueThrows, Settled, Refused, agentVars
  <2>2. PICK c : call' = [call EXCEPT ![p] = c] /\ c.batch = <<>>
    <3> DEFINE d == [NoCall EXCEPT !.at = "settling"]
    <3>1. d.batch = <<>>
      BY DEF NoCall
    <3>2. call' = [call EXCEPT ![p] = d] \/ call' = [call EXCEPT ![p] = NoCall]
      BY <1>11 DEF ContinueThrows, Settled, Refused
    <3>. HIDE DEF d
    <3>. QED
      BY <1>8, <3>1, <3>2
  <2>3. call'[p] = c
    BY <2>2, CallEntered
  <2>. QED
    BY <1>3, <1>4, <1>5, <1>6, <2>1, <2>2, <2>3
<1>12. CASE BeforeDone(p)
  <2> DEFINE c == [NoCall EXCEPT !.at = "running", !.phase = "main"]
  <2>1. /\ call' = [call EXCEPT ![p] = c] /\ Start(p, "prompt", call[p].batch, "prompt")
        /\ UNCHANGED <<steerQ, followQ, nextTurn>>
    BY <1>3, <1>12 DEF BeforeDone, RunPrompt
  <2>2. c.batch = <<>>
    BY DEF NoCall
  <2>. HIDE DEF c
  <2>3. call'[p] = c
    BY <2>1, CallEntered
  <2>4. run'.out = call[p].batch /\ run'.via = "prompt"
    BY <1>9, <2>1
  <2>. QED
    BY <1>4, <1>5, <1>6, <2>1, <2>2, <2>3, <2>4
<1>. QED
  BY <1>7, <1>10, <1>11, <1>12 DEF CallStep, Decides

\* What is added to a queue is added to what is pending, and so are its texts.
LEMMA Queued ==
    ASSUME NEW a \in Seq(Told), NEW q \in Seq(Told), NEW m \in Told
    PROVE  /\ Append(q, m) \in Seq(Told)
           /\ TextsOf(a \o Append(q, m)) =
                IF m.role = "user" THEN Append(TextsOf(a \o q), m.is) ELSE TextsOf(a \o q)
<1>1. a \in Seq(Message) /\ q \in Seq(Message) /\ m \in Message
  BY TakingTold DEF Told
<1>2. a \o Append(q, m) = Append(a \o q, m) /\ a \o q \in Seq(Message)
  BY <1>1, JoinAppend
<1>3. TextsOf(Append(a \o q, m)) =
        IF m.role = "user" THEN Append(TextsOf(a \o q), m.is) ELSE TextsOf(a \o q)
  BY <1>1, <1>2, TextsAdded
<1>. QED
  BY <1>2, <1>3, TakingTold

LEMMA PendingQueued ==
    ASSUME NEW p, PendingInv(p), NEW m \in Told, UNCHANGED <<nextTurn, run, call>>,
           \/ /\ steerQ' = Append(steerQ, m) /\ UNCHANGED <<followQ, shownFollow>>
              /\ shownSteer' = IF m.role = "user" THEN Append(shownSteer, m.is) ELSE shownSteer
           \/ /\ followQ' = Append(followQ, m) /\ UNCHANGED <<steerQ, shownSteer>>
              /\ shownFollow' = IF m.role = "user" THEN Append(shownFollow, m.is) ELSE shownFollow
    PROVE  PendingInv(p)'
<1> DEFINE a == IF run.via = "steer" THEN run.out ELSE <<>>
           b == IF run.via = "followUp" THEN run.out ELSE <<>>
<1>1. /\ steerQ \in Seq(Told) /\ followQ \in Seq(Told) /\ nextTurn \in Seq(Told)
      /\ run.out \in Seq(Told) /\ call[p].batch \in Seq(Told)
      /\ shownSteer = TextsOf(SteerPending) /\ shownFollow = TextsOf(FollowPending)
  BY DEF PendingInv
<1>2. a \in Seq(Told) /\ b \in Seq(Told)
  BY <1>1, TakingTold
<1>3. /\ SteerPending = a \o steerQ /\ SteerPending' = a \o steerQ'
      /\ FollowPending = b \o followQ /\ FollowPending' = b \o followQ'
  BY DEF SteerPending, FollowPending
<1>. HIDE DEF a, b
<1>4. CASE /\ steerQ' = Append(steerQ, m) /\ UNCHANGED <<followQ, shownFollow>>
           /\ shownSteer' = IF m.role = "user" THEN Append(shownSteer, m.is) ELSE shownSteer
  <2>1. /\ steerQ' \in Seq(Told)
        /\ TextsOf(SteerPending') =
             IF m.role = "user" THEN Append(TextsOf(SteerPending), m.is) ELSE TextsOf(SteerPending)
    BY <1>1, <1>2, <1>3, <1>4, Queued
  <2>2. FollowPending' = FollowPending
    BY <1>3, <1>4
  <2>. QED
    BY <1>1, <1>4, <2>1, <2>2 DEF PendingInv
<1>5. CASE /\ followQ' = Append(followQ, m) /\ UNCHANGED <<steerQ, shownSteer>>
           /\ shownFollow' = IF m.role = "user" THEN Append(shownFollow, m.is) ELSE shownFollow
  <2>1. /\ followQ' \in Seq(Told)
        /\ TextsOf(FollowPending') =
             IF m.role = "user" THEN Append(TextsOf(FollowPending), m.is) ELSE TextsOf(FollowPending)
    BY <1>1, <1>2, <1>3, <1>5, Queued
  <2>2. SteerPending' = SteerPending
    BY <1>3, <1>5
  <2>. QED
    BY <1>1, <1>5, <2>1, <2>2 DEF PendingInv
<1>. QED
  BY <1>4, <1>5

LEMMA PendingApplication ==
    ASSUME Distinct, NEW p, Callers = {p}, ControlInv(p), PlacedInv(p), PendingInv(p), Application
    PROVE  PendingInv(p)'
<1>1. /\ run \in RunShape(run) /\ call = [q \in {p} |-> call[p]] /\ call[p] \in CallShape(call[p])
      /\ (run.at = "none" => run.out = <<>>) /\ (run.at # "none" => call[p].at = "running")
  BY DEF ControlInv, Controlled
<1>2. /\ steerQ \in Seq(Told) /\ followQ \in Seq(Told) /\ nextTurn \in Seq(Told)
      /\ run.out \in Seq(Told) /\ call[p].batch \in Seq(Told)
  BY DEF PendingInv
<1> DEFINE u == UserMsg(nextId)
           m == OtherMsg(nextId, "custom")
<1>3. u \in Told /\ u.role = "user" /\ m \in Told /\ m.role # "user"
  BY BranchIds, NewTold
<1>4. <<>> \in Seq(Told) /\ <<u>> \in Seq(Told) /\ <<m>> \in Seq(Told) /\ Append(nextTurn, m) \in Seq(Told)
  BY <1>2, <1>3, TakingTold
<1>5. ~Compact /\ ~ClearQueue
  <2>1. Compact => compacts < scenario.compacts
    BY DEF Compact
  <2>2. ClearQueue => "clear" \in scenario.ways
    BY DEF ClearQueue
  <2>. QED
    BY <2>1, <2>2 DEF PlacedInv, Steady
\* What is pending does not change.
<1>6. ASSUME UNCHANGED <<steerQ, followQ, shownVars>>, run'.out = run.out, run'.via = run.via,
             nextTurn' \in Seq(Told), call'[p].batch \in Seq(Told)
      PROVE  PendingInv(p)'
  BY <1>2, <1>6, StillShown DEF SteerPending, FollowPending
<1>7. CASE Prompt(p)
  <2> DEFINE c == [NoCall EXCEPT !.at = "auth", !.batch = <<u>>]
  <2>1. call' = [call EXCEPT ![p] = c] /\ UNCHANGED <<run, steerQ, followQ, nextTurn, shownVars>>
    BY <1>7 DEF Prompt
  <2>2. c.batch = <<u>>
    BY DEF NoCall
  <2>. HIDE DEF c
  <2>3. call'[p] = c
    BY <2>1, CallEntered
  <2>. QED
    BY <1>2, <1>4, <1>6, <2>1, <2>2, <2>3
<1>8. CASE SendTurn(p)
  <2> DEFINE c == [NoCall EXCEPT !.at = "running", !.phase = "main"]
  <2>1. run.at = "none" /\ run.out = <<>>
    BY <1>1, <1>8 DEF SendTurn
  <2>2. /\ call' = [call EXCEPT ![p] = c] /\ Start(p, "prompt", <<m>>, "prompt")
        /\ UNCHANGED <<steerQ, followQ, nextTurn, shownVars>>
    BY <1>8, <2>1 DEF SendTurn, RunPrompt
  <2>3. c.batch = <<>>
    BY DEF NoCall
  <2>. HIDE DEF c
  <2>4. call'[p] = c
    BY <2>2, CallEntered
  <2>5. run'.out = <<m>> /\ run'.via = "prompt"
    BY <2>2 DEF Start, NoRun
  <2>6. /\ SteerPending' = SteerPending /\ FollowPending' = FollowPending
        /\ steerQ' \in Seq(Told) /\ followQ' \in Seq(Told)
    BY <1>2, <2>1, <2>2, <2>5, Taken
  <2>. QED
    BY <1>2, <1>4, <2>2, <2>3, <2>4, <2>5, <2>6, StillShown
<1>9. CASE Steer
  <2>1. /\ steerQ' = Append(steerQ, u) /\ shownSteer' = Append(shownSteer, u.is)
        /\ UNCHANGED <<nextTurn, run, call, followQ, shownFollow>>
    BY <1>9 DEF Steer
  <2>. HIDE DEF u
  <2>. QED
    BY <1>3, <2>1, PendingQueued
<1>10. CASE FollowUp
  <2>1. /\ followQ' = Append(followQ, u) /\ shownFollow' = Append(shownFollow, u.is)
        /\ UNCHANGED <<nextTurn, run, call, steerQ, shownSteer>>
    BY <1>10 DEF FollowUp
  <2>. HIDE DEF u
  <2>. QED
    BY <1>3, <2>1, PendingQueued
<1>11. CASE SendNextTurn
  BY <1>2, <1>4, <1>6, <1>11 DEF SendNextTurn, agentVars
<1>12. CASE SendCustom
  <2>1. /\ UNCHANGED <<run, shownVars, nextTurn, call>>
        /\ \/ steerQ' = Append(steerQ, m) /\ UNCHANGED followQ
           \/ followQ' = Append(followQ, m) /\ UNCHANGED steerQ
           \/ UNCHANGED <<steerQ, followQ>>
    BY <1>12 DEF SendCustom
  <2>2. UNCHANGED <<shownSteer, shownFollow>>
    BY <2>1 DEF shownVars
  <2>. HIDE DEF m
  <2>3. CASE UNCHANGED <<steerQ, followQ>>
    BY <1>2, <1>6, <2>1, <2>3
  <2>4. CASE steerQ' = Append(steerQ, m) /\ UNCHANGED followQ
    BY <1>3, <2>1, <2>2, <2>4, PendingQueued
  <2>5. CASE followQ' = Append(followQ, m) /\ UNCHANGED steerQ
    BY <1>3, <2>1, <2>2, <2>5, PendingQueued
  <2>. QED
    BY <2>1, <2>3, <2>4, <2>5
<1>13. CASE RecordBash
  BY <1>2, <1>6, <1>13 DEF RecordBash
<1>14. CASE Abort
  <2> DEFINE c == IF call[p].at = "sleeping" THEN [call[p] EXCEPT !.at = "cancelled"] ELSE call[p]
             r == IF run.at = "none" THEN run ELSE [run EXCEPT !.aborted = TRUE]
  <2>1. /\ call' = [q \in {p} |-> c] /\ run' = r /\ UNCHANGED <<steerQ, followQ, shownVars, nextTurn>>
    BY <1>14 DEF Abort, AbortAll
  <2>2. r.out = run.out /\ r.via = run.via
    BY <1>1 DEF RunShape
  <2>3. c.batch = call[p].batch
    BY <1>1 DEF CallShape
  <2>. HIDE DEF c, r
  <2>4. call'[p] = c
    BY <2>1
  <2>. QED
    BY <1>2, <1>6, <2>1, <2>2, <2>3, <2>4
<1>. QED
  BY <1>5, <1>7, <1>8, <1>9, <1>10, <1>11, <1>12, <1>13, <1>14 DEF Application

LEMMA PendingStep ==
    ASSUME Distinct, NEW p, Callers = {p}, ControlInv(p), PlacedInv(p), PendingInv(p), [Next]_vars
    PROVE  PendingInv(p)'
<1>1. CASE UNCHANGED vars
  BY <1>1 DEF vars, agentVars, shownVars, PendingInv, SteerPending, FollowPending
<1>2. CASE Next
  <2>1. ~CompStep
    BY DEF PlacedInv, NoComp, CompStep, CompactPrepare, CompactDone
  <2>. QED
    BY <1>2, <2>1, PendingRun, PendingCall, PendingApplication DEF Next
<1>. QED
  BY <1>1, <1>2

LEMMA PendingInit ==
    ASSUME NEW p, Callers = {p}, Init
    PROVE  PendingInv(p)
<1>1. /\ call[p] = NoCall /\ run = NoRun /\ steerQ = <<>> /\ followQ = <<>> /\ nextTurn = <<>>
      /\ shownSteer = <<>> /\ shownFollow = <<>>
  BY DEF Init
<1>2. call[p].batch = <<>> /\ run.out = <<>>
  BY <1>1 DEF NoCall, NoRun
<1>3. <<>> \in Seq(Told)
  OBVIOUS
<1>4. SteerPending = <<>> /\ FollowPending = <<>>
  BY <1>1, <1>2, <1>3, NothingTaken
<1>. QED
  BY <1>1, <1>2, <1>3, <1>4, NoTexts DEF PendingInv

\* What the application displays as pending is what is queued, or taken by the run and
\* not yet delivered, in order: the display, which forgets a message by its text when
\* the agent tells that it begins, never forgets another, whatever is aborted, retried
\* or compacted meanwhile.  Distinct texts, one caller; compact(), which makes the
\* session deaf, and clearQueue() are not part of it.
THEOREM ShownIsPendingHolds ==
    ASSUME OneCaller, Distinct PROVE Spec /\ Steady => []ShownIsPending
<1>1. PICK p : Callers = {p}
  BY DEF OneCaller
<1> DEFINE IInv == ControlInv(p) /\ PlacedInv(p) /\ PendingInv(p)
<1>2. Init /\ Steady => IInv
  BY <1>1, ControlInit, PlacedInit, PendingInit
<1>3. IInv /\ [Next]_vars => IInv'
  BY <1>1, ControlStep, PlacedStep, PendingStep
<1>4. IInv => ShownIsPending
  BY DEF PendingInv, ShownIsPending, SteerPending, FollowPending
<1>. QED
  BY <1>2, <1>3, <1>4, PTL DEF Spec

(***************************************************************************)
(* Continuing has work: the entries that are no compactions                *)
(***************************************************************************)
LEMMA EntriesAdded ==
    ASSUME NEW s \in Seq(EntryType), NEW m \in EntryType
    PROVE  /\ NotCompactions(s) \in Seq(Message)
           /\ m.role # "compaction" =>
                m \in Message /\ NotCompactions(Append(s, m)) = Append(NotCompactions(s), m)
           /\ m.role = "compaction" => NotCompactions(Append(s, m)) = NotCompactions(s)
<1> DEFINE r == Append(s, m)
           out == {i \in DOMAIN s : s[i].role = "compaction"}
           more == {i \in DOMAIN r : r[i].role = "compaction"}
<1>1. /\ r \in Seq(EntryType) /\ Len(s) \in Nat /\ DOMAIN s = 1..Len(s) /\ DOMAIN r = 1..(Len(s) + 1)
      /\ r[Len(s) + 1] = m /\ \A i \in 1..Len(s) : r[i] = s[i] /\ s[i] \in EntryType
  OBVIOUS
<1>2. NotCompactions(s) = Without(s, out) /\ NotCompactions(r) = Without(r, more)
  BY DEF NotCompactions
<1>3. (Len(s) + 1 \in more <=> m.role = "compaction") /\ \A i \in DOMAIN s : i \in out <=> i \in more
  <2>. HIDE DEF r
  <2>. QED
    BY <1>1
<1>4. \A e \in EntryType : e.role # "compaction" => e \in Message
  BY DEF EntryType
<1>5. \A i \in DOMAIN s : i \in out \/ s[i] \in Message
  BY <1>1, <1>4
<1>. HIDE DEF out, more
<1>6. Without(s, out) \in Seq(Message)
  BY <1>5, WithoutIn
<1>7. Without(r, more) = IF Len(s) + 1 \in more THEN Without(s, out) ELSE Append(Without(s, out), m)
  BY <1>3, WithoutAdded
<1>. QED
  BY <1>2, <1>3, <1>4, <1>6, <1>7

LEMMA NoEntries == NotCompactions(<<>>) = <<>>
<1> DEFINE e == <<>>
           u == NotCompactions(e)
<1>1. e \in Seq({}) /\ DOMAIN e = {}
  OBVIOUS
<1>2. u \in Seq({})
  <2>. HIDE DEF e
  <2>. QED
    BY <1>1, NotCompactionsIsList
<1>. HIDE DEF u
<1>3. u = <<>>
  BY <1>2
<1>. QED
  BY <1>3 DEF u

LEMMA EntriesJoined ==
    ASSUME NEW s \in Seq(EntryType), NEW t \in Seq(EntryType)
    PROVE  NotCompactions(s \o t) = NotCompactions(s) \o NotCompactions(t)
<1> DEFINE Good(k) == \A x \in Seq(EntryType) : Len(x) = k =>
                         NotCompactions(s \o x) = NotCompactions(s) \o NotCompactions(x)
           Bad == {k \in Nat : ~Good(k)}
<1>1. \A v \in Seq(EntryType) : NotCompactions(v) \in Seq(EntryType)
  BY NotCompactionsIsList
<1>2. Good(0)
  BY <1>1, NothingAdded, NoEntries
<1>3. ASSUME NEW k \in Nat, k # 0, Good(k - 1)
      PROVE  Good(k)
  <2> SUFFICES ASSUME NEW x \in Seq(EntryType), Len(x) = k
               PROVE  NotCompactions(s \o x) = NotCompactions(s) \o NotCompactions(x)
    OBVIOUS
  <2>1. x # <<>>
    BY <1>3
  <2> DEFINE y == Front(x)
             m == x[Len(x)]
  <2>2. y \in Seq(EntryType) /\ m \in EntryType /\ Len(y) = Len(x) - 1 /\ x = Append(y, m)
    BY <2>1, LastOfList
  <2>3. Len(y) = k - 1
    BY <2>2
  <2>4. s \o x = Append(s \o y, m)
    BY <2>1, JoinLast
  <2>. HIDE DEF y, m
  <2>5. s \o y \in Seq(EntryType)
    BY <2>2
  <2>6. NotCompactions(s \o y) = NotCompactions(s) \o NotCompactions(y)
    BY <1>3, <2>2, <2>3
  <2>7. \A v \in Seq(EntryType) : NotCompactions(Append(v, m)) =
           IF m.role = "compaction" THEN NotCompactions(v) ELSE Append(NotCompactions(v), m)
    BY <2>2, EntriesAdded
  <2> DEFINE a == NotCompactions(s)
             b == NotCompactions(y)
  <2>8. a \in Seq(EntryType) /\ b \in Seq(EntryType)
    BY <1>1, <2>2
  <2>9. /\ NotCompactions(s \o x) = IF m.role = "compaction" THEN a \o b ELSE Append(a \o b, m)
        /\ NotCompactions(x) = IF m.role = "compaction" THEN b ELSE Append(b, m)
    BY <2>2, <2>4, <2>5, <2>6, <2>7
  <2>. HIDE DEF a, b
  <2>10. a \o Append(b, m) = Append(a \o b, m)
    BY <2>2, <2>8, JoinAppend
  <2>. QED
    BY <2>9, <2>10 DEF a
<1>. HIDE DEF Good
<1>4. Bad = {}
  <2> SUFFICES ASSUME Bad # {}
               PROVE  FALSE
    OBVIOUS
  <2>1. PICK b \in Bad : \A k \in Bad : b <= k
    <3>1. Bad \in SUBSET Nat
      OBVIOUS
    <3>. HIDE DEF Bad
    <3>. QED
      BY <3>1, Least
  <2>2. b \in Nat /\ ~Good(b) /\ b # 0
    BY <1>2
  <2>3. b - 1 \in Nat /\ b - 1 < b
    BY <2>2
  <2>4. b - 1 \notin Bad
    <3>1. b - 1 \in Bad => b <= b - 1
      <4>. HIDE DEF Bad
      <4>. QED
        BY <2>1
    <3>. QED
      BY <2>2, <2>3, <3>1
  <2>. QED
    BY <1>3, <2>2, <2>3, <2>4
<1>5. Len(t) \in Nat /\ Good(Len(t))
  BY <1>4
<1>. QED
  BY <1>5 DEF Good

LEMMA AgreedLists ==
    ASSUME NEW T, NEW a \in Seq(T), NEW b \in Seq(T), Len(a) = Len(b), \A i \in 1..Len(a) : a[i] = b[i]
    PROVE  a = b
OBVIOUS

\* The entries kept since entry k are the last of all.
LEMMA EntriesSince ==
    ASSUME NEW s \in Seq(EntryType), NEW k \in DOMAIN s, s[k].role # "compaction"
    PROVE  LET t == SubSeq(s, k, Len(s))
           IN /\ NotCompactions(t) \in Seq(Message) /\ NotCompactions(t) # <<>>
              /\ \E a \in Seq(Message) : NotCompactions(s) = a \o NotCompactions(t)
<1> DEFINE n == Len(s)
           u == SubSeq(s, 1, k - 1)
           t == SubSeq(s, k, n)
           r == SubSeq(s, k + 1, n)
           m == s[k]
<1>1. n \in Nat /\ k \in 1..n /\ m \in EntryType /\ \A i \in 1..n : s[i] \in EntryType
  OBVIOUS
<1>2. /\ u \in Seq(EntryType) /\ t \in Seq(EntryType) /\ r \in Seq(EntryType)
      /\ Len(u) = k - 1 /\ Len(t) = n - k + 1 /\ Len(r) = n - k
      /\ \A i \in 1..(k - 1) : u[i] = s[i]
      /\ \A i \in 1..(n - k + 1) : t[i] = s[k + i - 1]
      /\ \A i \in 1..(n - k) : r[i] = s[k + i]
  <2>1. u \in Seq(EntryType) /\ Len(u) = k - 1 /\ \A i \in 1..(k - 1) : u[i] = s[i]
    BY <1>1
  <2>2. t \in Seq(EntryType) /\ Len(t) = n - k + 1 /\ \A i \in 1..(n - k + 1) : t[i] = s[k + i - 1]
    BY <1>1
  <2>3. r \in Seq(EntryType) /\ Len(r) = n - k
    BY <1>1
  <2>4. \A i \in 1..(n - k) : r[i] = s[k + i]
    BY <1>1
  <2>. QED
    BY <2>1, <2>2, <2>3, <2>4
<1>. HIDE DEF u, t, r, m, n
<1>3. s = u \o t
  <2> DEFINE z == u \o t
  <2>6. u \in Seq(EntryType) /\ t \in Seq(EntryType)
    BY <1>2
  <2>7. Len(u) = k - 1 /\ Len(t) = n - k + 1
    BY <1>2
  <2>0. \A x, y \in Int : (x - 1) + (y - x + 1) = y
    OBVIOUS
  <2>1. z \in Seq(EntryType) /\ Len(z) = Len(u) + Len(t)
    BY <2>6
  <2>2. (\A i \in 1..(k - 1) : z[i] = u[i]) /\ (\A i \in 1..(n - k + 1) : z[k - 1 + i] = t[i])
    <3>1. (\A i \in 1..Len(u) : z[i] = u[i]) /\ (\A i \in 1..Len(t) : z[Len(u) + i] = t[i])
      BY <2>6
    <3>. QED
      BY <2>7, <3>1
  <2>4. Len(z) = n
    BY <1>1, <2>0, <2>1, <2>7
  <2>3. ASSUME NEW i \in 1..n
        PROVE  z[i] = s[i]
    <3>1. CASE i \in 1..(k - 1)
      <4>1. z[i] = u[i] /\ u[i] = s[i]
        <5>. HIDE DEF z
        <5>. QED
          BY <1>2, <2>2, <3>1
      <4>. QED
        BY <4>1
    <3>2. CASE i \notin 1..(k - 1)
      <4> DEFINE j == i - k + 1
      <4>1. j \in 1..(n - k + 1) /\ k - 1 + j = i /\ k + j - 1 = i
        BY <1>1, <3>2
      <4>. HIDE DEF j, z, n
      <4>2. z[k - 1 + j] = t[j] /\ t[j] = s[k + j - 1]
        BY <1>2, <2>2, <4>1
      <4>. QED
        BY <4>1, <4>2
    <3>. QED
      BY <3>1, <3>2
  <2>. HIDE DEF z
  <2>5. z = s
    BY <2>1, <2>3, <2>4 DEF n
  <2>. QED
    BY <2>5 DEF z
<1>4. t = <<m>> \o r
  <2> DEFINE z == <<m>> \o r
  <2>0. Len(r) + 1 = n - k + 1 /\ m \in EntryType
    BY <1>1, <1>2 DEF m
  <2>1. z \in Seq(EntryType) /\ Len(z) = n - k + 1
    BY <1>2, <2>0
  <2>2. z[1] = m /\ \A i \in 1..(n - k) : z[i + 1] = r[i]
    BY <1>1, <1>2
  <2>3. ASSUME NEW i \in 1..(n - k + 1)
        PROVE  z[i] = t[i]
    <3>1. CASE i = 1
      BY <1>1, <1>2, <2>2, <3>1 DEF m
    <3>2. CASE i # 1
      <4> DEFINE j == i - 1
      <4>1. j \in 1..(n - k) /\ j + 1 = i /\ k + i - 1 = k + j
        BY <1>1, <3>2
      <4>2. t[i] = s[k + i - 1]
        BY <1>2
      <4>. HIDE DEF j, z, n
      <4>3. z[j + 1] = r[j] /\ r[j] = s[k + j]
        BY <1>2, <2>2, <4>1
      <4>. QED
        BY <4>1, <4>2, <4>3
    <3>. QED
      BY <3>1, <3>2
  <2>. HIDE DEF z
  <2>4. Len(z) = Len(t) /\ \A i \in 1..Len(z) : z[i] = t[i]
    BY <1>2, <2>1, <2>3
  <2>5. z = t
    BY <1>2, <2>1, <2>4, AgreedLists
  <2>. QED
    BY <2>5 DEF z
<1>5. m.role # "compaction" /\ m \in EntryType
  BY <1>1 DEF m
<1>6. <<m>> \in Seq(EntryType) /\ Append(<<>>, m) = <<m>> /\ <<>> \in Seq(EntryType)
  BY <1>5
<1>7. NotCompactions(<<m>>) = <<m>> /\ m \in Message
  BY <1>5, <1>6, EntriesAdded, NoEntries
<1> DEFINE a == NotCompactions(u)
           b == NotCompactions(r)
           c == NotCompactions(t)
<1>8. a \in Seq(Message) /\ b \in Seq(Message) /\ c \in Seq(Message)
  BY <1>2, <1>5, EntriesAdded
<1>9. NotCompactions(s) = a \o c /\ c = <<m>> \o b
  <2>1. NotCompactions(u \o t) = a \o c
    BY <1>2, EntriesJoined
  <2>2. NotCompactions(<<m>> \o r) = NotCompactions(<<m>>) \o b
    BY <1>2, <1>6, EntriesJoined
  <2>. QED
    BY <1>3, <1>4, <1>7, <2>1, <2>2
<1>. HIDE DEF a, b, c
<1>10. c # <<>>
  BY <1>7, <1>8, <1>9
<1>. QED
  BY <1>8, <1>9, <1>10 DEF a, c, t, n

(***************************************************************************)
(* Continuing has work: lists                                              *)
(***************************************************************************)
\* What the agent can go on from: a message, or a reply that failed or was cut off.
Workable(m) == ~IsAssistant(m) \/ m.is \in {"error", "length"}
Answered(s) == LastIs(s, IsAssistant)
LastWorkable(s) == Answered(s) => Workable(s[Len(s)])

\* A list that begins with no reply, and one that does not end with two of them.
Begun(s) == s # <<>> => ~IsAssistant(s[1])
OneReply(s) == Answered(s) => Len(s) > 1 /\ ~IsAssistant(s[Len(s) - 1])

\* A failed reply that is the last of entries e follows something to go on from.
Pair(e) == Answered(e) /\ e[Len(e)].is \in ErrorKinds /\ Len(e) > 1 => Workable(e[Len(e) - 1])

\* The last entry, if it is nothing to go on from, is the end of transcript s, or a
\* recovery was tried.
Fits(e, s, tried) == tried \/ (Pair(e) /\ (LastWorkable(e) \/ Ends(s, e[Len(e)])))

\* What a compaction recovers from: without the failed reply there is work.
Recoverable(e) == Pair(e) /\ (LastWorkable(e) \/ e[Len(e)].is \in ErrorKinds)

\* Transcript s and entries e end with a message.
Fresh(s, e) == s # <<>> /\ ~Answered(s) /\ ~Answered(e)

LEMMA FreshFits ==
    ASSUME NEW s, NEW e, Fresh(s, e), NEW tried
    PROVE  Fits(e, s, tried) /\ Recoverable(e) /\ OneReply(s) /\ LastWorkable(s)
BY DEF Fresh, Fits, Recoverable, OneReply, LastWorkable, Pair

LEMMA Entry ==
    ASSUME NEW m \in Outside
    PROVE  m \in EntryType /\ m \in Message /\ m.role # "compaction" /\ ~IsAssistant(m)
<1>1. m \in Message /\ m \in EntryType /\ ~IsAssistant(m)
  BY OutsideIsNeither
<1>2. m.role # "compaction"
  BY <1>1 DEF Message
<1>. QED
  BY <1>1, <1>2

\* A message m that is no reply comes to transcript s and to entries br.
LEMMA MessageFresh ==
    ASSUME NEW s \in Seq(EntryType), NEW br \in Seq(EntryType), NEW m \in Message, ~IsAssistant(m)
    PROVE  /\ Fresh(Append(s, m), NotCompactions(Append(br, m)))
           /\ Begun(s) => Begun(Append(s, m))
<1> DEFINE r == Append(s, m)
           e == NotCompactions(br)
<1>1. m \in EntryType /\ m.role # "compaction"
  BY DEF EntryType, Message
<1>2. e \in Seq(Message) /\ NotCompactions(Append(br, m)) = Append(e, m)
  BY <1>1, EntriesAdded
<1>. HIDE DEF e
<1>3. Append(e, m) # <<>> /\ ~Answered(Append(e, m))
  BY <1>2, Longer DEF Answered, LastIs
<1>4. /\ r # <<>> /\ r[Len(r)] = m /\ Len(s) \in Nat /\ Len(r) = Len(s) + 1
      /\ \A i \in DOMAIN s : r[i] = s[i]
  BY <1>1, Longer
<1>5. s # <<>> => 1 \in DOMAIN s
  OBVIOUS
<1>6. s = <<>> => Len(s) = 0
  OBVIOUS
<1>. HIDE DEF r
<1>7. Begun(s) => Begun(r)
  BY <1>4, <1>5, <1>6 DEF Begun
<1>8. ~Answered(r)
  BY <1>4 DEF Answered, LastIs
<1>. QED
  BY <1>2, <1>3, <1>4, <1>7, <1>8 DEF Fresh, r

\* Messages from outside come to both.
LEMMA ListsFresh ==
    ASSUME NEW s \in Seq(EntryType), NEW br \in Seq(EntryType), NEW t \in Seq(Outside)
    PROVE  /\ Begun(s) => Begun(s \o t)
           /\ \/ s \o t = s /\ br \o t = br
              \/ Fresh(s \o t, NotCompactions(br \o t))
<1>1. CASE t = <<>>
  BY <1>1, NothingAdded
<1>2. CASE t # <<>>
  <2> DEFINE f == Front(t)
             m == t[Len(t)]
             x == s \o f
             y == br \o f
  <2>1. t \in Seq(EntryType)
    BY OutsideIsNoCompaction
  <2>2. f \in Seq(EntryType) /\ f \in Seq(Outside) /\ m \in Outside
    BY <1>2, <2>1, LastOfList
  <2>3. s \o t = Append(x, m) /\ br \o t = Append(y, m)
    BY <1>2, <2>1, JoinLast
  <2>. HIDE DEF f
  <2>4. x \in Seq(EntryType) /\ y \in Seq(EntryType)
    BY <2>2
  <2>5. Begun(s) => Begun(x)
    <3>1. CASE s = <<>>
      BY <2>2, <3>1, Entry DEF Begun
    <3>2. CASE s # <<>>
      BY <2>2, <3>2 DEF Begun
    <3>. QED
      BY <3>1, <3>2
  <2>. HIDE DEF m, x, y
  <2>6. m \in Message /\ ~IsAssistant(m)
    BY <2>2, Entry
  <2>. QED
    BY <2>3, <2>4, <2>5, <2>6, MessageFresh
<1>. QED
  BY <1>1, <1>2

\* A transcript that begins with no reply has more than the reply that is taken back.
LEMMA BegunStripped ==
    ASSUME NEW s \in Seq(EntryType), s # <<>>, Begun(s), NEW kinds
    PROVE  /\ Strip(s, kinds) \in Seq(EntryType) /\ Strip(s, kinds) # <<>> /\ Begun(Strip(s, kinds))
<1> DEFINE f == Front(s)
           n == Len(s)
<1>1. n \in Nat /\ n > 0 /\ DOMAIN s = 1..n
  OBVIOUS
<1>. HIDE DEF n
<1>2. CASE IsAssistant(s[n])
  <2>1. n # 1
    BY <1>2 DEF Begun
  <2>2. n > 1
    BY <1>1, <2>1
  <2>3. f \in Seq(EntryType) /\ Len(f) = n - 1 /\ s = Append(f, s[n]) /\ s[n] \in EntryType
    BY LastOfList DEF n
  <2>. HIDE DEF f
  <2>4. f # <<>>
    <3>1. Len(f) # 0
      BY <1>1, <2>2, <2>3
    <3>. QED
      BY <3>1
  <2>5. s[1] = f[1]
    BY <2>3, <2>4, Longer
  <2>6. Begun(f)
    BY <2>5 DEF Begun
  <2>7. Strip(s, kinds) \in {f, s}
    BY DEF Strip, f
  <2>. QED
    BY <2>3, <2>4, <2>6, <2>7
<1>3. CASE ~IsAssistant(s[n])
  BY <1>3 DEF Strip, LastIs, IsKind, n
<1>. QED
  BY <1>2, <1>3

\* Without its last reply a transcript with one does not end with a reply.
LEMMA ReplyStripped ==
    ASSUME NEW s \in Seq(EntryType), OneReply(s), \A i \in DOMAIN s : IsAssistant(s[i]) => s[i].is \in AllReplies
    PROVE  ~Answered(Strip(s, AllReplies))
<1> DEFINE f == Front(s)
           n == Len(s)
<1>1. n \in Nat /\ DOMAIN s = 1..n /\ (s # <<>> => n > 0)
  OBVIOUS
<1>. HIDE DEF n
<1>2. CASE Answered(s)
  <2>1. s # <<>> /\ IsAssistant(s[n]) /\ n > 1 /\ ~IsAssistant(s[n - 1])
    BY <1>2 DEF Answered, LastIs, OneReply, n
  <2>2. n \in DOMAIN s
    BY <1>1, <2>1
  <2>3. Strip(s, AllReplies) = f
    BY <2>1, <2>2 DEF Strip, LastIs, IsKind, n
  <2>4. f \in Seq(EntryType) /\ Len(f) = n - 1 /\ s = Append(f, s[n]) /\ s[n] \in EntryType
    BY <2>1, LastOfList DEF n
  <2>. HIDE DEF f
  <2>5. n - 1 \in DOMAIN f
    BY <1>1, <2>1, <2>4
  <2>6. f[Len(f)] = s[n - 1]
    BY <2>4, <2>5, Longer
  <2>. QED
    BY <2>1, <2>3, <2>6 DEF Answered, LastIs
<1>3. CASE ~Answered(s)
  BY <1>3 DEF Strip, Answered, LastIs, IsKind
<1>. QED
  BY <1>2, <1>3

\* A reply that comes to a transcript that ends with a message.
LEMMA ReplyAdded ==
    ASSUME NEW s \in Seq(EntryType), NEW br \in Seq(EntryType), s # <<>>, ~Answered(s), Begun(s), NEW m \in Message,
           NEW tried, Fits(NotCompactions(br), s, tried)
    PROVE  LET r == Append(s, m)
           IN Begun(r) /\ OneReply(r) /\ r # <<>> /\ Fits(NotCompactions(Append(br, m)), r, tried)
<1> DEFINE r == Append(s, m)
           e == NotCompactions(br)
           d == Append(e, m)
<1>1. m \in EntryType /\ m.role # "compaction"
  BY DEF EntryType, Message
<1>2. e \in Seq(Message) /\ NotCompactions(Append(br, m)) = d
  BY <1>1, EntriesAdded
<1>3. /\ r # <<>> /\ r[Len(r)] = m /\ Len(s) \in Nat /\ Len(r) = Len(s) + 1
      /\ \A i \in DOMAIN s : r[i] = s[i]
  BY <1>1, Longer
<1>4. 1 \in DOMAIN s /\ Len(s) \in DOMAIN s /\ Len(s) > 0
  OBVIOUS
<1>. HIDE DEF r
<1>5. Begun(r)
  BY <1>3, <1>4 DEF Begun
<1>6. OneReply(r)
  BY <1>3, <1>4 DEF Answered, LastIs, OneReply
<1>7. Fits(d, r, tried)
  <2>1. CASE tried
    BY <2>1 DEF Fits
  <2>2. CASE ~tried
    <3>. HIDE DEF e
    <3>1. d # <<>> /\ d[Len(d)] = m /\ Len(e) \in Nat /\ Len(d) = Len(e) + 1 /\ \A i \in DOMAIN e : d[i] = e[i]
      BY <1>2, Longer
    <3>. HIDE DEF d
    <3>2. Ends(r, d[Len(d)])
      BY <1>3, <3>1 DEF Ends
    <3>3. LastWorkable(e)
      BY <2>2 DEF Fits, e, Ends, Answered, LastIs, LastWorkable, Workable
    <3>4. Pair(d)
      <4>1. CASE Len(d) > 1
        BY <1>2, <3>1, <3>3, <4>1 DEF LastWorkable, Answered, LastIs, Workable, Pair
      <4>2. CASE ~(Len(d) > 1)
        BY <4>2 DEF Pair
      <4>. QED
        BY <4>1, <4>2
    <3>. QED
      BY <3>2, <3>4 DEF Fits
  <2>. QED
    BY <2>1, <2>2
<1>. QED
  BY <1>2, <1>3, <1>5, <1>6, <1>7 DEF r

\* The end of a list that another is put before.
LEMMA JoinedEnd ==
    ASSUME NEW T, NEW a \in Seq(T), NEW b \in Seq(T), b # <<>>
    PROVE  LET r == a \o b
           IN /\ r \in Seq(T) /\ r # <<>> /\ Len(b) \in Nat /\ Len(b) > 0 /\ r[Len(r)] = b[Len(b)]
              /\ Len(b) > 1 => Len(r) > 1 /\ r[Len(r) - 1] = b[Len(b) - 1]
<1> DEFINE r == a \o b
           m == Len(a)
           n == Len(b)
<1>1. r \in Seq(T) /\ m \in Nat /\ n \in Nat /\ n > 0 /\ Len(r) = m + n
  OBVIOUS
<1>2. \A i \in 1..n : r[m + i] = b[i]
  OBVIOUS
<1>. HIDE DEF r, m, n
<1>3. n \in 1..n /\ (n > 1 => n - 1 \in 1..n /\ m + (n - 1) = Len(r) - 1)
  BY <1>1
<1>4. r[Len(r)] = b[n]
  BY <1>1, <1>2, <1>3
<1>5. n > 1 => Len(r) > 1 /\ r[Len(r) - 1] = b[n - 1]
  BY <1>1, <1>2, <1>3
<1>6. r # <<>>
  <2>1. Len(r) # 0
    BY <1>1
  <2>. QED
    BY <2>1
<1>. QED
  BY <1>1, <1>4, <1>5, <1>6 DEF r, n

\* After a compaction of entries s the context is a summary and the last of the messages.
LEMMA ContextEnds ==
    ASSUME NEW s \in Seq(EntryType), NEW id \in Nat, NEW cut, CutsWell(s, cut), cut # id
    PROVE  LET c == Compaction(id, cut)
               r == Append(s, c)
           IN /\ c \in EntryType /\ c.role = "compaction" /\ r \in Seq(EntryType)
              /\ Context(r) \in Seq(EntryType) /\ NotCompactions(r) = NotCompactions(s)
              /\ \E a, b \in Seq(Message) :
                    b # <<>> /\ NotCompactions(s) = a \o b /\ Context(r) = <<c>> \o b
<1> DEFINE c == Compaction(id, cut)
           r == Append(s, c)
<1>1. cut \in IdsIn(s) /\ \A i \in DOMAIN s : s[i].id = cut => MayBegin(s[i])
  BY DEF CutsWell
<1>2. c.role = "compaction" /\ c.id = id
  BY DEF Compaction
<1>3. c \in EntryType /\ r \in Seq(EntryType) /\ ContextKeeps(r, c, cut, Len(s))
  BY <1>1, ContextIs
<1>4. Context(r) \in Seq(EntryType)
  BY <1>1, ContextIsList
<1>. HIDE DEF c
<1>5. NotCompactions(r) = NotCompactions(s)
  BY <1>2, <1>3, EntriesAdded
<1>6. /\ DOMAIN r = 1..(Len(s) + 1) /\ r[Len(s) + 1] = c /\ Len(s) \in Nat /\ DOMAIN s = 1..Len(s)
      /\ \A i \in DOMAIN s : r[i] = s[i]
  BY <1>3, Longer
<1>7. PICK keep \in DOMAIN r : /\ r[keep].id = cut
                               /\ Context(r) = <<c>> \o NotCompactions(SubSeq(r, keep, Len(s)))
  BY <1>3 DEF ContextKeeps
<1>8. keep \in DOMAIN s /\ s[keep].role # "compaction"
  BY <1>1, <1>2, <1>6, <1>7 DEF MayBegin
<1>9. SubSeq(r, keep, Len(s)) = SubSeq(s, keep, Len(s))
  BY <1>3, <1>6, <1>8
<1> DEFINE t == SubSeq(s, keep, Len(s))
<1>10. /\ NotCompactions(t) \in Seq(Message) /\ NotCompactions(t) # <<>>
       /\ \E a \in Seq(Message) : NotCompactions(s) = a \o NotCompactions(t)
  BY <1>8, EntriesSince
<1>11. Context(r) = <<c>> \o NotCompactions(t)
  BY <1>7, <1>9
<1>. HIDE DEF t
<1>12. \E a, b \in Seq(Message) : b # <<>> /\ NotCompactions(s) = a \o b /\ Context(r) = <<c>> \o b
  BY <1>10, <1>11
<1>. QED
  BY <1>2, <1>3, <1>4, <1>5, <1>12 DEF c, r

\* The transcript that a compaction leaves: there is something to go on from when it
\* recovers, and when it does not the transcript ends as the entries do.
LEMMA WorkAfter ==
    ASSUME NEW s \in Seq(EntryType), NEW id \in Nat, NEW cut, CutsWell(s, cut), cut # id
    PROVE  LET r == Append(s, Compaction(id, cut))
               x == Context(r)
               y == Strip(x, ErrorKinds)
           IN /\ x \in Seq(EntryType) /\ x # <<>> /\ Begun(x) /\ NotCompactions(r) = NotCompactions(s)
              /\ \A tried, z : Fits(NotCompactions(s), z, tried) => Fits(NotCompactions(s), x, tried)
              /\ Recoverable(NotCompactions(s)) => LastWorkable(y)
<1> DEFINE c == Compaction(id, cut)
           r == Append(s, c)
           x == Context(r)
           y == Strip(x, ErrorKinds)
           e == NotCompactions(s)
<1>1. /\ c \in EntryType /\ c.role = "compaction" /\ r \in Seq(EntryType)
      /\ x \in Seq(EntryType) /\ NotCompactions(r) = e
      /\ \E a, b \in Seq(Message) : b # <<>> /\ e = a \o b /\ x = <<c>> \o b
  BY ContextEnds
<1>2. PICK a \in Seq(Message), b \in Seq(Message) : b # <<>> /\ e = a \o b /\ x = <<c>> \o b
  BY <1>1
<1>. HIDE DEF c, r, x, e
<1>3. ~IsAssistant(c)
  BY <1>1 DEF IsAssistant
<1>4. \A m \in Message : m \in EntryType
  BY DEF EntryType
<1>5. <<c>> \in Seq(EntryType) /\ b \in Seq(EntryType)
  BY <1>1, <1>4
<1>6. /\ e # <<>> /\ Len(b) \in Nat /\ Len(b) > 0 /\ e[Len(e)] = b[Len(b)]
      /\ Len(b) > 1 => Len(e) > 1 /\ e[Len(e) - 1] = b[Len(b) - 1]
  BY <1>2, JoinedEnd
<1>7. /\ x # <<>> /\ x[Len(x)] = b[Len(b)]
      /\ Len(b) > 1 => x[Len(x) - 1] = b[Len(b) - 1]
  BY <1>2, <1>5, JoinedEnd
<1>8. x[1] = c /\ Len(x) = Len(b) + 1
  BY <1>2, <1>5
<1>12. Len(b) \in Nat /\ Len(b) > 0
  BY <1>6
<1>13. Len(x) = Len(b) + 1
  BY <1>8
<1>9. Begun(x)
  BY <1>3, <1>8 DEF Begun
<1>10. ASSUME NEW tried, NEW z, Fits(e, z, tried)
       PROVE  Fits(e, x, tried)
  BY <1>6, <1>7, <1>10 DEF Fits, Ends
<1>11. ASSUME Recoverable(e)
       PROVE  LastWorkable(y)
  <2>1. CASE IsKind(x[Len(x)], ErrorKinds)
    <3> DEFINE f == Front(x)
    <3>1. f \in Seq(EntryType) /\ Len(f) = Len(x) - 1 /\ x = Append(f, x[Len(x)]) /\ x[Len(x)] \in EntryType
      BY <1>1, <1>7, LastOfList
    <3>2. y = f
      BY <1>7, <2>1 DEF Strip, LastIs
    <3>. HIDE DEF f, y
    <3>3. Len(f) = Len(b) /\ Len(f) \in DOMAIN f
      BY <1>6, <1>8, <3>1
    <3>4. f[Len(f)] = x[Len(x) - 1]
      BY <3>1, <3>3, Longer
    <3>5. CASE Len(b) > 1
      BY <1>6, <1>7, <1>11, <2>1, <3>2, <3>4, <3>5 DEF Answered, LastIs, IsKind, Recoverable, Pair,
         LastWorkable
    <3>6. CASE ~(Len(b) > 1)
      <4>0. \A k \in Nat : k > 0 /\ ~(k > 1) => k = 1 /\ k + 1 - 1 = 1
        OBVIOUS
      <4>1. Len(b) = 1 /\ Len(x) - 1 = 1
        <5> DEFINE k == Len(b)
        <5>1. k \in Nat /\ k > 0 /\ ~(k > 1) /\ Len(x) = k + 1
          BY <1>12, <1>13, <3>6
        <5>. HIDE DEF k
        <5>2. k = 1 /\ Len(x) - 1 = 1
          BY <4>0, <5>1
        <5>. QED
          BY <5>2 DEF k
      <4>2. f[Len(f)] = c
        BY <1>8, <3>4, <4>1
      <4>. QED
        BY <1>3, <3>2, <4>2 DEF LastWorkable, Workable
    <3>. QED
      BY <3>5, <3>6
  <2>2. CASE ~IsKind(x[Len(x)], ErrorKinds)
    <3>1. y = x
      BY <2>2 DEF Strip, LastIs
    <3>2. x[Len(x)] = e[Len(e)]
      BY <1>6, <1>7
    <3>. HIDE DEF y
    <3>3. CASE IsAssistant(x[Len(x)])
      BY <1>6, <1>11, <2>2, <3>1, <3>2, <3>3 DEF IsKind, Recoverable, LastWorkable, Answered, LastIs
    <3>4. CASE ~IsAssistant(x[Len(x)])
      BY <3>1, <3>4 DEF LastWorkable, Workable
    <3>. QED
      BY <3>3, <3>4
  <2>. QED
    BY <2>1, <2>2
<1>. QED
  BY <1>1, <1>7, <1>9, <1>10, <1>11 DEF c, r, x, y, e

(***************************************************************************)
(* Continuing has work: what a session keeps                               *)
(***************************************************************************)
AfterRun == {"post", "sleeping", "cancelled", "prepare", "summarizing", "continue"}

\* A run r over transcript s has a message to send, and no reply before it is asked.
RunWork(r, s) ==
    /\ r.at # "none" => s # <<>> \/ r.out # <<>>
    /\ r.at \in {"prompt", "first", "ask", "answered"} /\ r.out = <<>> => ~Answered(s)
    /\ r.at \in {"tools", "stopped", "end"} => OneReply(s)

\* A call c after a run: what is retried or continued can be, and what a compaction
\* recovers from was noted and will leave something to go on from.
CallWork(c, s, e, tried, queued) ==
    /\ c.at \in AfterRun => s # <<>>
    /\ c.at = "post" => OneReply(s)
    /\ c.at = "sleeping" => ~Answered(s)
    /\ c.at = "continue" => queued \/ LastWorkable(s)
    /\ c.at \in {"prepare", "summarizing"} /\ c.recover => tried /\ Recoverable(e)

\* A prompt has a message until its run starts.
HasBatch(c) ==
    /\ c.at \in {"idle", "settling"} \/ c.phase = "main" \/ c.batch # <<>>
    /\ c.at \in {"auth", "before"} => c.phase = "check"

Entries == NotCompactions(Saved)

WorkInv(p) ==
    /\ Begun(messages) /\ Fits(Entries, messages, overflowTried)
    /\ RunWork(run, messages)
    /\ CallWork(call[p], messages, Entries, overflowTried, HasQueued)
    /\ HasBatch(call[p])

\* A new message is the last of all.
LEMMA WorkFresh ==
    ASSUME NEW p, Begun(messages'), Fresh(messages', Entries'), HasBatch(call'[p]),
           call'[p].at \in {"prepare", "summarizing"} /\ call'[p].recover => overflowTried'
    PROVE  WorkInv(p)'
<1>1. /\ Fits(Entries', messages', overflowTried') /\ Recoverable(Entries') /\ OneReply(messages')
      /\ LastWorkable(messages')
  BY FreshFits
<1>2. messages' # <<>> /\ ~Answered(messages')
  BY DEF Fresh
<1>. QED
  BY <1>1, <1>2 DEF WorkInv, RunWork, CallWork

LEMMA RepliesKnown ==
    ASSUME NEW s \in Seq(EntryType)
    PROVE  \A i \in DOMAIN s : IsAssistant(s[i]) => s[i].is \in AllReplies
<1>1. \A m \in EntryType : IsAssistant(m) => m.is \in AllReplies
  BY DEF EntryType, Message, IsAssistant
<1>. QED
  BY <1>1

LEMMA JoinedSome ==
    ASSUME NEW T, NEW s \in Seq(T), NEW t \in Seq(T), s # <<>>
    PROVE  s \o t # <<>>
<1>1. Len(s) # 0 /\ Len(s) \in Nat /\ Len(t) \in Nat
  OBVIOUS
<1>2. Len(s \o t) = Len(s) + Len(t)
  OBVIOUS
<1>3. Len(s \o t) # 0
  BY <1>1, <1>2
<1>4. Len(<<>>) = 0
  OBVIOUS
<1>. QED
  BY <1>3, <1>4

\* While no run is on, what is saved is the branch.
LEMMA SavedIsBranch ==
    ASSUME NEW p, Mirrors(p), call[p].at # "running"
    PROVE  /\ run.at = "none" /\ run.out = <<>> /\ run.saving = None /\ Saved = branch
           /\ messages \in Seq(EntryType) /\ branch \in Seq(EntryType)
           /\ {steerQ, followQ, nextTurn, bash, call[p].batch} \subseteq Seq(Outside)
           /\ call = [q \in {p} |-> call[p]] /\ call[p] \in CallShape(call[p]) /\ ControlInv(p)
<1>1. /\ messages \in Seq(EntryType) /\ branch \in Seq(EntryType)
      /\ IF run.at = "none" THEN run.out = <<>> /\ run.saving = None ELSE call[p].at = "running"
      /\ call = [q \in {p} |-> call[p]] /\ call[p] \in CallShape(call[p])
  BY MirrorFacts
<1>2. {steerQ, followQ, nextTurn, bash, call[p].batch} \subseteq Seq(Outside)
  BY DEF Mirrors, ItemsInv
<1>3. Saved = branch
  BY <1>1, NothingAdded DEF Saved
<1>. QED
  BY <1>1, <1>2, <1>3 DEF Mirrors

LEMMA SavedThen ==
    ASSUME run'.saving = None, branch' \in Seq(EntryType)
    PROVE  Saved' = branch' /\ Entries' = NotCompactions(branch')
<1>1. Saved' = branch'
  BY NothingAdded DEF Saved
<1>. QED
  BY <1>1 DEF Entries

\* Messages from outside come to msgs and br, or none do.
LEMMA AlikeLists ==
    ASSUME NEW msgs \in Seq(EntryType), NEW br \in Seq(EntryType), Begun(msgs), bash \in Seq(Outside),
           Alike(msgs, br), run'.saving = None
    PROVE  /\ Begun(messages') /\ branch' \in Seq(EntryType)
           /\ \/ messages' = msgs /\ Entries' = NotCompactions(br)
              \/ Fresh(messages', Entries')
<1>1. bash \in Seq(EntryType)
  BY OutsideIsNoCompaction
<1>2. branch' \in Seq(EntryType)
  <2>1. br \o bash \in Seq(EntryType)
    BY <1>1
  <2>. QED
    BY <2>1 DEF Alike
<1>3. Entries' = NotCompactions(branch')
  BY <1>2, SavedThen
<1>4. /\ Begun(msgs \o bash)
      /\ \/ msgs \o bash = msgs /\ br \o bash = br
         \/ Fresh(msgs \o bash, NotCompactions(br \o bash))
  BY ListsFresh
<1>. QED
  BY <1>2, <1>3, <1>4 DEF Alike

(***************************************************************************)
(* Continuing has work: steps of a run                                     *)
(***************************************************************************)
LEMMA WorkRun ==
    ASSUME NEW p, Callers = {p}, Mirrors(p), WorkInv(p), AgentStep
    PROVE  WorkInv(p)'
<1>1. /\ messages \in Seq(EntryType) /\ branch \in Seq(EntryType)
      /\ run.saving \in Message \union {None} /\ nextId \in Nat /\ connected = TRUE
      /\ call = [q \in {p} |-> call[p]] /\ call[p] \in CallShape(call[p]) /\ run \in RunShape(run)
      /\ IF run.at = "none" THEN run.out = <<>> /\ run.saving = None ELSE call[p].at = "running"
      /\ run.out \in Seq(Outside)
  BY MirrorFacts
<1>2. run.at # "none" /\ call[p].at = "running"
  BY <1>1 DEF AgentStep, Deliver, Save, Respond, ToolDone, Poll, RunEnds, Ready
<1>3. /\ Begun(messages) /\ Fits(Entries, messages, overflowTried)
      /\ RunWork(run, messages) /\ HasBatch(call[p])
  BY DEF WorkInv
<1>4. run.saving = None => Saved = branch
  BY <1>1, NothingAdded DEF Saved
<1>5. \A s, e, tried, queued : CallWork(call[p], s, e, tried, queued)
  BY <1>2 DEF CallWork, AfterRun
\* Message m comes to the transcript and is not saved yet.
<1>6. ASSUME NEW m \in Message, run.saving = None, run'.saving = m,
             messages' = Append(messages, m), branch' = branch
      PROVE  Entries' = NotCompactions(Append(branch, m))
  <2>1. m # None /\ m \in EntryType
    BY MessageIsSomething, InputIsMessage
  <2>2. branch \o <<m>> = Append(branch, m)
    BY <1>1, <2>1
  <2>. QED
    BY <1>6, <2>1, <2>2 DEF Saved, Entries
<1>7. ASSUME NEW m \in Message, ~IsAssistant(m), run.saving = None, run'.saving = m,
             messages' = Append(messages, m), branch' = branch, call' = call
      PROVE  WorkInv(p)'
  BY <1>1, <1>2, <1>3, <1>6, <1>7, MessageFresh, WorkFresh
<1>8. CASE Deliver
  <2> DEFINE m == Head(run.out)
  <2>1. m \in Outside
    BY <1>1, <1>8, TakingOutside DEF Deliver
  <2>2. /\ run' = [run EXCEPT !.out = Tail(@), !.saving = m] /\ run.saving = None
        /\ messages' = Append(messages, m) /\ branch' = branch /\ call' = call
    BY <1>1, <1>8 DEF Deliver
  <2>. HIDE DEF m
  <2>3. run'.saving = m /\ m \in Message /\ ~IsAssistant(m)
    BY <1>1, <2>1, <2>2, Entry DEF RunShape
  <2>. QED
    BY <1>7, <2>2, <2>3
<1>9. CASE ToolDone
  <2> DEFINE m == OtherMsg(nextId, "toolResult")
  <2>1. m \in Message /\ ~IsAssistant(m)
    BY <1>1, NewResult
  <2>2. /\ run' = [run EXCEPT !.at = "answered", !.saving = m] /\ run.saving = None
        /\ messages' = Append(messages, m) /\ branch' = branch /\ call' = call
    BY <1>1, <1>9 DEF ToolDone, Produce, Ready
  <2>. HIDE DEF m
  <2>3. run'.saving = m
    BY <1>1, <2>2 DEF RunShape
  <2>. QED
    BY <1>7, <2>1, <2>2, <2>3
<1>10. CASE Respond
  <2>1. PICK kind : /\ kind \in {"stop", "aborted"} \union scenario.kinds
                    /\ Produce(AssistantMsg(nextId, kind), AfterReply(kind))
    BY <1>10 DEF Respond
  <2>2. kind \in AllReplies
    BY <2>1, SessionAssumption DEF PlacedInv, Mirrors, AllReplies
  <2> DEFINE m == AssistantMsg(nextId, kind)
             at == AfterReply(kind)
  <2>3. m \in Message
    BY <1>1, <2>2, NewReply
  <2>4. at \in {"tools", "end", "stopped"}
    BY DEF AfterReply
  <2>5. /\ run' = [run EXCEPT !.at = at, !.saving = m]
        /\ messages' = Append(messages, m) /\ branch' = branch /\ call' = call /\ overflowTried' = overflowTried
        /\ run.saving = None /\ run.at \in {"ask", "first"} /\ run.out = <<>>
    BY <1>1, <1>10, <2>1 DEF Respond, Produce, Ready, flagVars
  <2>. HIDE DEF m, at
  <2>6. run'.saving = m /\ run'.at \in {"tools", "end", "stopped"} /\ run'.out = <<>>
    BY <1>1, <2>4, <2>5 DEF RunShape
  <2>7. Entries' = NotCompactions(Append(branch, m))
    BY <1>6, <2>3, <2>5, <2>6
  <2>8. messages # <<>> /\ ~Answered(messages)
    BY <1>2, <1>3, <2>5 DEF RunWork
  <2>9. Fits(NotCompactions(branch), messages, overflowTried)
    BY <1>3, <1>4, <2>5 DEF Entries
  <2>10. Begun(messages') /\ OneReply(messages') /\ messages' # <<>> /\ Fits(Entries', messages', overflowTried')
    BY <1>1, <1>3, <2>3, <2>5, <2>7, <2>8, <2>9, ReplyAdded
  <2>11. RunWork(run', messages')
    BY <2>6, <2>10 DEF RunWork
  <2>. QED
    BY <1>3, <1>5, <2>5, <2>10, <2>11 DEF WorkInv
<1>11. CASE Save
  <2> DEFINE m == run.saving
  <2>1. /\ run' = [run EXCEPT !.saving = None] /\ branch' = Append(branch, m) /\ messages' = messages
        /\ m \in Message /\ m # None /\ call' = call
        /\ overflowTried' = overflowTried \/ (IsAssistant(m) /\ m.is \notin ErrorKinds)
    BY <1>1, <1>11 DEF Save, flagVars
  <2>2. run'.saving = None /\ m \in EntryType /\ run'.at = run.at /\ run'.out = run.out
    BY <1>1, <2>1, InputIsMessage DEF RunShape
  <2>3. Ends(messages, m) /\ Saved = branch \o <<m>>
    BY <2>1 DEF Saved, Mirrors, MirrorInv
  <2>. HIDE DEF m
  <2>4. branch \o <<m>> = Append(branch, m) /\ branch' \in Seq(EntryType)
    BY <1>1, <2>1, <2>2
  <2>5. Entries' = NotCompactions(Append(branch, m)) /\ Entries = Entries'
    BY <2>1, <2>2, <2>3, <2>4, SavedThen DEF Entries
  <2>6. Fits(Entries', messages', overflowTried')
    <3>1. CASE overflowTried' = overflowTried
      BY <1>3, <2>1, <2>5, <3>1
    <3>2. CASE IsAssistant(m) /\ m.is \notin ErrorKinds
      <4>1. m.role # "compaction"
        BY <3>2 DEF IsAssistant
      <4> DEFINE d == NotCompactions(branch)
      <4>2. d \in Seq(Message) /\ Entries' = Append(d, m)
        BY <1>1, <2>2, <2>5, <4>1, EntriesAdded
      <4>. HIDE DEF d
      <4>3. Entries'[Len(Entries')] = m
        BY <2>1, <4>2, Longer
      <4>4. Pair(Entries') /\ Ends(messages', Entries'[Len(Entries')])
        BY <2>1, <2>3, <3>2, <4>3 DEF Pair
      <4>. QED
        BY <4>4 DEF Fits
    <3>. QED
      BY <2>1, <3>1, <3>2
  <2>7. RunWork(run', messages')
    BY <1>3, <2>1, <2>2 DEF RunWork
  <2>. QED
    BY <1>3, <1>5, <2>1, <2>6, <2>7 DEF WorkInv
<1>12. CASE Poll
  <2>1. /\ run.at \in {"prompt", "answered", "stopped"} /\ run.saving = None /\ run.out = <<>>
        /\ UNCHANGED <<messages, branch, call, overflowTried>>
    BY <1>12 DEF Poll, Ready, flagVars
  <2>2. \/ \E at \in {"ask", "end"} : run' = [run EXCEPT !.at = at] /\ (at = "end" <=> run.at = "stopped")
        \/ \E x, via : \E at \in {"first", "ask"} : run' = [run EXCEPT !.at = at, !.out = <<x>>, !.via = via]
    BY <1>12, <2>1 DEF Poll, FromSteering, FromFollowUps
  <2>3. \/ /\ run'.at \in {"ask", "end"} /\ (run'.at = "end" <=> run.at = "stopped") /\ run'.out = <<>>
           /\ run'.saving = None
        \/ run'.at \in {"first", "ask"} /\ run'.out # <<>> /\ run'.saving = None
    <3>1. ASSUME NEW at \in {"ask", "end"}, run' = [run EXCEPT !.at = at], at = "end" <=> run.at = "stopped"
          PROVE  /\ run'.at \in {"ask", "end"} /\ (run'.at = "end" <=> run.at = "stopped") /\ run'.out = <<>>
                 /\ run'.saving = None
      BY <1>1, <2>1, <3>1 DEF RunShape
    <3>2. ASSUME NEW x, NEW via, NEW at \in {"first", "ask"},
                 run' = [run EXCEPT !.at = at, !.out = <<x>>, !.via = via]
          PROVE  run'.at \in {"first", "ask"} /\ run'.out # <<>> /\ run'.saving = None
      BY <1>1, <2>1, <3>2, AppendOne DEF RunShape
    <3>. QED
      BY <2>2, <3>1, <3>2
  <2>4. RunWork(run', messages')
    BY <1>2, <1>3, <2>1, <2>3 DEF RunWork
  <2>5. Entries' = Entries
    BY <2>1, <2>3 DEF Entries, Saved
  <2>. QED
    BY <1>3, <1>5, <2>1, <2>4, <2>5 DEF WorkInv
<1>13. CASE RunEnds
  <2> DEFINE c == [call[p] EXCEPT !.at = "post"]
  <2>1. /\ run.at = "end" /\ run.saving = None /\ run.out = <<>> /\ run' = NoRun
        /\ UNCHANGED <<messages, branch, overflowTried>>
        /\ call' = [call EXCEPT ![p].at = "post"]
    BY <1>1, <1>2, <1>13 DEF RunEnds, Ready, flagVars, Mirrors, ControlInv, Controlled
  <2>2. run'.at = "none" /\ run'.saving = None
    BY <2>1 DEF NoRun
  <2>3. call'[p] = c
    BY <1>1, <2>1
  <2>4. c.at = "post" /\ c.phase = call[p].phase /\ c.batch = call[p].batch
    BY <1>1 DEF CallShape
  <2>. HIDE DEF c
  <2>5. Entries' = Entries
    BY <2>1, <2>2 DEF Entries, Saved
  <2>6. RunWork(run', messages')
    BY <2>2 DEF RunWork
  <2>7. messages # <<>> /\ OneReply(messages)
    BY <1>2, <1>3, <2>1 DEF RunWork
  <2>8. \A e, tried, queued : CallWork(c, messages, e, tried, queued)
    BY <2>4, <2>7 DEF CallWork
  <2>9. HasBatch(c)
    BY <1>2, <1>3, <2>4 DEF HasBatch
  <2>. QED
    BY <1>3, <2>1, <2>3, <2>5, <2>6, <2>8, <2>9 DEF WorkInv
<1>. QED
  BY <1>8, <1>9, <1>10, <1>11, <1>12, <1>13 DEF AgentStep

(***************************************************************************)
(* Continuing has work: after a run                                        *)
(***************************************************************************)
\* Whether the agent goes on is decided: from msgs it can.
LEMMA WorkDecided ==
    ASSUME NEW p, Mirrors(p), WorkInv(p), call[p].at \notin {"idle", "settling", "running"},
           NEW goOn \in BOOLEAN, NEW msgs \in Seq(EntryType), NEW br \in Seq(EntryType),
           Decide(p, goOn, msgs, br), Begun(msgs), Fits(NotCompactions(br), msgs, overflowTried'),
           goOn => msgs # <<>> /\ (HasQueued \/ LastWorkable(msgs)), UNCHANGED <<run, steerQ, followQ>>
    PROVE  WorkInv(p)'
<1>1. /\ run.at = "none" /\ run.saving = None /\ ControlInv(p)
      /\ {nextTurn, bash, call[p].batch} \subseteq Seq(Outside)
  BY SavedIsBranch
<1>2. Alike(msgs, br) /\ call'[p].at \in {"continue", "before", "settling"}
  BY <1>1, DecideAlike
<1>3. Decision(p, goOn)
  BY <1>1, DecisionIs
<1>4. /\ Begun(messages')
      /\ \/ messages' = msgs /\ Entries' = NotCompactions(br)
         \/ Fresh(messages', Entries')
  BY <1>1, <1>2, AlikeLists
<1>5. HasBatch(call'[p])
  BY <1>1, <1>3, JoinedSome DEF WorkInv, HasBatch, Decision
<1>6. CASE Fresh(messages', Entries')
  BY <1>2, <1>4, <1>5, <1>6, WorkFresh
<1>7. CASE messages' = msgs /\ Entries' = NotCompactions(br)
  BY <1>1, <1>2, <1>3, <1>4, <1>5, <1>7 DEF RunWork, HasQueued, Decision, CallWork, AfterRun, WorkInv
<1>. QED
  BY <1>4, <1>6, <1>7

LEMMA WorkQueued ==
    ASSUME NEW p, Mirrors(p), WorkInv(p), call[p].at \in AfterRun \union {"auth"},
           DecideQueued(p), UNCHANGED <<run, steerQ, followQ, overflowTried>>
    PROVE  WorkInv(p)'
<1> DEFINE goOn == call[p].phase # "check" /\ HasQueued
<1>1. call[p].at \notin {"idle", "settling", "running"}
  BY DEF AfterRun
<1>2. messages \in Seq(EntryType) /\ branch \in Seq(EntryType) /\ Saved = branch
  BY <1>1, SavedIsBranch
<1>3. Begun(messages) /\ Fits(NotCompactions(branch), messages, overflowTried)
  BY <1>2 DEF WorkInv, Entries
<1>4. goOn \in BOOLEAN /\ Decide(p, goOn, messages, branch)
  BY DEF DecideQueued
<1>5. goOn => messages # <<>> /\ HasQueued
  BY DEF WorkInv, CallWork, HasBatch
<1>. HIDE DEF goOn
<1>. QED
  BY <1>1, <1>2, <1>3, <1>4, <1>5, WorkDecided

\* A compaction is to be prepared.
LEMMA WorkPrepared ==
    ASSUME NEW p, Mirrors(p), WorkInv(p), call[p].at \in {"post", "cancelled", "auth"}, messages # <<>>,
           NEW recover \in BOOLEAN,
           call' = [call EXCEPT ![p].at = "prepare", ![p].recover = recover, ![p].msg = None],
           IF recover THEN /\ ~overflowTried /\ overflowTried' /\ messages' = Strip(messages, AllReplies)
                           /\ Answered(messages) => messages[Len(messages)].is \in {"overflow", "length"}
                      ELSE messages' = messages /\ (overflowTried' <=> overflowTried),
           UNCHANGED <<branch, run, steerQ, followQ>>
    PROVE  WorkInv(p)'
<1> DEFINE c == [call[p] EXCEPT !.at = "prepare", !.recover = recover, !.msg = None]
<1>1. /\ run.at = "none" /\ run.saving = None /\ messages \in Seq(EntryType) /\ branch \in Seq(EntryType)
      /\ Saved = branch
      /\ call = [q \in {p} |-> call[p]] /\ call[p] \in CallShape(call[p])
  BY SavedIsBranch
<1>2. call'[p] = c
  BY <1>1
<1>3. c.at = "prepare" /\ c.recover = recover /\ c.phase = call[p].phase /\ c.batch = call[p].batch
  BY <1>1 DEF CallShape
<1>. HIDE DEF c
<1>4. Entries' = Entries
  BY <1>1, SavedThen DEF Entries
<1>5. Begun(messages) /\ Fits(Entries, messages, overflowTried) /\ HasBatch(call[p])
  BY DEF WorkInv
<1>6. RunWork(run', messages')
  BY <1>1 DEF RunWork
<1>7. HasBatch(c)
  BY <1>3, <1>5 DEF HasBatch
<1>8. CASE recover
  <2>1. messages' # <<>> /\ Begun(messages')
    BY <1>1, <1>5, <1>8, BegunStripped
  <2>2. Fits(Entries', messages', overflowTried')
    BY <1>8 DEF Fits
  <2>3. Recoverable(Entries)
    <3> DEFINE e == Entries
               m == e[Len(e)]
    <3>1. Pair(e) /\ (LastWorkable(e) \/ Ends(messages, m))
      BY <1>5, <1>8 DEF Fits
    <3>. HIDE DEF e
    <3>2. ASSUME Ends(messages, m), ~LastWorkable(e)
          PROVE  m.is \in ErrorKinds
      BY <1>8, <3>2 DEF LastWorkable, Answered, LastIs, Workable, Ends, ErrorKinds
    <3>3. Recoverable(e)
      BY <3>1, <3>2 DEF Recoverable
    <3>. QED
      BY <3>3 DEF e
  <2>4. CallWork(c, messages', Entries', overflowTried', HasQueued')
    BY <1>3, <1>4, <1>8, <2>1, <2>3 DEF CallWork
  <2>. QED
    BY <1>2, <1>6, <1>7, <2>1, <2>2, <2>4 DEF WorkInv
<1>9. CASE ~recover
  BY <1>2, <1>3, <1>4, <1>5, <1>6, <1>7, <1>9 DEF Fits, CallWork, WorkInv
<1>. QED
  BY <1>8, <1>9

\* The check of a reply, which is the last of the transcript or an error.
LEMMA WorkChecked ==
    ASSUME NEW p, Mirrors(p), WorkInv(p), call[p].at \in {"post", "cancelled", "auth"}, messages # <<>>,
           NEW m, NEW skipAborted, Check(p, m, skipAborted), UNCHANGED <<run, steerQ, followQ>>,
           Answered(messages) => m = messages[Len(messages)] \/ m.is = "error"
    PROVE  WorkInv(p)'
<1>1. PICK o \in Outcomes(m, skipAborted) :
        \/ /\ o = "none"
           /\ DecideQueued(p) /\ UNCHANGED overflowTried
        \/ /\ o # "none"
           /\ call' = [call EXCEPT ![p].at = "prepare", ![p].recover = (o = "recover"), ![p].msg = None]
           /\ overflowTried' = (overflowTried \/ o = "recover")
           /\ messages' = IF o = "recover" THEN Strip(messages, AllReplies) ELSE messages
           /\ UNCHANGED <<branch, bash, nextTurn, active>>
  BY DEF Check
<1>2. CASE o = "none"
  BY <1>1, <1>2, WorkQueued DEF AfterRun
<1>3. CASE o # "none"
  <2> DEFINE recover == o = "recover"
  <2>1. recover => m.is \in {"overflow", "length"} /\ ~overflowTried
    BY DEF Outcomes
  <2>2. recover => (Answered(messages) => messages[Len(messages)].is \in {"overflow", "length"})
    BY <2>1
  <2>3. recover \in BOOLEAN
    OBVIOUS
  <2>4. /\ call' = [call EXCEPT ![p].at = "prepare", ![p].recover = recover, ![p].msg = None]
        /\ branch' = branch
        /\ IF recover THEN messages' = Strip(messages, AllReplies) /\ overflowTried'
                      ELSE messages' = messages
    BY <1>1, <1>3
  <2>5. ~recover => (overflowTried' <=> overflowTried)
    BY <1>1, <1>3
  <2>. HIDE DEF recover
  <2>. QED
    BY <2>1, <2>2, <2>3, <2>4, <2>5, WorkPrepared
<1>. QED
  BY <1>2, <1>3

LEMMA WorkDecides ==
    ASSUME NEW p, Mirrors(p), WorkInv(p), Decides(p)
    PROVE  WorkInv(p)'
<1>1. call[p].at \in {"post", "sleeping", "cancelled", "prepare", "summarizing", "auth"}
  BY DEF Decides, PostRun, Wake, RetryCancelled, Prepare, SummaryFails, Accepted
<1>2. /\ run.at = "none" /\ run.saving = None /\ ControlInv(p) /\ Saved = branch
      /\ messages \in Seq(EntryType) /\ branch \in Seq(EntryType)
      /\ call = [q \in {p} |-> call[p]] /\ call[p] \in CallShape(call[p])
  BY <1>1, SavedIsBranch
<1>3. UNCHANGED <<run, steerQ, followQ>>
  BY <1>2, DecidesEffect
<1>4. /\ Begun(messages) /\ Fits(Entries, messages, overflowTried) /\ HasBatch(call[p])
      /\ Fits(NotCompactions(branch), messages, overflowTried)
      /\ call[p].at # "auth" => messages # <<>>
  BY <1>1, <1>2 DEF WorkInv, Entries, CallWork, AfterRun
<1>5. CASE PostRun(p)
  <2>1. Answered(messages) => last = messages[Len(messages)]
    BY <1>5 DEF PostRun, Mirrors, MirrorInv, Reached, Answered
  <2>2. CASE last = None
    BY <1>1, <1>2, <1>3, <1>4, <1>5, <2>2, WorkDecided DEF PostRun
  <2>3. CASE last # None /\ IsKind(last, {"error"}) /\ retries < MaxRetries
    <3> DEFINE c == [call[p] EXCEPT !.at = "sleeping", !.msg = last]
    <3>1. /\ messages' = Strip(messages, AllReplies) /\ branch' = branch /\ overflowTried' = overflowTried
          /\ call' = [call EXCEPT ![p].at = "sleeping", ![p].msg = last] /\ call[p].at = "post"
      BY <1>5, <2>3 DEF PostRun
    <3>2. call'[p] = c
      BY <1>2, <3>1
    <3>3. c.at = "sleeping" /\ c.phase = call[p].phase /\ c.batch = call[p].batch
      BY <1>2 DEF CallShape
    <3>. HIDE DEF c
    <3>4. OneReply(messages) /\ messages # <<>>
      BY <1>4, <3>1 DEF WorkInv, CallWork
    <3>5. messages' # <<>> /\ Begun(messages') /\ ~Answered(messages')
      BY <1>2, <1>4, <3>1, <3>4, BegunStripped, ReplyStripped, RepliesKnown
    <3>6. Entries' = Entries
      BY <1>2, <1>3, <3>1, SavedThen DEF Entries
    <3>7. Fits(Entries', messages', overflowTried')
      <4> DEFINE e == Entries
                 m == e[Len(e)]
      <4>1. overflowTried \/ (Pair(e) /\ (LastWorkable(e) \/ Ends(messages, m)))
        BY <1>4 DEF Fits
      <4>. HIDE DEF e
      <4>2. ASSUME Ends(messages, m)
            PROVE  LastWorkable(e)
        BY <2>1, <2>3, <4>2 DEF Ends, Answered, LastIs, LastWorkable, Workable, IsKind
      <4>3. Fits(e, messages', overflowTried)
        BY <4>1, <4>2 DEF Fits
      <4>. QED
        BY <3>1, <3>6, <4>3 DEF e
    <3>8. RunWork(run', messages')
      BY <1>2, <1>3 DEF RunWork
    <3>9. HasBatch(c)
      BY <1>1, <1>4, <3>1, <3>3 DEF HasBatch
    <3>10. CallWork(c, messages', Entries', overflowTried', HasQueued')
      BY <3>3, <3>5 DEF CallWork
    <3>. QED
      BY <3>2, <3>5, <3>7, <3>8, <3>9, <3>10 DEF WorkInv
  <2>4. CASE last # None /\ ~(IsKind(last, {"error"}) /\ retries < MaxRetries)
    BY <1>3, <1>4, <1>5, <2>1, <2>4, WorkChecked DEF PostRun
  <2>. QED
    BY <2>2, <2>3, <2>4
<1>6. CASE Wake(p)
  BY <1>1, <1>2, <1>3, <1>4, <1>6, WorkDecided DEF Wake, flagVars, WorkInv, CallWork, LastWorkable
<1>7. CASE RetryCancelled(p)
  BY <1>3, <1>4, <1>7, WorkChecked DEF RetryCancelled, Mirrors, MirrorInv
<1>8. CASE Prepare(p)
  <2>1. call[p].at = "prepare" /\ overflowTried' = overflowTried
    BY <1>8 DEF Prepare, flagVars
  <2>2. CASE DecideQueued(p)
    BY <1>3, <2>1, <2>2, WorkQueued DEF AfterRun
  <2>3. ASSUME NEW cut, call' = [call EXCEPT ![p].at = "summarizing", ![p].cut = cut],
               UNCHANGED <<messages, branch, bash, nextTurn, active>>
        PROVE  WorkInv(p)'
    <3> DEFINE c == [call[p] EXCEPT !.at = "summarizing", !.cut = cut]
    <3>1. call'[p] = c
      BY <1>2, <2>3
    <3>2. c.at = "summarizing" /\ c.recover = call[p].recover /\ c.phase = call[p].phase /\ c.batch = call[p].batch
      BY <1>2 DEF CallShape
    <3>. HIDE DEF c
    <3>3. Entries' = Entries
      BY <1>2, <1>3, <2>3, SavedThen DEF Entries
    <3>4. CallWork(call[p], messages, Entries, overflowTried, HasQueued)
      BY DEF WorkInv
    <3>5. CallWork(c, messages', Entries', overflowTried', HasQueued')
      BY <2>1, <2>3, <3>2, <3>3, <3>4 DEF CallWork, AfterRun
    <3>6. HasBatch(c)
      BY <1>4, <2>1, <3>2 DEF HasBatch
    <3>7. RunWork(run', messages')
      BY <1>2, <1>3 DEF RunWork
    <3>. QED
      BY <1>4, <2>1, <2>3, <3>1, <3>3, <3>5, <3>6, <3>7 DEF WorkInv
  <2>4. DecideQueued(p) \/ \E cut :
           /\ call' = [call EXCEPT ![p].at = "summarizing", ![p].cut = cut]
           /\ UNCHANGED <<messages, branch, bash, nextTurn, active>>
    BY <1>8 DEF Prepare
  <2>. QED
    BY <2>2, <2>3, <2>4
<1>9. CASE SummaryFails(p)
  BY <1>3, <1>9, WorkQueued DEF SummaryFails, flagVars, AfterRun
<1>10. CASE Accepted(p)
  <2> DEFINE m == LastAssistant(messages, {})
  <2>1. /\ call[p].at = "auth"
        /\ \/ m = None /\ DecideQueued(p) /\ UNCHANGED overflowTried
           \/ m # None /\ Check(p, m, FALSE)
    BY <1>10 DEF Accepted
  <2>2. Answered(messages) => m = messages[Len(messages)]
    BY <1>2, LastOfReplies DEF Answered
  <2>3. m # None => messages # <<>>
    BY EmptyList DEF LastAssistant
  <2>. HIDE DEF m
  <2>4. CASE DecideQueued(p) /\ UNCHANGED overflowTried
    BY <1>3, <2>1, <2>4, WorkQueued
  <2>5. CASE m # None /\ Check(p, m, FALSE)
    BY <1>3, <2>1, <2>2, <2>3, <2>5, WorkChecked
  <2>. QED
    BY <2>1, <2>4, <2>5
<1>. QED
  BY <1>5, <1>6, <1>7, <1>8, <1>9, <1>10 DEF Decides

\* The context that a compaction leaves has something to go on from, or something is queued.
LEMMA WorkCompacted ==
    ASSUME NEW p, Mirrors(p), WorkInv(p), Compacted(p)
    PROVE  WorkInv(p)'
<1> DEFINE saved == Append(branch, Compaction(nextId, call[p].cut))
           full == Context(saved)
           less == Strip(full, ErrorKinds)
           context == IF call[p].recover THEN less ELSE full
           goOn == call[p].recover \/ HasQueued
<1>1. /\ call[p].at = "summarizing" /\ Decide(p, goOn, context, saved)
      /\ UNCHANGED <<run, steerQ, followQ, overflowTried>>
  BY DEF Compacted, flagVars
<1>2. branch \in Seq(EntryType) /\ Saved = branch /\ nextId \in Nat
  BY <1>1, SavedIsBranch, MirrorFacts
<1>3. CutsWell(branch, call[p].cut)
  BY <1>1 DEF Mirrors, ItemsInv
<1>4. call[p].cut # nextId
  BY <1>3, BranchIds DEF CutsWell, IdsIn, Mirrors
<1>5. saved \in Seq(EntryType)
  BY <1>2, <1>3, <1>4, ContextEnds
<1> DEFINE e == NotCompactions(branch)
<1>6. /\ full \in Seq(EntryType) /\ full # <<>> /\ Begun(full) /\ NotCompactions(saved) = e
      /\ \A tried, z : Fits(e, z, tried) => Fits(e, full, tried)
      /\ Recoverable(e) => LastWorkable(less)
  BY <1>2, <1>3, <1>4, WorkAfter
<1>. HIDE DEF saved, full
<1>7. less \in Seq(EntryType) /\ less # <<>> /\ Begun(less)
  BY <1>6, BegunStripped
<1>. HIDE DEF less, e
<1>8. Fits(e, messages, overflowTried) /\ (call[p].recover => overflowTried /\ Recoverable(e))
  BY <1>1, <1>2 DEF WorkInv, CallWork, Entries, e
<1>9. context \in Seq(EntryType) /\ context # <<>> /\ Begun(context) /\ Fits(e, context, overflowTried)
  BY <1>6, <1>7, <1>8 DEF Fits
<1>10. call[p].recover => LastWorkable(context)
  BY <1>6, <1>8
<1>11. goOn \in BOOLEAN
  OBVIOUS
<1>12. goOn => context # <<>> /\ (HasQueued \/ LastWorkable(context))
  BY <1>9, <1>10
<1>. HIDE DEF context, goOn
<1>13. Fits(NotCompactions(saved), context, overflowTried')
  BY <1>1, <1>6, <1>9
<1>14. call[p].at \notin {"idle", "settling", "running"}
  BY <1>1
<1>. QED
  BY <1>1, <1>5, <1>9, <1>11, <1>12, <1>13, <1>14, WorkDecided

LEMMA WorkCall ==
    ASSUME NEW p, Callers = {p}, Mirrors(p), WorkInv(p), CallStep(p)
    PROVE  WorkInv(p)'
<1>1. call[p].at # "running"
  BY DEF CallStep, PostRun, Wake, RetryCancelled, Prepare, SummaryFails, Compacted, Continue,
         ContinueThrows, Settled, Refused, Accepted, BeforeDone
<1>2. /\ run.at = "none" /\ run.saving = None /\ ControlInv(p) /\ Saved = branch
      /\ messages \in Seq(EntryType) /\ branch \in Seq(EntryType) /\ bash \in Seq(Outside)
      /\ call = [q \in {p} |-> call[p]] /\ call[p] \in CallShape(call[p])
  BY <1>1, SavedIsBranch
<1>3. /\ Begun(messages) /\ Fits(Entries, messages, overflowTried) /\ HasBatch(call[p])
  BY DEF WorkInv
\* The call c is over, or runs the agent.
<1>4. ASSUME NEW c, call'[p] = c, c.at \in {"idle", "settling", "running"}, HasBatch(c), run'.saving = None,
             Alike(messages, branch), overflowTried' = overflowTried, RunWork(run', messages')
      PROVE  WorkInv(p)'
  <2>1. /\ Begun(messages') /\ branch' \in Seq(EntryType)
        /\ \/ messages' = messages /\ Entries' = NotCompactions(branch)
           \/ Fresh(messages', Entries')
    BY <1>2, <1>3, <1>4, AlikeLists
  <2>2. Fits(Entries', messages', overflowTried')
    BY <1>2, <1>3, <1>4, <2>1, FreshFits DEF Entries
  <2>3. CallWork(c, messages', Entries', overflowTried', HasQueued')
    BY <1>4 DEF CallWork, AfterRun
  <2>. QED
    BY <1>4, <2>1, <2>2, <2>3 DEF WorkInv
<1>5. ASSUME NEW at, NEW out, NEW via, Start(p, at, out, via)
      PROVE  run'.at = at /\ run'.out = out /\ run'.saving = None
  BY <1>5 DEF Start, NoRun
<1>6. run' = run => RunWork(run', messages')
  BY <1>2 DEF RunWork
<1>7. CASE Continue(p)
  <2> DEFINE c == [call[p] EXCEPT !.at = "running"]
  <2>1. /\ call' = [call EXCEPT ![p].at = "running"] /\ Alike(messages, branch) /\ messages' = messages
        /\ overflowTried' = overflowTried /\ call[p].at = "continue"
    BY <1>7 DEF Continue, Go, Alike, flagVars
  <2>2. call'[p] = c
    BY <1>2, <2>1
  <2>3. c.at = "running" /\ c.phase = call[p].phase /\ c.batch = call[p].batch
    BY <1>2 DEF CallShape
  <2>. HIDE DEF c
  <2>4. HasBatch(c)
    BY <1>3, <2>1, <2>3 DEF HasBatch
  <2>5. messages # <<>>
    BY <2>1 DEF WorkInv, CallWork, AfterRun
  <2>6. \/ ~Answered(messages) /\ Start(p, "prompt", <<>>, "prompt")
        \/ \E x, via : \E at \in {"prompt", "ask"} : Start(p, at, <<x>>, via)
    BY <1>7 DEF Continue, Answered
  <2>7. run'.saving = None /\ RunWork(run', messages)
    <3>1. CASE ~Answered(messages) /\ Start(p, "prompt", <<>>, "prompt")
      BY <1>5, <2>5, <3>1 DEF RunWork
    <3>2. ASSUME NEW x, NEW via, NEW at \in {"prompt", "ask"}, Start(p, at, <<x>>, via)
          PROVE  run'.saving = None /\ RunWork(run', messages)
      BY <1>5, <3>2, AppendOne DEF RunWork
    <3>. QED
      BY <2>6, <3>1, <3>2
  <2>. QED
    BY <1>4, <2>1, <2>2, <2>3, <2>4, <2>7
<1>8. NoCall.at = "idle" /\ NoCall.phase = "check"
  BY DEF NoCall
<1>9. CASE ContinueThrows(p)
  <2>1. run' = run /\ Alike(messages, branch) /\ overflowTried' = overflowTried
    BY <1>9 DEF ContinueThrows, Flush, Alike, flagVars
  <2>2. PICK c : call' = [call EXCEPT ![p] = c] /\ c.at \in {"idle", "settling"}
    <3> DEFINE d == [NoCall EXCEPT !.at = "settling"]
    <3>1. d.at = "settling"
      BY DEF NoCall
    <3>2. call' = [call EXCEPT ![p] = d] \/ call' = [call EXCEPT ![p] = NoCall]
      BY <1>9 DEF ContinueThrows
    <3>. HIDE DEF d
    <3>. QED
      BY <1>8, <3>1, <3>2
  <2>3. call'[p] = c
    BY <1>2, <2>2, CallEntered
  <2>4. HasBatch(c)
    BY <2>2 DEF HasBatch
  <2>. QED
    BY <1>2, <1>4, <1>6, <2>1, <2>2, <2>3, <2>4
<1>10. CASE Settled(p) \/ Refused(p)
  BY <1>2, <1>4, <1>6, <1>8, <1>10, CallEntered DEF Settled, Refused, agentVars, Alike, flagVars, HasBatch
<1>11. CASE BeforeDone(p)
  <2> DEFINE c == [NoCall EXCEPT !.at = "running", !.phase = "main"]
  <2>1. /\ call' = [call EXCEPT ![p] = c] /\ Start(p, "prompt", call[p].batch, "prompt")
        /\ Alike(messages, branch) /\ overflowTried' = overflowTried /\ call[p].at = "before"
    BY <1>2, <1>11 DEF BeforeDone, RunPrompt, Alike, flagVars
  <2>2. c.at = "running" /\ c.phase = "main"
    BY DEF NoCall
  <2>. HIDE DEF c
  <2>3. call'[p] = c
    BY <1>2, <2>1, CallEntered
  <2>4. run'.at = "prompt" /\ run'.out = call[p].batch /\ run'.saving = None
    BY <1>5, <2>1
  <2>5. call[p].batch # <<>>
    BY <1>3, <2>1 DEF HasBatch
  <2>6. RunWork(run', messages')
    BY <2>4, <2>5 DEF RunWork
  <2>7. HasBatch(c)
    BY <2>2 DEF HasBatch
  <2>. QED
    BY <1>4, <2>1, <2>2, <2>3, <2>4, <2>6, <2>7
<1>. QED
  BY <1>7, <1>9, <1>10, <1>11, WorkDecides, WorkCompacted DEF CallStep, Decides

(***************************************************************************)
(* Continuing has work: what the application does, and the whole           *)
(***************************************************************************)
LEMMA WorkApplication ==
    ASSUME NEW p, Callers = {p}, Mirrors(p), WorkInv(p), Undivided, Application
    PROVE  WorkInv(p)'
<1>1. /\ messages \in Seq(EntryType) /\ branch \in Seq(EntryType)
      /\ nextId \in Nat
      /\ call = [q \in {p} |-> call[p]] /\ call[p] \in CallShape(call[p]) /\ run \in RunShape(run)
      /\ IF run.at = "none" THEN run.out = <<>> /\ run.saving = None ELSE call[p].at = "running"
      /\ bash \in Seq(Outside)
  BY MirrorFacts
<1>2. ControlInv(p) /\ PlacedInv(p)
  BY DEF Mirrors
<1>3. /\ Begun(messages) /\ Fits(Entries, messages, overflowTried) /\ RunWork(run, messages)
      /\ CallWork(call[p], messages, Entries, overflowTried, HasQueued) /\ HasBatch(call[p])
  BY DEF WorkInv
<1>4. ~Compact /\ ~ClearQueue
  <2>1. Compact => compacts < scenario.compacts
    BY DEF Compact
  <2>2. ClearQueue => "clear" \in scenario.ways
    BY DEF ClearQueue
  <2>. QED
    BY <1>2, <2>1, <2>2 DEF PlacedInv, Steady
\* Nothing but a queue, which is not shorter than before.
<1>5. ASSUME UNCHANGED <<messages, branch, run, call, overflowTried>>, HasQueued => HasQueued'
      PROVE  WorkInv(p)'
  BY <1>3, <1>5 DEF Entries, Saved, CallWork, WorkInv
<1>6. \A s, m : m \in Outside /\ s \in Seq(Outside) => Append(s, m) # <<>>
  <2>1. \A s, m : m \in Outside /\ s \in Seq(Outside) => Len(Append(s, m)) = Len(s) + 1 /\ Len(s) \in Nat
    OBVIOUS
  <2>2. Len(<<>>) = 0 /\ \A k \in Nat : k + 1 # 0
    OBVIOUS
  <2>. QED
    BY <2>1, <2>2
<1>7. steerQ \in Seq(Outside) /\ followQ \in Seq(Outside)
  BY DEF Mirrors, ItemsInv
<1>8. /\ UserMsg(nextId) \in Outside /\ OtherMsg(nextId, "custom") \in Outside
      /\ OtherMsg(nextId, "bashExecution") \in Outside
  BY <1>1, NewOutside
\* A message m is put into the idle session at once.
<1>9. ASSUME NEW m \in Outside, NEW kind \in {"custom", "bash"}, Send(kind, m), ~active,
             messages' = Append(messages, m), branch' = Append(branch, m),
             UNCHANGED <<run, call, overflowTried>>
      PROVE  WorkInv(p)'
  BY <1>1, <1>3, <1>9, Entry, SavedThen, MessageFresh, WorkFresh DEF Undivided, NoHiddenRun, Send, CallWork
\* A prompt begins, as call c.
<1>10. ASSUME NEW c, call'[p] = c, c.at \in {"auth", "running"}, HasBatch(c), run.at = "none",
              run'.saving = None, Alike(messages, branch), overflowTried' = overflowTried,
              RunWork(run', messages')
       PROVE  WorkInv(p)'
  <2>1. Saved = branch
    BY <1>1, <1>10, NothingAdded DEF Saved
  <2>2. /\ Begun(messages') /\ branch' \in Seq(EntryType)
        /\ \/ messages' = messages /\ Entries' = NotCompactions(branch)
           \/ Fresh(messages', Entries')
    BY <1>1, <1>3, <1>10, AlikeLists
  <2>3. CallWork(c, messages', Entries', overflowTried', HasQueued')
    BY <1>10 DEF CallWork, AfterRun
  <2>4. Fits(Entries', messages', overflowTried')
    BY <1>3, <1>10, <2>1, <2>2, FreshFits DEF Entries
  <2>. QED
    BY <1>10, <2>2, <2>3, <2>4 DEF WorkInv
<1>11. CASE Prompt(p)
  <2> DEFINE b == <<UserMsg(nextId)>>
             c == [NoCall EXCEPT !.at = "auth", !.batch = b]
  <2>1. /\ call' = [call EXCEPT ![p] = c] /\ run' = run /\ Alike(messages, branch)
        /\ overflowTried' = overflowTried /\ call[p].at = "idle"
    BY <1>11 DEF Prompt, Flush, Alike, flagVars
  <2>2. b # <<>>
    BY AppendOne
  <2>. HIDE DEF b
  <2>3. c.at = "auth" /\ c.batch = b /\ c.phase = "check"
    BY DEF NoCall
  <2>. HIDE DEF c
  <2>4. call'[p] = c
    BY <1>2, <2>1, CallEntered
  <2>5. run.at = "none" /\ run.saving = None
    BY <1>1, <2>1
  <2>6. HasBatch(c) /\ RunWork(run', messages')
    BY <2>1, <2>2, <2>3, <2>5 DEF HasBatch, RunWork
  <2>. QED
    BY <1>10, <2>1, <2>3, <2>4, <2>5, <2>6
<1>12. CASE SendTurn(p)
  <2> DEFINE c == [NoCall EXCEPT !.at = "running", !.phase = "main"]
             b == <<OtherMsg(nextId, "custom")>>
  <2>1. run.at = "none"
    BY <1>1, <1>12 DEF SendTurn
  <2>2. /\ call' = [call EXCEPT ![p] = c] /\ Start(p, "prompt", b, "prompt")
        /\ Alike(messages, branch) /\ overflowTried' = overflowTried
    BY <1>12, <2>1 DEF SendTurn, RunPrompt, Alike, flagVars
  <2>3. b # <<>>
    BY AppendOne
  <2>. HIDE DEF b
  <2>4. run'.at = "prompt" /\ run'.saving = None /\ run'.out = b
    BY <2>2 DEF Start, NoRun
  <2>5. c.at = "running" /\ c.phase = "main"
    BY DEF NoCall
  <2>. HIDE DEF c
  <2>6. call'[p] = c
    BY <1>2, <2>2, CallEntered
  <2>7. HasBatch(c) /\ RunWork(run', messages')
    BY <2>3, <2>4, <2>5 DEF HasBatch, RunWork
  <2>. QED
    BY <1>10, <2>1, <2>2, <2>4, <2>5, <2>6, <2>7
<1>13. CASE Steer
  BY <1>5, <1>6, <1>7, <1>8, <1>13 DEF Steer, flagVars, HasQueued
<1>14. CASE FollowUp
  BY <1>5, <1>6, <1>7, <1>8, <1>14 DEF FollowUp, flagVars, HasQueued
<1>15. CASE SendNextTurn
  BY <1>5, <1>15 DEF SendNextTurn, agentVars, flagVars, HasQueued
<1>16. CASE SendCustom
  <2> DEFINE m == OtherMsg(nextId, "custom")
  <2>1. m \in Outside /\ Send("custom", m) /\ UNCHANGED <<run, call, overflowTried>>
    BY <1>8, <1>16 DEF SendCustom, flagVars
  <2>2. \/ /\ active /\ UNCHANGED <<messages, branch>>
           /\ (steerQ' = Append(steerQ, m) \/ followQ' = Append(followQ, m))
        \/ ~active /\ messages' = Append(messages, m) /\ branch' = Append(branch, m)
    BY <1>16 DEF SendCustom
  <2>. HIDE DEF m
  <2>3. steerQ' = Append(steerQ, m) \/ followQ' = Append(followQ, m) => HasQueued'
    BY <1>6, <1>7, <2>1 DEF HasQueued
  <2>. QED
    BY <1>5, <1>9, <2>1, <2>2, <2>3
<1>17. CASE RecordBash
  <2> DEFINE m == OtherMsg(nextId, "bashExecution")
  <2>1. /\ m \in Outside /\ Send("bash", m) /\ UNCHANGED <<run, call, overflowTried>>
        /\ UNCHANGED <<steerQ, followQ>>
    BY <1>8, <1>17 DEF RecordBash, flagVars
  <2>2. \/ active /\ UNCHANGED <<messages, branch>>
        \/ ~active /\ messages' = Append(messages, m) /\ branch' = Append(branch, m)
    BY <1>17 DEF RecordBash
  <2>3. HasQueued' = HasQueued
    BY <2>1 DEF HasQueued
  <2>. HIDE DEF m
  <2>. QED
    BY <1>5, <1>9, <2>1, <2>2, <2>3
<1>18. CASE Abort
  <2> DEFINE c == IF call[p].at = "sleeping" THEN [call[p] EXCEPT !.at = "cancelled"] ELSE call[p]
             r == IF run.at = "none" THEN run ELSE [run EXCEPT !.aborted = TRUE]
  <2>1. /\ call' = [q \in {p} |-> c] /\ run' = r
        /\ UNCHANGED <<messages, branch, overflowTried, steerQ, followQ>>
    BY <1>1, <1>18 DEF Abort, AbortAll, flagVars
  <2>2. r.at = run.at /\ r.saving = run.saving /\ r.out = run.out
    BY <1>1 DEF RunShape
  <2>3. /\ c.phase = call[p].phase /\ c.batch = call[p].batch /\ c.recover = call[p].recover
        /\ c.at = call[p].at \/ (c.at = "cancelled" /\ call[p].at = "sleeping")
    BY <1>1 DEF CallShape
  <2>. HIDE DEF c, r
  <2>4. call'[p] = c
    BY <2>1
  <2>5. Entries' = Entries /\ HasQueued' = HasQueued
    BY <2>1, <2>2 DEF Entries, Saved, HasQueued
  <2>6. RunWork(run', messages') /\ HasBatch(c)
    BY <1>3, <2>1, <2>2, <2>3 DEF RunWork, HasBatch
  <2>7. CallWork(c, messages', Entries', overflowTried', HasQueued')
    BY <1>3, <2>1, <2>3, <2>5 DEF CallWork, AfterRun
  <2>. QED
    BY <1>3, <2>1, <2>4, <2>5, <2>6, <2>7 DEF WorkInv
<1>. QED
  BY <1>1, <1>4, <1>11, <1>12, <1>13, <1>14, <1>15, <1>16, <1>17, <1>18 DEF Application

LEMMA WorkStep ==
    ASSUME NEW p, Callers = {p}, Mirrors(p), WorkInv(p), Undivided, [Next]_vars
    PROVE  WorkInv(p)'
<1>1. CASE UNCHANGED vars
  BY <1>1 DEF vars, agentVars, flagVars, Entries, Saved, HasQueued, WorkInv
<1>2. CASE Next
  <2>1. ~CompStep
    BY DEF Mirrors, PlacedInv, NoComp, CompStep, CompactPrepare, CompactDone
  <2>. QED
    BY <1>2, <2>1, WorkRun, WorkCall, WorkApplication DEF Next
<1>. QED
  BY <1>1, <1>2

LEMMA WorkInit ==
    ASSUME NEW p, Callers = {p}, Init
    PROVE  WorkInv(p)
<1>1. call[p] = NoCall /\ run = NoRun /\ messages = <<>> /\ branch = <<>>
  BY DEF Init
<1>2. /\ call[p].at = "idle" /\ call[p].phase = "check"
      /\ run.saving = None /\ run.at = "none"
  BY <1>1 DEF NoCall, NoRun
<1>3. Saved = <<>>
  BY <1>1, <1>2 DEF Saved
<1>4. Entries = <<>>
  BY <1>3, NoEntries DEF Entries
<1>5. ~Answered(messages) /\ ~Answered(Entries)
  BY <1>1, <1>4 DEF Answered, LastIs
<1>6. Begun(messages) /\ Fits(Entries, messages, overflowTried)
  BY <1>1, <1>5 DEF Begun, Fits, Pair, LastWorkable
<1>7. RunWork(run, messages) /\ HasBatch(call[p])
  BY <1>2 DEF RunWork, HasBatch
<1>8. CallWork(call[p], messages, Entries, overflowTried, HasQueued)
  BY <1>2 DEF CallWork, AfterRun
<1>. QED
  BY <1>6, <1>7, <1>8 DEF WorkInv

\* When continue() is called and nothing is queued, the transcript is not empty and
\* does not end with a reply that is complete: it may end with one that failed or was
\* cut off, and continue() then throws.  A retry has removed the failed reply, a
\* recovery's context ends with something else than a complete reply once the failed
\* one is stripped from it, and a compaction that continues without one does so for
\* what is queued.  One caller; compact() and clearQueue()
\* are not part of it; shell results and custom messages where no compaction is due.
THEOREM NoContinueAfterAnswerHolds ==
    ASSUME OneCaller PROVE Spec /\ Steady /\ Apart => []NoContinueAfterAnswer
<1>1. PICK p : Callers = {p}
  BY DEF OneCaller
<1> DEFINE Guard == {"custom", "bash"} \cap scenario.ways = {} \/ LightInv(p)
           IInv == Mirrors(p) /\ Guard /\ WorkInv(p)
<1>2. Init /\ Steady /\ Apart => IInv
  BY <1>1, ControlInit, PlacedInit, TogetherInit, LightInit, MirrorInit, WorkInit DEF Apart, Mirrors
<1>3. IInv /\ [Next]_vars => IInv'
  <2> SUFFICES ASSUME IInv, [Next]_vars
               PROVE  IInv'
    OBVIOUS
  <2>1. ControlInv(p) /\ PlacedInv(p) /\ TogetherInv /\ ItemsInv(p)
    BY DEF Mirrors
  <2>2. Undivided
    BY <2>1, LightIsSeen DEF Undivided
  <2>3. UNCHANGED scenario
    BY DEF Next, vars
  <2>4. Guard'
    BY <1>1, <2>3, <2>1, LightStep
  <2>5. (ControlInv(p) /\ PlacedInv(p) /\ TogetherInv /\ ItemsInv(p))'
    BY <1>1, <2>2, <2>1, ControlStep, PlacedStep, TogetherStep
  <2>6. MirrorInv(p)'
    BY <1>1, <2>2, <2>5, MirrorStep
  <2>7. WorkInv(p)'
    BY <1>1, <2>2, WorkStep
  <2>. QED
    BY <2>4, <2>5, <2>6, <2>7 DEF Mirrors
<1>4. IInv => NoContinueAfterAnswer
  <2> SUFFICES ASSUME Mirrors(p), WorkInv(p), Continues(p)
               PROVE  ~NothingToSend \/ LastIs(messages, LAMBDA m : IsKind(m, {"error", "length"}))
    BY <1>1 DEF NoContinueAfterAnswer
  <2>1. messages # <<>> /\ (HasQueued \/ LastWorkable(messages))
    BY DEF Continues, WorkInv, CallWork, AfterRun
  <2>2. CASE HasQueued \/ ~Answered(messages)
    BY <2>1, <2>2 DEF NothingToSend, Answered
  <2>3. CASE Answered(messages) /\ Workable(messages[Len(messages)])
    BY <2>1, <2>3 DEF Answered, LastIs, Workable, IsKind
  <2>. QED
    BY <2>1, <2>2, <2>3 DEF LastWorkable
<1>. QED
  BY <1>2, <1>3, <1>4, PTL DEF Spec

=============================================================================
