------------------------------ MODULE MoviesProofs ------------------------------
(***************************************************************************)
(* The safety properties of Movies, for any finite set of movies and any   *)
(* number of queued actions.                                               *)
(*                                                                         *)
(* The first part is about lists, the second about what a movie leads to;  *)
(* then comes the invariant of the stage, which every operation keeps, and *)
(* that of the player's loops.  In the end it is shown what becomes of the *)
(* handlers of what is removed.                                            *)
(***************************************************************************)
EXTENDS Movies, FiniteSetTheorems, WellFoundedInduction, SequenceTheorems, TLAPS

-----------------------------------------------------------------------------
(* Lists *)

\* A nonempty set of numbers has a least element.
LEMMA Least ==
    ASSUME NEW K \in SUBSET Nat, K # {}
    PROVE  \E m \in K : \A k \in K : m <= k
<1>1. PICK m \in K : \A i \in K : <<i, m>> \notin OpToRel(<, Nat)
  BY NatLessThanWellFounded, WFMin
<1>2. ASSUME NEW k \in K PROVE m <= k
  <2>1. <<k, m>> \in Nat \X Nat /\ k \in Nat /\ m \in Nat
    OBVIOUS
  <2>2. ~(k < m)
    BY <1>1, <2>1 DEF OpToRel
  <2>3. QED
    BY <2>1, <2>2
<1>3. QED
  BY <1>2

LEMMA MinFacts ==
    ASSUME NEW K \in SUBSET Nat, K # {}
    PROVE  Min(K) \in K /\ \A k \in K : Min(K) <= k
BY Least DEF Min

\* What Without has kept after a part of the list.
Keeps(seq, gone, g, n) ==
    /\ g = [i \in 0..n |-> g[i]]
    /\ g[0] = <<>>
    /\ \A i \in 1..n : g[i] = IF seq[i] \in gone THEN g[i - 1] ELSE Append(g[i - 1], seq[i])

\* The function of Without exists, for any list.
LEMMA KeepsExists ==
    ASSUME NEW seq, NEW gone, NEW N \in Nat
    PROVE  \E g : Keeps(seq, gone, g, N)
<1> DEFINE K == {n \in Nat : ~\E g : Keeps(seq, gone, g, n)}
<1>1. SUFFICES ASSUME K # {} PROVE FALSE
  OBVIOUS
<1>2. PICK m \in K : \A k \in K : m <= k
  BY <1>1, Least
<1>3. m # 0
  <2>1. Keeps(seq, gone, [i \in 0..0 |-> <<>>], 0)
    BY DEF Keeps
  <2>2. QED
    BY <2>1
<1>4. m - 1 \in Nat /\ m \in Nat /\ ~(m <= m - 1)
  BY <1>3
<1>5. PICK g : Keeps(seq, gone, g, m - 1)
  BY <1>2, <1>4
<1> DEFINE last == IF seq[m] \in gone THEN g[m - 1] ELSE Append(g[m - 1], seq[m])
           f == [i \in 0..m |-> IF i = m THEN last ELSE g[i]]
<1>6. Keeps(seq, gone, f, m)
  <2>1. f = [i \in 0..m |-> f[i]]
    OBVIOUS
  <2>2. f[0] = <<>>
    BY <1>3, <1>4, <1>5 DEF Keeps
  <2>3. ASSUME NEW i \in 1..m
        PROVE  f[i] = IF seq[i] \in gone THEN f[i - 1] ELSE Append(f[i - 1], seq[i])
    <3>1. i - 1 \in 0..m - 1 /\ i - 1 # m /\ i \in 0..m /\ i - 1 \in 0..m
      BY <1>4
    <3>2. f[i - 1] = g[i - 1]
      BY <3>1
    <3>3. CASE i = m
      BY <3>1, <3>2, <3>3
    <3>4. CASE i # m
      <4>1. i \in 1..m - 1
        BY <1>4, <3>4
      <4>2. f[i] = g[i]
        BY <3>1, <3>4
      <4>3. QED
        BY <1>5, <3>2, <4>1, <4>2 DEF Keeps
    <3>5. QED
      BY <3>3, <3>4
  <2>4. QED
    BY <2>1, <2>2, <2>3 DEF Keeps
<1>7. QED
  BY <1>6

LEMMA WithoutRounds ==
    ASSUME NEW seq, NEW gone, Len(seq) \in Nat
    PROVE  \E g : Keeps(seq, gone, g, Len(seq)) /\ Without(seq, gone) = g[Len(seq)]
<1> DEFINE N == Len(seq)
           Is(g) == g = [i \in 0..N |->
                           IF i = 0 THEN <<>>
                           ELSE IF seq[i] \in gone THEN g[i - 1] ELSE Append(g[i - 1], seq[i])]
<1>1. N \in Nat
  OBVIOUS
<1>2. PICK g : Keeps(seq, gone, g, N)
  BY <1>1, KeepsExists
<1>3. Is(g)
  <2> HIDE DEF N
  <2>1. ASSUME NEW i \in 0..N
        PROVE  g[i] = IF i = 0 THEN <<>>
                      ELSE IF seq[i] \in gone THEN g[i - 1] ELSE Append(g[i - 1], seq[i])
    <3>1. i = 0 \/ i \in 1..N
      BY <1>1
    <3>2. QED
      BY <1>2, <3>1 DEF Keeps
  <2>2. g = [i \in 0..N |-> g[i]]
    BY <1>2 DEF Keeps
  <2>3. QED
    BY <2>1, <2>2
<1> DEFINE kept == CHOOSE h : Is(h)
<1>4. Is(kept)
  BY <1>3
<1>5. Keeps(seq, gone, kept, N)
  <2> HIDE DEF kept
  <2>1. kept = [i \in 0..N |-> kept[i]]
    BY <1>4
  <2>2. kept[0] = <<>>
    BY <1>1, <1>4
  <2>3. \A i \in 1..N : kept[i] = IF seq[i] \in gone THEN kept[i - 1]
                                  ELSE Append(kept[i - 1], seq[i])
    <3>1. ASSUME NEW i \in 1..N
          PROVE  kept[i] = IF seq[i] \in gone THEN kept[i - 1] ELSE Append(kept[i - 1], seq[i])
      <4>1. i \in 0..N /\ i # 0
        BY <1>1
      <4>2. QED
        BY <1>4, <4>1
    <3>2. QED
      BY <3>1
  <2>4. QED
    BY <2>1, <2>2, <2>3 DEF Keeps
<1>6. Without(seq, gone) = kept[N]
  BY DEF Without
<1>7. QED
  BY <1>5, <1>6

\* Without leaves what is not gone, in its order.
LEMMA WithoutFacts ==
    ASSUME NEW S, NEW seq \in Seq(S), NEW gone
    PROVE  /\ Without(seq, gone) \in Seq(S)
           /\ Range(Without(seq, gone)) = Range(seq) \ gone
           /\ \A i, j \in 1..Len(Without(seq, gone)) : i < j =>
                 \E a, b \in 1..Len(seq) : /\ a < b
                                           /\ seq[a] = Without(seq, gone)[i]
                                           /\ seq[b] = Without(seq, gone)[j]
<1> DEFINE N == Len(seq)
<1>1. N \in Nat /\ DOMAIN seq = 1..N /\ \A i \in 1..N : seq[i] \in S
  OBVIOUS
<1>2. PICK g : Keeps(seq, gone, g, N) /\ Without(seq, gone) = g[N]
  BY <1>1, WithoutRounds
<1> DEFINE Fits(n) ==
      /\ g[n] \in Seq(S)
      /\ \A k \in 1..Len(g[n]) : \E a \in 1..n : seq[a] = g[n][k] /\ seq[a] \notin gone
      /\ \A a \in 1..n : seq[a] \notin gone => \E k \in 1..Len(g[n]) : g[n][k] = seq[a]
      /\ \A i, j \in 1..Len(g[n]) : i < j =>
            \E a, b \in 1..n : a < b /\ seq[a] = g[n][i] /\ seq[b] = g[n][j]
<1> HIDE DEF N
<1>3. ASSUME NEW n \in 0..N PROVE Fits(n)
  <2> DEFINE K == {k \in 0..N : ~Fits(k)}
  <2>1. SUFFICES ASSUME K # {} PROVE FALSE
    OBVIOUS
  <2>2. K \in SUBSET Nat
    BY <1>1
  <2>3. PICK m \in K : \A k \in K : m <= k
    BY <2>1, <2>2, Least
  <2>4. m # 0
    <3>1. Fits(0)
      <4>1. g[0] = <<>>
        BY <1>2 DEF Keeps
      <4>2. QED
        BY <4>1
    <3>2. QED
      BY <2>3, <3>1
  <2>5. m \in 1..N /\ m - 1 \in 0..N /\ ~(m <= m - 1)
    BY <1>1, <2>3, <2>4
  <2>6. Fits(m - 1)
    BY <2>3, <2>5
  <2> DEFINE p == g[m - 1]
             x == seq[m]
  <2>7. g[m] = IF x \in gone THEN p ELSE Append(p, x)
    BY <1>2, <2>5 DEF Keeps
  <2>8. x \in S /\ p \in Seq(S) /\ Len(p) \in Nat
    BY <1>1, <2>5, <2>6
  <2>9. \A a \in 1..m : a \in 1..m - 1 \/ a = m
    BY <2>5
  <2>10. \A a \in 1..m - 1 : a \in 1..m /\ a < m
    BY <2>5
  <2>11. m \in 1..m
    BY <2>5
  <2>12. /\ \A k \in 1..Len(p) : \E a \in 1..m - 1 : seq[a] = p[k] /\ seq[a] \notin gone
         /\ \A a \in 1..m - 1 : seq[a] \notin gone => \E k \in 1..Len(p) : p[k] = seq[a]
         /\ \A i, j \in 1..Len(p) : i < j =>
               \E a, b \in 1..m - 1 : a < b /\ seq[a] = p[i] /\ seq[b] = p[j]
    BY <2>6
  <2>13. CASE x \in gone
    <3>1. g[m] = p
      BY <2>7, <2>13
    <3> HIDE DEF p
    <3>2. \A k \in 1..Len(p) : \E a \in 1..m : seq[a] = p[k] /\ seq[a] \notin gone
      BY <2>10, <2>12
    <3>3. \A a \in 1..m : seq[a] \notin gone => \E k \in 1..Len(p) : p[k] = seq[a]
      BY <2>9, <2>12, <2>13
    <3>4. \A i, j \in 1..Len(p) : i < j =>
             \E a, b \in 1..m : a < b /\ seq[a] = p[i] /\ seq[b] = p[j]
      BY <2>10, <2>12
    <3>5. Fits(m)
      BY <2>8, <3>1, <3>2, <3>3, <3>4
    <3>6. QED
      BY <2>3, <3>5
  <2>14. CASE x \notin gone
    <3> DEFINE q == g[m]
    <3> HIDE DEF p
    <3>1. q = Append(p, x)
      BY <2>7, <2>14
    <3>2. /\ q \in Seq(S) /\ Len(q) = Len(p) + 1 /\ q[Len(p) + 1] = x
          /\ \A k \in 1..Len(p) : q[k] = p[k]
      BY <2>8, <3>1
    <3> HIDE DEF q, x
    <3>3. /\ \A k \in 1..Len(q) : k \in 1..Len(p) \/ k = Len(p) + 1
          /\ \A k \in 1..Len(p) : k \in 1..Len(q) /\ k < Len(p) + 1
          /\ Len(p) + 1 \in 1..Len(q)
      BY <2>8, <3>2
    <3>4. \A k \in 1..Len(q) : \E a \in 1..m : seq[a] = q[k] /\ seq[a] \notin gone
      <4>1. SUFFICES ASSUME NEW k \in 1..Len(q)
                     PROVE  \E a \in 1..m : seq[a] = q[k] /\ seq[a] \notin gone
        OBVIOUS
      <4>2. CASE k \in 1..Len(p)
        BY <2>10, <2>12, <3>2, <4>2
      <4>3. CASE k = Len(p) + 1
        BY <2>11, <2>14, <3>2, <4>3 DEF x
      <4>4. QED
        BY <3>3, <4>2, <4>3
    <3>5. \A a \in 1..m : seq[a] \notin gone => \E k \in 1..Len(q) : q[k] = seq[a]
      <4>1. SUFFICES ASSUME NEW a \in 1..m, seq[a] \notin gone
                     PROVE  \E k \in 1..Len(q) : q[k] = seq[a]
        OBVIOUS
      <4>2. CASE a \in 1..m - 1
        BY <2>12, <3>2, <3>3, <4>1, <4>2
      <4>3. CASE a = m
        BY <3>2, <3>3, <4>3 DEF x
      <4>4. QED
        BY <2>9, <4>2, <4>3
    <3>6. \A i, j \in 1..Len(q) : i < j =>
             \E a, b \in 1..m : a < b /\ seq[a] = q[i] /\ seq[b] = q[j]
      <4>1. SUFFICES ASSUME NEW i \in 1..Len(q), NEW j \in 1..Len(q), i < j
                     PROVE  \E a, b \in 1..m : a < b /\ seq[a] = q[i] /\ seq[b] = q[j]
        OBVIOUS
      <4>2. i \in 1..Len(p)
        BY <2>8, <3>2, <4>1
      <4>3. CASE j \in 1..Len(p)
        <5>1. p[i] = q[i] /\ p[j] = q[j]
          BY <3>2, <4>2, <4>3
        <5>2. PICK a, b \in 1..m - 1 : a < b /\ seq[a] = p[i] /\ seq[b] = p[j]
          BY <2>12, <4>1, <4>2, <4>3
        <5>3. a \in 1..m /\ b \in 1..m
          BY <2>10
        <5>4. QED
          BY <5>1, <5>2, <5>3
      <4>4. CASE j = Len(p) + 1
        <5>1. PICK a \in 1..m - 1 : seq[a] = p[i]
          BY <2>12, <4>2
        <5>2. seq[m] = q[j] /\ seq[a] = q[i] /\ a < m /\ a \in 1..m
          BY <2>10, <3>2, <4>2, <4>4, <5>1 DEF x
        <5>3. QED
          BY <2>11, <5>2
      <4>5. QED
        BY <3>3, <4>3, <4>4
    <3>7. Fits(m)
      BY <3>2, <3>4, <3>5, <3>6 DEF q
    <3>8. QED
      BY <2>3, <3>7
  <2>15. QED
    BY <2>13, <2>14
<1>4. Fits(N)
  <2> HIDE DEF Fits
  <2>1. N \in 0..N
    BY <1>1
  <2>2. QED
    BY <1>3, <2>1
<1> DEFINE w == g[N]
<1>5. w = Without(seq, gone)
  BY <1>2
<1>6. /\ w \in Seq(S)
      /\ \A k \in 1..Len(w) : \E a \in 1..N : seq[a] = w[k] /\ seq[a] \notin gone
      /\ \A a \in 1..N : seq[a] \notin gone => \E k \in 1..Len(w) : w[k] = seq[a]
      /\ \A i, j \in 1..Len(w) : i < j =>
            \E a, b \in 1..N : a < b /\ seq[a] = w[i] /\ seq[b] = w[j]
  BY <1>4, Zenon
<1> HIDE DEF w
<1>7. DOMAIN w = 1..Len(w)
  BY <1>6
<1>8. Range(w) = Range(seq) \ gone
  <2>1. ASSUME NEW y \in Range(w) PROVE y \in Range(seq) \ gone
    <3>1. PICK k \in 1..Len(w) : w[k] = y
      BY <1>6, <1>7 DEF Range
    <3>2. PICK a \in 1..N : seq[a] = w[k] /\ seq[a] \notin gone
      BY <1>6
    <3>3. QED
      BY <1>1, <3>1, <3>2 DEF Range
  <2>2. ASSUME NEW y \in Range(seq) \ gone PROVE y \in Range(w)
    <3>1. PICK a \in 1..N : seq[a] = y
      BY <1>1 DEF Range
    <3>2. PICK k \in 1..Len(w) : w[k] = seq[a]
      BY <1>6, <3>1
    <3>3. QED
      BY <1>6, <1>7, <3>1, <3>2 DEF Range
  <2>3. QED
    BY <2>1, <2>2
<1>9. QED
  BY <1>5, <1>6, <1>8 DEF N

\* One element comes before another; what comes before itself is there twice.
Before(seq, x, y) == \E i, j \in 1..Len(seq) : i < j /\ seq[i] = x /\ seq[j] = y

LEMMA RangeFacts ==
    ASSUME NEW S, NEW seq \in Seq(S)
    PROVE  /\ Range(seq) \subseteq S
           /\ \A i \in 1..Len(seq) : seq[i] \in Range(seq)
           /\ \A x \in Range(seq) : \E i \in 1..Len(seq) : seq[i] = x
           /\ \A x, y : Before(seq, x, y) => x \in Range(seq) /\ y \in Range(seq)
<1>1. DOMAIN seq = 1..Len(seq) /\ \A i \in 1..Len(seq) : seq[i] \in S
  OBVIOUS
<1>2. \A i \in 1..Len(seq) : seq[i] \in Range(seq)
  BY <1>1 DEF Range
<1>3. \A x \in Range(seq) : \E i \in 1..Len(seq) : seq[i] = x
  BY <1>1 DEF Range
<1>4. QED
  BY <1>1, <1>2, <1>3 DEF Before

LEMMA BeforeOrAfter ==
    ASSUME NEW S, NEW seq \in Seq(S), NEW x \in Range(seq), NEW y \in Range(seq), x # y
    PROVE  Before(seq, x, y) \/ Before(seq, y, x)
<1>1. PICK i \in 1..Len(seq) : seq[i] = x
  BY RangeFacts
<1>2. PICK j \in 1..Len(seq) : seq[j] = y
  BY RangeFacts
<1>3. i < j \/ j < i
  BY <1>1, <1>2
<1>4. QED
  BY <1>1, <1>2, <1>3 DEF Before

LEMMA BeforeIsTransitive ==
    ASSUME NEW S, NEW seq \in Seq(S), NEW x, NEW y, NEW z,
           Before(seq, x, y), Before(seq, y, z), ~Before(seq, y, y)
    PROVE  Before(seq, x, z)
<1>1. PICK i, j \in 1..Len(seq) : i < j /\ seq[i] = x /\ seq[j] = y
  BY DEF Before
<1>2. PICK k, l \in 1..Len(seq) : k < l /\ seq[k] = y /\ seq[l] = z
  BY DEF Before
<1>3. ~(j < k) /\ ~(k < j)
  BY <1>1, <1>2 DEF Before
<1>4. i < l
  BY <1>1, <1>2, <1>3
<1>5. QED
  BY <1>1, <1>2, <1>4 DEF Before

\* Of the elements of a list that are in a set one comes first.
LEMMA FirstOf ==
    ASSUME NEW S, NEW seq \in Seq(S), NEW X, NEW y \in X, y \in Range(seq),
           \A x \in X : ~Before(seq, x, x)
    PROVE  \E x \in X \cap Range(seq) : \A z \in X : ~Before(seq, z, x)
<1> DEFINE K == {i \in 1..Len(seq) : seq[i] \in X}
<1>1. K # {} /\ K \in SUBSET Nat
  BY RangeFacts
<1>2. PICK m \in K : \A k \in K : m <= k
  BY <1>1, Least
<1>3. seq[m] \in X \cap Range(seq)
  BY <1>2, RangeFacts
<1>4. ASSUME NEW z \in X, Before(seq, z, seq[m]) PROVE FALSE
  <2>1. PICK i, j \in 1..Len(seq) : i < j /\ seq[i] = z /\ seq[j] = seq[m]
    BY <1>4 DEF Before
  <2>2. m <= i
    BY <1>2, <1>4, <2>1
  <2>3. m < j /\ m \in 1..Len(seq)
    BY <1>2, <2>1, <2>2
  <2>4. Before(seq, seq[m], seq[m])
    BY <2>1, <2>3 DEF Before
  <2>5. QED
    BY <1>3, <2>4
<1>5. QED
  BY <1>3, <1>4

LEMMA WithoutOrder ==
    ASSUME NEW S, NEW seq \in Seq(S), NEW gone
    PROVE  /\ Without(seq, gone) \in Seq(S)
           /\ Range(Without(seq, gone)) = Range(seq) \ gone
           /\ \A x, y : Before(Without(seq, gone), x, y) => Before(seq, x, y)
<1>1. ASSUME NEW x, NEW y, Before(Without(seq, gone), x, y) PROVE Before(seq, x, y)
  <2> DEFINE w == Without(seq, gone)
  <2>1. \A i, j \in 1..Len(w) : i < j =>
           \E a, b \in 1..Len(seq) : a < b /\ seq[a] = w[i] /\ seq[b] = w[j]
    BY WithoutFacts
  <2>2. Before(w, x, y)
    BY <1>1
  <2> HIDE DEF w
  <2>3. PICK i, j \in 1..Len(w) : i < j /\ w[i] = x /\ w[j] = y
    BY <2>2 DEF Before
  <2>4. PICK a, b \in 1..Len(seq) : a < b /\ seq[a] = w[i] /\ seq[b] = w[j]
    BY <2>1, <2>3
  <2>5. QED
    BY <2>3, <2>4 DEF Before
<1>2. QED
  BY <1>1, WithoutFacts

LEMMA AppendOrder ==
    ASSUME NEW S, NEW seq \in Seq(S), NEW e \in S
    PROVE  /\ Append(seq, e) \in Seq(S)
           /\ Range(Append(seq, e)) = Range(seq) \cup {e}
           /\ \A x, y : Before(Append(seq, e), x, y) =>
                 Before(seq, x, y) \/ (y = e /\ x \in Range(seq))
<1> DEFINE w == Append(seq, e)
<1>1. /\ w \in Seq(S) /\ Len(w) = Len(seq) + 1 /\ Len(seq) \in Nat /\ w[Len(seq) + 1] = e
      /\ DOMAIN w = 1..Len(w) /\ DOMAIN seq = 1..Len(seq)
      /\ \A i \in 1..Len(seq) : w[i] = seq[i]
  OBVIOUS
<1> HIDE DEF w
<1>2. \A i \in 1..Len(w) : i \in 1..Len(seq) \/ i = Len(seq) + 1
  BY <1>1
<1>3. \A i \in 1..Len(seq) : i \in 1..Len(w)
  BY <1>1
<1>4. Len(seq) + 1 \in 1..Len(w)
  BY <1>1
<1>5. Range(w) = Range(seq) \cup {e}
  <2>1. ASSUME NEW y \in Range(w) PROVE y \in Range(seq) \cup {e}
    BY <1>1, <1>2 DEF Range
  <2>2. ASSUME NEW y \in Range(seq) PROVE y \in Range(w)
    BY <1>1, <1>3 DEF Range
  <2>3. e \in Range(w)
    BY <1>1, <1>4 DEF Range
  <2>4. QED
    BY <2>1, <2>2, <2>3
<1>6. ASSUME NEW x, NEW y, Before(w, x, y)
      PROVE  Before(seq, x, y) \/ (y = e /\ x \in Range(seq))
  <2>1. PICK i, j \in 1..Len(w) : i < j /\ w[i] = x /\ w[j] = y
    BY <1>6 DEF Before
  <2>2. i \in 1..Len(seq)
    BY <1>1, <2>1
  <2>3. CASE j \in 1..Len(seq)
    BY <1>1, <2>1, <2>2, <2>3 DEF Before
  <2>4. CASE j = Len(seq) + 1
    BY <1>1, <2>1, <2>2, <2>4 DEF Range
  <2>5. QED
    BY <1>2, <2>3, <2>4
<1>7. QED
  BY <1>1, <1>5, <1>6 DEF w

\* The front and the back of a list that is taken apart.
LEMMA SubSeqFacts ==
    ASSUME NEW S, NEW list \in Seq(S), NEW p \in 1 .. Len(list) + 1
    PROVE  /\ SubSeq(list, 1, p - 1) \in Seq(S)
           /\ Len(SubSeq(list, 1, p - 1)) = p - 1
           /\ \A i \in 1 .. p - 1 : SubSeq(list, 1, p - 1)[i] = list[i]
           /\ SubSeq(list, p, Len(list)) \in Seq(S)
           /\ Len(SubSeq(list, p, Len(list))) = Len(list) - p + 1
           /\ \A i \in 1 .. Len(list) - p + 1 :
                 SubSeq(list, p, Len(list))[i] = list[p + i - 1]
BY SMT

LEMMA ConcatFacts ==
    ASSUME NEW S, NEW f \in Seq(S), NEW b \in Seq(S)
    PROVE  /\ f \o b \in Seq(S)
           /\ Len(f) \in Nat
           /\ Len(b) \in Nat
           /\ Len(f \o b) = Len(f) + Len(b)
           /\ \A i \in 1 .. Len(f) : (f \o b)[i] = f[i]
           /\ \A i \in Len(f) + 1 .. Len(f) + Len(b) : (f \o b)[i] = b[i - Len(f)]
BY ConcatProperties

\* One list is another one with t inserted at p.
Inserted(S, list, p, t, longer) ==
    /\ longer \in Seq(S)
    /\ Len(longer) = Len(list) + 1
    /\ \A i \in 1 .. Len(list) + 1 :
          longer[i] = IF i < p THEN list[i] ELSE IF i = p THEN t ELSE list[i - 1]

LEMMA InsertAtFacts ==
    ASSUME NEW S, NEW list \in Seq(S), NEW p \in 1 .. Len(list) + 1, NEW t \in S
    PROVE  Inserted(S, list, p, t, InsertAt(list, p, t))
<1> DEFINE front == SubSeq(list, 1, p - 1)
           mid == front \o <<t>>
           back == SubSeq(list, p, Len(list))
<1>1. Len(list) \in Nat /\ p \in Nat /\ <<t>> \in Seq(S)
  OBVIOUS
<1>2. /\ front \in Seq(S) /\ Len(front) = p - 1
      /\ \A i \in 1 .. p - 1 : front[i] = list[i]
  BY SubSeqFacts
<1>3. /\ back \in Seq(S) /\ Len(back) = Len(list) - p + 1
      /\ \A i \in 1 .. Len(list) - p + 1 : back[i] = list[p + i - 1]
  BY SubSeqFacts
<1>4. /\ mid \in Seq(S) /\ Len(mid) = p
      /\ \A i \in 1 .. p - 1 : mid[i] = list[i]
      /\ mid[p] = t
  <2> HIDE DEF front
  <2>1. QED
    BY <1>1, <1>2
<1>5. InsertAt(list, p, t) = mid \o back
  BY DEF InsertAt
<1> HIDE DEF mid, back
<1>6. /\ mid \o back \in Seq(S)
      /\ Len(mid \o back) = Len(list) + 1
      /\ \A i \in 1 .. p : (mid \o back)[i] = mid[i]
      /\ \A i \in p + 1 .. Len(list) + 1 : (mid \o back)[i] = back[i - p]
  BY <1>1, <1>3, <1>4, ConcatFacts
<1>7. ASSUME NEW i \in p + 1 .. Len(list) + 1
      PROVE  back[i - p] = list[i - 1]
  <2>1. i - p \in 1 .. Len(list) - p + 1 /\ p + (i - p) - 1 = i - 1
    BY <1>1
  <2>2. QED
    BY <1>3, <2>1
<1>8. Inserted(S, list, p, t, mid \o back)
  BY <1>1, <1>4, <1>6, <1>7 DEF Inserted
<1>9. QED
  BY <1>5, <1>8

\* Where the positions of a new list come from decides on its order.
LEMMA InsertOrder ==
    ASSUME NEW S, NEW seq \in Seq(S), NEW p \in 1..Len(seq) + 1, NEW e \in S
    PROVE  /\ InsertAt(seq, p, e) \in Seq(S)
           /\ Range(InsertAt(seq, p, e)) = Range(seq) \cup {e}
           /\ \A x, y : Before(InsertAt(seq, p, e), x, y) =>
                 \/ Before(seq, x, y)
                 \/ x = e /\ y \in Range(seq)
                 \/ y = e /\ x \in Range(seq)
<1>0. Inserted(S, seq, p, e, InsertAt(seq, p, e))
  BY InsertAtFacts
<1> DEFINE w == InsertAt(seq, p, e)
           N == Len(seq)
           at(i) == IF i < p THEN i ELSE i - 1
<1>1. /\ w \in Seq(S) /\ Len(w) = N + 1 /\ N \in Nat /\ p \in 1..N + 1
      /\ DOMAIN w = 1..Len(w) /\ DOMAIN seq = 1..N
      /\ \A i \in 1..N + 1 : w[i] = IF i < p THEN seq[i] ELSE IF i = p THEN e ELSE seq[i - 1]
  <2>1. /\ w \in Seq(S) /\ Len(w) = N + 1
        /\ \A i \in 1..N + 1 : w[i] = IF i < p THEN seq[i] ELSE IF i = p THEN e ELSE seq[i - 1]
    BY <1>0 DEF Inserted
  <2> HIDE DEF w
  <2>2. QED
    BY <2>1
<1> HIDE DEF w, N
<1>2. \A i \in 1..Len(w) : i = p \/ (i # p /\ at(i) \in 1..N /\ w[i] = seq[at(i)])
  BY <1>1
<1>3. \A i, j \in 1..Len(w) : i < j /\ i # p /\ j # p => at(i) < at(j)
  BY <1>1
<1>4. w[p] = e /\ p \in 1..Len(w)
  BY <1>1
<1> HIDE DEF at
<1>5. \A i \in 1..N : seq[i] \in Range(seq)
  BY <1>1 DEF Range
<1>6. Range(w) = Range(seq) \cup {e}
  <2>1. ASSUME NEW y \in Range(w) PROVE y \in Range(seq) \cup {e}
    <3>1. PICK i \in 1..Len(w) : w[i] = y
      BY <1>1 DEF Range
    <3>2. QED
      BY <1>2, <1>4, <1>5, <3>1
  <2>2. ASSUME NEW y \in Range(seq) PROVE y \in Range(w)
    <3>1. PICK i \in 1..N : seq[i] = y
      BY <1>1 DEF Range
    <3>2. CASE i < p
      <4>1. i \in 1..Len(w) /\ w[i] = seq[i]
        BY <1>1, <3>2
      <4>2. QED
        BY <1>1, <3>1, <4>1 DEF Range
    <3>3. CASE ~(i < p)
      <4>1. i + 1 \in 1..Len(w) /\ ~(i + 1 < p) /\ i + 1 # p /\ (i + 1) - 1 = i
        BY <1>1, <3>3
      <4>2. w[i + 1] = seq[i]
        BY <1>1, <4>1
      <4>3. QED
        BY <1>1, <3>1, <4>1, <4>2 DEF Range
    <3>4. QED
      BY <3>2, <3>3
  <2>3. e \in Range(w)
    BY <1>1, <1>4 DEF Range
  <2>4. QED
    BY <2>1, <2>2, <2>3
<1>7. ASSUME NEW x, NEW y, Before(w, x, y)
      PROVE  \/ Before(seq, x, y)
             \/ x = e /\ y \in Range(seq)
             \/ y = e /\ x \in Range(seq)
  <2>1. PICK i, j \in 1..Len(w) : i < j /\ w[i] = x /\ w[j] = y
    BY <1>7 DEF Before
  <2>2. CASE i = p
    <3>1. j # p
      BY <2>1, <2>2
    <3>2. QED
      BY <1>2, <1>4, <1>5, <2>1, <2>2, <3>1
  <2>3. CASE j = p
    <3>1. i # p
      BY <2>1, <2>3
    <3>2. QED
      BY <1>2, <1>4, <1>5, <2>1, <2>3, <3>1
  <2>4. CASE i # p /\ j # p
    <3>1. at(i) \in 1..N /\ at(j) \in 1..N /\ seq[at(i)] = x /\ seq[at(j)] = y /\ at(i) < at(j)
      BY <1>2, <1>3, <2>1, <2>4
    <3>2. QED
      BY <3>1 DEF Before, N
  <2>5. QED
    BY <2>2, <2>3, <2>4
<1>8. QED
  BY <1>1, <1>6, <1>7 DEF w

LEMMA FrontOrder ==
    ASSUME NEW S, NEW seq \in Seq(S), NEW e \in S
    PROVE  /\ <<e>> \o seq \in Seq(S)
           /\ Range(<<e>> \o seq) = Range(seq) \cup {e}
           /\ \A x, y : Before(<<e>> \o seq, x, y) =>
                 Before(seq, x, y) \/ (x = e /\ y \in Range(seq))
<1> DEFINE w == <<e>> \o seq
<1>1. /\ w \in Seq(S) /\ Len(w) = Len(seq) + 1 /\ Len(seq) \in Nat /\ w[1] = e
      /\ DOMAIN w = 1..Len(w) /\ DOMAIN seq = 1..Len(seq)
      /\ \A i \in 2..Len(seq) + 1 : w[i] = seq[i - 1]
  <2>1. <<e>> \in Seq(S) /\ Len(<<e>>) = 1 /\ <<e>>[1] = e
    OBVIOUS
  <2>2. QED
    BY <2>1
<1> HIDE DEF w
<1>2. \A i \in 1..Len(w) : i = 1 \/ (i \in 2..Len(seq) + 1 /\ i - 1 \in 1..Len(seq))
  BY <1>1
<1>3. \A i \in 1..Len(seq) : i + 1 \in 1..Len(w) /\ i + 1 \in 2..Len(seq) + 1 /\ i + 1 - 1 = i
  BY <1>1
<1>4. Range(w) = Range(seq) \cup {e}
  <2>1. ASSUME NEW y \in Range(w) PROVE y \in Range(seq) \cup {e}
    <3>1. PICK i \in 1..Len(w) : w[i] = y
      BY <1>1 DEF Range
    <3>2. QED
      BY <1>1, <1>2, <3>1 DEF Range
  <2>2. ASSUME NEW y \in Range(seq) PROVE y \in Range(w)
    <3>1. PICK i \in 1..Len(seq) : seq[i] = y
      BY <1>1 DEF Range
    <3>2. w[i + 1] = y
      BY <1>1, <1>3, <3>1
    <3>3. QED
      BY <1>1, <1>3, <3>2 DEF Range
  <2>3. e \in Range(w)
    BY <1>1 DEF Range
  <2>4. QED
    BY <2>1, <2>2, <2>3
<1>5. ASSUME NEW x, NEW y, Before(w, x, y)
      PROVE  Before(seq, x, y) \/ (x = e /\ y \in Range(seq))
  <2>1. PICK i, j \in 1..Len(w) : i < j /\ w[i] = x /\ w[j] = y
    BY <1>5 DEF Before
  <2>2. j \in 2..Len(seq) + 1 /\ j - 1 \in 1..Len(seq) /\ seq[j - 1] = y
    BY <1>1, <2>1
  <2>3. CASE i = 1
    BY <1>1, <2>1, <2>2, <2>3 DEF Range
  <2>4. CASE i # 1
    <3>1. i - 1 \in 1..Len(seq) /\ seq[i - 1] = x /\ i - 1 < j - 1
      BY <1>1, <2>1, <2>4
    <3>2. QED
      BY <2>2, <3>1 DEF Before
  <2>5. QED
    BY <2>3, <2>4
<1>6. QED
  BY <1>1, <1>4, <1>5 DEF w

LEMMA TailOrder ==
    ASSUME NEW S, NEW seq \in Seq(S), seq # <<>>
    PROVE  /\ Tail(seq) \in Seq(S)
           /\ Head(seq) \in Range(seq)
           /\ Range(seq) = Range(Tail(seq)) \cup {Head(seq)}
           /\ \A x, y : Before(Tail(seq), x, y) => Before(seq, x, y)
           /\ \A x \in Range(Tail(seq)) : Before(seq, Head(seq), x)
<1> DEFINE w == Tail(seq)
<1>1. /\ w \in Seq(S) /\ Len(w) = Len(seq) - 1 /\ Len(seq) \in Nat /\ Len(seq) > 0
      /\ DOMAIN w = 1..Len(w) /\ DOMAIN seq = 1..Len(seq) /\ Head(seq) = seq[1]
      /\ \A i \in 1..Len(w) : w[i] = seq[i + 1]
  OBVIOUS
<1> HIDE DEF w
<1>2. \A i \in 1..Len(w) : i + 1 \in 1..Len(seq) /\ 1 < i + 1
  BY <1>1
<1>3. 1 \in 1..Len(seq)
  BY <1>1
<1>4. ASSUME NEW x, NEW y, Before(w, x, y) PROVE Before(seq, x, y)
  <2>1. PICK i, j \in 1..Len(w) : i < j /\ w[i] = x /\ w[j] = y
    BY <1>4 DEF Before
  <2>2. i + 1 < j + 1 /\ seq[i + 1] = x /\ seq[j + 1] = y
    BY <1>1, <2>1
  <2>3. QED
    BY <1>2, <2>2 DEF Before
<1>5. ASSUME NEW x \in Range(w) PROVE Before(seq, Head(seq), x) /\ x \in Range(seq)
  <2>1. PICK i \in 1..Len(w) : w[i] = x
    BY <1>1 DEF Range
  <2>2. i + 1 \in 1..Len(seq) /\ 1 < i + 1 /\ seq[i + 1] = x
    BY <1>1, <1>2, <2>1
  <2>3. QED
    BY <1>1, <1>3, <2>2 DEF Before, Range
<1>6. ASSUME NEW x \in Range(seq), x # Head(seq) PROVE x \in Range(w)
  <2>1. PICK i \in 1..Len(seq) : seq[i] = x
    BY <1>1 DEF Range
  <2>2. i # 1
    BY <1>1, <1>6, <2>1
  <2>3. i - 1 \in 1..Len(w) /\ w[i - 1] = x
    BY <1>1, <2>1, <2>2
  <2>4. QED
    BY <1>1, <2>3 DEF Range
<1>7. Head(seq) \in Range(seq)
  BY <1>1, <1>3 DEF Range
<1>8. Range(seq) = Range(w) \cup {Head(seq)}
  BY <1>5, <1>6, <1>7
<1>9. QED
  BY <1>1, <1>4, <1>5, <1>7, <1>8 DEF w

-----------------------------------------------------------------------------
(* What a movie leads to *)

\* Reached is the least set with some movies that next leads not out of.
LEMMA ReachedFacts ==
    ASSUME NEW tops \in SUBSET Movies, NEW next \in [Movies -> SUBSET Movies]
    PROVE  /\ tops \subseteq Reached(tops, next)
           /\ Reached(tops, next) \subseteq Movies
           /\ \A p \in Reached(tops, next) : next[p] \subseteq Reached(tops, next)
           /\ \A X \in SUBSET Movies :
                 tops \subseteq X /\ (\A p \in X : next[p] \subseteq X)
                   => Reached(tops, next) \subseteq X
           /\ \A n \in Reached(tops, next) :
                 n \in tops \/ \E p \in Reached(tops, next) : n \in next[p]
<1> DEFINE closed == {X \in SUBSET Movies : tops \subseteq X /\ \A p \in X : next[p] \subseteq X}
           R == {n \in Movies : \A X \in closed : n \in X}
<1>1. R = Reached(tops, next)
  BY DEF Reached
<1>2. \A X \in closed : tops \subseteq X /\ \A p \in X : next[p] \subseteq X
  OBVIOUS
<1>3. tops \subseteq R /\ R \subseteq Movies
  BY <1>2
<1>4. ASSUME NEW p \in R PROVE next[p] \subseteq R
  <2>1. next[p] \subseteq Movies
    BY <1>3, <1>4
  <2>2. ASSUME NEW X \in closed PROVE next[p] \subseteq X
    <3>1. p \in X
      BY <1>4
    <3>2. QED
      BY <1>2, <3>1
  <2>3. QED
    BY <2>1, <2>2
<1>5. ASSUME NEW X \in SUBSET Movies, tops \subseteq X, \A p \in X : next[p] \subseteq X
      PROVE  R \subseteq X
  <2>1. X \in closed
    BY <1>5
  <2>2. QED
    BY <2>1
<1>6. \A n \in R : n \in tops \/ \E p \in R : n \in next[p]
  <2> DEFINE X == {n \in R : n \in tops \/ \E p \in R : n \in next[p]}
  <2> HIDE DEF R
  <2>1. X \in SUBSET Movies /\ tops \subseteq X /\ \A p \in X : next[p] \subseteq X
    BY <1>3, <1>4
  <2>2. R \subseteq X
    <3> HIDE DEF X
    <3>1. QED
      BY <1>5, <2>1
  <2>3. QED
    BY <2>2
<1> HIDE DEF R
<1>7. QED
  BY <1>1, <1>3, <1>4, <1>5, <1>6

-----------------------------------------------------------------------------
(* Stages *)

States == {"unborn", "running", "removed", "destroyed"}

Stages ==
    [state    : [Movies -> States],
     parent   : [Movies -> Movies \cup {None}],
     list     : [Movies -> Seq(Movies)],
     roots    : Seq(Movies),
     actors   : Seq(Movies),
     queue    : [Queues -> Seq(Movies \X Events)],
     unload   : SUBSET Movies,
     timeline : SUBSET Movies]

LEMMA StageFields ==
    ASSUME NEW s \in Stages
    PROVE  /\ s.state \in [Movies -> States]
           /\ s.parent \in [Movies -> Movies \cup {None}]
           /\ s.list \in [Movies -> Seq(Movies)]
           /\ s.roots \in Seq(Movies)
           /\ s.actors \in Seq(Movies)
           /\ s.queue \in [Queues -> Seq(Movies \X Events)]
           /\ s.unload \in SUBSET Movies
           /\ s.timeline \in SUBSET Movies
BY DEF Stages

\* Changing a field of a stage changes no other.
LEMMA StateChange ==
    ASSUME NEW s \in Stages, NEW x \in [Movies -> States]
    PROVE  LET t == [s EXCEPT !.state = x]
           IN  /\ t \in Stages /\ t.state = x /\ t.parent = s.parent /\ t.list = s.list
               /\ t.roots = s.roots /\ t.actors = s.actors /\ t.queue = s.queue
               /\ t.unload = s.unload /\ t.timeline = s.timeline
BY DEF Stages

LEMMA ParentChange ==
    ASSUME NEW s \in Stages, NEW x \in [Movies -> Movies \cup {None}]
    PROVE  LET t == [s EXCEPT !.parent = x]
           IN  /\ t \in Stages /\ t.state = s.state /\ t.parent = x /\ t.list = s.list
               /\ t.roots = s.roots /\ t.actors = s.actors /\ t.queue = s.queue
               /\ t.unload = s.unload /\ t.timeline = s.timeline
BY DEF Stages

LEMMA ListChange ==
    ASSUME NEW s \in Stages, NEW x \in [Movies -> Seq(Movies)]
    PROVE  LET t == [s EXCEPT !.list = x]
           IN  /\ t \in Stages /\ t.state = s.state /\ t.parent = s.parent /\ t.list = x
               /\ t.roots = s.roots /\ t.actors = s.actors /\ t.queue = s.queue
               /\ t.unload = s.unload /\ t.timeline = s.timeline
BY DEF Stages

LEMMA RootsChange ==
    ASSUME NEW s \in Stages, NEW x \in Seq(Movies)
    PROVE  LET t == [s EXCEPT !.roots = x]
           IN  /\ t \in Stages /\ t.state = s.state /\ t.parent = s.parent /\ t.list = s.list
               /\ t.roots = x /\ t.actors = s.actors /\ t.queue = s.queue
               /\ t.unload = s.unload /\ t.timeline = s.timeline
BY DEF Stages

LEMMA ActorsChange ==
    ASSUME NEW s \in Stages, NEW x \in Seq(Movies)
    PROVE  LET t == [s EXCEPT !.actors = x]
           IN  /\ t \in Stages /\ t.state = s.state /\ t.parent = s.parent /\ t.list = s.list
               /\ t.roots = s.roots /\ t.actors = x /\ t.queue = s.queue
               /\ t.unload = s.unload /\ t.timeline = s.timeline
BY DEF Stages

LEMMA QueueChange ==
    ASSUME NEW s \in Stages, NEW x \in [Queues -> Seq(Movies \X Events)]
    PROVE  LET t == [s EXCEPT !.queue = x]
           IN  /\ t \in Stages /\ t.state = s.state /\ t.parent = s.parent /\ t.list = s.list
               /\ t.roots = s.roots /\ t.actors = s.actors /\ t.queue = x
               /\ t.unload = s.unload /\ t.timeline = s.timeline
BY DEF Stages

LEMMA UnloadChange ==
    ASSUME NEW s \in Stages, NEW x \in SUBSET Movies
    PROVE  LET t == [s EXCEPT !.unload = x]
           IN  /\ t \in Stages /\ t.state = s.state /\ t.parent = s.parent /\ t.list = s.list
               /\ t.roots = s.roots /\ t.actors = s.actors /\ t.queue = s.queue
               /\ t.unload = x /\ t.timeline = s.timeline
BY DEF Stages

LEMMA TimelineChange ==
    ASSUME NEW s \in Stages, NEW x \in SUBSET Movies
    PROVE  LET t == [s EXCEPT !.timeline = x]
           IN  /\ t \in Stages /\ t.state = s.state /\ t.parent = s.parent /\ t.list = s.list
               /\ t.roots = s.roots /\ t.actors = s.actors /\ t.queue = s.queue
               /\ t.unload = s.unload /\ t.timeline = x
BY DEF Stages

\* Several fields are changed one after the other.
LEMMA ChangesInTurn ==
    ASSUME NEW s, NEW a, NEW b, NEW c, NEW d, NEW e
    PROVE  [s EXCEPT !.state = a, !.list = b, !.roots = c, !.actors = d, !.queue = e]
             = [[[[[s EXCEPT !.state = a] EXCEPT !.list = b] EXCEPT !.roots = c]
                   EXCEPT !.actors = d] EXCEPT !.queue = e]
OBVIOUS

-----------------------------------------------------------------------------
(* The invariant of the stage *)

Lives(s, m) == s.state[m] \in {"running", "removed"}

\* The actors are the movies that live, each once.
ActorsLive(s) ==
    /\ Range(s.actors) = {m \in Movies : Lives(s, m)}
    /\ \A m \in Movies : ~Before(s.actors, m, m)

\* No movie comes behind its parent, which was there before it.
ParentsLast(s) ==
    \A m \in Movies : s.parent[m] # None =>
        /\ s.parent[m] # m
        /\ ~Before(s.actors, s.parent[m], m)
        /\ s.state[s.parent[m]] # "unborn"

\* Who is in a list lives, and so does whose list it is.
ListedOnce(s) ==
    \A p \in Movies : \A c \in Range(s.list[p]) :
        s.parent[c] = p /\ Lives(s, p) /\ Lives(s, c) /\ ~Before(s.list[p], c, c)
RootsOnce(s) ==
    \A c \in Range(s.roots) : s.parent[c] = None /\ Lives(s, c) /\ ~Before(s.roots, c, c)

\* Running movies are listed, but for some that a step is about to remove.
RunningListed(s, loose) ==
    \A m \in Movies \ loose :
        s.state[m] = "running" => m \in Range(Siblings(s, s.parent[m]))

\* Who has actions lives, and every action is in the queue for its importance.
QueuesLive(s) ==
    \A i \in Queues : \A a \in Range(s.queue[i]) : Lives(s, a[1]) /\ Importance(a[2]) = i

Twice(s, m, event) == Before(s.queue[2], <<m, event>>, <<m, event>>)
Has(s, m, event) == <<m, event>> \in Range(s.queue[2])

\* A handler runs once for an iteration, and once for a removal.
QueuedOnce(s) ==
    \A m \in Movies :
        /\ ~Twice(s, m, "unload") /\ ~Twice(s, m, "enter")
        /\ s.state[m] = "running" => ~Has(s, m, "unload")

Good(s, loose) ==
    /\ s \in Stages
    /\ ActorsLive(s) /\ ParentsLast(s) /\ ListedOnce(s) /\ RootsOnce(s)
    /\ RunningListed(s, loose) /\ QueuesLive(s) /\ QueuedOnce(s)

\* What a step may do to movies other than those in X.
Removes(s, t, X) ==
    /\ t.parent = s.parent /\ t.unload = s.unload
    /\ \A m \in Movies \ X : t.state[m] = s.state[m]
    /\ \A m \in Movies : t.state[m] = "unborn" <=> s.state[m] = "unborn"
    /\ \A m \in Movies : t.state[m] = "running" => s.state[m] = "running"
    /\ \A p \in Movies : Range(t.list[p]) \subseteq Range(s.list[p])
    /\ \A x, y : Before(t.actors, x, y) => Before(s.actors, x, y)
    /\ \A i \in Queues : \A a \in Range(t.queue[i]) :
          a \in Range(s.queue[i]) \/ a[2] = "unload"

LEMMA RemovesInTurn ==
    ASSUME NEW s, NEW t, NEW u, NEW X, Removes(s, t, X), Removes(t, u, X)
    PROVE  Removes(s, u, X)
<1>1. /\ u.parent = s.parent /\ u.unload = s.unload
      /\ \A m \in Movies \ X : u.state[m] = s.state[m]
      /\ \A m \in Movies : u.state[m] = "unborn" <=> s.state[m] = "unborn"
      /\ \A m \in Movies : u.state[m] = "running" => s.state[m] = "running"
  BY DEF Removes
<1>2. \A p \in Movies : Range(u.list[p]) \subseteq Range(s.list[p])
  BY Zenon DEF Removes
<1>3. \A x, y : Before(u.actors, x, y) => Before(s.actors, x, y)
  BY DEF Removes
<1>4. \A i \in Queues : \A a \in Range(u.queue[i]) :
         a \in Range(s.queue[i]) \/ a[2] = "unload"
  BY DEF Removes
<1>5. QED
  BY <1>1, <1>2, <1>3, <1>4 DEF Removes

LEMMA RemovesMore ==
    ASSUME NEW s, NEW t, NEW X, NEW Y, X \subseteq Y, Removes(s, t, X)
    PROVE  Removes(s, t, Y)
BY DEF Removes

-----------------------------------------------------------------------------
(* What destroying visits *)

LEMMA SubtreeFacts ==
    ASSUME NEW s \in Stages, NEW tops \in SUBSET Movies
    PROVE  /\ tops \subseteq Subtrees(s, tops)
           /\ Subtrees(s, tops) \subseteq Movies
           /\ \A p \in Subtrees(s, tops) : Range(s.list[p]) \subseteq Subtrees(s, tops)
           /\ \A X \in SUBSET Movies :
                 tops \subseteq X /\ (\A p \in X : Range(s.list[p]) \subseteq X)
                   => Subtrees(s, tops) \subseteq X
           /\ \A n \in Subtrees(s, tops) :
                 n \in tops \/ \E p \in Subtrees(s, tops) : n \in Range(s.list[p])
<1> DEFINE next == [p \in Movies |-> Range(s.list[p])]
           R == Reached(tops, next)
<1>1. next \in [Movies -> SUBSET Movies]
  BY StageFields, RangeFacts
<1>2. \A p \in Movies : next[p] = Range(s.list[p])
  OBVIOUS
<1>3. R = Subtrees(s, tops)
  BY DEF Subtrees
<1> HIDE DEF next
<1>4. /\ tops \subseteq R
      /\ R \subseteq Movies
      /\ \A p \in R : next[p] \subseteq R
      /\ \A X \in SUBSET Movies : tops \subseteq X /\ (\A p \in X : next[p] \subseteq X) => R \subseteq X
      /\ \A n \in R : n \in tops \/ \E p \in R : n \in next[p]
  BY <1>1, ReachedFacts, Zenon
<1> HIDE DEF R
<1>5. \A p \in R : Range(s.list[p]) \subseteq R
  BY <1>2, <1>4
<1>6. ASSUME NEW X \in SUBSET Movies, tops \subseteq X, \A p \in X : Range(s.list[p]) \subseteq X
      PROVE  R \subseteq X
  <2>1. \A p \in X : next[p] \subseteq X
    BY <1>2, <1>6
  <2>2. QED
    BY <1>4, <1>6, <2>1
<1>7. \A n \in R : n \in tops \/ \E p \in R : n \in Range(s.list[p])
  BY <1>2, <1>4
<1>8. QED
  BY <1>3, <1>4, <1>5, <1>6, <1>7

\* Everything below a movie that lives lives, and comes before it.
LEMMA BelowFacts ==
    ASSUME NEW s \in Stages, ActorsLive(s), ParentsLast(s), ListedOnce(s), NEW m \in Movies,
           Lives(s, m)
    PROVE  \A n \in Subtrees(s, {m}) : n = m \/ Before(s.actors, n, m)
<1> DEFINE X == {n \in Movies : n = m \/ Before(s.actors, n, m)}
<1>1. s.actors \in Seq(Movies) /\ \A p \in Movies : s.list[p] \in Seq(Movies)
  BY StageFields
<1>2. ASSUME NEW p \in X, NEW c \in Range(s.list[p]) PROVE c \in X
  <2>1. p \in Movies /\ c \in Movies
    BY <1>1, <1>2, RangeFacts
  <2>2. s.parent[c] = p /\ Lives(s, p) /\ Lives(s, c)
    BY <1>2, <2>1 DEF ListedOnce
  <2>3. c # p /\ ~Before(s.actors, p, c)
    <3>1. s.parent[c] # None
      BY <2>1, <2>2, MovieAssumption
    <3>2. QED
      BY <2>1, <2>2, <3>1 DEF ParentsLast
  <2>4. c \in Range(s.actors) /\ p \in Range(s.actors)
    BY <2>1, <2>2 DEF ActorsLive
  <2>5. Before(s.actors, c, p)
    BY <1>1, <2>3, <2>4, BeforeOrAfter
  <2>6. CASE p = m
    BY <2>1, <2>5, <2>6
  <2>7. CASE Before(s.actors, p, m)
    <3>1. Before(s.actors, c, m)
      BY <1>1, <2>1, <2>5, <2>7, BeforeIsTransitive DEF ActorsLive
    <3>2. QED
      BY <2>1, <3>1
  <2>8. QED
    BY <2>6, <2>7
<1>3. X \in SUBSET Movies /\ {m} \subseteq X /\ \A p \in X : Range(s.list[p]) \subseteq X
  BY <1>2
<1>4. Subtrees(s, {m}) \subseteq X
  <2> HIDE DEF X
  <2>1. {m} \in SUBSET Movies
    OBVIOUS
  <2>2. QED
    BY <1>3, <2>1, SubtreeFacts
<1>5. QED
  BY <1>4

LEMMA BelowLives ==
    ASSUME NEW s \in Stages, ListedOnce(s), NEW tops \in SUBSET Movies, \A m \in tops : Lives(s, m)
    PROVE  \A n \in Subtrees(s, tops) : Lives(s, n)
<1>1. ASSUME NEW n \in Subtrees(s, tops) PROVE Lives(s, n)
  <2>1. n \in tops \/ \E p \in Subtrees(s, tops) : n \in Range(s.list[p])
    BY SubtreeFacts
  <2>2. ASSUME NEW p \in Subtrees(s, tops), n \in Range(s.list[p]) PROVE Lives(s, n)
    <3>1. p \in Movies
      BY SubtreeFacts
    <3>2. QED
      BY <2>2, <3>1 DEF ListedOnce
  <2>3. QED
    BY <2>1, <2>2
<1>2. QED
  BY <1>1

-----------------------------------------------------------------------------
(* Destroying and removing *)

\* Destroy, a field at a time.
LEMMA DestroyFields ==
    ASSUME NEW s \in Stages, NEW tops \in SUBSET Movies
    PROVE  LET t == Destroy(s, tops)
               gone == Subtrees(s, tops)
           IN  /\ t \in Stages
               /\ t.state = [n \in Movies |-> IF n \in gone THEN "destroyed" ELSE s.state[n]]
               /\ t.list = [n \in Movies |-> IF n \in gone THEN <<>>
                                             ELSE Without(s.list[n], tops)]
               /\ t.roots = Without(s.roots, tops)
               /\ t.actors = Without(s.actors, gone)
               /\ t.queue = [i \in Queues |-> Without(s.queue[i], gone \X Events)]
               /\ t.parent = s.parent /\ t.unload = s.unload /\ t.timeline = s.timeline
<1> DEFINE gone == Subtrees(s, tops)
           a == [n \in Movies |-> IF n \in gone THEN "destroyed" ELSE s.state[n]]
           b == [n \in Movies |-> IF n \in gone THEN <<>> ELSE Without(s.list[n], tops)]
           c == Without(s.roots, tops)
           d == Without(s.actors, gone)
           e == [i \in Queues |-> Without(s.queue[i], gone \X Events)]
<1>1. a \in [Movies -> States]
  BY StageFields DEF States
<1>2. b \in [Movies -> Seq(Movies)]
  <2>1. ASSUME NEW n \in Movies
        PROVE  (IF n \in gone THEN <<>> ELSE Without(s.list[n], tops)) \in Seq(Movies)
    <3>1. <<>> \in Seq(Movies)
      OBVIOUS
    <3>2. s.list[n] \in Seq(Movies)
      BY StageFields
    <3>3. Without(s.list[n], tops) \in Seq(Movies)
      BY <3>2, WithoutOrder
    <3>4. QED
      BY <3>1, <3>3, Zenon
  <2>2. QED
    BY <2>1
<1>3. c \in Seq(Movies)
  <2>1. s.roots \in Seq(Movies)
    BY StageFields
  <2>2. QED
    BY <2>1, WithoutOrder
<1>4. d \in Seq(Movies)
  <2>1. s.actors \in Seq(Movies)
    BY StageFields
  <2>2. QED
    BY <2>1, WithoutOrder
<1>5. e \in [Queues -> Seq(Movies \X Events)]
  <2>1. ASSUME NEW i \in Queues
        PROVE  Without(s.queue[i], gone \X Events) \in Seq(Movies \X Events)
    <3>1. s.queue[i] \in Seq(Movies \X Events)
      BY StageFields
    <3>2. QED
      BY <3>1, WithoutOrder
  <2>2. QED
    BY <2>1
<1>6. Destroy(s, tops) = [s EXCEPT !.state = a, !.list = b, !.roots = c, !.actors = d, !.queue = e]
  BY DEF Destroy
<1> HIDE DEF a, b, c, d, e
<1> DEFINE s1 == [s EXCEPT !.state = a]
           s2 == [s1 EXCEPT !.list = b]
           s3 == [s2 EXCEPT !.roots = c]
           s4 == [s3 EXCEPT !.actors = d]
           s5 == [s4 EXCEPT !.queue = e]
<1>7. Destroy(s, tops) = s5
  BY <1>6, ChangesInTurn
<1>8. /\ s1 \in Stages /\ s1.state = a /\ s1.parent = s.parent /\ s1.list = s.list
      /\ s1.roots = s.roots /\ s1.actors = s.actors /\ s1.queue = s.queue
      /\ s1.unload = s.unload /\ s1.timeline = s.timeline
  BY <1>1, StateChange
<1> HIDE DEF s1
<1>9. /\ s2 \in Stages /\ s2.state = a /\ s2.parent = s.parent /\ s2.list = b
      /\ s2.roots = s.roots /\ s2.actors = s.actors /\ s2.queue = s.queue
      /\ s2.unload = s.unload /\ s2.timeline = s.timeline
  BY <1>2, <1>8, ListChange
<1> HIDE DEF s2
<1>10. /\ s3 \in Stages /\ s3.state = a /\ s3.parent = s.parent /\ s3.list = b
       /\ s3.roots = c /\ s3.actors = s.actors /\ s3.queue = s.queue
       /\ s3.unload = s.unload /\ s3.timeline = s.timeline
  BY <1>3, <1>9, RootsChange
<1> HIDE DEF s3
<1>11. /\ s4 \in Stages /\ s4.state = a /\ s4.parent = s.parent /\ s4.list = b
       /\ s4.roots = c /\ s4.actors = d /\ s4.queue = s.queue
       /\ s4.unload = s.unload /\ s4.timeline = s.timeline
  BY <1>4, <1>10, ActorsChange
<1> HIDE DEF s4
<1>12. /\ s5 \in Stages /\ s5.state = a /\ s5.parent = s.parent /\ s5.list = b
       /\ s5.roots = c /\ s5.actors = d /\ s5.queue = e
       /\ s5.unload = s.unload /\ s5.timeline = s.timeline
  BY <1>5, <1>11, QueueChange
<1> HIDE DEF s5
<1>13. QED
  BY <1>7, <1>12 DEF a, b, c, d, e

\* Destroying movies that live keeps the invariant and touches nobody who is
\* not below them.
LEMMA DestroyFacts ==
    ASSUME NEW s, NEW loose, Good(s, loose), NEW tops \in SUBSET Movies,
           \A m \in tops : Lives(s, m)
    PROVE  /\ Good(Destroy(s, tops), loose)
           /\ Removes(s, Destroy(s, tops), Subtrees(s, tops))
           /\ \A n \in Subtrees(s, tops) : Destroy(s, tops).state[n] = "destroyed"
<1> DEFINE t == Destroy(s, tops)
           gone == Subtrees(s, tops)
<1>1. s \in Stages
  BY DEF Good
<1>2. /\ s.state \in [Movies -> States] /\ s.parent \in [Movies -> Movies \cup {None}]
      /\ s.list \in [Movies -> Seq(Movies)] /\ s.roots \in Seq(Movies)
      /\ s.actors \in Seq(Movies) /\ s.queue \in [Queues -> Seq(Movies \X Events)]
  BY <1>1, StageFields
<1>3. /\ t \in Stages
      /\ \A n \in Movies : t.state[n] = IF n \in gone THEN "destroyed" ELSE s.state[n]
      /\ \A n \in Movies : t.list[n] = IF n \in gone THEN <<>> ELSE Without(s.list[n], tops)
      /\ t.roots = Without(s.roots, tops)
      /\ t.actors = Without(s.actors, gone)
      /\ \A i \in Queues : t.queue[i] = Without(s.queue[i], gone \X Events)
      /\ t.parent = s.parent /\ t.unload = s.unload /\ t.timeline = s.timeline
  <2>1. /\ t \in Stages
        /\ t.state = [n \in Movies |-> IF n \in gone THEN "destroyed" ELSE s.state[n]]
        /\ t.list = [n \in Movies |-> IF n \in gone THEN <<>> ELSE Without(s.list[n], tops)]
        /\ t.roots = Without(s.roots, tops)
        /\ t.actors = Without(s.actors, gone)
        /\ t.queue = [i \in Queues |-> Without(s.queue[i], gone \X Events)]
        /\ t.parent = s.parent /\ t.unload = s.unload /\ t.timeline = s.timeline
    BY <1>1, DestroyFields, Zenon
  <2> HIDE DEF t, gone
  <2>2. \A n \in Movies : t.state[n] = IF n \in gone THEN "destroyed" ELSE s.state[n]
    BY <2>1
  <2>3. \A n \in Movies : t.list[n] = IF n \in gone THEN <<>> ELSE Without(s.list[n], tops)
    BY <2>1
  <2>4. \A i \in Queues : t.queue[i] = Without(s.queue[i], gone \X Events)
    BY <2>1
  <2>5. QED
    BY <2>1, <2>2, <2>3, <2>4
<1>4. /\ tops \subseteq gone /\ gone \subseteq Movies
      /\ \A p \in gone : Range(s.list[p]) \subseteq gone
      /\ \A n \in gone : n \in tops \/ \E p \in gone : n \in Range(s.list[p])
  BY <1>1, SubtreeFacts
<1>5. \A n \in gone : Lives(s, n)
  BY <1>1, BelowLives DEF Good
<1> HIDE DEF t, gone
<1>6. /\ \A p \in Movies \ gone :
            /\ Range(t.list[p]) = Range(s.list[p]) \ tops
            /\ \A x, y : Before(t.list[p], x, y) => Before(s.list[p], x, y)
      /\ \A p \in gone : Range(t.list[p]) = {}
  <2>1. ASSUME NEW p \in Movies \ gone
        PROVE  /\ Range(t.list[p]) = Range(s.list[p]) \ tops
               /\ \A x, y : Before(t.list[p], x, y) => Before(s.list[p], x, y)
    <3>1. t.list[p] = Without(s.list[p], tops) /\ s.list[p] \in Seq(Movies)
      BY <1>2, <1>3, <2>1
    <3>2. QED
      BY <3>1, WithoutOrder
  <2>2. ASSUME NEW p \in gone PROVE Range(t.list[p]) = {}
    <3>1. t.list[p] = <<>>
      BY <1>3, <1>4
    <3>2. QED
      BY <3>1 DEF Range
  <2>3. QED
    BY <2>1, <2>2
<1>7. /\ Range(t.roots) = Range(s.roots) \ tops
      /\ \A x, y : Before(t.roots, x, y) => Before(s.roots, x, y)
  BY <1>2, <1>3, WithoutOrder
<1>8. /\ Range(t.actors) = Range(s.actors) \ gone
      /\ \A x, y : Before(t.actors, x, y) => Before(s.actors, x, y)
  BY <1>2, <1>3, WithoutOrder
<1>9. \A i \in Queues :
         /\ Range(t.queue[i]) = Range(s.queue[i]) \ (gone \X Events)
         /\ \A x, y : Before(t.queue[i], x, y) => Before(s.queue[i], x, y)
  <2>1. ASSUME NEW i \in Queues
        PROVE  /\ Range(t.queue[i]) = Range(s.queue[i]) \ (gone \X Events)
               /\ \A x, y : Before(t.queue[i], x, y) => Before(s.queue[i], x, y)
    <3>1. t.queue[i] = Without(s.queue[i], gone \X Events) /\ s.queue[i] \in Seq(Movies \X Events)
      BY <1>2, <1>3
    <3>2. QED
      BY <3>1, WithoutOrder
  <2>2. QED
    BY <2>1
<1>10. Removes(s, t, gone)
  <2>1. \A m \in Movies \ gone : t.state[m] = s.state[m]
    BY <1>3
  <2>2. \A m \in gone : s.state[m] \notin {"unborn", "destroyed"} /\ t.state[m] = "destroyed"
    BY <1>3, <1>4, <1>5 DEF Lives
  <2>3. /\ \A m \in Movies : t.state[m] = "unborn" <=> s.state[m] = "unborn"
        /\ \A m \in Movies : t.state[m] = "running" => s.state[m] = "running"
    BY <2>1, <2>2
  <2>4. \A p \in Movies : Range(t.list[p]) \subseteq Range(s.list[p])
    BY <1>6
  <2>5. \A i \in Queues : \A q \in Range(t.queue[i]) : q \in Range(s.queue[i])
    BY <1>9
  <2>6. QED
    BY <1>3, <1>8, <2>1, <2>3, <2>4, <2>5 DEF Removes
<1>11. ActorsLive(t)
  <2>1. Range(t.actors) = {m \in Movies : Lives(t, m)}
    <3>1. \A m \in Movies : Lives(t, m) <=> Lives(s, m) /\ m \notin gone
      BY <1>3 DEF Lives
    <3>2. Range(s.actors) = {m \in Movies : Lives(s, m)}
      BY DEF Good, ActorsLive
    <3>3. QED
      BY <1>8, <3>1, <3>2
  <2>2. QED
    BY <1>8, <2>1 DEF Good, ActorsLive
<1>12. ParentsLast(t)
  <2>1. SUFFICES ASSUME NEW m \in Movies, t.parent[m] # None
                 PROVE  /\ t.parent[m] # m
                        /\ ~Before(t.actors, t.parent[m], m)
                        /\ t.state[t.parent[m]] # "unborn"
    BY DEF ParentsLast
  <2>2. s.parent[m] # None /\ s.parent[m] \in Movies
    BY <1>2, <1>3, <2>1
  <2>3. /\ s.parent[m] # m
        /\ ~Before(s.actors, s.parent[m], m)
        /\ s.state[s.parent[m]] # "unborn"
    BY <2>2 DEF Good, ParentsLast
  <2>4. QED
    BY <1>3, <1>8, <2>2, <2>3
<1>13. ListedOnce(t)
  <2>1. SUFFICES ASSUME NEW p \in Movies, NEW c \in Range(t.list[p])
                 PROVE  t.parent[c] = p /\ Lives(t, p) /\ Lives(t, c) /\ ~Before(t.list[p], c, c)
    BY DEF ListedOnce
  <2>2. p \notin gone
    BY <1>6, <2>1
  <2>3. c \in Range(s.list[p]) /\ c \notin tops /\ c \in Movies
    BY <1>2, <1>6, <2>1, <2>2, RangeFacts
  <2>4. s.parent[c] = p /\ Lives(s, p) /\ Lives(s, c) /\ ~Before(s.list[p], c, c)
    BY <2>3 DEF Good, ListedOnce
  <2>5. c \notin gone
    <3>1. ASSUME NEW q \in gone, c \in Range(s.list[q]) PROVE FALSE
      <4>1. s.parent[c] = q
        BY <1>4, <3>1 DEF Good, ListedOnce
      <4>2. QED
        BY <2>2, <2>4, <4>1
    <3>2. QED
      BY <1>4, <2>3, <3>1
  <2>6. QED
    BY <1>3, <1>6, <2>2, <2>3, <2>4, <2>5 DEF Lives
<1>14. RootsOnce(t)
  <2>1. SUFFICES ASSUME NEW c \in Range(t.roots)
                 PROVE  t.parent[c] = None /\ Lives(t, c) /\ ~Before(t.roots, c, c)
    BY DEF RootsOnce
  <2>2. c \in Range(s.roots) /\ c \notin tops /\ c \in Movies
    BY <1>2, <1>7, <2>1, RangeFacts
  <2>3. s.parent[c] = None /\ Lives(s, c) /\ ~Before(s.roots, c, c)
    BY <2>2 DEF Good, RootsOnce
  <2>4. c \notin gone
    <3>1. ASSUME NEW q \in gone, c \in Range(s.list[q]) PROVE FALSE
      <4>1. s.parent[c] = q /\ q \in Movies
        BY <1>4, <3>1 DEF Good, ListedOnce
      <4>2. QED
        BY <2>3, <4>1, MovieAssumption
    <3>2. QED
      BY <1>4, <2>2, <3>1
  <2>5. QED
    BY <1>3, <1>7, <2>2, <2>3, <2>4 DEF Lives
<1>15. RunningListed(t, loose)
  <2>1. SUFFICES ASSUME NEW m \in Movies \ loose, t.state[m] = "running"
                 PROVE  m \in Range(Siblings(t, t.parent[m]))
    BY DEF RunningListed
  <2>2. m \notin gone /\ s.state[m] = "running" /\ m \notin tops
    BY <1>3, <1>4, <2>1
  <2>3. m \in Range(Siblings(s, s.parent[m]))
    BY <2>2 DEF Good, RunningListed
  <2>4. CASE s.parent[m] = None
    BY <1>3, <1>7, <2>2, <2>3, <2>4 DEF Siblings
  <2>5. CASE s.parent[m] # None
    <3>1. s.parent[m] \in Movies /\ m \in Range(s.list[s.parent[m]])
      BY <1>2, <2>3, <2>5 DEF Siblings
    <3>2. s.parent[m] \notin gone
      BY <1>4, <2>2, <3>1
    <3>3. m \in Range(t.list[s.parent[m]])
      BY <1>6, <2>2, <3>1, <3>2
    <3>4. QED
      BY <1>3, <2>5, <3>3 DEF Siblings
  <2>6. QED
    BY <2>4, <2>5
<1>16. QueuesLive(t)
  <2>1. SUFFICES ASSUME NEW i \in Queues, NEW a \in Range(t.queue[i])
                 PROVE  Lives(t, a[1]) /\ Importance(a[2]) = i
    BY DEF QueuesLive
  <2>2. a \in Range(s.queue[i]) /\ a \notin gone \X Events
    BY <1>9
  <2>3. a \in Movies \X Events
    BY <1>2, <2>2, RangeFacts
  <2>4. a[1] \in Movies \ gone
    BY <2>2, <2>3
  <2>5. Lives(s, a[1]) /\ Importance(a[2]) = i
    BY <2>2 DEF Good, QueuesLive
  <2>6. QED
    BY <1>3, <2>4, <2>5 DEF Lives
<1>17. QueuedOnce(t)
  <2>1. 2 \in Queues
    BY DEF Queues
  <2>2. ASSUME NEW m \in Movies
        PROVE  /\ ~Twice(t, m, "unload") /\ ~Twice(t, m, "enter")
               /\ t.state[m] = "running" => ~Has(t, m, "unload")
    <3>1. /\ ~Twice(s, m, "unload") /\ ~Twice(s, m, "enter")
          /\ s.state[m] = "running" => ~Has(s, m, "unload")
      BY DEF Good, QueuedOnce
    <3>2. ~Twice(t, m, "unload") /\ ~Twice(t, m, "enter")
      BY <1>9, <2>1, <3>1 DEF Twice
    <3>3. t.state[m] = "running" => ~Has(t, m, "unload")
      BY <1>3, <1>9, <2>1, <3>1 DEF Has
    <3>4. QED
      BY <3>2, <3>3
  <2>3. QED
    BY <2>2 DEF QueuedOnce
<1>18. Good(t, loose)
  BY <1>3, <1>11, <1>12, <1>13, <1>14, <1>15, <1>16, <1>17 DEF Good
<1>19. \A n \in gone : t.state[n] = "destroyed"
  BY <1>3, <1>4
<1>20. QED
  BY <1>10, <1>18, <1>19 DEF t, gone

\* Queueing an action of a movie that lives.
LEMMA QueueFacts ==
    ASSUME NEW s, NEW loose, Good(s, loose), NEW m \in Movies, Lives(s, m), NEW e \in Events,
           e = "unload" => s.state[m] # "running",
           e \in {"unload", "enter"} => ~Has(s, m, e)
    PROVE  LET t == QueueScript(s, m, e)
           IN  /\ Good(t, loose)
               /\ t.state = s.state /\ t.parent = s.parent /\ t.list = s.list
               /\ t.roots = s.roots /\ t.actors = s.actors
               /\ t.unload = s.unload /\ t.timeline = s.timeline
               /\ \A i \in Queues : Range(t.queue[i]) =
                     Range(s.queue[i]) \cup (IF i = Importance(e) THEN {<<m, e>>} ELSE {})
<1> DEFINE t == QueueScript(s, m, e)
           k == Importance(e)
           q == [s.queue EXCEPT ![k] = Append(s.queue[k], <<m, e>>)]
<1>1. s \in Stages /\ s.queue \in [Queues -> Seq(Movies \X Events)]
  BY StageFields DEF Good
<1>2. k \in Queues /\ (e \in {"unload", "enter"} => k = 2)
  BY DEF Importance, Queues, Events
<1>3. <<m, e>> \in Movies \X Events
  OBVIOUS
<1> HIDE DEF k
<1>4. /\ s.queue[k] \in Seq(Movies \X Events)
      /\ Append(s.queue[k], <<m, e>>) \in Seq(Movies \X Events)
      /\ Range(Append(s.queue[k], <<m, e>>)) = Range(s.queue[k]) \cup {<<m, e>>}
      /\ \A x, y : Before(Append(s.queue[k], <<m, e>>), x, y) =>
            Before(s.queue[k], x, y) \/ (y = <<m, e>> /\ x \in Range(s.queue[k]))
  <2>1. s.queue[k] \in Seq(Movies \X Events)
    BY <1>1, <1>2
  <2>2. QED
    BY <1>3, <2>1, AppendOrder
<1>5. q \in [Queues -> Seq(Movies \X Events)]
  BY <1>1, <1>2, <1>4
<1>6. t = [s EXCEPT !.queue = q]
  BY DEF QueueScript, k
<1>7. /\ \A i \in Queues : q[i] = IF i = k THEN Append(s.queue[k], <<m, e>>) ELSE s.queue[i]
  BY <1>1, <1>2
<1> HIDE DEF q, t
<1>8. /\ t \in Stages /\ t.state = s.state /\ t.parent = s.parent /\ t.list = s.list
      /\ t.roots = s.roots /\ t.actors = s.actors /\ t.queue = q
      /\ t.unload = s.unload /\ t.timeline = s.timeline
  BY <1>1, <1>5, <1>6, QueueChange
<1>9. \A i \in Queues : Range(t.queue[i]) =
         Range(s.queue[i]) \cup (IF i = k THEN {<<m, e>>} ELSE {})
  BY <1>4, <1>7, <1>8
<1>10. QueuesLive(t)
  <2>1. SUFFICES ASSUME NEW i \in Queues, NEW a \in Range(t.queue[i])
                 PROVE  Lives(t, a[1]) /\ Importance(a[2]) = i
    BY DEF QueuesLive
  <2>2. CASE a \in Range(s.queue[i])
    BY <1>8, <2>2 DEF Good, QueuesLive, Lives
  <2>3. CASE i = k /\ a = <<m, e>>
    BY <1>8, <2>3 DEF Lives, k
  <2>4. QED
    BY <1>9, <2>1, <2>2, <2>3
<1>11. QueuedOnce(t)
  <2>1. ASSUME NEW n \in Movies, NEW f \in {"unload", "enter"}
        PROVE  ~Twice(t, n, f)
    <3>1. ~Twice(s, n, f) /\ 2 \in Queues
      BY DEF Good, QueuedOnce, Queues
    <3>2. CASE k # 2
      BY <1>7, <1>8, <3>1, <3>2 DEF Twice
    <3>3. CASE k = 2
      <4>1. ASSUME Twice(t, n, f) PROVE FALSE
        <5>1. Before(Append(s.queue[k], <<m, e>>), <<n, f>>, <<n, f>>)
          BY <1>7, <1>8, <3>1, <3>3, <4>1 DEF Twice
        <5>2. <<n, f>> = <<m, e>> /\ <<n, f>> \in Range(s.queue[k])
          BY <1>4, <3>1, <3>3, <5>1 DEF Twice
        <5>3. n = m /\ e = f
          BY <5>2
        <5>4. QED
          BY <3>3, <5>2, <5>3 DEF Has
      <4>2. QED
        BY <4>1
    <3>4. QED
      BY <3>2, <3>3
  <2>2. ASSUME NEW n \in Movies, t.state[n] = "running" PROVE ~Has(t, n, "unload")
    <3>1. ~Has(s, n, "unload") /\ 2 \in Queues
      BY <1>8, <2>2 DEF Good, QueuedOnce, Queues
    <3>2. <<n, "unload">> # <<m, e>>
      BY <1>8, <2>2
    <3>3. QED
      BY <1>9, <3>1, <3>2 DEF Has
  <2>3. QED
    BY <2>1, <2>2 DEF QueuedOnce
<1>12. Good(t, loose)
  <2>1. ActorsLive(t)
    BY <1>8 DEF Good, ActorsLive, Lives
  <2>2. ParentsLast(t)
    BY <1>8 DEF Good, ParentsLast
  <2>3. ListedOnce(t) /\ RootsOnce(t)
    BY <1>8 DEF Good, ListedOnce, RootsOnce, Lives
  <2>4. RunningListed(t, loose)
    BY <1>8 DEF Good, RunningListed, Siblings
  <2>5. QED
    BY <1>8, <1>10, <1>11, <2>1, <2>2, <2>3, <2>4 DEF Good
<1>13. QED
  BY <1>8, <1>9, <1>12 DEF t, k

\* A movie that runs is marked as removed.
LEMMA MarkFacts ==
    ASSUME NEW s, NEW loose, Good(s, loose), NEW m \in Movies, s.state[m] = "running"
    PROVE  LET t == [s EXCEPT !.state[m] = "removed"]
           IN  /\ Good(t, loose)
               /\ t.state = [s.state EXCEPT ![m] = "removed"] /\ t.parent = s.parent
               /\ t.list = s.list /\ t.roots = s.roots /\ t.actors = s.actors
               /\ t.queue = s.queue /\ t.unload = s.unload /\ t.timeline = s.timeline
               /\ ~Has(t, m, "unload")
<1> DEFINE t == [s EXCEPT !.state[m] = "removed"]
           a == [s.state EXCEPT ![m] = "removed"]
<1>1. s \in Stages /\ s.state \in [Movies -> States]
  BY StageFields DEF Good
<1>2. a \in [Movies -> States] /\ \A n \in Movies : a[n] = IF n = m THEN "removed" ELSE s.state[n]
  BY <1>1 DEF States
<1>3. t = [s EXCEPT !.state = a]
  OBVIOUS
<1> HIDE DEF a, t
<1>4. /\ t \in Stages /\ t.state = a /\ t.parent = s.parent /\ t.list = s.list
      /\ t.roots = s.roots /\ t.actors = s.actors /\ t.queue = s.queue
      /\ t.unload = s.unload /\ t.timeline = s.timeline
  BY <1>1, <1>2, <1>3, StateChange
<1>5. /\ \A n \in Movies : Lives(t, n) <=> Lives(s, n)
      /\ \A n \in Movies : t.state[n] = "running" => s.state[n] = "running"
      /\ \A n \in Movies : t.state[n] = "unborn" <=> s.state[n] = "unborn"
  BY <1>2, <1>4 DEF Lives
<1>6. s.list \in [Movies -> Seq(Movies)] /\ s.roots \in Seq(Movies)
      /\ s.parent \in [Movies -> Movies \cup {None}] /\ s.queue \in [Queues -> Seq(Movies \X Events)]
  BY <1>1, StageFields
<1>7. ActorsLive(t)
  BY <1>4, <1>5 DEF Good, ActorsLive
<1>8. ParentsLast(t)
  <2>1. SUFFICES ASSUME NEW n \in Movies, t.parent[n] # None
                 PROVE  /\ t.parent[n] # n
                        /\ ~Before(t.actors, t.parent[n], n)
                        /\ t.state[t.parent[n]] # "unborn"
    BY DEF ParentsLast
  <2>2. s.parent[n] # None /\ s.parent[n] \in Movies
    BY <1>4, <1>6, <2>1
  <2>3. s.parent[n] # n /\ ~Before(s.actors, s.parent[n], n) /\ s.state[s.parent[n]] # "unborn"
    BY <2>1, <2>2 DEF Good, ParentsLast
  <2>4. QED
    BY <1>4, <1>5, <2>2, <2>3
<1>9. ListedOnce(t)
  <2>1. SUFFICES ASSUME NEW p \in Movies, NEW c \in Range(t.list[p])
                 PROVE  t.parent[c] = p /\ Lives(t, p) /\ Lives(t, c) /\ ~Before(t.list[p], c, c)
    BY DEF ListedOnce
  <2>2. c \in Range(s.list[p]) /\ c \in Movies
    BY <1>4, <1>6, <2>1, RangeFacts
  <2>3. QED
    BY <1>4, <1>5, <2>2 DEF Good, ListedOnce
<1>10. RootsOnce(t)
  <2>1. SUFFICES ASSUME NEW c \in Range(t.roots)
                 PROVE  t.parent[c] = None /\ Lives(t, c) /\ ~Before(t.roots, c, c)
    BY DEF RootsOnce
  <2>2. c \in Range(s.roots) /\ c \in Movies
    BY <1>4, <1>6, <2>1, RangeFacts
  <2>3. QED
    BY <1>4, <1>5, <2>2 DEF Good, RootsOnce
<1>11. RunningListed(t, loose)
  BY <1>4, <1>5 DEF Good, RunningListed, Siblings
<1>12. QueuesLive(t)
  <2>1. SUFFICES ASSUME NEW i \in Queues, NEW b \in Range(t.queue[i])
                 PROVE  Lives(t, b[1]) /\ Importance(b[2]) = i
    BY DEF QueuesLive
  <2>2. b \in Range(s.queue[i]) /\ b \in Movies \X Events
    BY <1>4, <1>6, <2>1, RangeFacts
  <2>3. b[1] \in Movies
    BY <2>2
  <2>4. QED
    BY <1>5, <2>2, <2>3 DEF Good, QueuesLive
<1>13. QueuedOnce(t) /\ ~Has(t, m, "unload")
  BY <1>4, <1>5 DEF Good, QueuedOnce, Twice, Has
<1>14. Good(t, loose)
  BY <1>4, <1>7, <1>8, <1>9, <1>10, <1>11, <1>12, <1>13 DEF Good
<1>15. QED
  BY <1>4, <1>13, <1>14 DEF t, a

LEMMA SubtreesShrink ==
    ASSUME NEW s \in Stages, NEW t \in Stages, NEW tops \in SUBSET Movies,
           \A p \in Movies : Range(t.list[p]) \subseteq Range(s.list[p])
    PROVE  Subtrees(t, tops) \subseteq Subtrees(s, tops)
<1> DEFINE X == Subtrees(s, tops)
<1>1. X \in SUBSET Movies /\ tops \subseteq X /\ \A p \in X : Range(s.list[p]) \subseteq X
  BY SubtreeFacts
<1>2. \A Y \in SUBSET Movies :
         tops \subseteq Y /\ (\A p \in Y : Range(t.list[p]) \subseteq Y) => Subtrees(t, tops) \subseteq Y
  BY SubtreeFacts
<1> HIDE DEF X
<1>3. \A p \in X : Range(t.list[p]) \subseteq X
  BY <1>1
<1>4. Subtrees(t, tops) \subseteq X
  BY <1>1, <1>2, <1>3
<1>5. QED
  BY <1>4 DEF X

LEMMA SubtreesInside ==
    ASSUME NEW s \in Stages, NEW m \in Movies, NEW n \in Subtrees(s, {m})
    PROVE  n \in Movies /\ Subtrees(s, {n}) \subseteq Subtrees(s, {m})
<1> DEFINE X == Subtrees(s, {m})
<1>1. X \in SUBSET Movies /\ n \in X /\ \A p \in X : Range(s.list[p]) \subseteq X
  BY SubtreeFacts
<1>2. n \in Movies
  BY <1>1
<1>3. \A Y \in SUBSET Movies :
         {n} \subseteq Y /\ (\A p \in Y : Range(s.list[p]) \subseteq Y) => Subtrees(s, {n}) \subseteq Y
  BY <1>2, SubtreeFacts
<1> HIDE DEF X
<1>4. Subtrees(s, {n}) \subseteq X
  BY <1>1, <1>3
<1>5. QED
  BY <1>2, <1>4 DEF X

\* The next movie to visit is one below that runs, and nothing that runs is
\* in its list.
LEMMA NextVisitFacts ==
    ASSUME NEW s, NEW loose, Good(s, loose), NEW m \in Movies, s.state[m] = "running"
    PROVE  /\ NextVisit(s, m) \in Subtrees(s, {m})
           /\ s.state[NextVisit(s, m)] = "running"
           /\ Remaining(s, NextVisit(s, m)) = {}
<1> DEFINE first == [p \in Movies |-> IF Remaining(s, p) = {} THEN {}
                                      ELSE {s.list[p][Min(Remaining(s, p))]}]
           R == Reached({m}, first)
           X == Subtrees(s, {m})
<1>1. s \in Stages /\ s.list \in [Movies -> Seq(Movies)] /\ s.actors \in Seq(Movies)
      /\ s.parent \in [Movies -> Movies \cup {None}]
  BY StageFields DEF Good
<1>2. NextVisit(s, m) = CHOOSE n \in R : Remaining(s, n) = {}
  BY DEF NextVisit
<1>3. ASSUME NEW p \in Movies, Remaining(s, p) # {}
      PROVE  /\ first[p] # {}
             /\ \A c \in first[p] : c \in Range(s.list[p]) /\ c \in Movies /\ s.state[c] = "running"
  <2> DEFINE k == Min(Remaining(s, p))
  <2>1. s.list[p] \in Seq(Movies)
    BY <1>1
  <2>2. Remaining(s, p) \in SUBSET Nat
    BY <2>1 DEF Remaining
  <2>3. k \in Remaining(s, p)
    BY <1>3, <2>2, MinFacts
  <2>4. first[p] = {s.list[p][k]}
    BY <1>3
  <2> HIDE DEF k, first
  <2>5. k \in 1..Len(s.list[p]) /\ s.state[s.list[p][k]] = "running"
    BY <2>1, <2>3 DEF Remaining
  <2>6. s.list[p][k] \in Range(s.list[p]) /\ s.list[p][k] \in Movies
    BY <2>1, <2>5, RangeFacts
  <2>7. QED
    BY <2>4, <2>5, <2>6
<1>4. ASSUME NEW p \in Movies
      PROVE  /\ first[p] \subseteq Range(s.list[p]) /\ first[p] \subseteq Movies
             /\ \A c \in first[p] : s.state[c] = "running"
  <2>1. CASE Remaining(s, p) = {}
    BY <2>1
  <2>2. CASE Remaining(s, p) # {}
    BY <1>3, <2>2
  <2>3. QED
    BY <2>1, <2>2
<1>5. first = [p \in Movies |-> first[p]]
  OBVIOUS
<1> HIDE DEF first
<1>6. first \in [Movies -> SUBSET Movies]
  BY <1>4, <1>5
<1>7. /\ m \in R /\ R \subseteq Movies
      /\ \A p \in R : first[p] \subseteq R
      /\ \A Y \in SUBSET Movies : {m} \subseteq Y /\ (\A p \in Y : first[p] \subseteq Y) => R \subseteq Y
  <2>1. {m} \in SUBSET Movies
    OBVIOUS
  <2>2. /\ {m} \subseteq R /\ R \subseteq Movies
        /\ \A p \in R : first[p] \subseteq R
        /\ \A Y \in SUBSET Movies :
              {m} \subseteq Y /\ (\A p \in Y : first[p] \subseteq Y) => R \subseteq Y
    BY <1>6, <2>1, ReachedFacts, Zenon
  <2>3. QED
    BY <2>2
<1>8. m \in X /\ X \in SUBSET Movies /\ \A p \in X : Range(s.list[p]) \subseteq X
  BY <1>1, SubtreeFacts
<1> HIDE DEF R, X
<1>9. R \subseteq X
  <2>1. \A p \in X : first[p] \subseteq X
    BY <1>4, <1>8
  <2>2. QED
    BY <1>7, <1>8, <2>1
<1>10. \A n \in R : s.state[n] = "running"
  <2> DEFINE Y == {n \in Movies : s.state[n] = "running"}
  <2>1. Y \in SUBSET Movies /\ {m} \subseteq Y /\ \A p \in Y : first[p] \subseteq Y
    BY <1>4
  <2>2. R \subseteq Y
    BY <1>7, <2>1
  <2>3. QED
    BY <2>2
<1>11. \E n \in R : Remaining(s, n) = {}
  <2>1. ActorsLive(s) /\ ParentsLast(s) /\ ListedOnce(s)
    BY DEF Good
  <2>2. \A n \in R : n \in Range(s.actors) /\ n \in Movies /\ ~Before(s.actors, n, n)
    BY <1>7, <1>10, <2>1 DEF ActorsLive, Lives
  <2>3. PICK x \in R \cap Range(s.actors) : \A z \in R : ~Before(s.actors, z, x)
    BY <1>1, <1>7, <2>2, FirstOf
  <2>4. CASE Remaining(s, x) = {}
    BY <2>3, <2>4
  <2>5. CASE Remaining(s, x) # {}
    <3>1. PICK c \in first[x] : TRUE
      BY <1>3, <2>2, <2>3, <2>5
    <3>2. c \in R /\ c \in Range(s.list[x]) /\ x \in Movies /\ c \in Movies
      BY <1>4, <1>7, <2>3, <3>1
    <3>3. s.parent[c] = x
      BY <2>1, <3>2 DEF ListedOnce
    <3>4. c # x /\ ~Before(s.actors, x, c)
      BY <2>1, <3>2, <3>3, MovieAssumption DEF ParentsLast
    <3>5. Before(s.actors, c, x)
      BY <1>1, <2>2, <2>3, <3>2, <3>4, BeforeOrAfter
    <3>6. QED
      BY <2>3, <3>2, <3>5
  <2>6. QED
    BY <2>4, <2>5
<1>12. NextVisit(s, m) \in R /\ Remaining(s, NextVisit(s, m)) = {}
  BY <1>2, <1>11
<1>13. QED
  BY <1>9, <1>10, <1>12 DEF X

LEMMA RemovesNothing ==
    ASSUME NEW s, NEW t, NEW X, t.state = s.state, t.parent = s.parent, t.list = s.list,
           t.actors = s.actors, t.queue = s.queue, t.unload = s.unload
    PROVE  Removes(s, t, X)
BY DEF Removes

\* The invariant does not speak of handlers and of the timeline.
LEMMA GoodElsewhere ==
    ASSUME NEW s, NEW loose, Good(s, loose), NEW t \in Stages,
           t.state = s.state, t.parent = s.parent, t.list = s.list, t.roots = s.roots,
           t.actors = s.actors, t.queue = s.queue
    PROVE  Good(t, loose)
<1>1. /\ \A m : Lives(t, m) <=> Lives(s, m)
      /\ \A p : Siblings(t, p) = Siblings(s, p)
  BY DEF Lives, Siblings
<1>2. ActorsLive(t) /\ ParentsLast(t)
  BY DEF Good, ActorsLive, ParentsLast, Lives
<1>3. ListedOnce(t) /\ RootsOnce(t)
  BY <1>1 DEF Good, ListedOnce, RootsOnce
<1>4. RunningListed(t, loose)
  BY <1>1 DEF Good, RunningListed
<1>5. QueuesLive(t) /\ QueuedOnce(t)
  BY <1>1 DEF Good, QueuesLive, QueuedOnce, Twice, Has
<1>6. QED
  BY <1>2, <1>3, <1>4, <1>5 DEF Good

Visits == [stage : Stages, destroy : BOOLEAN]

\* One visit of a movie that runs.
LEMMA RemoveOneFacts ==
    ASSUME NEW v \in Visits, NEW loose, Good(v.stage, loose), NEW m \in Movies,
           v.stage.state[m] = "running"
    PROVE  LET w == RemoveOne(m, v)
           IN  /\ w \in Visits
               /\ Good(w.stage, loose)
               /\ Removes(v.stage, w.stage, Subtrees(v.stage, {m}))
               /\ w.stage.state[m] # "running"
<1> DEFINE w == RemoveOne(m, v)
           s == v.stage
           t == [s EXCEPT !.state[m] = "removed"]
           X == Subtrees(s, {m})
<1>1. s \in Stages /\ s.state \in [Movies -> States] /\ v.destroy \in BOOLEAN
  BY StageFields DEF Visits
<1>2. /\ Good(t, loose)
      /\ t.state = [s.state EXCEPT ![m] = "removed"] /\ t.parent = s.parent
      /\ t.list = s.list /\ t.roots = s.roots /\ t.actors = s.actors
      /\ t.queue = s.queue /\ t.unload = s.unload /\ t.timeline = s.timeline
      /\ ~Has(t, m, "unload")
  BY MarkFacts
<1>3. w = CASE m \in t.unload -> [stage |-> QueueScript(t, m, "unload"), destroy |-> FALSE]
            [] m \notin t.unload /\ v.destroy -> [v EXCEPT !.stage = Destroy(t, {m})]
            [] OTHER -> [v EXCEPT !.stage = t]
  BY DEF RemoveOne
<1> HIDE DEF t, w
<1>4. t \in Stages /\ m \in X /\ Subtrees(t, {m}) = X
  BY <1>1, <1>2, SubtreeFacts DEF Good, Subtrees
<1>5. t.state[m] = "removed" /\ Lives(t, m)
  BY <1>1, <1>2 DEF Lives
<1>6. Removes(s, t, X)
  <2>1. \A n \in Movies \ X : t.state[n] = s.state[n]
    BY <1>1, <1>2, <1>4
  <2>2. /\ \A n \in Movies : t.state[n] = "unborn" <=> s.state[n] = "unborn"
        /\ \A n \in Movies : t.state[n] = "running" => s.state[n] = "running"
    BY <1>1, <1>2
  <2>3. QED
    BY <1>2, <2>1, <2>2 DEF Removes
<1> HIDE DEF X, s
<1>7. CASE m \in t.unload
  <2> DEFINE u == QueueScript(t, m, "unload")
  <2>1. /\ Good(u, loose)
        /\ u.state = t.state /\ u.parent = t.parent /\ u.list = t.list
        /\ u.roots = t.roots /\ u.actors = t.actors
        /\ u.unload = t.unload /\ u.timeline = t.timeline
        /\ \A i \in Queues : Range(u.queue[i]) =
              Range(t.queue[i]) \cup (IF i = Importance("unload") THEN {<<m, "unload">>} ELSE {})
    <3> DEFINE e == "unload"
    <3>1. /\ e \in Events
          /\ e = "unload" => t.state[m] # "running"
          /\ e \in {"unload", "enter"} => ~Has(t, m, e)
      BY <1>2, <1>5 DEF Events
    <3>2. Good(t, loose) /\ Lives(t, m)
      BY <1>2, <1>5
    <3> HIDE DEF e
    <3>3. /\ Good(QueueScript(t, m, e), loose)
          /\ QueueScript(t, m, e).state = t.state /\ QueueScript(t, m, e).parent = t.parent
          /\ QueueScript(t, m, e).list = t.list /\ QueueScript(t, m, e).roots = t.roots
          /\ QueueScript(t, m, e).actors = t.actors
          /\ QueueScript(t, m, e).unload = t.unload /\ QueueScript(t, m, e).timeline = t.timeline
          /\ \A i \in Queues : Range(QueueScript(t, m, e).queue[i]) =
                Range(t.queue[i]) \cup (IF i = Importance(e) THEN {<<m, e>>} ELSE {})
      BY <3>1, <3>2, QueueFacts
    <3>4. QED
      BY <3>3 DEF e
  <2>2. w = [stage |-> u, destroy |-> FALSE]
    BY <1>3, <1>7
  <2> HIDE DEF u
  <2>3. Removes(t, u, X)
    <3>1. ASSUME NEW i \in Queues, NEW a \in Range(u.queue[i])
          PROVE  a \in Range(t.queue[i]) \/ a[2] = "unload"
      BY <2>1
    <3>2. QED
      BY <2>1, <3>1 DEF Removes
  <2>4. Removes(s, u, X)
    BY <1>6, <2>3, RemovesInTurn
  <2>5. u \in Stages
    BY <2>1 DEF Good
  <2>6. w \in Visits /\ w.stage = u
    BY <2>2, <2>5 DEF Visits
  <2>7. QED
    BY <1>5, <2>1, <2>4, <2>6 DEF w, s, X
<1>8. CASE m \notin t.unload /\ v.destroy
  <2> DEFINE u == Destroy(t, {m})
  <2>1. /\ Good(u, loose) /\ Removes(t, u, X) /\ \A n \in X : u.state[n] = "destroyed"
    <3>1. {m} \in SUBSET Movies /\ \A n \in {m} : Lives(t, n)
      BY <1>5
    <3>2. QED
      BY <1>2, <1>4, <3>1, DestroyFacts
  <2>2. w = [v EXCEPT !.stage = u]
    BY <1>3, <1>8
  <2> HIDE DEF u
  <2>3. Removes(s, u, X)
    BY <1>6, <2>1, RemovesInTurn
  <2>4. u \in Stages
    BY <2>1 DEF Good
  <2>5. w \in Visits /\ w.stage = u
    BY <2>2, <2>4 DEF Visits
  <2>6. QED
    BY <1>4, <2>1, <2>3, <2>5 DEF w, s, X
<1>9. CASE m \notin t.unload /\ ~v.destroy
  <2>1. w = [v EXCEPT !.stage = t]
    BY <1>3, <1>9
  <2>2. w \in Visits /\ w.stage = t
    BY <1>4, <2>1 DEF Visits
  <2>3. QED
    BY <1>2, <1>5, <1>6, <2>2 DEF w, s, X
<1>10. QED
  BY <1>7, <1>8, <1>9

-----------------------------------------------------------------------------
(* Removing a movie with all that is below it *)

\* What is done in a round of RemoveMovie.
Round(m, last) == IF last.stage.state[m] # "running" THEN last
                  ELSE RemoveOne(NextVisit(last.stage, m), last)

\* The first rounds of RemoveMovie.
Rounds(s, m, g, n) ==
    /\ g = [i \in 0..n |-> g[i]]
    /\ g[0] = [stage |-> s, destroy |-> TRUE]
    /\ \A i \in 1..n : g[i] = Round(m, g[i - 1])

LEMMA RoundsExist ==
    ASSUME NEW s, NEW m, NEW N \in Nat
    PROVE  \E g : Rounds(s, m, g, N)
<1> DEFINE K == {k \in Nat : ~\E g : Rounds(s, m, g, k)}
<1>1. SUFFICES ASSUME K # {} PROVE FALSE
  OBVIOUS
<1>2. PICK k \in K : \A j \in K : k <= j
  BY <1>1, Least
<1>3. k # 0
  <2> DEFINE f == [i \in 0..0 |-> [stage |-> s, destroy |-> TRUE]]
  <2>1. f = [i \in 0..0 |-> f[i]] /\ f[0] = [stage |-> s, destroy |-> TRUE] /\ 1..0 = {}
    OBVIOUS
  <2>2. Rounds(s, m, f, 0)
    BY <2>1 DEF Rounds
  <2>3. QED
    BY <1>2, <2>2
<1>4. k \in Nat /\ k - 1 \in Nat /\ k - 1 \notin K
  BY <1>2, <1>3
<1>5. PICK g : Rounds(s, m, g, k - 1)
  BY <1>4
<1> DEFINE last == Round(m, g[k - 1])
           f == [i \in 0..k |-> IF i = k THEN last ELSE g[i]]
<1>6. Rounds(s, m, f, k)
  <2> HIDE DEF last
  <2>1. f = [i \in 0..k |-> f[i]]
    OBVIOUS
  <2>2. f[0] = [stage |-> s, destroy |-> TRUE]
    <3>1. 0 \in 0..k /\ 0 # k
      BY <1>3, <1>4
    <3>2. f[0] = g[0]
      BY <3>1
    <3>3. QED
      BY <1>5, <3>2 DEF Rounds
  <2>3. ASSUME NEW i \in 1..k PROVE f[i] = Round(m, f[i - 1])
    <3>1. i - 1 \in 0..k - 1 /\ i - 1 # k /\ i \in 0..k /\ i - 1 \in 0..k
      BY <1>4
    <3>2. f[i - 1] = g[i - 1]
      BY <3>1
    <3>3. CASE i = k
      <4>1. f[i] = last
        BY <3>1, <3>3
      <4>2. QED
        BY <3>2, <3>3, <4>1 DEF last
    <3>4. CASE i # k
      <4>1. i \in 1..k - 1
        BY <1>4, <3>4
      <4>2. f[i] = g[i]
        BY <3>1, <3>4
      <4>3. QED
        BY <1>5, <3>2, <4>1, <4>2 DEF Rounds
    <3>5. QED
      BY <3>3, <3>4
  <2>4. QED
    BY <2>1, <2>2, <2>3 DEF Rounds
<1>7. QED
  BY <1>2, <1>6

LEMMA RemoveMovieRounds ==
    ASSUME NEW s, NEW m, s.state[m] = "running", IsFiniteSet(Movies)
    PROVE  \E g : /\ Rounds(s, m, g, Cardinality(Movies))
                  /\ RemoveMovie(s, m) =
                       [g[Cardinality(Movies)].stage EXCEPT !.timeline = @ \ {m}]
<1> DEFINE N == Cardinality(Movies)
           Is(g) == g = [i \in 0..N |->
                           IF i = 0 THEN [stage |-> s, destroy |-> TRUE]
                           ELSE IF g[i - 1].stage.state[m] # "running" THEN g[i - 1]
                                ELSE RemoveOne(NextVisit(g[i - 1].stage, m), g[i - 1])]
<1>1. N \in Nat
  BY FS_CardinalityType
<1>2. PICK g : Rounds(s, m, g, N)
  BY <1>1, RoundsExist
<1>3. Is(g)
  <2> HIDE DEF N
  <2>1. ASSUME NEW i \in 0..N
        PROVE  g[i] = IF i = 0 THEN [stage |-> s, destroy |-> TRUE]
                      ELSE IF g[i - 1].stage.state[m] # "running" THEN g[i - 1]
                           ELSE RemoveOne(NextVisit(g[i - 1].stage, m), g[i - 1])
    <3>1. CASE i = 0
      BY <1>2, <3>1 DEF Rounds
    <3>2. CASE i # 0
      <4>1. i \in 1..N
        BY <1>1, <3>2
      <4>2. g[i] = Round(m, g[i - 1])
        BY <1>2, <4>1 DEF Rounds
      <4>3. QED
        BY <3>2, <4>2 DEF Round
    <3>3. QED
      BY <3>1, <3>2
  <2>2. g = [i \in 0..N |-> g[i]]
    BY <1>2 DEF Rounds
  <2>3. QED
    BY <2>1, <2>2
<1> DEFINE visits == CHOOSE h : Is(h)
<1>4. Is(visits)
  BY <1>3
<1>5. Rounds(s, m, visits, N)
  <2> HIDE DEF visits, N
  <2>1. visits = [i \in 0..N |-> visits[i]]
    BY <1>4
  <2>2. visits[0] = [stage |-> s, destroy |-> TRUE]
    <3>1. 0 \in 0..N
      BY <1>1
    <3>2. QED
      BY <1>4, <3>1
  <2>3. ASSUME NEW i \in 1..N PROVE visits[i] = Round(m, visits[i - 1])
    <3>1. i \in 0..N /\ i # 0
      BY <1>1
    <3>2. visits[i] = IF visits[i - 1].stage.state[m] # "running" THEN visits[i - 1]
                      ELSE RemoveOne(NextVisit(visits[i - 1].stage, m), visits[i - 1])
      BY <1>4, <3>1
    <3>3. QED
      BY <3>2 DEF Round
  <2>4. QED
    BY <2>1, <2>2, <2>3 DEF Rounds
<1>6. RemoveMovie(s, m) = [visits[N].stage EXCEPT !.timeline = @ \ {m}]
  BY DEF RemoveMovie
<1> HIDE DEF visits
<1>7. QED
  BY <1>5, <1>6

\* The rounds of removing a running movie: nothing happens to movies that are not
\* below it.  Every round ends one movie that ran, so that there are enough.
LEMMA RoundsFacts ==
    ASSUME NEW s, NEW loose, Good(s, loose), NEW m \in Movies, s.state[m] = "running",
           IsFiniteSet(Movies), NEW g, Rounds(s, m, g, Cardinality(Movies))
    PROVE  /\ Cardinality(Movies) \in Nat
           /\ \A i \in 0..Cardinality(Movies) :
                 /\ g[i] \in Visits
                 /\ Good(g[i].stage, loose)
                 /\ Removes(s, g[i].stage, Subtrees(s, {m}))
           /\ g[Cardinality(Movies)].stage.state[m] # "running"
<1> DEFINE N == Cardinality(Movies)
           X == Subtrees(s, {m})
           Left(t) == {n \in Movies : t.state[n] = "running"}
<1>1. N \in Nat
  BY FS_CardinalityType
<1>2. /\ s \in Stages
      /\ g[0] = [stage |-> s, destroy |-> TRUE]
      /\ \A i \in 1..N : g[i] = Round(m, g[i - 1])
  BY DEF Good, Rounds
<1> HIDE DEF N, X
<1> DEFINE Fits(i) == /\ g[i] \in Visits
                      /\ Good(g[i].stage, loose)
                      /\ Removes(s, g[i].stage, X)
                      /\ \/ g[i].stage.state[m] # "running"
                         \/ Cardinality(Left(g[i].stage)) <= N - i
<1>3. Fits(0)
  <2>1. g[0] = [stage |-> s, destroy |-> TRUE]
    BY <1>2
  <2>2. g[0] \in Visits /\ g[0].stage = s
    BY <1>2, <2>1 DEF Visits
  <2>3. Removes(s, s, X)
    BY RemovesNothing
  <2>4. Left(s) \subseteq Movies /\ Cardinality(Left(s)) <= N /\ Cardinality(Left(s)) \in Nat
    <3>1. Left(s) \subseteq Movies
      OBVIOUS
    <3>2. QED
      BY <3>1, FS_Subset, FS_CardinalityType DEF N
  <2>5. Cardinality(Left(g[0].stage)) <= N - 0
    BY <1>1, <2>2, <2>4
  <2>6. QED
    BY <2>2, <2>3, <2>5
<1>4. ASSUME NEW i \in 1..N, Fits(i - 1) PROVE Fits(i)
  <2> DEFINE v == g[i - 1]
             t == v.stage
             n == NextVisit(t, m)
  <2>1. g[i] = Round(m, v)
    BY <1>2
  <2>2. v \in Visits /\ Good(t, loose) /\ Removes(s, t, X) /\ t \in Stages
    BY <1>4 DEF Good
  <2>3. t.state[m] # "running" \/ Cardinality(Left(t)) <= N - (i - 1)
    BY <1>4
  <2> HIDE DEF v
  <2>4. CASE t.state[m] # "running"
    <3>1. g[i] = v
      BY <2>1, <2>4 DEF Round
    <3>2. QED
      BY <2>2, <2>4, <3>1
  <2>5. CASE t.state[m] = "running"
    <3> DEFINE w == RemoveOne(n, v)
    <3>1. g[i] = w
      BY <2>1, <2>5 DEF Round
    <3>2. n \in Subtrees(t, {m}) /\ t.state[n] = "running"
      BY <2>2, <2>5, NextVisitFacts
    <3> HIDE DEF t, n
    <3>3. n \in Movies /\ Subtrees(t, {n}) \subseteq Subtrees(t, {m})
      BY <2>2, <3>2, SubtreesInside
    <3>4. Subtrees(t, {m}) \subseteq X
      <4>1. {m} \in SUBSET Movies /\ \A p \in Movies : Range(t.list[p]) \subseteq Range(s.list[p])
        BY <2>2 DEF Removes
      <4>2. QED
        BY <1>2, <2>2, <4>1, SubtreesShrink DEF X
    <3>5. /\ w \in Visits /\ Good(w.stage, loose)
          /\ Removes(t, w.stage, Subtrees(t, {n}))
          /\ w.stage.state[n] # "running"
      BY <2>2, <3>2, <3>3, RemoveOneFacts DEF t
    <3> HIDE DEF w
    <3>6. Removes(t, w.stage, X)
      BY <3>3, <3>4, <3>5, RemovesMore
    <3>7. Removes(s, w.stage, X)
      BY <2>2, <3>6, RemovesInTurn
    <3>8. Cardinality(Left(w.stage)) <= N - i
      <4>1. Left(w.stage) \subseteq Left(t) \ {n}
        BY <3>5, <3>6 DEF Removes
      <4>2. n \in Left(t) /\ Left(t) \subseteq Movies
        BY <3>2, <3>3
      <4> HIDE DEF Left
      <4>3. IsFiniteSet(Left(t)) /\ Cardinality(Left(t)) \in Nat
        BY <4>2, FS_Subset, FS_CardinalityType
      <4>4. IsFiniteSet(Left(t) \ {n}) /\ Cardinality(Left(t) \ {n}) = Cardinality(Left(t)) - 1
        BY <4>2, <4>3, FS_RemoveElement
      <4>5. Cardinality(Left(w.stage)) <= Cardinality(Left(t) \ {n})
            /\ Cardinality(Left(w.stage)) \in Nat
        BY <4>1, <4>4, FS_Subset, FS_CardinalityType
      <4>6. Cardinality(Left(t)) <= N - (i - 1)
        BY <2>3, <2>5
      <4>7. QED
        BY <1>1, <4>3, <4>4, <4>5, <4>6
    <3>9. QED
      BY <3>1, <3>5, <3>7, <3>8
  <2>6. QED
    BY <2>4, <2>5
<1> HIDE DEF Fits
<1>5. ASSUME NEW i \in 0..N PROVE Fits(i)
  <2> DEFINE K == {k \in 0..N : ~Fits(k)}
  <2>1. SUFFICES ASSUME ~Fits(i) PROVE FALSE
    OBVIOUS
  <2>2. K \in SUBSET Nat /\ K # {}
    BY <1>1, <2>1
  <2>3. PICK k \in K : \A j \in K : k <= j
    BY <2>2, Least
  <2>4. k \in 1..N /\ k - 1 \in 0..N /\ k - 1 \notin K
    BY <1>1, <1>3, <2>3
  <2>5. QED
    BY <1>4, <2>3, <2>4
<1> DEFINE t == g[N].stage
<1>6. Fits(N)
  <2>1. N \in 0..N
    BY <1>1
  <2>2. QED
    BY <1>5, <2>1
<1>7. t.state[m] # "running"
  <2>1. SUFFICES ASSUME t.state[m] = "running" PROVE FALSE
    OBVIOUS
  <2>2. Cardinality(Left(t)) <= 0 /\ Left(t) \subseteq Movies
    BY <1>1, <1>6, <2>1 DEF Fits
  <2>3. m \in Left(t)
    BY <2>1
  <2> HIDE DEF Left
  <2>4. IsFiniteSet(Left(t)) /\ Cardinality(Left(t)) \in Nat
    BY <2>2, FS_Subset, FS_CardinalityType
  <2>5. Cardinality(Left(t)) = 0
    BY <2>2, <2>4
  <2>6. Left(t) = {}
    BY <2>4, <2>5, FS_EmptySet
  <2>7. QED
    BY <2>3, <2>6
<1>8. QED
  BY <1>1, <1>5, <1>7 DEF Fits, N, X

\* Removing a movie: it runs no more, and nothing happens to movies that are not
\* below it.
LEMMA RemoveMovieFacts ==
    ASSUME NEW s, NEW loose, Good(s, loose), NEW m \in Movies, IsFiniteSet(Movies)
    PROVE  /\ Good(RemoveMovie(s, m), loose)
           /\ Removes(s, RemoveMovie(s, m), Subtrees(s, {m}))
           /\ RemoveMovie(s, m).state[m] # "running"
<1> DEFINE N == Cardinality(Movies)
           X == Subtrees(s, {m})
<1>1. CASE s.state[m] # "running"
  <2>1. RemoveMovie(s, m) = s
    BY <1>1 DEF RemoveMovie
  <2>2. Removes(s, s, X)
    BY RemovesNothing
  <2>3. QED
    BY <1>1, <2>1, <2>2
<1>2. CASE s.state[m] = "running"
  <2>1. PICK g : /\ Rounds(s, m, g, N)
                 /\ RemoveMovie(s, m) = [g[N].stage EXCEPT !.timeline = @ \ {m}]
    BY <1>2, RemoveMovieRounds
  <2> DEFINE t == g[N].stage
             u == [t EXCEPT !.timeline = t.timeline \ {m}]
  <2>2. /\ N \in Nat
        /\ \A i \in 0..N : Good(g[i].stage, loose) /\ Removes(s, g[i].stage, X)
        /\ t.state[m] # "running"
    BY <1>2, <2>1, RoundsFacts
  <2> HIDE DEF N, X
  <2>3. t \in Stages /\ Good(t, loose) /\ Removes(s, t, X) /\ t.state[m] # "running"
    <3>1. N \in 0..N
      BY <2>2
    <3>2. QED
      BY <2>2, <3>1 DEF Good
  <2>4. RemoveMovie(s, m) = u
    BY <2>1
  <2> HIDE DEF t
  <2>5. /\ u \in Stages /\ u.state = t.state /\ u.parent = t.parent /\ u.list = t.list
        /\ u.roots = t.roots /\ u.actors = t.actors /\ u.queue = t.queue
        /\ u.unload = t.unload
    <3>1. t.timeline \ {m} \in SUBSET Movies
      BY <2>3, StageFields
    <3>2. QED
      BY <2>3, <3>1, TimelineChange
  <2> HIDE DEF u
  <2>6. Good(u, loose)
    BY <2>3, <2>5, GoodElsewhere
  <2>7. Removes(s, u, X)
    <3>1. Removes(t, u, X)
      BY <2>5, RemovesNothing
    <3>2. QED
      BY <2>3, <3>1, RemovesInTurn
  <2>8. QED
    BY <2>3, <2>4, <2>5, <2>6, <2>7 DEF X
<1>3. QED
  BY <1>1, <1>2

-----------------------------------------------------------------------------
(* Creating, placing and moving movies *)

\* NewMovie, a field at a time.
Creates(s, t, m, parent, depth) ==
    /\ t \in Stages
    /\ t.state = [s.state EXCEPT ![m] = "running"]
    /\ t.parent = [s.parent EXCEPT ![m] = parent]
    /\ t.roots = IF parent = None THEN InsertAt(s.roots, depth, m) ELSE s.roots
    /\ t.list = IF parent = None THEN s.list
                ELSE [s.list EXCEPT ![parent] = InsertAt(s.list[parent], depth, m)]
    /\ t.actors = <<m>> \o s.actors
    /\ t.queue = s.queue /\ t.unload = s.unload

LEMMA NewMovieFields ==
    ASSUME NEW s \in Stages, NEW m \in Movies, NEW parent \in Movies \cup {None},
           NEW depth \in Depths(s, parent), NEW byTimeline \in BOOLEAN
    PROVE  Creates(s, NewMovie(s, m, parent, depth, byTimeline), m, parent, depth)
<1> DEFINE t == NewMovie(s, m, parent, depth, byTimeline)
           a == [s.state EXCEPT ![m] = "running"]
           b == [s.parent EXCEPT ![m] = parent]
           c == <<m>> \o s.actors
           d == IF byTimeline THEN s.timeline \cup {m} ELSE s.timeline
           r == InsertAt(s.roots, depth, m)
           l == [s.list EXCEPT ![parent] = InsertAt(s.list[parent], depth, m)]
           n == [s EXCEPT !.state[m] = "running", !.parent[m] = parent,
                          !.actors = <<m>> \o @,
                          !.timeline = IF byTimeline THEN @ \cup {m} ELSE @]
           s1 == [s EXCEPT !.state = a]
           s2 == [s1 EXCEPT !.parent = b]
           s3 == [s2 EXCEPT !.actors = c]
           s4 == [s3 EXCEPT !.timeline = d]
<1>1. /\ s.state \in [Movies -> States] /\ s.parent \in [Movies -> Movies \cup {None}]
      /\ s.list \in [Movies -> Seq(Movies)] /\ s.roots \in Seq(Movies)
      /\ s.actors \in Seq(Movies) /\ s.timeline \in SUBSET Movies
  BY StageFields
<1>2. /\ a \in [Movies -> States] /\ b \in [Movies -> Movies \cup {None}]
      /\ d \in SUBSET Movies
  BY <1>1 DEF States
<1>3. c \in Seq(Movies)
  BY <1>1, FrontOrder
<1>4. n = s4
  OBVIOUS
<1>5. /\ parent = None => t = [n EXCEPT !.roots = InsertAt(n.roots, depth, m)]
      /\ parent # None =>
            t = [n EXCEPT !.list = [n.list EXCEPT ![parent] = InsertAt(n.list[parent], depth, m)]]
  BY DEF NewMovie
<1> HIDE DEF a, b, c, d, n, t
<1>6. s1 \in Stages /\ s1.state = a /\ s1.parent = s.parent /\ s1.list = s.list
      /\ s1.roots = s.roots /\ s1.actors = s.actors /\ s1.queue = s.queue
      /\ s1.unload = s.unload
  BY <1>2, StateChange
<1> HIDE DEF s1
<1>7. s2 \in Stages /\ s2.state = a /\ s2.parent = b /\ s2.list = s.list
      /\ s2.roots = s.roots /\ s2.actors = s.actors /\ s2.queue = s.queue
      /\ s2.unload = s.unload
  BY <1>2, <1>6, ParentChange
<1> HIDE DEF s2
<1>8. s3 \in Stages /\ s3.state = a /\ s3.parent = b /\ s3.list = s.list
      /\ s3.roots = s.roots /\ s3.actors = c /\ s3.queue = s.queue
      /\ s3.unload = s.unload
  BY <1>3, <1>7, ActorsChange
<1> HIDE DEF s3
<1>9. s4 \in Stages /\ s4.state = a /\ s4.parent = b /\ s4.list = s.list
      /\ s4.roots = s.roots /\ s4.actors = c /\ s4.queue = s.queue
      /\ s4.unload = s.unload
  BY <1>2, <1>8, TimelineChange
<1> HIDE DEF s4
<1>10. CASE parent = None
  <2>1. depth \in 1..Len(s.roots) + 1
    BY <1>10 DEF Depths, Siblings
  <2>2. r \in Seq(Movies)
    BY <1>1, <2>1, InsertOrder
  <2>3. t = [s4 EXCEPT !.roots = r]
    BY <1>4, <1>5, <1>9, <1>10
  <2> HIDE DEF r
  <2>4. /\ t \in Stages /\ t.state = a /\ t.parent = b /\ t.list = s.list
        /\ t.roots = r /\ t.actors = c /\ t.queue = s.queue
        /\ t.unload = s.unload
    BY <1>9, <2>2, <2>3, RootsChange
  <2>5. QED
    BY <1>10, <2>4 DEF t, r, a, b, c, Creates
<1>11. CASE parent # None
  <2>1. parent \in Movies /\ depth \in 1..Len(s.list[parent]) + 1 /\ s.list[parent] \in Seq(Movies)
    BY <1>1, <1>11 DEF Depths, Siblings
  <2>2. InsertAt(s.list[parent], depth, m) \in Seq(Movies)
    BY <2>1, InsertOrder
  <2>3. l \in [Movies -> Seq(Movies)]
    BY <1>1, <2>1, <2>2
  <2>4. t = [s4 EXCEPT !.list = l]
    BY <1>4, <1>5, <1>9, <1>11
  <2> HIDE DEF l
  <2>5. /\ t \in Stages /\ t.state = a /\ t.parent = b /\ t.list = l
        /\ t.roots = s.roots /\ t.actors = c /\ t.queue = s.queue
        /\ t.unload = s.unload
    BY <1>9, <2>3, <2>4, ListChange
  <2>6. QED
    BY <1>11, <2>5 DEF t, l, a, b, c, Creates
<1>12. QED
  BY <1>10, <1>11

\* A new movie, in the list of a movie that lives or among the roots.
LEMMA NewMovieFacts ==
    ASSUME NEW s, NEW loose, Good(s, loose), NEW m \in Movies, s.state[m] = "unborn",
           NEW parent \in Movies \cup {None}, parent # None => Lives(s, parent),
           NEW depth \in Depths(s, parent), NEW byTimeline \in BOOLEAN
    PROVE  LET t == NewMovie(s, m, parent, depth, byTimeline)
           IN  /\ Good(t, loose)
               /\ t.state = [s.state EXCEPT ![m] = "running"]
               /\ t.parent = [s.parent EXCEPT ![m] = parent]
               /\ t.queue = s.queue
               /\ \A x, y : Before(t.actors, x, y) => Before(s.actors, x, y) \/ x = m
<1>1. s \in Stages
  BY DEF Good
<1> DEFINE t == NewMovie(s, m, parent, depth, byTimeline)
<1>2. /\ t \in Stages
      /\ t.state = [s.state EXCEPT ![m] = "running"]
      /\ t.parent = [s.parent EXCEPT ![m] = parent]
      /\ t.roots = IF parent = None THEN InsertAt(s.roots, depth, m) ELSE s.roots
      /\ t.list = IF parent = None THEN s.list
                  ELSE [s.list EXCEPT ![parent] = InsertAt(s.list[parent], depth, m)]
      /\ t.actors = <<m>> \o s.actors
      /\ t.queue = s.queue /\ t.unload = s.unload
  <2>1. Creates(s, NewMovie(s, m, parent, depth, byTimeline), m, parent, depth)
    BY <1>1, NewMovieFields
  <2>2. QED
    BY <2>1 DEF Creates
<1> HIDE DEF t
<1>3. /\ s.state \in [Movies -> States] /\ s.parent \in [Movies -> Movies \cup {None}]
      /\ s.list \in [Movies -> Seq(Movies)] /\ s.roots \in Seq(Movies)
      /\ s.actors \in Seq(Movies) /\ s.queue \in [Queues -> Seq(Movies \X Events)]
  BY <1>1, StageFields
<1>4. /\ \A n \in Movies : t.state[n] = IF n = m THEN "running" ELSE s.state[n]
      /\ \A n \in Movies : t.parent[n] = IF n = m THEN parent ELSE s.parent[n]
  BY <1>2, <1>3
<1>5. /\ \A n \in Movies : Lives(t, n) <=> Lives(s, n) \/ n = m
      /\ ~Lives(s, m)
      /\ parent # m
  BY <1>4, MovieAssumption DEF Lives
<1>6. /\ Range(t.actors) = Range(s.actors) \cup {m}
      /\ \A x, y : Before(t.actors, x, y) =>
            Before(s.actors, x, y) \/ (x = m /\ y \in Range(s.actors))
  BY <1>2, <1>3, FrontOrder
<1>7. Range(s.actors) = {n \in Movies : Lives(s, n)} /\ m \notin Range(s.actors)
  BY <1>5 DEF Good, ActorsLive
<1>8. \A x, y : Before(s.actors, x, y) => x \in Range(s.actors) /\ y \in Range(s.actors)
  BY <1>3, RangeFacts
<1>9. ActorsLive(t)
  <2>1. Range(t.actors) = {n \in Movies : Lives(t, n)}
    BY <1>5, <1>6, <1>7
  <2>2. \A n \in Movies : ~Before(t.actors, n, n)
    BY <1>6, <1>7 DEF Good, ActorsLive
  <2>3. QED
    BY <2>1, <2>2 DEF ActorsLive
<1>10. ParentsLast(t)
  <2>1. SUFFICES ASSUME NEW n \in Movies, t.parent[n] # None
                 PROVE  /\ t.parent[n] # n
                        /\ ~Before(t.actors, t.parent[n], n)
                        /\ t.state[t.parent[n]] # "unborn"
    BY DEF ParentsLast
  <2>2. CASE n = m
    <3>1. t.parent[n] = parent /\ parent \in Movies /\ Lives(s, parent) /\ parent # m
      BY <1>4, <1>5, <2>1, <2>2
    <3>2. ~Before(t.actors, parent, m)
      BY <1>6, <1>7, <1>8, <3>1
    <3>3. t.state[parent] # "unborn"
      BY <1>4, <3>1 DEF Lives
    <3>4. QED
      BY <2>2, <3>1, <3>2, <3>3
  <2>3. CASE n # m
    <3>1. t.parent[n] = s.parent[n] /\ s.parent[n] # None /\ s.parent[n] \in Movies
      BY <1>3, <1>4, <2>1, <2>3
    <3>2. s.parent[n] # n /\ ~Before(s.actors, s.parent[n], n) /\ s.state[s.parent[n]] # "unborn"
      BY <2>1, <3>1 DEF Good, ParentsLast
    <3>3. s.parent[n] # m
      BY <3>2
    <3>4. QED
      BY <1>4, <1>6, <3>1, <3>2, <3>3
  <2>4. QED
    BY <2>2, <2>3
<1>11. ListedOnce(t)
  <2>1. SUFFICES ASSUME NEW p \in Movies, NEW c \in Range(t.list[p])
                 PROVE  t.parent[c] = p /\ Lives(t, p) /\ Lives(t, c) /\ ~Before(t.list[p], c, c)
    BY DEF ListedOnce
  <2>2. s.list[p] \in Seq(Movies) /\ m \notin Range(s.list[p]) /\ Range(s.list[p]) \subseteq Movies
    BY <1>3, <1>5, RangeFacts DEF Good, ListedOnce
  <2>3. ASSUME c \in Range(s.list[p])
        PROVE  /\ t.parent[c] = p /\ Lives(t, p) /\ Lives(t, c) /\ ~Before(s.list[p], c, c)
               /\ c # m
    <3>1. c \in Movies /\ c # m
      BY <2>2, <2>3
    <3>2. s.parent[c] = p /\ Lives(s, p) /\ Lives(s, c) /\ ~Before(s.list[p], c, c)
      BY <2>3 DEF Good, ListedOnce
    <3>3. QED
      BY <1>4, <1>5, <3>1, <3>2
  <2>4. CASE p = parent
    <3>1. parent # None /\ depth \in 1..Len(s.list[p]) + 1
      BY <2>4, MovieAssumption DEF Depths, Siblings
    <3>2. t.list[p] = InsertAt(s.list[p], depth, m)
      BY <1>2, <1>3, <2>4, <3>1
    <3>3. /\ Range(t.list[p]) = Range(s.list[p]) \cup {m}
          /\ \A x, y : Before(t.list[p], x, y) =>
                \/ Before(s.list[p], x, y)
                \/ x = m /\ y \in Range(s.list[p])
                \/ y = m /\ x \in Range(s.list[p])
      BY <2>2, <3>1, <3>2, InsertOrder
    <3>4. CASE c = m
      <4>1. t.parent[m] = p /\ Lives(t, p) /\ Lives(t, m)
        BY <1>4, <1>5, <2>4, <3>1
      <4>2. ~Before(t.list[p], m, m)
        <5>1. ~Before(s.list[p], m, m)
          BY <2>2, RangeFacts
        <5>2. QED
          BY <2>2, <3>3, <5>1
      <4>3. QED
        BY <3>4, <4>1, <4>2
    <3>5. CASE c # m
      BY <2>3, <3>3, <3>5, <2>1
    <3>6. QED
      BY <3>4, <3>5
  <2>5. CASE p # parent
    <3>1. t.list[p] = s.list[p]
      BY <1>2, <1>3, <2>5
    <3>2. QED
      BY <2>1, <2>3, <3>1
  <2>6. QED
    BY <2>4, <2>5
<1>12. RootsOnce(t)
  <2>1. SUFFICES ASSUME NEW c \in Range(t.roots)
                 PROVE  t.parent[c] = None /\ Lives(t, c) /\ ~Before(t.roots, c, c)
    BY DEF RootsOnce
  <2>2. m \notin Range(s.roots) /\ Range(s.roots) \subseteq Movies
    BY <1>3, <1>5, RangeFacts DEF Good, RootsOnce
  <2>3. ASSUME c \in Range(s.roots)
        PROVE  t.parent[c] = None /\ Lives(t, c) /\ ~Before(s.roots, c, c) /\ c # m
    <3>1. c \in Movies /\ c # m
      BY <2>2, <2>3
    <3>2. s.parent[c] = None /\ Lives(s, c) /\ ~Before(s.roots, c, c)
      BY <2>3 DEF Good, RootsOnce
    <3>3. QED
      BY <1>4, <1>5, <3>1, <3>2
  <2>4. CASE parent = None
    <3>1. depth \in 1..Len(s.roots) + 1 /\ t.roots = InsertAt(s.roots, depth, m)
      BY <1>2, <2>4 DEF Depths, Siblings
    <3>2. /\ Range(t.roots) = Range(s.roots) \cup {m}
          /\ \A x, y : Before(t.roots, x, y) =>
                \/ Before(s.roots, x, y)
                \/ x = m /\ y \in Range(s.roots)
                \/ y = m /\ x \in Range(s.roots)
      BY <1>3, <3>1, InsertOrder
    <3>3. CASE c = m
      <4>1. ~Before(s.roots, m, m)
        BY <1>3, <2>2, RangeFacts
      <4>2. ~Before(t.roots, m, m)
        BY <2>2, <3>2, <4>1
      <4>3. QED
        BY <1>4, <1>5, <2>4, <3>3, <4>2
    <3>4. CASE c # m
      BY <2>1, <2>3, <3>2, <3>4
    <3>5. QED
      BY <3>3, <3>4
  <2>5. CASE parent # None
    <3>1. t.roots = s.roots
      BY <1>2, <2>5
    <3>2. QED
      BY <2>1, <2>3, <3>1
  <2>6. QED
    BY <2>4, <2>5
<1>13. RunningListed(t, loose)
  <2>1. SUFFICES ASSUME NEW n \in Movies \ loose, t.state[n] = "running"
                 PROVE  n \in Range(Siblings(t, t.parent[n]))
    BY DEF RunningListed
  <2>2. ASSUME NEW p \in Movies \cup {None}
        PROVE  Range(Siblings(t, p)) = Range(Siblings(s, p)) \cup (IF p = parent THEN {m} ELSE {})
    <3>1. CASE p = None
      <4>1. CASE parent = None
        <5>1. depth \in 1..Len(s.roots) + 1 /\ t.roots = InsertAt(s.roots, depth, m)
          BY <1>2, <4>1 DEF Depths, Siblings
        <5>2. Range(t.roots) = Range(s.roots) \cup {m}
          BY <1>3, <5>1, InsertOrder
        <5>3. QED
          BY <3>1, <4>1, <5>2 DEF Siblings
      <4>2. CASE parent # None
        <5>1. t.roots = s.roots
          BY <1>2, <4>2
        <5>2. QED
          BY <3>1, <4>2, <5>1 DEF Siblings
      <4>3. QED
        BY <4>1, <4>2
    <3>2. CASE p # None
      <4>1. CASE p = parent
        <5>1. /\ depth \in 1..Len(s.list[p]) + 1 /\ s.list[p] \in Seq(Movies)
              /\ t.list[p] = InsertAt(s.list[p], depth, m)
          BY <1>2, <1>3, <3>2, <4>1 DEF Depths, Siblings
        <5>2. Range(t.list[p]) = Range(s.list[p]) \cup {m}
          BY <5>1, InsertOrder
        <5>3. QED
          BY <3>2, <4>1, <5>2 DEF Siblings
      <4>2. CASE p # parent
        <5>1. t.list[p] = s.list[p]
          BY <1>2, <1>3, <3>2, <4>2
        <5>2. QED
          BY <3>2, <4>2, <5>1 DEF Siblings
      <4>3. QED
        BY <4>1, <4>2
    <3>3. QED
      BY <3>1, <3>2
  <2>3. CASE n = m
    BY <1>4, <2>2, <2>3
  <2>4. CASE n # m
    <3>1. t.parent[n] = s.parent[n] /\ s.state[n] = "running" /\ s.parent[n] \in Movies \cup {None}
      BY <1>3, <1>4, <2>1, <2>4
    <3>2. n \in Range(Siblings(s, s.parent[n]))
      BY <3>1 DEF Good, RunningListed
    <3>3. QED
      BY <2>2, <3>1, <3>2
  <2>5. QED
    BY <2>3, <2>4
<1>14. ASSUME NEW i \in Queues, NEW a \in Range(s.queue[i])
       PROVE  a[1] \in Movies /\ Lives(s, a[1]) /\ Lives(t, a[1]) /\ Importance(a[2]) = i
  <2>1. s.queue[i] \in Seq(Movies \X Events)
    BY <1>3
  <2>2. a \in Movies \X Events
    BY <2>1, RangeFacts
  <2>3. a[1] \in Movies
    BY <2>2
  <2>4. Lives(s, a[1]) /\ Importance(a[2]) = i
    BY DEF Good, QueuesLive
  <2>5. QED
    BY <1>5, <2>3, <2>4
<1>15. QueuesLive(t)
  BY <1>2, <1>14 DEF QueuesLive
<1>16. QueuedOnce(t)
  <2>1. ~Has(t, m, "unload")
    <3>1. SUFFICES ASSUME Has(t, m, "unload") PROVE FALSE
      OBVIOUS
    <3>2. <<m, "unload">> \in Range(s.queue[2]) /\ 2 \in Queues
      BY <1>2, <3>1 DEF Has, Queues
    <3>3. Lives(s, <<m, "unload">>[1])
      BY <1>14, <3>2
    <3>4. QED
      BY <1>5, <3>3
  <2>2. QED
    BY <1>2, <1>4, <2>1 DEF Good, QueuedOnce, Twice, Has
<1>17. Good(t, loose)
  BY <1>2, <1>9, <1>10, <1>11, <1>12, <1>13, <1>15, <1>16 DEF Good
<1>18. QED
  BY <1>2, <1>6, <1>17 DEF t

-----------------------------------------------------------------------------
(* What steps do to the queues and to the movies that were there before *)

\* No movie becomes unborn, and only movies that were get handlers queued,
\* other than those for their removal.
Evolves(s, t) ==
    /\ \A m \in Movies : s.state[m] # "unborn" => t.state[m] # "unborn"
    /\ \A i \in Queues : \A a \in Range(t.queue[i]) :
          \/ a \in Range(s.queue[i])
          \/ a[2] = "unload"
          \/ a[2] # "enter" /\ s.state[a[1]] = "unborn"

LEMMA EvolvesInTurn ==
    ASSUME NEW s, NEW t, NEW u \in Stages, Evolves(s, t), Evolves(t, u)
    PROVE  Evolves(s, u)
<1>1. \A m \in Movies : s.state[m] # "unborn" => u.state[m] # "unborn"
  BY DEF Evolves
<1>2. ASSUME NEW i \in Queues, NEW a \in Range(u.queue[i])
      PROVE  \/ a \in Range(s.queue[i])
             \/ a[2] = "unload"
             \/ a[2] # "enter" /\ s.state[a[1]] = "unborn"
  <2>1. u.queue[i] \in Seq(Movies \X Events)
    BY StageFields
  <2>2. a \in Movies \X Events
    BY <2>1, RangeFacts
  <2>3. a[1] \in Movies
    BY <2>2
  <2>4. \/ a \in Range(t.queue[i])
        \/ a[2] = "unload"
        \/ a[2] # "enter" /\ t.state[a[1]] = "unborn"
    BY DEF Evolves
  <2>5. QED
    BY <2>3, <2>4 DEF Evolves
<1>3. QED
  BY <1>1, <1>2 DEF Evolves

LEMMA RemovingEvolves ==
    ASSUME NEW s, NEW t, NEW X, Removes(s, t, X)
    PROVE  Evolves(s, t)
BY DEF Removes, Evolves

\* Who comes after a movie, and that it lives, when movies are created.
Passes(s, t, w) ==
    /\ t.state[w] = s.state[w]
    /\ \A x : Before(t.actors, w, x) => Before(s.actors, w, x)

LEMMA PassesInTurn ==
    ASSUME NEW s, NEW t, NEW u, NEW w, Passes(s, t, w), Passes(t, u, w)
    PROVE  Passes(s, u, w)
BY DEF Passes

Handlers == {"initialize", "construct", "load"}

\* Handlers of a movie were queued.
Handles(s, t, m) ==
    /\ t.state = s.state /\ t.parent = s.parent /\ t.list = s.list
    /\ t.roots = s.roots /\ t.actors = s.actors
    /\ \A i \in Queues : \A a \in Range(t.queue[i]) :
          a \in Range(s.queue[i]) \/ (a[1] = m /\ a[2] \in Handlers)

LEMMA HandlesInTurn ==
    ASSUME NEW s, NEW t, NEW u, NEW m, Handles(s, t, m), Handles(t, u, m)
    PROVE  Handles(s, u, m)
BY DEF Handles

LEMMA QueueHandlerFacts ==
    ASSUME NEW s, NEW loose, Good(s, loose), NEW m \in Movies, Lives(s, m), NEW e \in Handlers
    PROVE  Good(QueueScript(s, m, e), loose) /\ Handles(s, QueueScript(s, m, e), m)
<1>1. /\ e \in Events
      /\ e = "unload" => s.state[m] # "running"
      /\ e \in {"unload", "enter"} => ~Has(s, m, e)
  BY DEF Handlers, Events
<1>2. /\ Good(QueueScript(s, m, e), loose)
      /\ QueueScript(s, m, e).state = s.state /\ QueueScript(s, m, e).parent = s.parent
      /\ QueueScript(s, m, e).list = s.list /\ QueueScript(s, m, e).roots = s.roots
      /\ QueueScript(s, m, e).actors = s.actors
      /\ \A i \in Queues : Range(QueueScript(s, m, e).queue[i]) =
            Range(s.queue[i]) \cup (IF i = Importance(e) THEN {<<m, e>>} ELSE {})
  BY <1>1, QueueFacts
<1> HIDE DEF QueueScript
<1>3. ASSUME NEW i \in Queues, NEW a \in Range(QueueScript(s, m, e).queue[i])
      PROVE  a \in Range(s.queue[i]) \/ (a[1] = m /\ a[2] \in Handlers)
  <2>1. a \in Range(s.queue[i]) \/ a = <<m, e>>
    BY <1>2
  <2>2. QED
    BY <2>1
<1>4. QED
  BY <1>2, <1>3 DEF Handles

\* A movie was created, perhaps with handlers.
Places(s, t, new, parent) ==
    /\ t.state = [s.state EXCEPT ![new] = "running"]
    /\ t.parent = [s.parent EXCEPT ![new] = parent]
    /\ \A x, y : Before(t.actors, x, y) => Before(s.actors, x, y) \/ x = new
    /\ \A i \in Queues : \A a \in Range(t.queue[i]) :
          a \in Range(s.queue[i]) \/ (a[1] = new /\ a[2] \in Handlers)

LEMMA HandledPlaces ==
    ASSUME NEW s, NEW t, NEW u, NEW new, NEW parent, Places(s, t, new, parent),
           Handles(t, u, new)
    PROVE  Places(s, u, new, parent)
BY DEF Places, Handles

LEMMA NewMoviePlaces ==
    ASSUME NEW s, NEW loose, Good(s, loose), NEW m \in Movies, s.state[m] = "unborn",
           NEW parent \in Movies \cup {None}, parent # None => Lives(s, parent),
           NEW depth \in Depths(s, parent), NEW byTimeline \in BOOLEAN
    PROVE  /\ Good(NewMovie(s, m, parent, depth, byTimeline), loose)
           /\ Places(s, NewMovie(s, m, parent, depth, byTimeline), m, parent)
<1>1. /\ Good(NewMovie(s, m, parent, depth, byTimeline), loose)
      /\ NewMovie(s, m, parent, depth, byTimeline).state = [s.state EXCEPT ![m] = "running"]
      /\ NewMovie(s, m, parent, depth, byTimeline).parent = [s.parent EXCEPT ![m] = parent]
      /\ NewMovie(s, m, parent, depth, byTimeline).queue = s.queue
      /\ \A x, y : Before(NewMovie(s, m, parent, depth, byTimeline).actors, x, y) =>
            Before(s.actors, x, y) \/ x = m
  BY NewMovieFacts
<1>2. QED
  BY <1>1 DEF Places

LEMMA PlacingEvolves ==
    ASSUME NEW s \in Stages, NEW t, NEW new \in Movies, s.state[new] = "unborn", NEW parent,
           Places(s, t, new, parent)
    PROVE  /\ Evolves(s, t)
           /\ \A w \in Movies : w # new => Passes(s, t, w)
<1>1. s.state \in [Movies -> States]
  BY StageFields
<1>2. \A m \in Movies : t.state[m] = IF m = new THEN "running" ELSE s.state[m]
  BY <1>1 DEF Places
<1>3. ASSUME NEW i \in Queues, NEW a \in Range(t.queue[i])
      PROVE  \/ a \in Range(s.queue[i])
             \/ a[2] = "unload"
             \/ a[2] # "enter" /\ s.state[a[1]] = "unborn"
  <2>1. a \in Range(s.queue[i]) \/ (a[1] = new /\ a[2] \in Handlers)
    BY DEF Places
  <2>2. QED
    BY <2>1 DEF Handlers
<1>4. Evolves(s, t)
  BY <1>2, <1>3 DEF Evolves
<1>5. ASSUME NEW w \in Movies, w # new PROVE Passes(s, t, w)
  BY <1>2, <1>5 DEF Places, Passes
<1>6. QED
  BY <1>4, <1>5

\* A PlaceObject tag.
LEMMA PlaceTagFacts ==
    ASSUME NEW s, NEW loose, Good(s, loose), NEW m \in Movies, Lives(s, m),
           NEW tag \in Tags(s, m), s.state[tag.new] = "unborn"
    PROVE  /\ Good(PlaceTag(s, m, tag), loose)
           /\ Places(s, PlaceTag(s, m, tag), tag.new, m)
           /\ tag.new \in Movies
<1> DEFINE new == tag.new
           p == NewMovie(s, new, m, tag.depth, TRUE)
           h == IF tag.handler THEN p.unload \cup {new} ELSE p.unload
           u == [p EXCEPT !.unload = h]
           q1 == QueueScript(u, new, "initialize")
           q2 == QueueScript(q1, new, "construct")
           q3 == QueueScript(q2, new, "load")
<1>1. /\ new \in Movies /\ tag.depth \in Depths(s, m) /\ tag.handler \in BOOLEAN
      /\ m \in Movies \cup {None} /\ s.state[new] = "unborn"
  BY DEF Tags, Unborn
<1>2. PlaceTag(s, m, tag) = q3
  BY DEF PlaceTag
<1> HIDE DEF new
<1>3. Good(p, loose) /\ Places(s, p, new, m)
  <2> DEFINE b == TRUE
  <2>1. b \in BOOLEAN
    OBVIOUS
  <2> HIDE DEF b
  <2>2. /\ Good(NewMovie(s, new, m, tag.depth, b), loose)
        /\ Places(s, NewMovie(s, new, m, tag.depth, b), new, m)
    BY <1>1, <2>1, NewMoviePlaces
  <2>3. QED
    BY <2>2 DEF b
<1> HIDE DEF p
<1>4. p \in Stages /\ p.unload \in SUBSET Movies /\ p.state[new] = "running"
  <2>1. p \in Stages /\ s \in Stages
    BY <1>3 DEF Good
  <2>2. p.unload \in SUBSET Movies /\ s.state \in [Movies -> States]
    BY <2>1, StageFields
  <2>3. p.state[new] = "running"
    BY <1>1, <1>3, <2>2 DEF Places
  <2>4. QED
    BY <2>1, <2>2, <2>3
<1>5. h \in SUBSET Movies
  BY <1>1, <1>4
<1> HIDE DEF h
<1>6. /\ u \in Stages /\ u.state = p.state /\ u.parent = p.parent /\ u.list = p.list
      /\ u.roots = p.roots /\ u.actors = p.actors /\ u.queue = p.queue
  BY <1>4, <1>5, UnloadChange
<1> HIDE DEF u
<1>7. Good(u, loose) /\ Handles(p, u, new)
  <2>1. Good(u, loose)
    BY <1>3, <1>6, GoodElsewhere
  <2>2. Handles(p, u, new)
    BY <1>6 DEF Handles
  <2>3. QED
    BY <2>1, <2>2
<1>8. Good(q1, loose) /\ Handles(u, q1, new)
  <2>1. Lives(u, new) /\ "initialize" \in Handlers
    BY <1>4, <1>6 DEF Lives, Handlers
  <2>2. QED
    BY <1>1, <1>7, <2>1, QueueHandlerFacts
<1> HIDE DEF q1
<1>9. Good(q2, loose) /\ Handles(q1, q2, new)
  <2>1. Lives(q1, new) /\ "construct" \in Handlers
    BY <1>4, <1>6, <1>8 DEF Lives, Handlers, Handles
  <2>2. QED
    BY <1>1, <1>8, <2>1, QueueHandlerFacts
<1> HIDE DEF q2
<1>10. Good(q3, loose) /\ Handles(q2, q3, new)
  <2>1. Lives(q2, new) /\ "load" \in Handlers
    BY <1>4, <1>6, <1>8, <1>9 DEF Lives, Handlers, Handles
  <2>2. QED
    BY <1>1, <1>9, <2>1, QueueHandlerFacts
<1> HIDE DEF q3
<1>11. Places(s, q3, new, m)
  <2>1. Places(s, u, new, m)
    BY <1>3, <1>7, HandledPlaces
  <2>2. Places(s, q1, new, m)
    BY <1>8, <2>1, HandledPlaces
  <2>3. Places(s, q2, new, m)
    BY <1>9, <2>2, HandledPlaces
  <2>4. QED
    BY <1>10, <2>3, HandledPlaces
<1>12. QED
  BY <1>1, <1>2, <1>10, <1>11 DEF new

-----------------------------------------------------------------------------
(* Another order of siblings, and fewer of them *)

\* Nothing but one list changed.
Lists(s, t, p, seq) ==
    /\ t.state = s.state /\ t.parent = s.parent
    /\ t.actors = s.actors /\ t.queue = s.queue /\ t.unload = s.unload
    /\ Siblings(t, p) = seq
    /\ \A q \in Movies \cup {None} : q # p => Siblings(t, q) = Siblings(s, q)

LEMMA PlaceFields ==
    ASSUME NEW s \in Stages, NEW p \in Movies \cup {None}, NEW seq \in Seq(Movies)
    PROVE  Place(s, p, seq) \in Stages /\ Lists(s, Place(s, p, seq), p, seq)
<1> DEFINE t == Place(s, p, seq)
<1>1. CASE p = None
  <2>1. t = [s EXCEPT !.roots = seq]
    BY <1>1 DEF Place
  <2> HIDE DEF t
  <2>2. /\ t \in Stages /\ t.state = s.state /\ t.parent = s.parent /\ t.list = s.list
        /\ t.roots = seq /\ t.actors = s.actors /\ t.queue = s.queue
        /\ t.unload = s.unload
    BY <2>1, RootsChange
  <2>3. QED
    BY <1>1, <2>2 DEF Lists, Siblings, t
<1>2. CASE p # None
  <2> DEFINE l == [s.list EXCEPT ![p] = seq]
  <2>1. s.list \in [Movies -> Seq(Movies)] /\ p \in Movies
    BY <1>2, StageFields
  <2>2. l \in [Movies -> Seq(Movies)] /\ \A q \in Movies : l[q] = IF q = p THEN seq ELSE s.list[q]
    BY <2>1
  <2>3. t = [s EXCEPT !.list = l]
    BY <1>2 DEF Place
  <2> HIDE DEF t, l
  <2>4. /\ t \in Stages /\ t.state = s.state /\ t.parent = s.parent /\ t.list = l
        /\ t.roots = s.roots /\ t.actors = s.actors /\ t.queue = s.queue
        /\ t.unload = s.unload
    BY <2>2, <2>3, ListChange
  <2>5. Siblings(t, p) = seq
    BY <1>2, <2>1, <2>2, <2>4 DEF Siblings
  <2>6. ASSUME NEW q \in Movies \cup {None}, q # p PROVE Siblings(t, q) = Siblings(s, q)
    BY <2>2, <2>4, <2>6 DEF Siblings
  <2>7. QED
    BY <2>4, <2>5, <2>6 DEF Lists, t
<1>3. QED
  BY <1>1, <1>2

LEMMA PlaceFacts ==
    ASSUME NEW s, NEW loose, NEW more, Good(s, loose), loose \subseteq more,
           NEW p \in Movies \cup {None}, NEW seq \in Seq(Movies),
           Range(seq) \subseteq Range(Siblings(s, p)),
           \A n \in Movies : ~Before(seq, n, n),
           Range(Siblings(s, p)) \ Range(seq) \subseteq more
    PROVE  Good(Place(s, p, seq), more) /\ Lists(s, Place(s, p, seq), p, seq)
<1> DEFINE t == Place(s, p, seq)
<1>1. t \in Stages /\ Lists(s, t, p, seq) /\ s \in Stages
  <2>1. s \in Stages
    BY DEF Good
  <2>2. QED
    BY <2>1, PlaceFields
<1> HIDE DEF t
<1>2. /\ t.state = s.state /\ t.parent = s.parent
      /\ t.actors = s.actors /\ t.queue = s.queue
      /\ \A m : Lives(t, m) <=> Lives(s, m)
  BY <1>1 DEF Lists, Lives
<1>3. ASSUME NEW q \in Movies \cup {None}
      PROVE  /\ Range(Siblings(t, q)) \subseteq Range(Siblings(s, q))
             /\ Range(Siblings(s, q)) \ Range(Siblings(t, q)) \subseteq more
  <2>1. CASE q = p
    BY <1>1, <2>1 DEF Lists
  <2>2. CASE q # p
    BY <1>1, <2>2 DEF Lists
  <2>3. QED
    BY <2>1, <2>2
<1>4. ASSUME NEW q \in Movies \cup {None}, NEW c \in Movies, ~Before(Siblings(s, q), c, c)
      PROVE  ~Before(Siblings(t, q), c, c)
  <2>1. CASE q = p
    BY <1>1, <2>1 DEF Lists
  <2>2. CASE q # p
    BY <1>1, <1>4, <2>2 DEF Lists
  <2>3. QED
    BY <2>1, <2>2
<1>5. /\ s.list \in [Movies -> Seq(Movies)] /\ s.roots \in Seq(Movies)
      /\ s.parent \in [Movies -> Movies \cup {None}]
      /\ \A q \in Movies : Siblings(s, q) = s.list[q] /\ Siblings(t, q) = t.list[q]
      /\ Siblings(s, None) = s.roots /\ Siblings(t, None) = t.roots
  BY <1>1, StageFields, MovieAssumption DEF Siblings
<1>6. ActorsLive(t) /\ ParentsLast(t)
  BY <1>2 DEF Good, ActorsLive, ParentsLast
<1>7. ListedOnce(t)
  <2>1. SUFFICES ASSUME NEW q \in Movies, NEW c \in Range(t.list[q])
                 PROVE  t.parent[c] = q /\ Lives(t, q) /\ Lives(t, c) /\ ~Before(t.list[q], c, c)
    BY DEF ListedOnce
  <2>2. c \in Range(s.list[q])
    BY <1>3, <1>5
  <2>3. c \in Movies
    BY <1>5, <2>2, RangeFacts
  <2>4. s.parent[c] = q /\ Lives(s, q) /\ Lives(s, c) /\ ~Before(s.list[q], c, c)
    BY <2>2 DEF Good, ListedOnce
  <2>5. QED
    BY <1>2, <1>4, <1>5, <2>3, <2>4
<1>8. RootsOnce(t)
  <2>1. SUFFICES ASSUME NEW c \in Range(t.roots)
                 PROVE  t.parent[c] = None /\ Lives(t, c) /\ ~Before(t.roots, c, c)
    BY DEF RootsOnce
  <2>2. c \in Range(s.roots)
    BY <1>3, <1>5
  <2>3. c \in Movies
    BY <1>5, <2>2, RangeFacts
  <2>4. s.parent[c] = None /\ Lives(s, c) /\ ~Before(s.roots, c, c)
    BY <2>2 DEF Good, RootsOnce
  <2>5. QED
    BY <1>2, <1>4, <1>5, <2>3, <2>4
<1>9. RunningListed(t, more)
  <2>1. SUFFICES ASSUME NEW n \in Movies \ more, t.state[n] = "running"
                 PROVE  n \in Range(Siblings(t, t.parent[n]))
    BY DEF RunningListed
  <2>2. n \in Range(Siblings(s, s.parent[n])) /\ s.parent[n] \in Movies \cup {None}
    BY <1>2, <1>5, <2>1 DEF Good, RunningListed
  <2>3. QED
    BY <1>2, <1>3, <2>1, <2>2
<1>10. QueuesLive(t) /\ QueuedOnce(t)
  BY <1>2 DEF Good, QueuesLive, QueuedOnce, Twice, Has
<1>11. QED
  BY <1>1, <1>6, <1>7, <1>8, <1>9, <1>10 DEF Good, t

\* Movies that no longer run need not be listed.
LEMMA LooseStopped ==
    ASSUME NEW s, NEW loose, Good(s, loose), \A n \in Movies \cap loose : s.state[n] # "running"
    PROVE  Good(s, {})
BY DEF Good, RunningListed

-----------------------------------------------------------------------------
(* Removing several movies *)

Turns(s, movies, g, n) ==
    /\ g = [i \in 0..n |-> g[i]]
    /\ g[0] = s
    /\ \A i \in 1..n : g[i] = RemoveMovie(g[i - 1], movies[i])

LEMMA TurnsExist ==
    ASSUME NEW s, NEW movies, NEW N \in Nat
    PROVE  \E g : Turns(s, movies, g, N)
<1> DEFINE K == {k \in Nat : ~\E g : Turns(s, movies, g, k)}
<1>1. SUFFICES ASSUME K # {} PROVE FALSE
  OBVIOUS
<1>2. PICK k \in K : \A j \in K : k <= j
  BY <1>1, Least
<1>3. k # 0
  <2> DEFINE f == [i \in 0..0 |-> s]
  <2>1. f = [i \in 0..0 |-> f[i]] /\ f[0] = s /\ 1..0 = {}
    OBVIOUS
  <2>2. Turns(s, movies, f, 0)
    BY <2>1 DEF Turns
  <2>3. QED
    BY <1>2, <2>2
<1>4. k \in Nat /\ k - 1 \in Nat /\ k - 1 \notin K
  BY <1>2, <1>3
<1>5. PICK g : Turns(s, movies, g, k - 1)
  BY <1>4
<1> DEFINE last == RemoveMovie(g[k - 1], movies[k])
           f == [i \in 0..k |-> IF i = k THEN last ELSE g[i]]
<1>6. Turns(s, movies, f, k)
  <2> HIDE DEF last
  <2>1. f = [i \in 0..k |-> f[i]]
    OBVIOUS
  <2>2. f[0] = s
    <3>1. 0 \in 0..k /\ 0 # k
      BY <1>3, <1>4
    <3>2. f[0] = g[0]
      BY <3>1
    <3>3. QED
      BY <1>5, <3>2 DEF Turns
  <2>3. ASSUME NEW i \in 1..k PROVE f[i] = RemoveMovie(f[i - 1], movies[i])
    <3>1. i - 1 \in 0..k - 1 /\ i - 1 # k /\ i \in 0..k /\ i - 1 \in 0..k
      BY <1>4
    <3>2. f[i - 1] = g[i - 1]
      BY <3>1
    <3>3. CASE i = k
      <4>1. f[i] = last
        BY <3>1, <3>3
      <4>2. QED
        BY <3>2, <3>3, <4>1 DEF last
    <3>4. CASE i # k
      <4>1. i \in 1..k - 1
        BY <1>4, <3>4
      <4>2. f[i] = g[i]
        BY <3>1, <3>4
      <4>3. QED
        BY <1>5, <3>2, <4>1, <4>2 DEF Turns
    <3>5. QED
      BY <3>3, <3>4
  <2>4. QED
    BY <2>1, <2>2, <2>3 DEF Turns
<1>7. QED
  BY <1>2, <1>6

LEMMA RemoveAllTurns ==
    ASSUME NEW s, NEW movies, Len(movies) \in Nat
    PROVE  \E g : Turns(s, movies, g, Len(movies)) /\ RemoveAll(s, movies) = g[Len(movies)]
<1> DEFINE N == Len(movies)
           Is(g) == g = [i \in 0..N |-> IF i = 0 THEN s ELSE RemoveMovie(g[i - 1], movies[i])]
<1>1. N \in Nat
  OBVIOUS
<1>2. PICK g : Turns(s, movies, g, N)
  BY <1>1, TurnsExist
<1>3. Is(g)
  <2> HIDE DEF N
  <2>1. ASSUME NEW i \in 0..N
        PROVE  g[i] = IF i = 0 THEN s ELSE RemoveMovie(g[i - 1], movies[i])
    <3>1. i = 0 \/ i \in 1..N
      BY <1>1
    <3>2. QED
      BY <1>2, <3>1 DEF Turns
  <2>2. g = [i \in 0..N |-> g[i]]
    BY <1>2 DEF Turns
  <2>3. QED
    BY <2>1, <2>2
<1> DEFINE after == CHOOSE h : Is(h)
<1>4. Is(after)
  BY <1>3
<1>5. Turns(s, movies, after, N)
  <2> HIDE DEF after, N
  <2>1. after = [i \in 0..N |-> after[i]]
    BY <1>4
  <2>2. after[0] = s
    <3>1. 0 \in 0..N
      BY <1>1
    <3>2. QED
      BY <1>4, <3>1
  <2>3. ASSUME NEW i \in 1..N PROVE after[i] = RemoveMovie(after[i - 1], movies[i])
    <3>1. i \in 0..N /\ i # 0
      BY <1>1
    <3>2. QED
      BY <1>4, <3>1
  <2>4. QED
    BY <2>1, <2>2, <2>3 DEF Turns
<1>6. RemoveAll(s, movies) = after[N]
  BY DEF RemoveAll
<1>7. QED
  BY <1>5, <1>6

\* A movie is not below its children.
LEMMA ParentStays ==
    ASSUME NEW s, NEW loose, Good(s, loose), NEW w \in Movies, NEW c \in Movies,
           s.parent[c] = w, Lives(s, c)
    PROVE  w \notin Subtrees(s, {c})
<1>1. w # None
  BY MovieAssumption
<1>2. w # c /\ ~Before(s.actors, w, c)
  BY <1>1 DEF Good, ParentsLast
<1>3. \A n \in Subtrees(s, {c}) : n = c \/ Before(s.actors, n, c)
  BY BelowFacts DEF Good
<1>4. QED
  BY <1>2, <1>3

\* The children of a movie are removed, some no longer in its list: nothing
\* happens to the movie.
LEMMA TurnsFacts ==
    ASSUME NEW s, NEW loose, Good(s, loose), NEW movies \in Seq(Movies), NEW w \in Movies,
           \A c \in Range(movies) : s.parent[c] = w, IsFiniteSet(Movies),
           NEW g, Turns(s, movies, g, Len(movies))
    PROVE  \A i \in 0..Len(movies) :
              /\ Good(g[i], loose)
              /\ Removes(s, g[i], Movies \ {w})
              /\ \A j \in 1..i : g[i].state[movies[j]] # "running"
<1> DEFINE N == Len(movies)
           X == Movies \ {w}
<1>1. N \in Nat /\ \A i \in 1..N : movies[i] \in Movies /\ s.parent[movies[i]] = w
  <2>1. \A i \in 1..N : movies[i] \in Movies /\ movies[i] \in Range(movies)
    BY RangeFacts
  <2>2. QED
    BY <2>1
<1> HIDE DEF N, X
<1> DEFINE Fits(i) == /\ Good(g[i], loose)
                      /\ Removes(s, g[i], X)
                      /\ \A j \in 1..i : g[i].state[movies[j]] # "running"
<1>2. Fits(0)
  <2>1. g[0] = s /\ 1..0 = {}
    BY DEF Turns
  <2>2. Removes(s, s, X)
    BY RemovesNothing
  <2>3. QED
    BY <2>1, <2>2
<1>3. ASSUME NEW i \in 1..N, Fits(i - 1) PROVE Fits(i)
  <2> DEFINE t == g[i - 1]
             c == movies[i]
             u == RemoveMovie(t, c)
  <2>1. g[i] = u
    BY DEF Turns
  <2>2. Good(t, loose) /\ Removes(s, t, X) /\ t \in Stages
        /\ \A j \in 1..i - 1 : t.state[movies[j]] # "running"
    BY <1>3 DEF Good
  <2>3. c \in Movies /\ s.parent[c] = w
    BY <1>1
  <2> HIDE DEF t, c
  <2>4. t.parent[c] = w
    BY <2>2, <2>3 DEF Removes
  <2>5. /\ Good(u, loose)
        /\ Removes(t, u, Subtrees(t, {c}))
        /\ u.state[c] # "running"
    BY <2>2, <2>3, RemoveMovieFacts
  <2>6. Removes(t, u, X)
    <3>1. CASE Lives(t, c)
      <4>1. w \notin Subtrees(t, {c})
        BY <2>2, <2>3, <2>4, <3>1, ParentStays
      <4>2. Subtrees(t, {c}) \subseteq Movies
        BY <2>2, <2>3, SubtreeFacts
      <4>3. Subtrees(t, {c}) \subseteq X
        BY <4>1, <4>2 DEF X
      <4>4. QED
        BY <2>5, <4>3, RemovesMore
    <3>2. CASE ~Lives(t, c)
      <4>1. u = t
        BY <3>2 DEF RemoveMovie, Lives
      <4>2. QED
        BY <4>1, RemovesNothing
    <3>3. QED
      BY <3>1, <3>2
  <2> HIDE DEF u
  <2>7. Removes(s, u, X)
    BY <2>2, <2>6, RemovesInTurn
  <2>8. \A j \in 1..i : u.state[movies[j]] # "running"
    <3>1. ASSUME NEW j \in 1..i PROVE u.state[movies[j]] # "running"
      <4>1. CASE j = i
        BY <2>5, <4>1 DEF c
      <4>2. CASE j # i
        <5>1. j \in 1..i - 1 /\ j \in 1..N
          BY <1>1, <4>2
        <5>2. t.state[movies[j]] # "running" /\ movies[j] \in Movies
          BY <1>1, <2>2, <5>1
        <5>3. QED
          BY <2>5, <5>2 DEF Removes
      <4>3. QED
        BY <4>1, <4>2
    <3>2. QED
      BY <3>1
  <2>9. QED
    BY <2>1, <2>5, <2>7, <2>8
<1> HIDE DEF Fits
<1>4. ASSUME NEW i \in 0..N PROVE Fits(i)
  <2> DEFINE K == {k \in 0..N : ~Fits(k)}
  <2>1. SUFFICES ASSUME ~Fits(i) PROVE FALSE
    OBVIOUS
  <2>2. K \in SUBSET Nat /\ K # {}
    BY <1>1, <2>1
  <2>3. PICK k \in K : \A j \in K : k <= j
    BY <2>2, Least
  <2>4. k \in 1..N /\ k - 1 \in 0..N /\ k - 1 \notin K
    BY <1>1, <1>2, <2>3
  <2>5. QED
    BY <1>3, <2>3, <2>4
<1>5. QED
  BY <1>4 DEF Fits, N, X

\* None of them runs anymore in the end.
LEMMA RemoveAllFacts ==
    ASSUME NEW s, NEW loose, Good(s, loose), NEW movies \in Seq(Movies), NEW w \in Movies,
           \A c \in Range(movies) : s.parent[c] = w, IsFiniteSet(Movies)
    PROVE  /\ Good(RemoveAll(s, movies), loose)
           /\ Removes(s, RemoveAll(s, movies), Movies \ {w})
           /\ \A c \in Range(movies) : RemoveAll(s, movies).state[c] # "running"
<1> DEFINE N == Len(movies)
<1>1. N \in Nat
  OBVIOUS
<1>2. PICK g : Turns(s, movies, g, N) /\ RemoveAll(s, movies) = g[N]
  BY <1>1, RemoveAllTurns
<1>3. \A i \in 0..N : /\ Good(g[i], loose)
                      /\ Removes(s, g[i], Movies \ {w})
                      /\ \A j \in 1..i : g[i].state[movies[j]] # "running"
  BY <1>2, TurnsFacts
<1>4. \A c \in Range(movies) : \E j \in 1..N : movies[j] = c
  BY RangeFacts
<1> HIDE DEF N
<1>5. N \in 0..N
  BY <1>1
<1>6. /\ Good(g[N], loose)
      /\ Removes(s, g[N], Movies \ {w})
      /\ \A j \in 1..N : g[N].state[movies[j]] # "running"
  BY <1>3, <1>5
<1>7. \A c \in Range(movies) : g[N].state[c] # "running"
  BY <1>4, <1>6
<1>8. QED
  BY <1>2, <1>6, <1>7

LEMMA RemovingPasses ==
    ASSUME NEW s, NEW t, NEW X, Removes(s, t, X), NEW w \in Movies \ X
    PROVE  Passes(s, t, w)
BY DEF Removes, Passes

LEMMA ListsEvolve ==
    ASSUME NEW s, NEW t, NEW p, NEW seq, Lists(s, t, p, seq)
    PROVE  Evolves(s, t) /\ \A w : Passes(s, t, w)
BY DEF Lists, Evolves, Passes

LEMMA SameEvolves ==
    ASSUME NEW s, NEW t, t.state = s.state, t.queue = s.queue
    PROVE  Evolves(s, t)
BY DEF Evolves

-----------------------------------------------------------------------------
(* The timeline *)

LEMMA BuiltFacts ==
    ASSUME NEW s, NEW loose, Good(s, loose), NEW m \in Movies, Lives(s, m),
           \A n \in Unborn : s.state[n] = "unborn", NEW t \in Built(s, m)
    PROVE  /\ Good(t, loose) /\ Evolves(s, t) /\ Passes(s, t, m)
           /\ \A c \in Movies : s.state[c] # "unborn" => t.parent[c] = s.parent[c]
<1>1. s \in Stages
  BY DEF Good
<1>2. s.state \in [Movies -> States] /\ s.parent \in [Movies -> Movies \cup {None}]
  BY <1>1, StageFields
<1>3. CASE t = s
  <2>1. Evolves(s, s) /\ Passes(s, s, m)
    BY DEF Evolves, Passes
  <2>2. QED
    BY <1>3, <2>1
<1>4. CASE t # s
  <2>1. PICK tag \in Tags(s, m) : t = PlaceTag(s, m, tag)
    BY <1>4, Zenon DEF Built
  <2>2. s.state[tag.new] = "unborn"
    BY DEF Tags
  <2>3. Good(t, loose) /\ Places(s, t, tag.new, m) /\ tag.new \in Movies
    BY <2>1, <2>2, PlaceTagFacts
  <2>4. tag.new # m
    BY <2>2 DEF Lives
  <2>5. Evolves(s, t) /\ Passes(s, t, m)
    BY <1>1, <2>2, <2>3, <2>4, PlacingEvolves
  <2>6. \A c \in Movies : s.state[c] # "unborn" => t.parent[c] = s.parent[c]
    BY <1>2, <2>2, <2>3 DEF Places
  <2>7. QED
    BY <2>3, <2>5, <2>6
<1>5. QED
  BY <1>3, <1>4

LEMMA ForwardFacts ==
    ASSUME NEW s, Good(s, {}), NEW m \in Movies, s.state[m] = "running",
           \A n \in Unborn : s.state[n] = "unborn", NEW t \in Forward(s, m), IsFiniteSet(Movies)
    PROVE  Good(t, {}) /\ Evolves(s, t) /\ Passes(s, t, m)
<1>1. s \in Stages /\ Lives(s, m)
  BY DEF Good, Lives
<1>2. CASE t \in Built(s, m)
  BY <1>1, <1>2, BuiltFacts
<1>3. CASE t \notin Built(s, m)
  <2>1. PICK c \in Range(s.list[m]) \cap s.timeline : t = RemoveMovie(s, c)
    BY <1>3, Zenon DEF Forward
  <2>2. c \in Movies
    <3>1. s.timeline \in SUBSET Movies
      BY <1>1, StageFields
    <3>2. QED
      BY <3>1
  <2>3. s.parent[c] = m /\ Lives(s, c)
    BY DEF Good, ListedOnce
  <2>4. /\ Good(t, {})
        /\ Removes(s, t, Subtrees(s, {c}))
    BY <2>1, <2>2, RemoveMovieFacts
  <2>5. m \notin Subtrees(s, {c})
    BY <2>2, <2>3, ParentStays
  <2>6. Passes(s, t, m) /\ Evolves(s, t)
    BY <2>4, <2>5, RemovingPasses, RemovingEvolves
  <2>7. QED
    BY <2>4, <2>6
<1>4. QED
  BY <1>2, <1>3

\* The way back: some of the movies leave the list, the frame is built again,
\* and they are removed.
Rewinds(s, m, t, sp, u, gone, left, movies) ==
    /\ movies \in Seq(Movies) /\ Range(movies) = gone
    /\ Good(sp, gone) /\ Lists(s, sp, m, left) /\ Lives(sp, m)
    /\ \A n \in Unborn : sp.state[n] = "unborn"
    /\ u \in Built(sp, m) /\ Good(u, gone) /\ \A c \in gone : u.parent[c] = m
    /\ t = RemoveAll(u, movies)

LEMMA BackwardParts ==
    ASSUME NEW s, Good(s, {}), NEW m \in Movies, s.state[m] = "running",
           \A n \in Unborn : s.state[n] = "unborn", NEW t \in Backward(s, m)
    PROVE  \E sp, u, gone, left, movies : Rewinds(s, m, t, sp, u, gone, left, movies)
<1>1. /\ s \in Stages /\ Lives(s, m) /\ m # None /\ m \in Movies \cup {None}
  BY MovieAssumption DEF Good, Lives
<1>2. PICK kept \in SUBSET Old(s, m) :
         t \in {RemoveOld(s, m, kept, split) : split \in Built(Split(s, m, kept), m)}
  BY Zenon DEF Backward
<1> DEFINE gone == Old(s, m) \ kept
           left == Without(s.list[m], gone)
           movies == Without(s.list[m], Movies \ gone)
           sp == Split(s, m, kept)
<1>3. PICK u \in Built(sp, m) : t = RemoveAll(u, movies)
  BY <1>2, Zenon DEF RemoveOld
<1>4. /\ s.list[m] \in Seq(Movies) /\ Range(s.list[m]) \subseteq Movies
      /\ gone \subseteq Range(s.list[m]) /\ Siblings(s, m) = s.list[m]
  <2>1. s.list[m] \in Seq(Movies)
    BY <1>1, StageFields
  <2>2. gone \subseteq Range(s.list[m])
    BY DEF Old
  <2>3. QED
    BY <1>1, <2>1, <2>2, RangeFacts DEF Siblings
<1> HIDE DEF gone
<1>5. /\ left \in Seq(Movies)
      /\ Range(left) = Range(s.list[m]) \ gone
      /\ \A x, y : Before(left, x, y) => Before(s.list[m], x, y)
  BY <1>4, WithoutOrder
<1>6. /\ movies \in Seq(Movies) /\ Range(movies) = gone
  <2>1. movies \in Seq(Movies) /\ Range(movies) = Range(s.list[m]) \ (Movies \ gone)
    BY <1>4, WithoutOrder
  <2>2. QED
    BY <1>4, <2>1
<1>7. sp = Place(s, m, left)
  BY <1>1 DEF Split, Place, gone
<1> HIDE DEF left, movies, sp
<1>8. \A n \in Movies : ~Before(left, n, n)
  <2>1. SUFFICES ASSUME NEW n \in Movies, Before(left, n, n) PROVE FALSE
    OBVIOUS
  <2>2. Before(s.list[m], n, n)
    BY <1>5, <2>1
  <2>3. n \in Range(s.list[m])
    BY <1>4, <2>2, RangeFacts
  <2>4. QED
    BY <2>2, <2>3 DEF Good, ListedOnce
<1>9. Good(sp, gone) /\ Lists(s, sp, m, left)
  <2>1. {} \subseteq gone /\ Range(left) \subseteq Range(Siblings(s, m))
        /\ Range(Siblings(s, m)) \ Range(left) \subseteq gone
    BY <1>4, <1>5
  <2>2. Good(Place(s, m, left), gone) /\ Lists(s, Place(s, m, left), m, left)
    BY <1>1, <1>5, <1>8, <2>1, PlaceFacts
  <2>3. QED
    BY <1>7, <2>2
<1>10. /\ sp.state = s.state /\ sp.parent = s.parent /\ Lives(sp, m)
       /\ \A n \in Unborn : sp.state[n] = "unborn"
  BY <1>1, <1>9 DEF Lists, Lives
<1>11. /\ Good(u, gone)
       /\ \A c \in Movies : sp.state[c] # "unborn" => u.parent[c] = sp.parent[c]
  BY <1>3, <1>9, <1>10, BuiltFacts
<1>12. \A c \in Range(movies) : u.parent[c] = m
  <2>1. SUFFICES ASSUME NEW c \in Range(movies) PROVE u.parent[c] = m
    OBVIOUS
  <2>2. c \in Range(s.list[m]) /\ c \in Movies
    BY <1>4, <1>6
  <2>3. s.parent[c] = m /\ Lives(s, c)
    BY <2>2 DEF Good, ListedOnce
  <2>4. QED
    BY <1>10, <1>11, <2>2, <2>3 DEF Lives
<1>13. Rewinds(s, m, t, sp, u, gone, left, movies)
  BY <1>3, <1>6, <1>9, <1>10, <1>11, <1>12 DEF Rewinds
<1>14. QED
  BY <1>13

LEMMA BackwardFacts ==
    ASSUME NEW s, Good(s, {}), NEW m \in Movies, s.state[m] = "running",
           \A n \in Unborn : s.state[n] = "unborn", NEW t \in Backward(s, m), IsFiniteSet(Movies)
    PROVE  Good(t, {}) /\ Evolves(s, t) /\ Passes(s, t, m)
<1>1. s \in Stages
  BY DEF Good
<1>2. PICK sp, u, gone, left, movies : Rewinds(s, m, t, sp, u, gone, left, movies)
  BY BackwardParts
<1>3. Evolves(s, sp) /\ Passes(s, sp, m)
  BY <1>2, ListsEvolve DEF Rewinds
<1>4. Evolves(sp, u) /\ Passes(sp, u, m) /\ u \in Stages
  BY <1>2, BuiltFacts DEF Good, Rewinds
<1>5. /\ Good(t, gone)
      /\ Removes(u, t, Movies \ {m})
      /\ \A c \in Range(movies) : t.state[c] # "running"
  BY <1>2, RemoveAllFacts DEF Rewinds
<1>6. Good(t, {})
  <2>1. \A n \in Movies \cap gone : t.state[n] # "running"
    BY <1>2, <1>5 DEF Rewinds
  <2>2. QED
    BY <1>5, <2>1, LooseStopped
<1>7. Evolves(u, t) /\ Passes(u, t, m)
  BY <1>5, RemovingEvolves, RemovingPasses
<1>8. Evolves(s, t)
  <2>1. t \in Stages
    BY <1>6 DEF Good
  <2>2. Evolves(s, u)
    BY <1>3, <1>4, EvolvesInTurn
  <2>3. QED
    BY <1>7, <2>1, <2>2, EvolvesInTurn
<1>9. Passes(s, t, m)
  BY <1>3, <1>4, <1>7, PassesInTurn
<1>10. QED
  BY <1>6, <1>8, <1>9

\* Going to a frame, in either direction.
LEMMA GotoFacts ==
    ASSUME NEW s, Good(s, {}), NEW m \in Movies, s.state[m] = "running",
           \A n \in Unborn : s.state[n] = "unborn", NEW t \in Goto(s, m), IsFiniteSet(Movies)
    PROVE  Good(t, {}) /\ Evolves(s, t) /\ Passes(s, t, m)
BY ForwardFacts, BackwardFacts DEF Goto

-----------------------------------------------------------------------------
(* Moving a movie among its siblings *)

\* One element of a list is taken out, and no more than that.
LEMMA WithoutLength ==
    ASSUME NEW S, NEW seq \in Seq(S), NEW x \in Range(seq), ~Before(seq, x, x)
    PROVE  Len(Without(seq, {x})) = Len(seq) - 1
<1> DEFINE N == Len(seq)
<1>1. N \in Nat
  OBVIOUS
<1>2. PICK g : Keeps(seq, {x}, g, N) /\ Without(seq, {x}) = g[N]
  BY <1>1, WithoutRounds
<1>3. PICK p \in 1..N : seq[p] = x
  BY RangeFacts
<1>4. \A i \in 1..N : seq[i] = x => i = p
  BY <1>1, <1>3 DEF Before
<1>5. \A i \in 1..N : seq[i] \in S
  OBVIOUS
<1> HIDE DEF N
<1> DEFINE Fits(n) == g[n] \in Seq(S) /\ Len(g[n]) = IF n < p THEN n ELSE n - 1
<1>6. Fits(0)
  <2>1. g[0] = <<>> /\ 0 < p
    BY <1>2, <1>3 DEF Keeps
  <2>2. <<>> \in Seq(S) /\ Len(<<>>) = 0
    OBVIOUS
  <2>3. QED
    BY <2>1, <2>2
<1>7. ASSUME NEW n \in 1..N, Fits(n - 1) PROVE Fits(n)
  <2>1. g[n] = IF seq[n] \in {x} THEN g[n - 1] ELSE Append(g[n - 1], seq[n])
    BY <1>2 DEF Keeps
  <2>2. g[n - 1] \in Seq(S) /\ Len(g[n - 1]) = IF n - 1 < p THEN n - 1 ELSE n - 1 - 1
    BY <1>7
  <2>3. n \in Nat /\ p \in Nat
    BY <1>1, <1>3
  <2>4. CASE n = p
    <3>1. g[n] = g[n - 1]
      BY <1>3, <2>1, <2>4
    <3>2. QED
      BY <2>2, <2>3, <2>4, <3>1
  <2>5. CASE n # p
    <3>1. g[n] = Append(g[n - 1], seq[n])
      BY <1>4, <2>1, <2>5
    <3>2. g[n] \in Seq(S) /\ Len(g[n]) = Len(g[n - 1]) + 1
      BY <1>5, <2>2, <3>1
    <3>3. QED
      BY <2>2, <2>3, <2>5, <3>2
  <2>6. QED
    BY <2>4, <2>5
<1> HIDE DEF Fits
<1>8. Fits(N)
  <2> DEFINE K == {i \in 0..N : ~Fits(i)}
  <2>1. SUFFICES ASSUME ~Fits(N) PROVE FALSE
    OBVIOUS
  <2>2. K \in SUBSET Nat /\ K # {}
    BY <1>1, <2>1
  <2>3. PICK k \in K : \A i \in K : k <= i
    BY <2>2, Least
  <2>4. k \in 1..N /\ k - 1 \in 0..N /\ k - 1 \notin K
    BY <1>1, <1>6, <2>3
  <2>5. QED
    BY <1>7, <2>3, <2>4
<1>9. QED
  BY <1>1, <1>2, <1>3, <1>8 DEF Fits, N

LEMMA SiblingsFacts ==
    ASSUME NEW s, NEW loose, Good(s, loose), NEW p \in Movies \cup {None}
    PROVE  /\ Siblings(s, p) \in Seq(Movies)
           /\ Range(Siblings(s, p)) \subseteq Movies
           /\ \A c \in Range(Siblings(s, p)) : s.parent[c] = p /\ Lives(s, c)
           /\ \A c : ~Before(Siblings(s, p), c, c)
           /\ p # None /\ Range(Siblings(s, p)) # {} => Lives(s, p)
<1>1. s.list \in [Movies -> Seq(Movies)] /\ s.roots \in Seq(Movies)
  BY StageFields DEF Good
<1>2. Siblings(s, p) \in Seq(Movies)
  BY <1>1 DEF Siblings
<1>3. /\ Range(Siblings(s, p)) \subseteq Movies
      /\ \A x, y : Before(Siblings(s, p), x, y) => x \in Range(Siblings(s, p))
  BY <1>2, RangeFacts
<1>4. CASE p = None
  <2>1. Siblings(s, p) = s.roots
    BY <1>4 DEF Siblings
  <2>2. \A c \in Range(Siblings(s, p)) :
           s.parent[c] = p /\ Lives(s, c) /\ ~Before(Siblings(s, p), c, c)
    BY <1>4, <2>1 DEF Good, RootsOnce
  <2>3. QED
    BY <1>2, <1>3, <1>4, <2>2
<1>5. CASE p # None
  <2>1. Siblings(s, p) = s.list[p] /\ p \in Movies
    BY <1>5 DEF Siblings
  <2>2. \A c \in Range(Siblings(s, p)) :
           s.parent[c] = p /\ Lives(s, c) /\ Lives(s, p) /\ ~Before(Siblings(s, p), c, c)
    BY <2>1 DEF Good, ListedOnce
  <2>3. QED
    BY <1>2, <1>3, <2>2
<1>6. QED
  BY <1>4, <1>5

\* A change of the timeline after one of the siblings.
LEMMA PlacedElsewhere ==
    ASSUME NEW s, NEW t, NEW p, NEW seq, Good(t, {}), Lists(s, t, p, seq), NEW x \in SUBSET Movies
    PROVE  LET u == [t EXCEPT !.timeline = x]
           IN  Good(u, {}) /\ Evolves(s, u) /\ u.state = s.state /\ u.parent = s.parent
<1> DEFINE u == [t EXCEPT !.timeline = x]
<1>1. t \in Stages
  BY DEF Good
<1>2. /\ u \in Stages /\ u.state = t.state /\ u.parent = t.parent /\ u.list = t.list
      /\ u.roots = t.roots /\ u.actors = t.actors /\ u.queue = t.queue
  BY <1>1, TimelineChange
<1> HIDE DEF u
<1>3. Good(u, {})
  BY <1>2, GoodElsewhere
<1>4. u.state = s.state /\ u.parent = s.parent /\ u.queue = s.queue
  BY <1>2 DEF Lists
<1>5. QED
  BY <1>3, <1>4, SameEvolves DEF u

LEMMA MoveToFacts ==
    ASSUME NEW s, Good(s, {}), NEW m \in Movies,
           m \in Range(Siblings(s, s.parent[m])), NEW depth \in DOMAIN Siblings(s, s.parent[m]),
           NEW byTimeline \in BOOLEAN
    PROVE  LET u == MoveTo(s, m, depth, byTimeline)
           IN  Good(u, {}) /\ Evolves(s, u) /\ u.state = s.state /\ u.parent = s.parent
<1> DEFINE p == s.parent[m]
           q == Siblings(s, p)
           others == Without(q, {m})
           seq == InsertAt(others, depth, m)
           t == Place(s, p, seq)
           x == IF byTimeline THEN t.timeline \cup {m} ELSE t.timeline \ {m}
<1>1. s \in Stages
  BY DEF Good
<1>2. p \in Movies \cup {None}
  BY <1>1, StageFields
<1>3. MoveTo(s, m, depth, byTimeline) = [t EXCEPT !.timeline = x]
  BY DEF MoveTo
<1> HIDE DEF p, q
<1>4. /\ q \in Seq(Movies) /\ Range(q) \subseteq Movies /\ \A c : ~Before(q, c, c)
      /\ m \in Range(q) /\ depth \in DOMAIN q
  BY <1>2, SiblingsFacts DEF q, p
<1>5. /\ others \in Seq(Movies)
      /\ Range(others) = Range(q) \ {m}
      /\ \A a, b : Before(others, a, b) => Before(q, a, b)
  BY <1>4, WithoutOrder
<1>6. Len(others) = Len(q) - 1
  BY <1>4, WithoutLength
<1> HIDE DEF others
<1>7. depth \in 1..Len(others) + 1
  BY <1>4, <1>5, <1>6
<1>8. /\ seq \in Seq(Movies)
      /\ Range(seq) = Range(others) \cup {m}
      /\ \A a, b : Before(seq, a, b) =>
            \/ Before(others, a, b)
            \/ a = m /\ b \in Range(others)
            \/ b = m /\ a \in Range(others)
  BY <1>5, <1>7, InsertOrder
<1> HIDE DEF seq
<1>9. \A n \in Movies : ~Before(seq, n, n)
  BY <1>4, <1>5, <1>8
<1>10. Good(t, {}) /\ Lists(s, t, p, seq)
  <2>1. Range(seq) = Range(Siblings(s, p))
    BY <1>4, <1>5, <1>8 DEF q
  <2>2. Range(seq) \subseteq Range(Siblings(s, p)) /\ Range(Siblings(s, p)) \ Range(seq) \subseteq {}
    BY <2>1
  <2>3. QED
    BY <1>2, <1>8, <1>9, <2>2, PlaceFacts
<1> HIDE DEF t
<1>11. x \in SUBSET Movies
  <2>1. t.timeline \in SUBSET Movies
    BY <1>10, StageFields DEF Good
  <2>2. QED
    BY <2>1
<1> HIDE DEF x
<1>12. QED
  BY <1>3, <1>10, <1>11, PlacedElsewhere

LEMMA SwapWithFacts ==
    ASSUME NEW s, Good(s, {}), NEW m \in Movies,
           m \in Range(Siblings(s, s.parent[m])),
           NEW other \in Range(Siblings(s, s.parent[m])) \ {m}
    PROVE  LET u == SwapWith(s, m, other)
           IN  Good(u, {}) /\ Evolves(s, u) /\ u.state = s.state /\ u.parent = s.parent
<1> DEFINE p == s.parent[m]
           q == Siblings(s, p)
           Other(n) == CASE n = m -> other [] n = other -> m [] OTHER -> n
           seq == [i \in DOMAIN q |-> Other(q[i])]
           t == Place(s, p, seq)
           x == {Other(n) : n \in s.timeline}
<1>1. s \in Stages
  BY DEF Good
<1>2. p \in Movies \cup {None} /\ s.timeline \in SUBSET Movies
  BY <1>1, StageFields
<1>3. SwapWith(s, m, other) = [t EXCEPT !.timeline = x]
  BY DEF SwapWith
<1> HIDE DEF p, q
<1>4. /\ q \in Seq(Movies) /\ Range(q) \subseteq Movies /\ \A c : ~Before(q, c, c)
      /\ m \in Range(q) /\ other \in Range(q) /\ other # m /\ other \in Movies
  BY <1>2, SiblingsFacts DEF q, p
<1>5. /\ \A n \in Movies : Other(n) \in Movies /\ Other(Other(n)) = n
      /\ \A n \in Range(q) : Other(n) \in Range(q)
  BY <1>4
<1>6. \A i \in 1..Len(q) : q[i] \in Range(q) /\ q[i] \in Movies
  BY <1>4, RangeFacts
<1>7. x \in SUBSET Movies
  BY <1>2, <1>5
<1> HIDE DEF Other, x
<1>8. /\ seq \in Seq(Movies) /\ Len(seq) = Len(q)
      /\ \A i \in 1..Len(q) : seq[i] = Other(q[i])
  <2>1. DOMAIN q = 1..Len(q) /\ Len(q) \in Nat
    BY <1>4
  <2>2. \A i \in 1..Len(q) : Other(q[i]) \in Movies
    BY <1>5, <1>6
  <2>3. seq = [i \in 1..Len(q) |-> Other(q[i])]
    BY <2>1
  <2>4. QED
    BY <2>1, <2>2, <2>3
<1> HIDE DEF seq
<1>9. Range(seq) = Range(q)
  <2>1. \A y \in Range(seq) : \E i \in 1..Len(q) : seq[i] = y
    BY <1>8, RangeFacts
  <2>2. \A i \in 1..Len(q) : seq[i] \in Range(seq)
    BY <1>8, RangeFacts
  <2>3. ASSUME NEW y \in Range(seq) PROVE y \in Range(q)
    <3>1. PICK i \in 1..Len(q) : seq[i] = y
      BY <2>1
    <3>2. QED
      BY <1>5, <1>6, <1>8, <3>1
  <2>4. ASSUME NEW y \in Range(q) PROVE y \in Range(seq)
    <3>1. Other(y) \in Range(q) /\ y \in Movies
      BY <1>4, <1>5
    <3>2. PICK i \in 1..Len(q) : q[i] = Other(y)
      BY <1>4, <3>1, RangeFacts
    <3>3. seq[i] = y
      BY <1>5, <1>8, <3>1, <3>2
    <3>4. QED
      BY <2>2, <3>3
  <2>5. QED
    BY <2>3, <2>4
<1>10. \A n \in Movies : ~Before(seq, n, n)
  <2>1. SUFFICES ASSUME NEW n \in Movies, Before(seq, n, n) PROVE FALSE
    OBVIOUS
  <2>2. PICK i, j \in 1..Len(q) : i < j /\ seq[i] = n /\ seq[j] = n
    BY <1>8, <2>1 DEF Before
  <2>3. q[i] = Other(n) /\ q[j] = Other(n)
    BY <1>5, <1>6, <1>8, <2>2
  <2>4. Before(q, Other(n), Other(n))
    BY <2>2, <2>3 DEF Before
  <2>5. QED
    BY <1>4, <2>4
<1>11. Good(t, {}) /\ Lists(s, t, p, seq)
  <2>1. Range(seq) \subseteq Range(Siblings(s, p)) /\ Range(Siblings(s, p)) \ Range(seq) \subseteq {}
    BY <1>9 DEF q
  <2>2. QED
    BY <1>2, <1>8, <1>10, <2>1, PlaceFacts
<1> HIDE DEF t
<1>12. QED
  BY <1>3, <1>7, <1>11, PlacedElsewhere

-----------------------------------------------------------------------------
(* The invariant *)

\* An action that waits in some queue.
Waits(s, a) == \E i \in Queues : a \in Range(s.queue[i])

\* The walk, or who comes after it.
Ahead(s, w, x) == x = w \/ Before(s.actors, w, x)

Phases == {"idle", "script", "actions", "start", "end", "disposed"}

VariablesTyped ==
    /\ phase \in Phases
    /\ running \in (Movies \X Events) \cup {None}
    /\ walk \in Movies \cup {None}
    /\ resume \in {"idle", "end"}
    /\ born \subseteq Movies

\* The loops stand on actors, and there is nobody to stand on outside of them.
WalkStands == walk # None => walk \in Range(stage.actors) /\ phase \in {"start", "end"}

\* An iteration starts and ends with nothing queued.
QueuesDone == phase \in {"idle", "end"} => \A a : ~Waits(stage, a)

\* Only those who were there at the start enter a frame, and those that the
\* loop has not met did not yet.
EntersBorn == \A m \in Movies : Has(stage, m, "enter") => m \in born
AheadWaits ==
    phase = "start" /\ walk # None =>
        \A x \in Movies : Ahead(stage, walk, x) => x \in born /\ ~Has(stage, x, "enter")

\* Nothing that comes first waits for a movie whose load handler runs.
LoadIsLast ==
    running # None =>
        /\ phase = "script"
        /\ stage.state[running[1]] # "unborn"
        /\ running[2] = "load" =>
              ~Waits(stage, <<running[1], "initialize">>) /\ ~Waits(stage, <<running[1], "construct">>)

MoviesInv ==
    /\ Good(stage, {})
    /\ VariablesTyped /\ WalkStands /\ QueuesDone /\ EntersBorn /\ AheadWaits /\ LoadIsLast

LEMMA QueuedWaits == \A a : a \in Queued <=> Waits(stage, a)
BY Zenon DEF Queued, Waits

LEMMA EmptyRange ==
    ASSUME NEW S, NEW seq \in Seq(S)
    PROVE  (seq = <<>>) <=> (Range(seq) = {})
<1>1. ASSUME seq = <<>> PROVE Range(seq) = {}
  <2>1. 1..Len(seq) = {}
    BY <1>1
  <2>2. QED
    BY <2>1, RangeFacts
<1>2. ASSUME seq # <<>> PROVE Range(seq) # {}
  BY <1>2, TailOrder
<1>3. QED
  BY <1>1, <1>2

\* The loops begin with the first actor.
LEMMA FirstActor ==
    ASSUME NEW seq \in Seq(Movies)
    PROVE  Head(seq \o <<None>>) = None \/ Head(seq \o <<None>>) \in Range(seq)
<1> DEFINE T == Movies \cup {None}
<1>1. seq \in Seq(T) /\ <<None>> \in Seq(T) /\ Len(<<None>>) = 1 /\ <<None>>[1] = None
  OBVIOUS
<1> HIDE DEF T
<1>2. /\ seq \o <<None>> \in Seq(T) /\ Len(seq) \in Nat
      /\ Len(seq \o <<None>>) = Len(seq) + 1
      /\ \A i \in 1..Len(seq) : (seq \o <<None>>)[i] = seq[i]
      /\ \A i \in Len(seq) + 1 .. Len(seq) + 1 : (seq \o <<None>>)[i] = <<None>>[i - Len(seq)]
  BY <1>1, ConcatFacts
<1>3. Head(seq \o <<None>>) = (seq \o <<None>>)[1]
  BY <1>2
<1>4. CASE Len(seq) = 0
  <2>1. (seq \o <<None>>)[1] = <<None>>[1]
    BY <1>2, <1>4
  <2>2. QED
    BY <1>1, <1>3, <2>1
<1>5. CASE Len(seq) # 0
  <2>1. 1 \in 1..Len(seq)
    BY <1>2, <1>5
  <2>2. (seq \o <<None>>)[1] = seq[1] /\ seq[1] \in Range(seq)
    BY <1>2, <2>1, RangeFacts
  <2>3. QED
    BY <1>3, <2>2
<1>6. QED
  BY <1>4, <1>5

\* They go on with the one behind.
LEMMA AfterFacts ==
    ASSUME NEW s, s.actors \in Seq(Movies), NEW m \in Range(s.actors)
    PROVE  \/ After(s, m) = None
           \/ After(s, m) \in Range(s.actors) /\ Before(s.actors, m, After(s, m))
<1> DEFINE T == Movies \cup {None}
           seq == s.actors
           i == CHOOSE j \in DOMAIN seq : seq[j] = m
<1>1. seq \in Seq(Movies) /\ DOMAIN seq = 1..Len(seq) /\ Len(seq) \in Nat
  OBVIOUS
<1>2. \E j \in 1..Len(seq) : seq[j] = m
  BY RangeFacts
<1>3. i \in 1..Len(seq) /\ seq[i] = m
  BY <1>1, <1>2
<1>4. Contains(seq, m)
  BY <1>2 DEF Contains
<1>5. After(s, m) = (seq \o <<None>>)[i + 1]
  BY <1>4 DEF After
<1> HIDE DEF seq, i
<1>6. seq \in Seq(T) /\ <<None>> \in Seq(T) /\ Len(<<None>>) = 1 /\ <<None>>[1] = None
  BY <1>1
<1> HIDE DEF T
<1>7. /\ Len(seq \o <<None>>) = Len(seq) + 1
      /\ \A j \in 1..Len(seq) : (seq \o <<None>>)[j] = seq[j]
      /\ \A j \in Len(seq) + 1 .. Len(seq) + 1 : (seq \o <<None>>)[j] = <<None>>[j - Len(seq)]
  BY <1>6, ConcatFacts
<1>8. CASE i = Len(seq)
  <2>1. i + 1 \in Len(seq) + 1 .. Len(seq) + 1 /\ i + 1 - Len(seq) = 1
    BY <1>1, <1>8
  <2>2. (seq \o <<None>>)[i + 1] = None
    BY <1>6, <1>7, <2>1
  <2>3. QED
    BY <1>5, <2>2
<1>9. CASE i # Len(seq)
  <2>1. i + 1 \in 1..Len(seq) /\ i < i + 1
    <3> DEFINE N == Len(seq)
    <3>1. N \in Nat /\ i \in 1..N /\ i # N
      BY <1>1, <1>3, <1>9
    <3> HIDE DEF N
    <3>2. i + 1 \in 1..N /\ i < i + 1
      BY <3>1
    <3>3. QED
      BY <3>2 DEF N
  <2>2. (seq \o <<None>>)[i + 1] = seq[i + 1] /\ seq[i + 1] \in Range(seq)
    BY <1>1, <1>7, <2>1, RangeFacts
  <2>3. Before(seq, m, seq[i + 1])
    BY <1>3, <2>1 DEF Before
  <2>4. QED
    BY <1>5, <2>2, <2>3 DEF seq
<1>10. QED
  BY <1>8, <1>9

\* An action is taken from its queue.
LEMMA TakeFacts ==
    ASSUME NEW s, Good(s, {}), NEW k \in Queues, s.queue[k] # <<>>
    PROVE  LET t == [s EXCEPT !.queue[k] = Tail(@)]
           IN  /\ Good(t, {})
               /\ t.state = s.state /\ t.actors = s.actors
               /\ \A i \in Queues : Range(t.queue[i]) \subseteq Range(s.queue[i])
               /\ Head(s.queue[k]) \in Range(s.queue[k])
<1> DEFINE t == [s EXCEPT !.queue[k] = Tail(@)]
           q == [s.queue EXCEPT ![k] = Tail(s.queue[k])]
<1>1. s \in Stages /\ s.queue \in [Queues -> Seq(Movies \X Events)]
  BY StageFields DEF Good
<1>2. /\ Tail(s.queue[k]) \in Seq(Movies \X Events)
      /\ Head(s.queue[k]) \in Range(s.queue[k])
      /\ Range(s.queue[k]) = Range(Tail(s.queue[k])) \cup {Head(s.queue[k])}
      /\ \A x, y : Before(Tail(s.queue[k]), x, y) => Before(s.queue[k], x, y)
  <2>1. s.queue[k] \in Seq(Movies \X Events)
    BY <1>1
  <2>2. QED
    BY <2>1, TailOrder
<1>3. /\ q \in [Queues -> Seq(Movies \X Events)]
      /\ \A i \in Queues : q[i] = IF i = k THEN Tail(s.queue[k]) ELSE s.queue[i]
  BY <1>1, <1>2
<1>4. t = [s EXCEPT !.queue = q]
  OBVIOUS
<1> HIDE DEF t, q
<1>5. /\ t \in Stages /\ t.state = s.state /\ t.parent = s.parent /\ t.list = s.list
      /\ t.roots = s.roots /\ t.actors = s.actors /\ t.queue = q
      /\ t.unload = s.unload /\ t.timeline = s.timeline
  BY <1>1, <1>3, <1>4, QueueChange
<1>6. ASSUME NEW i \in Queues
      PROVE  /\ Range(t.queue[i]) \subseteq Range(s.queue[i])
             /\ \A x, y : Before(t.queue[i], x, y) => Before(s.queue[i], x, y)
  <2>1. CASE i = k
    BY <1>2, <1>3, <1>5, <2>1
  <2>2. CASE i # k
    BY <1>3, <1>5, <2>2
  <2>3. QED
    BY <2>1, <2>2
<1>7. \A m : Lives(t, m) <=> Lives(s, m)
  BY <1>5 DEF Lives
<1>8. ActorsLive(t) /\ ParentsLast(t)
  BY <1>5, <1>7 DEF Good, ActorsLive, ParentsLast
<1>9. ListedOnce(t) /\ RootsOnce(t)
  BY <1>5, <1>7 DEF Good, ListedOnce, RootsOnce
<1>10. RunningListed(t, {})
  BY <1>5 DEF Good, RunningListed, Siblings
<1>11. QueuesLive(t)
  <2>1. ASSUME NEW i \in Queues, NEW a \in Range(t.queue[i])
        PROVE  Lives(t, a[1]) /\ Importance(a[2]) = i
    <3>1. a \in Range(s.queue[i])
      BY <1>6
    <3>2. QED
      BY <1>7, <3>1 DEF Good, QueuesLive
  <2>2. QED
    BY <2>1 DEF QueuesLive
<1>12. QueuedOnce(t)
  <2>1. 2 \in Queues
    BY DEF Queues
  <2>2. /\ Range(t.queue[2]) \subseteq Range(s.queue[2])
        /\ \A x, y : Before(t.queue[2], x, y) => Before(s.queue[2], x, y)
    BY <1>6, <2>1
  <2>3. QED
    BY <1>5, <2>2 DEF Good, QueuedOnce, Twice, Has
<1>13. Good(t, {})
  BY <1>5, <1>8, <1>9, <1>10, <1>11, <1>12 DEF Good
<1>14. QED
  BY <1>2, <1>5, <1>6, <1>13 DEF t

-----------------------------------------------------------------------------
(* Every step keeps the invariant *)

\* What an evolution leaves out of the queues.
LEMMA NotWaitingEvolves ==
    ASSUME NEW s, NEW t, Evolves(s, t), NEW m \in Movies, NEW e
    PROVE  /\ e = "enter" /\ Waits(t, <<m, e>>) => Waits(s, <<m, e>>)
           /\ s.state[m] # "unborn" /\ e # "unload" /\ Waits(t, <<m, e>>) => Waits(s, <<m, e>>)
           /\ e = "enter" /\ Has(t, m, e) => Has(s, m, e)
<1>1. ASSUME NEW i \in Queues, <<m, e>> \in Range(t.queue[i]),
             e = "enter" \/ (s.state[m] # "unborn" /\ e # "unload")
      PROVE  <<m, e>> \in Range(s.queue[i])
  <2>1. \/ <<m, e>> \in Range(s.queue[i])
        \/ <<m, e>>[2] = "unload"
        \/ <<m, e>>[2] # "enter" /\ s.state[<<m, e>>[1]] = "unborn"
    BY <1>1 DEF Evolves
  <2>2. <<m, e>>[1] = m /\ <<m, e>>[2] = e
    OBVIOUS
  <2>3. QED
    BY <1>1, <2>1, <2>2
<1>2. 2 \in Queues
  BY DEF Queues
<1>3. QED
  BY <1>1, <1>2 DEF Waits, Has

\* A step of a script.
LEMMA ScriptStep ==
    ASSUME MoviesInv, phase = "script", Good(stage', {}), Evolves(stage, stage'),
           UNCHANGED <<phase, running, walk, resume, born>>
    PROVE  MoviesInv'
<1>1. VariablesTyped' /\ WalkStands' /\ QueuesDone' /\ AheadWaits'
  BY DEF MoviesInv, VariablesTyped, WalkStands, QueuesDone, AheadWaits
<1>2. EntersBorn'
  BY NotWaitingEvolves DEF MoviesInv, EntersBorn
<1>3. LoadIsLast'
  <2>1. SUFFICES ASSUME running # None
                 PROVE  /\ stage'.state[running[1]] # "unborn"
                        /\ running[2] = "load" =>
                              /\ ~Waits(stage', <<running[1], "initialize">>)
                              /\ ~Waits(stage', <<running[1], "construct">>)
    BY DEF LoadIsLast
  <2>2. running[1] \in Movies /\ stage.state[running[1]] # "unborn"
    BY <2>1 DEF MoviesInv, VariablesTyped, LoadIsLast
  <2>3. stage'.state[running[1]] # "unborn"
    BY <2>2 DEF Evolves
  <2>4. ASSUME running[2] = "load", NEW e \in {"initialize", "construct"}
        PROVE  ~Waits(stage', <<running[1], e>>)
    <3>1. ~Waits(stage, <<running[1], e>>)
      BY <2>1, <2>4 DEF MoviesInv, LoadIsLast
    <3>2. e # "unload"
      OBVIOUS
    <3>3. QED
      BY <2>2, <3>1, <3>2, NotWaitingEvolves
  <2>5. QED
    BY <2>3, <2>4
<1>4. QED
  BY <1>1, <1>2, <1>3 DEF MoviesInv

LEMMA InitFacts == Init => MoviesInv
<1> SUFFICES ASSUME Init PROVE MoviesInv
  OBVIOUS
<1> DEFINE a == [m \in Movies |-> IF m = Root THEN "running" ELSE "unborn"]
           b == [m \in Movies |-> None]
           l == [m \in Movies |-> <<>>]
           q == [i \in Queues |-> <<>>]
<1>1. stage = [state |-> a, parent |-> b, list |-> l, roots |-> <<Root>>,
               actors |-> <<Root>>, queue |-> q, unload |-> {}, timeline |-> {Root}]
  BY DEF Init
<1>2. a \in [Movies -> States] /\ b \in [Movies -> Movies \cup {None}]
  BY DEF States
<1>3. l \in [Movies -> Seq(Movies)] /\ q \in [Queues -> Seq(Movies \X Events)]
  <2>1. <<>> \in Seq(Movies) /\ <<>> \in Seq(Movies \X Events)
    OBVIOUS
  <2>2. QED
    BY <2>1
<1>4. <<Root>> \in Seq(Movies) /\ {Root} \in SUBSET Movies /\ {} \in SUBSET Movies
  BY MovieAssumption
<1>5. /\ \A m \in Movies : a[m] = IF m = Root THEN "running" ELSE "unborn"
      /\ \A m \in Movies : b[m] = None
      /\ \A m \in Movies : l[m] = <<>>
      /\ \A i \in Queues : q[i] = <<>>
  OBVIOUS
<1> HIDE DEF a, b, l, q
<1>6. /\ stage \in Stages /\ stage.state = a /\ stage.parent = b /\ stage.list = l
      /\ stage.roots = <<Root>> /\ stage.actors = <<Root>> /\ stage.queue = q
  BY <1>1, <1>2, <1>3, <1>4 DEF Stages
<1>7. /\ Range(<<Root>>) = {Root}
      /\ \A x, y : ~Before(<<Root>>, x, y)
  <2>1. 1..Len(<<Root>>) = {1} /\ <<Root>>[1] = Root /\ <<Root>> \in Seq(Movies)
    BY <1>4
  <2>2. Range(<<Root>>) = {Root}
    <3>1. \A x \in Range(<<Root>>) : \E i \in 1..Len(<<Root>>) : <<Root>>[i] = x
      BY <2>1, RangeFacts
    <3>2. \A i \in 1..Len(<<Root>>) : <<Root>>[i] \in Range(<<Root>>)
      BY <2>1, RangeFacts
    <3>3. QED
      BY <2>1, <3>1, <3>2
  <2>3. \A x, y : ~Before(<<Root>>, x, y)
    <3>1. SUFFICES ASSUME NEW x, NEW y, Before(<<Root>>, x, y) PROVE FALSE
      OBVIOUS
    <3>2. PICK i, j \in {1} : i < j
      BY <2>1, <3>1 DEF Before
    <3>3. QED
      BY <3>2
  <2>4. QED
    BY <2>2, <2>3
<1>8. /\ \A i \in Queues : Range(stage.queue[i]) = {} /\ \A x, y : ~Before(stage.queue[i], x, y)
      /\ \A m \in Movies : Range(stage.list[m]) = {}
  <2>1. <<>> \in Seq(Movies) /\ <<>> \in Seq(Movies \X Events) /\ 1..Len(<<>>) = {}
    OBVIOUS
  <2>2. Range(<<>>) = {}
    BY <2>1, EmptyRange
  <2>3. \A x, y : ~Before(<<>>, x, y)
    BY <2>1 DEF Before
  <2>4. QED
    BY <1>5, <1>6, <2>2, <2>3
<1>9. ActorsLive(stage)
  <2>1. {m \in Movies : Lives(stage, m)} = {Root}
    BY <1>5, <1>6, MovieAssumption DEF Lives
  <2>2. QED
    BY <1>6, <1>7, <2>1 DEF ActorsLive
<1>10. ParentsLast(stage)
  BY <1>5, <1>6 DEF ParentsLast
<1>11. ListedOnce(stage)
  BY <1>8 DEF ListedOnce
<1>12. RootsOnce(stage)
  BY <1>5, <1>6, <1>7, MovieAssumption DEF RootsOnce, Lives
<1>13. RunningListed(stage, {})
  <2>1. SUFFICES ASSUME NEW m \in Movies, stage.state[m] = "running"
                 PROVE  m \in Range(Siblings(stage, stage.parent[m]))
    BY DEF RunningListed
  <2>2. m = Root /\ stage.parent[m] = None
    BY <1>5, <1>6, <2>1
  <2>3. QED
    BY <1>6, <1>7, <2>2 DEF Siblings
<1>14. QueuesLive(stage)
  BY <1>8 DEF QueuesLive
<1>15. QueuedOnce(stage) /\ \A m \in Movies : ~Has(stage, m, "enter")
  <2>1. 2 \in Queues
    BY DEF Queues
  <2>2. QED
    BY <1>8, <2>1 DEF QueuedOnce, Twice, Has
<1>16. Good(stage, {})
  BY <1>6, <1>9, <1>10, <1>11, <1>12, <1>13, <1>14, <1>15 DEF Good
<1>17. VariablesTyped /\ WalkStands /\ AheadWaits /\ LoadIsLast
  BY MovieAssumption DEF Init, VariablesTyped, Phases, WalkStands, AheadWaits, LoadIsLast
<1>18. QueuesDone /\ EntersBorn
  BY <1>8, <1>15 DEF QueuesDone, Waits, EntersBorn
<1>19. QED
  BY <1>16, <1>17, <1>18 DEF MoviesInv

LEMMA CreateClipStep ==
    ASSUME MoviesInv, NEW m \in Movies, NEW parent \in Movies, NEW occupant \in Movies \cup {None},
           NEW events \in BOOLEAN, CreateClip(m, parent, occupant, events)
    PROVE  MoviesInv'
<1> DEFINE s == IF occupant = None THEN stage ELSE RemoveMovie(stage, occupant)
<1>1. /\ phase = "script" /\ m \in Unborn /\ Exists(parent)
      /\ occupant \in Range(stage.list[parent]) \cup {None}
      /\ UNCHANGED <<phase, running, walk, resume, born>>
  BY DEF CreateClip, InScript
<1>2. PICK depth \in Depths(s, parent), byTimeline \in BOOLEAN :
         LET new == NewMovie(s, m, parent, depth, byTimeline)
         IN  stage' = IF events THEN QueueScript(QueueScript(new, m, "initialize"), m, "load")
                                ELSE new
  BY DEF CreateClip
<1> DEFINE new == NewMovie(s, m, parent, depth, byTimeline)
           q1 == QueueScript(new, m, "initialize")
           q2 == QueueScript(q1, m, "load")
<1>3. stage' = IF events THEN q2 ELSE new
  BY <1>2
<1>4. Good(stage, {}) /\ stage \in Stages /\ Lives(stage, parent) /\ stage.state[m] = "unborn"
  BY <1>1 DEF MoviesInv, Good, Exists, Lives, Unborn
<1> HIDE DEF s
<1>5. Good(s, {}) /\ Evolves(stage, s) /\ Lives(s, parent) /\ s.state[m] = "unborn" /\ s \in Stages
  <2>1. CASE occupant = None
    <3>1. s = stage
      BY <2>1 DEF s
    <3>2. QED
      BY <1>4, <3>1, SameEvolves
  <2>2. CASE occupant # None
    <3>1. s = RemoveMovie(stage, occupant)
      BY <2>2 DEF s
    <3>2. occupant \in Movies /\ occupant \in Range(stage.list[parent])
      BY <1>1, <2>2
    <3>3. stage.parent[occupant] = parent /\ Lives(stage, occupant)
      BY <1>4, <3>2 DEF Good, ListedOnce
    <3>4. Good(s, {}) /\ Removes(stage, s, Subtrees(stage, {occupant}))
      BY <1>4, <3>1, <3>2, FiniteAssumption, RemoveMovieFacts
    <3>5. parent \notin Subtrees(stage, {occupant})
      BY <1>4, <3>2, <3>3, ParentStays
    <3>6. Lives(s, parent) /\ s.state[m] = "unborn"
      BY <1>4, <3>4, <3>5 DEF Removes, Lives
    <3>7. Evolves(stage, s)
      BY <3>4, RemovingEvolves
    <3>8. QED
      BY <3>4, <3>6, <3>7 DEF Good
  <2>3. QED
    BY <2>1, <2>2
<1>6. Good(new, {}) /\ Places(s, new, m, parent)
  BY <1>5, NewMoviePlaces
<1> HIDE DEF new
<1>7. Lives(new, m)
  <2>1. s.state \in [Movies -> States]
    BY <1>5, StageFields
  <2>2. QED
    BY <1>6, <2>1 DEF Places, Lives
<1>8. Good(q1, {}) /\ Handles(new, q1, m)
  <2>1. "initialize" \in Handlers
    BY DEF Handlers
  <2>2. QED
    BY <1>6, <1>7, <2>1, QueueHandlerFacts
<1> HIDE DEF q1
<1>9. Good(q2, {}) /\ Handles(q1, q2, m)
  <2>1. Lives(q1, m) /\ "load" \in Handlers
    BY <1>7, <1>8 DEF Handlers, Handles, Lives
  <2>2. QED
    BY <1>8, <2>1, QueueHandlerFacts
<1> HIDE DEF q2
<1>10. Good(stage', {}) /\ Places(s, stage', m, parent)
  <2>1. Places(s, q2, m, parent)
    BY <1>6, <1>8, <1>9, HandledPlaces
  <2>2. CASE events
    BY <1>3, <1>9, <2>1, <2>2
  <2>3. CASE ~events
    BY <1>3, <1>6, <2>3
  <2>4. QED
    BY <2>2, <2>3
<1>11. Evolves(s, stage')
  BY <1>5, <1>10, PlacingEvolves
<1>12. Evolves(stage, stage')
  <2>1. stage' \in Stages
    BY <1>10 DEF Good
  <2>2. QED
    BY <1>5, <1>11, <2>1, EvolvesInTurn
<1>13. QED
  BY <1>1, <1>10, <1>12, ScriptStep

LEMMA RemoveClipStep ==
    ASSUME MoviesInv, NEW m \in Movies, RemoveClip(m)
    PROVE  MoviesInv'
<1>1. /\ phase = "script" /\ stage' = RemoveMovie(stage, m) /\ Good(stage, {})
      /\ UNCHANGED <<phase, running, walk, resume, born>>
  BY DEF RemoveClip, InScript, MoviesInv
<1>2. Good(stage', {}) /\ Removes(stage, stage', Subtrees(stage, {m}))
  BY <1>1, FiniteAssumption, RemoveMovieFacts
<1>3. Evolves(stage, stage')
  BY <1>2, RemovingEvolves
<1>4. QED
  BY <1>1, <1>2, <1>3, ScriptStep

LEMMA GotoFrameStep ==
    ASSUME MoviesInv, NEW m \in Movies, GotoFrame(m)
    PROVE  MoviesInv'
<1>1. /\ phase = "script" /\ stage' \in Goto(stage, m) /\ stage.state[m] = "running"
      /\ Good(stage, {}) /\ \A n \in Unborn : stage.state[n] = "unborn"
      /\ UNCHANGED <<phase, running, walk, resume, born>>
  BY DEF GotoFrame, InScript, Running, Unborn, MoviesInv
<1>2. Good(stage', {}) /\ Evolves(stage, stage')
  BY <1>1, FiniteAssumption, GotoFacts
<1>3. QED
  BY <1>1, <1>2, ScriptStep

LEMMA SetHandlerStep ==
    ASSUME MoviesInv, NEW m \in Movies, SetHandler(m)
    PROVE  MoviesInv'
<1> DEFINE x == IF m \in stage.unload THEN stage.unload \ {m} ELSE stage.unload \cup {m}
<1>1. /\ phase = "script" /\ Good(stage, {}) /\ stage \in Stages
      /\ UNCHANGED <<phase, running, walk, resume, born>>
  BY DEF SetHandler, InScript, MoviesInv, Good
<1>2. stage' = [stage EXCEPT !.unload = x]
  BY DEF SetHandler
<1>3. x \in SUBSET Movies
  <2>1. stage.unload \in SUBSET Movies
    BY <1>1, StageFields
  <2>2. QED
    BY <2>1
<1> HIDE DEF x
<1>4. /\ stage' \in Stages /\ stage'.state = stage.state /\ stage'.parent = stage.parent
      /\ stage'.list = stage.list /\ stage'.roots = stage.roots
      /\ stage'.actors = stage.actors /\ stage'.queue = stage.queue
  <2> DEFINE t == [stage EXCEPT !.unload = x]
  <2>1. /\ t \in Stages /\ t.state = stage.state /\ t.parent = stage.parent
        /\ t.list = stage.list /\ t.roots = stage.roots
        /\ t.actors = stage.actors /\ t.queue = stage.queue
    BY <1>1, <1>3, UnloadChange
  <2>2. QED
    BY <1>2, <2>1
<1>5. Good(stage', {}) /\ Evolves(stage, stage')
  BY <1>1, <1>4, GoodElsewhere, SameEvolves
<1>6. QED
  BY <1>1, <1>5, ScriptStep

LEMMA SwapDepthsFacts ==
    ASSUME MoviesInv, NEW m \in Movies, SwapDepths(m)
    PROVE  /\ Good(stage', {}) /\ Evolves(stage, stage')
           /\ stage'.state = stage.state /\ stage'.parent = stage.parent
<1> DEFINE siblings == Siblings(stage, stage.parent[m])
<1>1. /\ Good(stage, {})
      /\ Contains(siblings, m)
      /\ \/ \E other \in Range(siblings) \ {m} : stage' = SwapWith(stage, m, other)
         \/ \E depth \in DOMAIN siblings, byTimeline \in BOOLEAN :
              stage' = MoveTo(stage, m, depth, byTimeline)
  BY DEF SwapDepths, InScript, MoviesInv
<1>2. m \in Range(siblings)
  <2>1. stage.parent[m] \in Movies \cup {None}
    BY <1>1, StageFields DEF Good
  <2>2. siblings \in Seq(Movies)
    BY <1>1, <2>1, SiblingsFacts
  <2>3. PICK i \in 1..Len(siblings) : siblings[i] = m
    BY <1>1 DEF Contains
  <2>4. QED
    BY <2>2, <2>3, RangeFacts
<1>3. QED
  <2>1. CASE \E other \in Range(siblings) \ {m} : stage' = SwapWith(stage, m, other)
    BY <1>1, <1>2, <2>1, SwapWithFacts
  <2>2. CASE \E depth \in DOMAIN siblings, byTimeline \in BOOLEAN :
                stage' = MoveTo(stage, m, depth, byTimeline)
    BY <1>1, <1>2, <2>2, MoveToFacts
  <2>3. QED
    BY <1>1, <2>1, <2>2
LEMMA SwapDepthsStep ==
    ASSUME MoviesInv, NEW m \in Movies, SwapDepths(m)
    PROVE  MoviesInv'
<1>1. phase = "script" /\ UNCHANGED <<phase, running, walk, resume, born>>
  BY DEF SwapDepths, InScript
<1>2. QED
  BY <1>1, SwapDepthsFacts, ScriptStep

\* The new movie is created among the siblings of the old one.
LEMMA ReplaceMovieFacts ==
    ASSUME MoviesInv, NEW m \in Movies, NEW new \in Movies, ReplaceMovie(m, new)
    PROVE  /\ stage.parent[m] \in Movies \cup {None}
           /\ stage.parent[m] # None => Lives(stage, stage.parent[m])
           /\ stage.state[new] = "unborn"
           /\ \E depth \in Depths(stage, stage.parent[m]), byTimeline \in BOOLEAN :
                 stage' = RemoveMovie(NewMovie(stage, new, stage.parent[m], depth, byTimeline), m)
<1> DEFINE p == stage.parent[m]
           siblings == Siblings(stage, p)
           at == CHOOSE i \in DOMAIN siblings : siblings[i] = m
           byTimeline == m \in stage.timeline
           copy == NewMovie(stage, new, p, at, byTimeline)
<1>1. /\ Good(stage, {}) /\ stage.state[new] = "unborn"
      /\ Contains(siblings, m) /\ stage' = RemoveMovie(copy, m)
  BY DEF ReplaceMovie, InScript, MoviesInv, Unborn
<1>2. p \in Movies \cup {None} /\ stage \in Stages
  BY <1>1, StageFields DEF Good
<1> HIDE DEF p
<1>3. siblings \in Seq(Movies) /\ (p # None /\ Range(siblings) # {} => Lives(stage, p))
  BY <1>1, <1>2, SiblingsFacts
<1>4. at \in 1..Len(siblings) /\ siblings[at] = m
  <2>1. \E i \in 1..Len(siblings) : siblings[i] = m
    BY <1>1 DEF Contains
  <2>2. DOMAIN siblings = 1..Len(siblings)
    BY <1>3
  <2>3. QED
    BY <2>1, <2>2
<1> HIDE DEF at
<1>5. at \in Depths(stage, p) /\ (p # None => Lives(stage, p))
  <2>1. m \in Range(siblings)
    BY <1>3, <1>4, RangeFacts
  <2>2. at \in 1..Len(siblings) + 1
    <3> DEFINE N == Len(siblings)
    <3>1. N \in Nat /\ at \in 1..N
      BY <1>3, <1>4
    <3> HIDE DEF N
    <3>2. at \in 1..N + 1
      BY <3>1
    <3>3. QED
      BY <3>2 DEF N
  <2>3. QED
    BY <1>3, <2>1, <2>2 DEF Depths
<1>6. byTimeline \in BOOLEAN
  OBVIOUS
<1> HIDE DEF byTimeline
<1>7. QED
  BY <1>1, <1>2, <1>5, <1>6 DEF p

LEMMA ReplaceMovieStep ==
    ASSUME MoviesInv, NEW m \in Movies, NEW new \in Movies, ReplaceMovie(m, new)
    PROVE  MoviesInv'
<1> DEFINE p == stage.parent[m]
<1>1. /\ phase = "script" /\ Good(stage, {}) /\ stage \in Stages
      /\ UNCHANGED <<phase, running, walk, resume, born>>
  BY DEF ReplaceMovie, InScript, MoviesInv, Good
<1>2. PICK depth \in Depths(stage, p), byTimeline \in BOOLEAN :
         stage' = RemoveMovie(NewMovie(stage, new, p, depth, byTimeline), m)
  BY ReplaceMovieFacts
<1>3. p \in Movies \cup {None} /\ (p # None => Lives(stage, p)) /\ stage.state[new] = "unborn"
  BY ReplaceMovieFacts
<1> DEFINE copy == NewMovie(stage, new, p, depth, byTimeline)
<1> HIDE DEF p
<1>4. Good(copy, {}) /\ Places(stage, copy, new, p)
  BY <1>1, <1>3, NewMoviePlaces
<1>5. stage' = RemoveMovie(copy, m)
  BY <1>2
<1> HIDE DEF copy
<1>6. Good(stage', {}) /\ Removes(copy, stage', Subtrees(copy, {m}))
  BY <1>4, <1>5, FiniteAssumption, RemoveMovieFacts
<1>7. Evolves(stage, copy) /\ Evolves(copy, stage')
  BY <1>1, <1>3, <1>4, <1>6, PlacingEvolves, RemovingEvolves
<1>8. Evolves(stage, stage')
  <2>1. stage' \in Stages
    BY <1>6 DEF Good
  <2>2. QED
    BY <1>7, <2>1, EvolvesInTurn
<1>9. QED
  BY <1>1, <1>6, <1>8, ScriptStep

LEMMA RunActionStep ==
    ASSUME MoviesInv, RunAction
    PROVE  MoviesInv'
<1> DEFINE k == NextQueue
           action == Head(stage.queue[k])
           ignored == action[2] = "enter" /\ stage.state[action[1]] # "running"
<1>1. /\ phase = "actions" /\ Queued # {} /\ Good(stage, {}) /\ stage \in Stages
      /\ UNCHANGED <<walk, resume, born>>
  BY DEF RunAction, MoviesInv, Good
<1>2. /\ stage' = [stage EXCEPT !.queue[k] = Tail(@)]
      /\ running' = IF ignored THEN None ELSE action
      /\ phase' = IF ignored THEN "actions" ELSE "script"
  BY DEF RunAction
<1>3. walk = None
  BY <1>1 DEF MoviesInv, WalkStands
<1>4. \A i \in Queues : stage.queue[i] \in Seq(Movies \X Events)
  BY <1>1, StageFields
<1>5. /\ k \in Queues /\ stage.queue[k] # <<>>
      /\ \A i \in Queues : i < k => stage.queue[i] = <<>>
  <2> DEFINE K == {i \in Queues : stage.queue[i] # <<>>}
  <2>1. K \in SUBSET Nat
    BY DEF Queues
  <2>2. K # {}
    <3>1. PICK a \in Queued : TRUE
      BY <1>1
    <3>2. PICK i \in Queues : a \in Range(stage.queue[i])
      BY <3>1, QueuedWaits DEF Waits
    <3>3. stage.queue[i] # <<>>
      BY <1>4, <3>2, EmptyRange
    <3>4. QED
      BY <3>3
  <2>3. k = Min(K)
    BY DEF NextQueue
  <2>4. k \in K /\ \A i \in K : k <= i
    BY <2>1, <2>2, <2>3, MinFacts
  <2>5. \A i \in Queues : i < k => stage.queue[i] = <<>>
    BY <2>1, <2>4 DEF Queues
  <2>6. QED
    BY <2>4, <2>5
<1> HIDE DEF k
<1>6. /\ Good(stage', {})
      /\ stage'.state = stage.state /\ stage'.actors = stage.actors
      /\ \A i \in Queues : Range(stage'.queue[i]) \subseteq Range(stage.queue[i])
      /\ action \in Range(stage.queue[k])
  <2> DEFINE t == [stage EXCEPT !.queue[k] = Tail(@)]
  <2>1. /\ Good(t, {})
        /\ t.state = stage.state /\ t.actors = stage.actors
        /\ \A i \in Queues : Range(t.queue[i]) \subseteq Range(stage.queue[i])
        /\ Head(stage.queue[k]) \in Range(stage.queue[k])
    BY <1>1, <1>5, TakeFacts
  <2>2. stage' = t
    BY <1>2
  <2> HIDE DEF t
  <2>3. QED
    BY <2>1, <2>2
<1> HIDE DEF action
<1>7. /\ action \in Movies \X Events /\ Lives(stage, action[1]) /\ Importance(action[2]) = k
  <2>1. stage.queue[k] \in Seq(Movies \X Events)
    BY <1>4, <1>5
  <2>2. action \in Movies \X Events
    BY <1>6, <2>1, RangeFacts
  <2>3. QED
    BY <1>1, <1>5, <1>6, <2>2 DEF Good, QueuesLive
<1>8. VariablesTyped'
  BY <1>1, <1>2, <1>7 DEF MoviesInv, VariablesTyped, Phases
<1>9. WalkStands' /\ AheadWaits' /\ QueuesDone'
  BY <1>1, <1>2, <1>3 DEF WalkStands, AheadWaits, QueuesDone
<1>10. EntersBorn'
  <2>1. 2 \in Queues
    BY DEF Queues
  <2>2. QED
    BY <1>1, <1>6, <2>1 DEF MoviesInv, EntersBorn, Has
<1>11. LoadIsLast'
  <2>1. CASE ignored
    BY <1>2, <2>1 DEF LoadIsLast
  <2>2. CASE ~ignored
    <3>1. running' = action /\ phase' = "script"
      BY <1>2, <2>2
    <3>2. stage'.state[action[1]] # "unborn"
      BY <1>6, <1>7 DEF Lives
    <3>3. ASSUME action[2] = "load", NEW e \in {"initialize", "construct"},
                 Waits(stage', <<action[1], e>>)
          PROVE  FALSE
      <4>1. k = 2
        BY <1>7, <3>3 DEF Importance
      <4>2. PICK i \in Queues : <<action[1], e>> \in Range(stage'.queue[i])
        BY <3>3 DEF Waits
      <4>3. <<action[1], e>> \in Range(stage.queue[i])
        BY <1>6, <4>2
      <4>4. Importance(<<action[1], e>>[2]) = i
        BY <1>1, <4>3 DEF Good, QueuesLive
      <4>5. i < 2
        BY <4>4 DEF Importance
      <4>6. stage.queue[i] = <<>>
        BY <1>5, <4>1, <4>5
      <4>7. QED
        BY <1>4, <4>3, <4>6, EmptyRange
    <3>4. QED
      BY <3>1, <3>2, <3>3 DEF LoadIsLast
  <2>3. QED
    BY <2>1, <2>2
<1>12. QED
  BY <1>6, <1>8, <1>9, <1>10, <1>11 DEF MoviesInv

LEMMA EndScriptStep ==
    ASSUME MoviesInv, EndScript
    PROVE  MoviesInv'
<1>1. /\ Good(stage', {}) /\ EntersBorn'
  BY DEF EndScript, MoviesInv, EntersBorn
<1>2. VariablesTyped' /\ WalkStands' /\ QueuesDone' /\ AheadWaits' /\ LoadIsLast'
  BY DEF EndScript, MoviesInv, VariablesTyped, Phases, WalkStands, QueuesDone, AheadWaits, LoadIsLast
<1>3. QED
  BY <1>1, <1>2 DEF MoviesInv

LEMMA EndActionsStep ==
    ASSUME MoviesInv, EndActions
    PROVE  MoviesInv'
<1> DEFINE first == Head(stage.actors \o <<None>>)
<1>1. /\ phase = "actions" /\ Queued = {} /\ phase' = resume /\ resume' = "idle"
      /\ walk' = IF resume = "end" THEN first ELSE None
      /\ UNCHANGED <<stage, running, born>> /\ resume \in {"idle", "end"}
  BY DEF EndActions, MoviesInv, VariablesTyped
<1>2. stage.actors \in Seq(Movies)
  BY StageFields DEF MoviesInv, Good
<1>3. first = None \/ first \in Range(stage.actors)
  BY <1>2, FirstActor
<1>4. Range(stage.actors) \subseteq Movies
  BY <1>2, RangeFacts
<1> HIDE DEF first
<1>5. VariablesTyped' /\ WalkStands'
  BY <1>1, <1>3, <1>4 DEF MoviesInv, VariablesTyped, Phases, WalkStands
<1>6. QueuesDone'
  BY <1>1, QueuedWaits DEF QueuesDone
<1>7. AheadWaits' /\ EntersBorn'
  BY <1>1 DEF MoviesInv, AheadWaits, EntersBorn
<1>8. LoadIsLast'
  BY <1>1 DEF MoviesInv, LoadIsLast
<1>9. QED
  BY <1>1, <1>5, <1>6, <1>7, <1>8 DEF MoviesInv

\* What follows when a step only lets the player go on.
LEMMA StillStep ==
    ASSUME MoviesInv, UNCHANGED <<stage, running, walk, resume, born>>, walk = None,
           running = None, phase' \in {"script", "actions"}
    PROVE  MoviesInv'
<1>1. Good(stage', {}) /\ EntersBorn'
  BY DEF MoviesInv, EntersBorn
<1>2. VariablesTyped' /\ WalkStands' /\ QueuesDone' /\ AheadWaits' /\ LoadIsLast'
  BY DEF MoviesInv, VariablesTyped, Phases, WalkStands, QueuesDone, AheadWaits, LoadIsLast
<1>3. QED
  BY <1>1, <1>2 DEF MoviesInv

LEMMA GoOnStep ==
    ASSUME MoviesInv, CallScript \/ StopIteration \/ FinishIteration
    PROVE  MoviesInv'
<1>1. UNCHANGED <<stage, running, walk, resume, born>> /\ phase' \in {"script", "actions"}
  BY DEF CallScript, StopIteration, FinishIteration
<1>2. walk = None /\ running = None
  BY DEF CallScript, StopIteration, FinishIteration, MoviesInv, WalkStands, LoadIsLast
<1>3. QED
  BY <1>1, <1>2, StillStep

LEMMA StartIterationStep ==
    ASSUME MoviesInv, StartIteration
    PROVE  MoviesInv'
<1> DEFINE first == Head(stage.actors \o <<None>>)
<1>1. /\ phase = "idle" /\ phase' = "start" /\ walk' = first /\ born' = Range(stage.actors)
      /\ resume' = "end" /\ UNCHANGED <<stage, running>>
  BY DEF StartIteration
<1>2. stage.actors \in Seq(Movies)
  BY StageFields DEF MoviesInv, Good
<1>3. first = None \/ first \in Range(stage.actors)
  BY <1>2, FirstActor
<1>4. /\ Range(stage.actors) \subseteq Movies
      /\ \A x, y : Before(stage.actors, x, y) => y \in Range(stage.actors)
  BY <1>2, RangeFacts
<1>5. \A m \in Movies : ~Has(stage, m, "enter")
  <2>1. 2 \in Queues
    BY DEF Queues
  <2>2. QED
    BY <1>1, <2>1 DEF MoviesInv, QueuesDone, Waits, Has
<1> HIDE DEF first
<1>6. VariablesTyped' /\ WalkStands' /\ QueuesDone'
  BY <1>1, <1>3, <1>4 DEF MoviesInv, VariablesTyped, Phases, WalkStands, QueuesDone
<1>7. EntersBorn' /\ AheadWaits'
  BY <1>1, <1>3, <1>4, <1>5 DEF EntersBorn, AheadWaits, Ahead
<1>8. LoadIsLast'
  BY <1>1 DEF MoviesInv, LoadIsLast
<1>9. QED
  BY <1>1, <1>6, <1>7, <1>8 DEF MoviesInv

\* The first loop: the actor enters its frame and goes to the next.
LEMMA IterateStartStep ==
    ASSUME MoviesInv, IterateStart
    PROVE  MoviesInv'
<1> DEFINE entered == QueueScript(stage, walk, "enter")
<1>1. /\ phase = "start" /\ walk # None /\ walk' = After(stage', walk)
      /\ UNCHANGED <<phase, running, resume, born>>
      /\ \/ ~Running(walk) /\ UNCHANGED stage
         \/ Running(walk) /\ stage' = entered
         \/ Running(walk) /\ stage' \in Goto(entered, walk)
  BY DEF IterateStart
<1>2. /\ Good(stage, {}) /\ stage \in Stages /\ walk \in Range(stage.actors)
      /\ stage.actors \in Seq(Movies)
  BY <1>1, StageFields DEF MoviesInv, Good, WalkStands
<1>3. walk \in Movies /\ Lives(stage, walk) /\ ~Before(stage.actors, walk, walk)
  BY <1>2 DEF Good, ActorsLive
<1>4. \A x \in Movies : Ahead(stage, walk, x) => x \in born /\ ~Has(stage, x, "enter")
  BY <1>1 DEF MoviesInv, AheadWaits
<1>5. walk \in born /\ ~Has(stage, walk, "enter")
  BY <1>3, <1>4 DEF Ahead
\* The stage after: nobody new comes after the walk, and only it enters.
<1>6. /\ Good(stage', {}) /\ Passes(stage, stage', walk)
      /\ \A m \in Movies : Has(stage', m, "enter") => m = walk \/ Has(stage, m, "enter")
      /\ \A m \in Movies : stage.state[m] # "unborn" => stage'.state[m] # "unborn"
  <2>1. CASE UNCHANGED stage
    BY <1>2, <2>1 DEF Passes
  <2>2. CASE Running(walk) /\ (stage' = entered \/ stage' \in Goto(entered, walk))
    <3> DEFINE e == "enter"
               t == QueueScript(stage, walk, e)
    <3>1. /\ e \in Events
          /\ e = "unload" => stage.state[walk] # "running"
          /\ e \in {"unload", "enter"} => ~Has(stage, walk, e)
          /\ Importance(e) = 2 /\ 2 \in Queues
      BY <1>5 DEF Events, Importance, Queues
    <3>2. entered = t /\ stage.state[walk] = "running" /\ e = "enter"
      BY <2>2 DEF Running
    <3> HIDE DEF e
    <3>3. /\ Good(t, {})
          /\ t.state = stage.state /\ t.actors = stage.actors
          /\ \A i \in Queues : Range(t.queue[i]) =
                Range(stage.queue[i]) \cup (IF i = Importance(e) THEN {<<walk, e>>} ELSE {})
      BY <1>2, <1>3, <3>1, QueueFacts
    <3> HIDE DEF t
    <3>4. /\ Passes(stage, t, walk)
          /\ \A m \in Movies : Has(t, m, "enter") => m = walk \/ Has(stage, m, "enter")
      <4>1. Range(t.queue[2]) = Range(stage.queue[2]) \cup {<<walk, e>>}
        BY <3>1, <3>3
      <4>2. ASSUME NEW m \in Movies, Has(t, m, "enter") PROVE m = walk \/ Has(stage, m, "enter")
        BY <4>1, <4>2 DEF Has
      <4>3. QED
        BY <3>3, <4>2 DEF Passes
    <3>5. CASE stage' = t
      BY <3>3, <3>4, <3>5
    <3>6. CASE stage' \in Goto(t, walk)
      <4>1. \A n \in Unborn : t.state[n] = "unborn"
        BY <3>3 DEF Unborn
      <4>2. Good(stage', {}) /\ Evolves(t, stage') /\ Passes(t, stage', walk)
        BY <1>3, <3>2, <3>3, <3>6, <4>1, FiniteAssumption, GotoFacts
      <4>3. Passes(stage, stage', walk)
        BY <3>4, <4>2, PassesInTurn
      <4>4. ASSUME NEW m \in Movies, Has(stage', m, "enter")
            PROVE  m = walk \/ Has(stage, m, "enter")
        BY <3>4, <4>2, <4>4, NotWaitingEvolves
      <4>5. \A m \in Movies : stage.state[m] # "unborn" => stage'.state[m] # "unborn"
        BY <3>3, <4>2 DEF Evolves
      <4>6. QED
        BY <4>2, <4>3, <4>4, <4>5
    <3>7. QED
      BY <2>2, <3>2, <3>5, <3>6
  <2>3. QED
    BY <1>1, <2>1, <2>2
<1>7. /\ stage'.actors \in Seq(Movies) /\ walk \in Range(stage'.actors)
      /\ \A n \in Movies : ~Before(stage'.actors, n, n)
  <2>1. stage'.actors \in Seq(Movies)
    BY <1>6, StageFields DEF Good
  <2>2. Lives(stage', walk)
    BY <1>3, <1>6 DEF Passes, Lives
  <2>3. QED
    BY <1>3, <1>6, <2>1, <2>2 DEF Good, ActorsLive
<1>8. \/ walk' = None
      \/ walk' \in Range(stage'.actors) /\ Before(stage'.actors, walk, walk')
  BY <1>1, <1>7, AfterFacts
<1>9. Range(stage'.actors) \subseteq Movies
  BY <1>7, RangeFacts
<1>10. VariablesTyped' /\ WalkStands' /\ QueuesDone'
  BY <1>1, <1>8, <1>9 DEF MoviesInv, VariablesTyped, WalkStands, QueuesDone
<1>11. EntersBorn'
  BY <1>1, <1>5, <1>6 DEF MoviesInv, EntersBorn
<1>12. AheadWaits'
  <2>1. SUFFICES ASSUME walk' # None, NEW x \in Movies, Ahead(stage', walk', x)
                 PROVE  x \in born' /\ ~Has(stage', x, "enter")
    BY DEF AheadWaits
  <2>2. Before(stage'.actors, walk, walk') /\ walk' \in Movies
    BY <1>8, <1>9, <2>1
  <2>3. Before(stage'.actors, walk, x)
    <3>1. CASE x = walk'
      BY <2>2, <3>1
    <3>2. CASE Before(stage'.actors, walk', x)
      <4>1. ~Before(stage'.actors, walk', walk')
        BY <1>7, <2>2
      <4>2. QED
        BY <1>7, <2>2, <3>2, <4>1, BeforeIsTransitive
    <3>3. QED
      BY <2>1, <3>1, <3>2 DEF Ahead
  <2>4. x # walk /\ Before(stage.actors, walk, x)
    BY <1>3, <1>6, <1>7, <2>3 DEF Passes
  <2>5. x \in born /\ ~Has(stage, x, "enter")
    BY <1>4, <2>4 DEF Ahead
  <2>6. QED
    BY <1>1, <1>6, <2>4, <2>5
<1>13. LoadIsLast'
  BY <1>1 DEF MoviesInv, LoadIsLast
<1>14. QED
  BY <1>6, <1>10, <1>11, <1>12, <1>13 DEF MoviesInv

\* The second loop: a movie that was removed is destroyed with all below it, and
\* the next actor is not among these.
LEMMA IterateEndStep ==
    ASSUME MoviesInv, IterateEnd
    PROVE  MoviesInv'
<1>1. /\ phase = "end" /\ walk # None /\ walk' = After(stage, walk)
      /\ stage' = IF stage.parent[walk] = None \/ Running(walk) THEN stage
                  ELSE Destroy(stage, {walk})
      /\ UNCHANGED <<phase, running, resume, born>>
  BY DEF IterateEnd
<1>2. /\ Good(stage, {}) /\ stage \in Stages /\ walk \in Range(stage.actors)
      /\ stage.actors \in Seq(Movies)
  BY <1>1, StageFields DEF MoviesInv, Good, WalkStands
<1>3. walk \in Movies /\ Lives(stage, walk) /\ \A n \in Movies : ~Before(stage.actors, n, n)
  BY <1>2 DEF Good, ActorsLive
<1>4. \/ walk' = None
      \/ walk' \in Range(stage.actors) /\ Before(stage.actors, walk, walk')
  BY <1>1, <1>2, AfterFacts
<1>5. Range(stage.actors) \subseteq Movies
  BY <1>2, RangeFacts
<1>6. \A i \in Queues : \A a : a \notin Range(stage.queue[i])
  BY <1>1 DEF MoviesInv, QueuesDone, Waits
<1>7. /\ Good(stage', {})
      /\ walk' # None => walk' \in Range(stage'.actors)
      /\ \A i \in Queues : \A a : a \notin Range(stage'.queue[i])
  <2>1. CASE stage.parent[walk] = None \/ Running(walk)
    BY <1>1, <1>2, <1>4, <1>6, <2>1
  <2>2. CASE ~(stage.parent[walk] = None \/ Running(walk))
    <3> DEFINE t == Destroy(stage, {walk})
               X == Subtrees(stage, {walk})
    <3>1. stage' = t
      BY <1>1, <2>2
    <3>2. {walk} \in SUBSET Movies /\ \A m \in {walk} : Lives(stage, m)
      BY <1>3
    <3>3. Good(t, {}) /\ Removes(stage, t, X)
      BY <1>2, <3>2, DestroyFacts
    <3>4. t.queue = [i \in Queues |-> Without(stage.queue[i], X \X Events)]
      BY <1>2, <3>2, DestroyFields
    <3>5. \A n \in X : n = walk \/ Before(stage.actors, n, walk)
      BY <1>2, <1>3, BelowFacts DEF Good
    <3> HIDE DEF t, X
    <3>6. ASSUME walk' # None PROVE walk' \in Range(t.actors)
      <4>1. walk' \in Range(stage.actors) /\ Before(stage.actors, walk, walk') /\ walk' \in Movies
        BY <1>4, <1>5, <3>6
      <4>2. walk' \notin X
        <5>1. SUFFICES ASSUME walk' \in X PROVE FALSE
          OBVIOUS
        <5>2. walk' # walk
          BY <1>3, <4>1
        <5>3. Before(stage.actors, walk', walk) /\ ~Before(stage.actors, walk', walk')
          BY <1>3, <3>5, <4>1, <5>1, <5>2
        <5>4. Before(stage.actors, walk, walk)
          BY <1>2, <4>1, <5>3, BeforeIsTransitive
        <5>5. QED
          BY <1>3, <5>4
      <4>3. t.state[walk'] = stage.state[walk'] /\ Lives(stage, walk')
        BY <1>2, <3>3, <4>1, <4>2 DEF Removes, Good, ActorsLive
      <4>4. QED
        BY <3>3, <4>1, <4>3 DEF Good, ActorsLive, Lives
    <3>7. ASSUME NEW i \in Queues, NEW a PROVE a \notin Range(t.queue[i])
      <4>1. stage.queue[i] \in Seq(Movies \X Events) /\ t.queue[i] = Without(stage.queue[i], X \X Events)
        BY <1>2, <3>4, StageFields
      <4>2. Range(t.queue[i]) = Range(stage.queue[i]) \ (X \X Events)
        BY <4>1, WithoutOrder
      <4>3. QED
        BY <1>6, <4>2
    <3>8. QED
      BY <3>1, <3>3, <3>6, <3>7
  <2>3. QED
    BY <2>1, <2>2
<1>8. VariablesTyped' /\ WalkStands'
  BY <1>1, <1>4, <1>5, <1>7 DEF MoviesInv, VariablesTyped, WalkStands
<1>9. QueuesDone'
  BY <1>7 DEF QueuesDone, Waits
<1>10. EntersBorn' /\ AheadWaits'
  <2>1. 2 \in Queues
    BY DEF Queues
  <2>2. QED
    BY <1>1, <1>7, <2>1 DEF EntersBorn, AheadWaits, Has
<1>11. LoadIsLast'
  BY <1>1 DEF MoviesInv, LoadIsLast
<1>12. QED
  BY <1>7, <1>8, <1>9, <1>10, <1>11 DEF MoviesInv

LEMMA DisposeStep ==
    ASSUME MoviesInv, Dispose
    PROVE  MoviesInv'
<1>1. /\ phase = "idle" /\ phase' = "disposed" /\ stage' = Destroy(stage, Range(stage.roots))
      /\ UNCHANGED <<running, walk, resume, born>> /\ Good(stage, {})
  BY DEF Dispose, MoviesInv
<1>2. Range(stage.roots) \in SUBSET Movies /\ \A m \in Range(stage.roots) : Lives(stage, m)
  <2>1. stage.roots \in Seq(Movies)
    BY <1>1, StageFields DEF Good
  <2>2. QED
    BY <1>1, <2>1, RangeFacts DEF Good, RootsOnce
<1>3. Good(stage', {}) /\ Evolves(stage, stage')
  BY <1>1, <1>2, DestroyFacts, RemovingEvolves
<1>4. VariablesTyped' /\ WalkStands' /\ QueuesDone' /\ AheadWaits' /\ LoadIsLast'
  BY <1>1 DEF MoviesInv, VariablesTyped, Phases, WalkStands, QueuesDone, AheadWaits, LoadIsLast
<1>5. EntersBorn'
  BY <1>1, <1>3, NotWaitingEvolves DEF MoviesInv, EntersBorn
<1>6. QED
  BY <1>3, <1>4, <1>5 DEF MoviesInv

LEMMA NextStep == MoviesInv /\ [Next]_vars => MoviesInv'
<1> SUFFICES ASSUME MoviesInv, [Next]_vars PROVE MoviesInv'
  OBVIOUS
<1>1. CASE Script
  <2>1. PICK m \in Movies :
           \/ \E parent \in Movies, occupant \in Movies \cup {None}, events \in BOOLEAN :
                CreateClip(m, parent, occupant, events)
           \/ RemoveClip(m)
           \/ GotoFrame(m)
           \/ SetHandler(m)
           \/ SwapDepths(m)
           \/ \E new \in Movies : ReplaceMovie(m, new)
    BY <1>1 DEF Script
  <2>2. QED
    BY <2>1, CreateClipStep, RemoveClipStep, GotoFrameStep, SetHandlerStep, SwapDepthsStep,
       ReplaceMovieStep
<1>2. CASE Progress
  BY <1>2, EndScriptStep, RunActionStep, EndActionsStep, IterateStartStep, IterateEndStep,
     GoOnStep DEF Progress
<1>3. CASE CallScript \/ StartIteration \/ Dispose
  BY <1>3, GoOnStep, StartIterationStep, DisposeStep
<1>4. CASE UNCHANGED vars
  BY <1>4 DEF vars, MoviesInv, VariablesTyped, WalkStands, QueuesDone, EntersBorn, AheadWaits,
     LoadIsLast
<1>5. QED
  BY <1>1, <1>2, <1>3, <1>4 DEF Next

-----------------------------------------------------------------------------
(* The theorems *)

\* The invariant of the stage and of the player's loops holds in every state:
\* the display tree, the list of actors and the queues agree, whatever scripts,
\* the timeline and the iteration create, move, remove and destroy.
THEOREM MoviesInvHolds == Spec => []MoviesInv
<1>1. Init => MoviesInv
  BY InitFacts
<1>2. MoviesInv /\ [Next]_vars => MoviesInv'
  BY NextStep
<1>3. QED
  BY <1>1, <1>2, PTL DEF Spec

\* A list in which nothing comes before itself has any element in one place.
LEMMA OnePlace ==
    ASSUME NEW S, NEW seq \in Seq(S), NEW x, ~Before(seq, x, x)
    PROVE  LET places == {i \in DOMAIN seq : seq[i] = x}
           IN  /\ Cardinality(places) <= 1
               /\ x \in Range(seq) => Cardinality(places) = 1
               /\ x \notin Range(seq) => Cardinality(places) = 0
<1> DEFINE places == {i \in DOMAIN seq : seq[i] = x}
<1>1. DOMAIN seq = 1..Len(seq) /\ Len(seq) \in Nat
  OBVIOUS
<1>2. ASSUME NEW i \in places, NEW j \in places PROVE i = j
  BY <1>1 DEF Before
<1>3. CASE x \in Range(seq)
  <2>1. PICK i \in 1..Len(seq) : seq[i] = x
    BY <1>3, RangeFacts
  <2>2. i \in places
    BY <1>1, <2>1
  <2>3. places = {i}
    BY <1>2, <2>2
  <2>4. Cardinality({i}) = 1
    BY FS_Singleton
  <2> DEFINE c == Cardinality(places)
  <2>5. c = 1
    BY <2>3, <2>4
  <2> HIDE DEF c
  <2>6. c <= 1 /\ (x \in Range(seq) => c = 1) /\ (x \notin Range(seq) => c = 0)
    BY <1>3, <2>5
  <2>7. QED
    BY <2>6 DEF c
<1>4. CASE x \notin Range(seq)
  <2>1. places = {}
    BY <1>1, <1>4, RangeFacts
  <2>2. Cardinality({}) = 0
    BY FS_EmptySet
  <2> DEFINE c == Cardinality(places)
  <2>3. c = 0
    BY <2>1, <2>2
  <2> HIDE DEF c
  <2>4. c <= 1 /\ (x \in Range(seq) => c = 1) /\ (x \notin Range(seq) => c = 0)
    BY <1>4, <2>3
  <2>5. QED
    BY <2>4 DEF c
<1>5. QED
  BY <1>3, <1>4

\* Destroying a movie, at any depth of the tree and in any of the ways the code
\* has for it, leaves no action of it in a queue; its unload handler is queued
\* at most once, and its load handler runs after the ones that come first.
THEOREM ActionsAlwaysHaveActors == Spec => []ActionsHaveActors
<1>1. MoviesInv => ActionsHaveActors
  <2> SUFFICES ASSUME MoviesInv PROVE ActionsHaveActors
    OBVIOUS
  <2>1. \A a \in Queued : Exists(a[1])
    <3>1. SUFFICES ASSUME NEW a \in Queued PROVE Exists(a[1])
      OBVIOUS
    <3>2. PICK i \in Queues : a \in Range(stage.queue[i])
      BY QueuedWaits DEF Waits
    <3>3. QED
      BY <3>2 DEF MoviesInv, Good, QueuesLive, Lives, Exists
  <2>2. ASSUME NEW m \in Movies
        PROVE  Cardinality({i \in DOMAIN stage.queue[2] : stage.queue[2][i] = <<m, "unload">>})
                 <= (IF Running(m) THEN 0 ELSE 1)
    <3> DEFINE q == stage.queue[2]
               x == <<m, "unload">>
               c == Cardinality({i \in DOMAIN q : q[i] = x})
    <3>1. q \in Seq(Movies \X Events)
      <4>1. 2 \in Queues
        BY DEF Queues
      <4>2. QED
        BY <4>1, StageFields DEF MoviesInv, Good
    <3>2. ~Before(q, x, x) /\ (Running(m) => x \notin Range(q))
      BY DEF MoviesInv, Good, QueuedOnce, Twice, Has, Running
    <3> HIDE DEF q, x
    <3>3. c <= 1 /\ (x \notin Range(q) => c = 0)
      BY <3>1, <3>2, OnePlace
    <3> HIDE DEF c
    <3>4. c <= (IF Running(m) THEN 0 ELSE 1)
      BY <3>2, <3>3
    <3>5. QED
      BY <3>4 DEF c, q, x
  <2>3. running # None /\ running[2] = "load" =>
           {<<running[1], "initialize">>, <<running[1], "construct">>} \cap Queued = {}
    BY QueuedWaits DEF MoviesInv, LoadIsLast
  <2>4. QED
    BY <2>1, <2>2, <2>3 DEF ActionsHaveActors
<1>2. QED
  BY <1>1, MoviesInvHolds, PTL

\* The actors are exactly the movies that exist, children before their parents,
\* and a running movie is in the list of its parent once.
THEOREM ChildrenAlwaysComeFirst == Spec => []ChildrenComeFirst
<1>1. MoviesInv => ChildrenComeFirst
  <2> SUFFICES ASSUME MoviesInv PROVE ChildrenComeFirst
    OBVIOUS
  <2>1. Good(stage, {}) /\ stage \in Stages
    BY DEF MoviesInv, Good
  <2>2. TypeOK
    BY <2>1, StageFields DEF MoviesInv, VariablesTyped, Phases, TypeOK, States
  <2> DEFINE seq == stage.actors
  <2>3. seq \in Seq(Movies) /\ DOMAIN seq = 1..Len(seq) /\ Len(seq) \in Nat
    BY <2>1, StageFields
  <2>4. Range(seq) = {m \in Movies : Exists(m)} /\ \A m \in Movies : ~Before(seq, m, m)
    BY <2>1 DEF Good, ActorsLive, Lives, Exists
  <2>5. \A i \in 1..Len(seq) : seq[i] \in Movies
    BY <2>3
  <2>6. IsInjective(seq)
    <3>1. SUFFICES ASSUME NEW i \in DOMAIN seq, NEW j \in DOMAIN seq, seq[i] = seq[j]
                   PROVE  i = j
      BY DEF IsInjective
    <3>2. ~Before(seq, seq[i], seq[i])
      BY <2>3, <2>4, <2>5
    <3>3. QED
      BY <2>3, <3>1, <3>2 DEF Before
  <2>7. \A i, j \in DOMAIN seq : stage.parent[seq[i]] = seq[j] => i < j
    <3>1. SUFFICES ASSUME NEW i \in DOMAIN seq, NEW j \in DOMAIN seq,
                          stage.parent[seq[i]] = seq[j]
                   PROVE  i < j
      OBVIOUS
    <3>2. seq[i] \in Movies /\ seq[j] \in Movies /\ seq[j] # None
      BY <2>3, <2>5, MovieAssumption
    <3>3. seq[j] # seq[i] /\ ~Before(seq, seq[j], seq[i])
      BY <2>1, <3>1, <3>2 DEF Good, ParentsLast
    <3>4. QED
      BY <2>3, <3>3 DEF Before
  <2>8. ASSUME NEW m \in Movies, Running(m)
        PROVE  Cardinality({i \in DOMAIN Siblings(stage, stage.parent[m]) :
                              Siblings(stage, stage.parent[m])[i] = m}) = 1
    <3> DEFINE q == Siblings(stage, stage.parent[m])
    <3>1. stage.parent[m] \in Movies \cup {None}
      BY <2>1, StageFields
    <3>2. q \in Seq(Movies) /\ ~Before(q, m, m)
      BY <2>1, <3>1, SiblingsFacts
    <3>3. m \in Range(q)
      BY <2>1, <2>8 DEF Good, RunningListed, Running
    <3> HIDE DEF q
    <3>4. Cardinality({i \in DOMAIN q : q[i] = m}) = 1
      BY <3>2, <3>3, OnePlace
    <3>5. QED
      BY <3>4 DEF q
  <2>9. QED
    BY <2>2, <2>4, <2>6, <2>7, <2>8 DEF ChildrenComeFirst
<1>2. QED
  BY <1>1, MoviesInvHolds, PTL

\* The loops over the actors never stand on a movie that was destroyed under
\* them, and no movie enters two frames in one iteration.
THEOREM LoopsAlwaysStandOnActors == Spec => []LoopsStandOnActors
<1>1. MoviesInv => LoopsStandOnActors
  <2> SUFFICES ASSUME MoviesInv PROVE LoopsStandOnActors
    OBVIOUS
  <2>1. stage \in Stages /\ stage.actors \in Seq(Movies)
    BY StageFields DEF MoviesInv, Good
  <2>2. ASSUME walk # None PROVE Contains(stage.actors, walk)
    <3>1. walk \in Range(stage.actors)
      BY <2>2 DEF MoviesInv, WalkStands
    <3>2. \E i \in 1..Len(stage.actors) : stage.actors[i] = walk
      BY <2>1, <3>1, RangeFacts
    <3>3. QED
      BY <3>2 DEF Contains
  <2>3. ASSUME NEW m \in Movies
        PROVE  Cardinality({i \in DOMAIN stage.queue[2] : stage.queue[2][i] = <<m, "enter">>})
                 <= (IF m \in born THEN 1 ELSE 0)
    <3> DEFINE q == stage.queue[2]
               x == <<m, "enter">>
               c == Cardinality({i \in DOMAIN q : q[i] = x})
    <3>1. q \in Seq(Movies \X Events)
      <4>1. 2 \in Queues
        BY DEF Queues
      <4>2. QED
        BY <2>1, <4>1, StageFields
    <3>2. ~Before(q, x, x) /\ (x \in Range(q) => m \in born)
      BY DEF MoviesInv, Good, QueuedOnce, Twice, Has, EntersBorn
    <3> HIDE DEF q, x
    <3>3. c <= 1 /\ (x \notin Range(q) => c = 0)
      BY <3>1, <3>2, OnePlace
    <3> HIDE DEF c
    <3>4. c <= (IF m \in born THEN 1 ELSE 0)
      BY <3>2, <3>3
    <3>5. QED
      BY <3>4 DEF c, q, x
  <2>4. QED
    BY <2>2, <2>3 DEF LoopsStandOnActors
<1>2. QED
  BY <1>1, MoviesInvHolds, PTL

-----------------------------------------------------------------------------
(* The chain from a movie up to its root *)

Up(s) == [p \in Movies |-> {s.parent[p]} \ {None}]
Chain(s, m) == Reached({m}, Up(s))

\* A movie that is really shown: it and all it is part of run.
InView(s, m) == \A n \in Chain(s, m) : s.state[n] = "running"

LEMMA ChainFacts ==
    ASSUME NEW s \in Stages, NEW m \in Movies
    PROVE  /\ m \in Chain(s, m) /\ Chain(s, m) \subseteq Movies
           /\ \A n \in Chain(s, m) : s.parent[n] # None => s.parent[n] \in Chain(s, m)
           /\ \A X \in SUBSET Movies :
                 m \in X /\ (\A n \in X : s.parent[n] # None => s.parent[n] \in X)
                   => Chain(s, m) \subseteq X
<1> DEFINE next == Up(s)
           tops == {m}
           R == Reached(tops, next)
<1>1. s.parent \in [Movies -> Movies \cup {None}]
  BY StageFields
<1>2. next \in [Movies -> SUBSET Movies] /\ \A p \in Movies : next[p] = {s.parent[p]} \ {None}
  BY <1>1 DEF Up
<1>3. R = Chain(s, m) /\ tops \in SUBSET Movies /\ m \in tops
  BY DEF Chain
<1> HIDE DEF next
<1>4. /\ tops \subseteq R
      /\ R \subseteq Movies
      /\ \A p \in R : next[p] \subseteq R
      /\ \A X \in SUBSET Movies : tops \subseteq X /\ (\A p \in X : next[p] \subseteq X) => R \subseteq X
  BY <1>2, <1>3, ReachedFacts, Zenon
<1> HIDE DEF R
<1>5. \A n \in R : s.parent[n] # None => s.parent[n] \in R
  BY <1>2, <1>4
<1>6. ASSUME NEW X \in SUBSET Movies, m \in X, \A n \in X : s.parent[n] # None => s.parent[n] \in X
      PROVE  R \subseteq X
  <2>1. \A p \in X : next[p] \subseteq X
    BY <1>2, <1>6
  <2>2. QED
    BY <1>4, <1>6, <2>1
<1>7. QED
  BY <1>3, <1>4, <1>5, <1>6

LEMMA ChainInside ==
    ASSUME NEW s \in Stages, NEW m \in Movies, NEW n \in Chain(s, m)
    PROVE  n \in Movies /\ Chain(s, n) \subseteq Chain(s, m)
<1> DEFINE X == Chain(s, m)
<1>1. /\ n \in X /\ X \in SUBSET Movies
      /\ \A k \in X : s.parent[k] # None => s.parent[k] \in X
  BY ChainFacts
<1> HIDE DEF X
<1>2. Chain(s, n) \subseteq X
  BY <1>1, ChainFacts
<1>3. QED
  BY <1>1, <1>2 DEF X

\* What is above a movie is above its parent.
LEMMA ChainAbove ==
    ASSUME NEW s \in Stages, NEW m \in Movies, NEW a \in Chain(s, m), a # m
    PROVE  /\ s.parent[m] # None /\ s.parent[m] \in Movies
           /\ a \in Chain(s, s.parent[m])
           /\ s.parent[m] \in Chain(s, m)
<1> DEFINE p == s.parent[m]
<1>1. p \in Movies \cup {None}
  BY StageFields
<1>2. p # None
  <2>1. SUFFICES ASSUME p = None PROVE FALSE
    OBVIOUS
  <2> DEFINE X == {m}
  <2>2. X \in SUBSET Movies /\ m \in X /\ \A n \in X : s.parent[n] # None => s.parent[n] \in X
    BY <2>1
  <2>3. a \notin X
    OBVIOUS
  <2> HIDE DEF X
  <2>4. Chain(s, m) \subseteq X
    BY <2>2, ChainFacts
  <2>5. QED
    BY <2>3, <2>4
<1>3. p \in Movies
  BY <1>1, <1>2
<1>4. a \in Chain(s, p)
  <2> DEFINE X == {m} \cup Chain(s, p)
  <2>1. /\ p \in Chain(s, p) /\ Chain(s, p) \subseteq Movies
        /\ \A n \in Chain(s, p) : s.parent[n] # None => s.parent[n] \in Chain(s, p)
    BY <1>3, ChainFacts
  <2>2. X \in SUBSET Movies /\ m \in X /\ \A n \in X : s.parent[n] # None => s.parent[n] \in X
    BY <2>1
  <2>3. Chain(s, m) \subseteq X
    <3> HIDE DEF X
    <3>1. QED
      BY <2>2, ChainFacts
  <2>4. QED
    BY <2>3
<1>5. p \in Chain(s, m)
  BY <1>2, ChainFacts
<1>6. QED
  BY <1>2, <1>3, <1>4, <1>5

\* What is above a movie in view comes after it in the list of actors.
LEMMA ChainOrder ==
    ASSUME NEW s, NEW loose, Good(s, loose), NEW m \in Movies, InView(s, m)
    PROVE  \A a \in Chain(s, m) : a = m \/ Before(s.actors, m, a)
<1> DEFINE X == {a \in Chain(s, m) : a = m \/ Before(s.actors, m, a)}
<1>1. s \in Stages /\ s.actors \in Seq(Movies)
  BY StageFields DEF Good
<1>2. /\ m \in Chain(s, m) /\ Chain(s, m) \subseteq Movies
      /\ \A n \in Chain(s, m) : s.parent[n] # None => s.parent[n] \in Chain(s, m)
  BY <1>1, ChainFacts
<1>3. ASSUME NEW n \in X, s.parent[n] # None PROVE s.parent[n] \in X
  <2> DEFINE p == s.parent[n]
  <2>1. n \in Movies /\ p \in Chain(s, m) /\ p \in Movies
    BY <1>2, <1>3
  <2>2. n # p /\ ~Before(s.actors, p, n)
    BY <1>3, <2>1 DEF Good, ParentsLast
  <2>3. n \in Range(s.actors) /\ p \in Range(s.actors)
    BY <1>3, <2>1 DEF InView, Good, ActorsLive, Lives
  <2> HIDE DEF p
  <2>4. Before(s.actors, n, p)
    BY <1>1, <2>2, <2>3, BeforeOrAfter
  <2>5. n = m \/ Before(s.actors, m, n)
    OBVIOUS
  <2>6. ~Before(s.actors, n, n)
    BY <2>1 DEF Good, ActorsLive
  <2>7. Before(s.actors, m, p)
    BY <1>1, <2>4, <2>5, <2>6, BeforeIsTransitive
  <2>8. QED
    BY <2>1, <2>7 DEF p
<1>4. X \in SUBSET Movies /\ m \in X
  BY <1>2
<1>5. Chain(s, m) \subseteq X
  <2>1. \A n \in X : s.parent[n] # None => s.parent[n] \in X
    BY <1>3
  <2> HIDE DEF X
  <2>2. QED
    BY <1>1, <1>4, <2>1, ChainFacts
<1>6. QED
  BY <1>5

\* No movie is above its parent.
LEMMA NotAboveParent ==
    ASSUME NEW s, NEW loose, Good(s, loose), NEW c \in Movies, NEW p \in Movies,
           s.parent[c] = p, InView(s, p)
    PROVE  c \notin Chain(s, p)
<1>1. p # None
  BY MovieAssumption
<1>2. c # p /\ ~Before(s.actors, p, c)
  BY <1>1 DEF Good, ParentsLast
<1>3. QED
  BY <1>2, ChainOrder

\* Only one of the children of a movie is above another movie.
LEMMA OneOfSiblings ==
    ASSUME NEW s, NEW loose, Good(s, loose), NEW m \in Movies, InView(s, m),
           NEW c \in Chain(s, m), NEW d \in Chain(s, m), s.parent[c] = s.parent[d]
    PROVE  c = d
<1> SUFFICES ASSUME c # d PROVE FALSE
  OBVIOUS
<1>1. s \in Stages
  BY DEF Good
<1> DEFINE X == {n \in Chain(s, m) : c \in Chain(s, n) /\ d \in Chain(s, n)}
<1>2. /\ m \in Chain(s, m) /\ Chain(s, m) \subseteq Movies
  BY <1>1, ChainFacts
<1>3. ASSUME NEW a \in Chain(s, m), NEW b \in Chain(s, m), a # b, s.parent[a] = s.parent[b]
      PROVE  b \notin Chain(s, a)
  <2>1. SUFFICES ASSUME b \in Chain(s, a) PROVE FALSE
    OBVIOUS
  <2> DEFINE p == s.parent[a]
  <2>2. a \in Movies /\ b \in Movies /\ Chain(s, a) \subseteq Chain(s, m)
    BY <1>1, <1>2, ChainInside
  <2>3. p \in Movies /\ b \in Chain(s, p) /\ p \in Chain(s, a)
    BY <1>1, <1>3, <2>1, <2>2, ChainAbove
  <2>4. s.parent[b] = p
    BY <1>3
  <2> HIDE DEF p
  <2>5. p \in Chain(s, m)
    BY <2>2, <2>3
  <2>6. InView(s, p)
    <3>1. Chain(s, p) \subseteq Chain(s, m)
      BY <1>1, <2>5, ChainInside
    <3>2. QED
      BY <3>1 DEF InView
  <2>7. QED
    BY <2>2, <2>3, <2>4, <2>6, NotAboveParent
<1>4. ASSUME NEW n \in X, s.parent[n] # None PROVE s.parent[n] \in X
  <2>1. n \in Movies /\ n # c /\ n # d
    BY <1>2, <1>3
  <2>2. c \in Chain(s, s.parent[n]) /\ d \in Chain(s, s.parent[n])
    BY <1>1, <2>1, ChainAbove
  <2>3. s.parent[n] \in Chain(s, m)
    BY <1>1, <1>4, ChainFacts
  <2>4. QED
    BY <2>2, <2>3
<1>5. X \in SUBSET Movies /\ m \in X
  BY <1>2
<1>6. Chain(s, m) \subseteq X
  <2>1. \A n \in X : s.parent[n] # None => s.parent[n] \in X
    BY <1>4
  <2> HIDE DEF X
  <2>2. QED
    BY <1>1, <1>5, <2>1, ChainFacts
<1>7. d \in Chain(s, c)
  BY <1>6
<1>8. QED
  BY <1>3, <1>7

\* A movie is above all that is below it.
LEMMA BelowIsAbove ==
    ASSUME NEW s, NEW loose, Good(s, loose), NEW c \in Movies
    PROVE  \A n \in Subtrees(s, {c}) : c \in Chain(s, n)
<1> DEFINE X == {n \in Movies : c \in Chain(s, n)}
<1>1. s \in Stages /\ \A p \in Movies : s.list[p] \in Seq(Movies)
  BY StageFields DEF Good
<1>2. ASSUME NEW p \in X, NEW n \in Range(s.list[p]) PROVE n \in X
  <2>1. p \in Movies /\ n \in Movies
    BY <1>1, RangeFacts
  <2>2. s.parent[n] = p /\ p # None
    BY <2>1, MovieAssumption DEF Good, ListedOnce
  <2>3. p \in Chain(s, n)
    BY <1>1, <2>1, <2>2, ChainFacts
  <2>4. Chain(s, p) \subseteq Chain(s, n)
    BY <1>1, <2>1, <2>3, ChainInside
  <2>5. QED
    BY <2>1, <2>4
<1>3. X \in SUBSET Movies /\ {c} \subseteq X /\ \A p \in X : Range(s.list[p]) \subseteq X
  <2>1. c \in Chain(s, c)
    BY <1>1, ChainFacts
  <2>2. QED
    BY <1>2, <2>1
<1>4. Subtrees(s, {c}) \subseteq X
  <2> HIDE DEF X
  <2>1. {c} \in SUBSET Movies
    OBVIOUS
  <2>2. QED
    BY <1>1, <1>3, <2>1, SubtreeFacts
<1>5. QED
  BY <1>4

-----------------------------------------------------------------------------
(* Handlers of what is removed *)

\* X are movies below c, each in the list of another one until it is visited;
\* those that were have their handlers queued, and were not destroyed.
Coherent(s, X, c) ==
    \A n \in X : s.state[n] = "running" /\ n # c =>
        /\ s.parent[n] \in X /\ s.state[s.parent[n]] = "running"
        /\ n \in Range(s.list[s.parent[n]])
Told(v, X) ==
    \A n \in X \cap v.stage.unload : v.stage.state[n] # "running" =>
        Has(v.stage, n, "unload") /\ ~v.destroy

\* Nothing that runs in X is below a movie with nothing left to visit.
LEMMA NothingBelow ==
    ASSUME NEW s, NEW loose, Good(s, loose), NEW X \in SUBSET Movies, NEW c \in Movies, Lives(s, c),
           Coherent(s, X, c), NEW w \in Subtrees(s, {c}), Remaining(s, w) = {}
    PROVE  /\ \A n \in X : s.state[n] = "running" /\ n # c => s.parent[n] # w
           /\ \A n \in X : s.state[n] = "running" /\ n # w => n \notin Subtrees(s, {w})
<1> DEFINE gone == Subtrees(s, {w})
           Y == {n \in gone : n \in X /\ s.state[n] = "running" => n = w}
<1>1. s \in Stages /\ s.actors \in Seq(Movies) /\ \A p \in Movies : s.list[p] \in Seq(Movies)
  BY StageFields DEF Good
<1>2. w \in Movies /\ {w} \in SUBSET Movies /\ {c} \in SUBSET Movies
  BY <1>1, SubtreeFacts
<1>3. ASSUME NEW n \in X, s.state[n] = "running", n # c PROVE s.parent[n] # w
  <2>1. SUFFICES ASSUME s.parent[n] = w PROVE FALSE
    OBVIOUS
  <2>2. n \in Range(s.list[w])
    BY <1>3, <2>1 DEF Coherent
  <2>3. PICK i \in 1..Len(s.list[w]) : s.list[w][i] = n
    BY <1>1, <1>2, <2>2, RangeFacts
  <2>4. i \in DOMAIN s.list[w]
    BY <1>1, <1>2
  <2>5. i \in Remaining(s, w)
    BY <1>3, <2>3, <2>4 DEF Remaining
  <2>6. QED
    BY <2>5
<1>4. /\ w \in gone /\ gone \subseteq Movies
      /\ \A p \in gone : Range(s.list[p]) \subseteq gone
  BY <1>1, <1>2, SubtreeFacts
\* c itself is not below w, unless it is w.
<1>5. c \in gone => c = w
  <2>1. SUFFICES ASSUME c \in gone, c # w PROVE FALSE
    OBVIOUS
  <2>2. Before(s.actors, w, c)
    BY <1>1, <2>1, BelowFacts DEF Good
  <2>3. Lives(s, w)
    BY <1>1, <1>2, BelowLives DEF Good
  <2>4. Before(s.actors, c, w)
    BY <1>1, <1>2, <2>1, <2>3, BelowFacts DEF Good
  <2>5. ~Before(s.actors, c, c) /\ ~Before(s.actors, w, w)
    BY <1>2 DEF Good, ActorsLive
  <2>6. QED
    BY <1>1, <2>2, <2>4, <2>5, BeforeIsTransitive
<1>6. ASSUME NEW p \in Y, NEW n \in Range(s.list[p]) PROVE n \in Y
  <2>1. p \in gone /\ n \in gone /\ n \in Movies /\ p \in Movies
    BY <1>4
  <2>2. SUFFICES ASSUME n \in X, s.state[n] = "running", n # w PROVE FALSE
    BY <2>1
  <2>3. s.parent[n] = p /\ n # c
    BY <1>5, <2>1, <2>2 DEF Good, ListedOnce
  <2>4. p \in X /\ s.state[p] = "running"
    BY <2>2, <2>3 DEF Coherent
  <2>5. p = w
    BY <2>4
  <2>6. QED
    BY <1>3, <2>2, <2>3, <2>5
<1>7. Y \in SUBSET Movies /\ {w} \subseteq Y /\ \A p \in Y : Range(s.list[p]) \subseteq Y
  BY <1>4, <1>6
<1>8. gone \subseteq Y
  <2> HIDE DEF Y
  <2>1. QED
    BY <1>1, <1>2, <1>7, SubtreeFacts
<1>9. QED
  BY <1>3, <1>8

\* One visit keeps both, and the handlers of all movies that are not below.
LEMMA VisitTells ==
    ASSUME NEW v \in Visits, NEW loose, Good(v.stage, loose),
           NEW X \in SUBSET Movies, NEW c \in Movies, Lives(v.stage, c),
           Coherent(v.stage, X, c), Told(v, X),
           NEW m \in Subtrees(v.stage, {c}), v.stage.state[m] = "running",
           Remaining(v.stage, m) = {}
    PROVE  LET w == RemoveOne(m, v)
           IN  /\ Coherent(w.stage, X, c)
               /\ Told(w, X)
               /\ \A n \in Movies \ Subtrees(v.stage, {m}) :
                     Has(v.stage, n, "unload") => Has(w.stage, n, "unload")
<1> DEFINE w == RemoveOne(m, v)
           s == v.stage
           t == [s EXCEPT !.state[m] = "removed"]
           gone == Subtrees(s, {m})
<1>1. s \in Stages /\ s.state \in [Movies -> States] /\ v.destroy \in BOOLEAN /\ m \in Movies
  <2>1. s \in Stages
    BY DEF Visits
  <2>2. {c} \in SUBSET Movies
    OBVIOUS
  <2>3. QED
    BY <2>1, <2>2, StageFields, SubtreeFacts DEF Visits
<1>2. /\ Good(t, loose)
      /\ t.state = [s.state EXCEPT ![m] = "removed"] /\ t.parent = s.parent
      /\ t.list = s.list /\ t.roots = s.roots /\ t.actors = s.actors
      /\ t.queue = s.queue /\ t.unload = s.unload /\ t.timeline = s.timeline
      /\ ~Has(t, m, "unload")
  BY <1>1, MarkFacts
<1>3. w = CASE m \in t.unload -> [stage |-> QueueScript(t, m, "unload"), destroy |-> FALSE]
            [] m \notin t.unload /\ v.destroy -> [v EXCEPT !.stage = Destroy(t, {m})]
            [] OTHER -> [v EXCEPT !.stage = t]
  BY DEF RemoveOne
<1>4. /\ \A n \in X : s.state[n] = "running" /\ n # c => s.parent[n] # m
      /\ \A n \in X : s.state[n] = "running" /\ n # m => n \notin gone
  BY NothingBelow
<1> HIDE DEF t, w
<1>5. t \in Stages /\ Subtrees(t, {m}) = gone /\ Lives(t, m) /\ gone \subseteq Movies
  <2>1. {m} \in SUBSET Movies
    BY <1>1
  <2>2. QED
    BY <1>1, <1>2, <2>1, SubtreeFacts DEF Good, Subtrees, Lives
<1> HIDE DEF gone, s
\* What runs after the visit are those that ran, but for m, and not below it.
<1>6. \A n \in Movies : t.state[n] = "running" <=> s.state[n] = "running" /\ n # m
  BY <1>1, <1>2
<1>7. Coherent(t, X, c)
  <2>1. SUFFICES ASSUME NEW n \in X, t.state[n] = "running", n # c
                 PROVE  /\ t.parent[n] \in X /\ t.state[t.parent[n]] = "running"
                        /\ n \in Range(t.list[t.parent[n]])
    BY DEF Coherent
  <2>2. s.state[n] = "running" /\ n # m
    BY <1>6, <2>1
  <2>3. s.parent[n] \in X /\ s.state[s.parent[n]] = "running" /\ n \in Range(s.list[s.parent[n]])
    BY <2>1, <2>2 DEF Coherent, s
  <2>4. s.parent[n] # m
    BY <1>4, <2>1, <2>2
  <2>5. QED
    BY <1>2, <1>6, <2>3, <2>4
<1>8. ASSUME NEW n \in X \cap t.unload, t.state[n] # "running", n # m
      PROVE  Has(t, n, "unload") /\ ~v.destroy
  <2>1. s.state[n] # "running" /\ n \in s.unload
    BY <1>2, <1>6, <1>8
  <2>2. Has(s, n, "unload") /\ ~v.destroy
    BY <1>8, <2>1 DEF Told, s
  <2>3. QED
    BY <1>2, <2>2 DEF Has
<1>9. CASE m \in t.unload
  <2> DEFINE e == "unload"
             u == QueueScript(t, m, e)
  <2>1. /\ e \in Events /\ Importance(e) = 2 /\ 2 \in Queues
        /\ e = "unload" => t.state[m] # "running"
        /\ e \in {"unload", "enter"} => ~Has(t, m, e)
    BY <1>1, <1>2, <1>6 DEF Events, Importance, Queues
  <2>2. w = [stage |-> u, destroy |-> FALSE] /\ e = "unload"
    BY <1>3, <1>9
  <2> HIDE DEF e
  <2>3. /\ u.state = t.state /\ u.parent = t.parent /\ u.list = t.list /\ u.unload = t.unload
        /\ \A i \in Queues : Range(u.queue[i]) =
              Range(t.queue[i]) \cup (IF i = Importance(e) THEN {<<m, e>>} ELSE {})
    BY <1>1, <1>2, <1>5, <2>1, QueueFacts
  <2> HIDE DEF u
  <2>4. w.stage = u /\ w.destroy = FALSE
    BY <2>2
  <2>5. Range(u.queue[2]) = Range(t.queue[2]) \cup {<<m, e>>}
    BY <2>1, <2>3
  <2>6. \A n \in Movies : Has(t, n, "unload") => Has(u, n, "unload")
    BY <2>5 DEF Has
  <2>7. Has(u, m, "unload")
    BY <2>2, <2>5 DEF Has
  <2>8. Coherent(u, X, c)
    BY <1>7, <2>3 DEF Coherent
  <2>9. Told(w, X)
    <3>1. SUFFICES ASSUME NEW n \in X \cap u.unload, u.state[n] # "running"
                   PROVE  Has(u, n, "unload")
      BY <2>4 DEF Told
    <3>2. CASE n = m
      BY <2>7, <3>2
    <3>3. CASE n # m
      BY <1>8, <2>3, <2>6, <3>1, <3>3
    <3>4. QED
      BY <3>2, <3>3
  <2>10. \A n \in Movies : Has(s, n, "unload") => Has(u, n, "unload")
    BY <1>2, <2>6 DEF Has
  <2>11. QED
    BY <2>4, <2>8, <2>9, <2>10 DEF w, s, gone
<1>10. CASE m \notin t.unload /\ v.destroy
  <2> DEFINE u == Destroy(t, {m})
  <2>1. /\ u.state = [n \in Movies |-> IF n \in gone THEN "destroyed" ELSE t.state[n]]
        /\ u.list = [n \in Movies |-> IF n \in gone THEN <<>> ELSE Without(t.list[n], {m})]
        /\ u.queue = [i \in Queues |-> Without(t.queue[i], gone \X Events)]
        /\ u.parent = t.parent /\ u.unload = t.unload
    <3>1. {m} \in SUBSET Movies
      BY <1>1
    <3>2. /\ u.state = [n \in Movies |-> IF n \in Subtrees(t, {m}) THEN "destroyed" ELSE t.state[n]]
          /\ u.list = [n \in Movies |-> IF n \in Subtrees(t, {m}) THEN <<>>
                                        ELSE Without(t.list[n], {m})]
          /\ u.queue = [i \in Queues |-> Without(t.queue[i], Subtrees(t, {m}) \X Events)]
          /\ u.parent = t.parent /\ u.unload = t.unload
      BY <1>5, <3>1, DestroyFields
    <3>3. QED
      BY <1>5, <3>2
  <2>2. w = [v EXCEPT !.stage = u]
    BY <1>3, <1>10
  <2> HIDE DEF u
  <2>3. w.stage = u /\ w.destroy = v.destroy
    BY <2>2 DEF Visits
  <2>4. \A n \in X : t.state[n] = "running" => n \notin gone /\ u.state[n] = "running"
    <3>1. SUFFICES ASSUME NEW n \in X, t.state[n] = "running"
                   PROVE  n \notin gone /\ u.state[n] = "running"
      OBVIOUS
    <3>2. n \in Movies /\ s.state[n] = "running" /\ n # m
      BY <1>6, <3>1
    <3>3. n \notin gone
      BY <1>4, <3>1, <3>2
    <3>4. QED
      BY <2>1, <3>1, <3>2, <3>3
  <2>5. Coherent(u, X, c)
    <3>1. SUFFICES ASSUME NEW n \in X, u.state[n] = "running", n # c
                   PROVE  /\ u.parent[n] \in X /\ u.state[u.parent[n]] = "running"
                          /\ n \in Range(u.list[u.parent[n]])
      BY DEF Coherent
    <3>2. n \in Movies /\ n \notin gone /\ t.state[n] = "running"
      BY <2>1, <3>1
    <3> DEFINE p == t.parent[n]
    <3>3. p \in X /\ t.state[p] = "running" /\ n \in Range(t.list[p])
      BY <1>7, <3>1, <3>2 DEF Coherent
    <3> HIDE DEF p
    <3>4. p \in Movies /\ p \notin gone /\ u.state[p] = "running"
      BY <2>4, <3>3
    <3>5. u.list[p] = Without(t.list[p], {m})
      BY <2>1, <3>4
    <3>6. t.list[p] \in Seq(Movies)
      BY <1>5, <3>4, StageFields
    <3>7. n # m
      BY <1>6, <3>2
    <3>8. n \in Range(u.list[p])
      BY <3>3, <3>5, <3>6, <3>7, WithoutOrder
    <3>9. QED
      BY <2>1, <3>3, <3>4, <3>8 DEF p
  <2>6. Told(w, X)
    <3>1. SUFFICES ASSUME NEW n \in X \cap u.unload, u.state[n] # "running" PROVE FALSE
      BY <2>3 DEF Told
    <3>2. t.state[n] # "running" /\ n \in X \cap t.unload
      BY <2>1, <2>4, <3>1
    <3>3. n # m
      BY <1>10, <3>2
    <3>4. QED
      BY <1>8, <1>10, <3>2, <3>3
  <2>7. ASSUME NEW n \in Movies \ gone, Has(s, n, "unload") PROVE Has(u, n, "unload")
    <3> DEFINE q == t.queue[2]
    <3>1. 2 \in Queues
      BY DEF Queues
    <3>2. q \in Seq(Movies \X Events) /\ u.queue[2] = Without(q, gone \X Events)
      BY <1>5, <2>1, <3>1, StageFields
    <3>3. <<n, "unload">> \in Range(q)
      BY <1>2, <2>7 DEF Has
    <3> HIDE DEF q
    <3>4. Range(Without(q, gone \X Events)) = Range(q) \ (gone \X Events)
      BY <3>2, WithoutOrder
    <3>5. <<n, "unload">> \notin gone \X Events
      OBVIOUS
    <3>6. QED
      BY <3>2, <3>3, <3>4, <3>5 DEF Has
  <2>8. QED
    BY <2>3, <2>5, <2>6, <2>7 DEF w, s, gone
<1>11. CASE m \notin t.unload /\ ~v.destroy
  <2>1. w = [v EXCEPT !.stage = t]
    BY <1>3, <1>11
  <2>2. w.stage = t /\ w.destroy = v.destroy
    BY <2>1 DEF Visits
  <2>3. Told(w, X)
    <3>1. SUFFICES ASSUME NEW n \in X \cap t.unload, t.state[n] # "running"
                   PROVE  Has(t, n, "unload")
      BY <1>11, <2>2 DEF Told
    <3>2. n # m
      BY <1>11
    <3>3. QED
      BY <1>8, <3>1, <3>2
  <2>4. \A n \in Movies : Has(s, n, "unload") => Has(t, n, "unload")
    BY <1>2 DEF Has
  <2>5. QED
    BY <1>7, <2>2, <2>3, <2>4 DEF w, s, gone
<1>12. QED
  BY <1>9, <1>10, <1>11

\* Removing a movie in view: the handlers of all movies in view below it are
\* queued, and movies that are not below it stay as they are.
LEMMA RemoveMovieTells ==
    ASSUME NEW s, NEW loose, Good(s, loose), NEW c \in Movies,
           \A n \in Movies \cap loose : s.parent[n] = s.parent[c], IsFiniteSet(Movies)
    PROVE  /\ \A n \in s.unload : InView(s, n) /\ c \in Chain(s, n) =>
                 Has(RemoveMovie(s, c), n, "unload")
           /\ \A n \in Movies : Has(s, n, "unload") /\ c \notin Chain(s, n) =>
                 Has(RemoveMovie(s, c), n, "unload")
           /\ \A n \in Movies : InView(s, n) /\ c \notin Chain(s, n) =>
                 InView(RemoveMovie(s, c), n)
<1> DEFINE N == Cardinality(Movies)
           X == {n \in Movies : c \in Chain(s, n) /\ InView(s, n)}
           B == Subtrees(s, {c})
           r == RemoveMovie(s, c)
<1>1. s \in Stages /\ s.unload \in SUBSET Movies
  BY StageFields DEF Good
<1>2. CASE s.state[c] # "running"
  <2>1. r = s
    BY <1>2 DEF RemoveMovie
  <2>2. \A n \in Movies : InView(s, n) => c \notin Chain(s, n)
    BY <1>2 DEF InView
  <2> HIDE DEF r
  <2>3. QED
    BY <1>1, <2>1, <2>2 DEF r
<1>3. CASE s.state[c] = "running"
  <2>1. PICK g : Rounds(s, c, g, N) /\ r = [g[N].stage EXCEPT !.timeline = @ \ {c}]
    BY <1>3, RemoveMovieRounds
  <2>2. /\ N \in Nat
        /\ \A i \in 0..N : g[i] \in Visits /\ Good(g[i].stage, loose) /\ Removes(s, g[i].stage, B)
        /\ g[N].stage.state[c] # "running"
    BY <1>3, <2>1, RoundsFacts
  <2> HIDE DEF N, r
  <2>3. \A n \in B : c \in Chain(s, n)
    BY BelowIsAbove
  <2> DEFINE Fits(i) == /\ Coherent(g[i].stage, X, c) /\ Told(g[i], X)
                        /\ \A n \in Movies \ B : Has(s, n, "unload") => Has(g[i].stage, n, "unload")
  <2>4. Fits(0)
    <3>1. g[0] = [stage |-> s, destroy |-> TRUE]
      BY <2>1 DEF Rounds
    <3>2. g[0].stage = s
      BY <3>1
    <3>3. \A n \in X : s.state[n] = "running"
      BY <1>1, ChainFacts DEF InView
    <3>4. Told(g[0], X)
      BY <3>2, <3>3 DEF Told
    <3>5. Coherent(s, X, c)
      <4>1. SUFFICES ASSUME NEW n \in X, n # c
                     PROVE  /\ s.parent[n] \in X /\ s.state[s.parent[n]] = "running"
                            /\ n \in Range(s.list[s.parent[n]])
        BY DEF Coherent
      <4> DEFINE p == s.parent[n]
      <4>2. n \in Movies /\ c \in Chain(s, n) /\ InView(s, n) /\ s.state[n] = "running"
        BY <3>3
      <4>3. p # None /\ p \in Movies /\ c \in Chain(s, p) /\ p \in Chain(s, n)
        BY <1>1, <4>1, <4>2, ChainAbove
      <4>4. InView(s, p)
        <5>1. Chain(s, p) \subseteq Chain(s, n)
          BY <1>1, <4>2, <4>3, ChainInside
        <5>2. QED
          BY <4>2, <5>1 DEF InView
      <4>5. p \in X /\ s.state[p] = "running"
        BY <3>3, <4>3, <4>4
      <4>6. n \notin loose
        <5>1. SUFFICES ASSUME n \in loose PROVE FALSE
          OBVIOUS
        <5>2. s.parent[c] = p
          BY <4>2, <5>1
        <5> HIDE DEF p
        <5>3. QED
          BY <4>3, <4>4, <5>2, NotAboveParent
      <4>7. n \in Range(Siblings(s, p))
        BY <4>2, <4>6 DEF Good, RunningListed
      <4>8. QED
        BY <4>3, <4>5, <4>7 DEF Siblings
    <3> HIDE DEF X
    <3>6. QED
      BY <3>2, <3>4, <3>5
  <2> HIDE DEF X, B
  <2>5. ASSUME NEW i \in 1..N, Fits(i - 1) PROVE Fits(i)
    <3> DEFINE v == g[i - 1]
               t == v.stage
               n == NextVisit(t, c)
    <3>1. g[i] = Round(c, v)
      BY <2>1 DEF Rounds
    <3>2. i - 1 \in 0..N
      BY <2>2
    <3>3. /\ v \in Visits /\ Good(t, loose) /\ Removes(s, t, B) /\ t \in Stages
          /\ Coherent(t, X, c) /\ Told(v, X)
          /\ \A k \in Movies \ B : Has(s, k, "unload") => Has(t, k, "unload")
      BY <2>2, <2>5, <3>2 DEF Good
    <3> HIDE DEF v
    <3>4. CASE t.state[c] # "running"
      <4>1. g[i] = v
        BY <3>1, <3>4 DEF Round
      <4>2. QED
        BY <3>3, <4>1
    <3>5. CASE t.state[c] = "running"
      <4> DEFINE w == RemoveOne(n, v)
      <4>1. g[i] = w
        BY <3>1, <3>5 DEF Round
      <4>2. n \in Subtrees(t, {c}) /\ t.state[n] = "running" /\ Remaining(t, n) = {}
        BY <3>3, <3>5, NextVisitFacts
      <4>3. Lives(t, c) /\ X \in SUBSET Movies
        BY <3>5 DEF Lives, X
      <4> HIDE DEF n
      <4>4. n \in Movies /\ Subtrees(t, {n}) \subseteq Subtrees(t, {c})
        BY <3>3, <4>2, SubtreesInside
      <4>5. Subtrees(t, {c}) \subseteq B
        <5>1. {c} \in SUBSET Movies /\ \A p \in Movies : Range(t.list[p]) \subseteq Range(s.list[p])
          BY <3>3 DEF Removes
        <5>2. QED
          BY <1>1, <3>3, <5>1, SubtreesShrink DEF B
      <4>6. /\ Coherent(w.stage, X, c)
            /\ Told(w, X)
            /\ \A k \in Movies \ Subtrees(t, {n}) : Has(t, k, "unload") => Has(w.stage, k, "unload")
        BY <3>3, <4>2, <4>3, VisitTells DEF t
      <4> HIDE DEF w, t
      <4>7. \A k \in Movies \ B : Has(s, k, "unload") => Has(w.stage, k, "unload")
        BY <3>3, <4>4, <4>5, <4>6
      <4>8. QED
        BY <4>1, <4>6, <4>7
    <3>6. QED
      BY <3>4, <3>5
  <2> HIDE DEF Fits
  <2>6. Fits(N)
    <3> DEFINE K == {i \in 0..N : ~Fits(i)}
    <3>1. SUFFICES ASSUME ~Fits(N) PROVE FALSE
      OBVIOUS
    <3>2. K \in SUBSET Nat /\ K # {}
      BY <2>2, <3>1
    <3>3. PICK k \in K : \A i \in K : k <= i
      BY <3>2, Least
    <3>4. k \in 1..N /\ k - 1 \in 0..N /\ k - 1 \notin K
      BY <2>2, <2>4, <3>3
    <3>5. QED
      BY <2>5, <3>3, <3>4
  <2> DEFINE v == g[N]
             t == v.stage
  <2>7. /\ v \in Visits /\ t \in Stages /\ Removes(s, t, B) /\ t.state[c] # "running"
        /\ Coherent(t, X, c) /\ Told(v, X)
        /\ \A n \in Movies \ B : Has(s, n, "unload") => Has(t, n, "unload")
    BY <2>2, <2>6 DEF Fits, Good
  <2>8. r = [t EXCEPT !.timeline = t.timeline \ {c}]
    BY <2>1
  <2> HIDE DEF v, t
  <2>9. r.state = t.state /\ r.parent = s.parent /\ r.queue = t.queue
    <3>1. t.timeline \ {c} \in SUBSET Movies
      BY <2>7, StageFields
    <3>2. r.state = t.state /\ r.parent = t.parent /\ r.queue = t.queue
      BY <2>7, <2>8, <3>1, TimelineChange
    <3>3. QED
      BY <2>7, <3>2 DEF Removes
\* Nothing of what was in view below c runs, as c does not.
  <2>10. \A n \in X : t.state[n] # "running"
    <3>1. SUFFICES ASSUME NEW m \in X, t.state[m] = "running" PROVE FALSE
      OBVIOUS
    <3> DEFINE Y == {n \in Movies : (n \in X /\ t.state[n] = "running") \/ c \notin Chain(s, n)}
    <3>2. m \in Movies /\ c \in Chain(s, m)
      BY DEF X
    <3>3. ASSUME NEW n \in Y, s.parent[n] # None PROVE s.parent[n] \in Y
      <4>1. s.parent[n] \in Movies /\ n \in Movies
        BY <1>1, <3>3, StageFields
      <4>2. CASE n \in X /\ t.state[n] = "running"
        <5>1. n # c /\ t.parent = s.parent
          BY <2>7, <4>2 DEF Removes
        <5>2. t.parent[n] \in X /\ t.state[t.parent[n]] = "running"
          BY <2>7, <4>2, <5>1 DEF Coherent
        <5>3. QED
          BY <4>1, <5>1, <5>2
      <4>3. CASE c \notin Chain(s, n)
        <5>1. s.parent[n] \in Chain(s, n)
          BY <1>1, <3>3, <4>1, ChainFacts
        <5>2. Chain(s, s.parent[n]) \subseteq Chain(s, n)
          BY <1>1, <4>1, <5>1, ChainInside
        <5>3. QED
          BY <4>1, <4>3, <5>2
      <4>4. QED
        BY <4>2, <4>3
    <3>4. Y \in SUBSET Movies /\ m \in Y
      BY <3>1, <3>2
    <3>5. Chain(s, m) \subseteq Y
      <4>1. \A n \in Y : s.parent[n] # None => s.parent[n] \in Y
        BY <3>3
      <4> HIDE DEF Y
      <4>2. QED
        BY <1>1, <3>2, <3>4, <4>1, ChainFacts
    <3>6. c \in Chain(s, c)
      BY <1>1, ChainFacts
    <3>7. QED
      BY <2>7, <3>2, <3>5, <3>6
  <2>11. ASSUME NEW n \in s.unload, InView(s, n), c \in Chain(s, n) PROVE Has(r, n, "unload")
    <3>1. n \in X /\ n \in t.unload
      BY <1>1, <2>7, <2>11 DEF X, Removes
    <3>2. Has(t, n, "unload")
      BY <2>7, <2>10, <3>1 DEF Told, t
    <3>3. QED
      BY <2>9, <3>2 DEF Has
  <2>12. ASSUME NEW n \in Movies, Has(s, n, "unload"), c \notin Chain(s, n)
         PROVE  Has(r, n, "unload")
    <3>1. n \notin B
      BY <2>3, <2>12
    <3>2. Has(t, n, "unload")
      BY <2>7, <2>12, <3>1
    <3>3. QED
      BY <2>9, <3>2 DEF Has
  <2>13. ASSUME NEW n \in Movies, InView(s, n), c \notin Chain(s, n) PROVE InView(r, n)
    <3>1. SUFFICES ASSUME NEW a \in Chain(s, n) PROVE r.state[a] = "running"
      BY <2>9 DEF InView, Chain, Up
    <3>2. a \in Movies /\ Chain(s, a) \subseteq Chain(s, n)
      BY <1>1, ChainInside
    <3>3. a \notin B
      BY <2>3, <2>13, <3>2
    <3>4. t.state[a] = s.state[a]
      BY <2>7, <3>2, <3>3 DEF Removes
    <3>5. QED
      BY <2>9, <2>13, <3>4 DEF InView
  <2>14. QED
    BY <2>11, <2>12, <2>13 DEF r
<1>4. QED
  BY <1>2, <1>3

\* What was in view still is, or its handler is queued.
Tells(s, t) ==
    \A m \in s.unload : InView(s, m) => InView(t, m) \/ Has(t, m, "unload")

\* The children of a movie are removed one after the other: no handler that one
\* of them has queued is lost when the next one is destroyed.
LEMMA RemoveAllTells ==
    ASSUME NEW s, NEW loose, Good(s, loose), NEW movies \in Seq(Movies), NEW w \in Movies,
           \A c \in Range(movies) : s.parent[c] = w,
           \A n \in Movies \cap loose : s.parent[n] = w, IsFiniteSet(Movies)
    PROVE  Tells(s, RemoveAll(s, movies))
<1> DEFINE N == Len(movies)
           X == Movies \ {w}
<1>1. N \in Nat /\ \A i \in 1..N : movies[i] \in Movies /\ s.parent[movies[i]] = w
  <2>1. \A i \in 1..N : movies[i] \in Movies /\ movies[i] \in Range(movies)
    BY RangeFacts
  <2>2. QED
    BY <2>1
<1>2. PICK g : Turns(s, movies, g, N) /\ RemoveAll(s, movies) = g[N]
  BY <1>1, RemoveAllTurns
<1>3. \A i \in 0..N : /\ Good(g[i], loose)
                      /\ Removes(s, g[i], X)
                      /\ \A j \in 1..i : g[i].state[movies[j]] # "running"
  BY <1>2, TurnsFacts
<1>4. s \in Stages /\ s.unload \in SUBSET Movies
  BY StageFields DEF Good
<1> HIDE DEF N, X
<1> DEFINE Fits(i) == \A m \in s.unload : InView(s, m) =>
                         \/ InView(g[i], m)
                         \/ /\ Has(g[i], m, "unload")
                            /\ \E j \in 1..i : movies[j] \in Chain(s, m)
<1>5. Fits(0)
  <2>1. g[0] = s
    BY <1>2 DEF Turns
  <2>2. QED
    BY <2>1
<1>6. ASSUME NEW i \in 1..N, Fits(i - 1) PROVE Fits(i)
  <2> DEFINE t == g[i - 1]
             c == movies[i]
             u == RemoveMovie(t, c)
  <2>1. g[i] = u
    BY <1>2 DEF Turns
  <2>2. i - 1 \in 0..N /\ i \in Nat
    BY <1>1
  <2>3. Good(t, loose) /\ Removes(s, t, X) /\ t \in Stages
        /\ \A j \in 1..i - 1 : t.state[movies[j]] # "running"
    BY <1>3, <2>2 DEF Good
  <2>4. c \in Movies /\ s.parent[c] = w
    BY <1>1
  <2>5. \A m \in s.unload : InView(s, m) =>
           \/ InView(t, m)
           \/ /\ Has(t, m, "unload")
              /\ \E j \in 1..i - 1 : movies[j] \in Chain(s, m)
    BY <1>6
  <2> HIDE DEF t, c, Fits
  <2>6. t.parent = s.parent /\ t.unload = s.unload /\ \A n \in Movies \cap loose : t.parent[n] = t.parent[c]
    BY <2>3, <2>4 DEF Removes
  <2>7. /\ \A n \in t.unload : InView(t, n) /\ c \in Chain(t, n) => Has(u, n, "unload")
        /\ \A n \in Movies : Has(t, n, "unload") /\ c \notin Chain(t, n) => Has(u, n, "unload")
        /\ \A n \in Movies : InView(t, n) /\ c \notin Chain(t, n) => InView(u, n)
    BY <2>3, <2>4, <2>6, RemoveMovieTells
  <2>8. \A n \in Movies : Chain(t, n) = Chain(s, n)
    BY <2>6 DEF Chain, Up
  <2>9. ASSUME t.state[c] # "running" PROVE u = t
    BY <2>9 DEF RemoveMovie
  <2> HIDE DEF u
  <2>10. ASSUME NEW m \in s.unload, InView(s, m)
         PROVE  \/ InView(u, m)
                \/ /\ Has(u, m, "unload")
                   /\ \E j \in 1..i : movies[j] \in Chain(s, m)
    <3>1. m \in Movies
      BY <1>4
    <3>2. CASE InView(t, m)
      <4>1. CASE c \in Chain(s, m)
        <5>1. Has(u, m, "unload")
          BY <2>6, <2>7, <2>8, <3>1, <3>2, <4>1
        <5>2. i \in 1..i
          BY <2>2
        <5>3. QED
          BY <4>1, <5>1, <5>2 DEF c
      <4>2. CASE c \notin Chain(s, m)
        BY <2>7, <2>8, <3>1, <3>2, <4>2
      <4>3. QED
        BY <4>1, <4>2
    <3>3. CASE ~InView(t, m)
      <4>1. PICK j \in 1..i - 1 : movies[j] \in Chain(s, m)
        BY <2>5, <2>10, <3>3
      <4>2. Has(t, m, "unload")
        BY <2>5, <2>10, <3>3
      <4>3. j \in 1..i /\ j \in 1..N
        BY <1>1, <2>2
      <4>4. CASE t.state[c] # "running"
        BY <2>9, <4>1, <4>2, <4>3, <4>4
      <4>5. CASE t.state[c] = "running"
        <5>1. movies[j] # c
          BY <2>3, <4>1, <4>5
        <5>2. s.parent[movies[j]] = w
          BY <1>1, <4>3
        <5>3. c \notin Chain(s, m)
          BY <2>4, <2>10, <3>1, <4>1, <5>1, <5>2, OneOfSiblings
        <5>4. Has(u, m, "unload")
          BY <2>7, <2>8, <3>1, <4>2, <5>3
        <5>5. QED
          BY <4>1, <4>3, <5>4
      <4>6. QED
        BY <4>4, <4>5
    <3>4. QED
      BY <3>2, <3>3
  <2>11. QED
    BY <2>1, <2>10 DEF Fits
<1> HIDE DEF Fits
<1>7. Fits(N)
  <2> DEFINE K == {i \in 0..N : ~Fits(i)}
  <2>1. SUFFICES ASSUME ~Fits(N) PROVE FALSE
    OBVIOUS
  <2>2. K \in SUBSET Nat /\ K # {}
    BY <1>1, <2>1
  <2>3. PICK k \in K : \A i \in K : k <= i
    BY <2>2, Least
  <2>4. k \in 1..N /\ k - 1 \in 0..N /\ k - 1 \notin K
    BY <1>1, <1>5, <2>3
  <2>5. QED
    BY <1>6, <2>3, <2>4
<1>8. QED
  BY <1>2, <1>7 DEF Fits, Tells

LEMMA OneRemovalTells ==
    ASSUME NEW s, Good(s, {}), NEW c \in Movies, IsFiniteSet(Movies)
    PROVE  Tells(s, RemoveMovie(s, c))
<1> DEFINE t == RemoveMovie(s, c)
<1>1. s.unload \in SUBSET Movies
  BY StageFields DEF Good
<1>2. \A n \in Movies \cap {} : s.parent[n] = s.parent[c]
  OBVIOUS
<1>3. /\ \A n \in s.unload : InView(s, n) /\ c \in Chain(s, n) => Has(t, n, "unload")
      /\ \A n \in Movies : InView(s, n) /\ c \notin Chain(s, n) => InView(t, n)
  BY <1>2, RemoveMovieTells
<1> HIDE DEF t
<1>4. QED
  BY <1>1, <1>3 DEF Tells, t

\* What leaves running movies where they are, and handlers queued.
Leaves(s, t) ==
    /\ s.unload \subseteq t.unload
    /\ \A m \in Movies : s.state[m] = "running" =>
          t.state[m] = "running" /\ t.parent[m] = s.parent[m]
    /\ \A m \in Movies : Has(s, m, "unload") => Has(t, m, "unload")

LEMMA LeavesInTurn ==
    ASSUME NEW s, NEW t, NEW u, Leaves(s, t), Leaves(t, u)
    PROVE  Leaves(s, u)
BY DEF Leaves

LEMMA LeavesInView ==
    ASSUME NEW s \in Stages, NEW t \in Stages, Leaves(s, t), NEW m \in Movies, InView(s, m)
    PROVE  InView(t, m)
<1> DEFINE X == Chain(s, m)
<1>1. /\ m \in X /\ X \in SUBSET Movies
      /\ \A n \in X : s.parent[n] # None => s.parent[n] \in X
  BY ChainFacts
<1>2. \A n \in X : s.state[n] = "running"
  BY DEF InView
<1> HIDE DEF X
<1>3. \A n \in X : t.state[n] = "running" /\ t.parent[n] = s.parent[n]
  BY <1>1, <1>2 DEF Leaves
<1>4. \A n \in X : t.parent[n] # None => t.parent[n] \in X
  BY <1>1, <1>3
<1>5. Chain(t, m) \subseteq X
  BY <1>1, <1>4, ChainFacts
<1>6. QED
  BY <1>3, <1>5 DEF InView

LEMMA LeavesThenTells ==
    ASSUME NEW s \in Stages, NEW t \in Stages, NEW u, Leaves(s, t), Tells(t, u)
    PROVE  Tells(s, u)
<1>1. SUFFICES ASSUME NEW m \in s.unload, InView(s, m)
               PROVE  InView(u, m) \/ Has(u, m, "unload")
  BY DEF Tells
<1>2. m \in Movies /\ m \in t.unload
  BY StageFields DEF Leaves
<1>3. InView(t, m)
  BY <1>1, <1>2, LeavesInView
<1>4. QED
  BY <1>2, <1>3 DEF Tells

LEMMA TellsThenLeaves ==
    ASSUME NEW s \in Stages, NEW t \in Stages, NEW u \in Stages, Tells(s, t), Leaves(t, u)
    PROVE  Tells(s, u)
<1>1. SUFFICES ASSUME NEW m \in s.unload, InView(s, m)
               PROVE  InView(u, m) \/ Has(u, m, "unload")
  BY DEF Tells
<1>2. m \in Movies
  BY StageFields
<1>3. InView(t, m) \/ Has(t, m, "unload")
  BY <1>1 DEF Tells
<1>4. QED
  BY <1>2, <1>3, LeavesInView DEF Leaves

\* Movies that only change their places stay in view.
LEMMA SameTells ==
    ASSUME NEW s, NEW t, t.state = s.state, t.parent = s.parent
    PROVE  Tells(s, t)
BY DEF Tells, InView, Chain, Up

-----------------------------------------------------------------------------
(* What creates and queues loses nothing *)

\* What a script queues for others, or for this one.
LEMMA QueueLeaves ==
    ASSUME NEW s, NEW loose, Good(s, loose), NEW m \in Movies, Lives(s, m), NEW e \in Events,
           e = "unload" => s.state[m] # "running",
           e \in {"unload", "enter"} => ~Has(s, m, e)
    PROVE  Good(QueueScript(s, m, e), loose) /\ Leaves(s, QueueScript(s, m, e))
<1> DEFINE t == QueueScript(s, m, e)
<1>1. /\ Good(t, loose)
      /\ t.state = s.state /\ t.parent = s.parent /\ t.unload = s.unload
      /\ \A i \in Queues : Range(t.queue[i]) =
            Range(s.queue[i]) \cup (IF i = Importance(e) THEN {<<m, e>>} ELSE {})
  BY QueueFacts
<1> HIDE DEF t
<1>2. Range(s.queue[2]) \subseteq Range(t.queue[2])
  BY <1>1 DEF Queues
<1>3. \A n \in Movies : Has(s, n, "unload") => Has(t, n, "unload")
  BY <1>2 DEF Has
<1>4. QED
  BY <1>1, <1>3 DEF Leaves, t

\* A handler of a movie that is placed.
LEMMA HandlerLeaves ==
    ASSUME NEW s, NEW loose, Good(s, loose), NEW m \in Movies, Lives(s, m), NEW e \in Handlers
    PROVE  Good(QueueScript(s, m, e), loose) /\ Leaves(s, QueueScript(s, m, e))
           /\ Lives(QueueScript(s, m, e), m)
<1>1. /\ e \in Events
      /\ e = "unload" => s.state[m] # "running"
      /\ e \in {"unload", "enter"} => ~Has(s, m, e)
  BY DEF Handlers, Events
<1>2. Good(QueueScript(s, m, e), loose) /\ Leaves(s, QueueScript(s, m, e))
  BY <1>1, QueueLeaves
<1>3. Handles(s, QueueScript(s, m, e), m)
  BY QueueHandlerFacts
<1>4. QED
  BY <1>2, <1>3 DEF Handles, Lives

\* A movie that nobody knew is created.
LEMMA NewMovieLeaves ==
    ASSUME NEW s, NEW loose, Good(s, loose), NEW m \in Movies, s.state[m] = "unborn",
           NEW parent \in Movies \cup {None}, parent # None => Lives(s, parent),
           NEW depth \in Depths(s, parent), NEW byTimeline \in BOOLEAN
    PROVE  /\ Good(NewMovie(s, m, parent, depth, byTimeline), loose)
           /\ Leaves(s, NewMovie(s, m, parent, depth, byTimeline))
           /\ Lives(NewMovie(s, m, parent, depth, byTimeline), m)
<1> DEFINE t == NewMovie(s, m, parent, depth, byTimeline)
<1>1. s \in Stages
  BY DEF Good
<1>2. s.state \in [Movies -> States] /\ s.parent \in [Movies -> Movies \cup {None}]
  BY <1>1, StageFields
<1>3. Creates(s, t, m, parent, depth)
  BY <1>1, NewMovieFields
<1>4. Good(t, loose)
  BY NewMoviePlaces
<1> HIDE DEF t
<1>5. /\ t.state = [s.state EXCEPT ![m] = "running"]
      /\ t.parent = [s.parent EXCEPT ![m] = parent]
      /\ t.queue = s.queue /\ t.unload = s.unload
  BY <1>3 DEF Creates
<1>6. \A n \in Movies : s.state[n] = "running" => t.state[n] = "running" /\ t.parent[n] = s.parent[n]
  BY <1>2, <1>5
<1>7. Lives(t, m)
  BY <1>2, <1>5 DEF Lives
<1>8. QED
  BY <1>4, <1>5, <1>6, <1>7 DEF Leaves, Has, t

\* A PlaceObject tag.
LEMMA PlaceTagLeaves ==
    ASSUME NEW s, NEW loose, Good(s, loose), NEW m \in Movies, Lives(s, m),
           NEW tag \in Tags(s, m), s.state[tag.new] = "unborn"
    PROVE  Leaves(s, PlaceTag(s, m, tag))
<1> DEFINE new == tag.new
           p == NewMovie(s, new, m, tag.depth, TRUE)
           h == IF tag.handler THEN p.unload \cup {new} ELSE p.unload
           u == [p EXCEPT !.unload = h]
           q1 == QueueScript(u, new, "initialize")
           q2 == QueueScript(q1, new, "construct")
           q3 == QueueScript(q2, new, "load")
<1>1. /\ new \in Movies /\ tag.depth \in Depths(s, m) /\ tag.handler \in BOOLEAN
      /\ m \in Movies \cup {None} /\ s.state[new] = "unborn"
  BY DEF Tags, Unborn
<1>2. PlaceTag(s, m, tag) = q3
  BY DEF PlaceTag
<1> HIDE DEF new
<1>3. Good(p, loose) /\ Leaves(s, p) /\ Lives(p, new)
  <2> DEFINE b == TRUE
  <2>1. b \in BOOLEAN
    OBVIOUS
  <2> HIDE DEF b
  <2>2. /\ Good(NewMovie(s, new, m, tag.depth, b), loose)
        /\ Leaves(s, NewMovie(s, new, m, tag.depth, b))
        /\ Lives(NewMovie(s, new, m, tag.depth, b), new)
    BY <1>1, <2>1, NewMovieLeaves
  <2>3. QED
    BY <2>2 DEF b
<1> HIDE DEF p
<1>4. p \in Stages /\ p.unload \in SUBSET Movies
  <2>1. p \in Stages
    BY <1>3 DEF Good
  <2>2. QED
    BY <2>1, StageFields
<1>5. h \in SUBSET Movies /\ p.unload \subseteq h
  BY <1>1, <1>4
<1> HIDE DEF h
<1>6. /\ u \in Stages /\ u.state = p.state /\ u.parent = p.parent /\ u.list = p.list
      /\ u.roots = p.roots /\ u.actors = p.actors /\ u.queue = p.queue /\ u.unload = h
  BY <1>4, <1>5, UnloadChange
<1> HIDE DEF u
<1>7. Good(u, loose) /\ Leaves(p, u) /\ Lives(u, new)
  <2>1. Good(u, loose)
    BY <1>3, <1>6, GoodElsewhere
  <2>2. QED
    BY <1>3, <1>5, <1>6, <2>1 DEF Leaves, Has, Lives
<1>8. Good(q1, loose) /\ Leaves(u, q1) /\ Lives(q1, new)
  <2>1. "initialize" \in Handlers
    BY DEF Handlers
  <2>2. QED
    BY <1>1, <1>7, <2>1, HandlerLeaves
<1> HIDE DEF q1
<1>9. Good(q2, loose) /\ Leaves(q1, q2) /\ Lives(q2, new)
  <2>1. "construct" \in Handlers
    BY DEF Handlers
  <2>2. QED
    BY <1>1, <1>8, <2>1, HandlerLeaves
<1> HIDE DEF q2
<1>10. Leaves(q2, q3)
  <2>1. "load" \in Handlers
    BY DEF Handlers
  <2>2. QED
    BY <1>1, <1>9, <2>1, HandlerLeaves
<1> HIDE DEF q3
<1>11. Leaves(s, u)
  BY <1>3, <1>7, LeavesInTurn
<1>12. Leaves(s, q1)
  BY <1>8, <1>11, LeavesInTurn
<1>13. Leaves(s, q2)
  BY <1>9, <1>12, LeavesInTurn
<1>14. QED
  BY <1>2, <1>10, <1>13, LeavesInTurn

LEMMA BuiltLeaves ==
    ASSUME NEW s, NEW loose, Good(s, loose), NEW m \in Movies, Lives(s, m),
           \A n \in Unborn : s.state[n] = "unborn", NEW t \in Built(s, m)
    PROVE  Leaves(s, t)
<1>1. CASE t = s
  BY <1>1 DEF Leaves
<1>2. CASE t # s
  <2>1. PICK tag \in Tags(s, m) : t = PlaceTag(s, m, tag)
    BY <1>2, Zenon DEF Built
  <2>2. s.state[tag.new] = "unborn"
    BY DEF Tags
  <2>3. QED
    BY <2>1, <2>2, PlaceTagLeaves
<1>3. QED
  BY <1>1, <1>2

\* What stays in view needs no handler.
LEMMA LeavesTells ==
    ASSUME NEW s \in Stages, NEW t \in Stages, Leaves(s, t)
    PROVE  Tells(s, t)
<1>1. s.unload \in SUBSET Movies
  BY StageFields
<1>2. QED
  BY <1>1, LeavesInView DEF Tells

LEMMA ForwardTells ==
    ASSUME NEW s, Good(s, {}), NEW m \in Movies, s.state[m] = "running",
           \A n \in Unborn : s.state[n] = "unborn", NEW t \in Forward(s, m), IsFiniteSet(Movies)
    PROVE  Tells(s, t)
<1>1. s \in Stages /\ Lives(s, m)
  BY DEF Good, Lives
<1>2. CASE t \in Built(s, m)
  <2>1. Good(t, {}) /\ Leaves(s, t)
    BY <1>1, <1>2, BuiltFacts, BuiltLeaves
  <2>2. QED
    BY <1>1, <2>1, LeavesTells DEF Good
<1>3. CASE t \notin Built(s, m)
  <2>1. PICK c \in Range(s.list[m]) \cap s.timeline : t = RemoveMovie(s, c)
    BY <1>3, Zenon DEF Forward
  <2>2. c \in Movies
    <3>1. s.timeline \in SUBSET Movies
      BY <1>1, StageFields
    <3>2. QED
      BY <3>1
  <2>3. QED
    BY <2>1, <2>2, OneRemovalTells
<1>4. QED
  BY <1>2, <1>3

LEMMA BackwardTells ==
    ASSUME NEW s, Good(s, {}), NEW m \in Movies, s.state[m] = "running",
           \A n \in Unborn : s.state[n] = "unborn", NEW t \in Backward(s, m), IsFiniteSet(Movies)
    PROVE  Tells(s, t)
<1>1. s \in Stages
  BY DEF Good
<1>2. PICK sp, u, gone, left, movies : Rewinds(s, m, t, sp, u, gone, left, movies)
  BY BackwardParts
<1>3. Leaves(s, sp)
  BY <1>2 DEF Rewinds, Lists, Leaves, Has
<1>4. Leaves(sp, u)
  BY <1>2, BuiltLeaves DEF Rewinds
<1>5. Leaves(s, u)
  BY <1>3, <1>4, LeavesInTurn
<1>6. u \in Stages
  BY <1>2 DEF Rewinds, Good
<1>7. Tells(u, t)
  BY <1>2, RemoveAllTells DEF Rewinds
<1>8. QED
  BY <1>1, <1>5, <1>6, <1>7, LeavesThenTells

LEMMA GotoTells ==
    ASSUME NEW s, Good(s, {}), NEW m \in Movies, s.state[m] = "running",
           \A n \in Unborn : s.state[n] = "unborn", NEW t \in Goto(s, m), IsFiniteSet(Movies)
    PROVE  Tells(s, t)
BY ForwardTells, BackwardTells DEF Goto

-----------------------------------------------------------------------------
(* The steps, and what they tell *)

LEMMA CreateClipTells ==
    ASSUME MoviesInv, NEW m \in Movies, NEW parent \in Movies, NEW occupant \in Movies \cup {None},
           NEW events \in BOOLEAN, CreateClip(m, parent, occupant, events)
    PROVE  Tells(stage, stage')
<1> DEFINE s == IF occupant = None THEN stage ELSE RemoveMovie(stage, occupant)
<1>1. /\ m \in Unborn /\ Exists(parent)
      /\ occupant \in Range(stage.list[parent]) \cup {None}
  BY DEF CreateClip, InScript
<1>2. PICK depth \in Depths(s, parent), byTimeline \in BOOLEAN :
         LET new == NewMovie(s, m, parent, depth, byTimeline)
         IN  stage' = IF events THEN QueueScript(QueueScript(new, m, "initialize"), m, "load")
                                ELSE new
  BY DEF CreateClip
<1> DEFINE new == NewMovie(s, m, parent, depth, byTimeline)
           q1 == QueueScript(new, m, "initialize")
           q2 == QueueScript(q1, m, "load")
<1>3. stage' = IF events THEN q2 ELSE new
  BY <1>2
<1>4. Good(stage, {}) /\ stage \in Stages
  BY DEF MoviesInv, Good
<1> HIDE DEF s
<1>5. Good(s, {}) /\ Tells(stage, s) /\ Lives(s, parent) /\ s.state[m] = "unborn" /\ s \in Stages
  <2>1. CASE occupant = None
    <3>1. s = stage
      BY <2>1 DEF s
    <3>2. QED
      BY <1>1, <1>4, <3>1, SameTells DEF Exists, Lives, Unborn
  <2>2. CASE occupant # None
    <3>1. s = RemoveMovie(stage, occupant)
      BY <2>2 DEF s
    <3>2. occupant \in Movies /\ occupant \in Range(stage.list[parent])
      BY <1>1, <2>2
    <3>3. stage.parent[occupant] = parent /\ Lives(stage, occupant)
      BY <1>4, <3>2 DEF Good, ListedOnce
    <3>4. Good(s, {}) /\ Removes(stage, s, Subtrees(stage, {occupant}))
      BY <1>4, <3>1, <3>2, FiniteAssumption, RemoveMovieFacts
    <3>5. parent \notin Subtrees(stage, {occupant})
      BY <1>4, <3>2, <3>3, ParentStays
    <3>6. Lives(s, parent) /\ s.state[m] = "unborn"
      BY <1>1, <3>4, <3>5 DEF Removes, Lives, Exists, Unborn
    <3>7. Tells(stage, s)
      BY <1>4, <3>1, <3>2, FiniteAssumption, OneRemovalTells
    <3>8. QED
      BY <3>4, <3>6, <3>7 DEF Good
  <2>3. QED
    BY <2>1, <2>2
<1>6. Good(new, {}) /\ Leaves(s, new) /\ Lives(new, m)
  BY <1>5, NewMovieLeaves
<1> HIDE DEF new
<1>7. Good(q1, {}) /\ Leaves(new, q1) /\ Lives(q1, m)
  <2>1. "initialize" \in Handlers
    BY DEF Handlers
  <2>2. QED
    BY <1>6, <2>1, HandlerLeaves
<1> HIDE DEF q1
<1>8. Good(q2, {}) /\ Leaves(q1, q2)
  <2>1. "load" \in Handlers
    BY DEF Handlers
  <2>2. QED
    BY <1>7, <2>1, HandlerLeaves
<1> HIDE DEF q2
<1>9. Good(stage', {}) /\ Leaves(s, stage')
  <2>1. Leaves(s, q1)
    BY <1>6, <1>7, LeavesInTurn
  <2>2. Leaves(s, q2)
    BY <1>8, <2>1, LeavesInTurn
  <2>3. CASE events
    BY <1>3, <1>8, <2>2, <2>3
  <2>4. CASE ~events
    BY <1>3, <1>6, <2>4
  <2>5. QED
    BY <2>3, <2>4
<1>10. stage' \in Stages
  BY <1>9 DEF Good
<1>11. QED
  BY <1>4, <1>5, <1>9, <1>10, TellsThenLeaves

LEMMA ReplaceMovieTells ==
    ASSUME MoviesInv, NEW m \in Movies, NEW new \in Movies, ReplaceMovie(m, new)
    PROVE  Tells(stage, stage')
<1> DEFINE p == stage.parent[m]
<1>1. Good(stage, {}) /\ stage \in Stages
  BY DEF MoviesInv, Good
<1>2. PICK depth \in Depths(stage, p), byTimeline \in BOOLEAN :
         stage' = RemoveMovie(NewMovie(stage, new, p, depth, byTimeline), m)
  BY ReplaceMovieFacts
<1>3. p \in Movies \cup {None} /\ (p # None => Lives(stage, p)) /\ stage.state[new] = "unborn"
  BY ReplaceMovieFacts
<1> DEFINE copy == NewMovie(stage, new, p, depth, byTimeline)
<1> HIDE DEF p
<1>4. Good(copy, {}) /\ Leaves(stage, copy)
  BY <1>1, <1>3, NewMovieLeaves
<1>5. stage' = RemoveMovie(copy, m)
  BY <1>2
<1> HIDE DEF copy
<1>6. Tells(copy, stage') /\ copy \in Stages
  BY <1>4, <1>5, FiniteAssumption, OneRemovalTells DEF Good
<1>7. QED
  BY <1>1, <1>4, <1>6, LeavesThenTells

LEMMA IterateStartTells ==
    ASSUME MoviesInv, IterateStart
    PROVE  Tells(stage, stage')
<1> DEFINE entered == QueueScript(stage, walk, "enter")
<1>1. /\ phase = "start" /\ walk # None
      /\ \/ ~Running(walk) /\ UNCHANGED stage
         \/ Running(walk) /\ stage' = entered
         \/ Running(walk) /\ stage' \in Goto(entered, walk)
  BY DEF IterateStart
<1>2. /\ Good(stage, {}) /\ stage \in Stages /\ walk \in Movies /\ Lives(stage, walk)
      /\ ~Has(stage, walk, "enter")
  <2>1. Good(stage, {}) /\ walk \in Range(stage.actors)
    BY <1>1 DEF MoviesInv, WalkStands
  <2>2. walk \in Movies /\ Lives(stage, walk)
    BY <2>1 DEF Good, ActorsLive
  <2>3. ~Has(stage, walk, "enter")
    BY <1>1, <2>2 DEF MoviesInv, AheadWaits, Ahead
  <2>4. QED
    BY <2>1, <2>2, <2>3 DEF Good
<1>3. CASE UNCHANGED stage
  BY <1>3, SameTells
<1>4. CASE Running(walk) /\ (stage' = entered \/ stage' \in Goto(entered, walk))
  <2> DEFINE e == "enter"
             t == QueueScript(stage, walk, e)
  <2>1. /\ e \in Events
        /\ e = "unload" => stage.state[walk] # "running"
        /\ e \in {"unload", "enter"} => ~Has(stage, walk, e)
    BY <1>2 DEF Events
  <2>2. entered = t /\ stage.state[walk] = "running"
    BY <1>4 DEF Running
  <2> HIDE DEF e
  <2>3. Good(t, {}) /\ Leaves(stage, t) /\ t.state = stage.state
    BY <1>2, <2>1, QueueLeaves, QueueFacts
  <2> HIDE DEF t
  <2>4. t \in Stages /\ \A n \in Unborn : t.state[n] = "unborn"
    BY <2>3 DEF Unborn, Good
  <2>5. CASE stage' = t
    BY <1>2, <2>3, <2>4, <2>5, LeavesTells
  <2>6. CASE stage' \in Goto(t, walk)
    <3>1. Tells(t, stage')
      BY <1>2, <2>2, <2>3, <2>4, <2>6, FiniteAssumption, GotoTells
    <3>2. QED
      BY <1>2, <2>3, <2>4, <3>1, LeavesThenTells
  <2>7. QED
    BY <1>4, <2>2, <2>5, <2>6
<1>5. QED
  BY <1>1, <1>3, <1>4

\* Every step of scripts and of the first loop over the actors.
LEMMA StepTells ==
    ASSUME MoviesInv, [Next]_vars, phase \in {"script", "start"}
    PROVE  Tells(stage, stage')
<1>1. Good(stage, {}) /\ \A n \in Unborn : stage.state[n] = "unborn"
  BY DEF MoviesInv, Unborn
<1>2. CASE Script
  <2>1. PICK m \in Movies :
           \/ \E parent \in Movies, occupant \in Movies \cup {None}, events \in BOOLEAN :
                CreateClip(m, parent, occupant, events)
           \/ RemoveClip(m)
           \/ GotoFrame(m)
           \/ SetHandler(m)
           \/ SwapDepths(m)
           \/ \E new \in Movies : ReplaceMovie(m, new)
    BY <1>2 DEF Script
  <2>2. CASE RemoveClip(m)
    BY <1>1, <2>2, FiniteAssumption, OneRemovalTells DEF RemoveClip
  <2>3. CASE GotoFrame(m)
    BY <1>1, <2>3, FiniteAssumption, GotoTells DEF GotoFrame, Running
  <2>4. CASE SetHandler(m)
    <3> DEFINE x == IF m \in stage.unload THEN stage.unload \ {m} ELSE stage.unload \cup {m}
    <3>1. stage \in Stages /\ stage.unload \in SUBSET Movies
      BY <1>1, StageFields DEF Good
    <3>2. x \in SUBSET Movies /\ stage' = [stage EXCEPT !.unload = x]
      BY <2>4, <3>1 DEF SetHandler
    <3> HIDE DEF x
    <3>3. stage'.state = stage.state /\ stage'.parent = stage.parent
      BY <3>1, <3>2, UnloadChange
    <3>4. QED
      BY <3>3, SameTells
  <2>5. CASE SwapDepths(m)
    BY <2>5, SwapDepthsFacts, SameTells
  <2>6. QED
    BY <2>1, <2>2, <2>3, <2>4, <2>5, CreateClipTells, ReplaceMovieTells
<1>3. CASE IterateStart
  BY <1>3, IterateStartTells
<1>4. CASE EndScript \/ StopIteration \/ UNCHANGED vars
  <2>1. stage' = stage
    BY <1>4 DEF EndScript, StopIteration, vars
  <2>2. QED
    BY <2>1, SameTells
<1>5. ~(RunAction \/ EndActions \/ IterateEnd \/ FinishIteration)
  BY DEF RunAction, EndActions, IterateEnd, FinishIteration
<1>6. ~(CallScript \/ StartIteration \/ Dispose)
  BY DEF CallScript, StartIteration, Dispose
<1>7. QED
  BY <1>2, <1>3, <1>4, <1>5, <1>6 DEF Next, Progress

\* Whatever scripts and the timeline remove, the unload handlers of the movies in
\* view are queued: no handler is lost with the movie that another one is part of.
THEOREM HandlersAreQueued == Spec => RemovalQueuesUnload
<1>1. MoviesInv /\ MoviesInv' /\ [Next]_vars =>
         \A m \in stage.unload :
            phase \in {"script", "start"} /\ stage'.state[m] # "running" /\ Shown(m)
              => Contains(stage'.queue[2], <<m, "unload">>)
  <2>1. SUFFICES ASSUME MoviesInv, MoviesInv', [Next]_vars, NEW m \in stage.unload,
                        phase \in {"script", "start"}, stage'.state[m] # "running", Shown(m)
                 PROVE  Contains(stage'.queue[2], <<m, "unload">>)
    OBVIOUS
  <2>2. m \in Movies /\ stage' \in Stages
    BY <2>1, StageFields DEF MoviesInv, Good
  <2>3. Tells(stage, stage')
    BY <2>1, StepTells
  <2>4. InView(stage, m)
    BY <2>1 DEF Shown, Running, InView, Chain, Up
  <2>5. ~InView(stage', m)
    BY <2>1, <2>2, ChainFacts DEF InView
  <2>6. Has(stage', m, "unload")
    BY <2>3, <2>4, <2>5 DEF Tells
  <2> DEFINE q == stage'.queue[2]
  <2>7. q \in Seq(Movies \X Events)
    BY <2>2, StageFields DEF Queues
  <2>8. <<m, "unload">> \in Range(q)
    BY <2>6 DEF Has
  <2> HIDE DEF q
  <2>9. \E i \in 1..Len(q) : q[i] = <<m, "unload">>
    BY <2>7, <2>8, RangeFacts
  <2>10. QED
    BY <2>9 DEF Contains, q
<1>2. QED
  BY <1>1, MoviesInvHolds, PTL DEF Spec, RemovalQueuesUnload

=============================================================================
