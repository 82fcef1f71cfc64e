--------------------------- MODULE NetStreamProofs ---------------------------
(***************************************************************************)
(* Proofs about the playback of videos (NetStream), for videos of any      *)
(* length and with any key frames, any buffer times and any number of      *)
(* scripts inside of each other.                                           *)
(*                                                                         *)
(* Functions of the stream are states and what is left to be done, so that *)
(* the invariant is stated of such a pair (Good); an action is shown to    *)
(* return from a good pair, and returning from one leads to a good one.    *)
(***************************************************************************)
EXTENDS NetStream, SequenceTheorems, WellFoundedInduction, TLAPS

-----------------------------------------------------------------------------
(* Lists *)

\* Min returns a least element of a nonempty set of numbers bounded below.
LEMMA MinFacts ==
    ASSUME NEW n \in Nat, NEW I \in SUBSET (1 .. n), I # {}
    PROVE  Min(I) \in I /\ \A i \in I : Min(I) <= i
<1>1. I \subseteq Nat
  OBVIOUS
<1>2. PICK m \in I : \A i \in I : <<i, m>> \notin OpToRel(<, Nat)
  BY <1>1, NatLessThanWellFounded, WFMin
<1>3. ASSUME NEW i \in I PROVE m <= i
  <2>1. i \in Nat /\ m \in Nat
    BY <1>1
  <2>2. ~(i < m)
    <3>1. <<i, m>> \in Nat \X Nat
      BY <2>1
    <3>2. <<i, m>> \notin {ss \in Nat \X Nat : ss[1] < ss[2]}
      BY <1>2 DEF OpToRel
    <3>3. QED
      BY <3>1, <3>2
  <2>3. QED
    BY <2>1, <2>2
<1>4. QED
  BY <1>1, <1>3 DEF Min

LEMMA ToSetFacts ==
    ASSUME NEW S, NEW list \in Seq(S)
    PROVE  /\ ToSet(list) \subseteq S
           /\ DOMAIN list = 1 .. Len(list)
           /\ Len(list) \in Nat
           /\ \A i \in 1 .. Len(list) : list[i] \in ToSet(list)
           /\ \A x \in ToSet(list) : \E i \in 1 .. Len(list) : list[i] = x
BY DEF ToSet

\* The front and the back of a list that is taken apart.
LEMMA SubSeqFacts ==
    ASSUME NEW S, NEW list \in Seq(S), NEW p \in 1 .. Len(list) + 1
    PROVE  /\ SubSeq(list, 1, p - 1) \in Seq(S)
           /\ Len(SubSeq(list, 1, p - 1)) = p - 1
           /\ \A i \in 1 .. p - 1 : SubSeq(list, 1, p - 1)[i] = list[i]
           /\ SubSeq(list, p, Len(list)) \in Seq(S)
           /\ Len(SubSeq(list, p, Len(list))) = Len(list) - p + 1
           /\ \A i \in 1 .. Len(list) - p + 1 :
                 SubSeq(list, p, Len(list))[i] = list[p + i - 1]
BY SMT

LEMMA ConcatFacts ==
    ASSUME NEW S, NEW f \in Seq(S), NEW b \in Seq(S)
    PROVE  /\ f \o b \in Seq(S)
           /\ Len(f) \in Nat
           /\ Len(b) \in Nat
           /\ Len(f \o b) = Len(f) + Len(b)
           /\ \A i \in 1 .. Len(f) : (f \o b)[i] = f[i]
           /\ \A i \in Len(f) + 1 .. Len(f) + Len(b) : (f \o b)[i] = b[i - Len(f)]
BY ConcatProperties

LEMMA InsertAtFacts ==
    ASSUME NEW S, NEW list \in Seq(S), NEW p \in 1 .. Len(list) + 1, NEW t \in S
    PROVE  /\ InsertAt(list, p, t) \in Seq(S)
           /\ Len(InsertAt(list, p, t)) = Len(list) + 1
           /\ \A i \in 1 .. Len(list) + 1 :
                 InsertAt(list, p, t)[i] = IF i < p THEN list[i]
                                           ELSE IF i = p THEN t ELSE list[i - 1]
<1> DEFINE front == SubSeq(list, 1, p - 1)
           mid == front \o <<t>>
           back == SubSeq(list, p, Len(list))
<1>1. Len(list) \in Nat /\ p \in Nat /\ <<t>> \in Seq(S)
  OBVIOUS
<1>2. /\ front \in Seq(S) /\ Len(front) = p - 1
      /\ \A i \in 1 .. p - 1 : front[i] = list[i]
  BY SubSeqFacts
<1>3. /\ back \in Seq(S) /\ Len(back) = Len(list) - p + 1
      /\ \A i \in 1 .. Len(list) - p + 1 : back[i] = list[p + i - 1]
  BY SubSeqFacts
<1>4. /\ mid \in Seq(S) /\ Len(mid) = p
      /\ \A i \in 1 .. p - 1 : mid[i] = list[i]
      /\ mid[p] = t
  <2> HIDE DEF front
  <2>1. QED
    BY <1>1, <1>2
<1>5. InsertAt(list, p, t) = mid \o back
  BY DEF InsertAt
<1> HIDE DEF mid, back
<1>6. /\ mid \o back \in Seq(S)
      /\ Len(mid \o back) = Len(list) + 1
      /\ \A i \in 1 .. p : (mid \o back)[i] = mid[i]
      /\ \A i \in p + 1 .. Len(list) + 1 : (mid \o back)[i] = back[i - p]
  BY <1>1, <1>3, <1>4, ConcatFacts
<1>7. ASSUME NEW i \in p + 1 .. Len(list) + 1
      PROVE  back[i - p] = list[i - 1]
  <2>1. i - p \in 1 .. Len(list) - p + 1 /\ p + (i - p) - 1 = i - 1
    BY <1>1
  <2>2. QED
    BY <1>3, <2>1
<1>8. QED
  BY <1>1, <1>4, <1>5, <1>6, <1>7

LEMMA RemoveAtFacts ==
    ASSUME NEW S, NEW list \in Seq(S), NEW p \in 1 .. Len(list)
    PROVE  /\ RemoveAt(list, p) \in Seq(S)
           /\ Len(RemoveAt(list, p)) = Len(list) - 1
           /\ \A i \in 1 .. Len(list) - 1 :
                 RemoveAt(list, p)[i] = IF i < p THEN list[i] ELSE list[i + 1]
<1> DEFINE front == SubSeq(list, 1, p - 1)
           back == SubSeq(list, p + 1, Len(list))
<1>1. Len(list) \in Nat /\ p \in Nat /\ p + 1 \in 1 .. Len(list) + 1
  OBVIOUS
<1>2. /\ front \in Seq(S) /\ Len(front) = p - 1
      /\ \A i \in 1 .. p - 1 : front[i] = list[i]
  BY SubSeqFacts
<1>3. /\ back \in Seq(S) /\ Len(back) = Len(list) - (p + 1) + 1
      /\ \A i \in 1 .. Len(list) - (p + 1) + 1 : back[i] = list[p + 1 + i - 1]
  BY <1>1, SubSeqFacts
<1>4. RemoveAt(list, p) = front \o back
  BY DEF RemoveAt
<1> HIDE DEF front, back
<1>5. Len(front) + Len(back) = Len(list) - 1 /\ Len(front) = p - 1 /\ Len(front) + 1 = p
  BY <1>1, <1>2, <1>3
<1>6. /\ front \o back \in Seq(S)
      /\ Len(front \o back) = Len(front) + Len(back)
      /\ \A i \in 1 .. Len(front) : (front \o back)[i] = front[i]
      /\ \A i \in Len(front) + 1 .. Len(front) + Len(back) :
             (front \o back)[i] = back[i - Len(front)]
  BY <1>2, <1>3, ConcatFacts
<1>7. /\ front \o back \in Seq(S)
      /\ Len(front \o back) = Len(list) - 1
      /\ \A i \in 1 .. p - 1 : (front \o back)[i] = front[i]
      /\ \A i \in p .. Len(list) - 1 : (front \o back)[i] = back[i - (p - 1)]
  BY <1>6, <1>5, Zenon
<1>8. ASSUME NEW i \in p .. Len(list) - 1
      PROVE  back[i - (p - 1)] = list[i + 1]
  <2>1. /\ i - (p - 1) \in 1 .. Len(list) - (p + 1) + 1
        /\ p + 1 + (i - (p - 1)) - 1 = i + 1
    BY <1>1
  <2>2. QED
    BY <1>3, <2>1
<1>9. ASSUME NEW i \in 1 .. Len(list) - 1
      PROVE  RemoveAt(list, p)[i] = IF i < p THEN list[i] ELSE list[i + 1]
  <2>1. CASE i < p
    <3>1. i \in 1 .. p - 1
      BY <1>1, <2>1
    <3>2. QED
      BY <1>2, <1>4, <1>7, <2>1, <3>1
  <2>2. CASE ~(i < p)
    <3>1. i \in p .. Len(list) - 1
      BY <1>1, <2>2
    <3>2. QED
      BY <1>4, <1>7, <1>8, <2>2, <3>1
  <2>3. QED
    BY <2>1, <2>2
<1>10. QED
  BY <1>4, <1>7, <1>9

-----------------------------------------------------------------------------
(* Numbers *)

LEMMA PairMin ==
    ASSUME NEW a \in Int, NEW b \in Int
    PROVE  Min({a, b}) = IF a <= b THEN a ELSE b
<1> DEFINE least == IF a <= b THEN a ELSE b
<1>1. /\ least \in {a, b} /\ \A y \in {a, b} : least <= y
      /\ \A x \in {a, b} : (\A y \in {a, b} : x <= y) => x = least
  BY SMT
<1>2. QED
  BY <1>1 DEF Min

LEMMA PairMax ==
    ASSUME NEW a \in Int, NEW b \in Int
    PROVE  Max({a, b}) = IF a <= b THEN b ELSE a
<1> DEFINE most == IF a <= b THEN b ELSE a
<1>1. /\ most \in {a, b} /\ \A y \in {a, b} : most >= y
      /\ \A x \in {a, b} : (\A y \in {a, b} : x >= y) => x = most
  BY SMT
<1>2. QED
  BY <1>1 DEF Max

\* A set of numbers below n has a greatest one: n less the least distance to it.
LEMMA MaxBelow ==
    ASSUME NEW n \in Nat, NEW K \in SUBSET Nat, K # {}, \A k \in K : k <= n
    PROVE  Max(K) \in K /\ \A k \in K : k <= Max(K)
<1> DEFINE far == {n - k : k \in K}
<1>1. far \subseteq Nat /\ far # {}
  <2>1. \A k \in K : n - k \in Nat
    BY SMT
  <2>2. QED
    BY <2>1, Zenon
<1>2. PICK m \in far : \A i \in far : <<i, m>> \notin OpToRel(<, Nat)
  BY <1>1, NatLessThanWellFounded, WFMin
<1>3. PICK top \in K : m = n - top
  OBVIOUS
<1>4. ASSUME NEW k \in K PROVE top >= k
  <2>1. n - k \in far /\ n - k \in Nat /\ m \in Nat
    BY <1>1
  <2>2. <<n - k, m>> \notin {ss \in Nat \X Nat : ss[1] < ss[2]}
    BY <1>2, <2>1 DEF OpToRel
  <2>3. ~(n - k < m)
    BY <2>1, <2>2
  <2>4. QED
    BY <2>1, <2>3, <1>3
<1>5. Max(K) \in K /\ \A k \in K : Max(K) >= k
  BY <1>4 DEF Max
<1>6. QED
  BY <1>5

-----------------------------------------------------------------------------
(* Lists *)

LEMMA AddFacts ==
    ASSUME NEW S, NEW list \in Seq(S), NEW stamp \in [S -> Nat], NEW now \in Nat, NEW t \in S
    PROVE  /\ AddTimeout(list, stamp, now, t) \in Seq(S)
           /\ stamp[t] >= now => Contains(AddTimeout(list, stamp, now, t), t)
<1> DEFINE later == {i \in DOMAIN list : stamp[list[i]] > stamp[t]}
           p == InsertPosition(list, stamp, t)
<1>1. CASE ~(stamp[t] >= now)
  BY <1>1 DEF AddTimeout
<1>2. CASE stamp[t] >= now
  <2>1. p \in 1 .. Len(list) + 1
    <3>1. p = IF later = {} THEN Len(list) + 1 ELSE Min(later)
      BY DEF InsertPosition
    <3>2. later \in SUBSET (1 .. Len(list)) /\ Len(list) \in Nat
      OBVIOUS
    <3>3. later # {} => Min(later) \in later
      BY <3>2, MinFacts
    <3>4. QED
      BY <3>1, <3>2, <3>3
  <2>2. AddTimeout(list, stamp, now, t) = InsertAt(list, p, t)
    BY <1>2 DEF AddTimeout
  <2>3. /\ InsertAt(list, p, t) \in Seq(S)
        /\ Len(InsertAt(list, p, t)) = Len(list) + 1
        /\ InsertAt(list, p, t)[p] = t
    BY <2>1, InsertAtFacts
  <2>4. QED
    BY <2>1, <2>2, <2>3 DEF Contains
<1>3. QED
  BY <1>1, <1>2

\* What is in the list stays there.
LEMMA AddedStays ==
    ASSUME NEW S, NEW list \in Seq(S), NEW stamp \in [S -> Nat], NEW now \in Nat, NEW t \in S,
           NEW x, Contains(list, x)
    PROVE  Contains(AddTimeout(list, stamp, now, t), x)
<1> DEFINE later == {i \in DOMAIN list : stamp[list[i]] > stamp[t]}
           p == InsertPosition(list, stamp, t)
           new == InsertAt(list, p, t)
<1>1. CASE ~(stamp[t] >= now)
  BY <1>1 DEF AddTimeout
<1>2. CASE stamp[t] >= now
  <2>1. p \in 1 .. Len(list) + 1 /\ Len(list) \in Nat
    <3>1. p = IF later = {} THEN Len(list) + 1 ELSE Min(later)
      BY DEF InsertPosition
    <3>2. later \in SUBSET (1 .. Len(list)) /\ Len(list) \in Nat
      OBVIOUS
    <3>3. later # {} => Min(later) \in later
      BY <3>2, MinFacts
    <3>4. QED
      BY <3>1, <3>2, <3>3
  <2>2. AddTimeout(list, stamp, now, t) = new
    BY <1>2 DEF AddTimeout
  <2>3. /\ Len(new) = Len(list) + 1
        /\ \A i \in 1 .. Len(list) + 1 :
              new[i] = IF i < p THEN list[i] ELSE IF i = p THEN t ELSE list[i - 1]
    <3> HIDE DEF p
    <3>1. QED
      BY <2>1, InsertAtFacts
  <2>4. PICK i \in 1 .. Len(list) : list[i] = x
    BY DEF Contains
  <2> HIDE DEF p, new
  <2>5. CASE i < p
    <3>1. new[i] = x /\ i \in 1 .. Len(new)
      BY <2>1, <2>3, <2>4, <2>5
    <3>2. Contains(new, x)
      BY <3>1 DEF Contains
    <3>3. QED
      BY <2>2, <3>2
  <2>6. CASE ~(i < p)
    <3>1. i + 1 \in 1 .. Len(list) + 1 /\ ~(i + 1 < p) /\ i + 1 # p /\ (i + 1) - 1 = i
      BY <2>1, <2>6
    <3>2. new[i + 1] = x
      BY <2>3, <2>4, <3>1
    <3>3. QED
      BY <2>2, <2>3, <3>1, <3>2 DEF Contains
  <2>7. QED
    BY <2>5, <2>6
<1>3. QED
  BY <1>1, <1>2

\* Where the first of several is, and what is left without it.
LEMMA RemoveFirstFacts ==
    ASSUME NEW S, NEW s \in Seq(S), NEW e
    PROVE  /\ RemoveFirst(s, e) \in Seq(S)
           /\ ~Contains(s, e) => RemoveFirst(s, e) = s
           /\ Contains(s, e) =>
                \E p \in 1 .. Len(s) :
                  /\ s[p] = e
                  /\ Len(RemoveFirst(s, e)) = Len(s) - 1
                  /\ \A i \in 1 .. Len(s) - 1 :
                       RemoveFirst(s, e)[i] = IF i < p THEN s[i] ELSE s[i + 1]
<1> DEFINE holds == {i \in 1 .. Len(s) : s[i] = e}
<1>1. CASE ~Contains(s, e)
  BY <1>1 DEF Contains, RemoveFirst
<1>2. CASE Contains(s, e)
  <2>1. holds # {} /\ holds \in SUBSET (1 .. Len(s)) /\ Len(s) \in Nat
    BY <1>2 DEF Contains
  <2>2. PICK p : p = Min(holds)
    OBVIOUS
  <2>3. p \in 1 .. Len(s) /\ s[p] = e
    BY <2>1, <2>2, MinFacts
  <2>4. RemoveFirst(s, e) = RemoveAt(s, p)
    BY <1>2, <2>1, <2>2 DEF RemoveFirst, SelectInSeq, Contains
  <2>5. /\ RemoveAt(s, p) \in Seq(S)
        /\ Len(RemoveAt(s, p)) = Len(s) - 1
        /\ \A i \in 1 .. Len(s) - 1 :
              RemoveAt(s, p)[i] = IF i < p THEN s[i] ELSE s[i + 1]
    BY <2>3, RemoveAtFacts
  <2>6. QED
    BY <1>2, <2>3, <2>4, <2>5, Zenon
<1>3. QED
  BY <1>1, <1>2

-----------------------------------------------------------------------------
(* What is left to be done *)

\* The timeout comes last, and the end of the loader once.
WellFormed(st) ==
    /\ \A i \in 1 .. Len(st) : st[i] = "timeout" => i = Len(st)
    /\ \A i, j \in 1 .. Len(st) : st[i] = "end" /\ st[j] = "end" => i = j

LEMMA Pushed ==
    ASSUME NEW st \in Seq(Labels), WellFormed(st), NEW x \in Labels,
           x = "timeout" => st = <<>>, x = "end" => ~Contains(st, "end")
    PROVE  /\ <<x>> \o st \in Seq(Labels)
           /\ <<x>> \o st # <<>>
           /\ WellFormed(<<x>> \o st)
           /\ Contains(<<x>> \o st, x)
           /\ \A l \in Labels : Contains(<<x>> \o st, l) <=> l = x \/ Contains(st, l)
<1> DEFINE new == <<x>> \o st
<1>1. /\ new \in Seq(Labels) /\ Len(new) = Len(st) + 1 /\ Len(st) \in Nat
      /\ new[1] = x /\ \A i \in 2 .. Len(st) + 1 : new[i] = st[i - 1]
  OBVIOUS
<1>2. \A l \in Labels : Contains(new, l) <=> l = x \/ Contains(st, l)
  <2> TAKE l \in Labels
  <2>1. Contains(new, l) => l = x \/ Contains(st, l)
    <3> SUFFICES ASSUME NEW i \in 1 .. Len(st) + 1, new[i] = l, l # x
                 PROVE  st[i - 1] = l /\ i - 1 \in 1 .. Len(st)
      BY <1>1 DEF Contains
    <3>1. QED
      BY <1>1
  <2>2. Contains(st, l) => Contains(new, l)
    <3> SUFFICES ASSUME NEW i \in 1 .. Len(st), st[i] = l
                 PROVE  new[i + 1] = l /\ i + 1 \in 1 .. Len(new)
      BY DEF Contains
    <3>1. QED
      BY <1>1
  <2>3. l = x => Contains(new, l)
    BY <1>1 DEF Contains
  <2>4. QED
    BY <2>1, <2>2, <2>3
<1>3. WellFormed(new)
  <2>1. ASSUME NEW i \in 1 .. Len(new), new[i] = "timeout" PROVE i = Len(new)
    <3>1. CASE i = 1
      BY <1>1, <2>1, <3>1
    <3>2. CASE i # 1
      <4>1. i - 1 \in 1 .. Len(st) /\ st[i - 1] = "timeout"
        BY <1>1, <2>1, <3>2
      <4>2. QED
        BY <1>1, <4>1 DEF WellFormed
    <3>3. QED
      BY <3>1, <3>2
  <2>2. ASSUME NEW i \in 1 .. Len(new), NEW j \in 1 .. Len(new),
               new[i] = "end", new[j] = "end"
        PROVE  i = j
    <3>1. CASE x = "end"
      <4>1. i = 1 /\ j = 1
        BY <1>1, <2>2, <3>1 DEF Contains
      <4>2. QED
        BY <4>1
    <3>2. CASE x # "end"
      <4>1. /\ i - 1 \in 1 .. Len(st) /\ st[i - 1] = "end"
            /\ j - 1 \in 1 .. Len(st) /\ st[j - 1] = "end"
        BY <1>1, <2>2, <3>2
      <4>2. i - 1 = j - 1
        BY <4>1 DEF WellFormed
      <4>3. QED
        BY <4>2
    <3>3. QED
      BY <3>1, <3>2
  <2>3. QED
    BY <2>1, <2>2 DEF WellFormed
<1>4. QED
  BY <1>1, <1>2, <1>3

LEMMA TakenOff ==
    ASSUME NEW st \in Seq(Labels), WellFormed(st), st # <<>>
    PROVE  /\ Tail(st) \in Seq(Labels)
           /\ Head(st) \in Labels
           /\ WellFormed(Tail(st))
           /\ Contains(st, Head(st))
           /\ \A l \in Labels : Contains(st, l) <=> l = Head(st) \/ Contains(Tail(st), l)
           /\ Head(st) = "timeout" => Tail(st) = <<>>
           /\ Head(st) = "end" => ~Contains(Tail(st), "end")
<1> DEFINE new == Tail(st)
<1>1. /\ new \in Seq(Labels) /\ Len(new) = Len(st) - 1 /\ Len(st) \in Nat /\ Len(st) >= 1
      /\ \A i \in 1 .. Len(st) - 1 : new[i] = st[i + 1]
      /\ Head(st) = st[1] /\ Head(st) \in Labels
  OBVIOUS
<1>2. \A l \in Labels : Contains(st, l) <=> l = Head(st) \/ Contains(new, l)
  <2> TAKE l \in Labels
  <2>1. Contains(st, l) => l = Head(st) \/ Contains(new, l)
    <3> SUFFICES ASSUME NEW i \in 1 .. Len(st), st[i] = l, l # Head(st)
                 PROVE  new[i - 1] = l /\ i - 1 \in 1 .. Len(new)
      BY DEF Contains
    <3>1. QED
      BY <1>1
  <2>2. Contains(new, l) => Contains(st, l)
    <3> SUFFICES ASSUME NEW i \in 1 .. Len(st) - 1, new[i] = l
                 PROVE  st[i + 1] = l /\ i + 1 \in 1 .. Len(st)
      BY <1>1 DEF Contains
    <3>1. QED
      BY <1>1
  <2>3. l = Head(st) => Contains(st, l)
    BY <1>1 DEF Contains
  <2>4. QED
    BY <2>1, <2>2, <2>3
<1>3. WellFormed(new)
  <2>1. ASSUME NEW i \in 1 .. Len(new), new[i] = "timeout" PROVE i = Len(new)
    <3>0. i \in 1 .. Len(st) - 1 /\ Len(new) = Len(st) - 1
      BY <1>1
    <3>1. i + 1 \in 1 .. Len(st) /\ st[i + 1] = "timeout"
      BY <1>1, <2>1, <3>0
    <3>2. i + 1 = Len(st)
      BY <3>1 DEF WellFormed
    <3> HIDE DEF new
    <3>3. QED
      BY <1>1, <3>0, <3>2
  <2>2. ASSUME NEW i \in 1 .. Len(new), NEW j \in 1 .. Len(new),
               new[i] = "end", new[j] = "end"
        PROVE  i = j
    <3>1. /\ i + 1 \in 1 .. Len(st) /\ st[i + 1] = "end"
          /\ j + 1 \in 1 .. Len(st) /\ st[j + 1] = "end"
      BY <1>1, <2>2
    <3>2. i + 1 = j + 1
      BY <3>1 DEF WellFormed
    <3>3. QED
      BY <3>2
  <2>3. QED
    BY <2>1, <2>2 DEF WellFormed
<1>4. Head(st) = "timeout" => new = <<>>
  <2> SUFFICES ASSUME Head(st) = "timeout" PROVE new = <<>>
    OBVIOUS
  <2>1. 1 \in 1 .. Len(st) /\ st[1] = "timeout"
    BY <1>1
  <2>2. 1 = Len(st)
    BY <2>1 DEF WellFormed
  <2>3. Len(new) = Len(st) - 1 /\ new \in Seq(Labels)
    BY <1>1
  <2> HIDE DEF new
  <2>4. QED
    BY <2>2, <2>3
<1>5. Head(st) = "end" => ~Contains(new, "end")
  <2> SUFFICES ASSUME Head(st) = "end", NEW i \in 1 .. Len(st) - 1, new[i] = "end"
               PROVE  FALSE
    BY <1>1 DEF Contains
  <2>1. st[1] = "end" /\ st[i + 1] = "end" /\ 1 \in 1 .. Len(st) /\ i + 1 \in 1 .. Len(st)
    BY <1>1
  <2>2. 1 = i + 1
    BY <2>1 DEF WellFormed
  <2>3. QED
    BY <2>2
<1>6. QED
  BY <1>1, <1>2, <1>3, <1>4, <1>5

\* What swfdec_net_stream_set_loader leaves of it.
LEMMA WithoutEnd ==
    ASSUME NEW st \in Seq(Labels), WellFormed(st)
    PROVE  /\ RemoveFirst(st, "end") \in Seq(Labels)
           /\ WellFormed(RemoveFirst(st, "end"))
           /\ ~Contains(RemoveFirst(st, "end"), "end")
           /\ \A l \in Labels \ {"end"} : Contains(RemoveFirst(st, "end"), l) <=> Contains(st, l)
<1> DEFINE new == RemoveFirst(st, "end")
<1>1. CASE ~Contains(st, "end")
  BY <1>1, RemoveFirstFacts
<1>2. CASE Contains(st, "end")
  <2>0. /\ new \in Seq(Labels)
        /\ \E p \in 1 .. Len(st) :
             /\ st[p] = "end"
             /\ Len(new) = Len(st) - 1
             /\ \A i \in 1 .. Len(st) - 1 : new[i] = IF i < p THEN st[i] ELSE st[i + 1]
    BY <1>2, RemoveFirstFacts
  <2> HIDE DEF new
  <2>1. PICK p \in 1 .. Len(st) :
          /\ st[p] = "end"
          /\ Len(new) = Len(st) - 1
          /\ \A i \in 1 .. Len(st) - 1 : new[i] = IF i < p THEN st[i] ELSE st[i + 1]
    BY <2>0
  <2>2. /\ Len(st) \in Nat /\ DOMAIN new = 1 .. Len(st) - 1
        /\ \A i \in 1 .. Len(st) : st[i] = "end" => i = p
    BY <2>0, <2>1 DEF WellFormed
  <2>3. ~Contains(new, "end")
    <3> SUFFICES ASSUME NEW i \in 1 .. Len(st) - 1, new[i] = "end" PROVE FALSE
      BY <2>1 DEF Contains
    <3>1. CASE i < p
      BY <2>1, <2>2, <3>1
    <3>2. CASE ~(i < p)
      <4>1. st[i + 1] = "end" /\ i + 1 \in 1 .. Len(st)
        BY <2>1, <2>2, <3>2
      <4>2. QED
        BY <2>2, <3>2, <4>1
    <3>3. QED
      BY <3>1, <3>2
  <2>4. \A l \in Labels \ {"end"} : Contains(new, l) <=> Contains(st, l)
    <3> TAKE l \in Labels \ {"end"}
    <3>1. Contains(new, l) => Contains(st, l)
      <4> SUFFICES ASSUME NEW i \in 1 .. Len(st) - 1, new[i] = l
                   PROVE  Contains(st, l)
        BY <2>1 DEF Contains
      <4>1. i \in 1 .. Len(st) /\ i + 1 \in 1 .. Len(st) /\ (st[i] = l \/ st[i + 1] = l)
        BY <2>1, <2>2
      <4>2. QED
        BY <4>1 DEF Contains
    <3>2. Contains(st, l) => Contains(new, l)
      <4> SUFFICES ASSUME NEW i \in 1 .. Len(st), st[i] = l
                   PROVE  \E j \in 1 .. Len(st) - 1 : new[j] = l
        BY <2>1 DEF Contains
      <4>1. i # p
        BY <2>1
      <4>2. CASE i < p
        <5>1. i \in 1 .. Len(st) - 1 /\ new[i] = l
          BY <2>1, <2>2, <4>2
        <5>2. QED
          BY <5>1
      <4>3. CASE i > p
        <5>1. i - 1 \in 1 .. Len(st) - 1 /\ ~(i - 1 < p) /\ (i - 1) + 1 = i
          BY <2>2, <4>3
        <5>2. new[i - 1] = l
          BY <2>1, <5>1
        <5>3. QED
          BY <5>1, <5>2
      <4>4. QED
        BY <2>2, <4>1, <4>2, <4>3
    <3>3. QED
      BY <3>1, <3>2
  <2>5. WellFormed(new)
    <3>1. ASSUME NEW i \in 1 .. Len(new), new[i] = "timeout" PROVE i = Len(new)
      <4>1. CASE i < p
        <5>1. st[i] = "timeout" /\ i \in 1 .. Len(st)
          BY <2>1, <2>2, <3>1, <4>1
        <5>2. i = Len(st)
          BY <5>1 DEF WellFormed
        <5>3. QED
          BY <2>1, <2>2, <4>1, <5>2
      <4>2. CASE ~(i < p)
        <5>1. st[i + 1] = "timeout" /\ i + 1 \in 1 .. Len(st)
          BY <2>1, <2>2, <3>1, <4>2
        <5>2. i + 1 = Len(st)
          BY <5>1 DEF WellFormed
        <5>3. QED
          BY <2>1, <2>2, <5>2
      <4>3. QED
        BY <4>1, <4>2
    <3>2. QED
      BY <3>1, <2>3 DEF WellFormed, Contains
  <2>6. QED
    BY <2>0, <2>3, <2>4, <2>5 DEF new
<1>3. QED
  BY <1>1, <1>2

LEMMA NothingLeft == \A l : ~Contains(<<>>, l)
BY DEF Contains

LEMMA NothingIsWellFormed == <<>> \in Seq(Labels) /\ WellFormed(<<>>)
BY DEF WellFormed

-----------------------------------------------------------------------------
(* The invariant, of a state s and what is left to be done *)

Timely(s, st) ==
    /\ s.audio => s.armed
    /\ s.armed /\ ~Contains(st, "timeout") => Contains(s.timeouts, "video")
    /\ Contains(st, "timeout") => s.stamp["video"] >= s.time

Stops(s, st) == s.armed /\ ~ShouldPlay(s) => Contains(st, "status")

Ends(s, st) ==
    /\ Contains(st, "end") => s.loader = "open" /\ s.flv
    /\ s.loader = "closed" => s.eof /\ s.flv
    /\ s.loader = "closed" /\ s.buffering => Contains(st, "flushed") \/ Contains(st, "closed")

Decodes(s) == s.history = "complete" => s.decoder /\ s.current <= s.decoder_time

\* Without Stops: what is enough for update_playing.
Loose(s, st) ==
    /\ s \in NetStreams /\ st \in Seq(Labels)
    /\ WellFormed(st)
    /\ Timely(s, st)
    /\ Ends(s, st)
    /\ Decodes(s)

Good(s, st) == Loose(s, st) /\ Stops(s, st)

LEMMA InvariantIsGood == IInv => Good(ns, stack)
BY DEF IInv, ArmedIsListed, TypeOK, TimeoutReturnsLast, StopsAfterStatus, EndIsOfLoader,
       ShownIsDecoded, Good, Loose, Timely, Stops, Ends, Decodes, WellFormed

LEMMA GoodIsInvariant ==
    ASSUME Good(ns', stack')
    PROVE  IInv'
<1>1. ns' \in NetStreams /\ stack' \in Seq(Labels) /\ WellFormed(stack')
  BY DEF Good, Loose
<1>2. ASSUME stack' # <<>>, Head(stack') = "timeout", ns'.armed
      PROVE  ns'.next > ns'.current
  <2>1. ~Contains(stack', "status")
    <3>1. Tail(stack') = <<>>
      BY <1>1, <1>2, TakenOff
    <3>2. \A l \in Labels : Contains(stack', l) <=> l = Head(stack') \/ Contains(Tail(stack'), l)
      BY <1>1, <1>2, TakenOff
    <3>3. QED
      BY <1>2, <3>1, <3>2, NothingLeft DEF Labels
  <2>2. QED
    BY <1>2, <2>1 DEF Good, Stops, ShouldPlay
<1>3. ArmedIsListed'
  BY <1>1, <1>2 DEF Good, Loose, Timely, ArmedIsListed, TypeOK, At
<1>4. RunningPlays'
  BY NothingLeft DEF Good, Loose, Stops, Ends, RunningPlays, ShouldPlay
<1>5. TimeoutReturnsLast'
  BY <1>1 DEF Good, Loose, Timely, WellFormed, TimeoutReturnsLast
<1>6. StopsAfterStatus'
  BY DEF Good, Stops, StopsAfterStatus, ShouldPlay
<1>7. EndIsOfLoader'
  BY <1>1 DEF Good, Loose, Ends, WellFormed, EndIsOfLoader
<1>8. ShownIsDecoded'
  BY DEF Good, Loose, Decodes, ShownIsDecoded
<1>9. QED
  BY <1>3, <1>4, <1>5, <1>6, <1>7, <1>8 DEF IInv

\* Returning from a good pair.
LEMMA Returned ==
    ASSUME NEW s, NEW st, Good(s, st), Return(s, st)
    PROVE  IInv'
<1> DEFINE t == IF st = <<>> THEN [s EXCEPT !.time = s.target] ELSE s
<1>1. ns' = t /\ stack' = st
  BY DEF Return
<1>2. Good(t, st)
  <2>1. CASE st # <<>>
    BY <2>1
  <2>2. CASE st = <<>>
    <3>1. s \in NetStreams
      BY DEF Good, Loose
    <3>2. t = [s EXCEPT !.time = s.target]
      BY <2>2
    <3> HIDE DEF t
    <3>3. t \in NetStreams
      BY <3>1, <3>2 DEF NetStreams
    <3>4. Timely(t, st) /\ Stops(t, st) /\ Ends(t, st) /\ Decodes(t)
      BY <2>2, <3>1, <3>2, NothingLeft
      DEF Good, Loose, Timely, Stops, Ends, Decodes, ShouldPlay, NetStreams
    <3>5. QED
      BY <3>3, <3>4 DEF Good, Loose
  <2>3. QED
    BY <2>1, <2>2
<1> HIDE DEF t
<1>3. QED
  BY <1>1, <1>2, GoodIsInvariant

-----------------------------------------------------------------------------
(* What is left to be done grows and shrinks *)

\* Functions that may call scripts do not disturb anything.
LEMMA PushedIsGood ==
    ASSUME NEW s, NEW st, Good(s, st), NEW x \in Labels \ {"timeout", "end"}
    PROVE  Good(s, <<x>> \o st)
<1>1. st \in Seq(Labels) /\ WellFormed(st)
  BY DEF Good, Loose
<1>2. /\ <<x>> \o st \in Seq(Labels) /\ WellFormed(<<x>> \o st)
      /\ \A l \in Labels : Contains(<<x>> \o st, l) <=> l = x \/ Contains(st, l)
  BY <1>1, Pushed
<1>3. QED
  BY <1>2 DEF Good, Loose, Timely, Stops, Ends, Labels

LEMMA TakenIsLoose ==
    ASSUME NEW s, NEW st, Loose(s, st), st # <<>>, Head(st) \notin {"timeout", "flushed", "closed"}
    PROVE  Loose(s, Tail(st))
<1>1. st \in Seq(Labels) /\ WellFormed(st)
  BY DEF Loose
<1>2. /\ Tail(st) \in Seq(Labels) /\ WellFormed(Tail(st))
      /\ \A l \in Labels : Contains(st, l) <=> l = Head(st) \/ Contains(Tail(st), l)
  BY <1>1, TakenOff
<1>3. QED
  BY <1>2 DEF Loose, Timely, Ends, Labels

LEMMA TakenIsGood ==
    ASSUME NEW s, NEW st, Good(s, st), st # <<>>,
           Head(st) \notin {"timeout", "status", "flushed", "closed"}
    PROVE  Good(s, Tail(st))
<1>1. st \in Seq(Labels) /\ WellFormed(st)
  BY DEF Good, Loose
<1>2. \A l \in Labels : Contains(st, l) <=> l = Head(st) \/ Contains(Tail(st), l)
  BY <1>1, TakenOff
<1>3. Stops(s, Tail(st))
  BY <1>2 DEF Good, Stops, Labels
<1>4. Loose(s, Tail(st))
  BY TakenIsLoose DEF Good
<1>5. QED
  BY <1>3, <1>4 DEF Good

\* swfdec_net_stream_update_playing starts or stops what has to be.
LEMMA UpdatedIsGood ==
    ASSUME NEW s, NEW st, Loose(s, st)
    PROVE  Good(UpdatePlaying(s), st)
<1>1. s \in NetStreams
  BY DEF Loose
<1>2. CASE ShouldPlay(s) /\ ~s.armed
  <2> DEFINE stamp == [s.stamp EXCEPT !["video"] = s.time + (s.next - s.current)]
             list == AddTimeout(s.timeouts, stamp, s.time, "video")
             sound == s.audio \/ "audio" \in s.tracks
  <2>1. s.next > s.current /\ s.next \in Nat /\ s.current \in Nat /\ s.time \in Nat
    BY <1>1, <1>2 DEF ShouldPlay, NetStreams
  <2>2. stamp \in [{"video", "iterate"} -> Nat] /\ stamp["video"] >= s.time
    BY <1>1, <2>1 DEF NetStreams
  <2>3. list \in Seq({"video", "iterate"}) /\ Contains(list, "video")
    <3>1. s.timeouts \in Seq({"video", "iterate"})
      BY <1>1 DEF NetStreams
    <3> HIDE DEF stamp
    <3>2. QED
      BY <2>1, <2>2, <3>1, AddFacts
  <2>4. UpdatePlaying(s) = [s EXCEPT !.armed = TRUE, !.stamp = stamp, !.timeouts = list,
                                     !.audio = sound]
    BY <1>2 DEF UpdatePlaying, StartPlaying
  <2>0. sound \in BOOLEAN
    OBVIOUS
  <2> HIDE DEF stamp, list, sound
  <2>5. UpdatePlaying(s) \in NetStreams
    <3>1. [s EXCEPT !.armed = TRUE, !.stamp = stamp] \in NetStreams
      BY <1>1, <2>2 DEF NetStreams
    <3> DEFINE r == [s EXCEPT !.armed = TRUE, !.stamp = stamp]
    <3> HIDE DEF r
    <3>2. [r EXCEPT !.timeouts = list, !.audio = sound] \in NetStreams
      BY <2>0, <2>3, <3>1 DEF NetStreams, r
    <3>3. UpdatePlaying(s) = [r EXCEPT !.timeouts = list, !.audio = sound]
      BY <2>4 DEF r
    <3>4. QED
      BY <3>2, <3>3
  <2>6. QED
    BY <1>1, <1>2, <2>2, <2>3, <2>4, <2>5
    DEF Good, Loose, Timely, Stops, Ends, Decodes, ShouldPlay, NetStreams
<1>3. CASE ~ShouldPlay(s) /\ s.armed
  <2> DEFINE list == RemoveTimeout(s.timeouts, "video")
  <2>1. list \in Seq({"video", "iterate"})
    BY <1>1, RemoveFirstFacts DEF NetStreams, RemoveTimeout
  <2>2. UpdatePlaying(s) = [s EXCEPT !.armed = FALSE, !.audio = FALSE, !.timeouts = list]
    BY <1>3 DEF UpdatePlaying, StopPlaying
  <2> HIDE DEF list
  <2>3. UpdatePlaying(s) \in NetStreams
    BY <1>1, <2>1, <2>2 DEF NetStreams
  <2>4. QED
    BY <1>1, <1>3, <2>2, <2>3
    DEF Good, Loose, Timely, Stops, Ends, Decodes, ShouldPlay, NetStreams
<1>4. CASE ~(ShouldPlay(s) /\ ~s.armed) /\ ~(~ShouldPlay(s) /\ s.armed)
  <2>1. UpdatePlaying(s) = s
    BY <1>4 DEF UpdatePlaying
  <2>2. QED
    BY <1>4, <2>1 DEF Good, Stops
<1>5. QED
  BY <1>2, <1>3, <1>4

-----------------------------------------------------------------------------
(* swfdec_net_stream_video_goto *)

LEMMA ShownFacts ==
    ASSUME NEW s \in NetStreams, NEW msecs \in Nat
    PROVE  /\ LastFrame(s) \in Nat
           /\ s.frames > 0 => LastFrame(s) = s.frames - 1
           /\ Shown(s, msecs) = IF msecs <= LastFrame(s) THEN msecs ELSE LastFrame(s)
           /\ Shown(s, msecs) \in Nat
           /\ s.frames = 0 => Shown(s, msecs) = 0
           /\ NextFrame(s, msecs) \in Nat
           /\ s.frames > 0 /\ msecs < LastFrame(s) => NextFrame(s, msecs) = msecs + 1
<1>1. s.frames \in Nat
  BY BoundAssumption DEF NetStreams
<1>2. LastFrame(s) = IF s.frames > 0 THEN s.frames - 1 ELSE 0
  BY <1>1, PairMax DEF LastFrame
<1>3. Shown(s, msecs) = IF msecs <= LastFrame(s) THEN msecs ELSE LastFrame(s)
  BY <1>1, <1>2, PairMin DEF Shown
<1>4. QED
  BY <1>1, <1>2, <1>3 DEF NextFrame

LEMMA KeyFrameFacts ==
    ASSUME NEW s \in NetStreams, NEW msecs \in Nat
    PROVE  /\ KeyFrame(s, msecs) \in KeyFrames
           /\ KeyFrame(s, msecs) \in Nat
           /\ KeyFrame(s, msecs) <= Shown(s, msecs)
<1> DEFINE keys == {k \in KeyFrames : k <= Shown(s, msecs)}
<1>1. Shown(s, msecs) \in Nat
  BY ShownFacts
<1>2. keys \in SUBSET Nat /\ 0 \in keys /\ \A k \in keys : k <= Shown(s, msecs)
  <2>1. keys \in SUBSET Nat
    BY KeyAssumption
  <2>2. 0 <= Shown(s, msecs)
    BY <1>1
  <2>3. QED
    BY <2>1, <2>2, KeyAssumption
<1>3. Max(keys) \in keys
  BY <1>1, <1>2, MaxBelow
<1>4. QED
  BY <1>2, <1>3 DEF KeyFrame

\* What going on from a complete history, or without one, comes to.
Complete(s, t) ==
    /\ t.decoder
    /\ ~s.decoder \/ (t.current > s.decoder_time /\ s.history = "complete")
    => t.history = "complete" /\ t.decoder_time = t.current

\* The image of a time is shown: nothing but the video's state changes.
Moved(s, t) ==
    \E current \in Nat, next \in Nat, decoder \in BOOLEAN, decoder_time \in Nat,
       history \in {"nothing", "complete", "incomplete"} :
       t = [s EXCEPT !.current = current, !.next = next, !.decoder = decoder,
                     !.decoder_time = decoder_time, !.history = history]

LEMMA MovedBy ==
    ASSUME NEW s, NEW c \in Nat, NEW n \in Nat, NEW d \in BOOLEAN, NEW dt \in Nat,
           NEW h \in {"nothing", "complete", "incomplete"}
    PROVE  Moved(s, [s EXCEPT !.current = c, !.next = n, !.decoder = d,
                              !.decoder_time = dt, !.history = h])
<1> DEFINE t == [s EXCEPT !.current = c, !.next = n, !.decoder = d,
                          !.decoder_time = dt, !.history = h]
<1> SUFFICES \E current \in Nat, next \in Nat, decoder \in BOOLEAN, decoder_time \in Nat,
                history \in {"nothing", "complete", "incomplete"} :
                t = [s EXCEPT !.current = current, !.next = next, !.decoder = decoder,
                              !.decoder_time = decoder_time, !.history = history]
  BY DEF Moved
<1> WITNESS c \in Nat, n \in Nat, d \in BOOLEAN, dt \in Nat,
            h \in {"nothing", "complete", "incomplete"}
<1> QED
  OBVIOUS

LEMMA MovedFacts ==
    ASSUME NEW s \in NetStreams, NEW t, Moved(s, t)
    PROVE  /\ t \in NetStreams
           /\ t.loader = s.loader /\ t.flv = s.flv /\ t.eof = s.eof
           /\ t.playing = s.playing /\ t.buffering = s.buffering
           /\ t.audio = s.audio /\ t.armed = s.armed /\ t.stamp = s.stamp
           /\ t.timeouts = s.timeouts /\ t.time = s.time /\ t.target = s.target
<1>1. PICK current \in Nat, next \in Nat, decoder \in BOOLEAN, decoder_time \in Nat,
           history \in {"nothing", "complete", "incomplete"} :
           t = [s EXCEPT !.current = current, !.next = next, !.decoder = decoder,
                         !.decoder_time = decoder_time, !.history = history]
  BY DEF Moved
<1>2. t \in NetStreams
  BY <1>1 DEF NetStreams
<1>3. QED
  BY <1>1, <1>2 DEF NetStreams

LEMMA ShowFacts ==
    ASSUME NEW s \in NetStreams, NEW msecs \in Nat
    PROVE  /\ Moved(s, Show(s, msecs))
           /\ Decodes(s) => Decodes(Show(s, msecs)) /\ Complete(s, Show(s, msecs))
<1>1. CASE ~HasVideo(s)
  <2>1. Show(s, msecs) = s
    BY <1>1 DEF Show
  <2>2. Moved(s, s)
    <3> DEFINE same == [s EXCEPT !.current = s.current, !.next = s.next,
                                 !.decoder = s.decoder, !.decoder_time = s.decoder_time,
                                 !.history = s.history]
    <3>1. same = s
      BY DEF NetStreams
    <3>2. /\ s.current \in Nat /\ s.next \in Nat /\ s.decoder \in BOOLEAN
          /\ s.decoder_time \in Nat /\ s.history \in {"nothing", "complete", "incomplete"}
      BY DEF NetStreams
    <3>3. Moved(s, same)
      BY <3>2, MovedBy, Zenon
    <3> HIDE DEF same
    <3>4. QED
      BY <3>1, <3>3
  <2>3. Decodes(s) => Complete(s, s)
    BY DEF Decodes, Complete, NetStreams
  <2>4. QED
    BY <2>1, <2>2, <2>3
<1>2. CASE HasVideo(s)
  <2> DEFINE c == Shown(s, msecs)
             n == NextFrame(s, msecs)
             t == [s EXCEPT !.current = c, !.next = n]
  <2>1. Show(s, msecs) = Decode(t)
    BY <1>2 DEF Show
  <2>2. c \in Nat /\ n \in Nat /\ LastFrame(s) \in Nat /\ c <= LastFrame(s) /\ (s.frames = 0 => c = 0)
    BY ShownFacts
  <2> HIDE DEF c, n
  <2>3. /\ t \in NetStreams /\ t.frames = s.frames /\ t.current = c
        /\ t.decoder = s.decoder /\ t.decoder_time = s.decoder_time /\ t.history = s.history
    BY <2>2 DEF NetStreams
  <2> HIDE DEF t
  <2>4. /\ s.decoder \in BOOLEAN /\ s.decoder_time \in Nat /\ s.frames \in Nat
        /\ s.history \in {"nothing", "complete", "incomplete"}
    BY BoundAssumption DEF NetStreams
  <2>5. CASE s.frames = 0
    <3>1. Decode(t) = t
      BY <2>3, <2>5 DEF Decode
    <3>2. t = [s EXCEPT !.current = c, !.next = n, !.decoder = s.decoder,
                        !.decoder_time = s.decoder_time, !.history = s.history]
      BY DEF NetStreams, t
    <3>3. Moved(s, t)
      BY <2>2, <2>4, <3>2, MovedBy, Zenon
    <3>4. Decodes(s) => Decodes(t) /\ Complete(s, t)
      BY <2>2, <2>3, <2>4, <2>5 DEF Decodes, Complete
    <3>5. QED
      BY <2>1, <3>1, <3>3, <3>4
  <2>6. CASE s.frames # 0
    <3> DEFINE key == KeyFrame(t, c)
               at == IF s.decoder /\ s.decoder_time >= c THEN key ELSE s.decoder_time
               next == NextFrame(t, at)
               skip == next # c /\ key > at
               first == IF ~s.decoder \/ skip THEN key ELSE next
               last == Max({first, c})
               decoded == \/ (first..last) \cap KeyFrames # {}
                          \/ s.history = "complete" /\ first = s.decoder_time + 1
               history == IF decoded THEN "complete" ELSE "incomplete"
    <3>1. /\ LastFrame(t) = LastFrame(s)
          /\ LastFrame(t) = t.frames - 1
      <4>1. LastFrame(t) = LastFrame(s)
        BY <2>3 DEF LastFrame
      <4>2. LastFrame(t) = t.frames - 1
        <5>1. t.frames > 0 /\ 0 \in Nat
          BY <2>3, <2>4, <2>6
        <5>2. QED
          BY <2>3, <5>1, ShownFacts
      <4>3. QED
        BY <4>1, <4>2
    <3>2. key \in KeyFrames /\ key \in Nat /\ key <= c
      <4>1. Shown(t, c) = c
        BY <2>2, <2>3, <3>1, ShownFacts
      <4>2. QED
        BY <2>2, <2>3, <4>1, KeyFrameFacts
    <3>3. at \in Nat
      BY <2>4, <3>2
    <3>4. next \in Nat /\ (at < LastFrame(t) => next = at + 1)
      <4> HIDE DEF at
      <4>1. t.frames > 0
        BY <2>3, <2>4, <2>6
      <4>2. QED
        BY <2>3, <3>3, <4>1, ShownFacts
    <3>5. first \in Nat
      BY <3>2, <3>4
    <3>6. last = (IF first <= c THEN c ELSE first) /\ last \in Nat
      BY <2>2, <3>5, PairMax
    <3>7. Decode(t) = Decoded(t, first, last)
      BY <2>3, <2>6 DEF Decode
    <3>8. Decode(t) = [s EXCEPT !.current = c, !.next = n, !.decoder = TRUE,
                                !.decoder_time = last, !.history = history]
      <4>1. Decoded(t, first, last) = [t EXCEPT !.decoder = TRUE, !.decoder_time = last,
                                                !.history = history]
        BY <2>3 DEF Decoded
      <4> HIDE DEF last, history
      <4>2. QED
        BY <3>7, <4>1 DEF t
    <3>9. history \in {"nothing", "complete", "incomplete"}
      OBVIOUS
    <3>10. key \in first..last => decoded
      BY <3>2
    <3>11. ~s.decoder \/ (c > s.decoder_time /\ s.history = "complete")
             => decoded /\ last = c
      <4>1. CASE ~s.decoder \/ skip
        BY <3>2, <3>6, <3>10, <4>1
      <4>2. CASE s.decoder /\ ~skip
        <5> SUFFICES ASSUME c > s.decoder_time, s.history = "complete"
                     PROVE  decoded /\ last = c
          BY <4>2
        <5>1. at = s.decoder_time
          BY <2>2, <2>4
        <5>2. at < LastFrame(t)
          BY <2>2, <2>4, <3>1, <5>1
        <5>3. next = s.decoder_time + 1
          BY <3>4, <5>1, <5>2
        <5>4. first = s.decoder_time + 1
          BY <4>2, <5>3
        <5>5. QED
          BY <2>2, <2>4, <3>6, <5>4
      <4>3. QED
        BY <4>1, <4>2
    <3>12. history = "complete" <=> decoded
      OBVIOUS
    <3> HIDE DEF history, decoded, last, first, skip, next, at, key
    <3>13. Moved(s, Decode(t))
      <4>1. TRUE \in BOOLEAN
        OBVIOUS
      <4>2. Moved(s, [s EXCEPT !.current = c, !.next = n, !.decoder = TRUE,
                               !.decoder_time = last, !.history = history])
        BY <2>2, <3>6, <3>9, <4>1, MovedBy, Zenon
      <4>3. QED
        BY <3>8, <4>2, Zenon
    <3>14. /\ Decode(t).current = c /\ Decode(t).decoder = TRUE
           /\ Decode(t).decoder_time = last /\ Decode(t).history = history
      BY <3>8 DEF NetStreams
    <3>15. Decodes(Decode(t)) /\ Complete(s, Decode(t))
      BY <2>2, <3>5, <3>6, <3>11, <3>12, <3>14 DEF Decodes, Complete
    <3>16. QED
      BY <2>1, <3>13, <3>15
  <2>7. QED
    BY <2>5, <2>6
<1>3. QED
  BY <1>1, <1>2

\* Whatever a good stream shows, it returns from that good, or with the script
\* that is told to stop.
LEMMA GotoIsGood ==
    ASSUME NEW s, NEW rest, Good(s, rest), NEW msecs \in Nat, Goto(s, msecs, rest)
    PROVE  IInv'
<1> DEFINE at == Show(s, msecs)
           ended == at.next <= at.current
           buffering == s.buffering \/ (ended /\ ~s.eof)
           t == [at EXCEPT !.buffering = buffering]
           events == IF msecs = s.next THEN <<"events">> ELSE <<>>
           status == IF ended THEN <<"script", "status">> ELSE <<>>
<1>1. s \in NetStreams /\ rest \in Seq(Labels) /\ WellFormed(rest)
  BY DEF Good, Loose
<1>2. CASE ~s.flv
  <2>1. Return(s, rest)
    BY <1>2 DEF Goto
  <2>2. QED
    BY <2>1, Returned
<1>3. CASE s.flv
  <2>1. Moved(s, at) /\ Decodes(at)
    BY <1>1, ShowFacts DEF Good, Loose
  <2>2. /\ at \in NetStreams
        /\ at.loader = s.loader /\ at.flv = s.flv /\ at.eof = s.eof
        /\ at.playing = s.playing /\ at.buffering = s.buffering
        /\ at.audio = s.audio /\ at.armed = s.armed /\ at.stamp = s.stamp
        /\ at.timeouts = s.timeouts /\ at.time = s.time
    BY <1>1, <2>1, MovedFacts
  <2>3. Return(t, status \o events \o rest)
    BY <1>3, <2>2 DEF Goto
  <2>4. buffering \in BOOLEAN
    BY <1>1 DEF NetStreams
  <2> HIDE DEF at
  <2>5. /\ t \in NetStreams
        /\ t.loader = s.loader /\ t.flv = s.flv /\ t.eof = s.eof
        /\ t.playing = s.playing /\ t.buffering = buffering
        /\ t.audio = s.audio /\ t.armed = s.armed /\ t.stamp = s.stamp
        /\ t.timeouts = s.timeouts /\ t.time = s.time
        /\ t.current = at.current /\ t.next = at.next /\ t.decoder = at.decoder
        /\ t.decoder_time = at.decoder_time /\ t.history = at.history
    <3> HIDE DEF buffering
    <3>1. QED
      BY <2>2, <2>4 DEF NetStreams
  <2> HIDE DEF t
  <2>6. Loose(t, rest)
    <3>1. Timely(t, rest)
      BY <2>5 DEF Good, Loose, Timely
    <3>2. Ends(t, rest)
      BY <2>5 DEF Good, Loose, Ends
    <3>3. Decodes(t)
      BY <2>1, <2>5 DEF Decodes
    <3>4. QED
      BY <1>1, <2>5, <3>1, <3>2, <3>3 DEF Loose
  <2>7. ~ended => Good(t, rest)
    <3> SUFFICES ASSUME ~ended PROVE Stops(t, rest)
      BY <2>6 DEF Good
    <3>1. t.next > t.current /\ t.buffering = s.buffering
      <4>1. at.next \in Nat /\ at.current \in Nat
        BY <2>2 DEF NetStreams
      <4>2. buffering = s.buffering
        BY <1>1 DEF NetStreams
      <4>3. QED
        BY <2>5, <4>1, <4>2
    <3>2. QED
      BY <2>5, <3>1 DEF Good, Stops, ShouldPlay
  <2>8. Loose(t, events \o rest)
    <3>1. CASE msecs = s.next
      <4>1. /\ <<"events">> \o rest \in Seq(Labels) /\ WellFormed(<<"events">> \o rest)
            /\ \A l \in Labels : Contains(<<"events">> \o rest, l) <=>
                                  l = "events" \/ Contains(rest, l)
        BY <1>1, Pushed DEF Labels
      <4>2. Loose(t, <<"events">> \o rest)
        BY <2>6, <4>1 DEF Loose, Timely, Ends, Labels
      <4>3. QED
        BY <3>1, <4>2
    <3>2. CASE msecs # s.next
      <4>1. events \o rest = rest
        BY <1>1, <3>2
      <4>2. QED
        BY <2>6, <4>1
    <3>3. QED
      BY <3>1, <3>2
  <2>9. CASE ended
    <3> DEFINE e == events \o rest
               more == <<"status">> \o e
    <3>0. status \o events \o rest = <<"script">> \o more
      <4>1. events \in Seq(Labels)
        <5>1. <<"events">> \in Seq(Labels) /\ <<>> \in Seq(Labels)
          BY DEF Labels
        <5>2. events = <<"events">> \/ events = <<>>
          OBVIOUS
        <5> HIDE DEF events
        <5>3. QED
          BY <5>1, <5>2
      <4>2. status = <<"script">> \o <<"status">>
        BY <2>9
      <4> HIDE DEF events, status
      <4>3. QED
        BY <1>1, <4>1, <4>2
    <3> HIDE DEF e
    <3>1. e \in Seq(Labels) /\ WellFormed(e) /\ Loose(t, e)
      BY <2>8 DEF Loose, e
    <3>2. /\ more \in Seq(Labels) /\ WellFormed(more)
          /\ \A l \in Labels : Contains(more, l) <=> l = "status" \/ Contains(e, l)
      BY <3>1, Pushed DEF Labels
    <3> HIDE DEF more
    <3>3. Good(t, more)
      BY <3>1, <3>2 DEF Good, Loose, Timely, Stops, Ends, Labels
    <3>4. Good(t, <<"script">> \o more)
      BY <3>3, PushedIsGood DEF Labels
    <3>5. QED
      BY <2>3, <3>0, <3>4, Returned
  <2>10. CASE ~ended
    <3>1. status \o events \o rest = events \o rest
      BY <1>1, <2>10 DEF Labels
    <3>2. Good(t, events \o rest)
      <4>1. CASE msecs = s.next
        BY <2>7, <2>10, <4>1, PushedIsGood DEF Labels
      <4>2. CASE msecs # s.next
        <5>1. events \o rest = rest
          BY <1>1, <4>2
        <5>2. QED
          BY <2>7, <2>10, <5>1
      <4>3. QED
        BY <4>1, <4>2
    <3>3. QED
      BY <2>3, <3>1, <3>2, Returned
  <2>11. QED
    BY <2>9, <2>10
<1>4. QED
  BY <1>2, <1>3

-----------------------------------------------------------------------------
(* The player's clock *)

\* What an action finds.
Sane == /\ IInv
        /\ Good(ns, stack) /\ Loose(ns, stack)
        /\ ns \in NetStreams
        /\ stack \in Seq(Labels)
        /\ WellFormed(stack)

LEMMA SaneAtFirst == IInv => Sane
BY InvariantIsGood DEF Sane, Good, Loose

LEMMA WaitKeeps ==
    ASSUME Sane, Wait
    PROVE  IInv'
<1> DEFINE t == [ns EXCEPT !.time = ns.time + 1, !.target = ns.time + 1]
<1>1. ns' = t /\ stack' = stack /\ stack = <<>>
  BY DEF Wait
<1>2. ns \in NetStreams /\ ns.time + 1 \in Nat
  BY DEF Sane, NetStreams
<1>3. t \in NetStreams
  BY <1>2 DEF NetStreams
<1>4. /\ t.loader = ns.loader /\ t.flv = ns.flv /\ t.eof = ns.eof /\ t.playing = ns.playing
      /\ t.buffering = ns.buffering /\ t.audio = ns.audio /\ t.armed = ns.armed
      /\ t.timeouts = ns.timeouts /\ t.current = ns.current /\ t.next = ns.next
      /\ t.decoder = ns.decoder /\ t.decoder_time = ns.decoder_time /\ t.history = ns.history
  BY <1>2 DEF NetStreams
<1> HIDE DEF t
<1>5. Good(t, stack)
  BY <1>1, <1>3, <1>4, NothingLeft
  DEF Sane, Good, Loose, Timely, Stops, Ends, Decodes, ShouldPlay
<1>6. QED
  BY <1>1, <1>5, GoodIsInvariant

LEMMA FireIterateKeeps ==
    ASSUME Sane, FireIterate
    PROVE  IInv'
<1> DEFINE left == Tail(ns.timeouts)
           time == ns.stamp["iterate"]
           target == Max({ns.target, ns.stamp["iterate"]})
           stamp == [ns.stamp EXCEPT !["iterate"] = ns.stamp["iterate"] + FramePeriod]
           list == AddTimeout(left, stamp, time, "iterate")
           t == [ns EXCEPT !.timeouts = list, !.time = time, !.target = target, !.stamp = stamp]
<1>1. /\ stack = <<>> /\ ns.timeouts # <<>> /\ "iterate" = Head(ns.timeouts)
      /\ stack' = <<"script">>
  BY DEF FireIterate, Due
<1>2. ns \in NetStreams
  BY DEF Sane
<1>3. time \in Nat /\ target \in Nat
  <2>1. time \in Nat /\ ns.target \in Nat
    BY <1>2 DEF NetStreams
  <2>2. QED
    BY <2>1, PairMax
<1>4. stamp \in [{"video", "iterate"} -> Nat]
  BY <1>2, PeriodAssumption DEF NetStreams
<1>5. left \in Seq({"video", "iterate"})
      /\ (Contains(ns.timeouts, "video") => Contains(left, "video"))
  <2>1. ns.timeouts \in Seq({"video", "iterate"})
    BY <1>2 DEF NetStreams
  <2>2. left \in Seq({"video", "iterate"}) /\ Len(left) = Len(ns.timeouts) - 1
        /\ Len(ns.timeouts) \in Nat
        /\ \A i \in 1 .. Len(ns.timeouts) - 1 : left[i] = ns.timeouts[i + 1]
    BY <1>1, <2>1
  <2>3. ASSUME NEW i \in 1 .. Len(ns.timeouts), ns.timeouts[i] = "video"
        PROVE  Contains(left, "video")
    <3>1. i # 1
      BY <1>1, <2>1, <2>3
    <3>2. i - 1 \in 1 .. Len(ns.timeouts) - 1 /\ (i - 1) + 1 = i
      BY <2>2, <3>1
    <3>3. left[i - 1] = "video" /\ i - 1 \in 1 .. Len(left)
      BY <2>2, <2>3, <3>2
    <3>4. QED
      BY <3>3 DEF Contains
  <2>4. QED
    BY <2>2, <2>3 DEF Contains
<1>6. list \in Seq({"video", "iterate"})
      /\ (Contains(ns.timeouts, "video") => Contains(list, "video"))
  <2> HIDE DEF left, stamp, time
  <2>1. list \in Seq({"video", "iterate"})
    BY <1>3, <1>4, <1>5, AddFacts
  <2>2. Contains(left, "video") => Contains(list, "video")
    BY <1>3, <1>4, <1>5, AddedStays
  <2>3. QED
    BY <1>5, <2>1, <2>2
<1>7. ns' = t
  <2>1. ns' = [Popped("iterate") EXCEPT !.stamp = stamp,
                  !.timeouts = AddTimeout(@, stamp, Popped("iterate").time, "iterate")]
    BY DEF FireIterate
  <2>2. Popped("iterate") = [ns EXCEPT !.timeouts = left, !.time = time, !.target = target]
    BY DEF Popped
  <2> HIDE DEF left, stamp, time, target
  <2>3. QED
    BY <1>2, <2>1, <2>2 DEF NetStreams
<1> HIDE DEF left, time, target, stamp, list
<1>8. t \in NetStreams
  BY <1>2, <1>3, <1>4, <1>6 DEF NetStreams
<1>9. /\ t.loader = ns.loader /\ t.flv = ns.flv /\ t.eof = ns.eof /\ t.playing = ns.playing
      /\ t.buffering = ns.buffering /\ t.audio = ns.audio /\ t.armed = ns.armed
      /\ t.timeouts = list /\ t.current = ns.current /\ t.next = ns.next
      /\ t.decoder = ns.decoder /\ t.decoder_time = ns.decoder_time /\ t.history = ns.history
  BY <1>2 DEF NetStreams
<1> HIDE DEF t
<1>10. Good(t, <<>>)
  BY <1>1, <1>6, <1>8, <1>9, NothingLeft, NothingIsWellFormed
  DEF Sane, Good, Loose, Timely, Stops, Ends, Decodes, ShouldPlay
<1>11. Good(t, <<"script">> \o <<>>)
  BY <1>10, PushedIsGood DEF Labels
<1>12. <<"script">> \o <<>> = <<"script">>
  OBVIOUS
<1>13. QED
  BY <1>1, <1>7, <1>11, <1>12, GoodIsInvariant

LEMMA PoppedFacts ==
    ASSUME Sane, ns.timeouts # <<>>
    PROVE  LET t == Popped("video")
           IN  /\ t \in NetStreams
               /\ t.loader = ns.loader /\ t.flv = ns.flv /\ t.eof = ns.eof
               /\ t.playing = ns.playing /\ t.buffering = ns.buffering
               /\ t.audio = ns.audio /\ t.armed = ns.armed
               /\ t.stamp = ns.stamp /\ t.time = ns.stamp["video"]
               /\ t.current = ns.current /\ t.next = ns.next
               /\ t.decoder = ns.decoder /\ t.decoder_time = ns.decoder_time
               /\ t.history = ns.history
<1> DEFINE left == Tail(ns.timeouts)
           target == Max({ns.target, ns.stamp["video"]})
           t == Popped("video")
<1>2. ns \in NetStreams
  BY DEF Sane
<1>3. ns.stamp["video"] \in Nat /\ ns.target \in Nat /\ ns.next \in Nat
      /\ ns.timeouts \in Seq({"video", "iterate"})
  BY <1>2 DEF NetStreams
<1>4. target \in Nat /\ left \in Seq({"video", "iterate"})
  <2>1. target \in Nat
    BY <1>3, PairMax
  <2>2. left \in Seq({"video", "iterate"})
    BY <1>3
  <2>3. QED
    BY <2>1, <2>2
<1>5. t = [ns EXCEPT !.timeouts = left, !.time = ns.stamp["video"], !.target = target]
  BY DEF Popped
<1> HIDE DEF left, target, t
<1>6. t \in NetStreams
  BY <1>2, <1>3, <1>4, <1>5 DEF NetStreams
<1>7. /\ t.loader = ns.loader /\ t.flv = ns.flv /\ t.eof = ns.eof /\ t.playing = ns.playing
      /\ t.buffering = ns.buffering /\ t.audio = ns.audio /\ t.armed = ns.armed
      /\ t.stamp = ns.stamp /\ t.time = ns.stamp["video"]
      /\ t.current = ns.current /\ t.next = ns.next
      /\ t.decoder = ns.decoder /\ t.decoder_time = ns.decoder_time /\ t.history = ns.history
  BY <1>2, <1>5 DEF NetStreams
<1>8. QED
  BY <1>6, <1>7 DEF t

LEMMA FireVideoKeeps ==
    ASSUME Sane, FireVideo
    PROVE  IInv'
<1> DEFINE t == Popped("video")
<1>1. /\ stack = <<>> /\ ns.timeouts # <<>> /\ ns.armed
      /\ Goto(t, ns.next, <<"timeout">>)
  BY DEF FireVideo, Due
<1>2. ns.stamp["video"] \in Nat /\ ns.next \in Nat
  BY DEF Sane, NetStreams
<1>3. /\ t \in NetStreams
      /\ t.loader = ns.loader /\ t.flv = ns.flv /\ t.eof = ns.eof
      /\ t.playing = ns.playing /\ t.buffering = ns.buffering
      /\ t.audio = ns.audio /\ t.armed = ns.armed
      /\ t.stamp = ns.stamp /\ t.time = ns.stamp["video"]
      /\ t.current = ns.current /\ t.next = ns.next
      /\ t.decoder = ns.decoder /\ t.decoder_time = ns.decoder_time
      /\ t.history = ns.history
  BY <1>1, PoppedFacts
<1> HIDE DEF t
<1>4. /\ <<"timeout">> \in Seq(Labels) /\ WellFormed(<<"timeout">>)
      /\ \A l \in Labels : Contains(<<"timeout">>, l) <=> l = "timeout"
  <2>1. /\ <<"timeout">> \o <<>> \in Seq(Labels) /\ WellFormed(<<"timeout">> \o <<>>)
        /\ \A l \in Labels : Contains(<<"timeout">> \o <<>>, l) <=>
                              l = "timeout" \/ Contains(<<>>, l)
    BY NothingIsWellFormed, Pushed DEF Labels
  <2>2. <<"timeout">> \o <<>> = <<"timeout">>
    OBVIOUS
  <2>3. QED
    BY <2>1, <2>2, NothingLeft
<1>5. Good(t, <<"timeout">>)
  BY <1>1, <1>2, <1>3, <1>4, NothingLeft
  DEF Sane, Good, Loose, Timely, Stops, Ends, Decodes, ShouldPlay, Labels
<1>6. QED
  BY <1>1, <1>2, <1>5, GotoIsGood

\* Only here the timeout is added to the list again: nothing else of the stream
\* is left to be done, so that a stream that does not play was stopped.
LEMMA TimeoutAgainKeeps ==
    ASSUME Sane, TimeoutAgain
    PROVE  IInv'
<1> DEFINE stamp == [ns.stamp EXCEPT !["video"] = ns.stamp["video"] + (ns.next - ns.current)]
           list == AddTimeout(ns.timeouts, stamp, ns.time, "video")
           t == [ns EXCEPT !.stamp = stamp, !.timeouts = list]
<1>1. /\ stack # <<>> /\ Head(stack) = "timeout"
      /\ Return(IF ns.armed THEN t ELSE ns, Tail(stack))
  BY DEF TimeoutAgain, At, Rest
<1>2. ns \in NetStreams /\ stack \in Seq(Labels) /\ WellFormed(stack)
  BY DEF Sane
<1>3. /\ Tail(stack) = <<>>
      /\ Contains(stack, "timeout")
      /\ \A l \in Labels \ {"timeout"} : ~Contains(stack, l)
  BY <1>1, <1>2, TakenOff, NothingLeft DEF Labels
<1>4. Loose(ns, <<>>) \/ ns.armed
  BY <1>2, <1>3, NothingLeft, NothingIsWellFormed
  DEF Sane, Good, Loose, Timely, Ends, Labels
<1>5. CASE ~ns.armed
  <2>1. Good(ns, <<>>)
    BY <1>4, <1>5 DEF Good, Stops
  <2>2. QED
    BY <1>1, <1>3, <1>5, <2>1, Returned
<1>6. CASE ns.armed
  <2>1. ShouldPlay(ns) /\ ns.stamp["video"] >= ns.time
    BY <1>3, <1>6 DEF Sane, Good, Loose, Stops, Timely, Labels
  <2>2. /\ ns.next \in Nat /\ ns.current \in Nat /\ ns.next > ns.current /\ ns.time \in Nat
        /\ ns.stamp \in [{"video", "iterate"} -> Nat]
        /\ ns.timeouts \in Seq({"video", "iterate"})
    BY <1>2, <2>1 DEF ShouldPlay, NetStreams
  <2>3. stamp \in [{"video", "iterate"} -> Nat] /\ stamp["video"] >= ns.time
    BY <2>1, <2>2
  <2> HIDE DEF stamp
  <2>4. list \in Seq({"video", "iterate"}) /\ Contains(list, "video")
    BY <2>2, <2>3, AddFacts
  <2> HIDE DEF list
  <2>5. t \in NetStreams
    BY <1>2, <2>3, <2>4 DEF NetStreams
  <2>6. /\ t.loader = ns.loader /\ t.flv = ns.flv /\ t.eof = ns.eof /\ t.playing = ns.playing
        /\ t.buffering = ns.buffering /\ t.audio = ns.audio /\ t.armed = ns.armed
        /\ t.timeouts = list /\ t.current = ns.current /\ t.next = ns.next
        /\ t.decoder = ns.decoder /\ t.decoder_time = ns.decoder_time
        /\ t.history = ns.history
    BY <1>2 DEF NetStreams
  <2> HIDE DEF t
  <2>7. Good(t, <<>>)
    BY <1>3, <1>6, <2>1, <2>4, <2>5, <2>6, NothingLeft, NothingIsWellFormed
    DEF Sane, Good, Loose, Timely, Stops, Ends, Decodes, ShouldPlay, Labels
  <2>8. QED
    BY <1>1, <1>3, <1>6, <2>7, Returned
<1>7. QED
  BY <1>5, <1>6

-----------------------------------------------------------------------------
(* Scripts, and what they return to *)

LEMMA AfterStatusKeeps ==
    ASSUME Sane, AfterStatus
    PROVE  IInv'
<1>1. stack # <<>> /\ Head(stack) \in {"status", "update"} /\ Return(UpdatePlaying(ns), Tail(stack))
  BY DEF AfterStatus, At, Rest
<1>2. Loose(ns, Tail(stack))
  BY <1>1, TakenIsLoose DEF Sane
<1>3. QED
  BY <1>1, <1>2, UpdatedIsGood, Returned

LEMMA SendEventKeeps ==
    ASSUME Sane, SendEvent
    PROVE  IInv'
<1>1. Good(ns, <<"script">> \o stack)
  BY PushedIsGood DEF Sane, Labels
<1>2. QED
  BY <1>1, Returned DEF SendEvent

\* What is left to be done becomes less.
LEMMA TakingKeeps ==
    ASSUME Sane, NoMoreEvents \/ AfterSeek \/ EndScript
    PROVE  IInv'
<1>1. stack # <<>> /\ Head(stack) \in {"events", "seek", "script"} /\ Return(ns, Tail(stack))
  BY DEF NoMoreEvents, AfterSeek, EndScript, At, Rest
<1>2. Good(ns, Tail(stack))
  BY <1>1, TakenIsGood DEF Sane
<1>3. QED
  BY <1>1, <1>2, Returned

LEMMA PauseKeeps ==
    ASSUME Sane, NEW playing \in BOOLEAN, Pause(playing)
    PROVE  IInv'
<1> DEFINE t == [ns EXCEPT !.playing = playing]
<1>1. Return(UpdatePlaying(t), stack)
  BY DEF Pause
<1>2. t \in NetStreams
  BY DEF Sane, NetStreams
<1>3. /\ t.loader = ns.loader /\ t.flv = ns.flv /\ t.eof = ns.eof
      /\ t.buffering = ns.buffering /\ t.audio = ns.audio /\ t.armed = ns.armed
      /\ t.stamp = ns.stamp /\ t.timeouts = ns.timeouts /\ t.time = ns.time
      /\ t.current = ns.current /\ t.decoder = ns.decoder
      /\ t.decoder_time = ns.decoder_time /\ t.history = ns.history
  BY DEF Sane, NetStreams
<1> HIDE DEF t
<1>4. Loose(t, stack)
  BY <1>2, <1>3 DEF Sane, Loose, Timely, Ends, Decodes
<1>5. QED
  BY <1>1, <1>4, UpdatedIsGood, Returned

LEMMA SetLoaderKeeps ==
    ASSUME Sane, NEW loader \in {"none", "open"}, SetLoader(loader)
    PROVE  IInv'
<1> DEFINE t == [ns EXCEPT !.loader = loader, !.flv = FALSE, !.tracks = {}, !.frames = 0,
                           !.heard = FALSE, !.eof = FALSE, !.history = "nothing",
                           !.buffering = TRUE, !.playing = TRUE]
           left == RemoveFirst(stack, "end")
<1>1. Return(UpdatePlaying(t), left)
  BY DEF SetLoader
<1>2. ns \in NetStreams /\ 0 \in 0 .. MaxFrames /\ TRUE \in BOOLEAN /\ FALSE \in BOOLEAN
  BY BoundAssumption DEF Sane
<1>3. t \in NetStreams
  BY <1>2 DEF NetStreams
<1>4. /\ t.loader = loader /\ t.history = "nothing"
      /\ t.audio = ns.audio /\ t.armed = ns.armed
      /\ t.stamp = ns.stamp /\ t.timeouts = ns.timeouts /\ t.time = ns.time
  BY <1>2 DEF NetStreams
<1> HIDE DEF t
<1>5. /\ left \in Seq(Labels) /\ WellFormed(left) /\ ~Contains(left, "end")
      /\ \A l \in Labels \ {"end"} : Contains(left, l) <=> Contains(stack, l)
  BY WithoutEnd DEF Sane
<1> HIDE DEF left
<1>6. Loose(t, left)
  BY <1>3, <1>4, <1>5 DEF Sane, Loose, Timely, Ends, Decodes, Labels
<1>7. QED
  BY <1>1, <1>6, UpdatedIsGood, Returned

LEMMA SetBufferTimeKeeps ==
    ASSUME Sane, NEW msecs \in BufferTimes, SetBufferTime(msecs)
    PROVE  IInv'
<1> DEFINE t == [ns EXCEPT !.buffer_time = msecs]
<1>1. Return(t, stack)
  BY DEF SetBufferTime
<1>2. ns \in NetStreams /\ msecs \in Nat
  BY BufferAssumption DEF Sane
<1>3. t \in NetStreams
  BY <1>2 DEF NetStreams
<1>4. /\ t.loader = ns.loader /\ t.flv = ns.flv /\ t.eof = ns.eof /\ t.playing = ns.playing
      /\ t.buffering = ns.buffering /\ t.audio = ns.audio /\ t.armed = ns.armed
      /\ t.stamp = ns.stamp /\ t.timeouts = ns.timeouts /\ t.time = ns.time
      /\ t.current = ns.current /\ t.next = ns.next /\ t.decoder = ns.decoder
      /\ t.decoder_time = ns.decoder_time /\ t.history = ns.history
  BY <1>2 DEF NetStreams
<1> HIDE DEF t
<1>5. Good(t, stack)
  BY <1>3, <1>4 DEF Sane, Good, Loose, Timely, Stops, Ends, Decodes, ShouldPlay
<1>6. QED
  BY <1>1, <1>5, Returned

LEMMA SeekKeeps ==
    ASSUME Sane, NEW msecs \in 0 .. MaxFrames, Seek(msecs)
    PROVE  IInv'
<1>1. Goto(ns, KeyFrame(ns, msecs), <<"seek">> \o stack)
  BY DEF Seek
<1>2. Good(ns, <<"seek">> \o stack)
  BY PushedIsGood DEF Sane, Labels
<1>3. KeyFrame(ns, msecs) \in Nat
  <2>1. msecs \in Nat
    BY BoundAssumption
  <2>2. QED
    BY <2>1, KeyFrameFacts DEF Sane
<1>4. QED
  BY <1>1, <1>2, <1>3, GotoIsGood

-----------------------------------------------------------------------------
(* Data arrives *)

LEMMA LoadKeeps ==
    ASSUME Sane, NEW last \in BOOLEAN, Load(last)
    PROVE  IInv'
<1> DEFINE t == [ns EXCEPT !.flv = TRUE]
           told == IF last THEN <<"end">> ELSE <<>>
           started == IF ns.flv THEN <<>> ELSE <<"script">>
<1>1. /\ stack = <<>> /\ ns.loader = "open"
      /\ Return(t, started \o (<<"parse">> \o told))
  BY DEF Load
<1>2. ns \in NetStreams /\ TRUE \in BOOLEAN
  BY DEF Sane
<1>3. t \in NetStreams
  BY <1>2 DEF NetStreams
<1>4. /\ t.loader = "open" /\ t.flv /\ t.eof = ns.eof /\ t.playing = ns.playing
      /\ t.buffering = ns.buffering /\ t.audio = ns.audio /\ t.armed = ns.armed
      /\ t.stamp = ns.stamp /\ t.timeouts = ns.timeouts /\ t.time = ns.time
      /\ t.current = ns.current /\ t.next = ns.next /\ t.decoder = ns.decoder
      /\ t.decoder_time = ns.decoder_time /\ t.history = ns.history
  BY <1>1, <1>2 DEF NetStreams
<1> HIDE DEF t
<1>5. Good(t, <<>>)
  BY <1>1, <1>3, <1>4, NothingLeft, NothingIsWellFormed
  DEF Sane, Good, Loose, Timely, Stops, Ends, Decodes, ShouldPlay
<1>6. Good(t, told)
  <2>1. CASE last
    <3>1. /\ <<"end">> \o <<>> \in Seq(Labels) /\ WellFormed(<<"end">> \o <<>>)
          /\ \A l \in Labels : Contains(<<"end">> \o <<>>, l) <=> l = "end" \/ Contains(<<>>, l)
      BY NothingLeft, NothingIsWellFormed, Pushed DEF Labels
    <3>2. <<"end">> \o <<>> = <<"end">>
      OBVIOUS
    <3>3. Good(t, <<"end">>)
      BY <1>4, <1>5, <3>1, <3>2, NothingLeft
      DEF Good, Loose, Timely, Stops, Ends, Labels
    <3>4. QED
      BY <2>1, <3>3
  <2>2. CASE ~last
    BY <1>5, <2>2
  <2>3. QED
    BY <2>1, <2>2
<1> DEFINE parse == <<"parse">> \o told
<1>7. Good(t, parse)
  <2> HIDE DEF told
  <2>1. QED
    BY <1>6, PushedIsGood DEF Labels
<1> HIDE DEF parse
<1>8. Good(t, started \o parse)
  <2>1. CASE ns.flv
    <3>1. started \o parse = parse
      BY <1>7, <2>1 DEF Good, Loose
    <3>2. QED
      BY <1>7, <3>1
  <2>2. CASE ~ns.flv
    BY <1>7, <2>2, PushedIsGood DEF Labels
  <2>3. QED
    BY <2>1, <2>2
<1>9. Return(t, started \o parse)
  BY <1>1 DEF parse
<1>10. QED
  BY <1>8, <1>9, Returned

LEMMA ParseKeeps ==
    ASSUME Sane, Parse
    PROVE  IInv'
<1>1. stack # <<>> /\ Head(stack) = "parse"
  BY DEF Parse, At
<1>2. Good(ns, Tail(stack))
  BY <1>1, TakenIsGood DEF Sane
<1>3. CASE ~ns.flv /\ Return(ns, Tail(stack))
  BY <1>2, <1>3, Returned
<1>4. ASSUME NEW tracks \in SUBSET {"video", "audio"}, NEW frames \in ns.frames .. MaxFrames,
             NEW heard \in {ns.heard, TRUE}, Parsed(tracks, frames, heard)
      PROVE  IInv'
  <2> DEFINE s == [ns EXCEPT !.tracks = tracks, !.frames = frames, !.heard = heard]
             rest == Tail(stack)
             news == (ns.frames = 0 /\ frames > 0) \/ ns.heard # heard
  <2>1. \/ Return(s, RemoveFirst(rest, "end"))
        \/ Return(s, rest)
        \/ Return(s, <<"recheck">> \o rest)
    <3> HIDE DEF s
    <3>1. Return(s, CASE news -> RemoveFirst(rest, "end")
                      [] frames = ns.frames -> rest
                      [] OTHER -> <<"recheck">> \o rest)
      BY <1>4 DEF Parsed, Rest, s
    <3> HIDE DEF news, rest
    <3>2. CASE news /\ frames # ns.frames
      BY <3>1, <3>2
    <3>3. CASE news /\ frames = ns.frames
      BY <3>1, <3>3
    <3>4. CASE ~news /\ frames = ns.frames
      BY <3>1, <3>4
    <3>5. CASE ~news /\ frames # ns.frames
      BY <3>1, <3>5
    <3>6. QED
      BY <3>2, <3>3, <3>4, <3>5
  <2>2. /\ ns \in NetStreams /\ frames \in 0 .. MaxFrames /\ heard \in BOOLEAN
    <3>1. ns \in NetStreams
      BY DEF Sane
    <3>2. ns.frames \in 0 .. MaxFrames /\ ns.heard \in BOOLEAN
      BY <3>1 DEF NetStreams
    <3>3. frames \in 0 .. MaxFrames
      BY <3>2, BoundAssumption
    <3>4. heard \in BOOLEAN
      BY <3>2, Zenon
    <3>5. QED
      BY <3>1, <3>3, <3>4
  <2>3. s \in NetStreams
    BY <2>2 DEF NetStreams
  <2>4. /\ s.loader = ns.loader /\ s.flv = ns.flv /\ s.eof = ns.eof /\ s.playing = ns.playing
        /\ s.buffering = ns.buffering /\ s.audio = ns.audio /\ s.armed = ns.armed
        /\ s.stamp = ns.stamp /\ s.timeouts = ns.timeouts /\ s.time = ns.time
        /\ s.current = ns.current /\ s.next = ns.next /\ s.decoder = ns.decoder
        /\ s.decoder_time = ns.decoder_time /\ s.history = ns.history
    BY <2>2 DEF NetStreams
  <2> HIDE DEF s
  <2>5. Good(s, rest)
    <3> HIDE DEF rest
    <3>1. Good(ns, rest)
      BY <1>2 DEF rest
    <3>2. QED
      BY <2>3, <2>4, <3>1 DEF Good, Loose, Timely, Stops, Ends, Decodes, ShouldPlay
  <2> HIDE DEF rest
  <2>7. Good(s, RemoveFirst(rest, "end"))
    <3> DEFINE left == RemoveFirst(rest, "end")
    <3>1. /\ left \in Seq(Labels) /\ WellFormed(left) /\ ~Contains(left, "end")
          /\ \A l \in Labels \ {"end"} : Contains(left, l) <=> Contains(rest, l)
      BY <2>5, WithoutEnd DEF Good, Loose
    <3> HIDE DEF left
    <3>2. Good(s, left)
      BY <2>5, <3>1 DEF Good, Loose, Timely, Stops, Ends, Labels
    <3>3. QED
      BY <3>2 DEF left
  <2>8. Good(s, <<"recheck">> \o rest)
    BY <2>5, PushedIsGood DEF Labels
  <2>9. QED
    BY <2>1, <2>5, <2>7, <2>8, Returned
<1>5. QED
  BY <1>3, <1>4 DEF Parse, Rest

LEMMA RecheckKeeps ==
    ASSUME Sane, Recheck
    PROVE  IInv'
<1>1. stack # <<>> /\ Head(stack) = "recheck"
  BY DEF Recheck, At
<1>2. Good(ns, Tail(stack))
  BY <1>1, TakenIsGood DEF Sane
<1>3. CASE Goto(ns, ns.current, <<"full">> \o Tail(stack))
  <2>1. Good(ns, <<"full">> \o Tail(stack))
    BY <1>2, PushedIsGood DEF Labels
  <2>2. ns.current \in Nat
    BY DEF Sane, NetStreams
  <2>3. QED
    BY <1>3, <2>1, <2>2, GotoIsGood
<1>4. CASE Return(UpdatePlaying(ns), Tail(stack))
  <2>1. Good(UpdatePlaying(ns), Tail(stack))
    BY <1>2, UpdatedIsGood DEF Good
  <2>2. QED
    BY <1>4, <2>1, Returned
<1>5. QED
  BY <1>3, <1>4 DEF Recheck, Rest

\* Buffering ends.
LEMMA FilledIsGood ==
    ASSUME NEW rest, Good(ns, rest) \/ (Sane /\ stack # <<>> /\ Head(stack) = "closed" /\ rest = Tail(stack))
    PROVE  Good([ns EXCEPT !.buffering = FALSE], rest)
<1> DEFINE t == [ns EXCEPT !.buffering = FALSE]
<1>1. ns \in NetStreams /\ FALSE \in BOOLEAN
  BY DEF Sane, Good, Loose
<1>2. t \in NetStreams
  BY <1>1 DEF NetStreams
<1>3. /\ t.loader = ns.loader /\ t.flv = ns.flv /\ t.eof = ns.eof /\ t.playing = ns.playing
      /\ ~t.buffering /\ t.audio = ns.audio /\ t.armed = ns.armed
      /\ t.stamp = ns.stamp /\ t.timeouts = ns.timeouts /\ t.time = ns.time
      /\ t.current = ns.current /\ t.next = ns.next /\ t.decoder = ns.decoder
      /\ t.decoder_time = ns.decoder_time /\ t.history = ns.history
  BY <1>1 DEF NetStreams
<1> HIDE DEF t
<1>4. CASE Good(ns, rest)
  <2>1. Good(t, rest)
    BY <1>2, <1>3, <1>4 DEF Good, Loose, Timely, Stops, Ends, Decodes, ShouldPlay
  <2>2. QED
    BY <2>1 DEF t
<1>5. CASE Sane /\ stack # <<>> /\ Head(stack) = "closed" /\ rest = Tail(stack)
  <2>1. /\ rest \in Seq(Labels) /\ WellFormed(rest)
        /\ \A l \in Labels : Contains(stack, l) <=> l = "closed" \/ Contains(rest, l)
    BY <1>5, TakenOff DEF Sane
  <2>2. Good(t, rest)
    BY <1>2, <1>3, <1>5, <2>1
    DEF Sane, Good, Loose, Timely, Stops, Ends, Decodes, ShouldPlay, Labels
  <2>3. QED
    BY <2>2 DEF t
<1>6. QED
  BY <1>4, <1>5

LEMMA ScriptFirst ==
    ASSUME NEW st \in Seq(Labels)
    PROVE  /\ <<"script", "update">> \o st = <<"script">> \o (<<"update">> \o st)
           /\ <<"script", "flushed">> \o st = <<"script">> \o (<<"flushed">> \o st)
           /\ <<"script", "recheck">> \o st = <<"script">> \o (<<"recheck">> \o st)
<1>1. \A a, b \in Seq(Labels) : (a \o b) \o st = a \o (b \o st)
  OBVIOUS
<1>2. /\ <<"script">> \in Seq(Labels) /\ <<"update">> \in Seq(Labels)
      /\ <<"flushed">> \in Seq(Labels) /\ <<"recheck">> \in Seq(Labels)
  BY DEF Labels
<1>3. /\ <<"script", "update">> = <<"script">> \o <<"update">>
      /\ <<"script", "flushed">> = <<"script">> \o <<"flushed">>
      /\ <<"script", "recheck">> = <<"script">> \o <<"recheck">>
  OBVIOUS
<1>4. QED
  BY <1>1, <1>2, <1>3, Zenon

LEMMA BufferFullKeeps ==
    ASSUME Sane, BufferFull
    PROVE  IInv'
<1> DEFINE t == [ns EXCEPT !.buffering = FALSE]
           rest == Tail(stack)
<1>1. /\ stack # <<>> /\ Head(stack) = "full"
      /\ Return(t, <<"script", "update">> \o rest)
  BY DEF BufferFull, At, Rest
<1>2. Good(ns, rest)
  BY <1>1, TakenIsGood DEF Sane
<1> HIDE DEF rest
<1>3. Good(t, rest)
  BY <1>2, FilledIsGood
<1> HIDE DEF t
<1>4. Good(t, <<"script">> \o (<<"update">> \o rest))
  BY <1>3, PushedIsGood DEF Labels
<1>5. <<"script", "update">> \o rest = <<"script">> \o (<<"update">> \o rest)
  BY <1>3, ScriptFirst DEF Good, Loose, Labels
<1>6. QED
  BY <1>1, <1>4, <1>5, Returned

LEMMA CloseTargetKeeps ==
    ASSUME Sane, CloseTarget
    PROVE  IInv'
<1> DEFINE t == [ns EXCEPT !.loader = "closed", !.eof = TRUE]
           rest == Tail(stack)
           next == <<"flushed">> \o rest
<1>1. /\ stack # <<>> /\ Head(stack) = "end"
      /\ Return(t, <<"script", "flushed">> \o rest)
  BY DEF CloseTarget, At, Rest
<1>2. Good(ns, rest) /\ ns.flv
  <2>1. Good(ns, rest)
    BY <1>1, TakenIsGood DEF Sane
  <2>2. Contains(stack, "end")
    BY <1>1, TakenOff DEF Sane
  <2>3. QED
    BY <2>1, <2>2 DEF Sane, Loose, Ends
<1>3. ~Contains(rest, "end")
  BY <1>1, TakenOff DEF Sane
<1>4. ns \in NetStreams /\ TRUE \in BOOLEAN
  BY DEF Sane
<1>5. t \in NetStreams
  BY <1>4 DEF NetStreams
<1>6. /\ t.loader = "closed" /\ t.flv = ns.flv /\ t.eof /\ t.playing = ns.playing
      /\ t.buffering = ns.buffering /\ t.audio = ns.audio /\ t.armed = ns.armed
      /\ t.stamp = ns.stamp /\ t.timeouts = ns.timeouts /\ t.time = ns.time
      /\ t.current = ns.current /\ t.next = ns.next /\ t.decoder = ns.decoder
      /\ t.decoder_time = ns.decoder_time /\ t.history = ns.history
  BY <1>4 DEF NetStreams
<1> HIDE DEF t, rest
<1>7. /\ next \in Seq(Labels) /\ WellFormed(next)
      /\ \A l \in Labels : Contains(next, l) <=> l = "flushed" \/ Contains(rest, l)
  BY <1>2, Pushed DEF Good, Loose, Labels
<1> HIDE DEF next
<1>8. Good(t, next)
  BY <1>2, <1>3, <1>5, <1>6, <1>7
  DEF Good, Loose, Timely, Stops, Ends, Decodes, ShouldPlay, Labels
<1>9. Good(t, <<"script">> \o next)
  BY <1>8, PushedIsGood DEF Labels
<1>10. <<"script", "flushed">> \o rest = <<"script">> \o next
  BY <1>2, ScriptFirst DEF Good, Loose, Labels, next
<1>11. QED
  BY <1>1, <1>9, <1>10, Returned

LEMMA FlushedKeeps ==
    ASSUME Sane, Flushed
    PROVE  IInv'
<1> DEFINE rest == Tail(stack)
           next == <<"closed">> \o rest
<1>1. stack # <<>> /\ Head(stack) = "flushed"
  BY DEF Flushed, At
<1>2. /\ rest \in Seq(Labels) /\ WellFormed(rest)
      /\ \A l \in Labels : Contains(stack, l) <=> l = "flushed" \/ Contains(rest, l)
  BY <1>1, TakenOff DEF Sane
<1>3. (~ns.flv /\ Return(ns, rest)) \/ Goto(ns, ns.current, next)
  BY DEF Flushed, Rest
<1> HIDE DEF rest
<1>4. CASE ~ns.flv /\ Return(ns, rest)
  <2>1. Good(ns, rest)
    BY <1>2, <1>4 DEF Sane, Good, Loose, Timely, Stops, Ends, Labels
  <2>2. QED
    BY <1>4, <2>1, Returned
<1>5. CASE Goto(ns, ns.current, next)
  <2>1. /\ next \in Seq(Labels) /\ WellFormed(next)
        /\ \A l \in Labels : Contains(next, l) <=> l = "closed" \/ Contains(rest, l)
    BY <1>2, Pushed DEF Labels
  <2> HIDE DEF next
  <2>2. Good(ns, next)
    BY <1>2, <2>1 DEF Sane, Good, Loose, Timely, Stops, Ends, Labels
  <2>3. ns.current \in Nat
    BY DEF Sane, NetStreams
  <2>4. QED
    BY <1>5, <2>2, <2>3, GotoIsGood
<1>6. QED
  BY <1>3, <1>4, <1>5

LEMMA ClosedKeeps ==
    ASSUME Sane, Closed
    PROVE  IInv'
<1> DEFINE t == [ns EXCEPT !.buffering = FALSE]
           rest == Tail(stack)
<1>1. stack # <<>> /\ Head(stack) = "closed"
  BY DEF Closed, At
<1>2. Return(t, <<"script", "recheck">> \o rest) \/ Return(t, <<"recheck">> \o rest)
  BY DEF Closed, Rest
<1>3. Good(t, rest)
  BY <1>1, FilledIsGood
<1> HIDE DEF t, rest
<1>4. Good(t, <<"recheck">> \o rest)
  BY <1>3, PushedIsGood DEF Labels
<1>5. Good(t, <<"script">> \o (<<"recheck">> \o rest))
  BY <1>4, PushedIsGood DEF Labels
<1>6. <<"script", "recheck">> \o rest = <<"script">> \o (<<"recheck">> \o rest)
  BY <1>3, ScriptFirst DEF Good, Loose, Labels
<1>7. QED
  BY <1>2, <1>4, <1>5, <1>6, Returned

LEMMA FailKeeps ==
    ASSUME Sane, Fail
    PROVE  IInv'
<1> DEFINE t == [ns EXCEPT !.loader = "failed"]
<1>1. stack = <<>> /\ (Return(t, <<"script">>) \/ Return(t, <<>>))
  BY DEF Fail
<1>2. ns \in NetStreams
  BY DEF Sane
<1>3. t \in NetStreams
  BY <1>2 DEF NetStreams
<1>4. /\ t.loader = "failed" /\ t.flv = ns.flv /\ t.eof = ns.eof /\ t.playing = ns.playing
      /\ t.buffering = ns.buffering /\ t.audio = ns.audio /\ t.armed = ns.armed
      /\ t.stamp = ns.stamp /\ t.timeouts = ns.timeouts /\ t.time = ns.time
      /\ t.current = ns.current /\ t.next = ns.next /\ t.decoder = ns.decoder
      /\ t.decoder_time = ns.decoder_time /\ t.history = ns.history
  BY <1>2 DEF NetStreams
<1> HIDE DEF t
<1>5. Good(t, <<>>)
  BY <1>1, <1>3, <1>4, NothingLeft, NothingIsWellFormed
  DEF Sane, Good, Loose, Timely, Stops, Ends, Decodes, ShouldPlay
<1>6. Good(t, <<"script">> \o <<>>)
  BY <1>5, PushedIsGood DEF Labels
<1>7. <<"script">> \o <<>> = <<"script">>
  OBVIOUS
<1>8. QED
  BY <1>1, <1>5, <1>6, <1>7, Returned

-----------------------------------------------------------------------------
(* Images *)

\* A stream without a new image.
LEMMA NotShown ==
    ASSUME Sane, ns'.current = ns.current, ns'.decoder = ns.decoder
    PROVE  Complete(ns, ns')
<1>1. Decodes(ns) /\ ns.current \in Nat /\ ns.decoder_time \in Nat
  BY DEF Sane, Loose, NetStreams
<1>2. QED
  BY <1>1 DEF Decodes, Complete

LEMMA ReturnedVideo ==
    ASSUME NEW s, NEW st, Return(s, st),
           {"current", "decoder", "decoder_time", "history"} \subseteq DOMAIN s
    PROVE  /\ ns'.current = s.current /\ ns'.decoder = s.decoder
           /\ ns'.decoder_time = s.decoder_time /\ ns'.history = s.history
<1>1. CASE st # <<>>
  BY <1>1 DEF Return
<1>2. CASE st = <<>>
  <2>1. ns' = [s EXCEPT !.time = s.target]
    BY <1>2 DEF Return
  <2>2. QED
    BY <2>1
<1>3. QED
  BY <1>1, <1>2

LEMMA Fields ==
    ASSUME NEW s \in NetStreams
    PROVE  {"current", "decoder", "decoder_time", "history"} \subseteq DOMAIN s
BY DEF NetStreams

LEMMA UpdatedVideo ==
    ASSUME NEW s \in NetStreams
    PROVE  /\ UpdatePlaying(s).current = s.current
           /\ UpdatePlaying(s).decoder = s.decoder
           /\ DOMAIN UpdatePlaying(s) = DOMAIN s
BY DEF UpdatePlaying, StartPlaying, StopPlaying, NetStreams

LEMMA GotoIsComplete ==
    ASSUME NEW s \in NetStreams, Decodes(s), NEW msecs \in Nat, NEW rest, Goto(s, msecs, rest)
    PROVE  Complete(s, ns')
<1> DEFINE at == Show(s, msecs)
           buffering == at.buffering \/ (at.next <= at.current /\ ~s.eof)
           t == [at EXCEPT !.buffering = buffering]
<1>1. CASE ~s.flv
  <2>1. Return(s, rest)
    BY <1>1 DEF Goto
  <2>2. /\ ns'.current = s.current /\ ns'.decoder = s.decoder
        /\ ns'.decoder_time = s.decoder_time /\ ns'.history = s.history
    BY <2>1, ReturnedVideo, Fields
  <2>3. s.current \in Nat /\ s.decoder_time \in Nat
    BY DEF NetStreams
  <2>4. QED
    BY <2>2, <2>3 DEF Decodes, Complete
<1>2. CASE s.flv
  <2>1. at \in NetStreams /\ Complete(s, at)
    BY ShowFacts, MovedFacts
  <2>2. PICK st : Return(t, st)
    BY <1>2 DEF Goto
  <2>3. buffering \in BOOLEAN
    BY <2>1 DEF NetStreams
  <2> HIDE DEF at, buffering
  <2>4. /\ t \in NetStreams /\ t.current = at.current /\ t.decoder = at.decoder
        /\ t.decoder_time = at.decoder_time /\ t.history = at.history
    BY <2>1, <2>3 DEF NetStreams
  <2> HIDE DEF t
  <2>5. /\ ns'.current = at.current /\ ns'.decoder = at.decoder
        /\ ns'.decoder_time = at.decoder_time /\ ns'.history = at.history
    BY <2>2, <2>4, ReturnedVideo, Fields
  <2>6. QED
    BY <2>1, <2>5 DEF Complete
<1>3. QED
  BY <1>1, <1>2

LEMMA ClockShows ==
    ASSUME Sane, Clock
    PROVE  Complete(ns, ns')
<1>1. ns \in NetStreams
  BY DEF Sane
<1>2. CASE Wait
  BY <1>1, <1>2, NotShown DEF Wait, NetStreams
<1>3. CASE FireIterate
  <2>1. ns'.current = ns.current /\ ns'.decoder = ns.decoder
    BY <1>1, <1>3 DEF FireIterate, Popped, NetStreams
  <2>2. QED
    BY <2>1, NotShown
<1>4. CASE FireVideo
  <2> DEFINE t == Popped("video")
  <2>1. Goto(t, ns.next, <<"timeout">>) /\ ns.timeouts # <<>>
    BY <1>4 DEF FireVideo, Due
  <2>2. /\ t \in NetStreams /\ t.current = ns.current /\ t.decoder = ns.decoder
        /\ t.decoder_time = ns.decoder_time /\ t.history = ns.history
    BY <2>1, PoppedFacts
  <2> HIDE DEF t
  <2>3. Decodes(t) /\ ns.next \in Nat
    BY <1>1, <2>2 DEF Sane, Loose, Decodes, NetStreams
  <2>4. Complete(t, ns')
    BY <2>1, <2>2, <2>3, GotoIsComplete
  <2>5. QED
    BY <2>2, <2>4 DEF Complete
<1>5. CASE TimeoutAgain
  <2>1. PICK stamp, list : Return([ns EXCEPT !.stamp = stamp, !.timeouts = list], Rest)
                           \/ Return(ns, Rest)
    BY <1>5 DEF TimeoutAgain
  <2>2. ns'.current = ns.current /\ ns'.decoder = ns.decoder
    <3> DEFINE t == [ns EXCEPT !.stamp = stamp, !.timeouts = list]
    <3>1. t.current = ns.current /\ t.decoder = ns.decoder /\ DOMAIN t = DOMAIN ns
      BY <1>1 DEF NetStreams
    <3>2. Return(t, Rest) \/ Return(ns, Rest)
      BY <2>1
    <3> HIDE DEF t
    <3>3. QED
      BY <1>1, <3>1, <3>2, ReturnedVideo, Fields
  <2>3. QED
    BY <2>2, NotShown
<1>6. QED
  BY <1>2, <1>3, <1>4, <1>5 DEF Clock

LEMMA ScriptShows ==
    ASSUME Sane, Script
    PROVE  Complete(ns, ns')
<1>1. ns \in NetStreams
  BY DEF Sane
<1>2. ASSUME NEW playing \in BOOLEAN, Pause(playing) PROVE Complete(ns, ns')
  <2> DEFINE t == [ns EXCEPT !.playing = playing]
  <2>1. t \in NetStreams /\ t.current = ns.current /\ t.decoder = ns.decoder
    BY <1>1 DEF NetStreams
  <2>2. Return(UpdatePlaying(t), stack)
    BY <1>2 DEF Pause
  <2> HIDE DEF t
  <2>3. QED
    BY <2>1, <2>2, UpdatedVideo, ReturnedVideo, Fields, NotShown
<1>3. ASSUME NEW loader \in {"none", "open"}, SetLoader(loader) PROVE Complete(ns, ns')
  <2> DEFINE t == [ns EXCEPT !.loader = loader, !.flv = FALSE, !.tracks = {}, !.frames = 0,
                             !.heard = FALSE, !.eof = FALSE, !.history = "nothing",
                             !.buffering = TRUE, !.playing = TRUE]
  <2>1. t \in NetStreams /\ t.current = ns.current /\ t.decoder = ns.decoder
    <3>1. 0 \in 0 .. MaxFrames /\ TRUE \in BOOLEAN /\ FALSE \in BOOLEAN
      BY BoundAssumption
    <3>2. QED
      BY <1>1, <3>1 DEF NetStreams
  <2>2. Return(UpdatePlaying(t), RemoveFirst(stack, "end"))
    BY <1>3 DEF SetLoader
  <2> HIDE DEF t
  <2>3. QED
    BY <2>1, <2>2, UpdatedVideo, ReturnedVideo, Fields, NotShown
<1>4. ASSUME NEW msecs \in BufferTimes, SetBufferTime(msecs) PROVE Complete(ns, ns')
  <2>1. Return([ns EXCEPT !.buffer_time = msecs], stack)
    BY <1>4 DEF SetBufferTime
  <2>2. ns'.current = ns.current /\ ns'.decoder = ns.decoder
    BY <1>1, <2>1, ReturnedVideo DEF NetStreams
  <2>3. QED
    BY <2>2, NotShown
<1>5. ASSUME NEW msecs \in 0 .. MaxFrames, Seek(msecs) PROVE Complete(ns, ns')
  <2>1. Goto(ns, KeyFrame(ns, msecs), <<"seek">> \o stack)
    BY <1>5 DEF Seek
  <2>2. KeyFrame(ns, msecs) \in Nat
    <3>1. msecs \in Nat
      BY BoundAssumption
    <3>2. QED
      BY <1>1, <3>1, KeyFrameFacts
  <2>3. Decodes(ns)
    BY DEF Sane, Loose
  <2>4. QED
    BY <1>1, <2>1, <2>2, <2>3, GotoIsComplete
<1>6. CASE EndScript
  BY <1>1, <1>6, ReturnedVideo, Fields, NotShown DEF EndScript
<1>7. QED
  BY <1>2, <1>3, <1>4, <1>5, <1>6 DEF Script

LEMMA VideoShows ==
    ASSUME Sane, Video
    PROVE  Complete(ns, ns')
<1>1. PICK st : Return(ns, st) \/ Return(UpdatePlaying(ns), st)
  BY DEF Video, AfterStatus, SendEvent, NoMoreEvents, AfterSeek
<1>2. QED
  BY <1>1, UpdatedVideo, ReturnedVideo, Fields, NotShown DEF Sane

LEMMA TargetShows ==
    ASSUME Sane, Target
    PROVE  Complete(ns, ns')
<1>1. ns \in NetStreams /\ ns.current \in Nat /\ Decodes(ns)
  BY DEF Sane, Loose, NetStreams
<1>2. ASSUME NEW last \in BOOLEAN, Load(last) PROVE Complete(ns, ns')
  <2>1. PICK st : Return([ns EXCEPT !.flv = TRUE], st)
    BY <1>2 DEF Load
  <2>2. ns'.current = ns.current /\ ns'.decoder = ns.decoder
    BY <1>1, <2>1, ReturnedVideo DEF NetStreams
  <2>3. QED
    BY <2>2, NotShown
<1>3. CASE Parse
  <2>1. \/ \E st : Return(ns, st)
        \/ \E tracks, frames, heard, st :
             Return([ns EXCEPT !.tracks = tracks, !.frames = frames, !.heard = heard], st)
    BY <1>3, Zenon DEF Parse, Parsed
  <2>2. ns'.current = ns.current /\ ns'.decoder = ns.decoder
    <3>1. ASSUME NEW tracks, NEW frames, NEW heard, NEW st,
                 Return([ns EXCEPT !.tracks = tracks, !.frames = frames, !.heard = heard], st)
          PROVE  ns'.current = ns.current /\ ns'.decoder = ns.decoder
      <4> DEFINE t == [ns EXCEPT !.tracks = tracks, !.frames = frames, !.heard = heard]
      <4>1. t.current = ns.current /\ t.decoder = ns.decoder /\ DOMAIN t = DOMAIN ns
        BY <1>1 DEF NetStreams
      <4>2. Return(t, st)
        BY <3>1
      <4> HIDE DEF t
      <4>3. QED
        BY <1>1, <4>1, <4>2, ReturnedVideo, Fields
    <3>2. QED
      BY <1>1, <2>1, <3>1, ReturnedVideo, Fields
  <2>3. QED
    BY <2>2, NotShown
<1>4. CASE Recheck
  <2>1. \E st : Goto(ns, ns.current, st) \/ Return(UpdatePlaying(ns), st)
    BY <1>4 DEF Recheck
  <2>2. QED
    BY <1>1, <2>1, GotoIsComplete, UpdatedVideo, ReturnedVideo, Fields, NotShown
<1>5. CASE BufferFull \/ Closed
  <2>1. PICK st : Return([ns EXCEPT !.buffering = FALSE], st)
    BY <1>5 DEF BufferFull, Closed
  <2>2. ns'.current = ns.current /\ ns'.decoder = ns.decoder
    BY <1>1, <2>1, ReturnedVideo DEF NetStreams
  <2>3. QED
    BY <2>2, NotShown
<1>6. CASE CloseTarget
  <2> DEFINE t == [ns EXCEPT !.loader = "closed", !.eof = TRUE]
  <2>1. PICK st : Return(t, st)
    BY <1>6 DEF CloseTarget
  <2>2. ns'.current = ns.current /\ ns'.decoder = ns.decoder
    <3>1. t.current = ns.current /\ t.decoder = ns.decoder /\ DOMAIN t = DOMAIN ns
      BY <1>1 DEF NetStreams
    <3> HIDE DEF t
    <3>2. QED
      BY <1>1, <2>1, <3>1, ReturnedVideo, Fields
  <2>3. QED
    BY <2>2, NotShown
<1>7. CASE Flushed
  <2>1. \E st : Goto(ns, ns.current, st) \/ Return(ns, st)
    BY <1>7 DEF Flushed
  <2>2. QED
    BY <1>1, <2>1, GotoIsComplete, ReturnedVideo, Fields, NotShown
<1>8. CASE Fail
  <2>1. PICK st : Return([ns EXCEPT !.loader = "failed"], st)
    BY <1>8 DEF Fail
  <2>2. ns'.current = ns.current /\ ns'.decoder = ns.decoder
    BY <1>1, <2>1, ReturnedVideo DEF NetStreams
  <2>3. QED
    BY <2>2, NotShown
<1>9. QED
  BY <1>2, <1>3, <1>4, <1>5, <1>6, <1>7, <1>8 DEF Target

-----------------------------------------------------------------------------
(* The theorems *)

LEMMA InitInvariant == Init => IInv
<1> SUFFICES ASSUME Init PROVE IInv
  OBVIOUS
<1>1. stack = <<>>
  BY DEF Init
<1>2. ns \in NetStreams
  <2>1. <<"iterate">> \in Seq({"video", "iterate"})
    OBVIOUS
  <2>2. [video |-> 0, iterate |-> FramePeriod] \in [{"video", "iterate"} -> Nat]
    BY PeriodAssumption
  <2>3. 0 \in 0 .. MaxFrames /\ BufferTime \in Nat /\ FALSE \in BOOLEAN
    BY BoundAssumption, BufferAssumption
  <2>4. QED
    BY <2>1, <2>2, <2>3 DEF Init, NetStreams
<1>3. /\ ns.loader = "none" /\ ~ns.audio /\ ~ns.armed /\ ns.history = "nothing"
  BY DEF Init
<1>4. QED
  BY <1>1, <1>2, <1>3, NothingLeft, NothingIsWellFormed
  DEF IInv, ArmedIsListed, TypeOK, RunningPlays, TimeoutReturnsLast, StopsAfterStatus,
      EndIsOfLoader, ShownIsDecoded, At

LEMMA NextKeeps == IInv /\ [Next]_vars => IInv'
<1> SUFFICES ASSUME IInv, [Next]_vars PROVE IInv'
  OBVIOUS
<1>1. Sane
  BY SaneAtFirst
<1>2. CASE UNCHANGED vars
  <2>1. ns' = ns /\ stack' = stack
    BY <1>2 DEF vars
  <2>2. QED
    BY <1>1, <2>1, GoodIsInvariant DEF Sane
<1>3. CASE Clock
  BY <1>1, <1>3, WaitKeeps, FireIterateKeeps, FireVideoKeeps, TimeoutAgainKeeps DEF Clock
<1>4. CASE Script
  BY <1>1, <1>4, PauseKeeps, SetLoaderKeeps, SetBufferTimeKeeps, SeekKeeps, TakingKeeps
  DEF Script
<1>5. CASE Video
  BY <1>1, <1>5, AfterStatusKeeps, SendEventKeeps, TakingKeeps DEF Video
<1>6. CASE Target
  BY <1>1, <1>6, LoadKeeps, ParseKeeps, RecheckKeeps, BufferFullKeeps, CloseTargetKeeps,
     FlushedKeeps, ClosedKeeps, FailKeeps DEF Target
<1>7. QED
  BY <1>2, <1>3, <1>4, <1>5, <1>6 DEF Next

\* The timeout, the player's list, the buffering, what is left to be done and the
\* decoder agree in every reachable state.
THEOREM Invariance == Spec => []IInv
BY InitInvariant, NextKeeps, PTL DEF Spec

\* Whatever scripts do inside of each other, playback never stalls: an armed
\* timeout is in the player's list, and one that is added again is for a later
\* image (swfdec_net_stream_timeout, _update_playing).
THEOREM PlaybackGoesOn == Spec => []ArmedIsListed
BY Invariance, PTL DEF IInv

\* When all functions of a stream returned, it only runs if it plays, and it
\* waits for nothing that will not come (swfdec_net_stream_update_playing,
\* _stream_target_close).
THEOREM RunsOnlyWhilePlaying == Spec => []RunningPlays
BY Invariance, PTL DEF IInv

\* Going on from an image that was complete, or from none, swfdec_net_stream_video_goto
\* decodes all that the new image builds on, wherever the key frames are.
THEOREM DecodesAllImages == Spec => ImagesAreComplete
<1>1. IInv /\ [Next]_vars =>
        [/\ ns'.decoder
         /\ \/ ~ns.decoder
            \/ ns'.current > ns.decoder_time /\ ns.history = "complete"
         => ns'.history = "complete" /\ ns'.decoder_time = ns'.current]_vars
  <2> SUFFICES ASSUME IInv, Next
               PROVE  /\ ns'.decoder
                      /\ \/ ~ns.decoder
                         \/ ns'.current > ns.decoder_time /\ ns.history = "complete"
                      => ns'.history = "complete" /\ ns'.decoder_time = ns'.current
    OBVIOUS
  <2>1. Complete(ns, ns')
    BY SaneAtFirst, ClockShows, ScriptShows, VideoShows, TargetShows DEF Next
  <2>2. QED
    BY <2>1 DEF Complete
<1>2. QED
  BY <1>1, Invariance, PTL DEF Spec, ImagesAreComplete
=============================================================================
