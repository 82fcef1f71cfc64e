----------------------- MODULE PlayerSchedulerProofs -----------------------
(***************************************************************************)
(* The clock's safety properties, proved for every set of objects,         *)
(* intervals, periods and frame rates and for every resolution of the      *)
(* clock: none of the bounds that TLC needs matters.                       *)
(*                                                                         *)
(* The first part is about the list of timeouts alone: adding and removing *)
(* keep it sorted and free of duplicates.                                  *)
(***************************************************************************)
EXTENDS PlayerScheduler, SequenceTheorems, WellFoundedInduction, TLAPS

-----------------------------------------------------------------------------
(* Lists *)

\* Min returns a least element of a nonempty set of numbers bounded below.
LEMMA MinFacts ==
    ASSUME NEW n \in Nat, NEW I \in SUBSET (1 .. n), I # {}
    PROVE  Min(I) \in I /\ \A i \in I : Min(I) <= i
<1>1. I \subseteq Nat
  OBVIOUS
<1>2. PICK m \in I : \A i \in I : <<i, m>> \notin OpToRel(<, Nat)
  BY <1>1, NatLessThanWellFounded, WFMin
<1>3. ASSUME NEW i \in I PROVE m <= i
  <2>1. i \in Nat /\ m \in Nat
    BY <1>1
  <2>2. ~(i < m)
    <3>1. <<i, m>> \in Nat \X Nat
      BY <2>1
    <3>2. <<i, m>> \notin {ss \in Nat \X Nat : ss[1] < ss[2]}
      BY <1>2 DEF OpToRel
    <3>3. QED
      BY <3>1, <3>2
  <2>3. QED
    BY <2>1, <2>2
<1>4. QED
  BY <1>1, <1>3 DEF Min

LEMMA ToSetFacts ==
    ASSUME NEW S, NEW list \in Seq(S)
    PROVE  /\ ToSet(list) \subseteq S
           /\ DOMAIN list = 1 .. Len(list)
           /\ Len(list) \in Nat
           /\ \A i \in 1 .. Len(list) : list[i] \in ToSet(list)
           /\ \A x \in ToSet(list) : \E i \in 1 .. Len(list) : list[i] = x
BY DEF ToSet

\* The front and the back of a list that is taken apart.
LEMMA SubSeqFacts ==
    ASSUME NEW S, NEW list \in Seq(S), NEW p \in 1 .. Len(list) + 1
    PROVE  /\ SubSeq(list, 1, p - 1) \in Seq(S)
           /\ Len(SubSeq(list, 1, p - 1)) = p - 1
           /\ \A i \in 1 .. p - 1 : SubSeq(list, 1, p - 1)[i] = list[i]
           /\ SubSeq(list, p, Len(list)) \in Seq(S)
           /\ Len(SubSeq(list, p, Len(list))) = Len(list) - p + 1
           /\ \A i \in 1 .. Len(list) - p + 1 :
                 SubSeq(list, p, Len(list))[i] = list[p + i - 1]
BY SMT

LEMMA ConcatFacts ==
    ASSUME NEW S, NEW f \in Seq(S), NEW b \in Seq(S)
    PROVE  /\ f \o b \in Seq(S)
           /\ Len(f) \in Nat
           /\ Len(b) \in Nat
           /\ Len(f \o b) = Len(f) + Len(b)
           /\ \A i \in 1 .. Len(f) : (f \o b)[i] = f[i]
           /\ \A i \in Len(f) + 1 .. Len(f) + Len(b) : (f \o b)[i] = b[i - Len(f)]
BY ConcatProperties

LEMMA InsertAtFacts ==
    ASSUME NEW S, NEW list \in Seq(S), NEW p \in 1 .. Len(list) + 1, NEW t \in S
    PROVE  /\ InsertAt(list, p, t) \in Seq(S)
           /\ Len(InsertAt(list, p, t)) = Len(list) + 1
           /\ \A i \in 1 .. Len(list) + 1 :
                 InsertAt(list, p, t)[i] = IF i < p THEN list[i]
                                           ELSE IF i = p THEN t ELSE list[i - 1]
<1> DEFINE front == SubSeq(list, 1, p - 1)
           mid == front \o <<t>>
           back == SubSeq(list, p, Len(list))
<1>1. Len(list) \in Nat /\ p \in Nat /\ <<t>> \in Seq(S)
  OBVIOUS
<1>2. /\ front \in Seq(S) /\ Len(front) = p - 1
      /\ \A i \in 1 .. p - 1 : front[i] = list[i]
  BY SubSeqFacts
<1>3. /\ back \in Seq(S) /\ Len(back) = Len(list) - p + 1
      /\ \A i \in 1 .. Len(list) - p + 1 : back[i] = list[p + i - 1]
  BY SubSeqFacts
<1>4. /\ mid \in Seq(S) /\ Len(mid) = p
      /\ \A i \in 1 .. p - 1 : mid[i] = list[i]
      /\ mid[p] = t
  <2> HIDE DEF front
  <2>1. QED
    BY <1>1, <1>2
<1>5. InsertAt(list, p, t) = mid \o back
  BY DEF InsertAt
<1> HIDE DEF mid, back
<1>6. /\ mid \o back \in Seq(S)
      /\ Len(mid \o back) = Len(list) + 1
      /\ \A i \in 1 .. p : (mid \o back)[i] = mid[i]
      /\ \A i \in p + 1 .. Len(list) + 1 : (mid \o back)[i] = back[i - p]
  BY <1>1, <1>3, <1>4, ConcatFacts
<1>7. ASSUME NEW i \in p + 1 .. Len(list) + 1
      PROVE  back[i - p] = list[i - 1]
  <2>1. i - p \in 1 .. Len(list) - p + 1 /\ p + (i - p) - 1 = i - 1
    BY <1>1
  <2>2. QED
    BY <1>3, <2>1
<1>8. QED
  BY <1>1, <1>4, <1>5, <1>6, <1>7

LEMMA RemoveAtFacts ==
    ASSUME NEW S, NEW list \in Seq(S), NEW p \in 1 .. Len(list)
    PROVE  /\ RemoveAt(list, p) \in Seq(S)
           /\ Len(RemoveAt(list, p)) = Len(list) - 1
           /\ \A i \in 1 .. Len(list) - 1 :
                 RemoveAt(list, p)[i] = IF i < p THEN list[i] ELSE list[i + 1]
<1> DEFINE front == SubSeq(list, 1, p - 1)
           back == SubSeq(list, p + 1, Len(list))
<1>1. Len(list) \in Nat /\ p \in Nat /\ p + 1 \in 1 .. Len(list) + 1
  OBVIOUS
<1>2. /\ front \in Seq(S) /\ Len(front) = p - 1
      /\ \A i \in 1 .. p - 1 : front[i] = list[i]
  BY SubSeqFacts
<1>3. /\ back \in Seq(S) /\ Len(back) = Len(list) - (p + 1) + 1
      /\ \A i \in 1 .. Len(list) - (p + 1) + 1 : back[i] = list[p + 1 + i - 1]
  BY <1>1, SubSeqFacts
<1>4. RemoveAt(list, p) = front \o back
  BY DEF RemoveAt
<1> HIDE DEF front, back
<1>5. Len(front) + Len(back) = Len(list) - 1 /\ Len(front) = p - 1 /\ Len(front) + 1 = p
  BY <1>1, <1>2, <1>3
<1>6. /\ front \o back \in Seq(S)
      /\ Len(front \o back) = Len(front) + Len(back)
      /\ \A i \in 1 .. Len(front) : (front \o back)[i] = front[i]
      /\ \A i \in Len(front) + 1 .. Len(front) + Len(back) :
             (front \o back)[i] = back[i - Len(front)]
  BY <1>2, <1>3, ConcatFacts
<1>7. /\ front \o back \in Seq(S)
      /\ Len(front \o back) = Len(list) - 1
      /\ \A i \in 1 .. p - 1 : (front \o back)[i] = front[i]
      /\ \A i \in p .. Len(list) - 1 : (front \o back)[i] = back[i - (p - 1)]
  BY <1>6, <1>5, Zenon
<1>8. ASSUME NEW i \in p .. Len(list) - 1
      PROVE  back[i - (p - 1)] = list[i + 1]
  <2>1. /\ i - (p - 1) \in 1 .. Len(list) - (p + 1) + 1
        /\ p + 1 + (i - (p - 1)) - 1 = i + 1
    BY <1>1
  <2>2. QED
    BY <1>3, <2>1
<1>9. ASSUME NEW i \in 1 .. Len(list) - 1
      PROVE  RemoveAt(list, p)[i] = IF i < p THEN list[i] ELSE list[i + 1]
  <2>1. CASE i < p
    <3>1. i \in 1 .. p - 1
      BY <1>1, <2>1
    <3>2. QED
      BY <1>2, <1>4, <1>7, <2>1, <3>1
  <2>2. CASE ~(i < p)
    <3>1. i \in p .. Len(list) - 1
      BY <1>1, <2>2
    <3>2. QED
      BY <1>4, <1>7, <1>8, <2>2, <3>1
  <2>3. QED
    BY <2>1, <2>2
<1>10. QED
  BY <1>4, <1>7, <1>9

-----------------------------------------------------------------------------

\* The position that swfdec_player_add_timeout looks for splits a sorted list
\* into the timeouts that are not due later than t and those that are.
LEMMA InsertPositionFacts ==
    ASSUME NEW S, NEW list \in Seq(S), NEW t \in S, NEW stamp \in [S -> Nat],
           Sorted(list, stamp)
    PROVE  /\ InsertPosition(list, stamp, t) \in 1 .. Len(list) + 1
           /\ \A i \in 1 .. Len(list) :
                 i < InsertPosition(list, stamp, t) <=> stamp[list[i]] <= stamp[t]
<1> DEFINE later == {i \in DOMAIN list : stamp[list[i]] > stamp[t]}
<1>1. Len(list) \in Nat /\ DOMAIN list = 1 .. Len(list)
  OBVIOUS
<1>2. \A i \in 1 .. Len(list) : list[i] \in S /\ stamp[list[i]] \in Nat
  OBVIOUS
<1>3. InsertPosition(list, stamp, t) = IF later = {} THEN Len(list) + 1 ELSE Min(later)
  BY DEF InsertPosition
<1>4. CASE later = {}
  <2>1. InsertPosition(list, stamp, t) = Len(list) + 1
    BY <1>3, <1>4
  <2>2. ASSUME NEW i \in 1 .. Len(list) PROVE stamp[list[i]] <= stamp[t]
    <3>1. i \notin later
      BY <1>4
    <3>2. ~(stamp[list[i]] > stamp[t])
      BY <1>1, <3>1
    <3>3. QED
      BY <1>2, <3>2
  <2>3. QED
    <3> HIDE DEF later
    <3>1. QED
      BY <1>1, <2>1, <2>2
<1>5. CASE later # {}
  <2>1. later \in SUBSET (1 .. Len(list))
    BY <1>1
  <2>2. Min(later) \in later /\ \A i \in later : Min(later) <= i
    <3> HIDE DEF later
    <3>1. QED
      BY <1>1, <1>5, <2>1, MinFacts
  <2>3. InsertPosition(list, stamp, t) = Min(later)
    BY <1>3, <1>5
  <2>4. PICK m : m = Min(later)
    OBVIOUS
  <2>5. m \in 1 .. Len(list) /\ stamp[list[m]] > stamp[t]
    BY <1>1, <2>2, <2>4
  <2>6. ASSUME NEW i \in 1 .. Len(list) PROVE i < m <=> stamp[list[i]] <= stamp[t]
    <3>1. CASE i < m
      <4>1. ~(m <= i)
        BY <1>1, <2>5, <3>1
      <4>2. i \notin later
        BY <2>2, <2>4, <4>1, Zenon
      <4>3. QED
        BY <1>1, <1>2, <3>1, <4>2
    <3>2. CASE m <= i
      <4>1. stamp[list[m]] <= stamp[list[i]]
        BY <1>1, <1>2, <2>5, <3>2 DEF Sorted
      <4>2. QED
        BY <1>2, <2>5, <3>2, <4>1
    <3>3. QED
      BY <2>5, <3>1, <3>2
  <2>7. QED
    BY <2>3, <2>4, <2>5, <2>6
<1>6. QED
  BY <1>4, <1>5

\* Adding a timeout that is not in the list yet: the list gains exactly that
\* timeout, stays sorted and stays without duplicates.
LEMMA AddTimeoutFacts ==
    ASSUME NEW S, NEW list \in Seq(S), NEW t \in S, NEW stamp \in [S -> Nat],
           NEW now \in Nat, Sorted(list, stamp), Distinct(list),
           t \notin ToSet(list), stamp[t] >= now
    PROVE  /\ AddTimeout(list, stamp, now, t) \in Seq(S)
           /\ ToSet(AddTimeout(list, stamp, now, t)) = ToSet(list) \cup {t}
           /\ Sorted(AddTimeout(list, stamp, now, t), stamp)
           /\ Distinct(AddTimeout(list, stamp, now, t))
<1> DEFINE n == Len(list)
           p == InsertPosition(list, stamp, t)
           new == InsertAt(list, p, t)
<1>1. AddTimeout(list, stamp, now, t) = new
  BY DEF AddTimeout
<1>2. n \in Nat /\ DOMAIN list = 1 .. n
  OBVIOUS
<1>3. \A i \in 1 .. n : list[i] \in S /\ stamp[list[i]] \in Nat /\ list[i] # t
  BY DEF ToSet
<1>4. /\ p \in 1 .. n + 1
      /\ \A i \in 1 .. n : i < p <=> stamp[list[i]] <= stamp[t]
  BY InsertPositionFacts
<1> HIDE DEF p
<1>5. /\ new \in Seq(S) /\ Len(new) = n + 1
      /\ \A i \in 1 .. n + 1 :
            new[i] = IF i < p THEN list[i] ELSE IF i = p THEN t ELSE list[i - 1]
  BY <1>4, InsertAtFacts
<1> HIDE DEF new
<1>6. DOMAIN new = 1 .. n + 1
  BY <1>5
<1> HIDE DEF n
<1>7. ToSet(new) = ToSet(list) \cup {t}
  <2>1. ASSUME NEW i \in 1 .. n + 1 PROVE new[i] \in ToSet(list) \cup {t}
    <3>1. CASE i < p
      <4>1. i \in 1 .. n /\ new[i] = list[i]
        BY <1>2, <1>4, <1>5, <3>1
      <4>2. QED
        BY <1>2, <4>1 DEF ToSet
    <3>2. CASE i = p
      BY <1>5, <3>2
    <3>3. CASE i > p
      <4>1. i - 1 \in 1 .. n /\ new[i] = list[i - 1]
        BY <1>2, <1>4, <1>5, <3>3
      <4>2. QED
        BY <1>2, <4>1 DEF ToSet
    <3>4. QED
      BY <1>2, <1>4, <3>1, <3>2, <3>3
  <2>2. ASSUME NEW i \in 1 .. n PROVE list[i] \in ToSet(new)
    <3>1. CASE i < p
      <4>1. i \in 1 .. n + 1 /\ new[i] = list[i]
        BY <1>2, <1>5, <3>1
      <4>2. QED
        BY <1>6, <4>1 DEF ToSet
    <3>2. CASE ~(i < p)
      <4>1. i + 1 \in 1 .. n + 1 /\ new[i + 1] = list[i]
        BY <1>2, <1>4, <1>5, <3>2
      <4>2. QED
        BY <1>6, <4>1 DEF ToSet
    <3>3. QED
      BY <3>1, <3>2
  <2>3. t \in ToSet(new)
    <3>1. p \in DOMAIN new
      BY <1>4, <1>6
    <3>2. new[p] = t
      <4>1. ~(p < p)
        BY <1>2, <1>4
      <4>2. QED
        BY <1>4, <1>5, <4>1
    <3>3. QED
      BY <3>1, <3>2 DEF ToSet
  <2>4. QED
    BY <1>2, <1>6, <2>1, <2>2, <2>3 DEF ToSet
<1>8. Sorted(new, stamp)
  <2>1. SUFFICES ASSUME NEW i \in 1 .. n + 1, NEW j \in 1 .. n + 1, i < j
                 PROVE  stamp[new[i]] <= stamp[new[j]]
    BY <1>6 DEF Sorted
  <2>2. \A k, m \in 1 .. n : k < m => stamp[list[k]] <= stamp[list[m]]
    BY <1>2 DEF Sorted
  <2>3. stamp[t] \in Nat
    OBVIOUS
  <2>4. CASE j < p
    BY <1>2, <1>4, <1>5, <2>1, <2>2, <2>4
  <2>5. CASE j = p
    <3>1. new[j] = t /\ new[i] = list[i] /\ i \in 1 .. n /\ i < p
      BY <1>2, <1>4, <1>5, <2>1, <2>5
    <3>2. QED
      BY <1>4, <3>1
  <2>6. CASE j > p
    <3>1. new[j] = list[j - 1] /\ j - 1 \in 1 .. n /\ ~(j - 1 < p)
      BY <1>2, <1>4, <1>5, <2>1, <2>6
    <3>2. CASE i < p
      <4>1. new[i] = list[i] /\ i \in 1 .. n /\ i < j - 1
        BY <1>2, <1>4, <1>5, <2>1, <2>6, <3>2
      <4>2. QED
        BY <2>2, <3>1, <4>1
    <3>3. CASE i = p
      <4>1. new[i] = t
        BY <1>5, <3>3
      <4>2. QED
        BY <1>3, <1>4, <2>3, <3>1, <4>1
    <3>4. CASE i > p
      <4>1. new[i] = list[i - 1] /\ i - 1 \in 1 .. n /\ i - 1 < j - 1
        BY <1>2, <1>4, <1>5, <2>1, <2>6, <3>4
      <4>2. QED
        BY <2>2, <3>1, <4>1
    <3>5. QED
      BY <1>2, <1>4, <3>2, <3>3, <3>4
  <2>7. QED
    BY <1>2, <1>4, <2>4, <2>5, <2>6
<1>9. Distinct(new)
  <2>1. SUFFICES ASSUME NEW i \in 1 .. n + 1, NEW j \in 1 .. n + 1, i < j
                 PROVE  new[i] # new[j]
    BY <1>2, <1>6 DEF Distinct
  <2>2. \A k, m \in 1 .. n : k < m => list[k] # list[m]
    BY <1>2 DEF Distinct
  <2>3. CASE j < p
    BY <1>2, <1>4, <1>5, <2>1, <2>2, <2>3
  <2>4. CASE j = p
    <3>1. new[j] = t /\ new[i] = list[i] /\ i \in 1 .. n
      BY <1>2, <1>4, <1>5, <2>1, <2>4
    <3>2. QED
      BY <1>3, <3>1
  <2>5. CASE j > p
    <3>1. new[j] = list[j - 1] /\ j - 1 \in 1 .. n
      BY <1>2, <1>4, <1>5, <2>1, <2>5
    <3>2. CASE i < p
      <4>1. new[i] = list[i] /\ i \in 1 .. n /\ i < j - 1
        BY <1>2, <1>4, <1>5, <2>1, <2>5, <3>2
      <4>2. QED
        BY <2>2, <3>1, <4>1
    <3>3. CASE i = p
      BY <1>3, <1>5, <3>1, <3>3
    <3>4. CASE i > p
      <4>1. new[i] = list[i - 1] /\ i - 1 \in 1 .. n /\ i - 1 < j - 1
        BY <1>2, <1>4, <1>5, <2>1, <2>5, <3>4
      <4>2. QED
        BY <2>2, <3>1, <4>1
    <3>5. QED
      BY <1>2, <1>4, <3>2, <3>3, <3>4
  <2>6. QED
    BY <1>2, <1>4, <2>3, <2>4, <2>5
<1>10. QED
  BY <1>1, <1>5, <1>7, <1>8, <1>9

\* Removing a timeout from a list without duplicates leaves exactly the other
\* timeouts, in their order.
LEMMA RemoveTimeoutFacts ==
    ASSUME NEW S, NEW list \in Seq(S), NEW t, NEW stamp \in [S -> Nat],
           Sorted(list, stamp), Distinct(list)
    PROVE  /\ RemoveTimeout(list, t) \in Seq(S)
           /\ ToSet(RemoveTimeout(list, t)) = ToSet(list) \ {t}
           /\ Sorted(RemoveTimeout(list, t), stamp)
           /\ Distinct(RemoveTimeout(list, t))
<1> DEFINE n == Len(list)
           holds == {i \in 1 .. Len(list) : list[i] = t}
           p == Min(holds)
           new == RemoveAt(list, p)
<1>1. n \in Nat /\ DOMAIN list = 1 .. n
  OBVIOUS
<1>2. CASE holds = {}
  <2>1. RemoveTimeout(list, t) = list
    BY <1>2 DEF RemoveTimeout, RemoveFirst
  <2>2. t \notin ToSet(list)
    BY <1>1, <1>2 DEF ToSet
  <2>3. QED
    BY <2>1, <2>2
<1>3. CASE holds # {}
  <2>1. RemoveTimeout(list, t) = new
    BY <1>3 DEF RemoveTimeout, RemoveFirst, SelectInSeq
  <2>2. p \in holds
    <3>1. holds \in SUBSET (1 .. n)
      OBVIOUS
    <3> HIDE DEF holds
    <3>2. QED
      BY <1>1, <1>3, <3>1, MinFacts
  <2>3. p \in 1 .. n /\ list[p] = t
    BY <2>2
  <2> HIDE DEF p
  <2>4. /\ new \in Seq(S) /\ Len(new) = n - 1
        /\ \A i \in 1 .. n - 1 : new[i] = IF i < p THEN list[i] ELSE list[i + 1]
    BY <2>3, RemoveAtFacts
  <2> HIDE DEF new, holds, n
  <2>5. DOMAIN new = 1 .. n - 1
    BY <2>4
  <2> DEFINE old(i) == IF i < p THEN i ELSE i + 1
  <2>6. \A i \in 1 .. n - 1 : /\ old(i) \in 1 .. n /\ old(i) # p
                              /\ new[i] = list[old(i)]
    BY <1>1, <2>3, <2>4
  <2>7. \A i, j \in 1 .. n - 1 : i < j => old(i) < old(j)
    BY <1>1, <2>3
  <2>8. \A i \in 1 .. n : i # p => \E k \in 1 .. n - 1 : old(k) = i
    <3>1. TAKE i \in 1 .. n
    <3>2. HAVE i # p
    <3>3. CASE i < p
      <4>1. i \in 1 .. n - 1 /\ old(i) = i
        BY <1>1, <2>3, <3>3
      <4>2. QED
        BY <4>1
    <3>4. CASE i > p
      <4>1. i - 1 \in 1 .. n - 1 /\ old(i - 1) = i
        BY <1>1, <2>3, <3>4
      <4>2. QED
        BY <4>1
    <3>5. QED
      BY <1>1, <2>3, <3>2, <3>3, <3>4
  <2> HIDE DEF old
  <2>9. \A i \in 1 .. n : i # p => list[i] # t
    BY <1>1, <2>3 DEF Distinct
  <2>10. ToSet(new) = ToSet(list) \ {t}
    <3>1. ASSUME NEW x \in ToSet(new) PROVE x \in ToSet(list) \ {t}
      <4>1. PICK i \in 1 .. n - 1 : new[i] = x
        BY <2>5 DEF ToSet
      <4>2. old(i) \in DOMAIN list /\ list[old(i)] = x /\ x # t
        BY <1>1, <2>6, <2>9, <4>1
      <4>3. QED
        BY <4>2 DEF ToSet
    <3>2. ASSUME NEW x \in ToSet(list) \ {t} PROVE x \in ToSet(new)
      <4>1. PICK i \in 1 .. n : list[i] = x
        BY <1>1 DEF ToSet
      <4>2. i # p
        BY <2>3, <4>1
      <4>3. PICK k \in 1 .. n - 1 : old(k) = i
        BY <2>8, <4>2
      <4>4. k \in DOMAIN new /\ new[k] = x
        BY <2>5, <2>6, <4>1, <4>3
      <4>5. QED
        BY <4>4 DEF ToSet
    <3>3. QED
      BY <3>1, <3>2
  <2>11. Sorted(new, stamp)
    <3>1. SUFFICES ASSUME NEW i \in 1 .. n - 1, NEW j \in 1 .. n - 1, i < j
                   PROVE  stamp[new[i]] <= stamp[new[j]]
      BY <2>5 DEF Sorted
    <3>2. /\ old(i) \in DOMAIN list /\ old(j) \in DOMAIN list /\ old(i) < old(j)
          /\ new[i] = list[old(i)] /\ new[j] = list[old(j)]
      BY <1>1, <2>6, <2>7, <3>1
    <3>3. stamp[list[old(i)]] <= stamp[list[old(j)]]
      BY <3>2 DEF Sorted
    <3>4. QED
      BY <3>2, <3>3
  <2>12. Distinct(new)
    <3>1. SUFFICES ASSUME NEW i \in 1 .. n - 1, NEW j \in 1 .. n - 1, i < j
                   PROVE  new[i] # new[j]
      BY <1>1, <2>5 DEF Distinct
    <3>2. /\ old(i) \in DOMAIN list /\ old(j) \in DOMAIN list /\ old(i) < old(j)
          /\ new[i] = list[old(i)] /\ new[j] = list[old(j)]
      BY <1>1, <2>6, <2>7, <3>1
    <3>3. list[old(i)] = list[old(j)] => old(i) = old(j)
      BY <3>2 DEF Distinct
    <3>4. old(i) # old(j)
      BY <1>1, <2>6, <3>2
    <3>5. QED
      BY <3>2, <3>3, <3>4
  <2>13. QED
    BY <2>1, <2>4, <2>10, <2>11, <2>12
<1>4. QED
  BY <1>2, <1>3

\* Running the first timeout takes it, the one that is due first, off the list.
LEMMA TailFacts ==
    ASSUME NEW S, NEW list \in Seq(S), NEW stamp \in [S -> Nat],
           Sorted(list, stamp), Distinct(list), list # <<>>
    PROVE  /\ Tail(list) \in Seq(S)
           /\ Head(list) \in ToSet(list)
           /\ Head(list) \in S
           /\ ToSet(Tail(list)) = ToSet(list) \ {Head(list)}
           /\ Sorted(Tail(list), stamp)
           /\ Distinct(Tail(list))
           /\ \A t \in ToSet(list) : stamp[Head(list)] <= stamp[t]
<1> DEFINE n == Len(list)
           new == Tail(list)
<1>1. n \in Nat /\ DOMAIN list = 1 .. n /\ 1 \in 1 .. n
  OBVIOUS
<1>2. Head(list) = list[1]
  OBVIOUS
<1>3. new \in Seq(S) /\ Len(new) = n - 1
  OBVIOUS
<1>4. \A i \in 1 .. n - 1 : new[i] = list[i + 1]
  OBVIOUS
<1>5. DOMAIN new = 1 .. n - 1
  BY <1>1, <1>3
<1>6. \A i \in 1 .. n - 1 : i + 1 \in 1 .. n /\ i + 1 # 1
  BY <1>1
<1>7. \A i \in 1 .. n : i # 1 => i - 1 \in 1 .. n - 1 /\ (i - 1) + 1 = i
  BY <1>1
<1> HIDE DEF n, new
<1>8. Head(list) \in ToSet(list) /\ Head(list) \in S
  BY <1>1, <1>2 DEF ToSet
<1>9. ToSet(new) = ToSet(list) \ {Head(list)}
  <2>1. ASSUME NEW x \in ToSet(new) PROVE x \in ToSet(list) \ {Head(list)}
    <3>1. PICK i \in 1 .. n - 1 : new[i] = x
      BY <1>5 DEF ToSet
    <3>2. i + 1 \in DOMAIN list /\ list[i + 1] = x /\ i + 1 # 1
      BY <1>1, <1>4, <1>6, <3>1
    <3>3. x # list[1]
      BY <1>1, <3>2 DEF Distinct
    <3>4. QED
      BY <1>2, <3>2, <3>3 DEF ToSet
  <2>2. ASSUME NEW x \in ToSet(list) \ {Head(list)} PROVE x \in ToSet(new)
    <3>1. PICK i \in 1 .. n : list[i] = x
      BY <1>1 DEF ToSet
    <3>2. i # 1
      BY <1>2, <3>1
    <3>3. i - 1 \in DOMAIN new /\ new[i - 1] = x
      BY <1>4, <1>5, <1>7, <3>1, <3>2
    <3>4. QED
      BY <3>3 DEF ToSet
  <2>3. QED
    BY <2>1, <2>2
<1>10. Sorted(new, stamp)
  <2>1. SUFFICES ASSUME NEW i \in 1 .. n - 1, NEW j \in 1 .. n - 1, i < j
                 PROVE  stamp[new[i]] <= stamp[new[j]]
    BY <1>5 DEF Sorted
  <2>2. i + 1 \in DOMAIN list /\ j + 1 \in DOMAIN list /\ i + 1 < j + 1
    BY <1>1, <1>6, <2>1
  <2>3. stamp[list[i + 1]] <= stamp[list[j + 1]]
    BY <2>2 DEF Sorted
  <2>4. QED
    BY <1>4, <2>3
<1>11. Distinct(new)
  <2>1. SUFFICES ASSUME NEW i \in 1 .. n - 1, NEW j \in 1 .. n - 1, new[i] = new[j]
                 PROVE  i = j
    BY <1>5 DEF Distinct
  <2>2. i + 1 \in DOMAIN list /\ j + 1 \in DOMAIN list /\ list[i + 1] = list[j + 1]
    BY <1>1, <1>4, <1>6, <2>1
  <2>3. i + 1 = j + 1
    BY <2>2 DEF Distinct
  <2>4. QED
    BY <1>1, <2>3
<1>12. ASSUME NEW t \in ToSet(list) PROVE stamp[Head(list)] <= stamp[t]
  <2>1. PICK i \in 1 .. n : list[i] = t
    BY <1>1 DEF ToSet
  <2>2. CASE i = 1
    <3>1. stamp[t] \in Nat
      BY <1>1, <2>1
    <3>2. QED
      BY <1>2, <2>1, <2>2, <3>1
  <2>3. CASE i # 1
    <3>1. 1 \in DOMAIN list /\ i \in DOMAIN list /\ 1 < i
      BY <1>1, <2>3
    <3>2. stamp[list[1]] <= stamp[list[i]]
      BY <3>1 DEF Sorted
    <3>3. QED
      BY <1>2, <2>1, <3>2
  <2>4. QED
    BY <2>2, <2>3
<1>13. QED
  BY <1>3, <1>8, <1>9, <1>10, <1>11, <1>12 DEF new

\* Rescheduling timeouts that are not in the list does not disturb it.
LEMMA RestampFacts ==
    ASSUME NEW S, NEW list \in Seq(S), NEW stamp, NEW next, Sorted(list, stamp),
           \A t \in ToSet(list) : next[t] = stamp[t]
    PROVE  Sorted(list, next)
<1>1. \A i \in DOMAIN list : list[i] \in ToSet(list)
  BY DEF ToSet
<1>2. QED
  BY <1>1, Zenon DEF Sorted

-----------------------------------------------------------------------------
(* The clock *)

LEMMA LaterFacts == \A a, b, c, d \in Nat : a >= b /\ b + c > d => a + c > d
OBVIOUS

LEMMA MinPair == \A a, b \in Int : Min({a, b}) = IF a <= b THEN a ELSE b
BY SMT DEF Min

LEMMA MaxPair == \A a, b \in Int : Max({a, b}) = IF a >= b THEN a ELSE b
BY SMT DEF Max

\* Rounding ticks up to msecs and back adds less than a msec.
LEMMA RoundUpFacts ==
    \A x \in Nat, n \in Nat \ {0} :
        LET c == (x + n - 1) \div n
        IN  c \in Nat /\ x <= c * n /\ c * n < x + n
<1>1. SUFFICES ASSUME NEW x \in Nat, NEW n \in Nat \ {0}
               PROVE  LET c == (x + n - 1) \div n
                      IN  c \in Nat /\ x <= c * n /\ c * n < x + n
  OBVIOUS
<1>2. PICK c \in Int : c = (x + n - 1) \div n
  OBVIOUS
<1>3. n * c <= x + n - 1 /\ x + n - 1 < n * c + n /\ c * n = n * c
  BY <1>2
<1>4. c >= 0
  BY <1>2
<1>5. QED
  BY <1>2, <1>3, <1>4

LEMMA ScaleFacts ==
    \A a, b, n \in Nat : /\ a * n \in Nat
                         /\ a <= b => a * n <= b * n
                         /\ 0 * n = 0
BY SMT

LEMMA TypeFacts ==
    ASSUME IInv
    PROVE  /\ timeouts \in Seq(Timeout)
           /\ timestamp \in [Timeout -> Nat]
           /\ Sorted(timeouts, timestamp)
           /\ Distinct(timeouts)
           /\ ToSet(timeouts) = armed
           /\ \A t \in Timeout : timestamp[t] \in Nat
           /\ "iterate" \in Timeout /\ "external" \in Timeout
           /\ time \in Nat /\ target \in Nat
           /\ TicksPerMsec \in Nat \ {0}
BY TickAssumption DEF IInv, TypeOK, TimeoutsSorted, ArmedIffPending, Timeout

\* Where an advance ends: not before now, and at most a fraction of a msec
\* after the first timeout.
LEMMA GoalFacts ==
    ASSUME IInv, NEW msecs \in Msecs, CanAdvance(msecs)
    PROVE  /\ Goal(msecs) \in Nat
           /\ Goal(msecs) >= time
           /\ timestamp[Head(timeouts)] + TicksPerMsec > Goal(msecs)
<1> DEFINE stamp == timestamp[Head(timeouts)]
           ticks == Max({0, stamp - time})
           events == (ticks + TicksPerMsec - 1) \div TicksPerMsec
           wait == Min({msecs, events})
<1>1. timeouts # <<>> /\ phase = "idle"
  BY DEF CanAdvance
<1>2. /\ time \in Nat /\ TicksPerMsec \in Nat \ {0} /\ msecs \in Nat
      /\ time = target
  BY <1>1, TypeFacts, TickAssumption DEF IInv, IdleOnTarget
<1>3. stamp \in Nat /\ stamp + TicksPerMsec > target
  BY <1>1, TypeFacts, TailFacts DEF IInv, StampsNearTarget
<1> HIDE DEF stamp
<1>4. ticks = IF stamp >= time THEN stamp - time ELSE 0
  BY <1>2, <1>3, MaxPair
<1>5. ticks \in Nat /\ ticks # Never
  BY <1>2, <1>3, <1>4 DEF Never
<1>6. NextEvent = events
  BY <1>1, <1>5 DEF NextEvent, NextEventTime, stamp
<1> HIDE DEF ticks
<1>7. events \in Nat /\ events * TicksPerMsec < ticks + TicksPerMsec
  BY <1>2, <1>5, RoundUpFacts
<1>8. ticks = 0 => events = 0
  <2>1. ASSUME ticks = 0, events # 0 PROVE FALSE
    <3>1. 1 * TicksPerMsec <= events * TicksPerMsec
      BY <1>2, <1>7, <2>1, ScaleFacts
    <3>2. QED
      BY <1>2, <1>7, <2>1, <3>1
  <2>2. QED
    BY <2>1
<1> HIDE DEF events
<1>9. wait \in Nat /\ wait <= events
  BY <1>2, <1>7, MinPair
<1>10. Goal(msecs) = time + wait * TicksPerMsec
  BY <1>6 DEF Goal
<1> HIDE DEF wait
<1>11. wait * TicksPerMsec \in Nat /\ wait * TicksPerMsec <= events * TicksPerMsec
  BY <1>2, <1>7, <1>9, ScaleFacts
<1>12. events * TicksPerMsec \in Nat /\ (ticks = 0 => events * TicksPerMsec = 0)
  BY <1>2, <1>7, <1>8, ScaleFacts
<1>13. Goal(msecs) \in Nat /\ Goal(msecs) >= time
  BY <1>2, <1>10, <1>11
<1>14. ASSUME stamp >= time PROVE stamp + TicksPerMsec > Goal(msecs)
  BY <1>2, <1>3, <1>4, <1>7, <1>10, <1>11, <1>12, <1>14
<1>15. ASSUME stamp < time PROVE stamp + TicksPerMsec > Goal(msecs)
  BY <1>2, <1>3, <1>4, <1>10, <1>11, <1>12, <1>15
<1>16. stamp + TicksPerMsec > Goal(msecs)
  BY <1>2, <1>3, <1>14, <1>15
<1>17. QED
  BY <1>13, <1>16 DEF stamp

-----------------------------------------------------------------------------
(* The inductive invariant in three parts that most steps touch only one of *)

TimersPart ==
    /\ time \in Nat
    /\ target \in Nat
    /\ timeouts \in Seq(Timeout)
    /\ timestamp \in [Timeout -> Nat]
    /\ armed \subseteq Timeout
    /\ lastTrigger \in Int
    /\ TimeoutsSorted
    /\ ArmedIffPending
    /\ TimeNearTarget
    /\ StampsNearTarget
    /\ IdleOnTarget
    /\ TriggerPast

Action == [object : Objects \cup {None}, fresh : BOOLEAN]

QueuePart ==
    /\ external \in Seq(Action)
    /\ left \in Nat
    /\ ExternalPending
    /\ PassWithinQueue
    /\ FreshBehindPass

ControlPart ==
    /\ initialized \in BOOLEAN
    /\ rate \in Nat
    /\ intervals \subseteq Intervals
    /\ interval \in [Intervals -> [msecs : Nat, repeat : BOOLEAN]]
    /\ aborted \in BOOLEAN
    /\ phase \in {"idle", "external", "action", "script"}
    /\ iterating \in BOOLEAN
    /\ IntervalsPending

LEMMA Parts == IInv <=> TimersPart /\ QueuePart /\ ControlPart
BY Zenon DEF IInv, TypeOK, TimersPart, QueuePart, ControlPart, Action

LEMMA PartsNext == IInv' <=> TimersPart' /\ QueuePart' /\ ControlPart'
BY Parts, PTL

LEMMA TimeoutFacts ==
    /\ "iterate" \in Timeout /\ "external" \in Timeout
    /\ Intervals \subseteq Timeout
    /\ "iterate" # "external"
    /\ "iterate" \notin Intervals /\ "external" \notin Intervals
BY IntervalAssumption DEF Timeout

\* Scheduling a timeout that is not pending, not before now.
LEMMA ScheduleStep ==
    ASSUME IInv, NEW t \in Timeout, t \notin armed, NEW stamp \in Nat, stamp >= time,
           timestamp' = [timestamp EXCEPT ![t] = stamp],
           timeouts' = AddTimeout(timeouts, timestamp', time, t),
           armed' = armed \cup {t},
           phase' = phase, UNCHANGED <<clock, lastTrigger>>
    PROVE  TimersPart'
<1>1. TimersPart /\ TicksPerMsec \in Nat
  BY Parts, TickAssumption
<1>2. /\ time' = time /\ target' = target /\ lastTrigger' = lastTrigger
      /\ time \in Nat /\ target \in Nat /\ lastTrigger \in Int
  BY <1>1 DEF clock, TimersPart
<1>3. /\ timestamp' \in [Timeout -> Nat] /\ timestamp'[t] = stamp
      /\ \A u \in Timeout : u # t => timestamp'[u] = timestamp[u]
  BY <1>1 DEF TimersPart
<1>4. /\ timeouts \in Seq(Timeout) /\ t \notin ToSet(timeouts)
      /\ ToSet(timeouts) \subseteq Timeout /\ ToSet(timeouts) = armed
      /\ Distinct(timeouts)
  BY <1>1 DEF TimersPart, ArmedIffPending
<1>5. Sorted(timeouts, timestamp')
  <2>1. \A u \in ToSet(timeouts) : timestamp'[u] = timestamp[u]
    BY <1>3, <1>4
  <2>2. QED
    BY <1>1, <1>4, <2>1, RestampFacts DEF TimersPart, TimeoutsSorted
<1>6. /\ timeouts' \in Seq(Timeout)
      /\ ToSet(timeouts') = armed \cup {t}
      /\ Sorted(timeouts', timestamp')
      /\ Distinct(timeouts')
  <2>1. PICK next \in [Timeout -> Nat] : next = timestamp'
    BY <1>3
  <2>2. next[t] >= time /\ Sorted(timeouts, next)
    BY <1>3, <1>5, <2>1
  <2>3. timeouts' = AddTimeout(timeouts, next, time, t)
    BY <2>1
  <2>4. /\ AddTimeout(timeouts, next, time, t) \in Seq(Timeout)
        /\ ToSet(AddTimeout(timeouts, next, time, t)) = ToSet(timeouts) \cup {t}
        /\ Sorted(AddTimeout(timeouts, next, time, t), next)
        /\ Distinct(AddTimeout(timeouts, next, time, t))
    BY <1>2, <1>4, <2>2, AddTimeoutFacts
  <2>5. QED
    BY <1>4, <2>1, <2>3, <2>4
<1>7. ASSUME NEW u \in armed \cup {t}
      PROVE  timestamp'[u] + TicksPerMsec > target /\ lastTrigger <= timestamp'[u]
  <2>1. CASE u = t
    BY <1>1, <1>2, <1>3, <2>1 DEF TimersPart, TimeNearTarget, TriggerPast
  <2>2. CASE u # t
    <3>1. u \in ToSet(timeouts) /\ u \in Timeout /\ timestamp'[u] = timestamp[u]
      BY <1>3, <1>4, <2>2
    <3>2. QED
      BY <1>1, <3>1 DEF TimersPart, StampsNearTarget, TriggerPast
  <2>3. QED
    BY <2>1, <2>2
<1>8. lastTrigger <= timestamp'["external"]
  BY <1>1, <1>2, <1>3, TimeoutFacts DEF TimersPart, TriggerPast
<1>9. armed' \subseteq Timeout
  BY <1>4
<1>10. TimeNearTarget' /\ IdleOnTarget'
  BY <1>1, <1>2 DEF TimersPart, TimeNearTarget, IdleOnTarget
<1>11. TimeoutsSorted' /\ ArmedIffPending'
  BY <1>6 DEF TimeoutsSorted, ArmedIffPending
<1>12. StampsNearTarget' /\ TriggerPast'
  <2>1. \A u \in ToSet(timeouts') : /\ timestamp'[u] + TicksPerMsec > target'
                                    /\ lastTrigger' <= timestamp'[u]
    BY <1>2, <1>6, <1>7
  <2>2. lastTrigger' <= time'
    BY <1>1, <1>2 DEF TimersPart, TriggerPast
  <2>3. QED
    BY <1>2, <1>8, <2>1, <2>2 DEF StampsNearTarget, TriggerPast
<1>13. QED
  BY <1>2, <1>3, <1>6, <1>9, <1>10, <1>11, <1>12 DEF TimersPart

\* Stopping a timeout, pending or not.
LEMMA UnscheduleStep ==
    ASSUME IInv, NEW t,
           timeouts' = RemoveTimeout(timeouts, t), armed' = armed \ {t},
           UNCHANGED timestamp, phase' = phase, UNCHANGED <<clock, lastTrigger>>
    PROVE  TimersPart'
<1>1. TimersPart
  BY Parts
<1>2. /\ timeouts' \in Seq(Timeout)
      /\ ToSet(timeouts') = ToSet(timeouts) \ {t}
      /\ Sorted(timeouts', timestamp) /\ Distinct(timeouts')
  BY <1>1, RemoveTimeoutFacts DEF TimersPart, TimeoutsSorted, ArmedIffPending
<1>3. ToSet(timeouts') = armed' /\ armed' \subseteq Timeout
  BY <1>1, <1>2 DEF TimersPart, ArmedIffPending
<1>4. StampsNearTarget' /\ TriggerPast' /\ TimeNearTarget' /\ IdleOnTarget'
  BY <1>1, <1>2 DEF TimersPart, StampsNearTarget, TriggerPast, TimeNearTarget,
                    IdleOnTarget, clock
<1>5. QED
  BY <1>1, <1>2, <1>3, <1>4
  DEF TimersPart, TimeoutsSorted, ArmedIffPending, clock

\* Steps that leave the clock and the timers alone and do not make the player
\* idle.
LEMMA TimersStutter ==
    ASSUME IInv, UNCHANGED <<clock, timers, lastTrigger>>,
           phase' = phase \/ phase' # "idle"
    PROVE  TimersPart'
<1>1. TimersPart
  BY Parts
<1>2. StampsNearTarget' /\ TriggerPast' /\ TimeNearTarget' /\ IdleOnTarget'
  BY <1>1 DEF TimersPart, StampsNearTarget, TriggerPast, TimeNearTarget,
              IdleOnTarget, clock, timers
<1>3. QED
  BY <1>1, <1>2 DEF TimersPart, TimeoutsSorted, ArmedIffPending, clock, timers

\* Steps that leave the queue of external actions alone.
LEMMA QueueStutter ==
    ASSUME IInv, UNCHANGED <<external, left>>,
           "external" \in armed => "external" \in armed',
           phase \in {"external", "action"} => phase' \in {"external", "action"}
    PROVE  QueuePart'
<1>1. QueuePart
  BY Parts
<1>2. ExternalPending' /\ PassWithinQueue' /\ FreshBehindPass'
  BY <1>1 DEF QueuePart, ExternalPending, PassWithinQueue, FreshBehindPass
<1>3. QED
  BY <1>1, <1>2 DEF QueuePart

-----------------------------------------------------------------------------
(* Advancing *)

\* What is known when the first timeout is about to run.
LEMMA DueFacts ==
    ASSUME IInv, NEW msecs \in Msecs, NEW t, Due(msecs, t)
    PROVE  /\ phase = "idle" /\ t \in armed /\ t \in Timeout
           /\ Tail(timeouts) \in Seq(Timeout)
           /\ ToSet(Tail(timeouts)) = armed \ {t}
           /\ Sorted(Tail(timeouts), timestamp)
           /\ Distinct(Tail(timeouts))
           /\ time' = timestamp[t] /\ time' \in Nat
           /\ target' \in Nat /\ target' >= target
           /\ time' <= target' /\ time' + TicksPerMsec > target'
           /\ lastTrigger <= time'
           /\ \A u \in armed : timestamp[u] \in Nat /\ timestamp[u] >= time'
<1>1. phase = "idle" /\ timeouts # <<>> /\ t = Head(timeouts) /\ CanAdvance(msecs)
  BY DEF Due, CanAdvance
<1>2. /\ Tail(timeouts) \in Seq(Timeout)
      /\ Head(timeouts) \in ToSet(timeouts)
      /\ Head(timeouts) \in Timeout
      /\ ToSet(Tail(timeouts)) = ToSet(timeouts) \ {Head(timeouts)}
      /\ Sorted(Tail(timeouts), timestamp)
      /\ Distinct(Tail(timeouts))
      /\ \A u \in ToSet(timeouts) : timestamp[Head(timeouts)] <= timestamp[u]
  BY <1>1, TypeFacts, TailFacts
<1>3. /\ Goal(msecs) \in Nat /\ Goal(msecs) >= time
      /\ timestamp[Head(timeouts)] + TicksPerMsec > Goal(msecs)
  BY <1>1, GoalFacts
<1>4. time = target
  BY <1>1 DEF IInv, IdleOnTarget
<1>5. ToSet(timeouts) = armed /\ \A u \in Timeout : timestamp[u] \in Nat
  BY TypeFacts
<1>6. time' = timestamp[t] /\ target' = Goal(msecs) /\ timestamp[t] <= Goal(msecs)
  BY DEF Due
<1>7. lastTrigger <= timestamp[t]
  BY <1>1, <1>2 DEF IInv, TriggerPast
<1>8. \A u \in armed : u \in Timeout
  BY DEF IInv, TypeOK
<1>9. QED
  BY <1>1, <1>2, <1>3, <1>4, <1>5, <1>6, <1>7, <1>8

\* A timeout that runs and adds itself again for later.
LEMMA AgainFacts ==
    ASSUME IInv, NEW msecs \in Msecs, NEW t, Due(msecs, t),
           NEW next \in [Timeout -> Nat], next[t] >= timestamp[t],
           \A u \in Timeout : u # t => next[u] = timestamp[u],
           NEW again, again = AddTimeout(Tail(timeouts), next, timestamp[t], t)
    PROVE  /\ \A u \in armed : next[u] >= time'
           /\ again \in Seq(Timeout)
           /\ ToSet(again) = armed
           /\ Sorted(again, next)
           /\ Distinct(again)
<1>1. /\ t \in armed /\ t \in Timeout
      /\ Tail(timeouts) \in Seq(Timeout)
      /\ ToSet(Tail(timeouts)) = armed \ {t}
      /\ Sorted(Tail(timeouts), timestamp)
      /\ Distinct(Tail(timeouts))
      /\ time' = timestamp[t]
      /\ \A u \in armed : timestamp[u] \in Nat /\ timestamp[u] >= time'
  BY DueFacts
<1>2. timestamp \in [Timeout -> Nat] /\ armed \subseteq Timeout
  BY TypeFacts DEF IInv, TypeOK
<1>3. timestamp[t] \in Nat
  BY <1>1, <1>2
<1>4. Sorted(Tail(timeouts), next)
  <2>1. \A u \in ToSet(Tail(timeouts)) : next[u] = timestamp[u]
    BY <1>1, <1>2
  <2>2. QED
    BY <1>1, <2>1, RestampFacts
<1>5. /\ again \in Seq(Timeout)
      /\ ToSet(again) = (armed \ {t}) \cup {t}
      /\ Sorted(again, next)
      /\ Distinct(again)
  <2>1. PICK list \in Seq(Timeout) : list = Tail(timeouts)
    BY <1>1
  <2>2. PICK now \in Nat : now = timestamp[t]
    BY <1>3
  <2>3. again = AddTimeout(list, next, now, t) /\ ToSet(list) = armed \ {t}
    BY <1>1, <2>1, <2>2
  <2>4. /\ t \in Timeout /\ next \in [Timeout -> Nat]
        /\ Sorted(list, next) /\ Distinct(list)
        /\ t \notin ToSet(list) /\ next[t] >= now
    BY <1>1, <1>4, <2>1, <2>2, <2>3
  <2>5. /\ AddTimeout(list, next, now, t) \in Seq(Timeout)
        /\ ToSet(AddTimeout(list, next, now, t)) = ToSet(list) \cup {t}
        /\ Sorted(AddTimeout(list, next, now, t), next)
        /\ Distinct(AddTimeout(list, next, now, t))
    BY <2>4, AddTimeoutFacts
  <2>6. QED
    BY <2>3, <2>5
<1>6. ASSUME NEW u \in armed PROVE next[u] >= time'
  BY <1>1, <1>2, <1>3
<1>7. QED
  BY <1>1, <1>5, <1>6

\* The clock's part of the invariant after a timeout was taken off the list.
LEMMA DueStep ==
    ASSUME IInv, NEW msecs \in Msecs, NEW t, Due(msecs, t), phase' # "idle",
           timeouts' \in Seq(Timeout), timestamp' \in [Timeout -> Nat],
           armed' \subseteq armed,
           ToSet(timeouts') = armed',
           Sorted(timeouts', timestamp'),
           Distinct(timeouts'),
           \A u \in armed' : timestamp'[u] >= time',
           lastTrigger' \in Int, lastTrigger' <= time',
           lastTrigger' <= timestamp'["external"]
    PROVE  TimersPart'
<1>1. /\ time' \in Nat /\ target' \in Nat
      /\ time' <= target' /\ time' + TicksPerMsec > target'
  BY DueFacts
<1>2. armed' \subseteq Timeout /\ TicksPerMsec \in Nat
  BY TickAssumption DEF IInv, TypeOK
<1>3. \A u \in armed' : timestamp'[u] + TicksPerMsec > target' /\ lastTrigger' <= timestamp'[u]
  <2>1. TAKE u \in armed'
  <2>2. timestamp'[u] \in Nat /\ timestamp'[u] >= time'
    BY <1>2
  <2>3. timestamp'[u] + TicksPerMsec > target'
    BY <1>1, <1>2, <2>2, LaterFacts, Zenon
  <2>4. lastTrigger' <= timestamp'[u]
    BY <1>1, <2>2
  <2>5. QED
    BY <2>3, <2>4
<1>4. StampsNearTarget' /\ TriggerPast' /\ TimeNearTarget' /\ IdleOnTarget'
  BY <1>1, <1>3 DEF StampsNearTarget, TriggerPast, TimeNearTarget, IdleOnTarget
<1>5. QED
  BY <1>1, <1>2, <1>4 DEF TimersPart, TimeoutsSorted, ArmedIffPending

LEMMA AdvanceQuietlyStep ==
    ASSUME IInv, NEW msecs \in Msecs, AdvanceQuietly(msecs)
    PROVE  IInv'
<1>1. /\ CanAdvance(msecs) /\ timeouts # <<>> /\ phase = "idle"
      /\ timestamp[Head(timeouts)] > Goal(msecs)
      /\ time' = Goal(msecs) /\ target' = Goal(msecs)
      /\ UNCHANGED <<timers, external, frame, intervals, interval, control, lastTrigger>>
  BY DEF AdvanceQuietly, CanAdvance
<1>2. /\ Goal(msecs) \in Nat /\ Goal(msecs) >= time
  BY <1>1, GoalFacts
<1>3. TimersPart /\ QueuePart /\ ControlPart /\ TicksPerMsec \in Nat \ {0}
  BY Parts, TickAssumption
<1>4. \A u \in ToSet(timeouts) : timestamp[u] \in Nat /\ timestamp[u] > Goal(msecs)
  <2>1. \A u \in ToSet(timeouts) : timestamp[Head(timeouts)] <= timestamp[u]
    BY <1>1, TypeFacts, TailFacts
  <2>2. Head(timeouts) \in Timeout /\ ToSet(timeouts) \subseteq Timeout
    BY <1>1, <1>3, TypeFacts, TailFacts DEF TimersPart, ArmedIffPending
  <2>3. \A u \in Timeout : timestamp[u] \in Nat
    BY TypeFacts
  <2>4. QED
    BY <1>1, <1>2, <2>1, <2>2, <2>3
<1>5. TimersPart'
  <2>1. TimeNearTarget' /\ IdleOnTarget'
    BY <1>1, <1>2, <1>3 DEF TimeNearTarget, IdleOnTarget
  <2>2. StampsNearTarget'
    BY <1>1, <1>2, <1>3, <1>4 DEF StampsNearTarget, timers
  <2>3. TriggerPast'
    BY <1>1, <1>2, <1>3 DEF TimersPart, TriggerPast, timers
  <2>4. QED
    BY <1>1, <1>2, <1>3, <2>1, <2>2, <2>3
    DEF TimersPart, TimeoutsSorted, ArmedIffPending, timers
<1>6. QueuePart'
  BY <1>1, QueueStutter DEF timers, control
<1>7. ControlPart'
  BY <1>1, <1>3 DEF ControlPart, IntervalsPending, timers, frame, control
<1>8. QED
  BY <1>5, <1>6, <1>7, PartsNext

LEMMA BeginPassStep ==
    ASSUME IInv, BeginPass, phase = "idle"
    PROVE  QueuePart' /\ phase' = "external"
<1>1. QueuePart /\ left' = Len(external) /\ phase' = "external" /\ external' = external
  BY Parts DEF BeginPass
<1>2. \A k \in DOMAIN external : ~external[k].fresh
  BY <1>1 DEF QueuePart, FreshBehindPass
<1>3. Len(external) \in Nat /\ DOMAIN external = 1 .. Len(external)
  BY <1>1 DEF QueuePart
<1>4. ExternalPending' /\ PassWithinQueue' /\ FreshBehindPass'
  BY <1>1, <1>2, <1>3 DEF ExternalPending, PassWithinQueue, FreshBehindPass
<1>5. QED
  BY <1>1, <1>3, <1>4 DEF QueuePart

LEMMA FireExternalStep ==
    ASSUME IInv, NEW msecs \in Msecs, FireExternal(msecs)
    PROVE  IInv'
<1>1. /\ Due(msecs, "external")
      /\ timeouts' = Tail(timeouts) /\ armed' = armed \ {"external"}
      /\ lastTrigger' = timestamp["external"]
      /\ BeginPass /\ timestamp' = timestamp
      /\ UNCHANGED <<frame, intervals, interval, iterating>>
  BY DEF FireExternal
<1>2. /\ phase = "idle"
      /\ Tail(timeouts) \in Seq(Timeout)
      /\ ToSet(Tail(timeouts)) = armed \ {"external"}
      /\ Sorted(Tail(timeouts), timestamp)
      /\ Distinct(Tail(timeouts))
      /\ time' = timestamp["external"] /\ time' \in Nat
      /\ \A u \in armed : timestamp[u] \in Nat /\ timestamp[u] >= time'
  BY <1>1, DueFacts
<1>3. ControlPart /\ timestamp \in [Timeout -> Nat]
  BY Parts, TypeFacts
<1>4. QueuePart' /\ phase' = "external"
  BY <1>1, <1>2, BeginPassStep
<1>5. TimersPart'
  <2>1. /\ timeouts' \in Seq(Timeout) /\ timestamp' \in [Timeout -> Nat]
        /\ armed' \subseteq armed /\ ToSet(timeouts') = armed'
        /\ Sorted(timeouts', timestamp') /\ Distinct(timeouts')
        /\ \A u \in armed' : timestamp'[u] >= time'
        /\ lastTrigger' \in Int /\ lastTrigger' <= time'
        /\ lastTrigger' <= timestamp'["external"]
    BY <1>1, <1>2, <1>3
  <2>2. QED
    BY <1>1, <1>4, <2>1, DueStep
<1>6. ControlPart'
  BY <1>1, <1>3, <1>4, TimeoutFacts DEF ControlPart, IntervalsPending, frame
<1>7. QED
  BY <1>4, <1>5, <1>6, PartsNext

LEMMA FireIterateStep ==
    ASSUME IInv, NEW msecs \in Msecs, FireIterate(msecs)
    PROVE  IInv'
<1> DEFINE next == [timestamp EXCEPT !["iterate"] = @ + rate]
           again == AddTimeout(Tail(timeouts), next, timestamp["iterate"], "iterate")
<1>1. /\ Due(msecs, "iterate")
      /\ timestamp' = next
      /\ timeouts' = IF "external" \in armed THEN RemoveTimeout(again, "external")
                                             ELSE again
      /\ armed' = armed \ {"external"} /\ iterating' = TRUE
      /\ BeginPass
      /\ UNCHANGED <<frame, intervals, interval, lastTrigger>>
  BY DEF FireIterate
<1>2. TimersPart /\ ControlPart /\ rate \in Nat
  BY Parts DEF ControlPart
<1>3. /\ next \in [Timeout -> Nat]
      /\ next["iterate"] >= timestamp["iterate"]
      /\ \A u \in Timeout : u # "iterate" => next[u] = timestamp[u]
  BY <1>2, TimeoutFacts DEF TimersPart
<1> HIDE DEF next
<1>4. /\ \A u \in armed : next[u] >= time'
      /\ again \in Seq(Timeout)
      /\ ToSet(again) = armed
      /\ Sorted(again, next)
      /\ Distinct(again)
  BY <1>1, <1>3, AgainFacts
<1> HIDE DEF again
<1>5. /\ timeouts' \in Seq(Timeout)
      /\ ToSet(timeouts') = armed'
      /\ Sorted(timeouts', next)
      /\ Distinct(timeouts')
  <2>1. CASE "external" \in armed
    <3>1. /\ RemoveTimeout(again, "external") \in Seq(Timeout)
          /\ ToSet(RemoveTimeout(again, "external")) = ToSet(again) \ {"external"}
          /\ Sorted(RemoveTimeout(again, "external"), next)
          /\ Distinct(RemoveTimeout(again, "external"))
      BY <1>3, <1>4, RemoveTimeoutFacts
    <3>2. QED
      BY <1>1, <1>4, <2>1, <3>1
  <2>2. CASE "external" \notin armed
    BY <1>1, <1>4, <2>2
  <2>3. QED
    BY <2>1, <2>2
<1>6. phase = "idle" /\ lastTrigger <= time'
  BY <1>1, DueFacts
<1>7. QueuePart' /\ phase' = "external"
  BY <1>1, <1>6, BeginPassStep
<1>8. TimersPart'
  <2>1. /\ timestamp' \in [Timeout -> Nat] /\ armed' \subseteq armed
        /\ \A u \in armed' : timestamp'[u] >= time'
    BY <1>1, <1>3, <1>4
  <2>2. /\ lastTrigger' \in Int /\ lastTrigger' <= time'
        /\ lastTrigger' <= timestamp'["external"]
    BY <1>1, <1>2, <1>3, <1>6, TimeoutFacts DEF TimersPart, TriggerPast
  <2>3. Sorted(timeouts', timestamp')
    BY <1>1, <1>5
  <2>4. QED
    BY <1>1, <1>5, <1>7, <2>1, <2>2, <2>3, DueStep
<1>9. ControlPart'
  BY <1>1, <1>2, <1>7, TimeoutFacts DEF ControlPart, IntervalsPending, frame
<1>10. QED
  BY <1>7, <1>8, <1>9, PartsNext

LEMMA FireIntervalStep ==
    ASSUME IInv, NEW msecs \in Msecs, NEW i \in Intervals, FireInterval(msecs, i)
    PROVE  IInv'
<1> DEFINE d == interval[i].msecs * TicksPerMsec
           next == [timestamp EXCEPT ![i] = @ + d]
           again == AddTimeout(Tail(timeouts), next, timestamp[i], i)
<1>1. /\ Due(msecs, i) /\ phase' = "script"
      /\ UNCHANGED <<external, frame, interval, left, iterating, lastTrigger>>
  BY DEF FireInterval
<1>2. /\ TimersPart /\ ControlPart /\ i \in Timeout /\ i # "external"
      /\ timestamp \in [Timeout -> Nat]
  BY Parts, TimeoutFacts DEF TimersPart
<1>3. /\ phase = "idle" /\ lastTrigger <= time'
      /\ Tail(timeouts) \in Seq(Timeout)
      /\ ToSet(Tail(timeouts)) = armed \ {i}
      /\ Sorted(Tail(timeouts), timestamp)
      /\ Distinct(Tail(timeouts))
      /\ \A u \in armed : timestamp[u] \in Nat /\ timestamp[u] >= time'
  BY <1>1, DueFacts
<1>4. CASE interval[i].repeat
  <2>1. timestamp' = next /\ timeouts' = again /\ UNCHANGED <<armed, intervals>>
    BY <1>4 DEF FireInterval
  <2>2. d \in Nat
    <3>1. interval[i].msecs \in Nat /\ TicksPerMsec \in Nat
      BY <1>2, TickAssumption DEF ControlPart
    <3>2. QED
      BY <3>1, ScaleFacts
  <2> HIDE DEF d
  <2>3. /\ next \in [Timeout -> Nat]
        /\ next[i] >= timestamp[i]
        /\ \A u \in Timeout : u # i => next[u] = timestamp[u]
    BY <1>2, <2>2
  <2> HIDE DEF next
  <2>4. /\ \A u \in armed : next[u] >= time'
        /\ again \in Seq(Timeout)
        /\ ToSet(again) = armed
        /\ Sorted(again, next)
        /\ Distinct(again)
    BY <1>1, <2>3, AgainFacts
  <2> HIDE DEF again
  <2>5. /\ lastTrigger' \in Int /\ lastTrigger' <= time'
        /\ lastTrigger' <= timestamp'["external"]
    BY <1>1, <1>2, <1>3, <2>1, <2>3, TimeoutFacts DEF TimersPart, TriggerPast
  <2>6. TimersPart'
    BY <1>1, <1>2, <2>1, <2>3, <2>4, <2>5, DueStep
  <2>7. QueuePart'
    BY <1>1, <1>3, <2>1, QueueStutter
  <2>8. ControlPart'
    BY <1>1, <1>2, <2>1 DEF ControlPart, IntervalsPending, frame
  <2>9. QED
    BY <2>6, <2>7, <2>8, PartsNext
<1>5. CASE ~interval[i].repeat
  <2>1. /\ timeouts' = Tail(timeouts) /\ timestamp' = timestamp
        /\ armed' = armed \ {i} /\ intervals' = intervals \ {i}
    BY <1>5 DEF FireInterval
  <2>2. /\ timeouts' \in Seq(Timeout) /\ timestamp' \in [Timeout -> Nat]
        /\ armed' \subseteq armed /\ ToSet(timeouts') = armed'
        /\ Sorted(timeouts', timestamp') /\ Distinct(timeouts')
        /\ \A u \in armed' : timestamp'[u] >= time'
    BY <1>2, <1>3, <2>1
  <2>3. /\ lastTrigger' \in Int /\ lastTrigger' <= time'
        /\ lastTrigger' <= timestamp'["external"]
    BY <1>1, <1>2, <1>3, <2>1 DEF TimersPart, TriggerPast
  <2>4. TimersPart'
    BY <1>1, <2>2, <2>3, DueStep
  <2>5. QueuePart'
    BY <1>1, <1>2, <1>3, <2>1, QueueStutter
  <2>6. ControlPart'
    BY <1>1, <1>2, <2>1 DEF ControlPart, IntervalsPending, frame
  <2>7. QED
    BY <2>4, <2>5, <2>6, PartsNext
<1>6. QED
  BY <1>4, <1>5

-----------------------------------------------------------------------------
(* Running external actions *)

LEMMA RunExternalStep == IInv /\ RunExternal => IInv'
<1> SUFFICES ASSUME IInv, RunExternal PROVE IInv'
  OBVIOUS
<1>1. /\ phase = "external" /\ left > 0
      /\ external' = Tail(external) /\ left' = left - 1
      /\ phase' \in {"external", "action"}
      /\ UNCHANGED <<clock, timers, frame, intervals, interval, iterating, lastTrigger>>
  BY DEF RunExternal
<1>2. QueuePart /\ ControlPart
  BY Parts
<1>3. /\ external \in Seq(Action) /\ left \in Nat /\ left <= Len(external)
      /\ Len(external) \in Nat /\ DOMAIN external = 1 .. Len(external)
  BY <1>2 DEF QueuePart, PassWithinQueue
<1>4. external # <<>>
  BY <1>1, <1>3
<1>5. /\ Tail(external) \in Seq(Action)
      /\ Len(Tail(external)) = Len(external) - 1
      /\ DOMAIN Tail(external) = 1 .. Len(external) - 1
      /\ \A k \in 1 .. Len(external) - 1 : Tail(external)[k] = external[k + 1]
  BY <1>3, <1>4
<1>6. ExternalPending'
  <2>1. SUFFICES ASSUME NEW k \in left .. Len(external) - 1,
                        Tail(external)[k].object # None
                 PROVE  "external" \in armed
    BY <1>1, <1>3, <1>5 DEF ExternalPending, timers
  <2>2. /\ k \in 1 .. Len(external) - 1
        /\ k + 1 \in left + 1 .. Len(external)
    BY <1>1, <1>3, <2>1
  <2>3. external[k + 1].object # None
    BY <1>5, <2>1, <2>2
  <2>4. QED
    BY <1>2, <2>2, <2>3 DEF QueuePart, ExternalPending
<1>7. FreshBehindPass'
  <2>1. SUFFICES ASSUME NEW k \in 1 .. Len(external) - 1, Tail(external)[k].fresh
                 PROVE  left - 1 < k
    BY <1>1, <1>5 DEF FreshBehindPass
  <2>2. k + 1 \in DOMAIN external /\ external[k + 1].fresh
    BY <1>3, <1>5, <2>1
  <2>3. left < k + 1
    BY <1>2, <2>2 DEF QueuePart, FreshBehindPass
  <2>4. QED
    BY <1>3, <2>3
<1>8. QueuePart'
  BY <1>1, <1>3, <1>5, <1>6, <1>7 DEF QueuePart, PassWithinQueue
<1>9. ControlPart'
  BY <1>1, <1>2 DEF ControlPart, IntervalsPending, timers, frame
<1>10. TimersPart'
  BY <1>1, TimersStutter
<1>11. QED
  BY <1>8, <1>9, <1>10, PartsNext

LEMMA EndActionStep == IInv /\ EndAction => IInv'
<1> SUFFICES ASSUME IInv, EndAction PROVE IInv'
  OBVIOUS
<1>1. /\ phase = "action" /\ phase' = "external"
      /\ UNCHANGED <<clock, timers, external, frame, intervals, interval, left,
                     iterating, lastTrigger>>
  BY DEF EndAction
<1>2. ControlPart'
  BY <1>1, Parts DEF ControlPart, IntervalsPending, timers, frame
<1>3. TimersPart'
  BY <1>1, TimersStutter
<1>4. QueuePart'
  BY <1>1, QueueStutter DEF timers
<1>5. QED
  BY <1>2, <1>3, <1>4, PartsNext

LEMMA EndPassStep == IInv /\ EndPass => IInv'
<1> SUFFICES ASSUME IInv, EndPass PROVE IInv'
  OBVIOUS
<1>1. /\ phase = "external" /\ left = 0 /\ phase' = "script" /\ iterating' = FALSE
      /\ external' = [k \in DOMAIN external |-> [external[k] EXCEPT !.fresh = FALSE]]
      /\ UNCHANGED <<clock, timers, frame, intervals, interval, left, lastTrigger>>
  BY DEF EndPass
<1>2. QueuePart /\ ControlPart
  BY Parts
<1>3. /\ external \in Seq(Action) /\ left \in Nat
      /\ Len(external) \in Nat /\ DOMAIN external = 1 .. Len(external)
  BY <1>2 DEF QueuePart
<1>4. \A k \in 1 .. Len(external) :
         /\ external'[k] \in Action
         /\ external'[k].object = external[k].object
         /\ external'[k].fresh = FALSE
  <2>1. TAKE k \in 1 .. Len(external)
  <2>2. PICK a \in Action : a = external[k]
    BY <1>3
  <2>3. external'[k] = [a EXCEPT !.fresh = FALSE]
    BY <1>1, <1>3, <2>2
  <2>4. /\ [a EXCEPT !.fresh = FALSE] \in Action
        /\ [a EXCEPT !.fresh = FALSE].object = a.object
        /\ [a EXCEPT !.fresh = FALSE].fresh = FALSE
    BY DEF Action
  <2>5. QED
    BY <2>2, <2>3, <2>4
<1>5. /\ external' \in Seq(Action) /\ Len(external') = Len(external)
      /\ DOMAIN external' = 1 .. Len(external)
  BY <1>1, <1>3, <1>4
<1>6. ExternalPending' /\ FreshBehindPass' /\ PassWithinQueue'
  BY <1>1, <1>2, <1>3, <1>4, <1>5
  DEF QueuePart, ExternalPending, FreshBehindPass, PassWithinQueue, timers
<1>7. QueuePart'
  BY <1>1, <1>3, <1>5, <1>6 DEF QueuePart
<1>8. ControlPart'
  BY <1>1, <1>2 DEF ControlPart, IntervalsPending, timers, frame
<1>9. TimersPart'
  BY <1>1, TimersStutter
<1>10. QED
  BY <1>7, <1>8, <1>9, PartsNext

LEMMA FinishStep == IInv /\ Finish => IInv'
<1> SUFFICES ASSUME IInv, Finish PROVE IInv'
  OBVIOUS
<1>1. /\ phase = "script" /\ phase' = "idle" /\ time' = target /\ target' = target
      /\ UNCHANGED <<timers, external, frame, intervals, interval, left, iterating,
                     lastTrigger>>
  BY DEF Finish
<1>2. TimersPart /\ ControlPart /\ TicksPerMsec \in Nat \ {0}
  BY Parts, TickAssumption
<1>3. TimeNearTarget' /\ IdleOnTarget' /\ StampsNearTarget'
  BY <1>1, <1>2 DEF TimersPart, TimeNearTarget, IdleOnTarget, StampsNearTarget, timers
<1>4. TriggerPast'
  BY <1>1, <1>2 DEF TimersPart, TriggerPast, TimeNearTarget, timers
<1>5. TimersPart'
  BY <1>1, <1>2, <1>3, <1>4 DEF TimersPart, TimeoutsSorted, ArmedIffPending, timers
<1>6. QueuePart'
  BY <1>1, QueueStutter DEF timers
<1>7. ControlPart'
  BY <1>1, <1>2 DEF ControlPart, IntervalsPending, timers, frame
<1>8. QED
  BY <1>5, <1>6, <1>7, PartsNext

LEMMA HandleInputStep == IInv /\ HandleInput => IInv'
<1> SUFFICES ASSUME IInv, HandleInput PROVE IInv'
  OBVIOUS
<1>1. /\ phase = "idle" /\ phase' = "script"
      /\ UNCHANGED <<clock, timers, external, frame, intervals, interval, left,
                     iterating, lastTrigger>>
  BY DEF HandleInput
<1>2. ControlPart'
  BY <1>1, Parts DEF ControlPart, IntervalsPending, timers, frame
<1>3. TimersPart'
  BY <1>1, TimersStutter
<1>4. QueuePart'
  BY <1>1, QueueStutter DEF timers
<1>5. QED
  BY <1>2, <1>3, <1>4, PartsNext

-----------------------------------------------------------------------------
(* What callbacks do *)

LEMMA AddExternalStep ==
    ASSUME IInv, NEW o \in Objects, AddExternal(o)
    PROVE  IInv'
<1> DEFINE start == IF initialized THEN Max({time, timestamp["external"] + Throttle})
                                   ELSE time
           new == [object |-> o, fresh |-> phase = "action"]
<1>1. /\ external' = Append(external, new)
      /\ UNCHANGED <<clock, frame, intervals, interval, control, lastTrigger>>
  BY DEF AddExternal
<1>2. TimersPart /\ QueuePart /\ ControlPart
  BY Parts
<1>3. start \in Nat /\ start >= time
  <2>1. time \in Nat /\ timestamp["external"] + Throttle \in Nat
    BY <1>2, TimeoutFacts, TickAssumption DEF TimersPart
  <2>2. QED
    BY <2>1, MaxPair
<1> HIDE DEF start
<1>4. TimersPart' /\ "external" \in armed' /\ armed' \cap Intervals = armed \cap Intervals
  <2>1. CASE "external" \in armed
    <3>1. UNCHANGED timers
      BY <2>1 DEF AddExternal
    <3>2. QED
      BY <1>1, <2>1, <3>1, TimersStutter DEF timers, control
  <2>2. CASE "external" \notin armed
    <3>1. /\ timestamp' = [timestamp EXCEPT !["external"] = start]
          /\ armed' = armed \cup {"external"}
          /\ timeouts' = AddTimeout(timeouts, timestamp', time, "external")
      BY <2>2 DEF AddExternal, start
    <3>2. TimersPart'
      BY <1>1, <1>3, <2>2, <3>1, TimeoutFacts, ScheduleStep DEF control
    <3>3. QED
      BY <3>1, <3>2, TimeoutFacts
  <2>3. QED
    BY <2>1, <2>2
<1>5. QueuePart'
  <2>1. new \in Action /\ external \in Seq(Action) /\ Len(external) \in Nat
    BY <1>2 DEF Action, QueuePart
  <2>2. new.fresh => phase \in {"external", "action"}
    OBVIOUS
  <2> HIDE DEF new
  <2>3. /\ external' \in Seq(Action)
        /\ Len(external') = Len(external) + 1
        /\ \A k \in 1 .. Len(external) : external'[k] = external[k]
        /\ external'[Len(external) + 1] = new
        /\ DOMAIN external' = 1 .. Len(external) + 1
    BY <1>1, <2>1
  <2>4. left' = left /\ phase' = phase /\ left \in Nat /\ left <= Len(external)
    BY <1>1, <1>2 DEF control, QueuePart, PassWithinQueue
  <2>5. ExternalPending' /\ PassWithinQueue'
    BY <1>4, <2>1, <2>3, <2>4 DEF ExternalPending, PassWithinQueue
  <2>6. ASSUME NEW k \in 1 .. Len(external) + 1, external'[k].fresh
        PROVE  left < k /\ phase \in {"external", "action"}
    <3>1. CASE k = Len(external) + 1
      BY <2>1, <2>2, <2>3, <2>4, <2>6, <3>1
    <3>2. CASE k # Len(external) + 1
      <4>1. k \in DOMAIN external /\ external[k].fresh
        BY <2>1, <2>3, <2>6, <3>2
      <4>2. QED
        BY <1>2, <4>1 DEF QueuePart, FreshBehindPass
    <3>3. QED
      BY <3>1, <3>2
  <2>7. FreshBehindPass'
    BY <2>3, <2>4, <2>6 DEF FreshBehindPass
  <2>8. QED
    BY <2>3, <2>4, <2>5, <2>7 DEF QueuePart
<1>6. ControlPart'
  BY <1>1, <1>2, <1>4 DEF ControlPart, IntervalsPending, frame, control
<1>7. QED
  BY <1>4, <1>5, <1>6, PartsNext

LEMMA RemoveExternalsStep ==
    ASSUME IInv, NEW o \in Objects, RemoveExternals(o)
    PROVE  IInv'
<1>1. /\ external' = [k \in DOMAIN external |->
                        IF external[k].object = o
                        THEN [external[k] EXCEPT !.object = None] ELSE external[k]]
      /\ UNCHANGED <<clock, timers, frame, intervals, interval, control, lastTrigger>>
  BY DEF RemoveExternals
<1>2. QueuePart /\ ControlPart
  BY Parts
<1>3. /\ external \in Seq(Action) /\ left \in Nat
      /\ Len(external) \in Nat /\ DOMAIN external = 1 .. Len(external)
  BY <1>2 DEF QueuePart
<1>4. \A k \in 1 .. Len(external) :
         /\ external'[k] \in Action
         /\ external'[k].object \in {None, external[k].object}
         /\ external'[k].fresh = external[k].fresh
  <2>1. TAKE k \in 1 .. Len(external)
  <2>2. PICK a \in Action : a = external[k]
    BY <1>3
  <2>3. external'[k] = IF a.object = o THEN [a EXCEPT !.object = None] ELSE a
    BY <1>1, <1>3, <2>2
  <2>4. /\ [a EXCEPT !.object = None] \in Action
        /\ [a EXCEPT !.object = None].object = None
        /\ [a EXCEPT !.object = None].fresh = a.fresh
    BY DEF Action
  <2>5. QED
    BY <2>2, <2>3, <2>4
<1>5. /\ external' \in Seq(Action) /\ Len(external') = Len(external)
      /\ DOMAIN external' = 1 .. Len(external)
  BY <1>1, <1>3, <1>4
<1>6. ExternalPending'
  <2>1. SUFFICES ASSUME NEW k \in left + 1 .. Len(external), external'[k].object # None
                 PROVE  "external" \in armed
    BY <1>1, <1>5 DEF ExternalPending, timers, control
  <2>2. external[k].object # None
    BY <1>3, <1>4, <2>1
  <2>3. QED
    BY <1>2, <2>2 DEF QueuePart, ExternalPending
<1>7. FreshBehindPass' /\ PassWithinQueue'
  BY <1>1, <1>2, <1>3, <1>4, <1>5 DEF QueuePart, FreshBehindPass, PassWithinQueue, control
<1>8. QueuePart'
  BY <1>1, <1>3, <1>5, <1>6, <1>7 DEF QueuePart, control
<1>9. ControlPart'
  BY <1>1, <1>2 DEF ControlPart, IntervalsPending, timers, frame, control
<1>10. TimersPart'
  BY <1>1, TimersStutter DEF control
<1>11. QED
  BY <1>8, <1>9, <1>10, PartsNext

LEMMA NewIntervalStep ==
    ASSUME IInv, NEW i \in Intervals, NEW msecs \in Periods, NEW repeat \in BOOLEAN,
           NewInterval(i, msecs, repeat)
    PROVE  IInv'
<1> DEFINE stamp == time + msecs * TicksPerMsec
<1>1. /\ i \notin intervals
      /\ interval' = [interval EXCEPT ![i] = [msecs |-> msecs, repeat |-> repeat]]
      /\ timestamp' = [timestamp EXCEPT ![i] = stamp]
      /\ armed' = armed \cup {i}
      /\ timeouts' = AddTimeout(timeouts, timestamp', time, i)
      /\ intervals' = intervals \cup {i}
      /\ UNCHANGED <<clock, external, frame, control, lastTrigger>>
  BY DEF NewInterval
<1>2. TimersPart /\ ControlPart /\ msecs \in Nat /\ i \in Timeout /\ i # "external"
  BY Parts, TickAssumption, TimeoutFacts
<1>3. stamp \in Nat /\ stamp >= time
  <2>1. time \in Nat /\ msecs * TicksPerMsec \in Nat
    BY <1>2, TickAssumption, ScaleFacts DEF TimersPart
  <2>2. QED
    BY <2>1
<1> HIDE DEF stamp
<1>4. i \notin armed
  BY <1>1, <1>2 DEF ControlPart, IntervalsPending
<1>5. TimersPart'
  BY <1>1, <1>2, <1>3, <1>4, ScheduleStep DEF control
<1>6. QueuePart'
  BY <1>1, QueueStutter DEF control
<1>7. ControlPart'
  <2>1. interval' \in [Intervals -> [msecs : Nat, repeat : BOOLEAN]]
    BY <1>1, <1>2 DEF ControlPart
  <2>2. IntervalsPending'
    BY <1>1, <1>2 DEF ControlPart, IntervalsPending
  <2>3. QED
    BY <1>1, <1>2, <2>1, <2>2 DEF ControlPart, frame, control
<1>8. QED
  BY <1>5, <1>6, <1>7, PartsNext

LEMMA RemoveIntervalStep ==
    ASSUME IInv, NEW i \in Intervals, RemoveInterval(i)
    PROVE  IInv'
<1>1. /\ intervals' = intervals \ {i}
      /\ timeouts' = RemoveTimeout(timeouts, i)
      /\ armed' = armed \ {i}
      /\ UNCHANGED <<clock, timestamp, external, frame, interval, control, lastTrigger>>
  BY DEF RemoveInterval
<1>2. ControlPart /\ i # "external"
  BY Parts, TimeoutFacts
<1>3. TimersPart'
  BY <1>1, UnscheduleStep DEF control
<1>4. QueuePart'
  BY <1>1, <1>2, QueueStutter DEF control
<1>5. ControlPart'
  BY <1>1, <1>2 DEF ControlPart, IntervalsPending, frame, control
<1>6. QED
  BY <1>3, <1>4, <1>5, PartsNext

LEMMA InitializeStep ==
    ASSUME IInv, NEW r \in FramePeriods, Initialize(r)
    PROVE  IInv'
<1>1. /\ initialized' = TRUE /\ rate' = r
      /\ UNCHANGED <<clock, timestamp, external, intervals, interval, aborted, control,
                     lastTrigger>>
  BY DEF Initialize
<1>2. ControlPart /\ r \in Nat
  BY Parts, TickAssumption
<1>3. /\ TimersPart' /\ armed' \in {armed, armed \ {"iterate"}}
  <2>1. CASE initialized /\ "iterate" \in armed
    <3>1. timeouts' = RemoveTimeout(timeouts, "iterate") /\ armed' = armed \ {"iterate"}
      BY <2>1 DEF Initialize
    <3>2. QED
      BY <1>1, <3>1, UnscheduleStep DEF control
  <2>2. CASE ~(initialized /\ "iterate" \in armed)
    <3>1. UNCHANGED <<timeouts, armed>>
      BY <2>2 DEF Initialize
    <3>2. QED
      BY <1>1, <3>1, TimersStutter DEF control, timers
  <2>3. QED
    BY <2>1, <2>2
<1>4. QueuePart'
  BY <1>1, <1>3, TimeoutFacts, QueueStutter DEF control
<1>5. ControlPart'
  BY <1>1, <1>2, <1>3, TimeoutFacts DEF ControlPart, IntervalsPending, control
<1>6. QED
  BY <1>3, <1>4, <1>5, PartsNext

LEMMA StartTickingStep == IInv /\ StartTicking => IInv'
<1> SUFFICES ASSUME IInv, StartTicking PROVE IInv'
  OBVIOUS
<1> DEFINE stamp == time + rate \div 10
<1>1. /\ "iterate" \notin armed
      /\ timestamp' = [timestamp EXCEPT !["iterate"] = stamp]
      /\ armed' = armed \cup {"iterate"}
      /\ timeouts' = AddTimeout(timeouts, timestamp', time, "iterate")
      /\ UNCHANGED <<clock, external, frame, intervals, interval, control, lastTrigger>>
  BY DEF StartTicking
<1>2. TimersPart /\ ControlPart
  BY Parts
<1>3. stamp \in Nat /\ stamp >= time
  <2>1. time \in Nat /\ rate \in Nat
    BY <1>2 DEF TimersPart, ControlPart
  <2>2. rate \div 10 \in Nat
    BY <2>1
  <2>3. QED
    BY <2>1, <2>2
<1> HIDE DEF stamp
<1>4. TimersPart'
  BY <1>1, <1>3, TimeoutFacts, ScheduleStep DEF control
<1>5. QueuePart'
  BY <1>1, QueueStutter DEF control
<1>6. ControlPart'
  BY <1>1, <1>2, TimeoutFacts DEF ControlPart, IntervalsPending, frame, control
<1>7. QED
  BY <1>4, <1>5, <1>6, PartsNext

LEMMA AbortStep == IInv /\ Abort => IInv'
<1> SUFFICES ASSUME IInv, Abort PROVE IInv'
  OBVIOUS
<1>1. /\ aborted' = TRUE
      /\ UNCHANGED <<clock, timers, external, initialized, rate, intervals, interval,
                     control, lastTrigger>>
  BY DEF Abort
<1>2. ControlPart'
  BY <1>1, Parts DEF ControlPart, IntervalsPending, timers, control
<1>3. TimersPart'
  BY <1>1, TimersStutter DEF control
<1>4. QueuePart'
  BY <1>1, QueueStutter DEF timers, control
<1>5. QED
  BY <1>2, <1>3, <1>4, PartsNext

-----------------------------------------------------------------------------

LEMMA InitIInv == Init => IInv
<1> SUFFICES ASSUME Init PROVE IInv
  OBVIOUS
<1>1. Throttle \in Nat /\ TicksPerMsec \in Nat \ {0}
  BY TickAssumption
<1>2. /\ timeouts = <<>> /\ external = <<>> /\ armed = {} /\ left = 0
      /\ time = 0 /\ target = 0 /\ lastTrigger = -Throttle /\ phase = "idle"
      /\ timestamp \in [Timeout -> Nat] /\ timestamp["external"] = 0
  BY TimeoutFacts DEF Init
<1>3. ToSet(timeouts) = {} /\ Sorted(timeouts, timestamp) /\ Distinct(timeouts)
  BY <1>2 DEF ToSet, Sorted, Distinct
<1>4. StampsNearTarget /\ TriggerPast /\ TimeNearTarget /\ IdleOnTarget
  BY <1>1, <1>2, <1>3 DEF StampsNearTarget, TriggerPast, TimeNearTarget, IdleOnTarget
<1>5. TimersPart
  BY <1>1, <1>2, <1>3, <1>4 DEF TimersPart, TimeoutsSorted, ArmedIffPending
<1>6. QueuePart
  BY <1>2 DEF QueuePart, ExternalPending, PassWithinQueue, FreshBehindPass
<1>7. ControlPart
  BY DEF Init, ControlPart, IntervalsPending
<1>8. QED
  BY <1>5, <1>6, <1>7, Parts

LEMMA StutterStep == IInv /\ UNCHANGED vars => IInv'
<1> SUFFICES ASSUME IInv, UNCHANGED vars PROVE IInv'
  OBVIOUS
<1>1. TimersPart'
  BY TimersStutter DEF vars, clock, timers
<1>2. QueuePart'
  BY QueueStutter DEF vars
<1>3. ControlPart'
  BY Parts DEF vars, ControlPart, IntervalsPending
<1>4. QED
  BY <1>1, <1>2, <1>3, PartsNext

LEMMA NextIInv == IInv /\ [Next]_vars => IInv'
<1> SUFFICES ASSUME IInv, [Next]_vars PROVE IInv'
  OBVIOUS
<1>1. ASSUME NEW msecs \in Msecs, Advance(msecs) PROVE IInv'
  <2>1. CASE AdvanceQuietly(msecs)
    BY <2>1, AdvanceQuietlyStep
  <2>2. CASE FireExternal(msecs)
    BY <2>2, FireExternalStep
  <2>3. CASE FireIterate(msecs)
    BY <2>3, FireIterateStep
  <2>4. ASSUME NEW i \in Intervals, FireInterval(msecs, i) PROVE IInv'
    BY <2>4, FireIntervalStep
  <2>5. QED
    BY <1>1, <2>1, <2>2, <2>3, <2>4 DEF Advance
<1>2. CASE HandleInput
  BY <1>2, HandleInputStep
<1>3. CASE Proceed
  BY <1>3, RunExternalStep, EndActionStep, EndPassStep, FinishStep DEF Proceed
<1>4. CASE Callback
  <2>1. ASSUME NEW o \in Objects, AddExternal(o) \/ RemoveExternals(o) PROVE IInv'
    BY <2>1, AddExternalStep, RemoveExternalsStep
  <2>2. ASSUME NEW i \in Intervals, RemoveInterval(i) PROVE IInv'
    BY <2>2, RemoveIntervalStep
  <2>3. ASSUME NEW i \in Intervals, NEW msecs \in Periods, NEW repeat \in BOOLEAN,
               NewInterval(i, msecs, repeat)
        PROVE  IInv'
    BY <2>3, NewIntervalStep
  <2>4. ASSUME NEW r \in FramePeriods, Initialize(r) PROVE IInv'
    BY <2>4, InitializeStep
  <2>5. CASE StartTicking
    BY <2>5, StartTickingStep
  <2>6. CASE Abort
    BY <2>6, AbortStep
  <2>7. QED
    BY <1>4, <2>1, <2>2, <2>3, <2>4, <2>5, <2>6, Zenon DEF Callback
<1>5. CASE UNCHANGED vars
  BY <1>5, StutterStep
<1>6. QED
  BY <1>1, <1>2, <1>3, <1>4, <1>5 DEF Next

\* The clock, the list of timeouts, the intervals and the external actions agree
\* after any sequence of advances, callbacks and calls from them: whatever the
\* functions above may rely on when they are entered.
THEOREM Invariance == Spec => []IInv
<1>1. QED
  BY InitIInv, NextIInv, PTL DEF Spec

\* Type correctness of the clock.
THEOREM TypeCorrect == Spec => []TypeOK
<1>1. IInv => TypeOK
  BY DEF IInv
<1>2. QED
  BY <1>1, Invariance, PTL

\* "list of events, sorted by timestamp": whatever callbacks do to timers, the
\* first link of the list is the next event.
THEOREM AlwaysSorted == Spec => []TimeoutsSorted
<1>1. IInv => TimeoutsSorted
  BY DEF IInv
<1>2. QED
  BY <1>1, Invariance, PTL

\* Every timeout with a callback is in the list exactly once, so nothing that
\* was scheduled is lost or runs twice, and nothing without a callback is
\* called.
THEOREM AlwaysPending == Spec => []ArmedIffPending
<1>1. IInv => ArmedIffPending
  BY DEF IInv
<1>2. QED
  BY <1>1, Invariance, PTL

\* Scripts can clear exactly the intervals that are going to fire.
THEOREM IntervalsClearable == Spec => []IntervalsPending
<1>1. IInv => IntervalsPending
  BY DEF IInv
<1>2. QED
  BY <1>1, Invariance, PTL

\* No external action waits without the timeout that will run it.
THEOREM NoActionForgotten == Spec => []ExternalPending
<1>1. IInv => ExternalPending
  BY DEF IInv
<1>2. QED
  BY <1>1, Invariance, PTL

\* swfdec_player_perform_external_actions never pops from an empty queue.
THEOREM NeverPopsEmpty == Spec => []PassWithinQueue
<1>1. IInv => PassWithinQueue
  BY DEF IInv
<1>2. QED
  BY <1>1, Invariance, PTL

\* Between two advances no pending timeout is a whole msec late.
THEOREM AlwaysOnTime == Spec => []NeverLate
<1>1. IInv => NeverLate
  BY DEF IInv, NeverLate, StampsNearTarget, IdleOnTarget
<1>2. QED
  BY <1>1, Invariance, PTL

\* The end of an advance is never before the end of the one before.
THEOREM AdvancesForward == Spec => TimeForward
<1>1. IInv /\ [Next]_vars => [target' >= target]_vars
  <2> SUFFICES ASSUME IInv, Next PROVE target' >= target
    OBVIOUS
  <2>1. target \in Nat
    BY DEF IInv, TypeOK
  <2>2. ASSUME NEW msecs \in Msecs, Advance(msecs) PROVE target' >= target
    <3>1. CASE AdvanceQuietly(msecs)
      <4>1. CanAdvance(msecs) /\ target' = Goal(msecs) /\ phase = "idle"
        BY <3>1 DEF AdvanceQuietly, CanAdvance
      <4>2. Goal(msecs) >= time /\ time = target
        BY <4>1, GoalFacts DEF IInv, IdleOnTarget
      <4>3. QED
        BY <4>1, <4>2
    <3>2. ASSUME NEW t, Due(msecs, t) PROVE target' >= target
      BY <3>2, DueFacts
    <3>3. CASE FireExternal(msecs)
      BY <3>2, <3>3 DEF FireExternal
    <3>4. CASE FireIterate(msecs)
      BY <3>2, <3>4 DEF FireIterate
    <3>5. ASSUME NEW i \in Intervals, FireInterval(msecs, i) PROVE target' >= target
      BY <3>2, <3>5 DEF FireInterval
    <3>6. QED
      BY <2>2, <3>1, <3>3, <3>4, <3>5 DEF Advance
  <2>3. CASE HandleInput
    BY <2>1, <2>3 DEF HandleInput, clock
  <2>4. CASE Proceed
    BY <2>1, <2>4 DEF Proceed, RunExternal, EndAction, EndPass, Finish, clock
  <2>5. CASE Callback
    <3>1. UNCHANGED target
      BY <2>5 DEF Callback, AddExternal, RemoveExternals, RemoveInterval, NewInterval,
                  Initialize, StartTicking, Abort, clock
    <3>2. QED
      BY <2>1, <3>1
  <2>6. QED
    BY <2>2, <2>3, <2>4, <2>5 DEF Next
<1>2. QED
  BY <1>1, Invariance, PTL DEF Spec, TimeForward

\* An action that is queued by an external action waits for the next pass.
THEOREM PassesAreSnapshots == Spec => NoActionInItsOwnPass
<1>1. IInv /\ [Next]_vars =>
         [phase = "external" /\ phase' = "action" => ~Head(external).fresh]_vars
  <2> SUFFICES ASSUME IInv, Next, phase = "external", phase' = "action"
               PROVE  ~Head(external).fresh
    OBVIOUS
  <2>1. RunExternal
    BY Zenon DEF Next, Advance, AdvanceQuietly, FireExternal, FireIterate, FireInterval, Due,
           CanAdvance, HandleInput, Proceed, EndAction, EndPass, Finish, Callback,
           AddExternal, RemoveExternals, RemoveInterval, NewInterval, InCallback,
           Initialize, StartTicking, Abort, control
  <2>2. /\ external \in Seq(Action) /\ left \in Nat /\ left > 0 /\ left <= Len(external)
        /\ FreshBehindPass
    BY <2>1, Parts DEF RunExternal, QueuePart, PassWithinQueue
  <2>3. Head(external) = external[1] /\ 1 \in DOMAIN external
    BY <2>2
  <2>4. ~external[1].fresh
    BY <2>2, <2>3 DEF FreshBehindPass
  <2>5. QED
    BY <2>3, <2>4
<1>2. QED
  BY <1>1, Invariance, PTL DEF Spec, NoActionInItsOwnPass

\* A player that is initialized leaves at least Throttle ticks between two
\* runs of the external timeout.
THEOREM AlwaysThrottled == Spec => Throttled
<1> DEFINE Armed == initialized /\ "external" \notin armed /\ "external" \in armed'
                       => timestamp'["external"] >= lastTrigger + Throttle
<1>1. IInv /\ [Next]_vars => [Armed]_vars
  <2> SUFFICES ASSUME IInv, Next, initialized, "external" \notin armed,
                      "external" \in armed'
               PROVE  timestamp'["external"] >= lastTrigger + Throttle
    OBVIOUS
  <2>1. PICK o \in Objects : AddExternal(o)
    <3>1. ASSUME NEW msecs \in Msecs, Advance(msecs) PROVE armed' \subseteq armed
      BY <3>1 DEF Advance, AdvanceQuietly, FireExternal, FireIterate, FireInterval, timers
    <3>2. CASE HandleInput \/ Proceed
      BY <3>2 DEF HandleInput, Proceed, RunExternal, EndAction, EndPass, Finish, timers
    <3>3. CASE Callback
      <4>1. \A o \in Objects : RemoveExternals(o) => armed' = armed
        BY DEF RemoveExternals, timers
      <4>2. \A i \in Intervals : RemoveInterval(i) => armed' \subseteq armed
        BY DEF RemoveInterval
      <4>3. \A i \in Intervals, msecs \in Periods, repeat \in BOOLEAN :
               NewInterval(i, msecs, repeat) => "external" \notin armed'
        BY TimeoutFacts DEF NewInterval
      <4>4. \A r \in FramePeriods : Initialize(r) => armed' \subseteq armed
        BY DEF Initialize
      <4>5. StartTicking => "external" \notin armed'
        BY TimeoutFacts DEF StartTicking
      <4>6. Abort => armed' = armed
        BY DEF Abort, timers
      <4>7. QED
        BY <3>3, <4>1, <4>2, <4>3, <4>4, <4>5, <4>6, Zenon DEF Callback
    <3>4. QED
      BY <3>1, <3>2, <3>3 DEF Next
  <2>2. /\ timestamp' = [timestamp EXCEPT !["external"] =
                           Max({time, timestamp["external"] + Throttle})]
    BY <2>1 DEF AddExternal
  <2>3. /\ timestamp \in [Timeout -> Nat] /\ timestamp["external"] \in Nat
        /\ time \in Nat /\ Throttle \in Nat /\ lastTrigger \in Int
        /\ lastTrigger <= timestamp["external"]
    BY TimeoutFacts, TickAssumption DEF IInv, TypeOK, TriggerPast
  <2>4. timestamp'["external"] = Max({time, timestamp["external"] + Throttle})
    BY <2>2, <2>3, TimeoutFacts
  <2>5. timestamp'["external"] >= timestamp["external"] + Throttle
    BY <2>3, <2>4, MaxPair
  <2>6. timestamp'["external"] \in Int
    BY <2>3, <2>4, MaxPair
  <2>7. QED
    BY <2>3, <2>5, <2>6
<1>2. QED
  BY <1>1, Invariance, PTL DEF Spec, Throttled
-----------------------------------------------------------------------------
(* No timer overtakes one that was set before it *)

\* t comes after all other timeouts that are due at the same time.
LastOfItsTime(list, stamp, t) ==
    \A k, m \in DOMAIN list : list[m] = t /\ stamp[list[k]] = stamp[t] => k <= m

\* The loop in swfdec_player_add_timeout passes every timeout with the time of
\* the new one before it stops.
LEMMA AddTimeoutIsLast ==
    ASSUME NEW S, NEW list \in Seq(S), NEW t \in S, NEW stamp \in [S -> Nat],
           NEW now \in Nat, Sorted(list, stamp), t \notin ToSet(list), stamp[t] >= now
    PROVE  LastOfItsTime(AddTimeout(list, stamp, now, t), stamp, t)
<1> DEFINE n == Len(list)
           p == InsertPosition(list, stamp, t)
           new == InsertAt(list, p, t)
<1>1. AddTimeout(list, stamp, now, t) = new
  BY DEF AddTimeout
<1>2. n \in Nat /\ DOMAIN list = 1 .. n /\ stamp[t] \in Nat
  OBVIOUS
<1>3. \A i \in 1 .. n : stamp[list[i]] \in Nat /\ list[i] # t
  BY DEF ToSet
<1>4. /\ p \in 1 .. n + 1
      /\ \A i \in 1 .. n : i < p <=> stamp[list[i]] <= stamp[t]
  BY InsertPositionFacts
<1> HIDE DEF p
<1>5. /\ new \in Seq(S) /\ Len(new) = n + 1
      /\ \A i \in 1 .. n + 1 :
            new[i] = IF i < p THEN list[i] ELSE IF i = p THEN t ELSE list[i - 1]
  BY <1>4, InsertAtFacts
<1> HIDE DEF new
<1>6. DOMAIN new = 1 .. n + 1
  BY <1>5
<1> HIDE DEF n
<1>7. ASSUME NEW k \in 1 .. n + 1, NEW m \in 1 .. n + 1,
             new[m] = t, stamp[new[k]] = stamp[t]
      PROVE  k <= m
  <2>1. m = p
    <3>1. CASE m < p
      <4>1. m \in 1 .. n /\ new[m] = list[m]
        BY <1>2, <1>4, <1>5, <3>1
      <4>2. QED
        BY <1>3, <1>7, <4>1
    <3>2. CASE m > p
      <4>1. m - 1 \in 1 .. n /\ new[m] = list[m - 1]
        BY <1>2, <1>4, <1>5, <3>2
      <4>2. QED
        BY <1>3, <1>7, <4>1
    <3>3. QED
      BY <1>2, <1>4, <3>1, <3>2
  <2>2. ASSUME k > p PROVE FALSE
    <3>1. k - 1 \in 1 .. n /\ new[k] = list[k - 1] /\ ~(k - 1 < p)
      BY <1>2, <1>4, <1>5, <2>2
    <3>2. stamp[list[k - 1]] # stamp[t]
      BY <1>2, <1>3, <1>4, <3>1
    <3>3. QED
      BY <1>7, <3>1, <3>2
  <2>3. QED
    BY <1>2, <1>4, <2>1, <2>2
<1>8. QED
  BY <1>1, <1>6, <1>7 DEF LastOfItsTime

\* Removing a timeout leaves the order of the others alone.
LEMMA RemoveTimeoutKeepsLast ==
    ASSUME NEW S, NEW list \in Seq(S), NEW t, NEW u, NEW stamp,
           LastOfItsTime(list, stamp, t)
    PROVE  LastOfItsTime(RemoveTimeout(list, u), stamp, t)
<1> DEFINE n == Len(list)
           holds == {i \in 1 .. Len(list) : list[i] = u}
           p == Min(holds)
           new == RemoveAt(list, p)
<1>1. n \in Nat /\ DOMAIN list = 1 .. n
  OBVIOUS
<1>2. CASE holds = {}
  <2>1. RemoveTimeout(list, u) = list
    BY <1>2 DEF RemoveTimeout, RemoveFirst
  <2>2. QED
    BY <2>1
<1>3. CASE holds # {}
  <2>1. RemoveTimeout(list, u) = new
    BY <1>3 DEF RemoveTimeout, RemoveFirst, SelectInSeq
  <2>2. p \in 1 .. n
    <3>1. holds \in SUBSET (1 .. n)
      OBVIOUS
    <3> HIDE DEF holds
    <3>2. QED
      BY <1>1, <1>3, <3>1, MinFacts
  <2> HIDE DEF p
  <2>3. /\ new \in Seq(S) /\ Len(new) = n - 1
        /\ \A i \in 1 .. n - 1 : new[i] = IF i < p THEN list[i] ELSE list[i + 1]
    BY <2>2, RemoveAtFacts
  <2> HIDE DEF new, holds, n
  <2>4. DOMAIN new = 1 .. n - 1
    BY <2>3
  <2> DEFINE old(i) == IF i < p THEN i ELSE i + 1
  <2>5. \A i \in 1 .. n - 1 : old(i) \in 1 .. n /\ new[i] = list[old(i)]
    BY <1>1, <2>2, <2>3
  <2>6. \A i, j \in 1 .. n - 1 : old(i) <= old(j) => i <= j
    BY <1>1, <2>2
  <2> HIDE DEF old
  <2>7. ASSUME NEW k \in 1 .. n - 1, NEW m \in 1 .. n - 1,
               new[m] = t, stamp[new[k]] = stamp[t]
        PROVE  k <= m
    <3>1. /\ old(k) \in DOMAIN list /\ old(m) \in DOMAIN list
          /\ new[k] = list[old(k)] /\ new[m] = list[old(m)]
      BY <1>1, <2>5
    <3>2. old(k) <= old(m)
      BY <2>7, <3>1 DEF LastOfItsTime
    <3>3. QED
      BY <2>6, <3>2
  <2>8. QED
    BY <2>1, <2>4, <2>7 DEF LastOfItsTime
<1>4. QED
  BY <1>2, <1>3

\* What NewTimeoutIsLast says of one step.
NewIsLast ==
    \A k, m \in DOMAIN timeouts' :
        LET t == timeouts'[m]
        IN  (/\ t \notin armed \/ timestamp'[t] # timestamp[t]
             /\ timestamp'[timeouts'[k]] = timestamp'[t]) => k <= m

\* Only the timeouts that the step set are of interest.
LEMMA NoneIsNew ==
    ASSUME ToSet(timeouts') \subseteq armed, timestamp' = timestamp
    PROVE  NewIsLast
BY DEF ToSet, NewIsLast

LEMMA OneIsNew ==
    ASSUME NEW t, LastOfItsTime(timeouts', timestamp', t),
           \A u \in ToSet(timeouts') :
               u # t => u \in armed /\ timestamp'[u] = timestamp[u]
    PROVE  NewIsLast
<1>1. SUFFICES ASSUME NEW k \in DOMAIN timeouts', NEW m \in DOMAIN timeouts',
                      \/ timeouts'[m] \notin armed
                      \/ timestamp'[timeouts'[m]] # timestamp[timeouts'[m]],
                      timestamp'[timeouts'[k]] = timestamp'[timeouts'[m]]
               PROVE  k <= m
  BY DEF NewIsLast
<1>2. timeouts'[m] \in ToSet(timeouts')
  BY DEF ToSet
<1>3. timeouts'[m] = t
  BY <1>1, <1>2
<1>4. QED
  BY <1>1, <1>3 DEF LastOfItsTime

\* Scheduling a timeout that was not pending.
LEMMA ScheduleIsLast ==
    ASSUME IInv, IInv', NEW t \in Timeout, t \notin armed, timestamp'[t] >= time,
           \A u \in Timeout : u # t => timestamp'[u] = timestamp[u],
           timeouts' = AddTimeout(timeouts, timestamp', time, t),
           armed' = armed \cup {t}
    PROVE  NewIsLast
<1>1. /\ timeouts \in Seq(Timeout) /\ Sorted(timeouts, timestamp)
      /\ ToSet(timeouts) = armed /\ armed \subseteq Timeout /\ time \in Nat
  BY DEF IInv, TypeOK, TimeoutsSorted, ArmedIffPending
<1>2. timestamp' \in [Timeout -> Nat] /\ ToSet(timeouts') = armed'
  BY DEF IInv, TypeOK, ArmedIffPending
<1>3. Sorted(timeouts, timestamp')
  <2>1. \A i \in DOMAIN timeouts : timestamp'[timeouts[i]] = timestamp[timeouts[i]]
    BY <1>1 DEF ToSet
  <2>2. QED
    BY <1>1, <2>1 DEF Sorted
<1>4. LastOfItsTime(timeouts', timestamp', t)
  BY <1>1, <1>2, <1>3, AddTimeoutIsLast
<1>5. QED
  BY <1>1, <1>2, <1>4, OneIsNew

\* A timeout that runs and adds itself again for a later time.
LEMMA AgainIsLast ==
    ASSUME IInv, NEW msecs \in Msecs, NEW t \in Timeout, Due(msecs, t),
           NEW next \in [Timeout -> Nat], next[t] >= timestamp[t],
           \A u \in Timeout : u # t => next[u] = timestamp[u]
    PROVE  LastOfItsTime(AddTimeout(Tail(timeouts), next, timestamp[t], t), next, t)
<1>1. /\ Tail(timeouts) \in Seq(Timeout)
      /\ ToSet(Tail(timeouts)) = armed \ {t}
      /\ Sorted(Tail(timeouts), timestamp)
  BY DueFacts
<1>2. armed \subseteq Timeout /\ timestamp[t] \in Nat
  BY TypeFacts DEF IInv, TypeOK
<1>3. Sorted(Tail(timeouts), next)
  <2> DEFINE list == Tail(timeouts)
  <2>1. \A i \in DOMAIN list : next[list[i]] = timestamp[list[i]]
    <3> HIDE DEF list
    <3>1. ToSet(list) = armed \ {t}
      BY <1>1 DEF list
    <3>2. QED
      BY <1>2, <3>1 DEF ToSet
  <2> HIDE DEF list
  <2>2. Sorted(list, timestamp)
    BY <1>1 DEF list
  <2>3. Sorted(list, next)
    BY <2>1, <2>2 DEF Sorted
  <2>4. QED
    BY <2>3 DEF list
<1>4. t \notin ToSet(Tail(timeouts))
  BY <1>1
<1>5. QED
  BY <1>1, <1>2, <1>3, <1>4, AddTimeoutIsLast

\* An iteration adds its own timeout again before it takes over the work of the
\* external one.
LEMMA IterateIsLast ==
    ASSUME IInv, IInv', NEW msecs \in Msecs, FireIterate(msecs)
    PROVE  NewIsLast
<1> DEFINE next == [timestamp EXCEPT !["iterate"] = @ + rate]
           again == AddTimeout(Tail(timeouts), next, timestamp["iterate"], "iterate")
<1>1. /\ Due(msecs, "iterate")
      /\ timestamp' = next
      /\ timeouts' = IF "external" \in armed THEN RemoveTimeout(again, "external")
                                             ELSE again
      /\ armed' = armed \ {"external"}
  BY DEF FireIterate
<1>2. /\ timestamp \in [Timeout -> Nat] /\ rate \in Nat /\ armed \subseteq Timeout
      /\ ToSet(timeouts') = armed'
  BY DEF IInv, TypeOK, ArmedIffPending
<1>3. /\ next \in [Timeout -> Nat]
      /\ next["iterate"] >= timestamp["iterate"]
      /\ \A u \in Timeout : u # "iterate" => next[u] = timestamp[u]
  BY <1>2, TimeoutFacts
<1> HIDE DEF next
<1>4. LastOfItsTime(again, next, "iterate")
  BY <1>1, <1>3, TimeoutFacts, AgainIsLast
<1>5. again \in Seq(Timeout)
  BY <1>1, <1>3, AgainFacts
<1> HIDE DEF again
<1>6. LastOfItsTime(timeouts', next, "iterate")
  <2>1. CASE "external" \in armed
    <3>1. LastOfItsTime(RemoveTimeout(again, "external"), next, "iterate")
      BY <1>4, <1>5, RemoveTimeoutKeepsLast
    <3>2. QED
      BY <1>1, <2>1, <3>1
  <2>2. CASE "external" \notin armed
    BY <1>1, <1>4, <2>2
  <2>3. QED
    BY <2>1, <2>2
<1>7. LastOfItsTime(timeouts', timestamp', "iterate")
  BY <1>1, <1>6
<1>8. \A u \in ToSet(timeouts') :
          u # "iterate" => u \in armed /\ timestamp'[u] = timestamp[u]
  BY <1>1, <1>2, <1>3
<1>9. QED
  BY <1>7, <1>8, OneIsNew

\* An interval that repeats adds itself again, any other leaves the list.
LEMMA IntervalIsLast ==
    ASSUME IInv, IInv', NEW msecs \in Msecs, NEW i \in Intervals, FireInterval(msecs, i)
    PROVE  NewIsLast
<1> DEFINE d == interval[i].msecs * TicksPerMsec
           next == [timestamp EXCEPT ![i] = @ + d]
           again == AddTimeout(Tail(timeouts), next, timestamp[i], i)
<1>1. /\ Due(msecs, i) /\ i \in Timeout
      /\ timestamp \in [Timeout -> Nat] /\ armed \subseteq Timeout
      /\ ToSet(timeouts') = armed'
      /\ interval[i].msecs \in Nat
  BY TimeoutFacts DEF FireInterval, IInv, TypeOK, ArmedIffPending
<1>2. CASE interval[i].repeat
  <2>1. timestamp' = next /\ timeouts' = again /\ armed' = armed
    BY <1>2 DEF FireInterval
  <2>2. d \in Nat
    BY <1>1, TickAssumption, ScaleFacts
  <2> HIDE DEF d
  <2>3. /\ next \in [Timeout -> Nat]
        /\ next[i] >= timestamp[i]
        /\ \A u \in Timeout : u # i => next[u] = timestamp[u]
    BY <1>1, <2>2
  <2> HIDE DEF next
  <2>4. LastOfItsTime(again, next, i)
    BY <1>1, <2>3, AgainIsLast
  <2> HIDE DEF again
  <2>5. LastOfItsTime(timeouts', timestamp', i)
    BY <2>1, <2>4
  <2>6. \A u \in ToSet(timeouts') : u # i => u \in armed /\ timestamp'[u] = timestamp[u]
    BY <1>1, <2>1, <2>3
  <2>7. QED
    BY <2>5, <2>6, OneIsNew
<1>3. CASE ~interval[i].repeat
  <2>1. timestamp' = timestamp /\ armed' = armed \ {i}
    BY <1>3 DEF FireInterval
  <2>2. QED
    BY <1>1, <2>1, NoneIsNew
<1>4. QED
  BY <1>2, <1>3

\* What a callback may set: the external timeout, an interval, the frame timer.
LEMMA CallbackIsLast ==
    ASSUME IInv, IInv', Callback
    PROVE  NewIsLast
<1>1. /\ timestamp \in [Timeout -> Nat] /\ armed \subseteq Timeout /\ time \in Nat
      /\ rate \in Nat /\ ToSet(timeouts') = armed' /\ timestamp["external"] \in Nat
  BY TimeoutFacts DEF IInv, TypeOK, ArmedIffPending
<1>2. ASSUME UNCHANGED timestamp, armed' \subseteq armed PROVE NewIsLast
  BY <1>1, <1>2, NoneIsNew
<1>3. ASSUME NEW t \in Timeout, t \notin armed, NEW stamp \in Nat, stamp >= time,
             timestamp' = [timestamp EXCEPT ![t] = stamp],
             timeouts' = AddTimeout(timeouts, timestamp', time, t),
             armed' = armed \cup {t}
      PROVE  NewIsLast
  <2>1. /\ timestamp'[t] >= time
        /\ \A u \in Timeout : u # t => timestamp'[u] = timestamp[u]
    BY <1>1, <1>3
  <2>2. QED
    BY <1>3, <2>1, ScheduleIsLast
<1>4. ASSUME NEW o \in Objects, AddExternal(o) PROVE NewIsLast
  <2> DEFINE start == IF initialized
                      THEN Max({time, timestamp["external"] + Throttle}) ELSE time
  <2>1. start \in Nat /\ start >= time
    <3>1. timestamp["external"] + Throttle \in Nat
      BY <1>1, TickAssumption
    <3>2. QED
      BY <1>1, <3>1, MaxPair
  <2> HIDE DEF start
  <2>2. CASE "external" \in armed
    <3>1. UNCHANGED timestamp /\ armed' = armed
      BY <1>4, <2>2 DEF AddExternal, timers
    <3>2. QED
      BY <1>2, <3>1
  <2>3. CASE "external" \notin armed
    <3>1. /\ timestamp' = [timestamp EXCEPT !["external"] = start]
          /\ armed' = armed \cup {"external"}
          /\ timeouts' = AddTimeout(timeouts, timestamp', time, "external")
      BY <1>4, <2>3 DEF AddExternal, start
    <3>2. QED
      BY <1>3, <2>1, <2>3, <3>1, TimeoutFacts
  <2>4. QED
    BY <2>2, <2>3
<1>5. ASSUME NEW i \in Intervals, NEW msecs \in Periods, NEW repeat \in BOOLEAN,
             NewInterval(i, msecs, repeat)
      PROVE  NewIsLast
  <2> DEFINE stamp == time + msecs * TicksPerMsec
  <2>1. /\ i \notin intervals
        /\ timestamp' = [timestamp EXCEPT ![i] = stamp]
        /\ armed' = armed \cup {i}
        /\ timeouts' = AddTimeout(timeouts, timestamp', time, i)
    BY <1>5 DEF NewInterval
  <2>2. stamp \in Nat /\ stamp >= time
    <3>1. msecs * TicksPerMsec \in Nat
      BY TickAssumption, ScaleFacts
    <3>2. QED
      BY <1>1, <3>1
  <2> HIDE DEF stamp
  <2>3. i \notin armed /\ i \in Timeout
    BY <2>1, TimeoutFacts DEF IInv, IntervalsPending
  <2>4. QED
    BY <1>3, <2>1, <2>2, <2>3
<1>6. ASSUME StartTicking PROVE NewIsLast
  <2> DEFINE stamp == time + rate \div 10
  <2>1. /\ "iterate" \notin armed
        /\ timestamp' = [timestamp EXCEPT !["iterate"] = stamp]
        /\ armed' = armed \cup {"iterate"}
        /\ timeouts' = AddTimeout(timeouts, timestamp', time, "iterate")
    BY <1>6 DEF StartTicking
  <2>2. stamp \in Nat /\ stamp >= time
    <3>1. rate \div 10 \in Nat
      BY <1>1
    <3>2. QED
      BY <1>1, <3>1
  <2> HIDE DEF stamp
  <2>3. QED
    BY <1>3, <2>1, <2>2, TimeoutFacts
<1>7. ASSUME NEW o \in Objects, RemoveExternals(o) PROVE NewIsLast
  BY <1>2, <1>7 DEF RemoveExternals, timers
<1>8. ASSUME NEW i \in Intervals, RemoveInterval(i) PROVE NewIsLast
  BY <1>2, <1>8 DEF RemoveInterval
<1>9. ASSUME NEW r \in FramePeriods, Initialize(r) PROVE NewIsLast
  BY <1>2, <1>9 DEF Initialize
<1>10. ASSUME Abort PROVE NewIsLast
  BY <1>2, <1>10 DEF Abort, timers
<1>11. QED
  BY <1>4, <1>5, <1>6, <1>7, <1>8, <1>9, <1>10, Zenon DEF Callback

\* Of two timeouts that are due at the same time, the one that was set first
\* runs first.
THEOREM NoTimerOvertakes == Spec => NewTimeoutIsLast
<1>1. IInv /\ IInv' /\ Next => NewIsLast
  <2> SUFFICES ASSUME IInv, IInv', Next PROVE NewIsLast
    OBVIOUS
  <2>1. ToSet(timeouts) = armed /\ ToSet(timeouts') = armed'
    BY DEF IInv, ArmedIffPending
  <2>2. ASSUME timers' = timers PROVE NewIsLast
    BY <2>1, <2>2, NoneIsNew DEF timers
  <2>3. ASSUME NEW msecs \in Msecs, Advance(msecs) PROVE NewIsLast
    <3>1. CASE AdvanceQuietly(msecs)
      BY <2>2, <3>1 DEF AdvanceQuietly
    <3>2. CASE FireExternal(msecs)
      <4>1. timestamp' = timestamp /\ armed' = armed \ {"external"}
        BY <3>2 DEF FireExternal
      <4>2. QED
        BY <2>1, <4>1, NoneIsNew
    <3>3. CASE FireIterate(msecs)
      BY <3>3, IterateIsLast
    <3>4. ASSUME NEW i \in Intervals, FireInterval(msecs, i) PROVE NewIsLast
      BY <3>4, IntervalIsLast
    <3>5. QED
      BY <2>3, <3>1, <3>2, <3>3, <3>4 DEF Advance
  <2>4. CASE HandleInput
    BY <2>2, <2>4 DEF HandleInput
  <2>5. CASE Proceed
    BY <2>2, <2>5 DEF Proceed, RunExternal, EndAction, EndPass, Finish
  <2>6. CASE Callback
    BY <2>6, CallbackIsLast
  <2>7. QED
    BY <2>3, <2>4, <2>5, <2>6 DEF Next
<1>2. IInv /\ IInv' /\ [Next]_vars => [NewIsLast]_vars
  BY <1>1
<1>3. Spec => [][NewIsLast]_vars
  BY <1>2, Invariance, PTL DEF Spec
<1>4. QED
  BY <1>3 DEF NewTimeoutIsLast, NewIsLast
=============================================================================
