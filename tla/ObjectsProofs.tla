---------------------------- MODULE ObjectsProofs ----------------------------
(***************************************************************************)
(* Proofs about Objects for any number of objects, watches and variables:  *)
(* that what the garbage collector frees is what scripts cannot reach,     *)
(* that watches are counted, and that lookups follow the prototype that    *)
(* the variable __proto__ has; and about Script for any code that decodes: *)
(* that the blocks of a frame are those that guard its code, up to those   *)
(* that are turned away, and that no exception is lost.                    *)
(***************************************************************************)
EXTENDS Objects, Script, FiniteSetTheorems, WellFoundedInduction, SequenceTheorems, TLAPS

-----------------------------------------------------------------------------
(* The inductive invariant *)

Flags == {"constant", "permanent", "later"}
PlainValue == Objects \cup {Undefined}

VariableType == [value : PlainValue \cup {Freed}, get : PlainValue, set : PlainValue, flags : SUBSET Flags]
Listings == UNION {[D -> Watches] : D \in SUBSET Names}
ObjectType == [properties : UNION {[D -> VariableType] : D \in SUBSET Names},
               prototype : PlainValue, flags : SUBSET Flags, watches : Listings]
WatchType == [refcount : Nat, watch : PlainValue, data : PlainValue]
HeapType == [objects : SUBSET Objects, functions : SUBSET Objects,
             object : [Objects -> ObjectType], watch : [Watches -> WatchType]]
CallType == [object : Objects, name : Names, value : PlainValue, watch : Watches]

Refers(h, v) == v \in h.objects \cup {Undefined}
Calls(h, f) == f \in h.functions \cup {Undefined}

SoundVariable(h, n, var) ==
    /\ Refers(h, var.value) \/ var.value = Freed
    /\ Calls(h, var.get) /\ Calls(h, var.set)
    /\ var.get = Undefined => var.set = Undefined
    /\ n = Proto => var.get = Undefined

\* What is allocated leads only to what is, and the rest of the memory is as new.
Sound(h) ==
    /\ Global \in h.objects /\ h.functions \subseteq h.objects
    /\ \A o \in Objects :
         /\ Refers(h, h.object[o].prototype)
         /\ \A n \in DOMAIN h.object[o].properties : SoundVariable(h, n, Var(h, o, n))
         /\ \A n \in DOMAIN h.object[o].watches :
              /\ Calls(h, h.watch[h.object[o].watches[n]].watch)
              /\ Refers(h, h.watch[h.object[o].watches[n]].data)
    /\ \A o \in Objects \ h.objects : h.object[o] = NewObject

Listed(h, w) ==
    {use \in Objects \X Names : /\ use[2] \in DOMAIN h.object[use[1]].watches
                                /\ h.object[use[1]].watches[use[2]] = w}
RunningFor(p, w) == {i \in DOMAIN p : p[i].watch = w}

Counted(h, p) ==
    \A w \in Watches :
        /\ h.watch[w].refcount = Cardinality(Listed(h, w)) + Cardinality(RunningFor(p, w))
        /\ \A u, v \in Listed(h, w) : u = v
        /\ Cardinality(RunningFor(p, w)) <= WatchLimit

\* The calls that wait for a watch.
Waiting(h, p) == \A i \in DOMAIN p : p[i].object \in h.objects /\ Refers(h, p[i].value)

\* Whether __proto__ of the object o is being set.
Busy(p, o) == \E i \in DOMAIN p : p[i].object = o /\ p[i].name = Proto

\* Prototype and variable of an object agree.
Agrees(h, o) ==
    Has(h, o, Proto) =>
      /\ h.object[o].prototype = Var(h, o, Proto).value
      /\ h.object[o].prototype # Undefined => h.object[o].flags = Var(h, o, Proto).flags

Chained(h, p, ov) == \A o \in h.objects \ ov : Busy(p, o) \/ Agrees(h, o)

Typed == /\ heap \in HeapType /\ pending \in Seq(CallType)
         /\ known \subseteq heap.objects /\ overruled \subseteq heap.objects
         /\ aborted \in BOOLEAN

ObjectsInv ==
    /\ Typed
    /\ Sound(heap)
    /\ Counted(heap, pending)
    /\ Waiting(heap, pending)
    /\ Chained(heap, pending, overruled)

-----------------------------------------------------------------------------
(* What is reached along edges *)

LEMMA Least ==
    ASSUME NEW K \in SUBSET Nat, K # {}
    PROVE  \E m \in K : \A k \in K : m <= k
<1>1. PICK m \in K : \A i \in K : <<i, m>> \notin OpToRel(<, Nat)
  BY NatLessThanWellFounded, WFMin
<1>2. ASSUME NEW k \in K PROVE m <= k
  <2>1. <<k, m>> \in Nat \X Nat /\ k \in Nat /\ m \in Nat
    OBVIOUS
  <2>2. ~(k < m)
    BY <1>1, <2>1 DEF OpToRel
  <2>3. QED
    BY <2>1, <2>2
<1>3. QED
  BY <1>2

\* One round of reaching.
Round(edges, R) == R \cup UNION {edges[n] : n \in R}

Rounds(edges, nodes, g, n) ==
    /\ g = [i \in 0..n |-> g[i]]
    /\ g[0] = nodes
    /\ \A i \in 1..n : g[i] = Round(edges, g[i - 1])

\* The function of Closure exists, for any number of rounds.
LEMMA RoundsExist ==
    ASSUME NEW edges, NEW nodes, NEW N \in Nat
    PROVE  \E g : Rounds(edges, nodes, g, N)
<1> DEFINE K == {n \in Nat : ~\E g : Rounds(edges, nodes, g, n)}
<1>1. SUFFICES ASSUME K # {} PROVE FALSE
  OBVIOUS
<1>2. PICK m \in K : \A k \in K : m <= k
  BY <1>1, Least
<1>3. m # 0
  <2>1. Rounds(edges, nodes, [i \in 0..0 |-> nodes], 0)
    BY DEF Rounds
  <2>2. QED
    BY <2>1
<1>4. m - 1 \in Nat /\ m \in Nat /\ ~(m <= m - 1)
  BY <1>3
<1>5. PICK g : Rounds(edges, nodes, g, m - 1)
  BY <1>2, <1>4
<1> DEFINE f == [i \in 0..m |-> IF i = m THEN Round(edges, g[m - 1]) ELSE g[i]]
<1>6. Rounds(edges, nodes, f, m)
  <2>1. f = [i \in 0..m |-> f[i]]
    OBVIOUS
  <2>2. f[0] = nodes
    BY <1>3, <1>4, <1>5 DEF Rounds
  <2>3. ASSUME NEW i \in 1..m PROVE f[i] = Round(edges, f[i - 1])
    <3>1. i - 1 \in 0..m - 1 /\ i - 1 # m /\ i \in 0..m /\ i - 1 \in 0..m
      BY <1>4
    <3>2. f[i - 1] = g[i - 1]
      BY <3>1
    <3>3. CASE i = m
      BY <3>1, <3>2, <3>3
    <3>4. CASE i # m
      <4>1. i \in 1..m - 1
        BY <1>4, <3>4
      <4>2. f[i] = g[i]
        BY <3>1, <3>4
      <4>3. QED
        BY <1>5, <3>2, <4>1, <4>2 DEF Rounds
    <3>5. QED
      BY <3>3, <3>4
  <2>4. QED
    BY <2>1, <2>2, <2>3 DEF Rounds
<1>7. QED
  BY <1>6

\* Closure is the last of as many rounds as there are nodes.
LEMMA ClosureRounds ==
    ASSUME NEW edges, NEW nodes
    PROVE  \E g : /\ Rounds(edges, nodes, g, 2 * Cardinality(Objects))
                  /\ Closure(edges, nodes) = g[2 * Cardinality(Objects)]
<1> DEFINE N == 2 * Cardinality(Objects)
           Is(g) == g = [i \in 0..N |->
                           IF i = 0 THEN nodes
                           ELSE LET before == g[i - 1]
                                IN  before \cup UNION {edges[n] : n \in before}]
<1>1. N \in Nat
  BY FS_CardinalityType, ObjectsAssumption
<1>2. PICK g : Rounds(edges, nodes, g, N)
  BY <1>1, RoundsExist
<1>5. Is(g)
  <2> HIDE DEF N
  <2>1. ASSUME NEW i \in 0..N
        PROVE  g[i] = IF i = 0 THEN nodes
                      ELSE LET before == g[i - 1]
                           IN  before \cup UNION {edges[n] : n \in before}
    <3>1. CASE i = 0
      BY <1>2, <3>1 DEF Rounds
    <3>2. CASE i # 0
      <4>1. i \in 1..N
        BY <1>1, <3>2
      <4>2. g[i] = Round(edges, g[i - 1])
        BY <1>2, <4>1 DEF Rounds
      <4>3. QED
        BY <3>2, <4>2 DEF Round
    <3>3. QED
      BY <3>1, <3>2
  <2>2. g = [i \in 0..N |-> g[i]]
    BY <1>2 DEF Rounds
  <2>3. QED
    BY <2>1, <2>2
<1> DEFINE reached == CHOOSE h : Is(h)
<1>6. Is(reached)
  BY <1>5
<1>7. Rounds(edges, nodes, reached, N)
  <2> HIDE DEF reached
  <2>1. reached = [i \in 0..N |-> reached[i]]
    BY <1>6
  <2>2. reached[0] = nodes
    BY <1>1, <1>6
  <2>3. \A i \in 1..N : reached[i] = Round(edges, reached[i - 1])
    BY <1>1, <1>6 DEF Round
  <2>4. QED
    BY <2>1, <2>2, <2>3 DEF Rounds
<1>8. Closure(edges, nodes) = reached[N]
  BY DEF Closure
<1>9. QED
  BY <1>7, <1>8

LEMMA NodesAreFew ==
    /\ IsFiniteSet(AllNodes)
    /\ Cardinality(AllNodes) <= 2 * Cardinality(Objects)
<1> DEFINE f(kind) == [o \in Objects |-> <<kind, o>>]
<1>1. ASSUME NEW kind
      PROVE  /\ IsFiniteSet({kind} \X Objects)
             /\ Cardinality({kind} \X Objects) <= Cardinality(Objects)
  <2>1. f(kind) \in Surjection(Objects, {kind} \X Objects)
    BY DEF Surjection
  <2>2. QED
    BY <2>1, FS_Surjection, ObjectsAssumption
<1>2. AllNodes = ({"object"} \X Objects) \cup ({"function"} \X Objects)
  BY DEF AllNodes
<1>3. /\ Cardinality({"object"} \X Objects) \in Nat
      /\ Cardinality({"function"} \X Objects) \in Nat
      /\ Cardinality(Objects) \in Nat
      /\ IsFiniteSet(({"object"} \X Objects) \cap ({"function"} \X Objects))
  BY <1>1, FS_CardinalityType, FS_Intersection, ObjectsAssumption
<1>4. Cardinality(({"object"} \X Objects) \cap ({"function"} \X Objects)) \in Nat
  BY <1>3, FS_CardinalityType
<1>5. /\ IsFiniteSet(AllNodes)
      /\ Cardinality(AllNodes) = Cardinality({"object"} \X Objects)
             + Cardinality({"function"} \X Objects)
             - Cardinality(({"object"} \X Objects) \cap ({"function"} \X Objects))
  BY <1>1, <1>2, FS_Union
<1>6. /\ Cardinality({"object"} \X Objects) <= Cardinality(Objects)
      /\ Cardinality({"function"} \X Objects) <= Cardinality(Objects)
  BY <1>1
<1>7. QED
  BY <1>3, <1>4, <1>5, <1>6

\* What the edges lead to from R stays in R.
ClosedUnder(edges, R) == \A n \in R : edges[n] \subseteq R

\* What every round keeps is true of the last one: here, to be in S.
LEMMA RoundsStayIn ==
    ASSUME NEW edges, NEW nodes, NEW S, NEW g, NEW N \in Nat, Rounds(edges, nodes, g, N),
           nodes \subseteq S, ClosedUnder(edges, S)
    PROVE  \A i \in 0..N : g[i] \subseteq S
<1> DEFINE K == {i \in 0..N : ~(g[i] \subseteq S)}
<1>1. SUFFICES ASSUME K # {} PROVE FALSE
  OBVIOUS
<1>2. K \in SUBSET Nat
  OBVIOUS
<1>3. PICK m \in K : \A k \in K : m <= k
  BY <1>1, <1>2, Least
<1>4. m # 0
  BY <1>3 DEF Rounds
<1>5. m \in 1..N /\ m - 1 \in 0..N /\ ~(m <= m - 1)
  BY <1>4
<1>6. g[m - 1] \subseteq S
  BY <1>3, <1>5
<1>7. g[m] = Round(edges, g[m - 1])
  BY <1>5 DEF Rounds
<1>8. QED
  BY <1>3, <1>6, <1>7 DEF Round, ClosedUnder

\* Every round finds something new, or nothing is left to be found.
LEMMA RoundsGrow ==
    ASSUME NEW edges \in [AllNodes -> SUBSET AllNodes], NEW nodes \in SUBSET AllNodes,
           nodes # {}, NEW g, NEW N \in Nat, Rounds(edges, nodes, g, N)
    PROVE  \A i \in 0..N : /\ nodes \subseteq g[i] /\ g[i] \subseteq AllNodes
                           /\ ClosedUnder(edges, g[i]) \/ Cardinality(g[i]) > i
<1>1. \A i \in 0..N : g[i] \subseteq AllNodes
  <2>1. ClosedUnder(edges, AllNodes)
    BY DEF ClosedUnder
  <2>2. QED
    BY <2>1, RoundsStayIn
<1> DEFINE Good(i) == /\ nodes \subseteq g[i]
                      /\ ClosedUnder(edges, g[i]) \/ Cardinality(g[i]) > i
           K == {i \in 0..N : ~Good(i)}
<1>2. SUFFICES ASSUME K # {} PROVE FALSE
  BY <1>1
<1>3. K \in SUBSET Nat
  OBVIOUS
<1>4. PICK m \in K : \A k \in K : m <= k
  BY <1>2, <1>3, Least
<1>5. \A i \in 0..N : IsFiniteSet(g[i]) /\ Cardinality(g[i]) \in Nat
  BY <1>1, NodesAreFew, FS_Subset, FS_CardinalityType
<1>6. m # 0
  <2>1. g[0] = nodes /\ 0 \in 0..N
    BY DEF Rounds
  <2>2. Cardinality(g[0]) # 0
    BY <1>5, <2>1, FS_EmptySet
  <2>3. Good(0)
    BY <1>5, <2>1, <2>2
  <2>4. QED
    BY <1>4, <2>3
<1>7. m \in 1..N /\ m - 1 \in 0..N /\ m \in 0..N /\ ~(m <= m - 1)
  BY <1>6
<1>8. Good(m - 1)
  BY <1>4, <1>7
<1>9. g[m] = Round(edges, g[m - 1]) /\ g[m - 1] \subseteq g[m]
  BY <1>7 DEF Rounds, Round
<1>10. CASE ClosedUnder(edges, g[m - 1])
  <2>1. g[m] = g[m - 1]
    BY <1>9, <1>10 DEF Round, ClosedUnder
  <2>2. Good(m)
    BY <1>8, <1>10, <2>1
  <2>3. QED
    BY <1>4, <2>2
<1>11. CASE ~ClosedUnder(edges, g[m - 1])
  <2>1. Cardinality(g[m - 1]) > m - 1
    BY <1>8, <1>11
  <2>2. g[m] # g[m - 1]
    BY <1>9, <1>11 DEF Round, ClosedUnder
  <2>3. /\ Cardinality(g[m - 1]) <= Cardinality(g[m])
        /\ Cardinality(g[m - 1]) # Cardinality(g[m])
    BY <1>5, <1>7, <1>9, <2>2, FS_Subset
  <2>4. Cardinality(g[m]) > m
    BY <1>5, <1>7, <2>1, <2>3
  <2>5. Good(m)
    BY <1>8, <1>9, <2>4
  <2>6. QED
    BY <1>4, <2>5
<1>12. QED
  BY <1>10, <1>11

\* Closure is the least set with the nodes that its edges do not leave.
LEMMA ClosureFacts ==
    ASSUME NEW edges \in [AllNodes -> SUBSET AllNodes], NEW nodes \in SUBSET AllNodes,
           nodes # {}
    PROVE  /\ nodes \subseteq Closure(edges, nodes)
           /\ Closure(edges, nodes) \subseteq AllNodes
           /\ ClosedUnder(edges, Closure(edges, nodes))
           /\ \A S : nodes \subseteq S /\ ClosedUnder(edges, S)
                       => Closure(edges, nodes) \subseteq S
<1> DEFINE N == 2 * Cardinality(Objects)
<1>1. N \in Nat /\ N \in 0..N
  BY FS_CardinalityType, ObjectsAssumption
<1>2. PICK g : Rounds(edges, nodes, g, N) /\ Closure(edges, nodes) = g[N]
  BY ClosureRounds
<1> HIDE DEF N
<1>3. nodes \subseteq g[N] /\ g[N] \subseteq AllNodes
  BY <1>1, <1>2, RoundsGrow
<1>4. ClosedUnder(edges, g[N])
  <2>1. ClosedUnder(edges, g[N]) \/ Cardinality(g[N]) > N
    BY <1>1, <1>2, RoundsGrow
  <2>2. /\ Cardinality(g[N]) <= Cardinality(AllNodes) /\ Cardinality(AllNodes) <= N
        /\ Cardinality(g[N]) \in Nat /\ Cardinality(AllNodes) \in Nat
    BY <1>3, NodesAreFew, FS_Subset, FS_CardinalityType DEF N
  <2>3. QED
    BY <1>1, <2>1, <2>2
<1>5. ASSUME NEW S, nodes \subseteq S, ClosedUnder(edges, S)
      PROVE  g[N] \subseteq S
  BY <1>1, <1>2, <1>5, RoundsStayIn
<1>6. QED
  BY <1>2, <1>3, <1>4, <1>5

-----------------------------------------------------------------------------
(* Changes of the heap: what each of them leaves alone *)

Props == UNION {[D -> VariableType] : D \in SUBSET Names}

\* Whatever changes, at most the object o does, and none is made or freed.
Rest(h, g, o) ==
    /\ g \in HeapType /\ g.objects = h.objects /\ g.functions = h.functions
    /\ \A x \in Objects \ {o} : g.object[x] = h.object[x]

VariableIs(h, g, o, n, v) ==
    /\ Rest(h, g, o) /\ g.watch = h.watch
    /\ g.object[o].prototype = h.object[o].prototype
    /\ g.object[o].flags = h.object[o].flags
    /\ g.object[o].watches = h.object[o].watches
    /\ DOMAIN g.object[o].properties = DOMAIN h.object[o].properties \cup {n}
    /\ \A m \in DOMAIN g.object[o].properties :
         Var(g, o, m) = IF m = n THEN v ELSE Var(h, o, m)

VariableGoes(h, g, o, n) ==
    /\ Rest(h, g, o) /\ g.watch = h.watch
    /\ g.object[o].prototype = h.object[o].prototype
    /\ g.object[o].flags = h.object[o].flags
    /\ g.object[o].watches = h.object[o].watches
    /\ DOMAIN g.object[o].properties = DOMAIN h.object[o].properties \ {n}
    /\ \A m \in DOMAIN g.object[o].properties : Var(g, o, m) = Var(h, o, m)

PrototypeIs(h, g, o, p, f) ==
    /\ Rest(h, g, o) /\ g.watch = h.watch
    /\ g.object[o].properties = h.object[o].properties
    /\ g.object[o].watches = h.object[o].watches
    /\ g.object[o].prototype = p /\ g.object[o].flags = f

\* The object o lists the watches l.
ListIs(h, g, o, l) ==
    /\ Rest(h, g, o) /\ g.watch = h.watch
    /\ g.object[o].properties = h.object[o].properties
    /\ g.object[o].prototype = h.object[o].prototype
    /\ g.object[o].flags = h.object[o].flags
    /\ g.object[o].watches = l

\* The watch w is r.
WatchIs(h, g, w, r) ==
    /\ g \in HeapType /\ g.objects = h.objects /\ g.functions = h.functions
    /\ g.object = h.object
    /\ g.watch[w] = r
    /\ \A x \in Watches \ {w} : g.watch[x] = h.watch[x]

LEMMA HeapFields ==
    ASSUME NEW h \in HeapType
    PROVE  /\ h.objects \in SUBSET Objects /\ h.functions \in SUBSET Objects
           /\ h.object \in [Objects -> ObjectType] /\ h.watch \in [Watches -> WatchType]
BY DEF HeapType

LEMMA ObjectFields ==
    ASSUME NEW h \in HeapType, NEW o \in Objects
    PROVE  /\ h.object[o] \in ObjectType
           /\ h.object[o].prototype \in PlainValue /\ h.object[o].flags \subseteq Flags
           /\ DOMAIN h.object[o].properties \subseteq Names
           /\ h.object[o].properties \in Props
           /\ h.object[o].watches \in Listings
           /\ DOMAIN h.object[o].watches \subseteq Names
           /\ \A n \in DOMAIN h.object[o].properties : Var(h, o, n) \in VariableType
           /\ \A n \in DOMAIN h.object[o].watches : h.object[o].watches[n] \in Watches
<1>1. h.object[o] \in ObjectType
  BY HeapFields
<1>2. /\ h.object[o].properties \in Props /\ h.object[o].watches \in Listings
      /\ h.object[o].prototype \in PlainValue /\ h.object[o].flags \subseteq Flags
  BY <1>1 DEF ObjectType, Props
<1>3. PICK D \in SUBSET Names : h.object[o].properties \in [D -> VariableType]
  BY <1>2 DEF Props
<1>4. PICK E \in SUBSET Names : h.object[o].watches \in [E -> Watches]
  BY <1>2 DEF Listings
<1>5. QED
  BY <1>1, <1>2, <1>3, <1>4 DEF Var

LEMMA ObjectChange ==
    ASSUME NEW h \in HeapType, NEW o \in Objects, NEW x \in ObjectType
    PROVE  LET g == [h EXCEPT !.object[o] = x]
           IN  Rest(h, g, o) /\ g.watch = h.watch /\ g.object[o] = x
<1> DEFINE object == [h.object EXCEPT ![o] = x]
           g == [h EXCEPT !.object[o] = x]
<1>1. object \in [Objects -> ObjectType] /\ object[o] = x
      /\ \A y \in Objects \ {o} : object[y] = h.object[y]
  BY HeapFields
<1>2. g = [objects |-> h.objects, functions |-> h.functions, object |-> object, watch |-> h.watch]
  BY DEF HeapType
<1> HIDE DEF object, g
<1>3. g \in HeapType
  BY <1>1, <1>2, HeapFields DEF HeapType
<1>4. QED
  BY <1>1, <1>2, <1>3 DEF Rest, g

LEMMA PropertiesChange ==
    ASSUME NEW h \in HeapType, NEW o \in Objects, NEW p \in Props
    PROVE  LET g == [h EXCEPT !.object[o].properties = p]
           IN  /\ Rest(h, g, o) /\ g.watch = h.watch
               /\ g.object[o].properties = p
               /\ g.object[o].prototype = h.object[o].prototype
               /\ g.object[o].flags = h.object[o].flags
               /\ g.object[o].watches = h.object[o].watches
<1> DEFINE x == [h.object[o] EXCEPT !.properties = p]
<1>1. x = [properties |-> p, prototype |-> h.object[o].prototype,
           flags |-> h.object[o].flags, watches |-> h.object[o].watches]
  BY ObjectFields DEF ObjectType
<1> HIDE DEF x
<1>2. x \in ObjectType
  BY <1>1, ObjectFields DEF ObjectType, Props
<1>3. [h EXCEPT !.object[o].properties = p] = [h EXCEPT !.object[o] = x]
  BY DEF x
<1>4. QED
  BY <1>1, <1>2, <1>3, ObjectChange

LEMMA PutFacts ==
    ASSUME NEW T, NEW D, NEW f \in [D -> T], NEW n, NEW v \in T
    PROVE  /\ Put(f, n, v) \in [D \cup {n} -> T]
           /\ \A m \in D \cup {n} : Put(f, n, v)[m] = IF m = n THEN v ELSE f[m]
BY DEF Put

LEMMA PutVariable ==
    ASSUME NEW h \in HeapType, NEW o \in Objects, NEW n \in Names, NEW v \in VariableType
    PROVE  VariableIs(h, [h EXCEPT !.object[o].properties = Put(@, n, v)], o, n, v)
<1> DEFINE f == h.object[o].properties
           p == Put(f, n, v)
           g == [h EXCEPT !.object[o].properties = p]
<1>1. PICK D \in SUBSET Names : f \in [D -> VariableType]
  <2>1. f \in Props
    BY ObjectFields
  <2> HIDE DEF f
  <2>2. QED
    BY <2>1, Zenon DEF Props
<1>2. p \in [D \cup {n} -> VariableType]
      /\ \A m \in D \cup {n} : p[m] = IF m = n THEN v ELSE f[m]
  BY <1>1 DEF Put
<1>3. D \cup {n} \in SUBSET Names
  OBVIOUS
<1> HIDE DEF p
<1>4. p \in Props
  BY <1>2, <1>3, Zenon DEF Props
<1>5. /\ Rest(h, g, o) /\ g.watch = h.watch
      /\ g.object[o].properties = p
      /\ g.object[o].prototype = h.object[o].prototype
      /\ g.object[o].flags = h.object[o].flags
      /\ g.object[o].watches = h.object[o].watches
  BY <1>4, PropertiesChange
<1> HIDE DEF g
<1>6. VariableIs(h, g, o, n, v)
  BY <1>1, <1>2, <1>5 DEF VariableIs, Var
<1>7. QED
  BY <1>6 DEF g, p

LEMMA ReplaceVariable ==
    ASSUME NEW h \in HeapType, NEW o \in Objects, NEW n, Has(h, o, n), NEW v \in VariableType
    PROVE  VariableIs(h, [h EXCEPT !.object[o].properties[n] = v], o, n, v)
<1> DEFINE f == h.object[o].properties
           p == [f EXCEPT ![n] = v]
           g == [h EXCEPT !.object[o].properties = p]
<1>1. PICK D \in SUBSET Names : f \in [D -> VariableType]
  <2>1. f \in Props
    BY ObjectFields
  <2> HIDE DEF f
  <2>2. QED
    BY <2>1, Zenon DEF Props
<1>2. p \in [D -> VariableType] /\ n \in D
      /\ \A m \in D : p[m] = IF m = n THEN v ELSE f[m]
  BY <1>1 DEF Has
<1> HIDE DEF p
<1>4. p \in Props
  BY <1>2, Zenon DEF Props
<1>5. /\ Rest(h, g, o) /\ g.watch = h.watch
      /\ g.object[o].properties = p
      /\ g.object[o].prototype = h.object[o].prototype
      /\ g.object[o].flags = h.object[o].flags
      /\ g.object[o].watches = h.object[o].watches
  BY <1>4, PropertiesChange
<1> HIDE DEF g
<1>6. VariableIs(h, g, o, n, v)
  BY <1>1, <1>2, <1>5 DEF VariableIs, Var
<1>7. QED
  BY <1>6 DEF g, p

LEMMA RemoveVariable ==
    ASSUME NEW h \in HeapType, NEW o \in Objects, NEW n
    PROVE  VariableGoes(h, [h EXCEPT !.object[o].properties = Without(@, n)], o, n)
<1> DEFINE f == h.object[o].properties
           p == Without(f, n)
           g == [h EXCEPT !.object[o].properties = p]
<1>1. PICK D \in SUBSET Names : f \in [D -> VariableType]
  <2>1. f \in Props
    BY ObjectFields
  <2> HIDE DEF f
  <2>2. QED
    BY <2>1, Zenon DEF Props
<1>2. p \in [D \ {n} -> VariableType] /\ D \ {n} \in SUBSET Names
      /\ \A m \in D \ {n} : p[m] = f[m]
  BY <1>1 DEF Without
<1> HIDE DEF p
<1>4. p \in Props
  BY <1>2, Zenon DEF Props
<1>5. /\ Rest(h, g, o) /\ g.watch = h.watch
      /\ g.object[o].properties = p
      /\ g.object[o].prototype = h.object[o].prototype
      /\ g.object[o].flags = h.object[o].flags
      /\ g.object[o].watches = h.object[o].watches
  BY <1>4, PropertiesChange
<1> HIDE DEF g
<1>6. VariableGoes(h, g, o, n)
  BY <1>1, <1>2, <1>5 DEF VariableGoes, Var
<1>7. QED
  BY <1>6 DEF g, p

LEMMA ReplacePrototype ==
    ASSUME NEW h \in HeapType, NEW o \in Objects, NEW p \in PlainValue, NEW f \in SUBSET Flags
    PROVE  PrototypeIs(h, [h EXCEPT !.object[o].prototype = p, !.object[o].flags = f], o, p, f)
<1> DEFINE x == [properties |-> h.object[o].properties, prototype |-> p,
                 flags |-> f, watches |-> h.object[o].watches]
           g == [h EXCEPT !.object[o] = x]
<1>1. x \in ObjectType
  BY ObjectFields DEF ObjectType, Props
<1>2. g = [h EXCEPT !.object[o].prototype = p, !.object[o].flags = f]
  <2> DEFINE r == h.object[o]
             y == [r EXCEPT !.prototype = p]
  <2>1. r = [properties |-> r.properties, prototype |-> r.prototype,
             flags |-> r.flags, watches |-> r.watches]
    BY ObjectFields DEF ObjectType
  <2> HIDE DEF r
  <2>2. [y EXCEPT !.flags = f]
          = [properties |-> r.properties, prototype |-> p, flags |-> f, watches |-> r.watches]
    <3>1. y = [properties |-> r.properties, prototype |-> p,
               flags |-> r.flags, watches |-> r.watches]
      BY <2>1
    <3> HIDE DEF y
    <3>2. QED
      BY <3>1
  <2> DEFINE h1 == [h EXCEPT !.object[o].prototype = p]
  <2> HIDE DEF y
  <2>3. h1 = [h EXCEPT !.object[o] = y] /\ h1.object[o] = y
    BY HeapFields DEF r, y, HeapType
  <2>4. [h1 EXCEPT !.object[o] = x] = [h EXCEPT !.object[o] = x]
    BY <2>3, HeapFields DEF HeapType
  <2>5. [h1 EXCEPT !.object[o].flags = f] = [h1 EXCEPT !.object[o] = [y EXCEPT !.flags = f]]
    BY <2>3
  <2>6. QED
    BY <2>2, <2>3, <2>4, <2>5 DEF r
<1>3. Rest(h, g, o) /\ g.watch = h.watch /\ g.object[o] = x
  BY <1>1, ObjectChange
<1> HIDE DEF g
<1>4. PrototypeIs(h, g, o, p, f)
  BY <1>3 DEF PrototypeIs
<1>5. QED
  BY <1>2, <1>4

LEMMA ReplaceList ==
    ASSUME NEW h \in HeapType, NEW o \in Objects, NEW l \in Listings
    PROVE  ListIs(h, [h EXCEPT !.object[o].watches = l], o, l)
<1> DEFINE x == [properties |-> h.object[o].properties, prototype |-> h.object[o].prototype,
                 flags |-> h.object[o].flags, watches |-> l]
<1>1. x \in ObjectType
  BY ObjectFields DEF ObjectType, Props
<1>2. [h.object[o] EXCEPT !.watches = l] = x
  BY ObjectFields DEF ObjectType
<1>3. [h EXCEPT !.object[o].watches = l] = [h EXCEPT !.object[o] = x]
  BY <1>2 DEF HeapType
<1>4. QED
  BY <1>1, <1>3, ObjectChange DEF ListIs

LEMMA ReplaceWatch ==
    ASSUME NEW h \in HeapType, NEW w \in Watches, NEW r \in WatchType
    PROVE  WatchIs(h, [h EXCEPT !.watch[w] = r], w, r)
<1> DEFINE watch == [h.watch EXCEPT ![w] = r]
           g == [h EXCEPT !.watch[w] = r]
<1>1. watch \in [Watches -> WatchType] /\ watch[w] = r
      /\ \A y \in Watches \ {w} : watch[y] = h.watch[y]
  BY HeapFields
<1>2. g = [objects |-> h.objects, functions |-> h.functions, object |-> h.object, watch |-> watch]
  BY DEF HeapType
<1> HIDE DEF watch, g
<1>3. g \in HeapType
  BY <1>1, <1>2, HeapFields DEF HeapType
<1>4. QED
  BY <1>1, <1>2, <1>3 DEF WatchIs, g

-----------------------------------------------------------------------------
(* Looking up *)

\* The prototypes that are followed from o.
FollowsTo(h, o, g, n) ==
    /\ g = [i \in 1..n |-> g[i]]
    /\ \A i \in 1..n :
         g[i] = LET before == IF i = 1 THEN o ELSE g[i - 1]
                IN  IF before = Undefined THEN Undefined ELSE GetPrototype(h, before)

LEMMA ChainExists ==
    ASSUME NEW h, NEW o, NEW N \in Nat
    PROVE  \E g : FollowsTo(h, o, g, N)
<1> DEFINE K == {n \in Nat : ~\E g : FollowsTo(h, o, g, n)}
<1>1. SUFFICES ASSUME K # {} PROVE FALSE
  OBVIOUS
<1>2. PICK m \in K : \A k \in K : m <= k
  BY <1>1, Least
<1>3. m # 0
  <2>1. FollowsTo(h, o, [i \in 1..0 |-> o], 0)
    BY DEF FollowsTo
  <2>2. QED
    BY <2>1
<1>4. m - 1 \in Nat /\ m \in Nat /\ ~(m <= m - 1)
  BY <1>3
<1>5. PICK g : FollowsTo(h, o, g, m - 1)
  BY <1>2, <1>4
<1> DEFINE Following(before) == IF before = Undefined THEN Undefined ELSE GetPrototype(h, before)
           f == [i \in 1..m |-> IF i = m THEN Following(IF m = 1 THEN o ELSE g[m - 1]) ELSE g[i]]
<1>6. FollowsTo(h, o, f, m)
  <2>1. f = [i \in 1..m |-> f[i]]
    OBVIOUS
  <2>2. ASSUME NEW i \in 1..m
        PROVE  f[i] = Following(IF i = 1 THEN o ELSE f[i - 1])
    <3> HIDE DEF Following
    <3>1. \A j \in 1..m - 1 : f[j] = g[j]
      BY <1>4
    <3>2. CASE i = m
      <4>1. i # 1 => f[i - 1] = g[i - 1]
        BY <1>4, <3>1, <3>2
      <4>2. QED
        BY <1>4, <3>2, <4>1
    <3>3. CASE i # m
      <4>1. i \in 1..m - 1 /\ (i # 1 => i - 1 \in 1..m - 1)
        BY <1>4, <3>3
      <4>2. g[i] = Following(IF i = 1 THEN o ELSE g[i - 1])
        BY <1>5, <4>1 DEF FollowsTo, Following
      <4>3. f[i] = g[i] /\ (i # 1 => f[i - 1] = g[i - 1])
        BY <3>1, <4>1
      <4>4. QED
        BY <4>2, <4>3
    <3>4. QED
      BY <3>2, <3>3
  <2> HIDE DEF f
  <2>3. QED
    BY <2>1, <2>2 DEF FollowsTo
<1>7. QED
  BY <1>6

\* All of the prototypes that are followed are allocated.
LEMMA ChainIsAllocated ==
    ASSUME NEW h, Sound(h), h.objects \subseteq Objects, NEW o \in h.objects, NEW N \in Nat,
           NEW g, FollowsTo(h, o, g, N)
    PROVE  \A i \in 1..N : Refers(h, g[i])
<1> DEFINE K == {i \in 1..N : ~Refers(h, g[i])}
<1>1. SUFFICES ASSUME K # {} PROVE FALSE
  OBVIOUS
<1>2. K \in SUBSET Nat
  OBVIOUS
<1>3. PICK m \in K : \A k \in K : m <= k
  BY <1>1, <1>2, Least
<1> DEFINE before == IF m = 1 THEN o ELSE g[m - 1]
<1>4. Refers(h, before)
  <2>1. m # 1 => m - 1 \in 1..N /\ ~(m <= m - 1)
    BY <1>3
  <2>2. QED
    BY <1>3, <2>1 DEF Refers
<1>5. g[m] = IF before = Undefined THEN Undefined ELSE GetPrototype(h, before)
  BY <1>3 DEF FollowsTo
<1> HIDE DEF before
<1>6. Refers(h, g[m])
  BY <1>4, <1>5 DEF Refers, GetPrototype, Sound
<1>7. QED
  BY <1>3, <1>6

LEMMA LookupFacts ==
    ASSUME NEW h \in HeapType, Sound(h), NEW o \in h.objects, NEW n
    PROVE  LET found == LookupWithPrototype(h, o, n)
           IN  /\ found \in h.objects \cup {Undefined, TooDeep}
               /\ found \notin {Undefined, TooDeep} => Has(h, found, n)
               /\ Has(h, o, n) => found = o
               /\ n = Proto => found \in {o, Undefined}
<1>0. h.objects \subseteq Objects /\ o \in Objects
  BY HeapFields
<1> DEFINE Is(g) == g = [i \in 1..RecursionLimit |->
                           LET before == IF i = 1 THEN o ELSE g[i - 1]
                           IN  IF before = Undefined THEN Undefined ELSE GetPrototype(h, before)]
           chain == CHOOSE g : Is(g)
           getters == {i \in 1..RecursionLimit :
                         /\ chain[i] # Undefined
                         /\ Has(h, chain[i], n)
                         /\ Var(h, chain[i], n).get # Undefined}
<1>1. RecursionLimit \in Nat \ {0}
  BY ObjectsAssumption
<1>2. PICK g : FollowsTo(h, o, g, RecursionLimit)
  BY <1>1, ChainExists
<1>3. Is(g)
  BY <1>2 DEF FollowsTo
<1>4. Is(chain)
  BY <1>3
<1>5. FollowsTo(h, o, chain, RecursionLimit)
  <2> HIDE DEF chain
  <2>1. QED
    BY <1>4 DEF FollowsTo
<1>6. LookupWithPrototype(h, o, n) =
        IF Has(h, o, n) THEN o
        ELSE IF n = Proto THEN Undefined
        ELSE IF getters # {} THEN chain[Min(getters)]
        ELSE IF chain[RecursionLimit] # Undefined THEN TooDeep
        ELSE Undefined
  BY DEF LookupWithPrototype
<1> HIDE DEF chain
<1>7. \A i \in 1..RecursionLimit : Refers(h, chain[i])
  BY <1>0, <1>1, <1>5, ChainIsAllocated
<1>8. ASSUME getters # {} PROVE Min(getters) \in getters
  <2>1. getters \in SUBSET Nat
    OBVIOUS
  <2> HIDE DEF getters
  <2>2. QED
    BY <1>8, <2>1, Least DEF Min
<1>9. ASSUME getters # {}
      PROVE  chain[Min(getters)] \in h.objects /\ Has(h, chain[Min(getters)], n)
  BY <1>7, <1>8, <1>9 DEF Refers
<1> HIDE DEF getters
<1>10. QED
  BY <1>6, <1>9

-----------------------------------------------------------------------------
(* What setting a variable does to the heap *)

\* The variable as it is when it was created or made visible.
Renewed(h, at, n, new) ==
    LET old == IF Has(h, at, n) THEN Var(h, at, n) ELSE NewVariable
    IN  /\ new \in VariableType
        /\ new.value = old.value
        /\ "constant" \in old.flags => new.flags = old.flags
        /\ "constant" \notin old.flags => new.flags = old.flags \ {"later"}
        /\ "later" \in old.flags => new.get = Undefined /\ new.set = Undefined
        /\ "later" \notin old.flags => new.get = old.get /\ new.set = old.set

LEMMA VariableFields ==
    ASSUME NEW v \in VariableType
    PROVE  /\ v.value \in PlainValue \cup {Freed} /\ v.get \in PlainValue /\ v.set \in PlainValue
           /\ v.flags \subseteq Flags
           /\ v = [value |-> v.value, get |-> v.get, set |-> v.set, flags |-> v.flags]
BY DEF VariableType

LEMMA NewVariableFacts ==
    /\ NewVariable \in VariableType
    /\ NewVariable.value = Undefined /\ NewVariable.get = Undefined
    /\ NewVariable.set = Undefined /\ NewVariable.flags = {}
BY DEF NewVariable, VariableType, PlainValue

LEMMA PreparedFacts ==
    ASSUME NEW h \in HeapType, NEW at \in Objects, NEW n \in Names
    PROVE  \E new : /\ VariableIs(h, Prepared(h, at, n), at, n, new)
                    /\ Renewed(h, at, n, new)
<1> DEFINE old == IF Has(h, at, n) THEN Var(h, at, n) ELSE NewVariable
           hidden == "later" \in old.flags
           plain == IF hidden
                    THEN [old EXCEPT !.get = Undefined, !.set = Undefined] ELSE old
           new == IF "constant" \in old.flags
                  THEN plain ELSE [plain EXCEPT !.flags = @ \ {"later"}]
<1>1. old \in VariableType
  BY ObjectFields, NewVariableFacts DEF Has
<1>2. Prepared(h, at, n) = [h EXCEPT !.object[at].properties = Put(@, n, new)]
  BY DEF Prepared
<1> HIDE DEF old
<1>3. plain = [value |-> old.value, get |-> IF hidden THEN Undefined ELSE old.get,
               set |-> IF hidden THEN Undefined ELSE old.set, flags |-> old.flags]
  <2>1. CASE hidden
    <3> DEFINE one == [old EXCEPT !.get = Undefined]
    <3>1. one = [value |-> old.value, get |-> Undefined, set |-> old.set, flags |-> old.flags]
      BY <1>1, VariableFields
    <3>2. [old EXCEPT !.get = Undefined, !.set = Undefined] = [one EXCEPT !.set = Undefined]
      OBVIOUS
    <3> HIDE DEF one
    <3>3. [one EXCEPT !.set = Undefined]
            = [value |-> old.value, get |-> Undefined, set |-> Undefined, flags |-> old.flags]
      BY <3>1
    <3>4. QED
      BY <2>1, <3>2, <3>3
  <2>2. CASE ~hidden
    BY <1>1, <2>2, VariableFields
  <2>3. QED
    BY <2>1, <2>2
<1> HIDE DEF plain
<1>4. new = [value |-> old.value, get |-> IF hidden THEN Undefined ELSE old.get,
             set |-> IF hidden THEN Undefined ELSE old.set,
             flags |-> IF "constant" \in old.flags THEN old.flags ELSE old.flags \ {"later"}]
  BY <1>3
<1> HIDE DEF new
<1>5. new \in VariableType
  BY <1>1, <1>4 DEF VariableType, PlainValue
<1>6. Renewed(h, at, n, new)
  BY <1>4, <1>5 DEF Renewed, old
<1>7. VariableIs(h, Prepared(h, at, n), at, n, new)
  BY <1>2, <1>5, PutVariable
<1>8. QED
  BY <1>6, <1>7

\* The variable when the value has come.
Valued(old, new, hasWatches, value) ==
    /\ new \in VariableType
    /\ new.value = IF hasWatches \/ old.get = Undefined THEN value ELSE old.value
    /\ new.get = old.get /\ new.set = old.set /\ new.flags = old.flags

LEMMA FinishedFacts ==
    ASSUME NEW h \in HeapType, NEW o \in Objects, NEW at \in Objects, NEW n, Has(h, at, n),
           NEW hasWatches, NEW set \in PlainValue, NEW value \in PlainValue
    PROVE  \E g, new :
              /\ VariableIs(h, g, at, n, new)
              /\ Valued(Var(h, at, n), new, hasWatches, value)
              /\ n # Proto => Finished(h, o, n, at, hasWatches, set, value) = g
              /\ n = Proto =>
                   PrototypeIs(g, Finished(h, o, n, at, hasWatches, set, value), o, set,
                               IF set = Undefined THEN {} ELSE new.flags)
<1> DEFINE old == Var(h, at, n)
           new == IF hasWatches \/ old.get = Undefined
                  THEN [old EXCEPT !.value = value] ELSE old
           g == [h EXCEPT !.object[at].properties[n] = new]
           flags == IF set = Undefined THEN {} ELSE new.flags
<1>1. old \in VariableType
  BY ObjectFields DEF Has
<1>2. Finished(h, o, n, at, hasWatches, set, value) =
        IF n # Proto THEN g
        ELSE [g EXCEPT !.object[o].prototype = set, !.object[o].flags = flags]
  BY DEF Finished
<1> HIDE DEF old
<1>3. Valued(old, new, hasWatches, value)
  BY <1>1, VariableFields DEF Valued, VariableType
<1> HIDE DEF new
<1>4. VariableIs(h, g, at, n, new)
  BY <1>3, ReplaceVariable DEF Valued
<1>5. flags \in SUBSET Flags
  BY <1>3, VariableFields DEF Valued
<1>6. g \in HeapType
  BY <1>4 DEF VariableIs, Rest
<1> HIDE DEF g, flags
<1>7. PrototypeIs(g, [g EXCEPT !.object[o].prototype = set, !.object[o].flags = flags],
                  o, set, flags)
  BY <1>5, <1>6, ReplacePrototype
<1>8. QED
  BY <1>2, <1>3, <1>4, <1>7 DEF flags, old

LEMMA WatchFields ==
    ASSUME NEW h \in HeapType, NEW w \in Watches
    PROVE  /\ h.watch[w] \in WatchType
           /\ h.watch[w].refcount \in Nat
           /\ h.watch[w].watch \in PlainValue /\ h.watch[w].data \in PlainValue
BY HeapFields DEF WatchType

LEMMA RefFacts ==
    ASSUME NEW h \in HeapType, NEW w \in Watches
    PROVE  \E r : /\ WatchIs(h, Ref(h, w), w, r)
                  /\ r.refcount = h.watch[w].refcount + 1
                  /\ r.watch = h.watch[w].watch /\ r.data = h.watch[w].data
<1> DEFINE r == [h.watch[w] EXCEPT !.refcount = @ + 1]
<1>1. /\ r \in WatchType /\ r.refcount = h.watch[w].refcount + 1
      /\ r.watch = h.watch[w].watch /\ r.data = h.watch[w].data
  BY WatchFields DEF WatchType
<1>2. Ref(h, w) = [h EXCEPT !.watch[w] = r]
  BY DEF Ref
<1> HIDE DEF r
<1>3. QED
  BY <1>1, <1>2, ReplaceWatch

LEMMA UnrefFacts ==
    ASSUME NEW h \in HeapType, NEW w \in Watches, h.watch[w].refcount # 0
    PROVE  \E r : /\ WatchIs(h, Unref(h, w), w, r)
                  /\ r.refcount = h.watch[w].refcount - 1
                  /\ h.watch[w].refcount # 1 =>
                       r.watch = h.watch[w].watch /\ r.data = h.watch[w].data
                  /\ h.watch[w].refcount = 1 => r.watch = Undefined /\ r.data = Undefined
<1>1. CASE h.watch[w].refcount = 1
  <2>1. NewWatch \in WatchType /\ NewWatch.refcount = 0
        /\ NewWatch.watch = Undefined /\ NewWatch.data = Undefined
    BY DEF NewWatch, WatchType, PlainValue
  <2>2. Unref(h, w) = [h EXCEPT !.watch[w] = NewWatch]
    BY <1>1 DEF Unref
  <2>3. QED
    BY <1>1, <2>1, <2>2, ReplaceWatch
<1>2. CASE h.watch[w].refcount # 1
  <2> DEFINE r == [h.watch[w] EXCEPT !.refcount = @ - 1]
  <2>1. h.watch[w].refcount - 1 \in Nat
    BY WatchFields
  <2>2. /\ r \in WatchType /\ r.refcount = h.watch[w].refcount - 1
        /\ r.watch = h.watch[w].watch /\ r.data = h.watch[w].data
    BY <2>1, WatchFields DEF WatchType
  <2>3. Unref(h, w) = [h EXCEPT !.watch[w] = r]
    BY <1>2 DEF Unref
  <2> HIDE DEF r
  <2>4. QED
    BY <1>2, <2>2, <2>3, ReplaceWatch
<1>3. QED
  BY <1>1, <1>2

-----------------------------------------------------------------------------
(* What is allocated leads only to what is: changes that keep it so *)

LEMMA VariableKeepsSound ==
    ASSUME NEW h \in HeapType, Sound(h), NEW g, NEW o \in h.objects, NEW n, NEW v,
           VariableIs(h, g, o, n, v), SoundVariable(h, n, v)
    PROVE  Sound(g)
<1>1. g.objects = h.objects /\ g.functions = h.functions /\ g.watch = h.watch
  BY DEF VariableIs, Rest
<1>2. \A m, w : SoundVariable(h, m, w) = SoundVariable(g, m, w)
  BY <1>1 DEF SoundVariable, Refers, Calls
<1>3. ASSUME NEW x \in Objects, NEW m \in DOMAIN g.object[x].properties
      PROVE  SoundVariable(g, m, Var(g, x, m))
  <2>1. CASE x = o
    <3>1. CASE m = n
      BY <1>2, <1>3, <2>1, <3>1 DEF VariableIs
    <3>2. CASE m # n
      <4>1. m \in DOMAIN h.object[o].properties /\ Var(g, o, m) = Var(h, o, m)
        BY <1>3, <2>1, <3>2 DEF VariableIs
      <4>2. QED
        BY <1>2, <2>1, <4>1 DEF Sound
    <3>3. QED
      BY <3>1, <3>2
  <2>2. CASE x # o
    <3>1. g.object[x] = h.object[x]
      BY <2>2 DEF VariableIs, Rest
    <3>2. QED
      BY <1>2, <1>3, <3>1 DEF Sound, Var
  <2>3. QED
    BY <2>1, <2>2
<1>4. ASSUME NEW x \in Objects
      PROVE  /\ g.object[x].prototype = h.object[x].prototype
             /\ g.object[x].watches = h.object[x].watches
             /\ x \notin h.objects => g.object[x] = h.object[x]
  BY DEF VariableIs, Rest
<1>5. QED
  BY <1>1, <1>3, <1>4 DEF Sound, Refers, Calls

LEMMA GoneKeepsSound ==
    ASSUME NEW h \in HeapType, Sound(h), NEW g, NEW o \in h.objects, NEW n,
           VariableGoes(h, g, o, n)
    PROVE  Sound(g)
<1>1. g.objects = h.objects /\ g.functions = h.functions /\ g.watch = h.watch
  BY DEF VariableGoes, Rest
<1>2. \A m, w : SoundVariable(h, m, w) = SoundVariable(g, m, w)
  BY <1>1 DEF SoundVariable, Refers, Calls
<1>3. ASSUME NEW x \in Objects, NEW m \in DOMAIN g.object[x].properties
      PROVE  SoundVariable(g, m, Var(g, x, m))
  <2>1. CASE x = o
    <3>1. m \in DOMAIN h.object[o].properties /\ Var(g, o, m) = Var(h, o, m)
      BY <1>3, <2>1 DEF VariableGoes
    <3>2. QED
      BY <1>2, <2>1, <3>1 DEF Sound
  <2>2. CASE x # o
    <3>1. g.object[x] = h.object[x]
      BY <2>2 DEF VariableGoes, Rest
    <3>2. QED
      BY <1>2, <1>3, <3>1 DEF Sound, Var
  <2>3. QED
    BY <2>1, <2>2
<1>4. ASSUME NEW x \in Objects
      PROVE  /\ g.object[x].prototype = h.object[x].prototype
             /\ g.object[x].watches = h.object[x].watches
             /\ x \notin h.objects => g.object[x] = h.object[x]
  BY DEF VariableGoes, Rest
<1>5. QED
  BY <1>1, <1>3, <1>4 DEF Sound, Refers, Calls

LEMMA PrototypeKeepsSound ==
    ASSUME NEW h \in HeapType, Sound(h), NEW g, NEW o \in h.objects, NEW p, NEW f,
           PrototypeIs(h, g, o, p, f), Refers(h, p)
    PROVE  Sound(g)
<1>1. g.objects = h.objects /\ g.functions = h.functions /\ g.watch = h.watch
  BY DEF PrototypeIs, Rest
<1>2. \A m, w : SoundVariable(h, m, w) = SoundVariable(g, m, w)
  BY <1>1 DEF SoundVariable, Refers, Calls
<1>3. ASSUME NEW x \in Objects
      PROVE  /\ g.object[x].prototype = IF x = o THEN p ELSE h.object[x].prototype
             /\ g.object[x].watches = h.object[x].watches
             /\ g.object[x].properties = h.object[x].properties
             /\ x \notin h.objects => g.object[x] = h.object[x]
  BY DEF PrototypeIs, Rest
<1>4. QED
  BY <1>1, <1>2, <1>3, SMTT(40) DEF Sound, Refers, Calls, Var

LEMMA WatchKeepsSound ==
    ASSUME NEW h \in HeapType, Sound(h), NEW g, NEW w, NEW r, WatchIs(h, g, w, r),
           Listed(h, w) = {} \/ (Calls(h, r.watch) /\ Refers(h, r.data))
    PROVE  Sound(g)
<1>1. g.objects = h.objects /\ g.functions = h.functions /\ g.object = h.object
  BY DEF WatchIs
<1>2. \A m, v : SoundVariable(h, m, v) = SoundVariable(g, m, v)
  BY <1>1 DEF SoundVariable, Refers, Calls
<1>3. ASSUME NEW x \in Objects, NEW n \in DOMAIN g.object[x].watches
      PROVE  /\ Calls(h, g.watch[g.object[x].watches[n]].watch)
             /\ Refers(h, g.watch[g.object[x].watches[n]].data)
  <2>1. n \in DOMAIN h.object[x].watches /\ n \in Names /\ h.object[x].watches[n] \in Watches
    BY <1>1, <1>3, ObjectFields
  <2>2. CASE h.object[x].watches[n] = w
    <3>1. <<x, n>> \in Listed(h, w)
      BY <2>1, <2>2 DEF Listed
    <3>2. QED
      BY <1>1, <2>2, <3>1 DEF WatchIs
  <2>3. CASE h.object[x].watches[n] # w
    BY <1>1, <2>1, <2>3 DEF WatchIs, Sound
  <2>4. QED
    BY <2>2, <2>3
<1>4. QED
  BY <1>1, <1>2, <1>3 DEF Sound, Refers, Calls, Var

LEMMA ListKeepsSound ==
    ASSUME NEW h \in HeapType, Sound(h), NEW g, NEW o \in h.objects, NEW l, ListIs(h, g, o, l),
           \A n \in DOMAIN l : Calls(h, h.watch[l[n]].watch) /\ Refers(h, h.watch[l[n]].data)
    PROVE  Sound(g)
<1>1. g.objects = h.objects /\ g.functions = h.functions /\ g.watch = h.watch
  BY DEF ListIs, Rest
<1>2. \A m, w : SoundVariable(h, m, w) = SoundVariable(g, m, w)
  BY <1>1 DEF SoundVariable, Refers, Calls
<1>3. ASSUME NEW x \in Objects
      PROVE  /\ g.object[x].prototype = h.object[x].prototype
             /\ g.object[x].watches = IF x = o THEN l ELSE h.object[x].watches
             /\ g.object[x].properties = h.object[x].properties
             /\ x \notin h.objects => g.object[x] = h.object[x]
  BY DEF ListIs, Rest
<1>4. QED
  BY <1>1, <1>2, <1>3, SMTT(40) DEF Sound, Refers, Calls, Var

-----------------------------------------------------------------------------
(* Counting *)

LEMMA RunningFacts ==
    ASSUME NEW p \in Seq(CallType), NEW w
    PROVE  /\ IsFiniteSet(RunningFor(p, w)) /\ Cardinality(RunningFor(p, w)) \in Nat
           /\ RunningFor(p, w) \subseteq 1..Len(p)
<1>1. RunningFor(p, w) \subseteq 1..Len(p) /\ IsFiniteSet(1..Len(p))
  BY FS_Interval DEF RunningFor
<1>2. QED
  BY <1>1, FS_Subset, FS_CardinalityType

LEMMA RunningMore ==
    ASSUME NEW p \in Seq(CallType), NEW c \in CallType, NEW w
    PROVE  Cardinality(RunningFor(Append(p, c), w))
             = Cardinality(RunningFor(p, w)) + (IF c.watch = w THEN 1 ELSE 0)
<1> DEFINE q == Append(p, c)
<1>1. /\ Len(p) \in Nat /\ DOMAIN q = 1..Len(p) + 1 /\ q[Len(p) + 1] = c
      /\ \A i \in 1..Len(p) : q[i] = p[i]
  OBVIOUS
<1>2. Len(p) + 1 \notin RunningFor(p, w)
  BY <1>1 DEF RunningFor
<1> HIDE DEF q
<1>3. CASE c.watch = w
  <2>1. RunningFor(q, w) = RunningFor(p, w) \cup {Len(p) + 1}
    BY <1>1, <1>3 DEF RunningFor
  <2>2. QED
    BY <1>2, <1>3, <2>1, RunningFacts, FS_AddElement DEF q
<1>4. CASE c.watch # w
  <2>1. RunningFor(q, w) = RunningFor(p, w)
    BY <1>1, <1>4 DEF RunningFor
  <2>2. QED
    BY <1>4, <2>1, RunningFacts DEF q
<1>5. QED
  BY <1>3, <1>4

LEMMA SubSeqFacts ==
    ASSUME NEW S, NEW list \in Seq(S), NEW n \in 0 .. Len(list)
    PROVE  /\ SubSeq(list, 1, n) \in Seq(S) /\ Len(SubSeq(list, 1, n)) = n
           /\ \A i \in 1 .. n : SubSeq(list, 1, n)[i] = list[i]
BY SMT

LEMMA FrontFacts ==
    ASSUME NEW p \in Seq(CallType), p # <<>>
    PROVE  /\ Front(p) \in Seq(CallType) /\ Len(Front(p)) = Len(p) - 1
           /\ Len(p) \in Nat \ {0} /\ Last(p) = p[Len(p)] /\ Last(p) \in CallType
           /\ \A i \in 1..Len(p) - 1 : Front(p)[i] = p[i]
<1>1. Len(p) \in Nat \ {0}
  BY EmptySeq
<1>2. Last(p) = p[Len(p)] /\ Last(p) \in CallType
  <2>1. \A T : \A q \in Seq(T) : \A i \in 1..Len(q) : q[i] \in T
    OBVIOUS
  <2>2. QED
    BY <1>1, <2>1 DEF Last
<1>3. /\ Front(p) \in Seq(CallType) /\ Len(Front(p)) = Len(p) - 1
      /\ \A i \in 1..Len(p) - 1 : Front(p)[i] = p[i]
  <2> DEFINE n == Len(p) - 1
  <2>1. n \in 0..Len(p) /\ Front(p) = SubSeq(p, 1, n)
    BY <1>1 DEF Front
  <2> HIDE DEF n
  <2>2. /\ Front(p) \in Seq(CallType) /\ Len(Front(p)) = n
        /\ \A i \in 1..n : Front(p)[i] = p[i]
    BY <2>1, SubSeqFacts
  <2>3. QED
    BY <2>2 DEF n
<1>4. QED
  BY <1>1, <1>2, <1>3

LEMMA RunningLess ==
    ASSUME NEW p \in Seq(CallType), p # <<>>, NEW w
    PROVE  Cardinality(RunningFor(Front(p), w))
             = Cardinality(RunningFor(p, w)) - (IF Last(p).watch = w THEN 1 ELSE 0)
<1> DEFINE q == Front(p)
<1>1. /\ q \in Seq(CallType) /\ Len(q) = Len(p) - 1 /\ Len(p) \in Nat \ {0}
      /\ Last(p) = p[Len(p)] /\ \A i \in 1..Len(p) - 1 : q[i] = p[i]
  BY FrontFacts
<1> HIDE DEF q
<1>2. CASE Last(p).watch = w
  <2>1. RunningFor(q, w) = RunningFor(p, w) \ {Len(p)} /\ Len(p) \in RunningFor(p, w)
    BY <1>1, <1>2 DEF RunningFor
  <2>2. QED
    BY <1>2, <2>1, RunningFacts, FS_RemoveElement DEF q
<1>3. CASE Last(p).watch # w
  <2>1. RunningFor(q, w) = RunningFor(p, w)
    BY <1>1, <1>3 DEF RunningFor
  <2>2. QED
    BY <1>3, <2>1, RunningFacts DEF q
<1>4. QED
  BY <1>2, <1>3

\* A watch is listed once at most: counting comes down to that.
LEMMA ListedFacts ==
    ASSUME NEW h, NEW w, \A u, v \in Listed(h, w) : u = v
    PROVE  /\ IsFiniteSet(Listed(h, w))
           /\ Cardinality(Listed(h, w)) = IF Listed(h, w) = {} THEN 0 ELSE 1
<1>1. CASE Listed(h, w) = {}
  BY <1>1, FS_EmptySet
<1>2. CASE Listed(h, w) # {}
  <2>1. PICK u : u \in Listed(h, w)
    BY <1>2
  <2>2. Listed(h, w) = {u}
    BY <2>1
  <2>3. QED
    <3>1. IsFiniteSet({u}) /\ Cardinality({u}) = 1
      BY FS_Singleton
    <3>2. QED
      BY <1>2, <2>2, <3>1
<1>3. QED
  BY <1>1, <1>2

\* The watches of an object and their counts.
SameLists(h, g) == \A x \in Objects : g.object[x].watches = h.object[x].watches

LEMMA SameListed ==
    ASSUME NEW h, NEW g, SameLists(h, g), NEW w
    PROVE  Listed(g, w) = Listed(h, w)
BY DEF SameLists, Listed

LEMMA SameCounts ==
    ASSUME NEW h, NEW g, NEW p, Counted(h, p), SameLists(h, g),
           \A w \in Watches : g.watch[w].refcount = h.watch[w].refcount
    PROVE  Counted(g, p)
BY SameListed DEF Counted

LEMMA ChangesKeepLists ==
    ASSUME NEW h, NEW g, NEW o \in Objects
    PROVE  /\ \A n, v : VariableIs(h, g, o, n, v) => SameLists(h, g) /\ g.watch = h.watch
           /\ \A n : VariableGoes(h, g, o, n) => SameLists(h, g) /\ g.watch = h.watch
           /\ \A q, f : PrototypeIs(h, g, o, q, f) => SameLists(h, g) /\ g.watch = h.watch
           /\ \A w, r : WatchIs(h, g, w, r) => SameLists(h, g)
BY DEF VariableIs, VariableGoes, PrototypeIs, WatchIs, Rest, SameLists

\* A watch is called.
LEMMA CallIsCounted ==
    ASSUME NEW h \in HeapType, NEW p \in Seq(CallType), Counted(h, p), NEW w \in Watches,
           NEW g, NEW r, WatchIs(h, g, w, r), r.refcount = h.watch[w].refcount + 1,
           Listed(h, w) # {}, CanRecurse(h, w), NEW c \in CallType, c.watch = w
    PROVE  Counted(g, Append(p, c))
<1>1. SameLists(h, g)
  BY DEF WatchIs, SameLists
<1>2. ASSUME NEW x \in Watches
      PROVE  /\ g.watch[x].refcount
                  = Cardinality(Listed(g, x)) + Cardinality(RunningFor(Append(p, c), x))
             /\ \A u, v \in Listed(g, x) : u = v
             /\ Cardinality(RunningFor(Append(p, c), x)) <= WatchLimit
  <2>1. Listed(g, x) = Listed(h, x)
    BY <1>1, SameListed
  <2>2. Cardinality(Listed(h, x)) = IF Listed(h, x) = {} THEN 0 ELSE 1
    BY ListedFacts DEF Counted
  <2>3. Cardinality(RunningFor(p, x)) \in Nat /\ WatchLimit \in Nat
    BY RunningFacts, ObjectsAssumption
  <2>4. h.watch[x].refcount = Cardinality(Listed(h, x)) + Cardinality(RunningFor(p, x))
        /\ Cardinality(RunningFor(p, x)) <= WatchLimit
    BY DEF Counted
  <2>5. CASE x = w
    <3>1. g.watch[x].refcount = h.watch[x].refcount + 1
      BY <2>5 DEF WatchIs
    <3>2. Cardinality(RunningFor(Append(p, c), x)) = Cardinality(RunningFor(p, x)) + 1
      BY <2>5, RunningMore
    <3>3. h.watch[x].refcount <= WatchLimit
      BY <2>5 DEF CanRecurse
    <3>4. QED
      BY <2>1, <2>2, <2>3, <2>4, <2>5, <3>1, <3>2, <3>3 DEF Counted
  <2>6. CASE x # w
    <3>1. g.watch[x] = h.watch[x]
      BY <2>6 DEF WatchIs
    <3>2. Cardinality(RunningFor(Append(p, c), x)) = Cardinality(RunningFor(p, x))
      BY <2>3, <2>6, RunningMore
    <3>3. QED
      BY <2>1, <2>4, <3>1, <3>2 DEF Counted
  <2>7. QED
    BY <2>5, <2>6
<1>3. QED
  BY <1>2 DEF Counted

\* A watch returns.
LEMMA ReturnIsCounted ==
    ASSUME NEW h \in HeapType, NEW p \in Seq(CallType), p # <<>>, Counted(h, p),
           NEW g, NEW r, WatchIs(h, g, Last(p).watch, r),
           r.refcount = h.watch[Last(p).watch].refcount - 1
    PROVE  Counted(g, Front(p))
<1>1. SameLists(h, g)
  BY DEF WatchIs, SameLists
<1>2. ASSUME NEW x \in Watches
      PROVE  /\ g.watch[x].refcount
                  = Cardinality(Listed(g, x)) + Cardinality(RunningFor(Front(p), x))
             /\ \A u, v \in Listed(g, x) : u = v
             /\ Cardinality(RunningFor(Front(p), x)) <= WatchLimit
  <2>1. Listed(g, x) = Listed(h, x)
    BY <1>1, SameListed
  <2>2. Cardinality(Listed(h, x)) = IF Listed(h, x) = {} THEN 0 ELSE 1
    BY ListedFacts DEF Counted
  <2>3. Cardinality(RunningFor(p, x)) \in Nat /\ WatchLimit \in Nat
    BY RunningFacts, ObjectsAssumption
  <2>4. h.watch[x].refcount = Cardinality(Listed(h, x)) + Cardinality(RunningFor(p, x))
        /\ Cardinality(RunningFor(p, x)) <= WatchLimit
    BY DEF Counted
  <2>5. CASE x = Last(p).watch
    <3>1. g.watch[x].refcount = h.watch[x].refcount - 1
      BY <2>5 DEF WatchIs
    <3>2. Cardinality(RunningFor(Front(p), x)) = Cardinality(RunningFor(p, x)) - 1
      BY <2>5, RunningLess
    <3>4. QED
      BY <2>1, <2>2, <2>3, <2>4, <3>1, <3>2 DEF Counted
  <2>6. CASE x # Last(p).watch
    <3>1. g.watch[x] = h.watch[x]
      BY <2>6 DEF WatchIs
    <3>2. Cardinality(RunningFor(Front(p), x)) = Cardinality(RunningFor(p, x))
      BY <2>3, <2>6, RunningLess
    <3>3. QED
      BY <2>1, <2>4, <3>1, <3>2 DEF Counted
  <2>7. QED
    BY <2>5, <2>6
<1>3. QED
  BY <1>2 DEF Counted

\* A watch that runs or is listed is referenced.
LEMMA RunningIsReferenced ==
    ASSUME NEW h \in HeapType, NEW p \in Seq(CallType), Counted(h, p)
    PROVE  /\ p # <<>> => h.watch[Last(p).watch].refcount # 0
           /\ \A w \in Watches : Listed(h, w) # {} => h.watch[w].refcount # 0
<1>1. ASSUME NEW w \in Watches, Listed(h, w) # {} \/ RunningFor(p, w) # {}
      PROVE  h.watch[w].refcount # 0
  <2>1. Cardinality(Listed(h, w)) = IF Listed(h, w) = {} THEN 0 ELSE 1
    BY ListedFacts DEF Counted
  <2>2. Cardinality(RunningFor(p, w)) \in Nat /\ IsFiniteSet(RunningFor(p, w))
    BY RunningFacts
  <2>3. Cardinality(RunningFor(p, w)) = 0 => RunningFor(p, w) = {}
    BY <2>2, FS_EmptySet
  <2>4. QED
    BY <1>1, <2>1, <2>2, <2>3 DEF Counted
<1>2. ASSUME p # <<>>
      PROVE  Last(p).watch \in Watches /\ Len(p) \in RunningFor(p, Last(p).watch)
  <2>1. Last(p) \in CallType /\ Last(p) = p[Len(p)] /\ Len(p) \in 1..Len(p)
    BY <1>2, FrontFacts
  <2>2. Last(p).watch \in Watches
    BY <2>1 DEF CallType
  <2>3. QED
    BY <2>1, <2>2 DEF RunningFor
<1>3. QED
  BY <1>1, <1>2

LEMMA PutWatch ==
    ASSUME NEW f \in Listings, NEW n \in Names, NEW w \in Watches
    PROVE  /\ Put(f, n, w) \in Listings
           /\ DOMAIN Put(f, n, w) = DOMAIN f \cup {n}
           /\ \A m \in DOMAIN Put(f, n, w) : Put(f, n, w)[m] = IF m = n THEN w ELSE f[m]
<1> DEFINE l == Put(f, n, w)
<1>1. PICK D \in SUBSET Names : f \in [D -> Watches]
  BY DEF Listings
<1>2. l \in [D \cup {n} -> Watches] /\ DOMAIN f = D
      /\ \A m \in D \cup {n} : l[m] = IF m = n THEN w ELSE f[m]
  BY <1>1 DEF Put
<1>3. D \cup {n} \in SUBSET Names
  OBVIOUS
<1> HIDE DEF l
<1>4. l \in Listings
  BY <1>2, <1>3, Zenon DEF Listings
<1>5. QED
  BY <1>2, <1>4 DEF l

LEMMA WithoutWatch ==
    ASSUME NEW f \in Listings, NEW n
    PROVE  /\ Without(f, n) \in Listings
           /\ DOMAIN Without(f, n) = DOMAIN f \ {n}
           /\ \A m \in DOMAIN Without(f, n) : Without(f, n)[m] = f[m]
<1> DEFINE l == Without(f, n)
<1>1. PICK D \in SUBSET Names : f \in [D -> Watches]
  BY DEF Listings
<1>2. l \in [D \ {n} -> Watches] /\ D \ {n} \in SUBSET Names /\ DOMAIN f = D
      /\ \A m \in D \ {n} : l[m] = f[m]
  BY <1>1 DEF Without
<1> HIDE DEF l
<1>4. l \in Listings
  BY <1>2, Zenon DEF Listings
<1>5. QED
  BY <1>2, <1>4 DEF l

\* The list f with the watch w for the variable n.
Lists(l, f, n, w) ==
    DOMAIN l = DOMAIN f \cup {n} /\ \A m \in DOMAIN l : l[m] = IF m = n THEN w ELSE f[m]

\* A watch that was free is listed.
LEMMA NewWatchIsCounted ==
    ASSUME NEW h \in HeapType, NEW p \in Seq(CallType), Counted(h, p),
           NEW o \in Objects, NEW n \in Names, NEW w \in Watches, NEW g1, NEW g, NEW r, NEW l,
           n \notin DOMAIN h.object[o].watches, h.watch[w].refcount = 0,
           WatchIs(h, g1, w, r), r.refcount = 1, ListIs(g1, g, o, l),
           Lists(l, h.object[o].watches, n, w)
    PROVE  Counted(g, p)
<1>1. Listed(h, w) = {}
  BY RunningIsReferenced
<1>2. \A x \in Objects : g.object[x].watches = IF x = o THEN l ELSE h.object[x].watches
  BY DEF WatchIs, ListIs, Rest
<1>3. \A x \in Watches : Listed(g, x) = IF x = w THEN {<<o, n>>} ELSE Listed(h, x)
  <2>1. ASSUME NEW x \in Watches, NEW u \in Objects, NEW m \in Names
        PROVE  <<u, m>> \in Listed(g, x) <=>
                 IF x = w THEN u = o /\ m = n ELSE <<u, m>> \in Listed(h, x)
    <3>1. <<u, m>> \in Listed(g, x) <=>
            m \in DOMAIN g.object[u].watches /\ g.object[u].watches[m] = x
      BY DEF Listed
    <3>2. \A y : <<u, m>> \in Listed(h, y) <=>
            m \in DOMAIN h.object[u].watches /\ h.object[u].watches[m] = y
      BY DEF Listed
    <3>3. QED
      BY <1>1, <1>2, <3>1, <3>2 DEF Lists
  <2>2. \A x : Listed(g, x) \subseteq Objects \X Names /\ Listed(h, x) \subseteq Objects \X Names
    BY DEF Listed
  <2>3. Listed(g, w) = {<<o, n>>}
    BY <2>1, <2>2
  <2>4. ASSUME NEW x \in Watches, x # w PROVE Listed(g, x) = Listed(h, x)
    <3>1. \A u \in Objects, m \in Names :
            <<u, m>> \in Listed(g, x) <=> <<u, m>> \in Listed(h, x)
      BY <2>1, <2>4
    <3>2. \A e \in Objects \X Names : e \in Listed(g, x) <=> e \in Listed(h, x)
      BY <3>1
    <3>3. QED
      BY <2>2, <3>2
  <2>5. QED
    BY <2>3, <2>4
<1>4. \A x \in Watches : g.watch[x].refcount = IF x = w THEN 1 ELSE h.watch[x].refcount
  BY DEF WatchIs, ListIs, Rest
<1>5. Cardinality({<<o, n>>}) = 1
  BY FS_Singleton
<1>6. Cardinality(RunningFor(p, w)) = 0
  <2>1. Cardinality(Listed(h, w)) = 0
    BY <1>1, FS_EmptySet
  <2>2. QED
    BY <2>1, RunningFacts DEF Counted
<1>7. ASSUME NEW x \in Watches
      PROVE  /\ g.watch[x].refcount = Cardinality(Listed(g, x)) + Cardinality(RunningFor(p, x))
             /\ \A u, v \in Listed(g, x) : u = v
  <2>1. CASE x = w
    <3>1. Listed(g, x) = {<<o, n>>} /\ g.watch[x].refcount = 1
      BY <1>3, <1>4, <2>1
    <3>2. QED
      BY <1>5, <1>6, <2>1, <3>1
  <2>2. CASE x # w
    BY <1>3, <1>4, <2>2 DEF Counted
  <2>3. QED
    BY <2>1, <2>2
<1>8. QED
  BY <1>7 DEF Counted

\* A watch is listed no more.
LEMMA RemovedIsCounted ==
    ASSUME NEW h \in HeapType, NEW p \in Seq(CallType), Counted(h, p),
           NEW o \in Objects, NEW n \in DOMAIN h.object[o].watches,
           NEW w, w = h.object[o].watches[n], NEW g1, NEW g, NEW r, NEW l,
           WatchIs(h, g1, w, r), r.refcount = h.watch[w].refcount - 1, ListIs(g1, g, o, l),
           DOMAIN l = DOMAIN h.object[o].watches \ {n},
           \A m \in DOMAIN l : l[m] = h.object[o].watches[m]
    PROVE  Counted(g, p) /\ Listed(g, w) = {}
<1>1. n \in Names /\ w \in Watches
  BY ObjectFields
<1>2. \A x \in Objects : g.object[x].watches = IF x = o THEN l ELSE h.object[x].watches
  BY DEF WatchIs, ListIs, Rest
<1>3. <<o, n>> \in Listed(h, w)
  BY <1>1 DEF Listed
<1>4. Listed(h, w) = {<<o, n>>}
  BY <1>1, <1>3 DEF Counted
<1>5. \A x \in Watches : Listed(g, x) = IF x = w THEN {} ELSE Listed(h, x)
  <2>1. ASSUME NEW x \in Watches, NEW u \in Objects, NEW m \in Names
        PROVE  <<u, m>> \in Listed(g, x) <=> IF x = w THEN FALSE ELSE <<u, m>> \in Listed(h, x)
    <3>1. <<u, m>> \in Listed(g, x) <=>
            m \in DOMAIN g.object[u].watches /\ g.object[u].watches[m] = x
      BY DEF Listed
    <3>2. \A y : <<u, m>> \in Listed(h, y) <=>
            m \in DOMAIN h.object[u].watches /\ h.object[u].watches[m] = y
      BY DEF Listed
    <3>3. CASE x = w
      <4>1. <<u, m>> \in Listed(h, x) => u = o /\ m = n
        BY <1>4, <3>3
      <4>2. QED
        BY <1>2, <3>1, <3>2, <3>3, <4>1
    <3>4. CASE x # w
      BY <1>2, <3>1, <3>2, <3>4
    <3>5. QED
      BY <3>3, <3>4
  <2>2. \A x : Listed(g, x) \subseteq Objects \X Names /\ Listed(h, x) \subseteq Objects \X Names
    BY DEF Listed
  <2>3. Listed(g, w) = {}
    BY <1>1, <2>1, <2>2
  <2>4. ASSUME NEW x \in Watches, x # w PROVE Listed(g, x) = Listed(h, x)
    <3>1. \A u \in Objects, m \in Names :
            <<u, m>> \in Listed(g, x) <=> <<u, m>> \in Listed(h, x)
      BY <2>1, <2>4
    <3>2. \A e \in Objects \X Names : e \in Listed(g, x) <=> e \in Listed(h, x)
      BY <3>1
    <3>3. QED
      BY <2>2, <3>2
  <2>5. QED
    BY <2>3, <2>4
<1>6. \A x \in Watches : g.watch[x].refcount =
                           IF x = w THEN h.watch[w].refcount - 1 ELSE h.watch[x].refcount
  BY DEF WatchIs, ListIs, Rest
<1>7. Cardinality({<<o, n>>}) = 1 /\ Cardinality({}) = 0
  BY FS_Singleton, FS_EmptySet
<1>8. ASSUME NEW x \in Watches
      PROVE  /\ g.watch[x].refcount = Cardinality(Listed(g, x)) + Cardinality(RunningFor(p, x))
             /\ \A u, v \in Listed(g, x) : u = v
  <2>0. Cardinality(RunningFor(p, x)) \in Nat
    BY RunningFacts
  <2>1. CASE x = w
    <3>1. h.watch[w].refcount = 1 + Cardinality(RunningFor(p, w))
      BY <1>1, <1>4, <1>7, Zenon DEF Counted
    <3>2. Listed(g, x) = {} /\ g.watch[x].refcount = h.watch[w].refcount - 1
      BY <1>1, <1>5, <1>6, <2>1, Zenon
    <3>3. QED
      BY <1>7, <2>0, <2>1, <3>1, <3>2
  <2>2. CASE x # w
    BY <1>5, <1>6, <2>2 DEF Counted
  <2>3. QED
    BY <2>1, <2>2
<1>9. QED
  BY <1>1, <1>5, <1>8 DEF Counted

-----------------------------------------------------------------------------
(* What is marked is what scripts can reach *)

LEMMA NodesMember ==
    ASSUME NEW kind, NEW values, NEW node
    PROVE  node \in Nodes(kind, values) <=>
             \E o \in values \ {Undefined, Freed} : node = <<kind, o>>
BY Zenon DEF Nodes

\* The nodes that an object leads to.
LeadsTo(h, o, node) ==
    \/ /\ node[1] = "object" /\ node[2] \notin {Undefined, Freed}
       /\ \/ node[2] = h.object[o].prototype
          \/ \E n \in DOMAIN h.object[o].properties :
               Var(h, o, n).get = Undefined /\ node[2] = Var(h, o, n).value
          \/ \E n \in DOMAIN h.object[o].watches :
               node[2] = h.watch[h.object[o].watches[n]].data
    \/ /\ node[1] = "function" /\ node[2] \notin {Undefined, Freed}
       /\ \/ node[2] = o /\ o \in h.functions
          \/ \E n \in DOMAIN h.object[o].properties :
               Var(h, o, n).get # Undefined /\ node[2] \in {Var(h, o, n).get, Var(h, o, n).set}
          \/ \E n \in DOMAIN h.object[o].watches :
               node[2] = h.watch[h.object[o].watches[n]].watch

LEMMA MarkedFromObject ==
    ASSUME NEW h, NEW o, NEW node
    PROVE  node \in MarkedWith(h, <<"object", o>>) <=>
             node = <<node[1], node[2]>> /\ LeadsTo(h, o, node)
<1> DEFINE s == <<"object", o>>
           stored == UNION {IF var.get = Undefined THEN Nodes("object", {var.value})
                          ELSE Nodes("function", {var.get, var.set}) : var \in Properties(h, o)}
           watches == UNION {Nodes("function", {w.watch}) \cup Nodes("object", {w.data}) :
                               w \in WatchesOf(h, o)}
<1>1. MarkedWith(h, s) = Nodes("object", {h.object[o].prototype}) \cup stored \cup watches
                           \cup Nodes("function", {o} \cap h.functions)
  BY DEF MarkedWith
<1>2. node \in stored <=>
        \E n \in DOMAIN h.object[o].properties :
           \/ Var(h, o, n).get = Undefined /\ node \in Nodes("object", {Var(h, o, n).value})
           \/ /\ Var(h, o, n).get # Undefined
              /\ node \in Nodes("function", {Var(h, o, n).get, Var(h, o, n).set})
  BY DEF Properties
<1>3. node \in watches <=>
        \E n \in DOMAIN h.object[o].watches :
           \/ node \in Nodes("function", {h.watch[h.object[o].watches[n]].watch})
           \/ node \in Nodes("object", {h.watch[h.object[o].watches[n]].data})
  <2>1. \A f, d : node \in Nodes("function", {f}) \cup Nodes("object", {d})
                    <=> node \in Nodes("function", {f}) \/ node \in Nodes("object", {d})
    OBVIOUS
  <2>2. node \in watches <=>
          \E w \in WatchesOf(h, o) :
             node \in Nodes("function", {w.watch}) \cup Nodes("object", {w.data})
    BY Zenon
  <2>3. QED
    BY <2>1, <2>2, Zenon DEF WatchesOf
<1> HIDE DEF stored, watches
<1>4. \A kind, values : node \in Nodes(kind, values) <=>
         node = <<node[1], node[2]>> /\ node[1] = kind /\ node[2] \in values \ {Undefined, Freed}
  BY NodesMember
<1> DEFINE is(kind, v) == /\ node = <<node[1], node[2]>> /\ node[2] \notin {Undefined, Freed}
                          /\ node[1] = kind /\ node[2] = v
<1>5. /\ \A kind, v : node \in Nodes(kind, {v}) <=> is(kind, v)
      /\ \A kind, v, w : node \in Nodes(kind, {v, w}) <=> is(kind, v) \/ is(kind, w)
      /\ node \in Nodes("function", {o} \cap h.functions)
            <=> is("function", o) /\ o \in h.functions
  BY <1>4
<1> HIDE DEF is
<1>6. node \in stored <=>
        \E n \in DOMAIN h.object[o].properties :
           \/ Var(h, o, n).get = Undefined /\ is("object", Var(h, o, n).value)
           \/ /\ Var(h, o, n).get # Undefined
              /\ is("function", Var(h, o, n).get) \/ is("function", Var(h, o, n).set)
  BY <1>2, <1>5, Zenon
<1>7. node \in watches <=>
        \E n \in DOMAIN h.object[o].watches :
           \/ is("function", h.watch[h.object[o].watches[n]].watch)
           \/ is("object", h.watch[h.object[o].watches[n]].data)
  BY <1>3, <1>5, Zenon
<1>8. node \in MarkedWith(h, <<"object", o>>) <=>
        \/ is("object", h.object[o].prototype)
        \/ node \in stored
        \/ node \in watches
        \/ is("function", o) /\ o \in h.functions
  BY <1>1, <1>5
<1>9. QED
  BY <1>6, <1>7, <1>8 DEF LeadsTo, is

LEMMA LeadsFromObject ==
    ASSUME NEW h, NEW o, NEW node
    PROVE  node \in Leads(h, <<"object", o>>) <=>
             node = <<node[1], node[2]>> /\ LeadsTo(h, o, node)
<1> DEFINE plain == {var \in Properties(h, o) : var.get = Undefined}
           others == Properties(h, o) \ plain
           values == {var.value : var \in plain}
           datas == {w.data : w \in WatchesOf(h, o)}
           gets == {var.get : var \in others}
           sets == {var.set : var \in others}
           listening == {w.watch : w \in WatchesOf(h, o)}
<1>1. Leads(h, <<"object", o>>) =
        Nodes("object", {h.object[o].prototype} \cup values \cup datas)
          \cup Nodes("function", gets \cup sets \cup listening \cup ({o} \cap h.functions))
  BY DEF Leads
<1>2. \A v : v \in values <=> \E n \in DOMAIN h.object[o].properties :
                                 Var(h, o, n).get = Undefined /\ v = Var(h, o, n).value
  BY DEF Properties
<1>3. \A v : v \in gets \cup sets <=>
               \E n \in DOMAIN h.object[o].properties :
                  Var(h, o, n).get # Undefined /\ v \in {Var(h, o, n).get, Var(h, o, n).set}
  BY DEF Properties
<1>4. \A v : v \in datas <=> \E n \in DOMAIN h.object[o].watches :
                                v = h.watch[h.object[o].watches[n]].data
  BY DEF WatchesOf
<1>5. \A v : v \in listening <=> \E n \in DOMAIN h.object[o].watches :
                                v = h.watch[h.object[o].watches[n]].watch
  BY DEF WatchesOf
<1> HIDE DEF values, datas, gets, sets, listening
<1>6. \A kind, vs : node \in Nodes(kind, vs) <=>
         node = <<node[1], node[2]>> /\ node[1] = kind /\ node[2] \in vs \ {Undefined, Freed}
  BY NodesMember
<1>7. QED
  BY <1>1, <1>2, <1>3, <1>4, <1>5, <1>6 DEF LeadsTo

\* What is marked with a node is what scripts reach from it.
LEMMA MarkedIsReached ==
    ASSUME NEW h, NEW node \in AllNodes
    PROVE  MarkedWith(h, node) = Leads(h, node)
<1>1. CASE node[1] = "function"
  BY <1>1 DEF MarkedWith, Leads
<1>2. CASE node[1] = "object"
  <2>1. node = <<"object", node[2]>>
    BY <1>2 DEF AllNodes
  <2>2. QED
    BY <2>1, MarkedFromObject, LeadsFromObject
<1>3. QED
  BY <1>1, <1>2 DEF AllNodes

LEMMA ReachableIsMarked ==
    ASSUME NEW h
    PROVE  Reachable(h) = Marked(h)
<1>1. [node \in AllNodes |-> MarkedWith(h, node)] = [node \in AllNodes |-> Leads(h, node)]
  BY MarkedIsReached
<1>2. QED
  BY <1>1 DEF Reachable, Marked

LEMMA AllocatedMember ==
    ASSUME NEW h, h.objects \subseteq Objects, h.functions \subseteq Objects, NEW node
    PROVE  node \in Allocated(h) <=>
             /\ node = <<node[1], node[2]>>
             /\ \/ node[1] = "object" /\ node[2] \in h.objects
                \/ node[1] = "function" /\ node[2] \in h.functions
<1>1. Undefined \notin Objects /\ Freed \notin Objects
  BY ObjectsAssumption
<1>2. \A kind, values : node \in Nodes(kind, values) <=>
         node = <<node[1], node[2]>> /\ node[1] = kind /\ node[2] \in values \ {Undefined, Freed}
  BY NodesMember
<1>3. QED
  BY <1>1, <1>2 DEF Allocated

LEMMA AllocatedIsClosed ==
    ASSUME NEW h \in HeapType, Sound(h), NEW node \in AllNodes,
           node[1] = "function" => node[2] \in h.functions
    PROVE  MarkedWith(h, node) \subseteq Allocated(h)
<1>0. h.objects \subseteq Objects /\ h.functions \subseteq Objects
  BY HeapFields
<1>1. CASE node[1] = "function"
  <2>1. MarkedWith(h, node) = Nodes("object", {node[2]})
    BY <1>1 DEF MarkedWith
  <2>2. node[2] \in h.objects
    BY <1>1 DEF Sound
  <2>3. QED
    BY <1>0, <2>1, <2>2, NodesMember, AllocatedMember
<1>2. CASE node[1] = "object"
  <2>1. PICK o \in Objects : node = <<"object", o>>
    BY <1>2 DEF AllNodes
  <2>2. ASSUME NEW m \in MarkedWith(h, node) PROVE m \in Allocated(h)
    <3>1. m = <<m[1], m[2]>> /\ LeadsTo(h, o, m)
      BY <2>1, <2>2, MarkedFromObject
    <3>2. /\ Refers(h, h.object[o].prototype)
          /\ \A n \in DOMAIN h.object[o].properties :
               /\ Refers(h, Var(h, o, n).value) \/ Var(h, o, n).value = Freed
               /\ Calls(h, Var(h, o, n).get) /\ Calls(h, Var(h, o, n).set)
          /\ \A n \in DOMAIN h.object[o].watches :
              /\ Calls(h, h.watch[h.object[o].watches[n]].watch)
              /\ Refers(h, h.watch[h.object[o].watches[n]].data)
      BY DEF Sound, SoundVariable
    <3>3. \/ m[1] = "object" /\ m[2] \in h.objects
          \/ m[1] = "function" /\ m[2] \in h.functions
      BY <3>1, <3>2, Zenon DEF LeadsTo, Refers, Calls
    <3>4. QED
      BY <1>0, <3>1, <3>3, AllocatedMember
  <2>3. QED
    BY <2>2
<1>3. QED
  BY <1>1, <1>2 DEF AllNodes

\* What is marked: the global object, what that leads to, and nothing that is
\* not allocated.
LEMMA MarkedFacts ==
    ASSUME NEW h \in HeapType, Sound(h)
    PROVE  /\ <<"object", Global>> \in Marked(h)
           /\ Marked(h) \subseteq Allocated(h)
           /\ Marked(h) \subseteq AllNodes
           /\ \A node \in Marked(h) : MarkedWith(h, node) \subseteq Marked(h)
<1> DEFINE edges == [node \in AllNodes |-> MarkedWith(h, node)]
           start == Nodes("object", {Global})
<1>0. h.objects \subseteq Objects /\ h.functions \subseteq Objects /\ Global \in h.objects
  BY HeapFields DEF Sound
<1>1. start = {<<"object", Global>>}
  <2>1. Global \notin {Undefined, Freed}
    BY ObjectsAssumption
  <2>2. QED
    BY <2>1, NodesMember
<1>2. Allocated(h) \subseteq AllNodes
  BY <1>0, AllocatedMember DEF AllNodes
<1>3. edges \in [AllNodes -> SUBSET AllNodes]
  <2>1. ASSUME NEW node \in AllNodes PROVE MarkedWith(h, node) \subseteq AllNodes
    <3>1. CASE node[1] = "function"
      BY <3>1, NodesMember DEF MarkedWith, AllNodes
    <3>2. CASE node[1] # "function"
      BY <1>2, <3>2, AllocatedIsClosed
    <3>3. QED
      BY <3>1, <3>2
  <2>2. QED
    BY <2>1
<1>4. start \in SUBSET AllNodes /\ start # {} /\ start \subseteq Allocated(h)
  BY <1>0, <1>1, AllocatedMember DEF AllNodes
<1>5. Marked(h) = Closure(edges, start)
  BY DEF Marked
<1>6. ClosedUnder(edges, Allocated(h))
  BY <1>0, <1>2, AllocatedIsClosed, AllocatedMember DEF ClosedUnder
<1>7. /\ start \subseteq Closure(edges, start) /\ Closure(edges, start) \subseteq AllNodes
      /\ ClosedUnder(edges, Closure(edges, start))
      /\ Closure(edges, start) \subseteq Allocated(h)
  <2> HIDE DEF edges, start
  <2>1. QED
    BY <1>3, <1>4, <1>6, ClosureFacts
<1>8. QED
  BY <1>1, <1>5, <1>7 DEF ClosedUnder

-----------------------------------------------------------------------------
(* Collecting garbage *)

LEMMA NewObjectFacts ==
    /\ NewObject \in ObjectType
    /\ NewObject.prototype = Undefined /\ NewObject.flags = {}
    /\ DOMAIN NewObject.properties = {} /\ DOMAIN NewObject.watches = {}
<1>1. \A T : <<>> \in [{} -> T]
  OBVIOUS
<1>2. <<>> \in Props /\ <<>> \in Listings
  BY <1>1, Zenon DEF Props, Listings
<1>3. NewObject \in ObjectType
  BY <1>2 DEF NewObject, ObjectType, Props, PlainValue
<1>4. QED
  BY <1>1, <1>3 DEF NewObject

KeptObjects(h) == {o \in h.objects : <<"object", o>> \in Marked(h)}
KeptFunctions(h) == {f \in h.functions : <<"function", f>> \in Marked(h)}

\* What a value is after the objects that are not marked were freed.
Kept(h, v) == IF v \in h.objects \ KeptObjects(h) THEN Freed ELSE v

FreedWatches(h) == UNION {Range(h.object[o].watches) : o \in h.objects \ KeptObjects(h)}

\* The object that is left of the object o.
Remains(h, o, x) ==
    /\ x.prototype = h.object[o].prototype /\ x.flags = h.object[o].flags
    /\ x.watches = h.object[o].watches
    /\ DOMAIN x.properties = DOMAIN h.object[o].properties
    /\ \A n \in DOMAIN x.properties :
         /\ x.properties[n].value = Kept(h, Var(h, o, n).value)
         /\ x.properties[n].get = Var(h, o, n).get
         /\ x.properties[n].set = Var(h, o, n).set
         /\ x.properties[n].flags = Var(h, o, n).flags

LEMMA RemainsFacts ==
    ASSUME NEW h \in HeapType, NEW o \in Objects
    PROVE  LET x == [h.object[o] EXCEPT !.properties =
                       [n \in DOMAIN h.object[o].properties |->
                          [Var(h, o, n) EXCEPT !.value = Kept(h, Var(h, o, n).value)]]]
           IN  x \in ObjectType /\ Remains(h, o, x)
<1> DEFINE f == h.object[o].properties
           p == [n \in DOMAIN f |-> [f[n] EXCEPT !.value = Kept(h, f[n].value)]]
           x == [h.object[o] EXCEPT !.properties = p]
<1>1. PICK D \in SUBSET Names : f \in [D -> VariableType]
  <2>1. f \in Props
    BY ObjectFields
  <2> HIDE DEF f
  <2>2. QED
    BY <2>1, Zenon DEF Props
<1>2. \A v \in VariableType : Kept(h, v.value) \in PlainValue \cup {Freed}
  BY VariableFields DEF Kept
<1> HIDE DEF f
<1>3. \A n \in D : /\ p[n] \in VariableType
                   /\ p[n].value = Kept(h, f[n].value) /\ p[n].get = f[n].get
                   /\ p[n].set = f[n].set /\ p[n].flags = f[n].flags
  <2>1. ASSUME NEW n \in D
        PROVE  LET v == [f[n] EXCEPT !.value = Kept(h, f[n].value)]
               IN  /\ v \in VariableType
                   /\ v.value = Kept(h, f[n].value) /\ v.get = f[n].get
                   /\ v.set = f[n].set /\ v.flags = f[n].flags
    <3>1. f[n] \in VariableType /\ Kept(h, f[n].value) \in PlainValue \cup {Freed}
      BY <1>1, <1>2
    <3>2. QED
      BY <3>1 DEF VariableType
  <2>2. \A n \in D : p[n] = [f[n] EXCEPT !.value = Kept(h, f[n].value)]
    BY <1>1
  <2> HIDE DEF p
  <2>3. QED
    BY <2>1, <2>2
<1>4. p = [n \in D |-> p[n]]
  BY <1>1
<1> HIDE DEF p
<1>5. p \in [D -> VariableType]
  BY <1>3, <1>4
<1>6. p \in Props
  BY <1>5, Zenon DEF Props
<1>7. x = [properties |-> p, prototype |-> h.object[o].prototype,
           flags |-> h.object[o].flags, watches |-> h.object[o].watches]
  BY ObjectFields DEF ObjectType
<1>8. x = [h.object[o] EXCEPT !.properties =
                       [n \in DOMAIN h.object[o].properties |->
                          [Var(h, o, n) EXCEPT !.value = Kept(h, Var(h, o, n).value)]]]
  BY DEF p, f, Var
<1> HIDE DEF x
<1>9. x \in ObjectType
  BY <1>6, <1>7, ObjectFields DEF ObjectType, Props
<1>10. DOMAIN p = D /\ DOMAIN f = D /\ f = h.object[o].properties
  BY <1>1, <1>4 DEF f
<1>11. Remains(h, o, x)
  BY <1>3, <1>7, <1>10 DEF Remains, Var
<1>12. QED
  BY <1>8, <1>9, <1>11

LEMMA HeapIsItsFields ==
    ASSUME NEW h \in HeapType, NEW a, NEW b, NEW c, NEW d
    PROVE  [h EXCEPT !.objects = a, !.functions = b, !.object = c, !.watch = d]
             = [objects |-> a, functions |-> b, object |-> c, watch |-> d]
<1> DEFINE h1 == [h EXCEPT !.objects = a]
           h2 == [h1 EXCEPT !.functions = b]
           h3 == [h2 EXCEPT !.object = c]
<1>1. h1 = [objects |-> a, functions |-> h.functions, object |-> h.object, watch |-> h.watch]
  BY DEF HeapType
<1>2. [h EXCEPT !.objects = a, !.functions = b, !.object = c, !.watch = d]
        = [h3 EXCEPT !.watch = d]
  OBVIOUS
<1> HIDE DEF h1
<1>3. h2 = [objects |-> a, functions |-> b, object |-> h.object, watch |-> h.watch]
  BY <1>1
<1> HIDE DEF h2
<1>4. h3 = [objects |-> a, functions |-> b, object |-> c, watch |-> h.watch]
  BY <1>3
<1> HIDE DEF h3
<1>5. QED
  BY <1>2, <1>4

LEMMA CollectedFacts ==
    ASSUME NEW h \in HeapType
    PROVE  LET g == Collected(h)
           IN  /\ g \in HeapType
               /\ g.objects = KeptObjects(h) /\ g.functions = KeptFunctions(h)
               /\ \A o \in Objects \ KeptObjects(h) : g.object[o] = NewObject
               /\ \A o \in KeptObjects(h) : Remains(h, o, g.object[o])
               /\ \A w \in Watches : g.watch[w] = IF w \in FreedWatches(h) THEN NewWatch
                                                  ELSE h.watch[w]
<1> DEFINE K == KeptObjects(h)
           left(o) == [h.object[o] EXCEPT !.properties =
                         [n \in DOMAIN h.object[o].properties |->
                            [Var(h, o, n) EXCEPT !.value = Kept(h, Var(h, o, n).value)]]]
           object == [o \in Objects |-> IF o \notin K THEN NewObject ELSE left(o)]
           watch == [w \in Watches |-> IF w \in FreedWatches(h) THEN NewWatch ELSE h.watch[w]]
           g == [objects |-> K, functions |-> KeptFunctions(h), object |-> object, watch |-> watch]
<1>1. Collected(h) = g
  <2>1. Collected(h) = [h EXCEPT !.objects = K, !.functions = KeptFunctions(h),
                                 !.object = object, !.watch = watch]
    BY DEF Collected, KeptObjects, KeptFunctions, FreedWatches, Kept
  <2> HIDE DEF K, object, watch
  <2>2. QED
    BY <2>1, HeapIsItsFields
<1>2. K \in SUBSET Objects /\ KeptFunctions(h) \in SUBSET Objects
  BY HeapFields DEF KeptObjects, KeptFunctions
<1> HIDE DEF left, K
<1>3. object \in [Objects -> ObjectType]
  BY <1>2, NewObjectFacts, RemainsFacts DEF left
<1>4. watch \in [Watches -> WatchType]
  <2>1. NewWatch \in WatchType
    BY DEF NewWatch, WatchType, PlainValue
  <2>2. QED
    BY <2>1, HeapFields
<1>5. \A o \in Objects \ K : object[o] = NewObject
  OBVIOUS
<1>6. \A o \in K : Remains(h, o, object[o])
  BY <1>2, RemainsFacts DEF left
<1>7. \A w \in Watches : watch[w] = IF w \in FreedWatches(h) THEN NewWatch ELSE h.watch[w]
  OBVIOUS
<1> HIDE DEF object, watch
<1>8. g \in HeapType
  BY <1>2, <1>3, <1>4 DEF HeapType
<1>9. QED
  BY <1>1, <1>5, <1>6, <1>7, <1>8 DEF K

\* After a collection, too, what is allocated leads only to what is.
LEMMA CollectedIsSound ==
    ASSUME NEW h \in HeapType, Sound(h), Counted(h, <<>>)
    PROVE  /\ Sound(Collected(h)) /\ Counted(Collected(h), <<>>)
           /\ Allocated(Collected(h)) = Marked(h)
           /\ \A o \in KeptObjects(h) :
                /\ h.object[o].prototype \in KeptObjects(h) \cup {Undefined}
                /\ \A n \in DOMAIN h.object[o].properties :
                     Var(h, o, n).get = Undefined =>
                       Kept(h, Var(h, o, n).value) = Var(h, o, n).value
<1> DEFINE g == Collected(h)
           K == KeptObjects(h)
           F == KeptFunctions(h)
           M == Marked(h)
<1>0. /\ h.objects \subseteq Objects /\ h.functions \subseteq Objects
      /\ K \subseteq h.objects /\ F \subseteq h.functions
      /\ Undefined \notin Objects /\ Freed \notin Objects
  BY HeapFields, ObjectsAssumption DEF KeptObjects, KeptFunctions
<1>1. /\ g \in HeapType /\ g.objects = K /\ g.functions = F
      /\ \A o \in Objects \ K : g.object[o] = NewObject
      /\ \A o \in K : Remains(h, o, g.object[o])
      /\ \A w \in Watches : g.watch[w] = IF w \in FreedWatches(h) THEN NewWatch ELSE h.watch[w]
  BY CollectedFacts
<1> HIDE DEF g
<1>2. \A o \in Objects : <<"object", o>> \in M => o \in K
  <2>1. \A o \in Objects : <<"object", o>> \in Allocated(h) => o \in h.objects
    BY <1>0, AllocatedMember
  <2>2. QED
    BY <2>1, MarkedFacts DEF KeptObjects
<1>3. \A o \in Objects : <<"function", o>> \in M => o \in F
  <2>1. \A o \in Objects : <<"function", o>> \in Allocated(h) => o \in h.functions
    BY <1>0, AllocatedMember
  <2>2. QED
    BY <2>1, MarkedFacts DEF KeptFunctions
<1>4. Global \in K
  BY MarkedFacts, ObjectsAssumption, <1>2
<1>5. F \subseteq K
  <2>1. ASSUME NEW f \in F PROVE f \in K
    <3>1. <<"function", f>> \in M /\ f \in Objects
      BY <1>0 DEF KeptFunctions
    <3>2. <<"object", f>> \in MarkedWith(h, <<"function", f>>)
      BY <1>0, <3>1, NodesMember DEF MarkedWith
    <3>3. QED
      BY <1>2, <3>1, <3>2, MarkedFacts
  <2>2. QED
    BY <2>1
<1>6. ASSUME NEW o \in K, NEW kind, NEW v, LeadsTo(h, o, <<kind, v>>)
      PROVE  <<kind, v>> \in M
  <2>1. <<"object", o>> \in M
    BY DEF KeptObjects
  <2>2. <<kind, v>> \in MarkedWith(h, <<"object", o>>)
    BY <1>6, MarkedFromObject
  <2>3. QED
    BY <2>1, <2>2, MarkedFacts
<1>7. ASSUME NEW o \in K PROVE h.object[o].prototype \in K \cup {Undefined}
  <2>1. Refers(h, h.object[o].prototype)
    BY <1>0 DEF Sound
  <2>2. h.object[o].prototype # Undefined =>
          <<"object", h.object[o].prototype>> \in M
    BY <1>0, <1>6, <2>1 DEF LeadsTo, Refers
  <2>3. QED
    BY <1>0, <1>2, <2>1, <2>2 DEF Refers
<1>8. ASSUME NEW o \in K, NEW n \in DOMAIN h.object[o].properties
      PROVE  /\ Var(h, o, n).get = Undefined => Kept(h, Var(h, o, n).value) = Var(h, o, n).value
             /\ Var(h, o, n).get \in F \cup {Undefined} /\ Var(h, o, n).set \in F \cup {Undefined}
             /\ Kept(h, Var(h, o, n).value) \in K \cup {Undefined, Freed}
  <2> DEFINE v == Var(h, o, n)
  <2>1. SoundVariable(h, n, v)
    BY <1>0 DEF Sound
  <2>2. v.get = Undefined /\ v.value \in h.objects => v.value \in K
    <3>1. v.get = Undefined /\ v.value \in h.objects => LeadsTo(h, o, <<"object", v.value>>)
      BY <1>0 DEF LeadsTo
    <3>2. QED
      BY <1>0, <1>2, <1>6, <3>1
  <2>3. v.get # Undefined => v.get \in F
    <3>1. v.get # Undefined => v.get \in h.functions /\ LeadsTo(h, o, <<"function", v.get>>)
      BY <1>0, <2>1 DEF LeadsTo, SoundVariable, Calls
    <3>2. QED
      BY <1>0, <1>3, <1>6, <3>1
  <2>4. v.set # Undefined => v.set \in F
    <3>1. v.set # Undefined => v.set \in h.functions /\ LeadsTo(h, o, <<"function", v.set>>)
      BY <1>0, <2>1 DEF LeadsTo, SoundVariable, Calls
    <3>2. QED
      BY <1>0, <1>3, <1>6, <3>1
  <2> HIDE DEF v
  <2>5. Kept(h, v.value) \in K \cup {Undefined, Freed}
    BY <2>1 DEF Kept, SoundVariable, Refers
  <2>6. v.get = Undefined => Kept(h, v.value) = v.value
    BY <2>2 DEF Kept
  <2>7. QED
    BY <2>3, <2>4, <2>5, <2>6 DEF v
<1>9. ASSUME NEW o \in K, NEW n \in DOMAIN h.object[o].watches
      PROVE  /\ h.object[o].watches[n] \in Watches \ FreedWatches(h)
             /\ Calls(g, h.watch[h.object[o].watches[n]].watch)
             /\ Refers(g, h.watch[h.object[o].watches[n]].data)
  <2> DEFINE w == h.object[o].watches[n]
  <2>1. w \in Watches /\ n \in Names
    BY <1>0, ObjectFields
  <2>2. <<o, n>> \in Listed(h, w)
    BY <1>0, <2>1 DEF Listed
  <2>3. ASSUME w \in FreedWatches(h) PROVE FALSE
    <3>1. PICK x \in h.objects \ K : w \in Range(h.object[x].watches)
      BY <2>3, Zenon DEF FreedWatches
    <3>2. PICK m \in DOMAIN h.object[x].watches : w = h.object[x].watches[m]
      BY <3>1, Zenon DEF Range
    <3>3. <<x, m>> \in Listed(h, w)
      BY <1>0, <3>1, <3>2, ObjectFields DEF Listed
    <3>4. QED
      BY <2>1, <2>2, <3>1, <3>3 DEF Counted
  <2>4. /\ Calls(h, h.watch[w].watch) /\ Refers(h, h.watch[w].data)
    BY <1>0 DEF Sound
  <2>5. h.watch[w].watch # Undefined => h.watch[w].watch \in F
    <3>1. h.watch[w].watch # Undefined => LeadsTo(h, o, <<"function", h.watch[w].watch>>)
      BY <1>0, <2>4, Zenon DEF LeadsTo, Calls
    <3>2. QED
      BY <1>0, <1>3, <1>6, <2>4, <3>1, Zenon DEF Calls
  <2>6. h.watch[w].data # Undefined => h.watch[w].data \in K
    <3>1. h.watch[w].data # Undefined => LeadsTo(h, o, <<"object", h.watch[w].data>>)
      BY <1>0, <2>4, Zenon DEF LeadsTo, Refers
    <3>2. QED
      BY <1>0, <1>2, <1>6, <2>4, <3>1, Zenon DEF Refers
  <2>7. QED
    BY <1>1, <2>1, <2>3, <2>5, <2>6 DEF Calls, Refers
<1>10. ASSUME NEW o \in Objects, NEW n \in DOMAIN g.object[o].watches
       PROVE  /\ o \in K /\ n \in DOMAIN h.object[o].watches
              /\ g.object[o].watches = h.object[o].watches
              /\ g.watch[g.object[o].watches[n]] = h.watch[h.object[o].watches[n]]
  <2>1. o \in K
    BY <1>1, <1>10, NewObjectFacts
  <2>2. g.object[o].watches = h.object[o].watches
    BY <1>1, <2>1 DEF Remains
  <2>3. QED
    BY <1>1, <1>9, <1>10, <2>1, <2>2
<1>11. Sound(g)
  <2>1. ASSUME NEW o \in Objects
        PROVE  /\ Refers(g, g.object[o].prototype)
               /\ \A n \in DOMAIN g.object[o].properties : SoundVariable(g, n, Var(g, o, n))
    <3>1. CASE o \notin K
      BY <1>1, <3>1, NewObjectFacts DEF Refers
    <3>2. CASE o \in K
      <4>1. Remains(h, o, g.object[o])
        BY <1>1, <3>2
      <4>2. Refers(g, g.object[o].prototype)
        BY <1>1, <1>7, <3>2, <4>1 DEF Refers, Remains
      <4>3. ASSUME NEW n \in DOMAIN g.object[o].properties
            PROVE  SoundVariable(g, n, Var(g, o, n))
        <5>1. /\ n \in DOMAIN h.object[o].properties
              /\ Var(g, o, n).value = Kept(h, Var(h, o, n).value)
              /\ Var(g, o, n).get = Var(h, o, n).get /\ Var(g, o, n).set = Var(h, o, n).set
          BY <4>1, <4>3 DEF Remains, Var
        <5>2. SoundVariable(h, n, Var(h, o, n))
          BY <1>0, <3>2, <5>1 DEF Sound
        <5>3. QED
          BY <1>1, <1>8, <3>2, <5>1, <5>2 DEF SoundVariable, Refers, Calls
      <4>4. QED
        BY <4>2, <4>3
    <3>3. QED
      BY <3>1, <3>2
  <2>2. ASSUME NEW o \in Objects, NEW n \in DOMAIN g.object[o].watches
        PROVE  /\ Calls(g, g.watch[g.object[o].watches[n]].watch)
               /\ Refers(g, g.watch[g.object[o].watches[n]].data)
    BY <1>9, <1>10, <2>2
  <2>3. QED
    BY <1>1, <1>4, <1>5, <2>1, <2>2 DEF Sound
<1>12. Counted(g, <<>>)
  <2>1. \A w : RunningFor(<<>>, w) = {} /\ Cardinality(RunningFor(<<>>, w)) = 0
    BY FS_EmptySet DEF RunningFor
  <2>2. ASSUME NEW w \in Watches PROVE Listed(g, w) \subseteq Listed(h, w)
    <3>1. ASSUME NEW o \in Objects, NEW n \in Names, <<o, n>> \in Listed(g, w)
          PROVE  <<o, n>> \in Listed(h, w)
      BY <1>10, <3>1 DEF Listed
    <3>2. Listed(g, w) \subseteq Objects \X Names
      BY DEF Listed
    <3>3. QED
      BY <3>1, <3>2
  <2>3. ASSUME NEW w \in Watches \ FreedWatches(h) PROVE Listed(g, w) = Listed(h, w)
    <3>1. ASSUME NEW o \in Objects, NEW n \in Names, <<o, n>> \in Listed(h, w)
          PROVE  <<o, n>> \in Listed(g, w)
      <4>1. n \in DOMAIN h.object[o].watches /\ h.object[o].watches[n] = w
        BY <3>1 DEF Listed
      <4>2. o \in h.objects
        BY <4>1, NewObjectFacts DEF Sound
      <4>3. o \in K
        <5>1. o \notin K => w \in FreedWatches(h)
          <6>1. w \in Range(h.object[o].watches)
            BY <4>1, Zenon DEF Range
          <6>2. QED
            BY <4>2, <6>1, Zenon DEF FreedWatches
        <5>2. QED
          BY <2>3, <5>1
      <4>4. g.object[o].watches = h.object[o].watches
        BY <1>1, <4>3 DEF Remains
      <4>5. QED
        BY <4>1, <4>4 DEF Listed
    <3>2. Listed(h, w) \subseteq Objects \X Names
      BY DEF Listed
    <3>3. \A e \in Objects \X Names : e \in Listed(h, w) => e \in Listed(g, w)
      BY <3>1
    <3>4. QED
      BY <2>2, <3>2, <3>3
  <2>4. ASSUME NEW w \in Watches, w \in FreedWatches(h) PROVE Listed(g, w) = {}
    <3>1. ASSUME NEW o \in Objects, NEW n \in Names, <<o, n>> \in Listed(g, w)
          PROVE  FALSE
      <4>1. n \in DOMAIN g.object[o].watches /\ g.object[o].watches[n] = w
        BY <3>1 DEF Listed
      <4>2. QED
        BY <1>9, <1>10, <2>4, <4>1
    <3>2. Listed(g, w) \subseteq Objects \X Names
      BY DEF Listed
    <3>3. QED
      BY <3>1, <3>2
  <2>5. ASSUME NEW w \in Watches
        PROVE  /\ g.watch[w].refcount = Cardinality(Listed(g, w)) + Cardinality(RunningFor(<<>>, w))
               /\ \A u, v \in Listed(g, w) : u = v
               /\ Cardinality(RunningFor(<<>>, w)) <= WatchLimit
    <3>1. CASE w \in FreedWatches(h)
      <4>1. g.watch[w].refcount = 0
        BY <1>1, <3>1 DEF NewWatch
      <4>2. Cardinality(Listed(g, w)) = 0
        BY <2>4, <3>1, FS_EmptySet
      <4>3. QED
        BY <2>1, <2>4, <3>1, <4>1, <4>2, ObjectsAssumption
    <3>2. CASE w \notin FreedWatches(h)
      <4>1. g.watch[w] = h.watch[w] /\ Listed(g, w) = Listed(h, w)
        BY <1>1, <2>3, <3>2
      <4>2. QED
        BY <4>1 DEF Counted
    <3>3. QED
      BY <3>1, <3>2
  <2>6. QED
    BY <2>5 DEF Counted
<1>13. Allocated(g) = M
  <2>1. \A node : node \in Allocated(g) <=>
          /\ node = <<node[1], node[2]>>
          /\ \/ node[1] = "object" /\ node[2] \in K
             \/ node[1] = "function" /\ node[2] \in F
    BY <1>0, <1>1, AllocatedMember
  <2>2. ASSUME NEW node \in M PROVE node \in Allocated(g)
    BY <1>2, <1>3, <2>1, MarkedFacts DEF AllNodes
  <2>3. ASSUME NEW node \in Allocated(g) PROVE node \in M
    BY <2>1 DEF KeptObjects, KeptFunctions
  <2>4. QED
    BY <2>2, <2>3
<1>14. QED
  BY <1>7, <1>8, <1>11, <1>12, <1>13 DEF g

-----------------------------------------------------------------------------
(* The prototype that lookups follow *)

\* Nothing about the prototype of the object o changes.
ProtoSame(h, g, o) ==
    /\ g.object[o].prototype = h.object[o].prototype /\ g.object[o].flags = h.object[o].flags
    /\ Has(g, o, Proto) => /\ Has(h, o, Proto)
                           /\ Var(g, o, Proto).value = Var(h, o, Proto).value
                           /\ Var(g, o, Proto).flags = Var(h, o, Proto).flags

LEMMA SameAgrees ==
    ASSUME NEW h, NEW g, NEW o, ProtoSame(h, g, o), Agrees(h, o)
    PROVE  Agrees(g, o)
BY DEF ProtoSame, Agrees

LEMMA OthersStay ==
    ASSUME NEW h, NEW g, NEW x \in Objects
    PROVE  /\ \A o, n, v : VariableIs(h, g, o, n, v) /\ (x # o \/ n # Proto) => ProtoSame(h, g, x)
           /\ \A o, n : VariableGoes(h, g, o, n) => ProtoSame(h, g, x)
           /\ \A o, q, f : PrototypeIs(h, g, o, q, f) /\ x # o => ProtoSame(h, g, x)
           /\ \A o, l : ListIs(h, g, o, l) => ProtoSame(h, g, x)
           /\ \A w, r : WatchIs(h, g, w, r) => ProtoSame(h, g, x)
<1>1. ASSUME NEW o, Rest(h, g, o), x # o PROVE ProtoSame(h, g, x)
  BY <1>1 DEF Rest, ProtoSame, Has, Var
<1>2. ASSUME NEW n, NEW v, VariableIs(h, g, x, n, v), n # Proto PROVE ProtoSame(h, g, x)
  BY <1>2 DEF VariableIs, ProtoSame, Has
<1>3. ASSUME NEW n, VariableGoes(h, g, x, n) PROVE ProtoSame(h, g, x)
  BY <1>3 DEF VariableGoes, ProtoSame, Has
<1>4. ASSUME NEW l, ListIs(h, g, x, l) PROVE ProtoSame(h, g, x)
  BY <1>4 DEF ListIs, ProtoSame, Has, Var
<1>5. ASSUME NEW w, NEW r, WatchIs(h, g, w, r) PROVE ProtoSame(h, g, x)
  BY <1>5 DEF WatchIs, ProtoSame, Has, Var
<1>6. \A o : /\ \A n, v : VariableIs(h, g, o, n, v) => Rest(h, g, o)
             /\ \A n : VariableGoes(h, g, o, n) => Rest(h, g, o)
             /\ \A q, f : PrototypeIs(h, g, o, q, f) => Rest(h, g, o)
             /\ \A l : ListIs(h, g, o, l) => Rest(h, g, o)
  BY DEF VariableIs, VariableGoes, PrototypeIs, ListIs
<1>7. QED
  BY <1>1, <1>2, <1>3, <1>4, <1>5, <1>6, Zenon

LEMMA BusyMore ==
    ASSUME NEW p \in Seq(CallType), NEW c \in CallType, NEW o
    PROVE  Busy(Append(p, c), o) <=> Busy(p, o) \/ (c.object = o /\ c.name = Proto)
<1> DEFINE q == Append(p, c)
<1>1. /\ Len(p) \in Nat /\ DOMAIN q = 1..Len(p) + 1 /\ q[Len(p) + 1] = c
      /\ DOMAIN p = 1..Len(p) /\ \A i \in 1..Len(p) : q[i] = p[i]
  OBVIOUS
<1> HIDE DEF q
<1>2. Busy(q, o) <=> Busy(p, o) \/ (c.object = o /\ c.name = Proto)
  BY <1>1 DEF Busy
<1>3. QED
  BY <1>2 DEF q

LEMMA BusyLess ==
    ASSUME NEW p \in Seq(CallType), p # <<>>, NEW o
    PROVE  Busy(p, o) <=>
             Busy(Front(p), o) \/ (Last(p).object = o /\ Last(p).name = Proto)
<1> DEFINE q == Front(p)
<1>1. /\ q \in Seq(CallType) /\ Len(q) = Len(p) - 1 /\ Len(p) \in Nat \ {0}
      /\ Last(p) = p[Len(p)] /\ \A i \in 1..Len(p) - 1 : q[i] = p[i]
  BY FrontFacts
<1> HIDE DEF q
<1>2. DOMAIN q = 1..Len(p) - 1 /\ DOMAIN p = 1..Len(p)
  BY <1>1
<1>3. Busy(p, o) <=> Busy(q, o) \/ (Last(p).object = o /\ Last(p).name = Proto)
  BY <1>1, <1>2 DEF Busy
<1>4. QED
  BY <1>3 DEF q

-----------------------------------------------------------------------------
(* Values that were freed *)

LEMMA DanglesChange ==
    ASSUME NEW h, NEW g, NEW x \in Objects, NEW m
    PROVE  /\ \A o, n, v : VariableIs(h, g, o, n, v) =>
                (Dangles(g, x, m) =>
                  IF x = o /\ m = n THEN v.value = Freed /\ v.get = Undefined
                  ELSE Dangles(h, x, m))
           /\ \A o, n : VariableGoes(h, g, o, n) => (Dangles(g, x, m) => Dangles(h, x, m))
           /\ \A o, q, f : PrototypeIs(h, g, o, q, f) => (Dangles(g, x, m) => Dangles(h, x, m))
           /\ \A o, l : ListIs(h, g, o, l) => (Dangles(g, x, m) => Dangles(h, x, m))
           /\ \A w, r : WatchIs(h, g, w, r) => (Dangles(g, x, m) => Dangles(h, x, m))
<1>1. ASSUME NEW o, Rest(h, g, o), x # o, Dangles(g, x, m) PROVE Dangles(h, x, m)
  BY <1>1 DEF Rest, Dangles, Has, Var
<1>2. ASSUME NEW n, NEW v, VariableIs(h, g, x, n, v), Dangles(g, x, m)
      PROVE  IF m = n THEN v.value = Freed /\ v.get = Undefined ELSE Dangles(h, x, m)
  BY <1>2 DEF VariableIs, Dangles, Has
<1>3. ASSUME NEW n, VariableGoes(h, g, x, n), Dangles(g, x, m) PROVE Dangles(h, x, m)
  BY <1>3 DEF VariableGoes, Dangles, Has
<1>4. ASSUME NEW l, ListIs(h, g, x, l), Dangles(g, x, m) PROVE Dangles(h, x, m)
  BY <1>4 DEF ListIs, Dangles, Has, Var
<1>5. ASSUME NEW w, NEW r, WatchIs(h, g, w, r), Dangles(g, x, m) PROVE Dangles(h, x, m)
  BY <1>5 DEF WatchIs, Dangles, Has, Var
<1>6. ASSUME NEW q, NEW f, PrototypeIs(h, g, x, q, f), Dangles(g, x, m) PROVE Dangles(h, x, m)
  BY <1>6 DEF PrototypeIs, Dangles, Has, Var
<1>7. \A o : /\ \A n, v : VariableIs(h, g, o, n, v) => Rest(h, g, o)
             /\ \A n : VariableGoes(h, g, o, n) => Rest(h, g, o)
             /\ \A q, f : PrototypeIs(h, g, o, q, f) => Rest(h, g, o)
             /\ \A l : ListIs(h, g, o, l) => Rest(h, g, o)
  BY DEF VariableIs, VariableGoes, PrototypeIs, ListIs
<1>8. ASSUME NEW o, NEW n, NEW v, VariableIs(h, g, o, n, v), Dangles(g, x, m)
      PROVE  IF x = o /\ m = n THEN v.value = Freed /\ v.get = Undefined ELSE Dangles(h, x, m)
  <2>1. CASE x = o
    BY <1>2, <1>8, <2>1
  <2>2. CASE x # o
    BY <1>1, <1>7, <1>8, <2>2
  <2>3. QED
    BY <2>1, <2>2
<1>9. QED
  BY <1>1, <1>3, <1>4, <1>5, <1>6, <1>7, <1>8, Zenon

-----------------------------------------------------------------------------
(* The two halves of setting a variable keep all of this *)

\* The heap g has what is allocated in h, and the watches of h.
Settled(h, g) ==
    /\ g \in HeapType /\ g.objects = h.objects /\ g.functions = h.functions
    /\ Sound(g)

LEMMA PreparedKeeps ==
    ASSUME NEW h \in HeapType, Sound(h), NEW at \in h.objects, NEW n \in Names
    PROVE  LET g == Prepared(h, at, n)
           IN  /\ Settled(h, g) /\ SameLists(h, g) /\ g.watch = h.watch /\ Has(g, at, n)
               /\ \A x \in Objects : \A m : Dangles(g, x, m) =>
                    \/ Dangles(h, x, m)
                    \/ /\ x = at /\ m = n /\ Has(h, at, n) /\ Var(h, at, n).value = Freed
                       /\ "later" \in Var(h, at, n).flags
               /\ \A x \in Objects : x # at \/ n # Proto => ProtoSame(h, g, x)
               /\ "constant" \in Var(g, at, n).flags =>
                    "constant" \in Var(h, at, n).flags /\ ProtoSame(h, g, at)
<1> DEFINE g == Prepared(h, at, n)
           old == IF Has(h, at, n) THEN Var(h, at, n) ELSE NewVariable
<1>0. at \in Objects /\ Freed # Undefined
  BY HeapFields, ObjectsAssumption
<1>1. PICK new : VariableIs(h, g, at, n, new) /\ Renewed(h, at, n, new)
  BY <1>0, PreparedFacts
<1> HIDE DEF g
<1>2. SoundVariable(h, n, old)
  <2>1. CASE Has(h, at, n)
    BY <1>0, <2>1 DEF Sound, Has
  <2>2. CASE ~Has(h, at, n)
    BY <2>2, NewVariableFacts DEF SoundVariable, Refers, Calls
  <2>3. QED
    BY <2>1, <2>2
<1>3. /\ new.value = old.value
      /\ "constant" \in old.flags => new.flags = old.flags
      /\ "constant" \notin old.flags => new.flags = old.flags \ {"later"}
      /\ "later" \in old.flags => new.get = Undefined /\ new.set = Undefined
      /\ "later" \notin old.flags => new.get = old.get /\ new.set = old.set
  BY <1>1 DEF Renewed
<1>4. SoundVariable(h, n, new)
  <2> HIDE DEF old
  <2>1. QED
    BY <1>2, <1>3 DEF SoundVariable, Refers, Calls
<1>5. Sound(g)
  BY <1>1, <1>4, VariableKeepsSound
<1>6. SameLists(h, g) /\ g.watch = h.watch
  BY <1>0, <1>1, ChangesKeepLists
<1>7. Settled(h, g) /\ Has(g, at, n) /\ Var(g, at, n) = new
  BY <1>1, <1>5 DEF Settled, VariableIs, Rest, Has
<1>8. ASSUME NEW x \in Objects, NEW m, Dangles(g, x, m)
      PROVE  \/ Dangles(h, x, m)
             \/ /\ x = at /\ m = n /\ Has(h, at, n) /\ Var(h, at, n).value = Freed
                /\ "later" \in Var(h, at, n).flags
  <2>1. IF x = at /\ m = n THEN new.value = Freed /\ new.get = Undefined ELSE Dangles(h, x, m)
    BY <1>1, <1>8, DanglesChange
  <2>2. CASE x = at /\ m = n
    <3>1. old.value = Freed
      BY <1>3, <2>1, <2>2
    <3>2. Has(h, at, n) /\ old = Var(h, at, n)
      BY <1>0, <3>1, NewVariableFacts
    <3>3. QED
      BY <1>3, <2>1, <2>2, <3>1, <3>2 DEF Dangles
  <2>3. QED
    BY <2>1, <2>2
<1>9. ASSUME NEW x \in Objects, x # at \/ n # Proto PROVE ProtoSame(h, g, x)
  BY <1>1, <1>9, OthersStay
<1>10. ASSUME "constant" \in Var(g, at, n).flags
       PROVE  "constant" \in Var(h, at, n).flags /\ ProtoSame(h, g, at)
  <2>1. "constant" \in old.flags
    BY <1>3, <1>7, <1>10
  <2>2. Has(h, at, n) /\ old = Var(h, at, n)
    BY <2>1, NewVariableFacts
  <2>3. Var(g, at, n).value = Var(h, at, n).value /\ Var(g, at, n).flags = Var(h, at, n).flags
    BY <1>3, <1>7, <2>1, <2>2
  <2>4. CASE n = Proto
    BY <1>1, <2>1, <2>2, <2>3, <2>4 DEF ProtoSame, VariableIs
  <2>5. CASE n # Proto
    BY <1>0, <1>9, <2>1, <2>2, <2>5
  <2>6. QED
    BY <2>4, <2>5
<1>11. QED
  BY <1>6, <1>7, <1>8, <1>9, <1>10 DEF g

LEMMA FinishedKeeps ==
    ASSUME NEW h \in HeapType, Sound(h), NEW o \in h.objects, NEW at \in h.objects,
           NEW n, Has(h, at, n), n = Proto => at = o,
           NEW hasWatches, NEW set, NEW value, Refers(h, set), Refers(h, value)
    PROVE  LET g == Finished(h, o, n, at, hasWatches, set, value)
           IN  /\ Settled(h, g) /\ SameLists(h, g) /\ g.watch = h.watch
               /\ \A x \in Objects : \A m :
                    Dangles(g, x, m) => Dangles(h, x, m) /\ ~(x = at /\ m = n)
               /\ \A x \in Objects : x # o \/ n # Proto => ProtoSame(h, g, x)
               /\ n = Proto /\ set = value => Agrees(g, o)
<1> DEFINE f == Finished(h, o, n, at, hasWatches, set, value)
           old == Var(h, at, n)
<1>0. /\ o \in Objects /\ at \in Objects /\ set \in PlainValue /\ value \in PlainValue
      /\ Freed \notin PlainValue
  BY HeapFields, ObjectsAssumption DEF Refers, PlainValue
<1>1. PICK g, new :
         /\ VariableIs(h, g, at, n, new)
         /\ Valued(old, new, hasWatches, value)
         /\ n # Proto => f = g
         /\ n = Proto => PrototypeIs(g, f, o, set, IF set = Undefined THEN {} ELSE new.flags)
  BY <1>0, FinishedFacts
<1> HIDE DEF f
<1>2. SoundVariable(h, n, old)
  BY <1>0 DEF Sound, Has
<1>3. SoundVariable(h, n, new)
  <2> HIDE DEF old
  <2>1. /\ new.value \in {value, old.value}
        /\ new.get = old.get /\ new.set = old.set
    BY <1>1 DEF Valued
  <2>2. QED
    BY <1>2, <2>1 DEF SoundVariable, Refers, Calls
<1>4. Sound(g) /\ g \in HeapType /\ g.objects = h.objects /\ g.functions = h.functions
  BY <1>1, <1>3, VariableKeepsSound DEF VariableIs, Rest
<1>5. SameLists(h, g) /\ g.watch = h.watch
  BY <1>0, <1>1, ChangesKeepLists
<1>6. new.value # Freed \/ new.get # Undefined
  BY <1>0, <1>1 DEF Valued
<1>7. \A x \in Objects : \A m : Dangles(g, x, m) => Dangles(h, x, m) /\ ~(x = at /\ m = n)
  BY <1>1, <1>6, DanglesChange
<1>8. \A x \in Objects : x # at \/ n # Proto => ProtoSame(h, g, x)
  BY <1>1, OthersStay
<1>9. CASE n # Proto
  BY <1>1, <1>4, <1>5, <1>7, <1>8, <1>9 DEF Settled, f
<1>10. CASE n = Proto
  <2> DEFINE flags == IF set = Undefined THEN {} ELSE new.flags
  <2>1. PrototypeIs(g, f, o, set, flags)
    BY <1>1, <1>10
  <2>2. Sound(f) /\ f \in HeapType /\ f.objects = h.objects /\ f.functions = h.functions
    <3>1. Refers(g, set)
      BY <1>4 DEF Refers
    <3>2. Sound(f)
      BY <1>4, <2>1, <3>1, PrototypeKeepsSound
    <3>3. QED
      BY <1>4, <2>1, <3>2 DEF PrototypeIs, Rest
  <2>3. SameLists(h, f) /\ f.watch = h.watch
    <3>1. SameLists(g, f) /\ f.watch = g.watch
      BY <1>0, <2>1, ChangesKeepLists
    <3>2. QED
      BY <1>5, <3>1 DEF SameLists
  <2>4. \A x \in Objects : \A m : Dangles(f, x, m) => Dangles(h, x, m) /\ ~(x = at /\ m = n)
    BY <1>7, <2>1, DanglesChange
  <2>5. ASSUME NEW x \in Objects, x # o PROVE ProtoSame(h, f, x)
    <3>1. ProtoSame(h, g, x) /\ ProtoSame(g, f, x)
      BY <1>8, <1>10, <2>1, <2>5, OthersStay
    <3>2. QED
      BY <3>1 DEF ProtoSame
  <2>6. set = value => Agrees(f, o)
    <3>1. new.value = value
      BY <1>1, <1>2, <1>10 DEF SoundVariable, Valued
    <3>2. Has(f, o, Proto) /\ Var(f, o, Proto) = new
      BY <1>1, <1>10, <2>1 DEF PrototypeIs, VariableIs, Has, Var
    <3>3. f.object[o].prototype = set /\ f.object[o].flags = flags
      BY <2>1 DEF PrototypeIs
    <3>4. QED
      BY <3>1, <3>2, <3>3 DEF Agrees
  <2>7. QED
    BY <1>10, <2>2, <2>3, <2>4, <2>5, <2>6 DEF Settled, f
<1>11. QED
  BY <1>9, <1>10

-----------------------------------------------------------------------------
(* The steps *)

LEMMA NothingFreed ==
    ASSUME heap.objects \subseteq heap'.objects, heap.functions \subseteq heap'.functions
    PROVE  AllGarbageGoes
BY DEF AllGarbageGoes, Allocated, Nodes

\* What a step has to keep: the invariant, and what GarbageGoes says of steps.
Keeps == ObjectsInv' /\ FreedStaysHidden /\ AllGarbageGoes

\* The calls are the same, or one more is waiting: none has returned.
LEMMA NoneReturned ==
    ASSUME pending \in Seq(CallType),
           pending' = pending \/ \E c : pending' = Append(pending, c),
           pending' = Front(pending)
    PROVE  \A o, n : ~About(pending, o, n)
<1>1. SUFFICES ASSUME pending # <<>> PROVE FALSE
  BY DEF About
<1>2. Len(pending') = Len(pending) - 1 /\ Len(pending) \in Nat
  BY <1>1, FrontFacts
<1>3. Len(pending') \in {Len(pending), Len(pending) + 1}
  OBVIOUS
<1>4. QED
  BY <1>2, <1>3

\* Steps that change nothing but the heap, and free nothing.
LEMMA QuietStep ==
    ASSUME ObjectsInv, Settled(heap, heap'), Counted(heap', pending),
           UNCHANGED <<pending, aborted, known, overruled>>,
           \A x \in Objects : Agrees(heap, x) => Agrees(heap', x),
           \A x \in Objects : \A m : Dangles(heap', x, m) => Dangles(heap, x, m)
    PROVE  Keeps
<1>1. Typed'
  BY DEF ObjectsInv, Typed, Settled
<1>2. Waiting(heap', pending)
  BY DEF ObjectsInv, Waiting, Settled, Refers
<1>3. Chained(heap', pending, overruled)
  <2>1. heap.objects \subseteq Objects
    BY HeapFields DEF ObjectsInv, Typed
  <2>2. QED
    BY <2>1 DEF ObjectsInv, Chained, Settled
<1>4. ObjectsInv'
  BY <1>1, <1>2, <1>3 DEF ObjectsInv, Settled
<1>5. FreedStaysHidden
  BY NoneReturned DEF FreedStaysHidden, ObjectsInv, Typed
<1>6. AllGarbageGoes
  BY NothingFreed DEF Settled
<1>7. QED
  BY <1>4, <1>5, <1>6 DEF Keeps

LEMMA SetVariableKeeps ==
    ASSUME ObjectsInv, NEW o \in known, NEW n \in Names, NEW v \in ValuesOf(known),
           SetVariable(o, n, v)
    PROVE  Keeps
<1> DEFINE found == LookupWithPrototype(heap, o, n)
           at == Target(heap, o, n, found)
           h == Prepared(heap, at, n)
           watches == heap.object[o].watches
<1>1. /\ heap \in HeapType /\ Sound(heap) /\ Counted(heap, pending)
      /\ pending \in Seq(CallType) /\ known \subseteq heap.objects
      /\ Waiting(heap, pending) /\ Chained(heap, pending, overruled)
      /\ overruled \subseteq heap.objects
      /\ heap.objects \subseteq Objects /\ o \in heap.objects /\ o \in Objects
      /\ Refers(heap, v) /\ v \in PlainValue
  BY HeapFields DEF ObjectsInv, Typed, ValuesOf, Refers, PlainValue
<1>2. /\ aborted' = (found = TooDeep) /\ known' = known
      /\ \/ /\ "constant" \in Var(h, at, n).flags
            /\ heap' = h
            /\ UNCHANGED <<pending, overruled>>
         \/ /\ "constant" \notin Var(h, at, n).flags
            /\ n \in DOMAIN watches /\ CanRecurse(h, watches[n])
            /\ heap' = Ref(h, watches[n])
            /\ pending' = Append(pending, [object |-> o, name |-> n, value |-> v,
                                       watch |-> watches[n]])
            /\ UNCHANGED overruled
         \/ /\ "constant" \notin Var(h, at, n).flags
            /\ heap' = Finished(h, o, n, at, watches # <<>>, v, v)
            /\ overruled' = Overruled(o, n, v, v)
            /\ UNCHANGED pending
  BY DEF SetVariable
<1>3. /\ at \in heap.objects /\ (n = Proto => at = o)
      /\ Has(heap, at, n) /\ "later" \in Var(heap, at, n).flags => at = o
  <2>1. /\ found \in heap.objects \cup {Undefined, TooDeep}
        /\ n = Proto => found \in {o, Undefined}
    BY <1>1, LookupFacts
  <2>2. Undefined \notin Objects /\ TooDeep \notin Objects
    BY ObjectsAssumption
  <2> HIDE DEF found
  <2>3. QED
    BY <1>1, <2>1, <2>2 DEF Target
<1> HIDE DEF found, at
<1>4. /\ Settled(heap, h) /\ SameLists(heap, h) /\ h.watch = heap.watch /\ Has(h, at, n)
      /\ \A x \in Objects : \A m : Dangles(h, x, m) =>
           \/ Dangles(heap, x, m)
           \/ /\ x = at /\ m = n /\ Has(heap, at, n) /\ Var(heap, at, n).value = Freed
              /\ "later" \in Var(heap, at, n).flags
      /\ \A x \in Objects : x # at \/ n # Proto => ProtoSame(heap, h, x)
      /\ "constant" \in Var(h, at, n).flags =>
           "constant" \in Var(heap, at, n).flags /\ ProtoSame(heap, h, at)
  BY <1>1, <1>3, PreparedKeeps
<1> HIDE DEF h
<1>5. Counted(h, pending)
  BY <1>1, <1>4, SameCounts
<1>6. CASE /\ "constant" \in Var(h, at, n).flags
           /\ heap' = h
           /\ UNCHANGED <<pending, overruled>>
  <2>1. ObjectsInv'
    <3>1. \A x \in Objects : ProtoSame(heap, heap', x)
      BY <1>4, <1>6
    <3>2. Chained(heap', pending, overruled)
      BY <1>1, <1>4, <1>6, <3>1, SameAgrees DEF Chained, Settled
    <3>3. Waiting(heap', pending)
      BY <1>1, <1>4, <1>6 DEF Waiting, Settled, Refers
    <3>4. Typed'
      BY <1>1, <1>2, <1>4, <1>6 DEF Typed, Settled
    <3>5. QED
      BY <1>4, <1>5, <1>6, <3>2, <3>3, <3>4 DEF ObjectsInv, Settled
  <2>2. FreedStaysHidden
    <3>1. \A x, m : pending' = Front(pending) => ~About(pending, x, m)
      BY <1>1, <1>6, NoneReturned
    <3>2. QED
      BY <1>4, <1>6, <3>1 DEF FreedStaysHidden
  <2>3. AllGarbageGoes
    BY <1>4, <1>6, NothingFreed DEF Settled
  <2>4. QED
    BY <2>1, <2>2, <2>3 DEF Keeps
<1>7. CASE /\ n \in DOMAIN watches /\ CanRecurse(h, watches[n])
           /\ heap' = Ref(h, watches[n])
           /\ pending' = Append(pending, [object |-> o, name |-> n, value |-> v,
                                      watch |-> watches[n]])
           /\ UNCHANGED overruled
  <2> DEFINE w == watches[n]
             c == [object |-> o, name |-> n, value |-> v, watch |-> w]
  <2>1. w \in Watches /\ <<o, n>> \in Listed(heap, w) /\ Listed(h, w) = Listed(heap, w)
    <3>1. n \in DOMAIN heap.object[o].watches /\ w = heap.object[o].watches[n]
      BY <1>7
    <3>2. w \in Watches
      BY <1>1, <3>1, ObjectFields
    <3> HIDE DEF w, watches
    <3>3. <<o, n>> \in Objects \X Names /\ <<o, n>>[1] = o /\ <<o, n>>[2] = n
      BY <1>1
    <3>4. <<o, n>> \in Listed(heap, w)
      BY <3>1, <3>3 DEF Listed
    <3>5. Listed(h, w) = Listed(heap, w)
      BY <1>4, SameListed
    <3>6. QED
      BY <3>2, <3>4, <3>5
  <2>2. c \in CallType /\ c.object = o /\ c.name = n /\ c.value = v /\ c.watch = w
    BY <1>1, <2>1 DEF CallType
  <2> HIDE DEF c, w
  <2>3. heap' = Ref(h, w) /\ pending' = Append(pending, c) /\ CanRecurse(h, w)
    BY <1>7 DEF c, w
  <2>4. PICK r : /\ WatchIs(h, heap', w, r) /\ r.refcount = h.watch[w].refcount + 1
                 /\ r.watch = h.watch[w].watch /\ r.data = h.watch[w].data
    BY <1>4, <2>1, <2>3, RefFacts DEF Settled
  <2>5. Counted(heap', pending')
    BY <1>1, <1>4, <1>5, <2>1, <2>2, <2>3, <2>4, CallIsCounted DEF Settled
  <2>6. Sound(heap')
    <3>1. Calls(h, h.watch[w].watch) /\ Refers(h, h.watch[w].data)
      <4>1. n \in DOMAIN h.object[o].watches /\ h.object[o].watches[n] = w
        BY <1>1, <1>4, <1>7 DEF SameLists, w
      <4>2. QED
        BY <1>1, <1>4, <4>1 DEF Settled, Sound
    <3>2. QED
      BY <1>4, <2>4, <3>1, WatchKeepsSound DEF Settled
  <2>7. heap' \in HeapType /\ heap'.objects = heap.objects /\ heap'.functions = heap.functions
    BY <1>4, <2>4 DEF WatchIs, Settled
  <2>8. pending' \in Seq(CallType)
    BY <1>1, <2>2, <2>3
  <2>9. Waiting(heap', pending')
    <3>1. \A i \in DOMAIN pending' : \/ i \in DOMAIN pending /\ pending'[i] = pending[i]
                                    \/ pending'[i] = c
      BY <1>1, <2>2, <2>3
    <3>2. QED
      BY <1>1, <2>2, <2>7, <3>1 DEF Waiting, Refers
  <2>10. Chained(heap', pending', overruled')
    <3>1. ASSUME NEW x \in heap.objects \ overruled, ~Busy(pending', x)
          PROVE  Agrees(heap', x)
      <4>1. ~Busy(pending, x) /\ (x # o \/ n # Proto)
        BY <1>1, <2>2, <2>3, <3>1, BusyMore
      <4>2. Agrees(heap, x)
        BY <1>1, <4>1 DEF Chained
      <4>3. ProtoSame(heap, h, x) /\ ProtoSame(h, heap', x)
        BY <1>1, <1>3, <1>4, <2>4, <4>1, OthersStay
      <4>4. QED
        BY <4>2, <4>3, SameAgrees
    <3>2. QED
      BY <1>7, <2>7, <3>1 DEF Chained
  <2>11. ObjectsInv'
    BY <1>1, <1>2, <1>7, <2>5, <2>6, <2>7, <2>8, <2>9, <2>10 DEF ObjectsInv, Typed
  <2>12. FreedStaysHidden
    <3>1. \A x, m : pending' = Front(pending) => ~About(pending, x, m)
      BY <1>1, <2>3, NoneReturned
    <3>2. \A x \in Objects : \A m : Dangles(heap', x, m) => Dangles(h, x, m)
      BY <2>4, DanglesChange
    <3>3. About(pending', o, n)
      <4>1. pending' # <<>> /\ Last(pending') = c
        BY <1>1, <2>2, <2>3 DEF Last
      <4>2. QED
        BY <2>2, <4>1 DEF About
    <3>4. QED
      BY <1>3, <1>4, <3>1, <3>2, <3>3 DEF FreedStaysHidden
  <2>13. AllGarbageGoes
    BY <2>7, NothingFreed
  <2>14. QED
    BY <2>11, <2>12, <2>13 DEF Keeps
<1>8. CASE /\ heap' = Finished(h, o, n, at, watches # <<>>, v, v)
           /\ overruled' = Overruled(o, n, v, v)
           /\ UNCHANGED pending
  <2>1. /\ Settled(h, heap') /\ SameLists(h, heap') /\ heap'.watch = h.watch
        /\ \A x \in Objects : \A m : Dangles(heap', x, m) => Dangles(h, x, m) /\ ~(x = at /\ m = n)
        /\ \A x \in Objects : x # o \/ n # Proto => ProtoSame(h, heap', x)
        /\ n = Proto => Agrees(heap', o)
    <3>1. Refers(h, v) /\ o \in h.objects /\ at \in h.objects
      BY <1>1, <1>3, <1>4 DEF Settled, Refers
    <3>2. QED
      BY <1>3, <1>4, <1>8, <3>1, FinishedKeeps DEF Settled
  <2>2. Settled(heap, heap') /\ Counted(heap', pending)
    BY <1>4, <1>5, <2>1, SameCounts DEF Settled
  <2>3. \A x \in Objects : \A m : Dangles(heap', x, m) => Dangles(heap, x, m)
    BY <1>4, <2>1
  <2>4. overruled' \subseteq overruled /\ (n # Proto => overruled' = overruled)
        /\ \A x \in heap.objects : x # o /\ x \notin overruled' => x \notin overruled
    BY <1>8 DEF Overruled
  <2>5. Chained(heap', pending, overruled')
    <3>1. ASSUME NEW x \in heap.objects \ overruled', ~Busy(pending, x)
          PROVE  Agrees(heap', x)
      <4>1. CASE x = o /\ n = Proto
        BY <2>1, <4>1
      <4>2. CASE x # o \/ n # Proto
        <5>1. x \notin overruled
          BY <2>4, <3>1, <4>2
        <5>2. Agrees(heap, x)
          BY <1>1, <3>1, <5>1 DEF Chained
        <5>3. ProtoSame(heap, h, x) /\ ProtoSame(h, heap', x)
          BY <1>1, <1>3, <1>4, <2>1, <4>2
        <5>4. QED
          BY <5>2, <5>3, SameAgrees
      <4>3. QED
        BY <4>1, <4>2
    <3>2. QED
      BY <2>2, <3>1 DEF Chained, Settled
  <2>6. Waiting(heap', pending)
    BY <1>1, <2>2 DEF Waiting, Settled, Refers
  <2>7. Typed'
    BY <1>1, <1>2, <1>8, <2>2, <2>4 DEF Typed, Settled
  <2>8. ObjectsInv'
    BY <1>8, <2>2, <2>5, <2>6, <2>7 DEF ObjectsInv, Settled
  <2>9. FreedStaysHidden
    <3>1. \A x, m : pending' = Front(pending) => ~About(pending, x, m)
      BY <1>1, <1>8, NoneReturned, Zenon
    <3>2. QED
      BY <2>3, <3>1 DEF FreedStaysHidden
  <2>10. AllGarbageGoes
    BY <2>2, NothingFreed DEF Settled
  <2>11. QED
    BY <2>8, <2>9, <2>10 DEF Keeps
<1>9. QED
  BY <1>2, <1>6, <1>7, <1>8

\* The part of ObjectsInv that is about the calls, when a watch has returned.
LEMMA CallFacts ==
    ASSUME ObjectsInv, pending # <<>>
    PROVE  /\ Last(pending) \in CallType /\ Last(pending).watch \in Watches
           /\ Last(pending).object \in heap.objects /\ Last(pending).name \in Names
           /\ Refers(heap, Last(pending).value) /\ Last(pending).value \in PlainValue
           /\ Front(pending) \in Seq(CallType) /\ Waiting(heap, Front(pending))
           /\ heap.watch[Last(pending).watch].refcount # 0
<1>1. pending \in Seq(CallType) /\ Waiting(heap, pending) /\ heap \in HeapType
      /\ Counted(heap, pending)
  BY DEF ObjectsInv, Typed
<1>2. /\ Front(pending) \in Seq(CallType) /\ Len(Front(pending)) = Len(pending) - 1
      /\ Len(pending) \in Nat \ {0} /\ Last(pending) = pending[Len(pending)]
      /\ Last(pending) \in CallType
      /\ \A i \in 1..Len(pending) - 1 : Front(pending)[i] = pending[i]
  BY <1>1, FrontFacts
<1>3. /\ DOMAIN pending = 1..Len(pending) /\ DOMAIN Front(pending) = 1..Len(pending) - 1
      /\ Len(pending) \in 1..Len(pending)
  BY <1>1, <1>2
<1>4. Waiting(heap, Front(pending))
  BY <1>1, <1>2, <1>3 DEF Waiting
<1>5. Last(pending).object \in heap.objects /\ Refers(heap, Last(pending).value)
  BY <1>1, <1>2, <1>3 DEF Waiting
<1>6. heap.watch[Last(pending).watch].refcount # 0
  BY <1>1, RunningIsReferenced
<1>7. QED
  BY <1>2, <1>4, <1>5, <1>6 DEF CallType

\* A watch that is referenced once less is freed or as it was.
LEMMA UnrefKeepsSound ==
    ASSUME NEW h \in HeapType, Sound(h), NEW g, NEW w \in Watches, NEW r, WatchIs(h, g, w, r),
           h.watch[w].refcount # 1 => r.watch = h.watch[w].watch /\ r.data = h.watch[w].data,
           h.watch[w].refcount = 1 => r.watch = Undefined /\ r.data = Undefined
    PROVE  Sound(g)
<1>1. CASE h.watch[w].refcount = 1
  <2>1. Calls(h, r.watch) /\ Refers(h, r.data)
    BY <1>1 DEF Calls, Refers
  <2>2. QED
    BY <2>1, WatchKeepsSound
<1>2. CASE h.watch[w].refcount # 1
  <2>1. ASSUME NEW use \in Listed(h, w) PROVE Calls(h, h.watch[w].watch) /\ Refers(h, h.watch[w].data)
    <3>1. /\ use[1] \in Objects /\ use[2] \in DOMAIN h.object[use[1]].watches
          /\ h.object[use[1]].watches[use[2]] = w
      BY <2>1 DEF Listed
    <3>2. QED
      BY <3>1 DEF Sound
  <2>2. QED
    BY <1>2, <2>1, WatchKeepsSound
<1>3. QED
  BY <1>1, <1>2

LEMMA WatchReturnsKeeps ==
    ASSUME ObjectsInv, NEW value \in ValuesOf(known), WatchReturns(value)
    PROVE  Keeps
<1> DEFINE call == Last(pending)
           o == call.object
           n == call.name
           h == Unref(heap, call.watch)
           found == LookupWithPrototype(h, o, n)
           rest == Front(pending)
<1>1. /\ heap \in HeapType /\ Sound(heap) /\ Counted(heap, pending)
      /\ pending \in Seq(CallType) /\ pending # <<>> /\ known \subseteq heap.objects
      /\ Chained(heap, pending, overruled) /\ overruled \subseteq heap.objects
      /\ heap.objects \subseteq Objects /\ Refers(heap, value) /\ value \in PlainValue
      /\ aborted \in BOOLEAN
  BY HeapFields DEF ObjectsInv, Typed, ValuesOf, Refers, PlainValue, WatchReturns
<1>2. /\ pending' = rest /\ known' = known /\ aborted' = (aborted \/ found = TooDeep)
      /\ \/ /\ found \in {Undefined, TooDeep} /\ heap' = h /\ UNCHANGED overruled
         \/ /\ found \notin {Undefined, TooDeep}
            /\ heap' = Finished(h, o, n, found, TRUE, call.value, value)
            /\ overruled' = Overruled(o, n, call.value, value)
  BY DEF WatchReturns
<1>3. /\ call \in CallType /\ call.watch \in Watches /\ o \in heap.objects /\ n \in Names
      /\ Refers(heap, call.value) /\ call.value \in PlainValue
      /\ rest \in Seq(CallType) /\ Waiting(heap, rest) /\ heap.watch[call.watch].refcount # 0
  BY <1>1, CallFacts
<1>4. PICK r : /\ WatchIs(heap, h, call.watch, r)
               /\ r.refcount = heap.watch[call.watch].refcount - 1
               /\ heap.watch[call.watch].refcount # 1 =>
                    r.watch = heap.watch[call.watch].watch /\ r.data = heap.watch[call.watch].data
               /\ heap.watch[call.watch].refcount = 1 => r.watch = Undefined /\ r.data = Undefined
  BY <1>1, <1>3, UnrefFacts
<1>5. Counted(h, rest)
  BY <1>1, <1>4, ReturnIsCounted
<1>6. \A x : Busy(pending, x) <=> Busy(rest, x) \/ (o = x /\ n = Proto)
  BY <1>1, BusyLess
<1>7. \A x, m : About(pending, x, m) => x = o /\ m = n
  BY DEF About
<1> HIDE DEF h, rest
<1>8. /\ Settled(heap, h)
      /\ \A x \in Objects : ProtoSame(heap, h, x)
      /\ \A x \in Objects : \A m : Dangles(h, x, m) => Dangles(heap, x, m)
  <2>1. Sound(h)
    BY <1>1, <1>3, <1>4, UnrefKeepsSound
  <2>2. QED
    BY <1>4, <2>1, OthersStay, DanglesChange DEF Settled, WatchIs
<1>9. /\ found \in h.objects \cup {Undefined, TooDeep}
      /\ found \notin {Undefined, TooDeep} => Has(h, found, n)
      /\ Has(h, o, n) => found = o
      /\ n = Proto => found \in {o, Undefined}
  BY <1>3, <1>8, LookupFacts DEF Settled
<1>10. o \notin {Undefined, TooDeep}
  BY <1>1, <1>3, ObjectsAssumption
<1> HIDE DEF found, o, n, call
<1>11. CASE found \in {Undefined, TooDeep} /\ heap' = h /\ UNCHANGED overruled
  <2>1. ~Has(h, o, n)
    BY <1>9, <1>10, <1>11
  <2>2. Chained(heap', pending', overruled')
    <3>1. ASSUME NEW x \in heap.objects \ overruled, ~Busy(rest, x) PROVE Agrees(h, x)
      <4>1. CASE x = o /\ n = Proto
        BY <2>1, <4>1 DEF Agrees
      <4>2. CASE x # o \/ n # Proto
        BY <1>1, <1>6, <1>8, <3>1, <4>2, SameAgrees DEF Chained
      <4>3. QED
        BY <4>1, <4>2
    <3>2. QED
      BY <1>2, <1>8, <1>11, <3>1 DEF Chained, Settled
  <2>3. Waiting(heap', pending')
    BY <1>2, <1>3, <1>8, <1>11 DEF Waiting, Settled, Refers
  <2>4. Typed'
    BY <1>1, <1>2, <1>3, <1>8, <1>11 DEF Typed, Settled
  <2>5. ObjectsInv'
    BY <1>2, <1>5, <1>8, <1>11, <2>2, <2>3, <2>4 DEF ObjectsInv, Settled
  <2>6. FreedStaysHidden
    BY <1>7, <1>8, <1>11, <2>1 DEF FreedStaysHidden, Dangles
  <2>7. AllGarbageGoes
    BY <1>8, <1>11, NothingFreed DEF Settled
  <2>8. QED
    BY <2>5, <2>6, <2>7 DEF Keeps
<1>12. CASE /\ found \notin {Undefined, TooDeep}
            /\ heap' = Finished(h, o, n, found, TRUE, call.value, value)
            /\ overruled' = Overruled(o, n, call.value, value)
  <2>1. /\ Settled(h, heap') /\ SameLists(h, heap') /\ heap'.watch = h.watch
        /\ \A x \in Objects : \A m :
             Dangles(heap', x, m) => Dangles(h, x, m) /\ ~(x = found /\ m = n)
        /\ \A x \in Objects : x # o \/ n # Proto => ProtoSame(h, heap', x)
        /\ n = Proto /\ call.value = value => Agrees(heap', o)
    <3>1. /\ Refers(h, value) /\ Refers(h, call.value) /\ o \in h.objects /\ found \in h.objects
          /\ Has(h, found, n) /\ (n = Proto => found = o)
      BY <1>1, <1>3, <1>8, <1>9, <1>12 DEF Settled, Refers
    <3> DEFINE hasWatches == TRUE
    <3>2. heap' = Finished(h, o, n, found, hasWatches, call.value, value)
      BY <1>12
    <3> HIDE DEF hasWatches
    <3>3. h \in HeapType /\ Sound(h)
      BY <1>8 DEF Settled
    <3>4. QED
      BY <3>1, <3>2, <3>3, FinishedKeeps
  <2>2. Settled(heap, heap') /\ Counted(heap', rest)
    BY <1>5, <1>8, <2>1, SameCounts DEF Settled
  <2>3. overruled' \subseteq heap.objects /\ (n # Proto => overruled' = overruled)
        /\ (n = Proto /\ call.value # value => o \in overruled')
        /\ \A x \in heap.objects : x # o /\ x \notin overruled' => x \notin overruled
    BY <1>1, <1>3, <1>12 DEF Overruled
  <2>4. Chained(heap', rest, overruled')
    <3>1. ASSUME NEW x \in heap.objects \ overruled', ~Busy(rest, x)
          PROVE  Agrees(heap', x)
      <4>1. CASE x = o /\ n = Proto
        BY <2>1, <2>3, <3>1, <4>1
      <4>2. CASE x # o \/ n # Proto
        <5>1. x \notin overruled
          BY <2>3, <3>1, <4>2
        <5>2. Agrees(heap, x)
          BY <1>1, <1>6, <3>1, <4>2, <5>1 DEF Chained
        <5>3. ProtoSame(heap, h, x) /\ ProtoSame(h, heap', x)
          BY <1>1, <1>8, <2>1, <4>2
        <5>4. QED
          BY <5>2, <5>3, SameAgrees
      <4>3. QED
        BY <4>1, <4>2
    <3>2. QED
      BY <2>2, <3>1 DEF Chained, Settled
  <2>5. Waiting(heap', rest)
    BY <1>3, <2>2 DEF Waiting, Settled, Refers
  <2>6. Typed'
    BY <1>1, <1>2, <1>3, <2>2, <2>3 DEF Typed, Settled
  <2>7. ObjectsInv'
    BY <1>2, <2>2, <2>4, <2>5, <2>6 DEF ObjectsInv, Settled
  <2>8. FreedStaysHidden
    <3>1. \A x \in Objects : \A m : Dangles(heap', x, m) => Dangles(heap, x, m)
      BY <1>8, <2>1
    <3>2. ~Dangles(heap', o, n)
      <4>1. Dangles(h, o, n) => found = o
        BY <1>9 DEF Dangles
      <4>2. QED
        BY <1>1, <1>3, <2>1, <4>1
    <3>3. QED
      BY <1>7, <3>1, <3>2 DEF FreedStaysHidden
  <2>9. AllGarbageGoes
    BY <2>2, NothingFreed DEF Settled
  <2>10. QED
    BY <2>7, <2>8, <2>9 DEF Keeps
<1>13. QED
  BY <1>2, <1>11, <1>12

LEMMA DeleteVariableKeeps ==
    ASSUME ObjectsInv, NEW o \in known, NEW n, DeleteVariable(o, n)
    PROVE  Keeps
<1>1. /\ heap \in HeapType /\ Sound(heap) /\ Counted(heap, pending)
      /\ o \in heap.objects /\ o \in Objects
  BY HeapFields DEF ObjectsInv, Typed
<1>2. VariableGoes(heap, heap', o, n)
  BY <1>1, RemoveVariable DEF DeleteVariable
<1>3. Settled(heap, heap')
  BY <1>1, <1>2, GoneKeepsSound DEF Settled, VariableGoes, Rest
<1>4. Counted(heap', pending)
  BY <1>1, <1>2, ChangesKeepLists, SameCounts
<1>5. \A x \in Objects : Agrees(heap, x) => Agrees(heap', x)
  BY <1>2, OthersStay, SameAgrees
<1>6. \A x \in Objects : \A m : Dangles(heap', x, m) => Dangles(heap, x, m)
  BY <1>2, DanglesChange
<1>7. UNCHANGED <<pending, aborted, known, overruled>>
  BY DEF DeleteVariable
<1>8. QED
  BY <1>3, <1>4, <1>5, <1>6, <1>7, QuietStep

LEMMA AddVariableKeeps ==
    ASSUME ObjectsInv, NEW o \in known, NEW n \in Names, NEW get \in Functions,
           NEW set \in {get, Undefined}, AddVariable(o, n, get, set)
    PROVE  Keeps
<1> DEFINE var == IF Has(heap, o, n) THEN Var(heap, o, n) ELSE NewVariable
           one == [var EXCEPT !.get = get]
           new == [one EXCEPT !.set = set]
<1>1. /\ heap \in HeapType /\ Sound(heap) /\ Counted(heap, pending)
      /\ o \in heap.objects /\ o \in Objects
      /\ get \in heap.functions /\ get \in Objects /\ get # Undefined
  BY HeapFields, ObjectsAssumption DEF ObjectsInv, Typed, Functions
<1>2. var \in VariableType /\ (Refers(heap, var.value) \/ var.value = Freed)
  <2>1. CASE Has(heap, o, n)
    BY <1>1, <2>1, ObjectFields DEF Has, Sound, SoundVariable
  <2>2. CASE ~Has(heap, o, n)
    BY <2>2, NewVariableFacts DEF Refers
  <2>3. QED
    BY <2>1, <2>2
<1>3. /\ n # Proto
      /\ heap' = [heap EXCEPT !.object[o].properties = Put(@, n, new)]
      /\ UNCHANGED <<pending, aborted, known, overruled>>
  BY DEF AddVariable
<1> HIDE DEF var
<1>4. one = [value |-> var.value, get |-> get, set |-> var.set, flags |-> var.flags]
  BY <1>2, VariableFields
<1> HIDE DEF one
<1>5. new = [value |-> var.value, get |-> get, set |-> set, flags |-> var.flags]
  BY <1>4
<1> HIDE DEF new
<1>6. new \in VariableType
  BY <1>1, <1>2, <1>5 DEF VariableType, PlainValue
<1>7. SoundVariable(heap, n, new)
  BY <1>1, <1>2, <1>3, <1>5 DEF SoundVariable, Calls
<1>8. VariableIs(heap, heap', o, n, new)
  BY <1>1, <1>3, <1>6, PutVariable
<1>9. Settled(heap, heap')
  BY <1>1, <1>7, <1>8, VariableKeepsSound DEF Settled, VariableIs, Rest
<1>10. Counted(heap', pending)
  BY <1>1, <1>8, ChangesKeepLists, SameCounts
<1>11. \A x \in Objects : Agrees(heap, x) => Agrees(heap', x)
  BY <1>3, <1>8, OthersStay, SameAgrees
<1>12. new.get # Undefined
  BY <1>1, <1>5
<1>13. \A x \in Objects : \A m : Dangles(heap', x, m) => Dangles(heap, x, m)
  BY <1>8, <1>12, DanglesChange
<1>14. QED
  BY <1>3, <1>9, <1>10, <1>11, <1>13, QuietStep

LEMMA ReplaceFlags ==
    ASSUME NEW h \in HeapType, NEW o \in Objects, NEW f \in SUBSET Flags
    PROVE  PrototypeIs(h, [h EXCEPT !.object[o].flags = f], o, h.object[o].prototype, f)
<1> DEFINE x == [properties |-> h.object[o].properties, prototype |-> h.object[o].prototype,
                 flags |-> f, watches |-> h.object[o].watches]
<1>1. x \in ObjectType
  BY ObjectFields DEF ObjectType, Props
<1>2. [h.object[o] EXCEPT !.flags = f] = x
  BY ObjectFields DEF ObjectType
<1>3. [h EXCEPT !.object[o].flags = f] = [h EXCEPT !.object[o] = x]
  BY <1>2 DEF HeapType
<1>4. QED
  BY <1>1, <1>3, ObjectChange DEF PrototypeIs

LEMMA ChangeFlagsKeeps ==
    ASSUME ObjectsInv, NEW o \in known, NEW n, NEW flags \in SUBSET FlagChanges,
           ChangeFlags(o, n, flags)
    PROVE  Keeps
<1> DEFINE var == Var(heap, o, n)
           new == [var EXCEPT !.flags = flags]
           h == [heap EXCEPT !.object[o].properties[n].flags = flags]
<1>1. /\ heap \in HeapType /\ Sound(heap) /\ Counted(heap, pending)
      /\ o \in heap.objects /\ o \in Objects /\ flags \in SUBSET Flags
      /\ Has(heap, o, n)
  BY HeapFields, ObjectsAssumption DEF ObjectsInv, Typed, Flags, ChangeFlags
<1>2. /\ heap' = IF n = Proto THEN [h EXCEPT !.object[o].flags = flags] ELSE h
      /\ UNCHANGED <<pending, aborted, known, overruled>>
  BY DEF ChangeFlags
<1>3. var \in VariableType /\ SoundVariable(heap, n, var)
  BY <1>1, ObjectFields DEF Has, Sound
<1>4. h = [heap EXCEPT !.object[o].properties[n] = new]
  BY DEF Var
<1> HIDE DEF var
<1>5. new = [value |-> var.value, get |-> var.get, set |-> var.set, flags |-> flags]
  BY <1>3, VariableFields
<1> HIDE DEF new
<1>6. new \in VariableType
  BY <1>1, <1>3, <1>5 DEF VariableType
<1>7. VariableIs(heap, h, o, n, new)
  BY <1>1, <1>4, <1>6, ReplaceVariable
<1> HIDE DEF h
<1>8. SoundVariable(heap, n, new)
  BY <1>3, <1>5 DEF SoundVariable
<1>9. Settled(heap, h)
  BY <1>1, <1>7, <1>8, VariableKeepsSound DEF Settled, VariableIs, Rest
<1>10. Counted(h, pending)
  BY <1>1, <1>7, ChangesKeepLists, SameCounts
<1>11. \A x \in Objects : \A m : Dangles(h, x, m) => Dangles(heap, x, m)
  <2>1. ASSUME NEW x \in Objects, NEW m, Dangles(h, x, m) PROVE Dangles(heap, x, m)
    <3>1. IF x = o /\ m = n THEN new.value = Freed /\ new.get = Undefined ELSE Dangles(heap, x, m)
      BY <1>7, <2>1, DanglesChange
    <3>2. QED
      BY <1>1, <1>5, <3>1 DEF Dangles, var
  <2>2. QED
    BY <2>1
<1>12. CASE n # Proto
  <2>1. \A x \in Objects : Agrees(heap, x) => Agrees(heap', x)
    BY <1>2, <1>7, <1>12, OthersStay, SameAgrees
  <2>2. QED
    BY <1>2, <1>9, <1>10, <1>11, <1>12, <2>1, QuietStep
<1>13. CASE n = Proto
  <2>1. PrototypeIs(h, heap', o, h.object[o].prototype, flags)
    BY <1>1, <1>2, <1>9, <1>13, ReplaceFlags DEF Settled
  <2>2. Refers(h, h.object[o].prototype) /\ o \in h.objects
    BY <1>1, <1>9 DEF Settled, Sound
  <2>3. Settled(heap, heap')
    BY <1>9, <2>1, <2>2, PrototypeKeepsSound DEF Settled, PrototypeIs, Rest
  <2>4. Counted(heap', pending)
    BY <1>1, <1>10, <2>1, ChangesKeepLists, SameCounts
  <2>5. \A x \in Objects : \A m : Dangles(heap', x, m) => Dangles(heap, x, m)
    BY <1>11, <2>1, DanglesChange
  <2>6. ASSUME NEW x \in Objects, Agrees(heap, x) PROVE Agrees(heap', x)
    <3>1. CASE x = o
      <4>1. /\ heap'.object[o].prototype = heap.object[o].prototype
            /\ heap'.object[o].flags = flags
        BY <1>7, <2>1 DEF PrototypeIs, VariableIs
      <4>2. Var(heap', o, Proto) = new
        <5>1. Var(h, o, n) = new
          BY <1>7 DEF VariableIs
        <5>2. QED
          BY <1>13, <2>1, <5>1 DEF PrototypeIs, Var
      <4>3. heap.object[o].prototype = var.value
        BY <1>1, <1>13, <2>6, <3>1 DEF Agrees, var
      <4>4. QED
        BY <1>5, <3>1, <4>1, <4>2, <4>3 DEF Agrees
    <3>2. CASE x # o
      <4>1. ProtoSame(heap, h, x) /\ ProtoSame(h, heap', x)
        BY <1>7, <2>1, <3>2, OthersStay
      <4>2. QED
        BY <2>6, <4>1, SameAgrees
    <3>3. QED
      BY <3>1, <3>2
  <2>7. QED
    BY <1>2, <2>3, <2>4, <2>5, <2>6, QuietStep
<1>14. QED
  BY <1>12, <1>13

\* A watch that is there gets another function.
Changed(h, w, f, d) == [h EXCEPT !.watch[w].watch = f, !.watch[w].data = d]

LEMMA ChangedWatch ==
    ASSUME NEW h \in HeapType, NEW w \in Watches, NEW f \in PlainValue, NEW d \in PlainValue
    PROVE  \E r : /\ WatchIs(h, Changed(h, w, f, d), w, r)
                  /\ r.refcount = h.watch[w].refcount /\ r.watch = f /\ r.data = d
<1> DEFINE old == h.watch[w]
           one == [old EXCEPT !.watch = f]
           new == [one EXCEPT !.data = d]
           h1 == [h EXCEPT !.watch[w].watch = f]
<1>1. old \in WatchType /\ old = [refcount |-> old.refcount, watch |-> old.watch, data |-> old.data]
  BY WatchFields DEF WatchType
<1>2. WatchIs(h, h1, w, one)
  <2>1. h1 = [h EXCEPT !.watch[w] = one]
    OBVIOUS
  <2>2. one \in WatchType
    BY <1>1 DEF WatchType
  <2> HIDE DEF one, h1
  <2>3. QED
    BY <2>1, <2>2, ReplaceWatch
<1>3. one = [refcount |-> old.refcount, watch |-> f, data |-> old.data]
  BY <1>1
<1> HIDE DEF one
<1>4. new = [refcount |-> old.refcount, watch |-> f, data |-> d]
  BY <1>3
<1>5. Changed(h, w, f, d) = [h1 EXCEPT !.watch[w].data = d]
  BY DEF Changed
<1> HIDE DEF h1
<1>6. h1 \in HeapType /\ h1.watch[w] = one
  BY <1>2 DEF WatchIs
<1>7. [h1 EXCEPT !.watch[w].data = d] = [h1 EXCEPT !.watch[w] = new]
  BY <1>6
<1> HIDE DEF new
<1>8. new \in WatchType
  BY <1>1, <1>4 DEF WatchType
<1>9. WatchIs(h1, [h1 EXCEPT !.watch[w] = new], w, new)
  BY <1>6, <1>8, ReplaceWatch
<1>10. WatchIs(h, [h1 EXCEPT !.watch[w] = new], w, new)
  BY <1>2, <1>9 DEF WatchIs
<1>11. QED
  BY <1>4, <1>5, <1>7, <1>10

LEMMA AddWatchKeeps ==
    ASSUME ObjectsInv, NEW o \in known, NEW n \in Names, NEW f \in Functions,
           NEW d \in ValuesOf(Functions), AddWatch(o, n, f, d)
    PROVE  Keeps
<1> DEFINE old == heap.object[o].watches
<1>1. /\ heap \in HeapType /\ Sound(heap) /\ Counted(heap, pending)
      /\ o \in heap.objects /\ o \in Objects
      /\ Calls(heap, f) /\ Refers(heap, d) /\ f \in PlainValue /\ d \in PlainValue
  BY HeapFields DEF ObjectsInv, Typed, Functions, ValuesOf, Calls, Refers, PlainValue
<1>2. /\ UNCHANGED <<pending, aborted, known, overruled>>
      /\ \/ /\ n \in DOMAIN old
            /\ heap' = [heap EXCEPT !.watch[old[n]].watch = f, !.watch[old[n]].data = d]
         \/ /\ n \notin DOMAIN old
            /\ FreeWatches(heap) # {}
            /\ heap' = [heap EXCEPT !.object[o].watches = Put(@, n, Min(FreeWatches(heap))),
                                    !.watch[Min(FreeWatches(heap))] =
                                       [refcount |-> 1, watch |-> f, data |-> d]]
  BY DEF AddWatch
<1>3. CASE /\ n \in DOMAIN old
           /\ heap' = [heap EXCEPT !.watch[old[n]].watch = f, !.watch[old[n]].data = d]
  <2> DEFINE w == old[n]
  <2>1. w \in Watches
    BY <1>1, <1>3, ObjectFields
  <2> HIDE DEF w
  <2>2. PICK r : /\ WatchIs(heap, heap', w, r)
                 /\ r.refcount = heap.watch[w].refcount /\ r.watch = f /\ r.data = d
    <3>1. heap' = Changed(heap, w, f, d)
      BY <1>3 DEF w, Changed
    <3> HIDE DEF old
    <3>2. QED
      BY <1>1, <2>1, <3>1, ChangedWatch
  <2>3. Settled(heap, heap')
    <3>1. Sound(heap')
      BY <1>1, <2>2, WatchKeepsSound
    <3>2. QED
      BY <2>2, <3>1 DEF Settled, WatchIs
  <2>4. Counted(heap', pending)
    <3>1. SameLists(heap, heap')
      BY <1>1, <2>2, ChangesKeepLists
    <3>2. \A x \in Watches : heap'.watch[x].refcount = heap.watch[x].refcount
      BY <2>2 DEF WatchIs
    <3>3. QED
      BY <1>1, <3>1, <3>2, SameCounts
  <2>5. \A x \in Objects : Agrees(heap, x) => Agrees(heap', x)
    BY <2>2, OthersStay, SameAgrees
  <2>6. \A x \in Objects : \A m : Dangles(heap', x, m) => Dangles(heap, x, m)
    BY <2>2, DanglesChange
  <2>7. QED
    BY <1>2, <2>3, <2>4, <2>5, <2>6, QuietStep
<1>4. CASE /\ n \notin DOMAIN old
           /\ FreeWatches(heap) # {}
           /\ heap' = [heap EXCEPT !.object[o].watches = Put(@, n, Min(FreeWatches(heap))),
                                   !.watch[Min(FreeWatches(heap))] =
                                      [refcount |-> 1, watch |-> f, data |-> d]]
  <2> DEFINE w == Min(FreeWatches(heap))
             new == [refcount |-> 1, watch |-> f, data |-> d]
             l == Put(old, n, w)
             h == [heap EXCEPT !.watch[w] = new]
  <2>1. w \in Watches /\ heap.watch[w].refcount = 0
    <3> DEFINE free == FreeWatches(heap)
    <3>1. free \in SUBSET Nat /\ \A x \in free : x \in Watches /\ heap.watch[x].refcount = 0
      BY ObjectsAssumption DEF FreeWatches
    <3> HIDE DEF free
    <3>2. Min(free) \in free
      BY <1>4, <3>1, Least DEF Min, free
    <3>3. QED
      BY <3>1, <3>2 DEF free
  <2>2. heap' = [h EXCEPT !.object[o].watches = l]
    <3> HIDE DEF w
    <3>1. heap' = [heap EXCEPT !.object[o].watches = l, !.watch[w] = new]
      BY <1>4 DEF w
    <3> HIDE DEF l, new, old
    <3>2. heap = [objects |-> heap.objects, functions |-> heap.functions,
                  object |-> heap.object, watch |-> heap.watch]
      BY <1>1 DEF HeapType
    <3> DEFINE a == [heap.object EXCEPT ![o].watches = l]
               b == [heap.watch EXCEPT ![w] = new]
               h1 == [heap EXCEPT !.object = a]
    <3>3. heap' = [h1 EXCEPT !.watch = b]
      BY <3>1
    <3>4. h1 = [objects |-> heap.objects, functions |-> heap.functions,
                object |-> a, watch |-> heap.watch]
      BY <3>2
    <3>5. h = [objects |-> heap.objects, functions |-> heap.functions,
               object |-> heap.object, watch |-> b]
      BY <3>2
    <3>6. [h EXCEPT !.object[o].watches = l] = [h EXCEPT !.object = a]
      BY <3>5
    <3> HIDE DEF a, b, h1, h
    <3>7. [h EXCEPT !.object = a] = [objects |-> heap.objects, functions |-> heap.functions,
                                     object |-> a, watch |-> b]
      BY <3>5
    <3>8. [h1 EXCEPT !.watch = b] = [objects |-> heap.objects, functions |-> heap.functions,
                                     object |-> a, watch |-> b]
      BY <3>4
    <3>9. QED
      BY <3>3, <3>6, <3>7, <3>8
  <2>3. l \in Listings /\ DOMAIN l = DOMAIN old \cup {n}
        /\ \A m \in DOMAIN l : l[m] = IF m = n THEN w ELSE old[m]
    <3>1. old \in Listings
      BY <1>1, ObjectFields
    <3> HIDE DEF old, w
    <3>2. w \in Watches
      BY <2>1
    <3>3. QED
      BY <3>1, <3>2, PutWatch
  <2>4. new \in WatchType /\ new.refcount = 1 /\ new.watch = f /\ new.data = d
    BY <1>1 DEF WatchType
  <2> HIDE DEF w, new, l
  <2>5. WatchIs(heap, h, w, new)
    BY <1>1, <2>1, <2>4, ReplaceWatch
  <2> HIDE DEF h
  <2>6. h \in HeapType /\ h.objects = heap.objects /\ h.functions = heap.functions
        /\ h.object = heap.object
    BY <2>5 DEF WatchIs
  <2>7. ListIs(h, heap', o, l)
    BY <1>1, <2>2, <2>3, <2>6, ReplaceList
  <2>8. Sound(h)
    BY <1>1, <2>4, <2>5, WatchKeepsSound
  <2>9. \A m \in DOMAIN l : Calls(h, h.watch[l[m]].watch) /\ Refers(h, h.watch[l[m]].data)
    <3>1. Calls(h, f) /\ Refers(h, d) /\ h.watch[w] = new
      BY <1>1, <2>5, <2>6 DEF Calls, Refers, WatchIs
    <3>2. ASSUME NEW m \in DOMAIN l
          PROVE  Calls(h, h.watch[l[m]].watch) /\ Refers(h, h.watch[l[m]].data)
      <4>1. CASE m = n
        BY <2>3, <2>4, <3>1, <4>1
      <4>2. CASE m # n
        <5>1. m \in DOMAIN h.object[o].watches /\ l[m] = h.object[o].watches[m]
          BY <2>3, <2>6, <3>2, <4>2
        <5>2. QED
          BY <1>1, <2>8, <5>1 DEF Sound
      <4>3. QED
        BY <4>1, <4>2
    <3>3. QED
      BY <3>2
  <2>10. Settled(heap, heap')
    <3>1. Sound(heap')
      BY <1>1, <2>6, <2>7, <2>8, <2>9, ListKeepsSound
    <3>2. QED
      BY <2>6, <2>7, <3>1 DEF Settled, ListIs, Rest
  <2>11. Counted(heap', pending)
    <3>1. pending \in Seq(CallType) /\ n \notin DOMAIN heap.object[o].watches
      BY <1>4 DEF ObjectsInv, Typed
    <3> HIDE DEF old
    <3>2. Lists(l, heap.object[o].watches, n, w)
      BY <2>3 DEF old, Lists
    <3>3. QED
      <4>1. heap \in HeapType /\ Counted(heap, pending) /\ o \in Objects
        BY <1>1
      <4>2. new.refcount = 1
        BY <2>4
      <4>3. QED
        BY <2>1, <2>5, <2>7, <3>1, <3>2, <4>1, <4>2, NewWatchIsCounted
  <2>12. \A x \in Objects : Agrees(heap, x) => Agrees(heap', x)
    <3>1. \A x \in Objects : ProtoSame(heap, h, x) /\ ProtoSame(h, heap', x)
      BY <2>5, <2>7, OthersStay
    <3>2. QED
      BY <3>1, SameAgrees
  <2>13. \A x \in Objects : \A m : Dangles(heap', x, m) => Dangles(heap, x, m)
    BY <2>5, <2>7, DanglesChange
  <2>14. QED
    BY <1>2, <2>10, <2>11, <2>12, <2>13, QuietStep
<1>5. QED
  BY <1>2, <1>3, <1>4

LEMMA UnwatchKeeps ==
    ASSUME ObjectsInv, NEW o \in known, NEW n, Unwatch(o, n)
    PROVE  Keeps
<1> DEFINE old == heap.object[o].watches
           w == old[n]
           h == Unref(heap, w)
           l == Without(old, n)
<1>1. /\ heap \in HeapType /\ Sound(heap) /\ Counted(heap, pending) /\ pending \in Seq(CallType)
      /\ o \in heap.objects /\ o \in Objects /\ n \in DOMAIN old
  BY HeapFields DEF ObjectsInv, Typed, Unwatch
<1>2. /\ heap' = [h EXCEPT !.object[o].watches = Without(@, n)]
      /\ UNCHANGED <<pending, aborted, known, overruled>>
  BY DEF Unwatch
<1>3. w \in Watches /\ n \in Names
  BY <1>1, ObjectFields
<1>4. heap.watch[w].refcount # 0
  <2>1. <<o, n>> \in Listed(heap, w)
    BY <1>1, <1>3 DEF Listed
  <2>2. QED
    BY <1>1, <1>3, <2>1, RunningIsReferenced
<1>5. PICK r : /\ WatchIs(heap, h, w, r) /\ r.refcount = heap.watch[w].refcount - 1
               /\ heap.watch[w].refcount # 1 =>
                    r.watch = heap.watch[w].watch /\ r.data = heap.watch[w].data
               /\ heap.watch[w].refcount = 1 => r.watch = Undefined /\ r.data = Undefined
  <2> HIDE DEF w
  <2>1. QED
    BY <1>1, <1>3, <1>4, UnrefFacts
<1>6. l \in Listings /\ DOMAIN l = DOMAIN old \ {n} /\ \A m \in DOMAIN l : l[m] = old[m]
  <2>1. old \in Listings
    BY <1>1, ObjectFields
  <2> HIDE DEF old
  <2>2. QED
    BY <2>1, WithoutWatch
<1> HIDE DEF h
<1>7. h \in HeapType /\ h.objects = heap.objects /\ h.functions = heap.functions
      /\ h.object = heap.object
  BY <1>5 DEF WatchIs
<1>8. heap' = [h EXCEPT !.object[o].watches = l]
  BY <1>2, <1>7
<1> HIDE DEF l
<1>9. ListIs(h, heap', o, l)
  BY <1>1, <1>6, <1>7, <1>8, ReplaceList
<1>10. Sound(h)
  <2> HIDE DEF w
  <2>1. QED
    BY <1>1, <1>3, <1>5, UnrefKeepsSound
<1>11. \A m \in DOMAIN l : Calls(h, h.watch[l[m]].watch) /\ Refers(h, h.watch[l[m]].data)
  <2>1. \A m \in DOMAIN l : m \in DOMAIN h.object[o].watches /\ l[m] = h.object[o].watches[m]
    BY <1>6, <1>7
  <2>2. QED
    BY <1>1, <1>10, <2>1 DEF Sound
<1>12. Settled(heap, heap')
  <2>1. Sound(heap')
    BY <1>1, <1>7, <1>9, <1>10, <1>11, ListKeepsSound
  <2>2. QED
    BY <1>7, <1>9, <2>1 DEF Settled, ListIs, Rest
<1>13. Counted(heap', pending)
  BY <1>1, <1>5, <1>6, <1>9, RemovedIsCounted
<1>14. \A x \in Objects : Agrees(heap, x) => Agrees(heap', x)
  <2>1. \A x \in Objects : ProtoSame(heap, h, x) /\ ProtoSame(h, heap', x)
    BY <1>5, <1>9, OthersStay
  <2>2. QED
    BY <2>1, SameAgrees
<1>15. \A x \in Objects : \A m : Dangles(heap', x, m) => Dangles(heap, x, m)
  BY <1>5, <1>9, DanglesChange
<1>16. QED
  BY <1>2, <1>12, <1>13, <1>14, <1>15, QuietStep

LEMMA NewFunctionKeeps ==
    ASSUME ObjectsInv, NEW o \in Objects, NewFunction(o)
    PROVE  Keeps
<1> DEFINE h1 == [heap EXCEPT !.objects = @ \cup {o}]
<1>1. /\ heap \in HeapType /\ Sound(heap) /\ Counted(heap, pending) /\ Waiting(heap, pending)
      /\ pending \in Seq(CallType) /\ Chained(heap, pending, overruled)
      /\ known \subseteq heap.objects /\ overruled \subseteq heap.objects /\ aborted \in BOOLEAN
      /\ heap.objects \subseteq Objects /\ heap.functions \subseteq Objects
  BY HeapFields DEF ObjectsInv, Typed
<1>2. /\ o \notin heap.objects /\ known' = known \cup {o}
      /\ heap' = [heap EXCEPT !.objects = @ \cup {o}, !.functions = @ \cup {o}]
      /\ UNCHANGED <<pending, aborted, overruled>>
  BY DEF NewFunction
<1>3. heap' = [objects |-> heap.objects \cup {o}, functions |-> heap.functions \cup {o},
               object |-> heap.object, watch |-> heap.watch]
  <2>1. h1 = [objects |-> heap.objects \cup {o}, functions |-> heap.functions,
              object |-> heap.object, watch |-> heap.watch]
    <3>1. heap = [objects |-> heap.objects, functions |-> heap.functions,
                  object |-> heap.object, watch |-> heap.watch]
      BY <1>1 DEF HeapType
    <3>2. QED
      BY <3>1
  <2>2. heap' = [h1 EXCEPT !.functions = @ \cup {o}]
    BY <1>2
  <2> HIDE DEF h1
  <2>3. QED
    BY <2>1, <2>2
<1>4. /\ heap'.objects = heap.objects \cup {o} /\ heap'.functions = heap.functions \cup {o}
      /\ heap'.object = heap.object /\ heap'.watch = heap.watch
  BY <1>3
<1>5. heap' \in HeapType
  <2>1. heap.objects \cup {o} \in SUBSET Objects /\ heap.functions \cup {o} \in SUBSET Objects
    BY <1>1
  <2>2. QED
    BY <1>1, <1>3, <2>1, HeapFields DEF HeapType
<1>6. \A v : /\ Refers(heap, v) => Refers(heap', v)
             /\ Calls(heap, v) => Calls(heap', v)
  BY <1>4 DEF Refers, Calls
<1>7. Sound(heap')
  <2>1. \A m, v : SoundVariable(heap, m, v) => SoundVariable(heap', m, v)
    BY <1>6 DEF SoundVariable
  <2>2. QED
    BY <1>1, <1>4, <1>6, <2>1 DEF Sound, Var
<1>8. Counted(heap', pending)
  BY <1>1, <1>4, SameCounts DEF SameLists
<1>9. Waiting(heap', pending)
  BY <1>1, <1>4, <1>6 DEF Waiting
<1>10. Chained(heap', pending, overruled)
  <2>1. \A x : Agrees(heap', x) <=> Agrees(heap, x)
    BY <1>4 DEF Agrees, Has, Var
  <2>2. Agrees(heap, o)
    <3>1. heap.object[o] = NewObject
      BY <1>1, <1>2 DEF Sound
    <3>2. QED
      BY <3>1, NewObjectFacts DEF Agrees, Has
  <2>3. QED
    BY <1>1, <1>4, <2>1, <2>2 DEF Chained
<1>11. ObjectsInv'
  BY <1>1, <1>2, <1>4, <1>5, <1>7, <1>8, <1>9, <1>10 DEF ObjectsInv, Typed
<1>12. FreedStaysHidden
  <2>1. \A x, m : Dangles(heap', x, m) => Dangles(heap, x, m)
    BY <1>4 DEF Dangles, Has, Var
  <2>2. \A x, m : pending' = Front(pending) => ~About(pending, x, m)
    BY <1>1, <1>2, NoneReturned
  <2>3. QED
    BY <2>1, <2>2 DEF FreedStaysHidden
<1>13. AllGarbageGoes
  BY <1>4, NothingFreed
<1>14. QED
  BY <1>11, <1>12, <1>13 DEF Keeps

\* What can be reached is allocated still after a collection.
LEMMA ReachedIsKept ==
    ASSUME NEW h \in HeapType, Sound(h)
    PROVE  {node[2] : node \in Reachable(h)} \subseteq KeptObjects(h)
<1>1. h.objects \subseteq Objects /\ h.functions \subseteq Objects /\ h.functions \subseteq h.objects
      /\ Undefined \notin Objects /\ Freed \notin Objects
  BY HeapFields, ObjectsAssumption DEF Sound
<1>2. ASSUME NEW node \in Marked(h) PROVE node[2] \in KeptObjects(h)
  <2>1. /\ node = <<node[1], node[2]>>
        /\ \/ node[1] = "object" /\ node[2] \in h.objects
           \/ node[1] = "function" /\ node[2] \in h.functions
    BY <1>1, <1>2, AllocatedMember, MarkedFacts
  <2>2. CASE node[1] = "object"
    BY <1>2, <2>1, <2>2 DEF KeptObjects
  <2>3. CASE node[1] = "function"
    <3>1. MarkedWith(h, node) = Nodes("object", {node[2]})
      BY <2>3 DEF MarkedWith
    <3>2. node[2] \in {node[2]} \ {Undefined, Freed}
      BY <1>1, <2>1
    <3>3. <<"object", node[2]>> \in MarkedWith(h, node)
      BY <3>1, <3>2, NodesMember
    <3>4. <<"object", node[2]>> \in Marked(h)
      BY <1>2, <3>3, MarkedFacts
    <3>5. QED
      BY <1>1, <2>1, <2>3, <3>4 DEF KeptObjects
  <2>4. QED
    BY <2>1, <2>2, <2>3
<1>3. QED
  BY <1>2, ReachableIsMarked

LEMMA EndEventKeeps ==
    ASSUME ObjectsInv, EndEvent
    PROVE  Keeps
<1>1. /\ heap \in HeapType /\ Sound(heap) /\ Counted(heap, pending)
      /\ pending \in Seq(CallType) /\ Chained(heap, pending, overruled)
      /\ overruled \subseteq heap.objects /\ aborted \in BOOLEAN
      /\ heap.objects \subseteq Objects
      /\ Undefined \notin Objects /\ Freed \notin Objects
  BY HeapFields, ObjectsAssumption DEF ObjectsInv, Typed
<1>2. /\ pending = <<>> /\ UNCHANGED <<pending, aborted>>
      /\ heap' = heap \/ heap' = Collected(heap)
      /\ known' = {node[2] : node \in Reachable(heap)}
      /\ overruled' = overruled \cap heap'.objects
  <2>1. heap' \in IF aborted THEN {heap} ELSE {heap, Collected(heap)}
    BY DEF EndEvent
  <2>2. heap' = heap \/ heap' = Collected(heap)
    BY <1>1, <2>1
  <2>3. QED
    BY <2>2 DEF EndEvent
<1>3. known' \subseteq KeptObjects(heap) /\ KeptObjects(heap) \subseteq heap.objects
  BY <1>1, <1>2, ReachedIsKept DEF KeptObjects
<1>4. \A x, m : ~About(pending, x, m)
  BY <1>2 DEF About
<1>5. \A x : ~Busy(pending, x)
  BY <1>2 DEF Busy
<1>6. CASE heap' = heap
  <2>1. Typed'
    BY <1>1, <1>2, <1>3, <1>6 DEF Typed
  <2>2. Chained(heap', pending', overruled')
    BY <1>1, <1>2, <1>6 DEF Chained
  <2>3. Waiting(heap', pending')
    BY <1>2 DEF Waiting
  <2>4. ObjectsInv'
    BY <1>1, <1>2, <1>6, <2>1, <2>2, <2>3 DEF ObjectsInv
  <2>5. FreedStaysHidden
    BY <1>4, <1>6 DEF FreedStaysHidden
  <2>6. AllGarbageGoes
    BY <1>6, NothingFreed
  <2>7. QED
    BY <2>4, <2>5, <2>6 DEF Keeps
<1>7. CASE heap' = Collected(heap)
  <2> DEFINE K == KeptObjects(heap)
  <2>1. /\ heap' \in HeapType /\ heap'.objects = K
        /\ \A x \in Objects \ K : heap'.object[x] = NewObject
        /\ \A x \in K : Remains(heap, x, heap'.object[x])
    BY <1>1, <1>7, CollectedFacts
  <2>2. /\ Sound(heap') /\ Counted(heap', <<>>)
        /\ Allocated(heap') = Marked(heap)
        /\ \A x \in K : /\ heap.object[x].prototype \in K \cup {Undefined}
                        /\ \A n \in DOMAIN heap.object[x].properties :
                             Var(heap, x, n).get = Undefined =>
                               Kept(heap, Var(heap, x, n).value) = Var(heap, x, n).value
    BY <1>1, <1>2, <1>7, CollectedIsSound
  <2>3. Chained(heap', pending', overruled')
    <3>1. ASSUME NEW x \in K, x \notin overruled PROVE Agrees(heap', x)
      <4>1. Agrees(heap, x)
        BY <1>1, <1>3, <1>5, <3>1 DEF Chained
      <4>2. Remains(heap, x, heap'.object[x])
        BY <2>1
      <4>3. SUFFICES ASSUME Has(heap', x, Proto)
                     PROVE  /\ heap'.object[x].prototype = Var(heap', x, Proto).value
                            /\ heap'.object[x].prototype # Undefined =>
                                 heap'.object[x].flags = Var(heap', x, Proto).flags
        BY DEF Agrees
      <4>4. /\ Has(heap, x, Proto)
            /\ heap'.object[x].prototype = heap.object[x].prototype
            /\ heap'.object[x].flags = heap.object[x].flags
            /\ Var(heap', x, Proto).value = Kept(heap, Var(heap, x, Proto).value)
            /\ Var(heap', x, Proto).flags = Var(heap, x, Proto).flags
        BY <4>2, <4>3 DEF Remains, Has, Var
      <4>5. Kept(heap, Var(heap, x, Proto).value) = Var(heap, x, Proto).value
        BY <1>1, <1>3, <2>2, <4>1, <4>4 DEF Agrees, Kept
      <4>6. QED
        BY <4>1, <4>4, <4>5 DEF Agrees
    <3>2. QED
      BY <1>2, <2>1, <3>1 DEF Chained
  <2>4. Typed'
    BY <1>1, <1>2, <1>3, <2>1 DEF Typed
  <2>5. Waiting(heap', pending')
    BY <1>2 DEF Waiting
  <2>6. ObjectsInv'
    BY <1>2, <2>2, <2>3, <2>4, <2>5 DEF ObjectsInv
  <2>7. ASSUME NEW x \in Objects, NEW m, Dangles(heap', x, m) PROVE Dangles(heap, x, m)
    <3>1. x \in K
      BY <2>1, <2>7, NewObjectFacts DEF Dangles, Has
    <3>2. Remains(heap, x, heap'.object[x])
      BY <2>1, <3>1
    <3>3. /\ Has(heap, x, m) /\ Var(heap, x, m).get = Undefined
          /\ Kept(heap, Var(heap, x, m).value) = Freed
      BY <2>7, <3>2 DEF Remains, Dangles, Has, Var
    <3>4. QED
      BY <2>2, <3>1, <3>3 DEF Dangles, Has
  <2>8. FreedStaysHidden
    BY <1>4, <2>7 DEF FreedStaysHidden
  <2>9. AllGarbageGoes
    BY <2>2, ReachableIsMarked DEF AllGarbageGoes
  <2>10. QED
    BY <2>6, <2>8, <2>9 DEF Keeps
<1>8. QED
  BY <1>2, <1>6, <1>7

LEMMA Stutter ==
    ASSUME ObjectsInv, UNCHANGED objectVars
    PROVE  Keeps
<1>1. UNCHANGED <<heap, pending, aborted, known, overruled>>
  BY DEF objectVars
<1>2. Settled(heap, heap') /\ Counted(heap', pending)
  BY <1>1 DEF Settled, ObjectsInv, Typed
<1>3. QED
  BY <1>1, <1>2, QuietStep

-----------------------------------------------------------------------------
(* The theorems *)

LEMMA InvariantAtStart ==
    ASSUME ObjectsInit
    PROVE  ObjectsInv
<1> DEFINE native == [NewVariable EXCEPT !.value = Native]
           first == Put(<<>>, NativeName, native)
           global == [NewObject EXCEPT !.properties = first]
           object == [o \in Objects |-> IF o # Global THEN NewObject ELSE global]
           watch == [w \in Watches |-> NewWatch]
<1>1. /\ heap = [objects |-> {Global, Native}, functions |-> {Native},
                 object |-> object, watch |-> watch]
      /\ pending = <<>> /\ aborted = FALSE
      /\ known = {Global, Native} /\ overruled = {}
  BY DEF ObjectsInit
<1>2. /\ Global \in Objects /\ Native \in Objects /\ NativeName \in Names
      /\ NativeName # Proto /\ WatchLimit \in Nat
  BY ObjectsAssumption
<1>3. native = [value |-> Native, get |-> Undefined, set |-> Undefined, flags |-> {}]
  BY DEF NewVariable
<1> HIDE DEF native
<1>4. native \in VariableType
  BY <1>2, <1>3 DEF VariableType, PlainValue
<1>5. first \in [{NativeName} -> VariableType] /\ first[NativeName] = native
      /\ DOMAIN first = {NativeName}
  BY <1>4 DEF Put
<1> HIDE DEF first
<1>6. first \in Props
  BY <1>2, <1>5, Zenon DEF Props
<1>7. global = [properties |-> first, prototype |-> NewObject.prototype,
                flags |-> NewObject.flags, watches |-> NewObject.watches]
  BY NewObjectFacts DEF ObjectType
<1> HIDE DEF global
<1>8. global \in ObjectType
  BY <1>6, <1>7, NewObjectFacts DEF ObjectType, Props
<1>9. object \in [Objects -> ObjectType]
  BY <1>8, NewObjectFacts
<1>10. watch \in [Watches -> WatchType]
  BY DEF NewWatch, WatchType, PlainValue
<1>11. \A o \in Objects : object[o] = IF o # Global THEN NewObject ELSE global
  OBVIOUS
<1>12. \A w \in Watches : watch[w].refcount = 0
  BY DEF NewWatch
<1> HIDE DEF object, watch
<1>13. /\ heap.objects = {Global, Native} /\ heap.functions = {Native}
       /\ heap.object = object /\ heap.watch = watch
  BY <1>1
<1>14. heap \in HeapType
  BY <1>1, <1>2, <1>9, <1>10 DEF HeapType
<1>15. Typed
  <2>1. <<>> \in Seq(CallType) /\ FALSE \in BOOLEAN
    OBVIOUS
  <2>2. known \subseteq heap.objects /\ overruled \subseteq heap.objects
    BY <1>1, <1>13
  <2>3. pending \in Seq(CallType) /\ aborted \in BOOLEAN
    BY <1>1, <2>1, Zenon
  <2>4. QED
    BY <1>14, <2>2, <2>3 DEF Typed
<1>16. \A o \in Objects : DOMAIN heap.object[o].watches = {}
  BY <1>7, <1>11, <1>13, NewObjectFacts
<1>17. \A o \in Objects : \A n \in DOMAIN heap.object[o].properties :
          o = Global /\ n = NativeName /\ Var(heap, o, n) = native
  BY <1>5, <1>7, <1>11, <1>13, NewObjectFacts DEF Var
<1>18. Sound(heap)
  <2>1. SoundVariable(heap, NativeName, native)
    BY <1>2, <1>3, <1>13 DEF SoundVariable, Refers, Calls
  <2>2. \A o \in Objects : Refers(heap, heap.object[o].prototype)
    BY <1>7, <1>11, <1>13, NewObjectFacts DEF Refers
  <2>3. \A o \in Objects \ heap.objects : heap.object[o] = NewObject
    BY <1>11, <1>13
  <2>4. QED
    BY <1>13, <1>16, <1>17, <2>1, <2>2, <2>3 DEF Sound
<1>19. Counted(heap, pending)
  <2>1. \A w : Listed(heap, w) = {}
    BY <1>16 DEF Listed
  <2>2. \A w : RunningFor(<<>>, w) = {}
    BY DEF RunningFor
  <2>3. Cardinality({}) = 0
    BY FS_EmptySet
  <2>4. ASSUME NEW w \in Watches
        PROVE  /\ heap.watch[w].refcount
                    = Cardinality(Listed(heap, w)) + Cardinality(RunningFor(pending, w))
               /\ \A u, v \in Listed(heap, w) : u = v
               /\ Cardinality(RunningFor(pending, w)) <= WatchLimit
    <3>1. heap.watch[w].refcount = 0 /\ 0 <= WatchLimit
      BY <1>2, <1>12, <1>13
    <3>2. Cardinality(Listed(heap, w)) = 0 /\ Cardinality(RunningFor(pending, w)) = 0
      BY <1>1, <2>1, <2>2, <2>3
    <3>3. QED
      BY <2>1, <3>1, <3>2
  <2>5. QED
    BY <2>4 DEF Counted
<1>20. Waiting(heap, pending)
  BY <1>1 DEF Waiting
<1>21. Chained(heap, pending, overruled)
  BY <1>2, <1>13, <1>17 DEF Chained, Agrees, Has
<1>22. QED
  BY <1>15, <1>18, <1>19, <1>20, <1>21 DEF ObjectsInv

LEMMA EveryStepKeeps ==
    ASSUME ObjectsInv, [ObjectsNext]_objectVars
    PROVE  Keeps
<1>1. ASSUME NEW use \in Uses, use[1] \in known,
             \/ \E v \in ValuesOf(known) : SetVariable(use[1], use[2], v)
             \/ DeleteVariable(use[1], use[2])
             \/ \E get \in Functions :
                  \E set \in {get, Undefined} : AddVariable(use[1], use[2], get, set)
             \/ \E flags \in SUBSET FlagChanges : ChangeFlags(use[1], use[2], flags)
             \/ \E f \in Functions, data \in ValuesOf(Functions) :
                  AddWatch(use[1], use[2], f, data)
             \/ Unwatch(use[1], use[2])
      PROVE  Keeps
  <2>1. use[2] \in Names
    BY ObjectsAssumption
  <2>2. CASE \E v \in ValuesOf(known) : SetVariable(use[1], use[2], v)
    BY <1>1, <2>1, <2>2, SetVariableKeeps
  <2>3. CASE DeleteVariable(use[1], use[2])
    BY <1>1, <2>3, DeleteVariableKeeps
  <2>4. CASE \E get \in Functions : \E set \in {get, Undefined} :
               AddVariable(use[1], use[2], get, set)
    BY <1>1, <2>1, <2>4, AddVariableKeeps
  <2>5. CASE \E flags \in SUBSET FlagChanges : ChangeFlags(use[1], use[2], flags)
    BY <1>1, <2>5, ChangeFlagsKeeps
  <2>6. CASE \E f \in Functions, data \in ValuesOf(Functions) :
               AddWatch(use[1], use[2], f, data)
    BY <1>1, <2>1, <2>6, AddWatchKeeps
  <2>7. CASE Unwatch(use[1], use[2])
    BY <1>1, <2>7, UnwatchKeeps
  <2>8. QED
    BY <1>1, <2>2, <2>3, <2>4, <2>5, <2>6, <2>7
<1>2. ASSUME ScriptChanges PROVE Keeps
  <2>1. CASE \E o \in Objects : NewFunction(o)
    BY <2>1, NewFunctionKeeps
  <2>2. QED
    BY <1>1, <1>2, <2>1 DEF ScriptChanges
<1>3. ASSUME NEW value \in ValuesOf(known), WatchReturns(value) PROVE Keeps
  BY <1>3, WatchReturnsKeeps
<1>4. QED
  BY <1>2, <1>3, EndEventKeeps, Stutter DEF ObjectsNext

\* Whatever scripts do, what is allocated leads only to what is, watches are
\* counted, and __proto__ and the prototype agree: the inductive invariant.
THEOREM ObjectsAreSound == ObjectsSpec => []ObjectsInv
<1>1. ObjectsInit => ObjectsInv
  BY InvariantAtStart
<1>2. ObjectsInv /\ [ObjectsNext]_objectVars => ObjectsInv'
  BY EveryStepKeeps DEF Keeps
<1>3. QED
  BY <1>1, <1>2, PTL DEF ObjectsSpec

\* A watch is freed when it is neither listed nor running, and not before.
THEOREM WatchesCounted == ObjectsSpec => []WatchesAreCounted
<1>1. ASSUME ObjectsInv PROVE WatchesAreCounted
  <2>1. Counted(heap, pending) /\ pending \in Seq(CallType)
    BY <1>1 DEF ObjectsInv, Typed
  <2>2. ASSUME NEW w \in Watches
        PROVE  LET listed == {use \in Objects \X Names :
                                /\ use[2] \in DOMAIN heap.object[use[1]].watches
                                /\ heap.object[use[1]].watches[use[2]] = w}
                   running == {i \in DOMAIN pending : pending[i].watch = w}
               IN  /\ heap.watch[w].refcount = Cardinality(listed) + Cardinality(running)
                   /\ Cardinality(listed) <= 1
                   /\ Cardinality(running) <= WatchLimit
    <3>1. Cardinality(Listed(heap, w)) = IF Listed(heap, w) = {} THEN 0 ELSE 1
      BY <2>1, ListedFacts DEF Counted
    <3>2. Cardinality(Listed(heap, w)) <= 1
      BY <3>1
    <3>3. /\ heap.watch[w].refcount
               = Cardinality(Listed(heap, w)) + Cardinality(RunningFor(pending, w))
          /\ Cardinality(RunningFor(pending, w)) <= WatchLimit
      BY <2>1 DEF Counted
    <3>4. QED
      BY <3>2, <3>3 DEF Listed, RunningFor
  <2>3. QED
    BY <2>2 DEF WatchesAreCounted
<1>2. QED
  BY <1>1, ObjectsAreSound, PTL

\* What __proto__ reads is the prototype that lookups follow.
THEOREM ChainsFollow == ObjectsSpec => []ChainFollowsVariable
<1>1. ASSUME ObjectsInv PROVE ChainFollowsVariable
  BY <1>1 DEF ObjectsInv, Chained, Busy, Agrees, ChainFollowsVariable
<1>2. QED
  BY <1>1, ObjectsAreSound, PTL

\* Nothing that a script can get is freed, and all that it cannot get is.
THEOREM GarbageIsCollected == ObjectsSpec => GarbageGoes
<1>1. ASSUME ObjectsInv
      PROVE  \A node \in Allocated(heap) : Leads(heap, node) \subseteq Allocated(heap)
  <2>1. heap \in HeapType /\ Sound(heap) /\ heap.objects \subseteq Objects
        /\ heap.functions \subseteq Objects
    BY <1>1, HeapFields DEF ObjectsInv, Typed
  <2>2. ASSUME NEW node \in Allocated(heap) PROVE Leads(heap, node) \subseteq Allocated(heap)
    <3>1. /\ node = <<node[1], node[2]>>
          /\ \/ node[1] = "object" /\ node[2] \in heap.objects
             \/ node[1] = "function" /\ node[2] \in heap.functions
      BY <2>1, <2>2, AllocatedMember
    <3>2. node \in AllNodes /\ (node[1] = "function" => node[2] \in heap.functions)
      BY <2>1, <3>1 DEF AllNodes
    <3>3. QED
      BY <2>1, <3>2, AllocatedIsClosed, MarkedIsReached
  <2>3. QED
    BY <2>2
<1>2. ASSUME ObjectsInv, [ObjectsNext]_objectVars
      PROVE  FreedStaysHidden /\ AllGarbageGoes
  BY <1>2, EveryStepKeeps DEF Keeps
<1>3. ObjectsSpec => [](\A node \in Allocated(heap) : Leads(heap, node) \subseteq Allocated(heap))
  BY <1>1, ObjectsAreSound, PTL
<1>4. ObjectsSpec => [][FreedStaysHidden]_objectVars
  BY <1>2, ObjectsAreSound, PTL DEF ObjectsSpec
<1>5. ObjectsSpec => [][AllGarbageGoes]_objectVars
  BY <1>2, ObjectsAreSound, PTL DEF ObjectsSpec
<1>6. QED
  BY <1>3, <1>4, <1>5 DEF GarbageGoes

-----------------------------------------------------------------------------
(* The frames of scripts *)

Actions == UNION {UNION Range(Code[s]) : s \in Scripts}
BlockType == [kind : Kinds, at : Nat, start : Nat, end : Nat, try : Actions, depth : Nat, held : Nat]
FrameType == [script : Scripts \cup {"none"}, pc : Nat, blocks : Seq(BlockType), bounded : BOOLEAN,
              scope : Nat, rejected : SUBSET (Kinds \X Nat)]
CallTypes == [frame : Nat, at : {"start", "loop", "call", "free"}, check : BOOLEAN, dying : FrameType]

\* A block is one that the code has.
BlockOK(s, b) ==
    /\ b.at \in DOMAIN Code[s] /\ b.try \in Code[s][b.at]
    /\ HasBlock(b.kind, b.try)
    /\ b.start = From(b.kind, b.at, b.try) /\ b.end = To(b.kind, b.try)
    /\ b.kind # "finally" => b.held = 0

Spans(b, pc) == b.start <= pc /\ pc < b.end
IsOf(b, g) == b.kind = g[1] /\ b.at = g[2]

\* The block b lies in the block c.
Holds(c, b) == c.start <= b.start /\ b.end <= c.end

\* The blocks bs of the script s, or those in rej that were turned away, have g.
Accounted(bs, rej, g) == (\E i \in DOMAIN bs : IsOf(bs[i], g)) \/ g \in rej

\* If its code is structured, those that guard the address pc are there.
Guarding(s, bs, rej, pc) == s \in Structured => \A g \in Guards(s, pc) : Accounted(bs, rej, g)

\* The blocks of the action that has b are on the stack below it.
Rests(s, bs, rej, j) ==
    s \in Structured => \A g \in Guards(s, bs[j].at) : (\E i \in 1..j - 1 : IsOf(bs[i], g)) \/ g \in rej

BlocksOK(s, bs, rej) ==
    /\ bs # <<>> => s \in Scripts
    /\ \A i \in DOMAIN bs : BlockOK(s, bs[i])
    /\ \A i, j \in DOMAIN bs : i < j => Holds(bs[i], bs[j])
    /\ \A j \in DOMAIN bs : Rests(s, bs, rej, j)

\* The depths of the blocks bs are in order below the n objects that are on the
\* scope chain, with others in between only if something was left over.
Puts(b) == IF b.kind \in {"catch", "with"} THEN 1 ELSE 0
Under(bs, i) == IF i = 1 THEN 0 ELSE bs[i - 1].depth
Chain(bs, n, left) ==
    /\ \A i \in DOMAIN bs : /\ Under(bs, i) + Puts(bs[i]) <= bs[i].depth
                            /\ ~left => bs[i].depth = Under(bs, i) + Puts(bs[i])
    /\ Under(bs, Len(bs) + 1) <= n
    /\ ~left => n = Under(bs, Len(bs) + 1)

LeftIn(rej) == \E r \in rej : r[1] \in {"catch", "with"}

FrameOK(f) ==
    /\ f \in FrameType
    /\ BlocksOK(f.script, f.blocks, f.rejected)
    /\ Chain(f.blocks, f.scope, LeftIn(f.rejected))

-----------------------------------------------------------------------------
(* Sequences *)

LEMMA FrontIs ==
    ASSUME NEW S, NEW q \in Seq(S), q # <<>>
    PROVE  /\ Len(q) \in Nat \ {0} /\ Front(q) \in Seq(S) /\ Len(Front(q)) = Len(q) - 1
           /\ \A i \in 1..Len(q) - 1 : Front(q)[i] = q[i]
           /\ Last(q) = q[Len(q)] /\ Last(q) \in S
           /\ DOMAIN q = 1..Len(q) /\ DOMAIN Front(q) = 1..Len(q) - 1
  <1>1. Len(q) \in Nat \ {0} /\ DOMAIN q = 1..Len(q)
    BY EmptySeq
  <1>2. Front(q) = [i \in 1..Len(q) - 1 |-> q[i]] /\ Last(q) = q[Len(q)]
    BY <1>1 DEF Front, Last
  <1>3. \A i \in 1..Len(q) - 1 : q[i] \in S
    BY <1>1
  <1>4. Front(q) \in [1..Len(q) - 1 -> S] /\ Len(q) - 1 \in Nat
    BY <1>1, <1>2, <1>3
  <1>. QED
    BY <1>1, <1>2, <1>4

LEMMA LastIs ==
    ASSUME NEW S, NEW q \in Seq(S), q # <<>>
    PROVE  /\ Last(q) = q[Len(q)] /\ Last(q) \in S /\ Len(q) \in DOMAIN q
           /\ Len(q) \in Nat \ {0} /\ DOMAIN q = 1..Len(q)
  BY FrontIs

LEMMA AppendIs ==
    ASSUME NEW S, NEW q \in Seq(S), NEW x \in S
    PROVE  /\ Append(q, x) \in Seq(S) /\ Len(Append(q, x)) = Len(q) + 1 /\ Len(q) \in Nat
           /\ DOMAIN Append(q, x) = 1..Len(q) + 1 /\ DOMAIN q = 1..Len(q)
           /\ \A i \in 1..Len(q) : Append(q, x)[i] = q[i]
           /\ Append(q, x)[Len(q) + 1] = x /\ Append(q, x) # <<>> /\ Last(Append(q, x)) = x
           /\ Front(Append(q, x)) = q
  <1>1. /\ Append(q, x) \in Seq(S) /\ Len(Append(q, x)) = Len(q) + 1 /\ Len(q) \in Nat
        /\ DOMAIN Append(q, x) = 1..Len(q) + 1 /\ DOMAIN q = 1..Len(q)
        /\ \A i \in 1..Len(q) : Append(q, x)[i] = q[i]
        /\ Append(q, x)[Len(q) + 1] = x
    OBVIOUS
  <1>2. Append(q, x) # <<>>
    BY <1>1
  <1>3. Last(Append(q, x)) = x
    BY <1>1 DEF Last
  <1>4. /\ Front(Append(q, x)) \in Seq(S) /\ Len(Front(Append(q, x))) = Len(q)
        /\ \A i \in 1..Len(q) : Front(Append(q, x))[i] = q[i]
    <2> DEFINE r == Append(q, x)
    <2> HIDE DEF r
    <2>1. r \in Seq(S) /\ r # <<>> /\ Len(r) = Len(q) + 1 /\ \A i \in 1..Len(q) : r[i] = q[i]
      BY <1>1, <1>2 DEF r
    <2>2. /\ Front(r) \in Seq(S) /\ Len(Front(r)) = Len(r) - 1
          /\ \A i \in 1..Len(r) - 1 : Front(r)[i] = r[i]
      BY <2>1, FrontIs
    <2>3. Len(q) \in Nat /\ Len(r) - 1 = Len(q)
      BY <2>1
    <2>4. \A i \in 1..Len(q) : Front(r)[i] = q[i]
      BY <2>1, <2>2, <2>3
    <2>. QED
      BY <2>2, <2>3, <2>4 DEF r
  <1>5. Front(Append(q, x)) = q
    BY <1>4, SeqEqual
  <1>. QED
    BY <1>1, <1>2, <1>3, <1>5

\* The last element is replaced.
LEMMA ReplaceIs ==
    ASSUME NEW S, NEW q \in Seq(S), q # <<>>, NEW x \in S
    PROVE  /\ Append(Front(q), x) \in Seq(S) /\ Append(Front(q), x) # <<>>
           /\ Len(Append(Front(q), x)) = Len(q) /\ Len(q) \in Nat \ {0}
           /\ DOMAIN Append(Front(q), x) = 1..Len(q) /\ DOMAIN q = 1..Len(q)
           /\ \A i \in 1..Len(q) : Append(Front(q), x)[i] = IF i = Len(q) THEN x ELSE q[i]
           /\ Last(Append(Front(q), x)) = x /\ Front(Append(Front(q), x)) = Front(q)
  <1> DEFINE r == Front(q)
  <1>1. /\ Len(q) \in Nat \ {0} /\ r \in Seq(S) /\ Len(r) = Len(q) - 1
        /\ \A i \in 1..Len(q) - 1 : r[i] = q[i]
        /\ DOMAIN q = 1..Len(q)
    BY FrontIs
  <1> HIDE DEF r
  <1>2. /\ Append(r, x) \in Seq(S) /\ Len(Append(r, x)) = Len(r) + 1 /\ Len(r) \in Nat
        /\ DOMAIN Append(r, x) = 1..Len(r) + 1
        /\ \A i \in 1..Len(r) : Append(r, x)[i] = r[i]
        /\ Append(r, x)[Len(r) + 1] = x /\ Append(r, x) # <<>> /\ Last(Append(r, x)) = x
        /\ Front(Append(r, x)) = r
    BY <1>1, AppendIs
  <1>3. Len(r) + 1 = Len(q)
    BY <1>1
  <1>4. \A i \in 1..Len(q) : Append(r, x)[i] = IF i = Len(q) THEN x ELSE q[i]
    <2>1. TAKE i \in 1..Len(q)
    <2>2. CASE i = Len(q)
      BY <2>2, <1>2, <1>3
    <2>3. CASE i # Len(q)
      <3>1. i \in 1..Len(r) /\ i \in 1..Len(q) - 1
        BY <2>3, <1>1
      <3>. QED
        BY <3>1, <2>3, <1>1, <1>2
    <2>. QED
      BY <2>2, <2>3
  <1>5. DOMAIN Append(r, x) = 1..Len(q) /\ Len(Append(r, x)) = Len(q)
    BY <1>2, <1>3
  <1>. QED
    BY <1>1, <1>2, <1>4, <1>5 DEF r

-----------------------------------------------------------------------------
(* The code *)

LEMMA CodeIs ==
    ASSUME NEW s \in Scripts
    PROVE  /\ DOMAIN Code[s] = 1..Len(Code[s]) /\ Len(Code[s]) \in Nat /\ Exit(s) \in Nat \ {0}
           /\ \A at \in DOMAIN Code[s] : \A a \in Code[s][at] :
                /\ Decoded(at, a)
                /\ \A b \in Code[s][at] : a.op = b.op /\ a.op \in {"try", "with"} => a = b
                /\ a \in Actions
                /\ s \in Structured => Guarded(s, at, a)
  <1>1. /\ Code[s] \in Seq(SUBSET UNION Range(Code[s]))
        /\ \A at \in DOMAIN Code[s] : \A a \in Code[s][at] :
             /\ Decoded(at, a)
             /\ \A b \in Code[s][at] : a.op = b.op /\ a.op \in {"try", "with"} => a = b
    BY CodeAssumption
  <1> DEFINE c == Code[s]
  <1>2. c \in Seq(SUBSET UNION Range(c))
    BY <1>1
  <1> HIDE DEF c
  <1>3. DOMAIN c = 1..Len(c) /\ Len(c) \in Nat
    BY <1>2
  <1>4. \A at \in DOMAIN c : \A a \in c[at] : a \in UNION Range(c)
    BY DEF Range
  <1>5. UNION Range(c) \subseteq Actions
    BY DEF Actions, c
  <1>6. \A at \in DOMAIN Code[s] : \A a \in Code[s][at] : a \in Actions
    BY <1>4, <1>5 DEF c
  <1>7. Exit(s) \in Nat \ {0}
    BY <1>3 DEF Exit, c
  <1>8. DOMAIN Code[s] = 1..Len(Code[s]) /\ Len(Code[s]) \in Nat
    BY <1>3 DEF c
  <1>9. s \in Structured => \A at \in DOMAIN Code[s] : \A a \in Code[s][at] : Guarded(s, at, a)
    BY DEF Structured
  <1>. QED
    BY <1>1, <1>6, <1>7, <1>8, <1>9

\* What a block of the code looks like.
LEMMA BlockIs ==
    ASSUME NEW s \in Scripts, NEW at \in DOMAIN Code[s], NEW a \in Code[s][at],
           NEW kind \in Kinds, HasBlock(kind, a)
    PROVE  /\ at \in Nat \ {0} /\ From(kind, at, a) \in Nat /\ To(kind, a) \in Nat
           /\ at < From(kind, at, a) /\ From(kind, at, a) <= To(kind, a)
           /\ a.op \in {"try", "with"} /\ (kind = "with" <=> a.op = "with")
  <1>1. at \in Nat \ {0} /\ Decoded(at, a)
    BY CodeIs
  <1>2. a.op \in {"try", "with"} /\ (kind = "with" <=> a.op = "with")
    BY DEF HasBlock, Kinds
  <1>3. a.end \in Nat /\ at < a.end
    BY <1>1, <1>2 DEF Decoded
  <1>4. CASE kind = "with"
    BY <1>1, <1>2, <1>3, <1>4 DEF From, To
  <1>5. CASE kind = "try"
    BY <1>1, <1>2, <1>3, <1>5 DEF From, To, Decoded
  <1>6. CASE kind = "finally"
    BY <1>1, <1>2, <1>3, <1>6 DEF From, To, Decoded, HasBlock
  <1>7. CASE kind = "catch"
    <2>1. a.catch # 0 /\ a.op = "try"
      BY <1>7 DEF HasBlock
    <2>2. a.catch \in a.body..CatchEnd(a) /\ a.body \in at + 1..a.end
      BY <2>1, <1>1 DEF Decoded
    <2>3. CatchEnd(a) \in Nat
      BY <2>1, <1>1, <1>3 DEF Decoded, CatchEnd
    <2>. QED
      BY <1>1, <1>2, <1>3, <1>7, <2>2, <2>3 DEF From, To
  <1>. QED
    BY <1>4, <1>5, <1>6, <1>7 DEF Kinds

\* The same of a block that a frame has.
LEMMA BlockOKIs ==
    ASSUME NEW s \in Scripts, NEW b \in BlockType, BlockOK(s, b)
    PROVE  /\ b.at \in Nat \ {0} /\ b.start \in Nat /\ b.end \in Nat
           /\ b.at < b.start /\ b.start <= b.end
           /\ b.kind \in Kinds /\ b.try \in Code[s][b.at] /\ b.at \in DOMAIN Code[s]
           /\ b.held \in Nat /\ b.depth \in Nat
           /\ b.try.op \in {"try", "with"} /\ (b.kind = "with" <=> b.try.op = "with")
           /\ \A pc : Covers(b.kind, b.at, b.try, pc) <=> Spans(b, pc)
  <1>1. b.kind \in Kinds /\ b.held \in Nat /\ b.depth \in Nat
    BY DEF BlockType
  <1>2. /\ b.at \in DOMAIN Code[s] /\ b.try \in Code[s][b.at] /\ HasBlock(b.kind, b.try)
        /\ b.start = From(b.kind, b.at, b.try) /\ b.end = To(b.kind, b.try)
    BY DEF BlockOK
  <1>4. \A pc : Covers(b.kind, b.at, b.try, pc) <=> Spans(b, pc)
    BY <1>2 DEF Covers, Spans
  <1>. QED
    BY <1>1, <1>2, <1>4, BlockIs

\* A block that guards an address has it.
LEMMA GuardsAre ==
    ASSUME NEW s \in Scripts, NEW pc, NEW g \in Guards(s, pc)
    PROVE  /\ g[1] \in Kinds /\ g[1] # "finally" /\ g[2] \in DOMAIN Code[s]
           /\ \E a \in Code[s][g[2]] : Covers(g[1], g[2], a, pc)
  BY DEF Guards

\* A script begins outside of any block.
LEMMA NoGuardAtBegin ==
    ASSUME NEW s \in Scripts
    PROVE  Guards(s, 1) = {}
  <1> SUFFICES ASSUME NEW g \in Guards(s, 1) PROVE FALSE
    OBVIOUS
  <1>1. PICK a \in Code[s][g[2]] : Covers(g[1], g[2], a, 1)
    BY GuardsAre
  <1>2. g[1] \in Kinds /\ g[2] \in DOMAIN Code[s]
    BY GuardsAre
  <1>3. HasBlock(g[1], a) /\ From(g[1], g[2], a) <= 1
    BY <1>1 DEF Covers
  <1>. QED
    BY <1>2, <1>3, BlockIs

-----------------------------------------------------------------------------
(* Blocks are pushed and popped *)

LEMMA HoldsIs ==
    ASSUME NEW a \in BlockType, NEW b \in BlockType, NEW c \in BlockType, Holds(a, b), Holds(b, c)
    PROVE  Holds(a, c)
  <1>1. /\ a.start \in Nat /\ b.start \in Nat /\ c.start \in Nat
        /\ a.end \in Nat /\ b.end \in Nat /\ c.end \in Nat
    BY DEF BlockType
  <1>2. a.start <= b.start /\ b.start <= c.start /\ c.end <= b.end /\ b.end <= a.end
    BY DEF Holds
  <1>3. a.start <= c.start /\ c.end <= a.end
    BY <1>1, <1>2
  <1>. QED
    BY <1>3 DEF Holds

\* A block that the code has is entered.
LEMMA PushKeeps ==
    ASSUME NEW s \in Scripts, NEW bs \in Seq(BlockType), NEW rej, BlocksOK(s, bs, rej),
           NEW b \in BlockType, BlockOK(s, b), bs # <<>> => Holds(Last(bs), b),
           Guarding(s, bs, rej, b.at)
    PROVE  BlocksOK(s, Append(bs, b), rej)
  <1> DEFINE cs == Append(bs, b)
             n == Len(bs)
  <1>1. /\ n \in Nat /\ DOMAIN cs = 1..n + 1 /\ DOMAIN bs = 1..n /\ cs[n + 1] = b
        /\ \A i \in 1..n : cs[i] = bs[i]
    BY AppendIs
  <1>2. \A i \in DOMAIN bs : Holds(bs[i], b)
    <2>1. TAKE i \in DOMAIN bs
    <2>2. bs # <<>> /\ Last(bs) = bs[n] /\ n \in DOMAIN bs /\ i <= n
      BY <1>1, LastIs
    <2>3. CASE i = n
      BY <2>2, <2>3
    <2>4. CASE i # n
      <3>1. i < n
        BY <2>2, <2>4, <1>1
      <3>2. Holds(bs[i], bs[n]) /\ bs[i] \in BlockType /\ bs[n] \in BlockType
        BY <2>2, <3>1 DEF BlocksOK
      <3>. QED
        BY <3>2, <2>2, HoldsIs
    <2>. QED
      BY <2>3, <2>4
  <1> HIDE DEF cs, n
  <1>3. \A i \in DOMAIN cs : BlockOK(s, cs[i])
    <2>1. TAKE i \in DOMAIN cs
    <2>2. CASE i \in 1..n
      BY <2>2, <1>1 DEF BlocksOK
    <2>3. CASE i = n + 1
      BY <2>3, <1>1
    <2>. QED
      BY <1>1, <2>2, <2>3
  <1>4. \A i, j \in DOMAIN cs : i < j => Holds(cs[i], cs[j])
    <2>1. TAKE i, j \in DOMAIN cs
    <2>2. HAVE i < j
    <2>3. i \in 1..n
      BY <1>1, <2>2
    <2>4. CASE j \in 1..n
      BY <2>2, <2>3, <2>4, <1>1 DEF BlocksOK
    <2>5. CASE j = n + 1
      BY <2>3, <2>5, <1>1, <1>2
    <2>. QED
      BY <1>1, <2>4, <2>5
  <1>5. \A j \in DOMAIN cs : Rests(s, cs, rej, j)
    <2>1. TAKE j \in DOMAIN cs
    <2>2. SUFFICES ASSUME s \in Structured, NEW g \in Guards(s, cs[j].at), g \notin rej
                   PROVE  \E i \in 1..j - 1 : IsOf(cs[i], g)
      BY DEF Rests
    <2>3. CASE j \in 1..n
      <3>1. Rests(s, bs, rej, j)
        BY <2>3, <1>1 DEF BlocksOK
      <3>2. g \in Guards(s, bs[j].at)
        BY <2>3, <1>1
      <3>3. PICK i \in 1..j - 1 : IsOf(bs[i], g)
        BY <2>2, <3>1, <3>2 DEF Rests
      <3>4. i \in 1..n
        BY <2>3, <1>1
      <3>. QED
        BY <3>3, <3>4, <1>1
    <2>4. CASE j = n + 1
      <3>1. g \in Guards(s, b.at)
        BY <2>4, <1>1
      <3>2. PICK i \in DOMAIN bs : IsOf(bs[i], g)
        BY <2>2, <3>1 DEF Guarding, Accounted
      <3>3. i \in 1..j - 1 /\ i \in 1..n
        BY <2>4, <1>1
      <3>. QED
        BY <3>2, <3>3, <1>1
    <2>. QED
      BY <1>1, <2>3, <2>4
  <1>. QED
    BY <1>3, <1>4, <1>5 DEF BlocksOK, cs

\* Another block is turned away.
LEMMA RejectKeeps ==
    ASSUME NEW s, NEW bs, NEW rej, BlocksOK(s, bs, rej), NEW more, rej \subseteq more
    PROVE  BlocksOK(s, bs, more)
  BY DEF BlocksOK, Rests

\* The innermost block goes.  What is left has the action of it in it.
LEMMA PopKeeps ==
    ASSUME NEW s, NEW bs \in Seq(BlockType), NEW rej, BlocksOK(s, bs, rej), bs # <<>>
    PROVE  /\ s \in Scripts /\ Last(bs) \in BlockType /\ BlockOK(s, Last(bs))
           /\ Front(bs) \in Seq(BlockType) /\ BlocksOK(s, Front(bs), rej)
           /\ Guarding(s, Front(bs), rej, Last(bs).at)
  <1> DEFINE cs == Front(bs)
             n == Len(bs)
  <1>1. /\ n \in Nat \ {0} /\ DOMAIN bs = 1..n /\ DOMAIN cs = 1..n - 1 /\ Last(bs) = bs[n]
        /\ \A i \in 1..n - 1 : cs[i] = bs[i]
        /\ cs \in Seq(BlockType) /\ Last(bs) \in BlockType
    BY FrontIs
  <1> HIDE DEF cs, n
  <1>2. s \in Scripts /\ BlockOK(s, Last(bs))
    BY <1>1 DEF BlocksOK
  <1>3. \A i \in 1..n - 1 : i \in 1..n /\ i < n /\ n \in 1..n
    BY <1>1
  <1>5. \A i \in DOMAIN cs : BlockOK(s, cs[i])
    BY <1>1, <1>3 DEF BlocksOK
  <1>6. \A i, j \in DOMAIN cs : i < j => Holds(cs[i], cs[j])
    BY <1>1, <1>3 DEF BlocksOK
  <1>7. \A j \in DOMAIN cs : Rests(s, cs, rej, j)
    <2>1. TAKE j \in DOMAIN cs
    <2>2. Rests(s, bs, rej, j) /\ cs[j] = bs[j] /\ \A i \in 1..j - 1 : i \in 1..n - 1
      BY <1>1, <1>3 DEF BlocksOK
    <2>. QED
      BY <2>2, <1>1 DEF Rests
  <1>8. Guarding(s, cs, rej, Last(bs).at)
    <2>1. Rests(s, bs, rej, n)
      BY <1>1 DEF BlocksOK
    <2>. QED
      BY <2>1, <1>1 DEF Rests, Guarding, Accounted
  <1>9. BlocksOK(s, cs, rej)
    BY <1>2, <1>5, <1>6, <1>7 DEF BlocksOK
  <1>. QED
    BY <1>1, <1>2, <1>8, <1>9 DEF cs

\* A block is entered with all that is on the scope chain below it.
LEMMA ChainPush ==
    ASSUME NEW bs \in Seq(BlockType), NEW n \in Nat, NEW left, Chain(bs, n, left),
           NEW b \in BlockType, b.depth = n + Puts(b)
    PROVE  Chain(Append(bs, b), n + Puts(b), left)
  <1> DEFINE cs == Append(bs, b)
             l == Len(bs)
             p == Puts(b)
  <1>1. /\ l \in Nat /\ DOMAIN cs = 1..l + 1 /\ DOMAIN bs = 1..l /\ cs[l + 1] = b
        /\ \A i \in 1..l : cs[i] = bs[i]
        /\ Len(cs) = l + 1
    BY AppendIs
  <1>2. p \in Nat
    BY DEF Puts
  <1> HIDE DEF cs, l, p
  <1>3. \A i \in 1..l + 1 : Under(cs, i) = Under(bs, i)
    <2>1. TAKE i \in 1..l + 1
    <2>2. i # 1 => i - 1 \in 1..l
      BY <1>1
    <2>. QED
      BY <2>2, <1>1 DEF Under
  <1>4. Under(cs, l + 2) = n + p
    <2>1. l + 2 # 1 /\ l + 2 - 1 = l + 1
      BY <1>1
    <2>. QED
      BY <2>1, <1>1 DEF Under, p
  <1>5. ASSUME NEW i \in 1..l + 1
        PROVE  /\ Under(cs, i) + Puts(cs[i]) <= cs[i].depth
               /\ ~left => cs[i].depth = Under(cs, i) + Puts(cs[i])
    <2>1. CASE i \in 1..l
      BY <2>1, <1>1, <1>3 DEF Chain
    <2>2. CASE i = l + 1
      <3>1. cs[i] = b /\ Under(cs, i) = Under(bs, l + 1) /\ b.depth = n + p /\ Puts(cs[i]) = p
        BY <2>2, <1>1, <1>3 DEF p
      <3> DEFINE u == Under(bs, l + 1)
      <3>2. u <= n /\ (~left => n = u)
        BY DEF Chain, l
      <3>3. u \in Nat
        <4>1. CASE l = 0
          BY <4>1 DEF Under
        <4>2. CASE l # 0
          <5>1. l \in DOMAIN bs /\ l + 1 # 1 /\ l + 1 - 1 = l
            BY <4>2, <1>1
          <5>2. bs[l] \in BlockType
            BY <5>1
          <5>. QED
            BY <5>1, <5>2 DEF Under, BlockType
        <4>. QED
          BY <4>1, <4>2
      <3> HIDE DEF u
      <3>4. u + p <= n + p /\ (~left => n + p = u + p)
        BY <3>2, <3>3, <1>2
      <3>. QED
        BY <3>1, <3>4 DEF u
    <2>. QED
      BY <2>1, <2>2, <1>1
  <1>6. n + p <= n + p
    BY <1>2
  <1>7. Len(cs) + 1 = l + 2
    BY <1>1
  <1>8. Chain(cs, n + p, left)
    BY <1>1, <1>4, <1>5, <1>6, <1>7 DEF Chain
  <1>. QED
    BY <1>8 DEF cs, p

\* The innermost block goes, and its object.
LEMMA ChainPop ==
    ASSUME NEW bs \in Seq(BlockType), bs # <<>>, NEW n \in Nat, NEW left, Chain(bs, n, left)
    PROVE  /\ Chain(Front(bs), n - Puts(Last(bs)), left) /\ n - Puts(Last(bs)) \in Nat
           /\ ~left => n = Last(bs).depth
  <1> DEFINE cs == Front(bs)
             l == Len(bs)
             b == Last(bs)
             p == Puts(b)
  <1>1. /\ l \in Nat \ {0} /\ DOMAIN bs = 1..l /\ DOMAIN cs = 1..l - 1 /\ b = bs[l]
        /\ \A i \in 1..l - 1 : cs[i] = bs[i]
        /\ Len(cs) = l - 1 /\ b \in BlockType
    BY FrontIs
  <1>2. p \in Nat /\ b.depth \in Nat
    BY <1>1 DEF Puts, BlockType
  <1> HIDE DEF cs, l, b, p
  <1>3. \A i \in 1..l : Under(cs, i) = Under(bs, i)
    <2>1. TAKE i \in 1..l
    <2>2. i # 1 => i - 1 \in 1..l - 1
      BY <1>1
    <2>. QED
      BY <2>2, <1>1 DEF Under
  <1>4. Under(bs, l + 1) = b.depth
    <2>1. l + 1 # 1 /\ l + 1 - 1 = l
      BY <1>1
    <2>. QED
      BY <2>1, <1>1 DEF Under
  <1>5. b.depth <= n /\ (~left => n = b.depth)
    BY <1>4 DEF Chain, l
  <1> DEFINE u == Under(bs, l)
  <1>6. u \in Nat
    <2>1. CASE l = 1
      BY <2>1 DEF Under
    <2>2. CASE l # 1
      <3>1. l - 1 \in DOMAIN bs
        BY <2>2, <1>1
      <3>2. bs[l - 1] \in BlockType
        BY <3>1
      <3>. QED
        BY <3>2, <2>2 DEF Under, BlockType
    <2>. QED
      BY <2>1, <2>2
  <1>7. u + p <= b.depth /\ (~left => b.depth = u + p)
    <2>1. l \in DOMAIN bs
      BY <1>1
    <2>. QED
      BY <2>1, <1>1 DEF Chain, p
  <1> HIDE DEF u
  <1>8. n - p \in Nat /\ u <= n - p /\ (~left => n - p = u)
    <2>1. u + p <= n
      BY <1>2, <1>5, <1>6, <1>7
    <2>2. ~left => n = u + p
      BY <1>5, <1>7
    <2>. QED
      BY <2>1, <2>2, <1>2, <1>6
  <1>9. Under(cs, Len(cs) + 1) = u
    <2>1. Len(cs) + 1 = l /\ l \in 1..l
      BY <1>1
    <2>. QED
      BY <2>1, <1>3 DEF u
  <1>10. \A i \in DOMAIN cs : /\ Under(cs, i) + Puts(cs[i]) <= cs[i].depth
                              /\ ~left => cs[i].depth = Under(cs, i) + Puts(cs[i])
    <2>1. \A i \in 1..l - 1 : i \in 1..l
      BY <1>1
    <2>. QED
      BY <2>1, <1>1, <1>3 DEF Chain
  <1>11. Chain(cs, n - p, left)
    BY <1>8, <1>9, <1>10 DEF Chain
  <1>. QED
    BY <1>5, <1>8, <1>11 DEF cs, p, b

\* The object of a block that is turned away stays on the scope chain.
LEMMA ChainLeft ==
    ASSUME NEW bs \in Seq(BlockType), NEW n \in Nat, NEW left, Chain(bs, n, left),
           NEW m \in Nat, NEW now, left => now, m # 0 => now
    PROVE  Chain(bs, n + m, now)
  <1> DEFINE u == Under(bs, Len(bs) + 1)
  <1>1. u <= n /\ (~left => n = u)
    BY DEF Chain
  <1>2. u \in Nat
    <2>1. Len(bs) \in Nat /\ DOMAIN bs = 1..Len(bs)
      OBVIOUS
    <2> DEFINE l == Len(bs)
    <2> HIDE DEF l
    <2>2. CASE l = 0
      BY <2>2 DEF Under, l
    <2>3. CASE l # 0
      <3>1. l \in DOMAIN bs /\ l + 1 # 1 /\ l + 1 - 1 = l
        BY <2>1, <2>3 DEF l
      <3>2. bs[l] \in BlockType
        BY <3>1
      <3>. QED
        BY <3>1, <3>2 DEF Under, BlockType, l
    <2>. QED
      BY <2>2, <2>3
  <1> HIDE DEF u
  <1>3. u <= n + m /\ (~now => n + m = u)
    BY <1>1, <1>2
  <1>4. \A i \in DOMAIN bs : /\ Under(bs, i) + Puts(bs[i]) <= bs[i].depth
                             /\ ~now => bs[i].depth = Under(bs, i) + Puts(bs[i])
    BY DEF Chain
  <1>. QED
    BY <1>3, <1>4 DEF Chain, u

FrameOf(s, pc, bs, bd, q, rej) ==
    [script |-> s, pc |-> pc, blocks |-> bs, bounded |-> bd, scope |-> q, rejected |-> rej]

LEMMA FrameIs ==
    /\ \A f \in FrameType : f = FrameOf(f.script, f.pc, f.blocks, f.bounded, f.scope, f.rejected)
    /\ \A s, pc, bs, bd, q, rej :
         /\ FrameOf(s, pc, bs, bd, q, rej).script = s /\ FrameOf(s, pc, bs, bd, q, rej).pc = pc
         /\ FrameOf(s, pc, bs, bd, q, rej).blocks = bs /\ FrameOf(s, pc, bs, bd, q, rej).bounded = bd
         /\ FrameOf(s, pc, bs, bd, q, rej).scope = q /\ FrameOf(s, pc, bs, bd, q, rej).rejected = rej
  BY DEF FrameType, FrameOf

LEMMA FrameChanges ==
    \A s, pc, bs, bd, q, rej, x :
      /\ [FrameOf(s, pc, bs, bd, q, rej) EXCEPT !.pc = x] = FrameOf(s, x, bs, bd, q, rej)
      /\ [FrameOf(s, pc, bs, bd, q, rej) EXCEPT !.blocks = x] = FrameOf(s, pc, x, bd, q, rej)
      /\ [FrameOf(s, pc, bs, bd, q, rej) EXCEPT !.bounded = x] = FrameOf(s, pc, bs, x, q, rej)
      /\ [FrameOf(s, pc, bs, bd, q, rej) EXCEPT !.scope = x] = FrameOf(s, pc, bs, bd, x, rej)
      /\ [FrameOf(s, pc, bs, bd, q, rej) EXCEPT !.rejected = x] = FrameOf(s, pc, bs, bd, q, x)
  BY DEF FrameOf

LEMMA PoppedIs ==
    ASSUME NEW f \in FrameType
    PROVE  Popped(f) = FrameOf(f.script, f.pc, Front(f.blocks), f.bounded \/ Len(f.blocks) = 1,
                               f.scope, f.rejected)
  <1> DEFINE cs == Front(f.blocks)
             bd == f.bounded \/ Len(f.blocks) = 1
             g == [f EXCEPT !.blocks = cs]
  <1>1. f = FrameOf(f.script, f.pc, f.blocks, f.bounded, f.scope, f.rejected)
    BY FrameIs
  <1>2. Popped(f) = [g EXCEPT !.bounded = bd]
    BY DEF Popped
  <1>3. g = FrameOf(f.script, f.pc, cs, f.bounded, f.scope, f.rejected)
    <2> DEFINE s == f.script
               pc == f.pc
               bs == f.blocks
               old == f.bounded
               q == f.scope
               rej == f.rejected
    <2>1. f = FrameOf(s, pc, bs, old, q, rej)
      BY <1>1
    <2> HIDE DEF s, pc, bs, old, q, rej, cs
    <2>2. [FrameOf(s, pc, bs, old, q, rej) EXCEPT !.blocks = cs] = FrameOf(s, pc, cs, old, q, rej)
      BY FrameChanges
    <2>3. g = FrameOf(s, pc, cs, old, q, rej)
      BY <2>1, <2>2
    <2>. QED
      BY <2>3 DEF s, pc, old, q, rej
  <1> HIDE DEF g, cs, bd
  <1>4. [g EXCEPT !.bounded = bd] = FrameOf(f.script, f.pc, cs, bd, f.scope, f.rejected)
    <2> DEFINE s == f.script
               pc == f.pc
               old == f.bounded
               q == f.scope
               rej == f.rejected
    <2>1. g = FrameOf(s, pc, cs, old, q, rej)
      BY <1>3
    <2> HIDE DEF s, pc, old, q, rej
    <2>. QED
      BY <2>1, FrameChanges DEF s, pc, q, rej
  <1>. QED
    BY <1>2, <1>4 DEF cs, bd

LEMMA FrameTyped ==
    ASSUME NEW s \in Scripts \cup {"none"}, NEW pc \in Nat, NEW bs \in Seq(BlockType),
           NEW bd \in BOOLEAN, NEW q \in Nat, NEW rej \in SUBSET (Kinds \X Nat)
    PROVE  FrameOf(s, pc, bs, bd, q, rej) \in FrameType
  BY DEF FrameType, FrameOf

\* Whether the blocks bs of the script s let a block in.
Admits(s, bs, bd, start, end) ==
    IF bs = <<>> THEN bd => end <= Exit(s) ELSE Last(bs).start <= start /\ end <= Last(bs).end

LEMMA EnclosesIs ==
    \A f, start, end : Encloses(f, start, end) <=> Admits(f.script, f.blocks, f.bounded, start, end)
  BY DEF Encloses, Admits

\* The block b was pushed on the blocks bs, or turned away.
Pushed(f, b, s, bs, bd, rej) ==
    \/ f.blocks = Append(bs, b) /\ f.rejected = rej
    \/ /\ f.blocks = bs /\ f.rejected = rej \cup {<<b.kind, b.at>>}
       /\ ~Admits(s, bs, bd, b.start, b.end)

\* The code goes on at the address to.
PushedAt(f, b, to) == [PushBlock(f, b) EXCEPT !.pc = to]

\* A block of the code is entered or turned away, with its object on the scope
\* chain, and the code goes on.
LEMMA PushIs ==
    ASSUME NEW s \in Scripts, NEW bs \in Seq(BlockType), NEW rej \in SUBSET (Kinds \X Nat),
           BlocksOK(s, bs, rej), NEW n \in Nat, Chain(bs, n, LeftIn(rej)),
           NEW b \in BlockType, BlockOK(s, b), b.depth = n + Puts(b), Guarding(s, bs, rej, b.at),
           NEW q, q = n + Puts(b), NEW pc, NEW bd \in BOOLEAN, NEW to \in Nat
    PROVE  /\ FrameOK(PushedAt(FrameOf(s, pc, bs, bd, q, rej), b, to))
           /\ PushedAt(FrameOf(s, pc, bs, bd, q, rej), b, to).script = s
           /\ PushedAt(FrameOf(s, pc, bs, bd, q, rej), b, to).pc = to
           /\ Pushed(PushedAt(FrameOf(s, pc, bs, bd, q, rej), b, to), b, s, bs, bd, rej)
           /\ PushBlock(FrameOf(s, pc, bs, bd, q, rej), b).pc = pc
  <1> DEFINE f == FrameOf(s, pc, bs, bd, q, rej)
             g == PushedAt(f, b, to)
             cs == Append(bs, b)
             more == rej \cup {<<b.kind, b.at>>}
  <1>1. f.blocks = bs /\ f.script = s /\ f.bounded = bd /\ f.rejected = rej
    BY FrameIs
  <1>2. /\ [f EXCEPT !.blocks = Append(@, b)] = FrameOf(s, pc, cs, bd, q, rej)
        /\ [f EXCEPT !.rejected = @ \cup {<<b.kind, b.at>>}] = FrameOf(s, pc, bs, bd, q, more)
    <2>1. /\ [f EXCEPT !.blocks = cs] = FrameOf(s, pc, cs, bd, q, rej)
          /\ [f EXCEPT !.rejected = more] = FrameOf(s, pc, bs, bd, q, more)
      <3> HIDE DEF cs, more
      <3>. QED
        BY FrameChanges
    <2> HIDE DEF f
    <2>2. /\ [f EXCEPT !.blocks = Append(@, b)] = [f EXCEPT !.blocks = cs]
          /\ [f EXCEPT !.rejected = @ \cup {<<b.kind, b.at>>}] = [f EXCEPT !.rejected = more]
      BY <1>1
    <2>. QED
      BY <2>1, <2>2
  <1>3. Encloses(f, b.start, b.end) <=> Admits(s, bs, bd, b.start, b.end)
    BY <1>1, EnclosesIs
  <1> DEFINE h == PushBlock(f, b)
  <1>4. h = IF Encloses(f, b.start, b.end) THEN FrameOf(s, pc, cs, bd, q, rej)
            ELSE FrameOf(s, pc, bs, bd, q, more)
    BY <1>2 DEF PushBlock
  <1>5. Puts(b) \in Nat /\ (Puts(b) # 0 => b.kind \in {"catch", "with"}) /\ q \in Nat
    BY DEF Puts
  <1>6. g = [h EXCEPT !.pc = to]
    BY DEF PushedAt
  <1> HIDE DEF f, g, h
  <1>7. CASE Encloses(f, b.start, b.end)
    <2>1. h = FrameOf(s, pc, cs, bd, q, rej)
      BY <1>4, <1>7
    <2>2. cs \in Seq(BlockType)
      BY AppendIs
    <2>3. BlocksOK(s, cs, rej)
      <3>1. bs # <<>> => Holds(Last(bs), b)
        BY <1>3, <1>7 DEF Admits, Holds
      <3>. QED
        BY <3>1, PushKeeps
    <2>4. Chain(cs, q, LeftIn(rej))
      <3> DEFINE left == LeftIn(rej)
      <3> HIDE DEF left
      <3>1. Chain(bs, n, left)
        BY DEF left
      <3>2. Chain(Append(bs, b), n + Puts(b), left)
        BY <3>1, ChainPush
      <3>. QED
        BY <3>2 DEF left
    <2> HIDE DEF cs
    <2>5. g = FrameOf(s, to, cs, bd, q, rej) /\ h.pc = pc
      BY <2>1, <1>6, FrameChanges, FrameIs
    <2>6. FrameOf(s, to, cs, bd, q, rej) \in FrameType
      BY <2>2, <1>5, FrameTyped
    <2>7. /\ g.script = s /\ g.pc = to /\ g.blocks = cs /\ g.rejected = rej /\ g.scope = q
          /\ g \in FrameType
      <3>1. /\ FrameOf(s, to, cs, bd, q, rej).script = s /\ FrameOf(s, to, cs, bd, q, rej).pc = to
            /\ FrameOf(s, to, cs, bd, q, rej).blocks = cs /\ FrameOf(s, to, cs, bd, q, rej).rejected = rej
            /\ FrameOf(s, to, cs, bd, q, rej).scope = q
        BY FrameIs
      <3>. QED
        BY <2>5, <2>6, <3>1, Zenon
    <2>. QED
      BY <2>3, <2>4, <2>5, <2>7 DEF FrameOK, Pushed, cs, g, h, f
  <1>8. CASE ~Encloses(f, b.start, b.end)
    <2>1. h = FrameOf(s, pc, bs, bd, q, more)
      BY <1>4, <1>8
    <2>2. more \in SUBSET (Kinds \X Nat)
      BY DEF BlockType
    <2>3. BlocksOK(s, bs, more)
      BY RejectKeeps
    <2>4. Chain(bs, q, LeftIn(more))
      <3> DEFINE left == LeftIn(rej)
                 now == LeftIn(more)
                 p == Puts(b)
      <3>1. (left => now) /\ (p # 0 => now)
        <4>1. <<b.kind, b.at>> \in more /\ <<b.kind, b.at>>[1] = b.kind /\ rej \subseteq more
          OBVIOUS
        <4> HIDE DEF more
        <4>. QED
          BY <4>1, <1>5 DEF LeftIn
      <3> HIDE DEF left, now, p
      <3>2. Chain(bs, n, left) /\ p \in Nat
        BY <1>5 DEF left, p
      <3>3. Chain(bs, n + p, now)
        BY <3>1, <3>2, ChainLeft
      <3>. QED
        BY <3>3 DEF now, p
    <2> HIDE DEF more
    <2>5. g = FrameOf(s, to, bs, bd, q, more) /\ h.pc = pc
      BY <2>1, <1>6, FrameChanges, FrameIs
    <2>6. FrameOf(s, to, bs, bd, q, more) \in FrameType
      BY <2>2, <1>5, FrameTyped
    <2>7. /\ g.script = s /\ g.pc = to /\ g.blocks = bs /\ g.rejected = more /\ g.scope = q
          /\ g \in FrameType
      <3>1. /\ FrameOf(s, to, bs, bd, q, more).script = s /\ FrameOf(s, to, bs, bd, q, more).pc = to
            /\ FrameOf(s, to, bs, bd, q, more).blocks = bs /\ FrameOf(s, to, bs, bd, q, more).rejected = more
            /\ FrameOf(s, to, bs, bd, q, more).scope = q
        BY FrameIs
      <3>. QED
        BY <2>5, <2>6, <3>1, Zenon
    <2>8. Pushed(g, b, s, bs, bd, rej)
      BY <2>7, <1>3, <1>8 DEF Pushed, more
    <2>. QED
      BY <2>3, <2>4, <2>5, <2>7, <2>8 DEF FrameOK, g, h, f
  <1>. QED
    BY <1>7, <1>8

CatchOf(b, n) == Block("catch", b.at, b.try.catch, CatchEnd(b.try), b.try, n, 0)
FinallyOf(b, n, x) == Block("finally", b.at, b.try.finally, b.try.end, b.try, n, x)

\* The clauses of a Try are blocks of it.
LEMMA ClausesAre ==
    ASSUME NEW s \in Scripts, NEW b \in BlockType, BlockOK(s, b), b.try.op = "try", NEW n \in Nat, NEW x \in Nat
    PROVE  /\ b.try.catch # 0 => CatchOf(b, n) \in BlockType /\ BlockOK(s, CatchOf(b, n)) /\ b.try.catch \in Nat
           /\ b.try.finally # 0 =>
                FinallyOf(b, n, x) \in BlockType /\ BlockOK(s, FinallyOf(b, n, x)) /\ b.try.finally \in Nat
           /\ CatchOf(b, n).kind = "catch" /\ CatchOf(b, n).at = b.at /\ CatchOf(b, n).depth = n
           /\ CatchOf(b, n).start = b.try.catch /\ CatchOf(b, n).end = CatchEnd(b.try) /\ CatchOf(b, n).held = 0
           /\ FinallyOf(b, n, x).kind = "finally" /\ FinallyOf(b, n, x).at = b.at /\ FinallyOf(b, n, x).depth = n
           /\ FinallyOf(b, n, x).start = b.try.finally /\ FinallyOf(b, n, x).held = x
           /\ FinallyOf(b, n, x).end = b.try.end
  <1> DEFINE c == CatchOf(b, n)
             d == FinallyOf(b, n, x)
  <1>1. /\ c.kind = "catch" /\ c.at = b.at /\ c.try = b.try /\ c.depth = n
        /\ c.start = b.try.catch /\ c.end = CatchEnd(b.try) /\ c.held = 0
    BY DEF CatchOf, Block
  <1>2. /\ d.kind = "finally" /\ d.at = b.at /\ d.try = b.try /\ d.depth = n
        /\ d.start = b.try.finally /\ d.end = b.try.end /\ d.held = x
    BY DEF FinallyOf, Block
  <1>3. b.at \in DOMAIN Code[s] /\ b.try \in Code[s][b.at] /\ b.at \in Nat /\ b.try \in Actions
    BY BlockOKIs DEF BlockType
  <1>4. ASSUME b.try.catch # 0 PROVE c \in BlockType /\ BlockOK(s, c) /\ b.try.catch \in Nat
    <2>1. HasBlock("catch", b.try)
      BY <1>4 DEF HasBlock
    <2>2. From("catch", b.at, b.try) = b.try.catch /\ To("catch", b.try) = CatchEnd(b.try)
      BY DEF From, To
    <2>3. b.try.catch \in Nat /\ CatchEnd(b.try) \in Nat
      BY <2>1, <2>2, <1>3, BlockIs DEF Kinds
    <2>4. c \in BlockType
      BY <1>3, <2>3 DEF CatchOf, Block, BlockType, Kinds
    <2>. QED
      BY <1>1, <1>3, <2>1, <2>2, <2>3, <2>4 DEF BlockOK
  <1>5. ASSUME b.try.finally # 0 PROVE d \in BlockType /\ BlockOK(s, d) /\ b.try.finally \in Nat
    <2>1. HasBlock("finally", b.try)
      BY <1>5 DEF HasBlock
    <2>2. From("finally", b.at, b.try) = b.try.finally /\ To("finally", b.try) = b.try.end
      BY DEF From, To
    <2>3. b.try.finally \in Nat /\ b.try.end \in Nat
      BY <2>1, <2>2, <1>3, BlockIs DEF Kinds
    <2>4. d \in BlockType
      BY <1>3, <2>3 DEF FinallyOf, Block, BlockType, Kinds
    <2>. QED
      BY <1>2, <1>3, <2>1, <2>2, <2>3, <2>4 DEF BlockOK
  <1>. QED
    BY <1>1, <1>2, <1>4, <1>5

\* What becomes of the frame f and the exception x when a block of f ends: the
\* block is gone, or the exception is in the catch clause of it, or it is kept
\* by the finally clause, if the blocks of the clauses are not turned away.
Around(f, g, b) == Pushed(g, b, f.script, Front(f.blocks), f.bounded \/ Len(f.blocks) = 1, f.rejected)

BoundedIs(f, bd) == bd = (f.bounded \/ Len(f.blocks) = 1)

Gone(f, a, x, alive) ==
    /\ a.frame.blocks = Front(f.blocks) /\ a.frame.rejected = f.rejected /\ a.frame.pc = f.pc
    /\ a.exception = IF Last(f.blocks).kind = "finally" /\ x = 0 /\ alive THEN Last(f.blocks).held ELSE x

Catches(f, a, x) ==
    /\ x # 0 /\ a.exception = 0 /\ Last(f.blocks).kind = "try" /\ Last(f.blocks).try.catch # 0
    /\ \E n \in Nat : Around(f, a.frame, CatchOf(Last(f.blocks), n))
    /\ a.frame.pc = Last(f.blocks).try.catch

Retains(f, a, x) ==
    /\ x # 0 /\ a.exception = 0 /\ Last(f.blocks).kind \in {"try", "catch"}
    /\ Last(f.blocks).try.finally # 0
    /\ \E n \in Nat : Around(f, a.frame, FinallyOf(Last(f.blocks), n, x))
    /\ a.frame.pc = Last(f.blocks).try.finally

Ends(f, a, x, alive) ==
    /\ FrameOK(a.frame) /\ a.frame.script = f.script /\ a.exception \in Nat
    /\ Gone(f, a, x, alive) \/ Catches(f, a, x) \/ Retains(f, a, x)

\* The frame without its innermost block, and without the object of that.
LEMMA DropIs ==
    ASSUME NEW f, FrameOK(f), f.blocks # <<>>,
           NEW y \in Nat, NEW x \in Nat, NEW alive \in BOOLEAN,
           y = IF Last(f.blocks).kind = "finally" /\ x = 0 /\ alive THEN Last(f.blocks).held ELSE x,
           NEW bd \in BOOLEAN, NEW r, r = f.scope - Puts(Last(f.blocks))
    PROVE  Ends(f, After(FrameOf(f.script, f.pc, Front(f.blocks), bd, r, f.rejected), y), x, alive)
  <1> DEFINE s == f.script
             pc == f.pc
             bs == f.blocks
             rej == f.rejected
             cs == Front(bs)
             a == After(FrameOf(s, pc, cs, bd, r, rej), y)
  <1>1. /\ f \in FrameType /\ BlocksOK(s, bs, rej) /\ Chain(bs, f.scope, LeftIn(rej))
    BY DEF FrameOK
  <1>2. pc \in Nat /\ bs \in Seq(BlockType) /\ f.scope \in Nat /\ rej \in SUBSET (Kinds \X Nat)
    BY <1>1 DEF FrameType
  <1>3. s \in Scripts /\ cs \in Seq(BlockType) /\ BlocksOK(s, cs, rej)
    BY <1>1, <1>2, PopKeeps
  <1>4. Chain(cs, r, LeftIn(rej)) /\ r \in Nat
    <2> DEFINE left == LeftIn(rej)
               n == f.scope
    <2> HIDE DEF left, n
    <2>1. Chain(bs, n, left) /\ n \in Nat
      BY <1>1, <1>2 DEF left, n
    <2>2. Chain(Front(bs), n - Puts(Last(bs)), left) /\ n - Puts(Last(bs)) \in Nat
      BY <2>1, <1>2, ChainPop
    <2>. QED
      BY <2>2 DEF left, n
  <1>5. a.frame = FrameOf(s, pc, cs, bd, r, rej) /\ a.exception = y
    BY DEF After
  <1> HIDE DEF a, cs, s, pc, rej
  <1>6. FrameOf(s, pc, cs, bd, r, rej) \in FrameType
    BY <1>2, <1>3, <1>4, FrameTyped
  <1>7. /\ a.frame.blocks = cs /\ a.frame.script = s /\ a.frame.pc = pc /\ a.frame.scope = r
        /\ a.frame.rejected = rej /\ a.frame \in FrameType
    BY <1>5, <1>6, FrameIs
  <1>8. FrameOK(a.frame)
    BY <1>7, <1>3, <1>4 DEF FrameOK
  <1>9. Gone(f, a, x, alive)
    BY <1>5, <1>7 DEF Gone, cs, pc, rej
  <1>. QED
    BY <1>5, <1>7, <1>8, <1>9 DEF Ends, a, s, cs, pc, rej

\* A catch clause, or a Try that has none, ends.
LEMMA EndCatchIs ==
    ASSUME NEW f, FrameOK(f), f.blocks # <<>>, Last(f.blocks).kind \in {"try", "catch"},
           NEW x \in Nat, NEW alive \in BOOLEAN, NEW bd, BoundedIs(f, bd)
    PROVE  Ends(f, EndCatch(FrameOf(f.script, f.pc, Front(f.blocks), bd, f.scope, f.rejected),
                            Last(f.blocks), x), x, alive)
  <1> DEFINE s == f.script
             pc == f.pc
             bs == f.blocks
             q == f.scope
             rej == f.rejected
             b == Last(bs)
             cs == Front(bs)
             r == IF b.kind = "catch" THEN q - 1 ELSE q
             g == FrameOf(s, pc, cs, bd, q, rej)
             h == FrameOf(s, pc, cs, bd, r, rej)
             a == EndCatch(g, b, x)
             d == FinallyOf(b, r, x)
  <1>1. /\ f \in FrameType /\ BlocksOK(s, bs, rej) /\ Chain(bs, q, LeftIn(rej))
    BY DEF FrameOK
  <1>2. /\ pc \in Nat /\ bs \in Seq(BlockType) /\ q \in Nat /\ rej \in SUBSET (Kinds \X Nat)
        /\ f.bounded \in BOOLEAN
    BY <1>1 DEF FrameType
  <1>3. bd \in BOOLEAN
    BY <1>2 DEF BoundedIs
  <1>4. /\ s \in Scripts /\ b \in BlockType /\ BlockOK(s, b) /\ cs \in Seq(BlockType) /\ BlocksOK(s, cs, rej)
        /\ Guarding(s, cs, rej, b.at)
    BY <1>1, <1>2, PopKeeps
  <1>5. r = q - Puts(b)
    BY <1>2 DEF Puts
  <1>6. Chain(cs, r, LeftIn(rej)) /\ r \in Nat
    <2> DEFINE left == LeftIn(rej)
               n == q
    <2> HIDE DEF left, n
    <2>1. Chain(bs, n, left) /\ n \in Nat
      BY <1>1, <1>2 DEF left, n
    <2>2. Chain(Front(bs), n - Puts(Last(bs)), left) /\ n - Puts(Last(bs)) \in Nat
      BY <2>1, <1>2, ChainPop
    <2>. QED
      BY <2>2, <1>5 DEF left, n
  <1>7. b.try.op = "try"
    BY <1>4, BlockOKIs
  <1>8. [g EXCEPT !.scope = IF b.kind = "catch" THEN @ - 1 ELSE @] = h
    <2> HIDE DEF b, cs, s, pc, rej, q
    <2>. QED
      BY DEF FrameOf
  <1> HIDE DEF b, cs, r, s, pc, rej, q, g
  <1>9. CASE ~(b.try.finally # 0 /\ x # 0)
    <2>1. a = After(h, x)
      BY <1>8, <1>9 DEF EndCatch
    <2>2. b.kind # "finally"
      BY DEF b
    <2>3. Ends(f, After(FrameOf(f.script, f.pc, Front(f.blocks), bd, r, f.rejected), x), x, alive)
      <3> DEFINE y == x
      <3>1. y = IF Last(f.blocks).kind = "finally" /\ x = 0 /\ alive THEN Last(f.blocks).held ELSE x
        BY <2>2 DEF b
      <3>2. r = f.scope - Puts(Last(f.blocks))
        BY <1>5 DEF b, q
      <3>3. y \in Nat
        OBVIOUS
      <3> HIDE DEF y
      <3>4. Ends(f, After(FrameOf(f.script, f.pc, Front(f.blocks), bd, r, f.rejected), y), x, alive)
        BY <3>1, <3>2, <3>3, <1>3, DropIs
      <3>. QED
        BY <3>4 DEF y
    <2>. QED
      BY <2>1, <2>3 DEF a, g, h, s, pc, cs, rej, b, q
  <1>10. CASE b.try.finally # 0 /\ x # 0
    <2> DEFINE to == b.try.finally
               j == PushedAt(h, d, to)
    <2>1. /\ d \in BlockType /\ BlockOK(s, d) /\ d.kind = "finally" /\ d.at = b.at /\ to \in Nat
          /\ d.depth = r
      BY <1>4, <1>6, <1>7, <1>10, ClausesAre
    <2>2. Puts(d) = 0
      BY <2>1 DEF Puts
    <2>3. a = After(j, 0)
      <3>1. h.scope = r
        BY FrameIs
      <3> DEFINE k == [g EXCEPT !.scope = IF b.kind = "catch" THEN @ - 1 ELSE @]
      <3>2. a = After([PushBlock(k, Block("finally", b.at, b.try.finally, b.try.end, b.try, k.scope, x))
                         EXCEPT !.pc = b.try.finally], 0)
        BY <1>10 DEF EndCatch
      <3>3. k = h
        BY <1>8
      <3> HIDE DEF k, h
      <3>. QED
        BY <3>1, <3>2, <3>3 DEF FinallyOf, PushedAt
    <2>4. /\ FrameOK(j) /\ j.script = s /\ j.pc = to /\ Pushed(j, d, s, cs, bd, rej)
      <3>1. /\ d.depth = r + Puts(d) /\ r = r + Puts(d) /\ Guarding(s, cs, rej, d.at)
        BY <2>1, <2>2, <1>4, <1>6
      <3> HIDE DEF d, to
      <3>2. bd \in BOOLEAN /\ rej \in SUBSET (Kinds \X Nat) /\ r \in Nat
        BY <1>2, <1>3, <1>6
      <3>3. /\ FrameOK(PushedAt(FrameOf(s, pc, cs, bd, r, rej), d, to))
            /\ PushedAt(FrameOf(s, pc, cs, bd, r, rej), d, to).script = s
            /\ PushedAt(FrameOf(s, pc, cs, bd, r, rej), d, to).pc = to
            /\ Pushed(PushedAt(FrameOf(s, pc, cs, bd, r, rej), d, to), d, s, cs, bd, rej)
        BY <3>1, <3>2, <2>1, <1>4, <1>6, PushIs
      <3>. QED
        BY <3>3
    <2> HIDE DEF j
    <2>5. a.frame = j /\ a.exception = 0
      BY <2>3 DEF After
    <2> HIDE DEF a
    <2>6. Around(f, a.frame, d)
      <3>1. Pushed(j, d, f.script, Front(f.blocks), bd, f.rejected)
        BY <2>4 DEF s, cs, bs, rej
      <3>. QED
        BY <3>1, <2>5, Zenon DEF Around, BoundedIs
    <2>7. Retains(f, a, x)
      <3>1. \E n \in Nat : Around(f, a.frame, FinallyOf(Last(f.blocks), n, x))
        BY <2>6, <1>6 DEF b
      <3>2. b = Last(f.blocks)
        BY DEF b
      <3>. QED
        BY <3>1, <3>2, <2>4, <2>5, <1>10 DEF Retains
    <2>8. Ends(f, a, x, alive)
      BY <2>4, <2>5, <2>7 DEF Ends, s
    <2>. QED
      BY <2>8 DEF a, g, s, pc, cs, rej, b, q
  <1>. QED
    BY <1>9, <1>10

\* swfdec_as_frame_pop_block does one of the three.
LEMMA PopIs ==
    ASSUME NEW f, FrameOK(f), f.blocks # <<>>, NEW x \in Nat, NEW alive \in BOOLEAN
    PROVE  Ends(f, PopBlock(f, x, alive), x, alive) /\ f.script \in Scripts
  <1> DEFINE s == f.script
             pc == f.pc
             bs == f.blocks
             q == f.scope
             rej == f.rejected
             bd == (f.bounded \/ Len(f.blocks) = 1)
             b == Last(bs)
             cs == Front(bs)
             g == FrameOf(s, pc, cs, bd, q, rej)
             a == PopBlock(f, x, alive)
  <1>1. /\ f \in FrameType /\ BlocksOK(s, bs, rej) /\ Chain(bs, q, LeftIn(rej))
    BY DEF FrameOK
  <1>2. /\ pc \in Nat /\ bs \in Seq(BlockType) /\ q \in Nat /\ rej \in SUBSET (Kinds \X Nat)
        /\ f.bounded \in BOOLEAN /\ bd \in BOOLEAN
    BY <1>1 DEF FrameType
  <1>3. f = FrameOf(s, pc, bs, f.bounded, q, rej)
    BY <1>1, FrameIs
  <1>4. /\ s \in Scripts /\ b \in BlockType /\ BlockOK(s, b) /\ cs \in Seq(BlockType) /\ BlocksOK(s, cs, rej)
        /\ Guarding(s, cs, rej, b.at)
    BY <1>1, <1>2, PopKeeps
  <1>5. Popped(f) = g
    BY <1>1, PoppedIs
  <1>6. b.kind \in Kinds /\ b.held \in Nat
    BY <1>4, BlockOKIs
  <1>7. a = CASE b.kind = "try" -> EndTry(g, b, x)
              [] b.kind = "catch" -> EndCatch(g, b, x)
              [] b.kind = "finally" -> EndFinally(g, b, x, alive)
              [] b.kind = "with" -> PopWith(g, x)
    BY <1>5 DEF PopBlock
  <1>8. ASSUME b.kind \in {"try", "catch"} PROVE Ends(f, EndCatch(g, b, x), x, alive)
    <2> DEFINE c == bd
    <2>1. BoundedIs(f, c)
      BY DEF BoundedIs
    <2> HIDE DEF c
    <2>2. Ends(f, EndCatch(FrameOf(f.script, f.pc, Front(f.blocks), c, f.scope, f.rejected),
                           Last(f.blocks), x), x, alive)
      BY <2>1, <1>8, EndCatchIs
    <2>. QED
      BY <2>2 DEF c
  <1>9. ASSUME NEW r, r = q - Puts(b), NEW y \in Nat,
               y = IF b.kind = "finally" /\ x = 0 /\ alive THEN b.held ELSE x
        PROVE  Ends(f, After(FrameOf(s, pc, cs, bd, r, rej), y), x, alive)
    <2> DEFINE c == bd
    <2>1. c \in BOOLEAN
      BY <1>2
    <2> HIDE DEF c
    <2>2. Ends(f, After(FrameOf(f.script, f.pc, Front(f.blocks), c, r, f.rejected), y), x, alive)
      BY <2>1, <1>9, DropIs
    <2>. QED
      BY <2>2 DEF c
  <1>10. ASSUME b.kind \in {"try", "finally"} PROVE q = q - Puts(b)
    BY <1>2, <1>10 DEF Puts
  <1> HIDE DEF s, pc, q, bs, rej, bd, a
  <1>11. CASE b.kind = "with"
    <2> DEFINE r == q - 1
    <2>1. [g EXCEPT !.scope = @ - 1] = FrameOf(s, pc, cs, bd, r, rej)
      <3> HIDE DEF cs
      <3>. QED
        BY DEF FrameOf
    <2>2. a = After(FrameOf(s, pc, cs, bd, r, rej), x)
      <3> HIDE DEF g
      <3>. QED
        BY <2>1, <1>7, <1>11 DEF PopWith
    <2>3. r = q - Puts(b)
      BY <1>2, <1>11 DEF Puts
    <2> HIDE DEF r, cs, b
    <2>4. x = IF b.kind = "finally" /\ x = 0 /\ alive THEN b.held ELSE x
      BY <1>11
    <2>. QED
      BY <2>2, <2>3, <2>4, <1>4, <1>9 DEF a, s
  <1>12. CASE b.kind = "finally"
    <2> DEFINE y == IF x = 0 /\ alive THEN b.held ELSE x
    <2>1. a = After(g, y)
      BY <1>7, <1>12 DEF EndFinally
    <2>2. y \in Nat /\ y = IF b.kind = "finally" /\ x = 0 /\ alive THEN b.held ELSE x
      BY <1>6, <1>12
    <2> HIDE DEF y, cs, b
    <2>3. q = q - Puts(b)
      BY <1>10, <1>12
    <2>. QED
      BY <2>1, <2>2, <2>3, <1>4, <1>9 DEF a, s
  <1>13. CASE b.kind = "catch"
    BY <1>4, <1>7, <1>8, <1>13 DEF a, s
  <1>14. CASE b.kind = "try"
    <2>1. a = EndTry(g, b, x)
      BY <1>7, <1>14
    <2>2. CASE b.try.catch = 0
      BY <2>1, <2>2, <1>4, <1>8, <1>14 DEF EndTry, a, s
    <2>3. CASE b.try.catch # 0 /\ x = 0
      <3>1. a = After(g, 0)
        BY <2>1, <2>3 DEF EndTry
      <3> DEFINE y == 0
      <3>2. y \in Nat /\ y = IF b.kind = "finally" /\ x = 0 /\ alive THEN b.held ELSE x
        BY <2>3, <1>14
      <3>3. q = q - Puts(b)
        BY <1>10, <1>14
      <3> HIDE DEF y, cs, b
      <3>4. Ends(f, After(g, y), x, alive)
        BY <3>2, <3>3, <1>9
      <3>. QED
        BY <3>1, <3>4, <1>4 DEF a, s, y
    <2>4. CASE b.try.catch # 0 /\ x # 0
      <3> DEFINE r == q + 1
                 d == CatchOf(b, r)
                 to == b.try.catch
                 h == FrameOf(s, pc, cs, bd, r, rej)
                 j == PushedAt(h, d, to)
      <3>1. b.try.op = "try"
        BY <1>4, <1>14, BlockOKIs
      <3>2. r \in Nat
        BY <1>2
      <3>3. /\ d \in BlockType /\ BlockOK(s, d) /\ d.kind = "catch" /\ d.at = b.at /\ to \in Nat /\ d.depth = r
        <4> HIDE DEF r, b
        <4>. QED
          BY <3>1, <3>2, <2>4, <1>4, <1>2, ClausesAre
      <3>4. d.depth = q + Puts(d) /\ r = q + Puts(d)
        BY <3>3, <1>2 DEF Puts
      <3>5. Chain(cs, q, LeftIn(rej))
        <4> DEFINE left == LeftIn(rej)
        <4> HIDE DEF left, b
        <4>1. Chain(bs, q, left)
          BY <1>1 DEF left
        <4>2. Chain(Front(bs), q - Puts(Last(bs)), left)
          BY <4>1, <1>2, ChainPop DEF bs
        <4>. QED
          BY <4>2, <1>10, <1>14 DEF left, b
      <3>6. a = After(j, 0)
        <4>1. g.scope = q /\ [g EXCEPT !.scope = r] = h
          <5> HIDE DEF cs, r
          <5>. QED
            BY FrameIs, FrameChanges
        <4> HIDE DEF g, h, cs, b
        <4>2. [g EXCEPT !.scope = @ + 1] = h
          BY <4>1
        <4>3. a = After([PushBlock([g EXCEPT !.scope = @ + 1],
                                   Block("catch", b.at, b.try.catch, CatchEnd(b.try), b.try, g.scope + 1, 0))
                           EXCEPT !.pc = b.try.catch], 0)
          BY <2>1, <2>4 DEF EndTry
        <4>. QED
          BY <4>1, <4>2, <4>3 DEF CatchOf, PushedAt
      <3> HIDE DEF r, d, to, b, cs
      <3>7. /\ FrameOK(j) /\ j.script = s /\ j.pc = to /\ Pushed(j, d, s, cs, bd, rej)
        <4>1. Guarding(s, cs, rej, d.at)
          BY <3>3, <1>4
        <4>2. bd \in BOOLEAN /\ rej \in SUBSET (Kinds \X Nat) /\ q \in Nat
          BY <1>2 DEF bd, rej, q
        <4>. QED
          BY <4>1, <4>2, <3>3, <3>4, <3>5, <1>4, PushIs
      <3> HIDE DEF j
      <3>8. a.frame = j /\ a.exception = 0
        BY <3>6 DEF After
      <3>9. Around(f, a.frame, d)
        <4>1. Pushed(j, d, f.script, Front(f.blocks), f.bounded \/ Len(f.blocks) = 1, f.rejected)
          BY <3>7 DEF s, cs, bs, rej, bd
        <4>. QED
          BY <4>1, <3>8, Zenon DEF Around
      <3>10. Catches(f, a, x)
        <4>1. \E n \in Nat : Around(f, a.frame, CatchOf(Last(f.blocks), n))
          BY <3>9, <3>2 DEF b, d, bs
        <4>2. b = Last(f.blocks)
          BY DEF b, bs
        <4>. QED
          BY <4>1, <4>2, <3>7, <3>8, <2>4, <1>14 DEF Catches, to
      <3>. QED
        BY <3>7, <3>8, <3>10, <1>4 DEF Ends, a, s
    <2>. QED
      BY <2>2, <2>3, <2>4
  <1>. QED
    BY <1>6, <1>11, <1>12, <1>13, <1>14 DEF Kinds

-----------------------------------------------------------------------------
(* The inductive invariant, of a state st, an exception x, frames fs and   *)
(* activations cs of swfdec_as_context_run                                 *)

FrameHolds(f) == FrameOK(f) /\ f.script \in Scripts

\* All the blocks that guard the address pc are on the stack of the frame f, or
\* were turned away.
Covered(f, pc) == Guarding(f.script, f.blocks, f.rejected, pc)

TypedStack(st, x, fs, cs) ==
    /\ st \in {"running", "aborted", "crashed"} /\ x \in Nat
    /\ fs \in Seq(FrameType) /\ cs \in Seq(CallTypes)
    /\ \A i \in DOMAIN fs : FrameHolds(fs[i])
    /\ \A k \in DOMAIN cs : FrameOK(cs[k].dying)

\* An activation waits for the one above it.
Awaits(cs) == \A k \in DOMAIN cs : k < Len(cs) => cs[k].at = "call"

\* The frames are those of the activations, in their order; two have the same
\* only while the one for a call that failed is on its way out.
Owned(st, fs, cs) ==
    /\ \A k \in DOMAIN cs : cs[k].frame <= Len(fs)
    /\ \A i \in DOMAIN fs : \E k \in DOMAIN cs : cs[k].frame = i
    /\ \A i, j \in DOMAIN cs : i < j /\ cs[j].frame # 0 =>
         /\ cs[i].frame <= cs[j].frame
         /\ st = "running" \/ cs[j].at # "start" => cs[i].frame < cs[j].frame

\* An activation that runs code has the frame on top, and is not too deep.
Stage(fs, cs) ==
    \A k \in DOMAIN cs :
        /\ cs[k].at \in {"start", "loop"} => cs[k].frame = Len(fs) /\ cs[k].frame # 0
        /\ cs[k].at = "free" => cs[k].frame = 0
        /\ cs[k].at \in {"loop", "call"} => cs[k].frame <= MaxDepth

\* Behind a call the code is in the blocks that the frame has.
ReturnsTo(st, f) == st = "running" => Covered(f, f.pc + 1)

Returning(st, fs, cs) ==
    \A k \in DOMAIN cs : cs[k].at = "call" /\ cs[k].frame # 0 => ReturnsTo(st, fs[cs[k].frame])

\* The activation on top of the stack runs the code of the frame f on top.
Loops(st, x, f) == st = "running" /\ x = 0 => Covered(f, f.pc)

TopOK(st, x, f, c) ==
    /\ c.at = "start" /\ st = "running" => f.blocks = <<>> /\ f.pc = 1
    /\ c.at = "loop" => Loops(st, x, f)
    /\ c.at = "free" => x = 0 \/ st # "running" \/ c.dying.blocks = <<>>

StackOK(st, x, fs, cs) ==
    /\ TypedStack(st, x, fs, cs) /\ Awaits(cs) /\ Owned(st, fs, cs) /\ Stage(fs, cs)
    /\ Returning(st, fs, cs)

ContextOK(st, x, fs, cs) ==
    StackOK(st, x, fs, cs) /\ (cs # <<>> => TopOK(st, x, Last(fs), Last(cs)))

\* An assertion fails only where the object of a block was left over.
CrashOK ==
    state = "crashed" => \E f \in Range(frames) \cup {c.dying : c \in Range(calls)} : LeftIn(f.rejected)

ScriptInv == ContextOK(state, exception, frames, calls) /\ late \in BOOLEAN /\ CrashOK

-----------------------------------------------------------------------------
(* The stack of activations *)

LEMMA CallIs ==
    ASSUME NEW c \in CallTypes
    PROVE  /\ c.frame \in Nat /\ c.at \in {"start", "loop", "call", "free"}
           /\ c.check \in BOOLEAN /\ c.dying \in FrameType
  BY DEF CallTypes

\* The frame of the activation on top is the one on top, if it is still there.
LEMMA TopFrame ==
    ASSUME NEW st, NEW x, NEW fs, NEW cs, StackOK(st, x, fs, cs), cs # <<>>, Last(cs).frame # 0
    PROVE  /\ Last(cs).frame = Len(fs) /\ fs # <<>> /\ Last(fs) = fs[Len(fs)]
           /\ Len(fs) \in DOMAIN fs /\ Len(fs) \in Nat \ {0} /\ FrameHolds(Last(fs))
           /\ \A k \in DOMAIN cs : k < Len(cs) => cs[k].frame <= Len(fs)
  <1> DEFINE t == Last(cs)
             n == Len(cs)
  <1>1. fs \in Seq(FrameType) /\ cs \in Seq(CallTypes) /\ \A i \in DOMAIN fs : FrameHolds(fs[i])
    BY DEF StackOK, TypedStack
  <1>2. t = cs[n] /\ n \in DOMAIN cs /\ DOMAIN cs = 1..n /\ n \in Nat /\ t \in CallTypes
    BY <1>1, FrontIs
  <1> HIDE DEF t, n
  <1>3. t.frame \in Nat /\ t.frame # 0
    BY <1>2, CallIs DEF t
  <1>4. DOMAIN fs = 1..Len(fs) /\ Len(fs) \in Nat
    BY <1>1
  <1>5. t.frame <= Len(fs)
    BY <1>2, <1>4 DEF StackOK, Owned
  <1>6. Len(fs) \in DOMAIN fs
    BY <1>3, <1>4, <1>5
  <1>7. PICK k \in DOMAIN cs : cs[k].frame = Len(fs)
    BY <1>6 DEF StackOK, Owned
  <1>8. Len(fs) <= t.frame
    <2>1. CASE k = n
      BY <2>1, <1>2, <1>3, <1>4, <1>7
    <2>2. CASE k # n
      <3>1. k < n
        BY <2>2, <1>2
      <3>2. cs[k].frame <= cs[n].frame
        BY <3>1, <1>2, <1>3 DEF StackOK, Owned
      <3>. QED
        BY <3>2, <1>2, <1>7
    <2>. QED
      BY <2>1, <2>2
  <1>9. t.frame = Len(fs)
    BY <1>3, <1>4, <1>5, <1>8
  <1>10. fs # <<>> /\ Last(fs) = fs[Len(fs)]
    <2>1. fs # <<>>
      BY <1>4, <1>6, EmptySeq
    <2>. QED
      BY <2>1, <1>1, FrontIs
  <1>11. FrameHolds(Last(fs))
    BY <1>1, <1>6, <1>10
  <1>12. \A j \in DOMAIN cs : j < Len(cs) => cs[j].frame <= Len(fs)
    BY DEF StackOK, Owned
  <1>. QED
    BY <1>3, <1>4, <1>6, <1>9, <1>10, <1>11, <1>12 DEF t

\* The activation on top, which has not just started, goes on in its frame.
LEMMA GoesOn ==
    ASSUME NEW st, NEW x, NEW fs, NEW cs, StackOK(st, x, fs, cs), cs # <<>>,
           Last(cs).at \in {"loop", "call"}, Last(cs).frame # 0,
           NEW st2 \in {"running", "aborted"}, st2 = "running" => st = "running", NEW x2 \in Nat,
           NEW f \in FrameType, FrameHolds(f), NEW c \in CallTypes, FrameOK(c.dying),
           c.frame = Last(cs).frame, c.at = "loop"
    PROVE  StackOK(st2, x2, Append(Front(fs), f), Append(Front(cs), c))
  <1> DEFINE gs == Append(Front(fs), f)
             ds == Append(Front(cs), c)
             n == Len(cs)
             m == Len(fs)
  <1>1. /\ fs \in Seq(FrameType) /\ cs \in Seq(CallTypes) /\ \A i \in DOMAIN fs : FrameHolds(fs[i])
        /\ \A k \in DOMAIN cs : FrameOK(cs[k].dying)
    BY DEF StackOK, TypedStack
  <1>2. Last(cs).frame = m /\ m \in Nat \ {0} /\ fs # <<>>
    BY TopFrame
  <1>3. /\ ds \in Seq(CallTypes) /\ Len(ds) = n /\ n \in Nat \ {0} /\ DOMAIN ds = 1..n /\ DOMAIN cs = 1..n
        /\ \A k \in 1..n : ds[k] = IF k = n THEN c ELSE cs[k]
    BY <1>1, ReplaceIs
  <1>4. /\ gs \in Seq(FrameType) /\ Len(gs) = m /\ DOMAIN gs = 1..m /\ DOMAIN fs = 1..m
        /\ \A i \in 1..m : gs[i] = IF i = m THEN f ELSE fs[i]
    BY <1>1, <1>2, ReplaceIs
  <1>5. cs[n] = Last(cs) /\ n \in 1..n
    BY <1>1, <1>3, FrontIs
  <1> HIDE DEF gs, ds, n, m
  <1>6. \A k \in 1..n : k # n => k < n
    BY <1>3
  <1>7. \A k \in 1..n : cs[k].frame \in Nat
    BY <1>1, <1>3, CallIs
  <1>8. \A k \in 1..n : ds[k].frame = cs[k].frame
    BY <1>2, <1>3, <1>5
  <1>9. TypedStack(st2, x2, gs, ds)
    BY <1>1, <1>3, <1>4, Zenon DEF TypedStack
  <1>10. Awaits(ds)
    <2>1. SUFFICES ASSUME NEW k \in 1..n, k < n PROVE ds[k].at = "call"
      BY <1>3 DEF Awaits
    <2>2. k # n /\ ds[k] = cs[k]
      BY <2>1, <1>3
    <2>. QED
      BY <2>1, <2>2, <1>3, Zenon DEF Awaits, StackOK, n
  <1>11. Owned(st2, gs, ds)
    <2>1. \A k \in DOMAIN ds : ds[k].frame <= Len(gs)
      BY <1>3, <1>4, <1>8 DEF StackOK, Owned, m
    <2>2. \A i \in DOMAIN gs : \E k \in DOMAIN ds : ds[k].frame = i
      BY <1>3, <1>4, <1>8 DEF StackOK, Owned
    <2>3. ASSUME NEW i \in DOMAIN ds, NEW j \in DOMAIN ds, i < j, ds[j].frame # 0
          PROVE  ds[i].frame <= ds[j].frame /\ ds[i].frame < ds[j].frame
      <3>1. ds[i].frame = cs[i].frame /\ ds[j].frame = cs[j].frame /\ i \in DOMAIN cs /\ j \in DOMAIN cs
        BY <2>3, <1>3, <1>8
      <3>2. cs[j].at # "start"
        <4>1. CASE j = n
          BY <4>1, <1>5
        <4>2. CASE j # n
          <5>1. j < n
            BY <4>2, <1>3, <1>6
          <5>2. cs[j].at = "call"
            BY <5>1, <3>1 DEF StackOK, Awaits, n
          <5>. QED
            BY <5>2
        <4>. QED
          BY <4>1, <4>2
      <3>3. cs[j].frame # 0
        BY <2>3, <3>1
      <3>4. cs[i].frame < cs[j].frame
        BY <2>3, <3>1, <3>2, <3>3 DEF StackOK, Owned
      <3>5. cs[i].frame \in Nat /\ cs[j].frame \in Nat
        BY <3>1, <1>3, <1>7
      <3>. QED
        BY <3>1, <3>4, <3>5
    <2>. QED
      BY <2>1, <2>2, <2>3 DEF Owned
  <1>12. Stage(gs, ds)
    <2>1. Last(cs).frame <= MaxDepth
      BY <1>3, <1>5 DEF StackOK, Stage
    <2>2. ASSUME NEW k \in 1..n
          PROVE  /\ ds[k].at \in {"start", "loop"} => ds[k].frame = Len(gs) /\ ds[k].frame # 0
                 /\ ds[k].at = "free" => ds[k].frame = 0
                 /\ ds[k].at \in {"loop", "call"} => ds[k].frame <= MaxDepth
      <3>1. CASE k = n
        BY <3>1, <2>1, <1>2, <1>3, <1>4
      <3>2. CASE k # n
        <4>1. cs[k].at = "call" /\ ds[k] = cs[k]
          BY <3>2, <1>3, <1>6, Zenon DEF StackOK, Awaits, n
        <4>2. cs[k].frame <= MaxDepth
          BY <4>1, <1>3 DEF StackOK, Stage
        <4>. QED
          BY <4>1, <4>2
      <3>. QED
        BY <3>1, <3>2
    <2>. QED
      BY <2>2, <1>3 DEF Stage
  <1>13. Returning(st2, gs, ds)
    <2>1. SUFFICES ASSUME NEW k \in 1..n, ds[k].at = "call", ds[k].frame # 0
                   PROVE  ReturnsTo(st2, gs[ds[k].frame])
      BY <1>3 DEF Returning
    <2>2. k # n /\ ds[k] = cs[k] /\ k < n
      BY <2>1, <1>3, <1>6
    <2>3. cs[k].frame < cs[n].frame
      <3>1. k \in DOMAIN cs /\ n \in DOMAIN cs /\ cs[n].frame # 0 /\ cs[n].at # "start"
        BY <1>3, <1>5
      <3>. QED
        BY <3>1, <2>2 DEF StackOK, Owned
    <2>4. cs[k].frame \in 1..m /\ cs[k].frame # m
      BY <2>1, <2>2, <2>3, <1>2, <1>5, <1>7
    <2>5. gs[ds[k].frame] = fs[cs[k].frame]
      BY <2>2, <2>4, <1>4
    <2>6. ReturnsTo(st, fs[cs[k].frame])
      BY <2>1, <2>2, <1>3 DEF StackOK, Returning
    <2>. QED
      BY <2>5, <2>6 DEF ReturnsTo
  <1>. QED
    BY <1>9, <1>10, <1>11, <1>12, <1>13 DEF StackOK, gs, ds

\* The activation on top goes to another place.
LEMMA ReplacesTop ==
    ASSUME NEW st, NEW x, NEW fs, NEW cs, StackOK(st, x, fs, cs), cs # <<>>, NEW x2 \in Nat,
           st = "running" \/ Last(cs).at # "start",
           NEW c \in CallTypes, FrameOK(c.dying), c.frame = Last(cs).frame,
           c.at \in {"start", "loop"} => c.frame = Len(fs) /\ c.frame # 0,
           c.at = "free" => c.frame = 0,
           c.at \in {"loop", "call"} => c.frame <= MaxDepth,
           c.at = "call" /\ c.frame # 0 => ReturnsTo(st, fs[c.frame])
    PROVE  StackOK(st, x2, fs, Append(Front(cs), c))
  <1> DEFINE ds == Append(Front(cs), c)
             n == Len(cs)
  <1>1. /\ fs \in Seq(FrameType) /\ cs \in Seq(CallTypes) /\ \A i \in DOMAIN fs : FrameHolds(fs[i])
        /\ \A k \in DOMAIN cs : FrameOK(cs[k].dying)
        /\ st \in {"running", "aborted", "crashed"}
    BY DEF StackOK, TypedStack
  <1>2. /\ ds \in Seq(CallTypes) /\ Len(ds) = n /\ n \in Nat \ {0} /\ DOMAIN ds = 1..n /\ DOMAIN cs = 1..n
        /\ \A k \in 1..n : ds[k] = IF k = n THEN c ELSE cs[k]
    BY <1>1, ReplaceIs
  <1>3. cs[n] = Last(cs) /\ n \in 1..n
    <2> HIDE DEF ds
    <2>1. cs[Len(cs)] = Last(cs) /\ Len(cs) \in DOMAIN cs /\ DOMAIN cs = 1..Len(cs)
      BY <1>1, LastIs
    <2>. QED
      BY <2>1
  <1> HIDE DEF ds, n
  <1>4. \A k \in 1..n : k # n => k < n
    BY <1>2
  <1>5. \A k \in 1..n : ds[k].frame = cs[k].frame
    BY <1>2, <1>3
  <1>6. TypedStack(st, x2, fs, ds)
    BY <1>1, <1>2 DEF TypedStack
  <1>7. Awaits(ds)
    <2>1. SUFFICES ASSUME NEW k \in 1..n, k < n PROVE ds[k].at = "call"
      BY <1>2 DEF Awaits
    <2>2. k # n /\ ds[k] = cs[k]
      BY <2>1, <1>2
    <2>. QED
      BY <2>1, <2>2, <1>2, Zenon DEF Awaits, StackOK, n
  <1>8. Owned(st, fs, ds)
    <2>1. \A k \in DOMAIN ds : ds[k].frame <= Len(fs)
      BY <1>2, <1>5 DEF StackOK, Owned
    <2>2. \A i \in DOMAIN fs : \E k \in DOMAIN ds : ds[k].frame = i
      BY <1>2, <1>5 DEF StackOK, Owned
    <2>3. ASSUME NEW i \in DOMAIN ds, NEW j \in DOMAIN ds, i < j, ds[j].frame # 0
          PROVE  /\ ds[i].frame <= ds[j].frame
                 /\ st = "running" \/ ds[j].at # "start" => ds[i].frame < ds[j].frame
      <3>1. ds[i].frame = cs[i].frame /\ ds[j].frame = cs[j].frame /\ i \in DOMAIN cs /\ j \in DOMAIN cs
        BY <2>3, <1>2, <1>5
      <3>2. ds[j].at # "start" => cs[j].at # "start" \/ st = "running"
        BY <2>3, <1>2, <1>3
      <3>. QED
        BY <2>3, <3>1, <3>2 DEF StackOK, Owned
    <2>. QED
      BY <2>1, <2>2, <2>3 DEF Owned
  <1>9. Stage(fs, ds)
    <2>2. ASSUME NEW k \in 1..n
          PROVE  /\ ds[k].at \in {"start", "loop"} => ds[k].frame = Len(fs) /\ ds[k].frame # 0
                 /\ ds[k].at = "free" => ds[k].frame = 0
                 /\ ds[k].at \in {"loop", "call"} => ds[k].frame <= MaxDepth
      <3>1. CASE k = n
        BY <3>1, <1>2
      <3>2. CASE k # n
        BY <3>2, <1>2 DEF StackOK, Stage
      <3>. QED
        BY <3>1, <3>2
    <2>. QED
      BY <2>2, <1>2 DEF Stage
  <1>10. Returning(st, fs, ds)
    <2>1. SUFFICES ASSUME NEW k \in 1..n, ds[k].at = "call", ds[k].frame # 0
                   PROVE  ReturnsTo(st, fs[ds[k].frame])
      BY <1>2 DEF Returning
    <2>2. CASE k = n
      BY <2>1, <2>2, <1>2
    <2>3. CASE k # n
      BY <2>1, <2>3, <1>2 DEF StackOK, Returning
    <2>. QED
      BY <2>2, <2>3
  <1>. QED
    BY <1>6, <1>7, <1>8, <1>9, <1>10 DEF StackOK, ds

\* The activation on top, whose frame is gone, ends.
LEMMA PopsTop ==
    ASSUME NEW st, NEW x, NEW fs, NEW cs, StackOK(st, x, fs, cs), cs # <<>>, Last(cs).frame = 0
    PROVE  /\ StackOK(st, x, fs, Front(cs))
           /\ Front(cs) # <<>> => Last(Front(cs)).at = "call"
  <1> DEFINE ds == Front(cs)
             n == Len(cs)
  <1>1. /\ fs \in Seq(FrameType) /\ cs \in Seq(CallTypes) /\ \A i \in DOMAIN fs : FrameHolds(fs[i])
        /\ \A k \in DOMAIN cs : FrameOK(cs[k].dying)
        /\ st \in {"running", "aborted", "crashed"} /\ x \in Nat
    BY DEF StackOK, TypedStack
  <1>2. /\ ds \in Seq(CallTypes) /\ Len(ds) = n - 1 /\ n \in Nat \ {0} /\ DOMAIN ds = 1..n - 1
        /\ DOMAIN cs = 1..n /\ cs[n] = Last(cs)
        /\ \A k \in 1..n - 1 : ds[k] = cs[k]
    BY <1>1, FrontIs
  <1> HIDE DEF ds, n
  <1>3. \A k \in 1..n - 1 : k \in 1..n /\ k < n /\ ds[k] = cs[k]
    BY <1>2
  <1>4. \A k \in 1..n - 1 : ds[k].at = "call"
    BY <1>2, <1>3 DEF StackOK, Awaits, n
  <1>5. TypedStack(st, x, fs, ds)
    BY <1>1, <1>2, <1>3 DEF TypedStack
  <1>6. Owned(st, fs, ds)
    <2>1. \A k \in DOMAIN ds : ds[k].frame <= Len(fs)
      BY <1>2, <1>3 DEF StackOK, Owned
    <2>2. \A i \in DOMAIN fs : \E k \in DOMAIN ds : ds[k].frame = i
      <3>1. TAKE i \in DOMAIN fs
      <3>2. PICK k \in DOMAIN cs : cs[k].frame = i
        BY DEF StackOK, Owned
      <3>3. i # 0
        BY <1>1
      <3>4. k # n
        BY <3>2, <3>3, <1>2
      <3>5. k \in 1..n - 1
        BY <3>4, <1>2
      <3>. QED
        BY <3>2, <3>5, <1>2, <1>3
    <2>3. \A i, j \in DOMAIN ds : i < j /\ ds[j].frame # 0 =>
            /\ ds[i].frame <= ds[j].frame
            /\ st = "running" \/ ds[j].at # "start" => ds[i].frame < ds[j].frame
      BY <1>2, <1>3 DEF StackOK, Owned
    <2>. QED
      BY <2>1, <2>2, <2>3 DEF Owned
  <1>7. Awaits(ds)
    BY <1>2, <1>4 DEF Awaits
  <1>8. Stage(fs, ds)
    BY <1>2, <1>3 DEF Stage, StackOK
  <1>9. Returning(st, fs, ds)
    BY <1>2, <1>3 DEF Returning, StackOK
  <1>10. ASSUME ds # <<>> PROVE Last(ds).at = "call"
    <2>1. Last(ds) = ds[Len(ds)] /\ Len(ds) \in Nat \ {0}
      BY <1>10, <1>2, FrontIs
    <2>2. Len(ds) \in 1..n - 1
      BY <2>1, <1>2
    <2>. QED
      BY <2>1, <2>2, <1>4
  <1>. QED
    BY <1>5, <1>6, <1>7, <1>8, <1>9, <1>10 DEF StackOK, ds

\* swfdec_as_context_return
Left(fs, cs) ==
    [k \in DOMAIN cs |->
        LET c == IF cs[k].frame = Len(fs) THEN [cs[k] EXCEPT !.frame = 0] ELSE cs[k]
        IN IF k = Len(cs) THEN [c EXCEPT !.at = "free", !.dying = Last(fs)] ELSE c]

LEMMA LeftIs ==
    ASSUME NEW fs, NEW cs \in Seq(CallTypes), Last(fs) \in FrameType, NEW k \in DOMAIN cs
    PROVE  /\ Left(fs, cs)[k] \in CallTypes
           /\ Left(fs, cs)[k].frame = IF cs[k].frame = Len(fs) THEN 0 ELSE cs[k].frame
           /\ Left(fs, cs)[k].at = IF k = Len(cs) THEN "free" ELSE cs[k].at
           /\ Left(fs, cs)[k].dying = IF k = Len(cs) THEN Last(fs) ELSE cs[k].dying
  <1> DEFINE b == cs[k]
             c == IF b.frame = Len(fs) THEN [b EXCEPT !.frame = 0] ELSE b
             d == IF k = Len(cs) THEN [c EXCEPT !.at = "free", !.dying = Last(fs)] ELSE c
  <1>1. b \in CallTypes
    OBVIOUS
  <1>2. Left(fs, cs)[k] = d
    BY DEF Left
  <1> HIDE DEF b
  <1>3. /\ c \in CallTypes /\ c.frame = (IF b.frame = Len(fs) THEN 0 ELSE b.frame)
        /\ c.at = b.at /\ c.dying = b.dying
    BY <1>1 DEF CallTypes
  <1> HIDE DEF c
  <1>4. /\ d \in CallTypes /\ d.frame = c.frame
        /\ d.at = (IF k = Len(cs) THEN "free" ELSE c.at)
        /\ d.dying = (IF k = Len(cs) THEN Last(fs) ELSE c.dying)
    BY <1>3 DEF CallTypes
  <1> HIDE DEF d
  <1>. QED
    BY <1>2, <1>3, <1>4 DEF b

\* The frame on top goes, and is freed by the activation on top.
LEMMA LeavesStack ==
    ASSUME NEW st, NEW x, NEW fs, NEW cs, StackOK(st, x, fs, cs), cs # <<>>,
           Last(cs).at \in {"start", "loop"},
           NEW st2 \in {"running", "aborted"}, st2 = "running" => st = "running"
    PROVE  /\ StackOK(st2, x, Front(fs), Left(fs, cs)) /\ Left(fs, cs) # <<>>
           /\ Last(Left(fs, cs)).at = "free" /\ Last(Left(fs, cs)).dying = Last(fs)
           /\ fs # <<>> /\ Last(fs) \in FrameType
  <1> DEFINE ds == Left(fs, cs)
             gs == Front(fs)
             n == Len(cs)
             m == Len(fs)
  <1>1. /\ fs \in Seq(FrameType) /\ cs \in Seq(CallTypes) /\ \A i \in DOMAIN fs : FrameHolds(fs[i])
        /\ \A k \in DOMAIN cs : FrameOK(cs[k].dying)
        /\ x \in Nat
    BY DEF StackOK, TypedStack
  <1>2. n \in Nat \ {0} /\ DOMAIN cs = 1..n /\ cs[n] = Last(cs) /\ n \in 1..n
    BY <1>1, LastIs
  <1>3. cs[n].frame = m /\ cs[n].frame # 0
    BY <1>2 DEF StackOK, Stage
  <1>4. fs # <<>> /\ m \in Nat \ {0} /\ FrameHolds(Last(fs))
    BY <1>2, <1>3, TopFrame
  <1>5. /\ gs \in Seq(FrameType) /\ Len(gs) = m - 1 /\ DOMAIN gs = 1..m - 1 /\ DOMAIN fs = 1..m
        /\ \A i \in 1..m - 1 : gs[i] = fs[i]
    BY <1>1, <1>4, FrontIs
  <1>6. Last(fs) \in FrameType
    BY <1>1, <1>4, FrontIs
  <1>7. \A k \in 1..n : /\ ds[k] \in CallTypes
                        /\ ds[k].frame = IF cs[k].frame = m THEN 0 ELSE cs[k].frame
                        /\ ds[k].at = IF k = n THEN "free" ELSE cs[k].at
                        /\ ds[k].dying = IF k = n THEN Last(fs) ELSE cs[k].dying
    <2>1. TAKE k \in 1..n
    <2>2. k \in DOMAIN cs
      BY <1>2
    <2> HIDE DEF gs
    <2>. QED
      BY <2>2, <1>1, <1>6, LeftIs
  <1>8. ds \in Seq(CallTypes) /\ DOMAIN ds = 1..n /\ Len(ds) = n
    <2>1. DOMAIN ds = 1..n /\ ds = [k \in 1..n |-> ds[k]]
      BY <1>2 DEF Left
    <2> HIDE DEF ds, n
    <2>2. ds \in [1..n -> CallTypes]
      BY <2>1, <1>7
    <2>. QED
      BY <2>1, <2>2, <1>2
  <1> HIDE DEF ds, gs, n, m
  <1>9. \A k \in 1..n : cs[k].frame \in Nat /\ cs[k].frame <= m
    BY <1>1, <1>2, CallIs DEF StackOK, Owned, m
  <1>10. \A k \in 1..n : k # n => k < n
    BY <1>2
  <1>11. \A k \in 1..n : k # n => cs[k].at = "call"
    BY <1>2, <1>10, Zenon DEF StackOK, Awaits, n
  <1>12. TypedStack(st2, x, gs, ds)
    <2>1. \A i \in DOMAIN gs : FrameHolds(gs[i])
      <3>1. \A i \in 1..m - 1 : i \in 1..m
        BY <1>4
      <3>. QED
        BY <3>1, <1>1, <1>5
    <2>2. \A k \in DOMAIN ds : FrameOK(ds[k].dying)
      BY <1>1, <1>2, <1>4, <1>7, <1>8 DEF FrameHolds
    <2>. QED
      BY <2>1, <2>2, <1>1, <1>5, <1>8 DEF TypedStack
  <1>13. Awaits(ds)
    <2>1. SUFFICES ASSUME NEW k \in 1..n, k < n PROVE ds[k].at = "call"
      BY <1>8 DEF Awaits
    <2>. QED
      BY <2>1, <1>2, <1>7, <1>11
  <1>14. Owned(st2, gs, ds)
    <2>1. \A k \in DOMAIN ds : ds[k].frame <= Len(gs)
      <3>1. TAKE k \in DOMAIN ds
      <3>2. CASE cs[k].frame = m
        BY <3>2, <1>4, <1>5, <1>7, <1>8
      <3>3. CASE cs[k].frame # m
        BY <3>3, <1>4, <1>5, <1>7, <1>8, <1>9
      <3>. QED
        BY <3>2, <3>3
    <2>2. \A i \in DOMAIN gs : \E k \in DOMAIN ds : ds[k].frame = i
      <3>1. TAKE i \in DOMAIN gs
      <3>2. i \in DOMAIN fs /\ i # m
        BY <1>4, <1>5
      <3>3. PICK k \in DOMAIN cs : cs[k].frame = i
        BY <3>2 DEF StackOK, Owned
      <3>. QED
        BY <3>2, <3>3, <1>2, <1>7, <1>8
    <2>3. ASSUME NEW i \in DOMAIN ds, NEW j \in DOMAIN ds, i < j, ds[j].frame # 0
          PROVE  /\ ds[i].frame <= ds[j].frame
                 /\ ds[i].frame < ds[j].frame
      <3>1. i \in 1..n /\ j \in 1..n
        BY <1>8
      <3>2. cs[j].frame # m /\ ds[j].frame = cs[j].frame /\ j # n
        BY <2>3, <3>1, <1>3, <1>7
      <3>3. cs[j].at = "call" /\ cs[j].frame # 0
        BY <2>3, <3>1, <3>2, <1>11
      <3>4. cs[i].frame < cs[j].frame
        BY <2>3, <3>1, <3>3, <1>2 DEF StackOK, Owned
      <3>5. cs[i].frame \in Nat /\ cs[j].frame \in Nat /\ cs[j].frame <= m /\ m \in Nat
        BY <3>1, <1>4, <1>9
      <3>6. ds[i].frame = cs[i].frame
        <4>1. cs[i].frame # m
          BY <3>4, <3>5
        <4>. QED
          BY <4>1, <3>1, <1>7
      <3>. QED
        BY <3>2, <3>4, <3>5, <3>6
    <2>. QED
      BY <2>1, <2>2, <2>3 DEF Owned
  <1>15. Stage(gs, ds)
    <2>1. ASSUME NEW k \in 1..n
          PROVE  /\ ds[k].at \in {"start", "loop"} => ds[k].frame = Len(gs) /\ ds[k].frame # 0
                 /\ ds[k].at = "free" => ds[k].frame = 0
                 /\ ds[k].at \in {"loop", "call"} => ds[k].frame <= MaxDepth
      <3>1. CASE k = n
        BY <3>1, <1>3, <1>7
      <3>2. CASE k # n
        <4>1. ds[k].at = "call" /\ cs[k].frame <= MaxDepth
          BY <3>2, <1>2, <1>7, <1>11 DEF StackOK, Stage
        <4>2. ds[k].frame = 0 \/ ds[k].frame = cs[k].frame
          BY <1>7
        <4>3. 0 <= MaxDepth
          BY CodeAssumption
        <4>. QED
          BY <4>1, <4>2, <4>3
      <3>. QED
        BY <3>1, <3>2
    <2>. QED
      BY <2>1, <1>8 DEF Stage
  <1>16. Returning(st2, gs, ds)
    <2>1. SUFFICES ASSUME NEW k \in 1..n, ds[k].at = "call", ds[k].frame # 0
                   PROVE  ReturnsTo(st2, gs[ds[k].frame])
      BY <1>8 DEF Returning
    <2>2. k # n /\ cs[k].at = "call" /\ ds[k].frame = cs[k].frame /\ cs[k].frame # m
      BY <2>1, <1>7
    <2>3. cs[k].frame \in 1..m - 1
      BY <2>1, <2>2, <1>4, <1>9
    <2>4. ReturnsTo(st, fs[cs[k].frame])
      BY <2>1, <2>2, <1>2 DEF StackOK, Returning
    <2>. QED
      BY <2>2, <2>3, <2>4, <1>5 DEF ReturnsTo
  <1>17. ds # <<>> /\ Last(ds) = ds[n]
    <2>1. ds # <<>>
      BY <1>2, <1>8, EmptySeq
    <2>. QED
      BY <2>1, <1>8, FrontIs
  <1>18. Last(ds).at = "free" /\ Last(ds).dying = Last(fs)
    BY <1>2, <1>7, <1>17
  <1>19. StackOK(st2, x, gs, ds)
    BY <1>12, <1>13, <1>14, <1>15, <1>16 DEF StackOK
  <1>. QED
    BY <1>4, <1>6, <1>17, <1>18, <1>19 DEF ds, gs

-----------------------------------------------------------------------------
(* Where the code of a frame goes on *)

\* The program counter is set.
LEMMA PcMoves ==
    ASSUME NEW f, FrameHolds(f), NEW to \in Nat
    PROVE  /\ [f EXCEPT !.pc = to] \in FrameType /\ FrameHolds([f EXCEPT !.pc = to])
           /\ [f EXCEPT !.pc = to].pc = to /\ [f EXCEPT !.pc = to].blocks = f.blocks
           /\ [f EXCEPT !.pc = to].script = f.script /\ [f EXCEPT !.pc = to].scope = f.scope
           /\ [f EXCEPT !.pc = to].rejected = f.rejected
           /\ \A pc : Covered([f EXCEPT !.pc = to], pc) <=> Covered(f, pc)
  <1> DEFINE g == [f EXCEPT !.pc = to]
  <1>1. f \in FrameType /\ f.script \in Scripts
    BY DEF FrameHolds, FrameOK
  <1>2. /\ g \in FrameType /\ g.pc = to /\ g.blocks = f.blocks /\ g.script = f.script /\ g.scope = f.scope
        /\ g.rejected = f.rejected
    BY <1>1 DEF FrameType
  <1> HIDE DEF g
  <1>3. FrameHolds(g)
    BY <1>2 DEF FrameHolds, FrameOK
  <1>4. \A pc : Covered(g, pc) <=> Covered(f, pc)
    BY <1>2 DEF Covered
  <1>. QED
    BY <1>2, <1>3, <1>4 DEF g

\* What is known at an address that has an action.
LEMMA AtAction ==
    ASSUME NEW f, FrameHolds(f), f.pc \in DOMAIN Code[f.script]
    PROVE  f.script \in Scripts /\ f.pc \in Nat \ {0} /\ f.pc + 1 \in Nat
  <1>1. f.script \in Scripts
    BY DEF FrameHolds
  <1>. QED
    BY <1>1, CodeIs

\* Code that gets to an address without an action that has a block.
LEMMA FollowsCovered ==
    ASSUME NEW f, FrameHolds(f), f.pc \in DOMAIN Code[f.script], NEW a \in Code[f.script][f.pc],
           Covered(f, f.pc), NEW to \in Follows(f.pc, a),
           to # f.pc + 1 \/ (~HasBlock("try", a) /\ ~HasBlock("with", a))
    PROVE  Covered(f, to)
  <1> DEFINE s == f.script
             pc == f.pc
  <1>1. s \in Scripts
    BY AtAction
  <1>2. SUFFICES ASSUME s \in Structured PROVE Guards(s, to) \subseteq Guards(s, pc)
    BY DEF Covered, Guarding
  <1>3. Guarded(s, pc, a)
    BY <1>1, <1>2, CodeIs
  <1>4. CASE to # pc + 1
    BY <1>3, <1>4 DEF Guarded
  <1>5. CASE to = pc + 1
    BY <1>3, <1>5 DEF Guarded
  <1>. QED
    BY <1>4, <1>5

\* The code is in all blocks if it is in the innermost one.
LEMMA InsideAll ==
    ASSUME NEW f, FrameHolds(f), Inside(f)
    PROVE  \A i \in DOMAIN f.blocks : Spans(f.blocks[i], f.pc)
  <1> DEFINE bs == f.blocks
             n == Len(bs)
             pc == f.pc
  <1>1. /\ bs \in Seq(BlockType) /\ pc \in Nat
        /\ \A i, j \in DOMAIN bs : i < j => Holds(bs[i], bs[j])
    BY DEF FrameHolds, FrameOK, FrameType, BlocksOK
  <1>2. SUFFICES ASSUME NEW i \in DOMAIN bs PROVE Spans(bs[i], pc)
    OBVIOUS
  <1>3. bs # <<>>
    BY <1>1, EmptySeq
  <1>4. Last(bs) = bs[n] /\ n \in DOMAIN bs /\ DOMAIN bs = 1..n /\ n \in Nat
    BY <1>1, <1>3, LastIs
  <1>5. Spans(bs[n], pc)
    BY <1>3, <1>4 DEF Inside, Spans
  <1> HIDE DEF bs, n, pc
  <1>6. CASE i = n
    BY <1>5, <1>6
  <1>7. CASE i # n
    <2>1. i < n
      BY <1>4, <1>7
    <2>2. Holds(bs[i], bs[n])
      BY <2>1, <1>1, <1>4
    <2>3. bs[i] \in BlockType /\ bs[n] \in BlockType
      BY <1>1, <1>4
    <2>4. bs[n].start \in Nat /\ bs[n].end \in Nat /\ bs[i].start \in Nat /\ bs[i].end \in Nat
      BY <2>3 DEF BlockType
    <2>. QED
      BY <2>2, <2>4, <1>1, <1>5 DEF Holds, Spans
  <1>. QED
    BY <1>6, <1>7

\* The block b is entered, or turned away, on the way to an address that has no
\* other guards than an address that has its own.
LEMMA PushedCovers ==
    ASSUME NEW s \in Scripts, NEW f, f.script = s, NEW bs \in Seq(BlockType), NEW b \in BlockType,
           NEW bd, NEW rej, Pushed(f, b, s, bs, bd, rej), NEW at, Guarding(s, bs, rej, at),
           NEW to, s \in Structured => \A g \in Guards(s, to) : g \in Guards(s, at) \/ IsOf(b, g)
    PROVE  Covered(f, to)
  <1> DEFINE cs == f.blocks
             more == f.rejected
             as == Append(bs, b)
             n == Len(bs)
  <1>1. SUFFICES ASSUME s \in Structured, NEW g \in Guards(s, to) PROVE Accounted(cs, more, g)
    BY DEF Covered, Guarding
  <1>2. g = <<g[1], g[2]>>
    BY DEF Guards
  <1>3. /\ DOMAIN as = 1..n + 1 /\ DOMAIN bs = 1..n /\ n \in Nat
        /\ as[n + 1] = b /\ \A i \in 1..n : as[i] = bs[i]
    BY AppendIs
  <1>4. \/ cs = as /\ more = rej
        \/ cs = bs /\ more = rej \cup {<<b.kind, b.at>>}
    BY DEF Pushed
  <1> HIDE DEF cs, more, as, n
  <1>5. CASE IsOf(b, g)
    <2>1. CASE cs = as
      <3>1. n + 1 \in DOMAIN as /\ as[n + 1] = b
        BY <1>3
      <3>. QED
        BY <3>1, <2>1, <1>5 DEF Accounted
    <2>2. CASE more = rej \cup {<<b.kind, b.at>>}
      BY <2>2, <1>2, <1>5 DEF Accounted, IsOf
    <2>. QED
      BY <2>1, <2>2, <1>4
  <1>6. CASE g \in Guards(s, at)
    <2>1. Accounted(bs, rej, g)
      BY <1>1, <1>6 DEF Guarding
    <2>2. CASE g \in rej
      BY <2>2, <1>4 DEF Accounted
    <2>3. ASSUME NEW i \in DOMAIN bs, IsOf(bs[i], g) PROVE Accounted(cs, more, g)
      <3>1. CASE cs = as
        <4>1. i \in 1..n
          BY <1>3
        <4>2. i \in DOMAIN as
          BY <4>1, <1>3
        <4>3. as[i] = bs[i]
          BY <4>1, <1>3
        <4>. QED
          BY <4>2, <4>3, <3>1, <2>3 DEF Accounted
      <3>2. CASE cs = bs
        BY <3>2, <2>3 DEF Accounted
      <3>. QED
        BY <3>1, <3>2, <1>4
    <2>. QED
      BY <2>1, <2>2, <2>3 DEF Accounted
  <1>. QED
    BY <1>1, <1>5, <1>6

\* The frame f enters the block b, with the objects q on the scope chain, and
\* goes on.
Opened(f, q, b) == [PushBlock([f EXCEPT !.scope = q], b) EXCEPT !.pc = @ + 1]

\* A Try or With enters its block, or goes on without it.
LEMMA Opens ==
    ASSUME NEW f, FrameHolds(f), f.pc \in DOMAIN Code[f.script], NEW a \in Code[f.script][f.pc],
           NEW kind \in {"try", "with"}, HasBlock(kind, a), Covered(f, f.pc),
           NEW q \in Nat, kind = "with" => q = f.scope + 1, kind = "try" => q = f.scope,
           NEW b, b = Block(kind, f.pc, f.pc + 1, To(kind, a), a, q, 0)
    PROVE  /\ FrameHolds(Opened(f, q, b)) /\ Opened(f, q, b) \in FrameType
           /\ Covered(Opened(f, q, b), Opened(f, q, b).pc)
           /\ Pushed(Opened(f, q, b), b, f.script, f.blocks, f.bounded, f.rejected)
           /\ b.held = 0 /\ b \in BlockType
  <1> DEFINE s == f.script
             pc == f.pc
             bs == f.blocks
             bd == f.bounded
             p == f.scope
             rej == f.rejected
             to == pc + 1
             h == FrameOf(s, pc, bs, bd, q, rej)
             g == Opened(f, q, b)
  <1>1. f \in FrameType /\ BlocksOK(s, bs, rej) /\ Chain(bs, p, LeftIn(rej)) /\ s \in Scripts
    BY DEF FrameHolds, FrameOK
  <1>2. bs \in Seq(BlockType) /\ p \in Nat /\ bd \in BOOLEAN /\ rej \in SUBSET (Kinds \X Nat)
    BY <1>1 DEF FrameType
  <1>3. pc \in DOMAIN Code[s] /\ pc \in Nat /\ to \in Nat
    BY AtAction
  <1>4. a \in Actions /\ (s \in Structured => Guarded(s, pc, a))
    BY <1>1, <1>3, CodeIs
  <1>5. /\ b.kind = kind /\ b.at = pc /\ b.start = pc + 1 /\ b.end = To(kind, a) /\ b.try = a
        /\ b.depth = q /\ b.held = 0
    BY DEF Block
  <1>6. b \in BlockType /\ BlockOK(s, b) /\ kind \in Kinds /\ a.op \in {"try", "with"}
    <2>1. To(kind, a) \in Nat /\ a.op \in {"try", "with"} /\ kind \in Kinds
      BY <1>1, <1>3, BlockIs DEF Kinds
    <2>2. b \in BlockType
      BY <2>1, <1>3, <1>4 DEF Block, BlockType
    <2>3. From(kind, pc, a) = pc + 1
      BY DEF From
    <2>4. BlockOK(s, b)
      BY <2>3, <1>3, <1>5 DEF BlockOK
    <2>. QED
      BY <2>1, <2>2, <2>4
  <1>7. q = p + Puts(b) /\ b.depth = p + Puts(b)
    BY <1>2, <1>5 DEF Puts
  <1>8. Guarding(s, bs, rej, pc)
    BY DEF Covered
  <1>9. s \in Structured => \A i \in Guards(s, to) : i \in Guards(s, pc) \/ IsOf(b, i)
    <2>1. SUFFICES ASSUME s \in Structured, NEW i \in Guards(s, to), i \notin Guards(s, pc)
                   PROVE  IsOf(b, i)
      OBVIOUS
    <2>2. pc + 1 \in Follows(pc, a)
      BY <1>6 DEF Follows
    <2>3. i[2] = pc /\ i[1] \in {"try", "with"} /\ HasBlock(i[1], a)
      BY <2>1, <2>2, <1>4 DEF Guarded
    <2>4. i[1] = kind
      BY <2>3 DEF HasBlock
    <2>. QED
      BY <2>3, <2>4, <1>5 DEF IsOf
  <1>10. [f EXCEPT !.scope = q] = h
    <2>1. f = FrameOf(s, pc, bs, bd, p, rej)
      BY <1>1, FrameIs
    <2> HIDE DEF s, pc, bs, bd, p, rej
    <2>2. [FrameOf(s, pc, bs, bd, p, rej) EXCEPT !.scope = q] = h
      BY FrameChanges
    <2>. QED
      BY <2>1, <2>2
  <1> HIDE DEF s, pc, bs, bd, p, rej, to, g
  <1>11. /\ FrameOK(PushedAt(h, b, to)) /\ PushedAt(h, b, to).script = s /\ PushedAt(h, b, to).pc = to
         /\ Pushed(PushedAt(h, b, to), b, s, bs, bd, rej) /\ PushBlock(h, b).pc = pc
    <2>1. Guarding(s, bs, rej, b.at)
      BY <1>5, <1>8
    <2>. QED
      BY <2>1, <1>1, <1>2, <1>3, <1>6, <1>7, PushIs
  <1>12. g = PushedAt(h, b, to)
    <2>1. g = [PushBlock(h, b) EXCEPT !.pc = @ + 1]
      BY <1>10 DEF g, Opened
    <2> HIDE DEF h
    <2>. QED
      BY <2>1, <1>11 DEF PushedAt, to
  <1> HIDE DEF h
  <1>13. FrameHolds(g) /\ g \in FrameType
    BY <1>1, <1>11, <1>12 DEF FrameHolds, FrameOK
  <1>14. Covered(g, g.pc)
    <2>1. Covered(g, to)
      BY <1>1, <1>2, <1>6, <1>8, <1>9, <1>11, <1>12, PushedCovers
    <2>. QED
      BY <2>1, <1>11, <1>12
  <1>. QED
    BY <1>5, <1>6, <1>11, <1>12, <1>13, <1>14 DEF g, s, bs, bd, rej

\* A block that has ended is none of those that guard the code.
LEMMA ExitKeepsCovered ==
    ASSUME NEW f, FrameHolds(f), ~Inside(f), Covered(f, f.pc), NEW alive \in BOOLEAN
    PROVE  LET a == PopBlock(f, 0, alive)
           IN FrameHolds(a.frame) /\ Covered(a.frame, a.frame.pc) /\ Gone(f, a, 0, alive)
  <1> DEFINE a == PopBlock(f, 0, alive)
             s == f.script
             bs == f.blocks
             rej == f.rejected
             b == Last(bs)
             cs == Front(bs)
  <1>1. FrameOK(f) /\ s \in Scripts /\ BlocksOK(s, bs, rej) /\ bs \in Seq(BlockType)
    BY DEF FrameHolds, FrameOK, FrameType
  <1>2. bs # <<>> /\ ~Spans(b, f.pc)
    BY DEF Inside, Spans
  <1>3. Ends(f, a, 0, alive)
    <2> DEFINE x == 0
    <2>1. x \in Nat
      OBVIOUS
    <2> HIDE DEF x
    <2>2. Ends(f, PopBlock(f, x, alive), x, alive)
      BY <2>1, <1>1, <1>2, PopIs
    <2>. QED
      BY <2>2 DEF x
  <1> HIDE DEF a
  <1>4. FrameOK(a.frame) /\ a.frame.script = s /\ Gone(f, a, 0, alive)
    BY <1>3 DEF Ends, Catches, Retains
  <1>5. a.frame.blocks = cs /\ a.frame.pc = f.pc /\ a.frame.rejected = rej
    BY <1>4 DEF Gone
  <1>6. FrameHolds(a.frame)
    BY <1>1, <1>4 DEF FrameHolds
  <1>7. b \in BlockType /\ BlockOK(s, b)
    BY <1>1, <1>2, PopKeeps
  <1>8. /\ DOMAIN bs = 1..Len(bs) /\ DOMAIN cs = 1..Len(bs) - 1 /\ b = bs[Len(bs)]
        /\ \A i \in 1..Len(bs) - 1 : cs[i] = bs[i]
    BY <1>1, <1>2, FrontIs
  <1> HIDE DEF s, bs, b, cs, rej
  <1>9. ASSUME s \in Structured, NEW g \in Guards(s, f.pc) PROVE Accounted(cs, rej, g)
    <2>1. Accounted(bs, rej, g)
      BY <1>9 DEF Covered, Guarding, s, bs, rej
    <2>2. CASE g \in rej
      BY <2>2 DEF Accounted
    <2>3. ASSUME NEW i \in DOMAIN bs, IsOf(bs[i], g) PROVE Accounted(cs, rej, g)
      <3>1. CASE i # Len(bs)
        <4>1. i \in 1..Len(bs) - 1
          BY <3>1, <1>8
        <4>. QED
          BY <4>1, <2>3, <1>8 DEF Accounted
      <3>2. CASE i = Len(bs)
        <4>1. b.kind = g[1] /\ b.at = g[2]
          BY <2>3, <3>2, <1>8 DEF IsOf
        <4>2. PICK c \in Code[s][g[2]] : Covers(g[1], g[2], c, f.pc)
          BY <1>1, <1>9, GuardsAre
        <4>3. /\ b.try \in Code[s][b.at] /\ b.at \in DOMAIN Code[s] /\ b.kind \in Kinds
              /\ HasBlock(b.kind, b.try)
              /\ Covers(b.kind, b.at, b.try, f.pc) <=> Spans(b, f.pc)
          BY <1>1, <1>7, BlockOKIs DEF BlockOK
        <4>4. c \in Code[s][b.at] /\ Covers(b.kind, b.at, c, f.pc)
          BY <4>1, <4>2
        <4>5. HasBlock(b.kind, c)
          BY <4>4 DEF Covers
        <4>6. b.try.op = c.op /\ c.op \in {"try", "with"}
          BY <4>3, <4>5 DEF HasBlock, Kinds
        <4>7. c = b.try
          BY <4>3, <4>4, <4>6, <1>1, CodeIs
        <4>. QED
          BY <4>3, <4>4, <4>7, <1>2
      <3>. QED
        BY <3>1, <3>2
    <2>. QED
      BY <2>1, <2>2, <2>3 DEF Accounted
  <1>10. Covered(a.frame, a.frame.pc)
    BY <1>4, <1>5, <1>9 DEF Covered, Guarding
  <1>. QED
    BY <1>4, <1>6, <1>10 DEF a

\* An exception that has been taken leaves the code where its blocks are.
LEMMA HandlingKeepsCovered ==
    ASSUME NEW f, FrameHolds(f), f.blocks # <<>>, NEW x \in Nat \ {0}, NEW alive \in BOOLEAN
    PROVE  LET a == PopBlock(f, x, alive)
           IN FrameHolds(a.frame) /\ (a.exception = 0 => Covered(a.frame, a.frame.pc))
  <1> DEFINE a == PopBlock(f, x, alive)
             s == f.script
             bs == f.blocks
             rej == f.rejected
             bd == (f.bounded \/ Len(bs) = 1)
             b == Last(bs)
             cs == Front(bs)
  <1>1. FrameOK(f) /\ s \in Scripts /\ BlocksOK(s, bs, rej) /\ bs \in Seq(BlockType)
    BY DEF FrameHolds, FrameOK, FrameType
  <1>2. Ends(f, a, x, alive)
    BY <1>1, PopIs
  <1> HIDE DEF a
  <1>3. FrameOK(a.frame) /\ a.frame.script = s
    BY <1>2 DEF Ends
  <1>4. FrameHolds(a.frame)
    BY <1>1, <1>3 DEF FrameHolds
  <1>5. /\ b \in BlockType /\ BlockOK(s, b) /\ cs \in Seq(BlockType) /\ Guarding(s, cs, rej, b.at)
    BY <1>1, PopKeeps
  <1>6. /\ b.at \in DOMAIN Code[s] /\ b.try \in Code[s][b.at] /\ b.at \in Nat \ {0}
        /\ (b.kind = "with" <=> b.try.op = "with") /\ b.try.op \in {"try", "with"}
    BY <1>1, <1>5, BlockOKIs
  <1>7. s \in Structured => Guarded(s, b.at, b.try)
    BY <1>1, <1>6, CodeIs
  <1>8. CASE Gone(f, a, x, alive)
    <2>1. a.exception # 0
      BY <1>8 DEF Gone
    <2>. QED
      BY <2>1, <1>4 DEF a
  <1>9. CASE Catches(f, a, x)
    <2> DEFINE to == b.try.catch
    <2>1. b.kind = "try" /\ to # 0 /\ a.frame.pc = to
      BY <1>9 DEF Catches
    <2>2. PICK n \in Nat : Around(f, a.frame, CatchOf(b, n))
      BY <1>9 DEF Catches
    <2> DEFINE d == CatchOf(b, n)
    <2>3. b.try.op = "try"
      BY <2>1, <1>6
    <2>4. d \in BlockType /\ d.kind = "catch" /\ d.at = b.at
      <3> DEFINE y == 0
      <3>1. y \in Nat
        OBVIOUS
      <3> HIDE DEF y
      <3>. QED
        BY <3>1, <2>1, <2>3, <1>1, <1>5, ClausesAre
    <2>5. s \in Structured => Guards(s, to) \subseteq Guards(s, b.at) \cup {<<"catch", b.at>>}
      BY <2>1, <2>3, <1>7 DEF Guarded
    <2>6. Pushed(a.frame, d, s, cs, bd, rej)
      BY <2>2 DEF Around
    <2> HIDE DEF d, to, b, s, cs, bs, bd, rej
    <2>7. s \in Structured => \A g \in Guards(s, to) : g \in Guards(s, b.at) \/ IsOf(d, g)
      BY <2>4, <2>5 DEF IsOf
    <2> DEFINE h == a.frame
               at == b.at
    <2>8. h.script = s /\ Pushed(h, d, s, cs, bd, rej) /\ Guarding(s, cs, rej, at)
      BY <2>6, <1>3, <1>5
    <2>9. s \in Structured => \A g \in Guards(s, to) : g \in Guards(s, at) \/ IsOf(d, g)
      BY <2>7
    <2> HIDE DEF h, at
    <2>10. Covered(h, to)
      BY <2>4, <2>8, <2>9, <1>1, <1>5, PushedCovers
    <2>. QED
      BY <2>1, <2>10, <1>4 DEF a, h
  <1>10. CASE Retains(f, a, x)
    <2> DEFINE to == b.try.finally
    <2>1. b.kind \in {"try", "catch"} /\ to # 0 /\ a.frame.pc = to
      BY <1>10 DEF Retains
    <2>2. PICK n \in Nat : Around(f, a.frame, FinallyOf(b, n, x))
      BY <1>10 DEF Retains
    <2> DEFINE d == FinallyOf(b, n, x)
    <2>3. b.try.op = "try"
      BY <2>1, <1>6
    <2>4. d \in BlockType
      BY <2>1, <2>3, <1>1, <1>5, ClausesAre
    <2>5. s \in Structured => Guards(s, to) \subseteq Guards(s, b.at)
      BY <2>1, <2>3, <1>7 DEF Guarded
    <2>6. Pushed(a.frame, d, s, cs, bd, rej)
      BY <2>2 DEF Around
    <2> HIDE DEF d, to, b, s, cs, bs, bd, rej
    <2> DEFINE h == a.frame
               at == b.at
    <2>7. h.script = s /\ Pushed(h, d, s, cs, bd, rej) /\ Guarding(s, cs, rej, at)
      BY <2>6, <1>3, <1>5
    <2>8. s \in Structured => \A g \in Guards(s, to) : g \in Guards(s, at) \/ IsOf(d, g)
      BY <2>5
    <2> HIDE DEF h, at
    <2>9. Covered(h, to)
      BY <2>4, <2>7, <2>8, <1>1, <1>5, PushedCovers
    <2>. QED
      BY <2>1, <2>9, <1>4 DEF a, h
  <1>. QED
    BY <1>2, <1>8, <1>9, <1>10 DEF Ends

-----------------------------------------------------------------------------
(* Calls *)

\* A frame has no blocks when it begins.
LEMMA NewFrameHolds ==
    /\ \A s \in Scripts \cup {"none"} : NewFrame(s) \in FrameType /\ FrameOK(NewFrame(s))
    /\ \A s \in Scripts : FrameHolds(NewFrame(s))
    /\ \A s : NewFrame(s).blocks = <<>> /\ NewFrame(s).pc = 1 /\ NewFrame(s).script = s
  <1>1. \A s : /\ NewFrame(s).blocks = <<>> /\ NewFrame(s).pc = 1 /\ NewFrame(s).script = s
               /\ NewFrame(s).scope = 0 /\ NewFrame(s).rejected = {}
    BY DEF NewFrame
  <1>2. \A s \in Scripts \cup {"none"} : NewFrame(s) \in FrameType
    BY DEF NewFrame, FrameType
  <1>3. \A s : BlocksOK(s, <<>>, {})
    BY DEF BlocksOK
  <1>4. Chain(<<>>, 0, LeftIn({}))
    BY DEF Chain, Under
  <1>5. \A s \in Scripts \cup {"none"} : FrameOK(NewFrame(s))
    BY <1>1, <1>2, <1>3, <1>4 DEF FrameOK
  <1>6. \A s \in Scripts : FrameHolds(NewFrame(s))
    BY <1>1, <1>5 DEF FrameHolds
  <1>. QED
    BY <1>1, <1>2, <1>5, <1>6

LEMMA ActivationIs ==
    ASSUME NEW i \in Nat
    PROVE  /\ Activation(i) \in CallTypes /\ Activation(i).frame = i /\ Activation(i).at = "start"
           /\ Activation(i).check = TRUE /\ FrameOK(Activation(i).dying)
  <1> DEFINE n == NewFrame("none")
  <1>1. n \in FrameType /\ FrameOK(n)
    BY NewFrameHolds
  <1> HIDE DEF n
  <1>2. Activation(i) = [frame |-> i, at |-> "start", check |-> TRUE, dying |-> n]
    BY DEF Activation, n
  <1>. QED
    BY <1>1, <1>2 DEF CallTypes

\* A new activation, of the frame on top or of a new one, is put on the stack
\* of those that wait.
LEMMA EntersStack ==
    ASSUME NEW st, NEW x, NEW fs, NEW cs, StackOK(st, x, fs, cs), \A k \in DOMAIN cs : cs[k].at = "call",
           NEW st2 \in {"running", "aborted"}, st2 = "running" => st = "running",
           NEW gs, \/ \E s \in Scripts : gs = Append(fs, NewFrame(s))
                   \/ gs = fs /\ fs # <<>> /\ st2 = "aborted"
    PROVE  StackOK(st2, x, gs, Append(cs, Activation(Len(gs))))
  <1> DEFINE c == Activation(Len(gs))
             ds == Append(cs, c)
             n == Len(cs)
             m == Len(fs)
  <1>1. /\ fs \in Seq(FrameType) /\ cs \in Seq(CallTypes) /\ \A i \in DOMAIN fs : FrameHolds(fs[i])
        /\ \A k \in DOMAIN cs : FrameOK(cs[k].dying)
        /\ x \in Nat
    BY DEF StackOK, TypedStack
  <1>2. /\ DOMAIN fs = 1..m /\ m \in Nat /\ gs \in Seq(FrameType) /\ Len(gs) \in Nat \ {0}
        /\ m <= Len(gs) /\ DOMAIN gs = 1..Len(gs)
        /\ Len(gs) # m => Len(gs) = m + 1
        /\ st2 = "running" => Len(gs) = m + 1
        /\ \A i \in 1..m : gs[i] = fs[i]
        /\ \A i \in 1..Len(gs) : FrameHolds(gs[i])
    <2>1. CASE gs = fs /\ fs # <<>> /\ st2 = "aborted"
      BY <2>1, <1>1, LastIs
    <2>2. ASSUME NEW s \in Scripts, gs = Append(fs, NewFrame(s)) PROVE <1>2
      <3> DEFINE f == NewFrame(s)
      <3>1. f \in FrameType /\ FrameHolds(f)
        BY NewFrameHolds
      <3> HIDE DEF f
      <3>2. /\ gs \in Seq(FrameType) /\ Len(gs) = m + 1 /\ m \in Nat /\ DOMAIN gs = 1..m + 1
            /\ DOMAIN fs = 1..m
            /\ \A i \in 1..m : gs[i] = fs[i]
            /\ gs[m + 1] = f
        BY <3>1, <2>2, <1>1, AppendIs DEF f
      <3>3. \A i \in 1..m + 1 : FrameHolds(gs[i])
        <4>1. TAKE i \in 1..m + 1
        <4>2. CASE i \in 1..m
          BY <4>2, <3>2, <1>1
        <4>3. CASE i = m + 1
          BY <4>3, <3>1, <3>2
        <4>. QED
          BY <3>2, <4>2, <4>3
      <3> HIDE DEF m
      <3>. QED
        BY <3>2, <3>3
    <2>. QED
      BY <2>1, <2>2
  <1>3. /\ c \in CallTypes /\ c.frame = Len(gs) /\ c.at = "start" /\ FrameOK(c.dying)
    BY <1>2, ActivationIs, Zenon
  <1> HIDE DEF c
  <1> DEFINE l == Len(gs)
  <1> HIDE DEF l, m
  <1>12. /\ m \in Nat /\ l \in Nat \ {0} /\ m <= l /\ (l # m => l = m + 1)
         /\ c.frame = l
    BY <1>2, <1>3, Zenon DEF l
  <1>13. st2 = "running" => l = m + 1
    BY <1>2 DEF l
  <1>14. DOMAIN gs = 1..l /\ DOMAIN fs = 1..m
    BY <1>2, Zenon DEF l
  <1>4. /\ ds \in Seq(CallTypes) /\ Len(ds) = n + 1 /\ n \in Nat /\ DOMAIN ds = 1..n + 1 /\ DOMAIN cs = 1..n
        /\ ds[n + 1] = c /\ \A k \in 1..n : ds[k] = cs[k]
    BY <1>1, <1>3, AppendIs
  <1> HIDE DEF ds, n, m
  <1>5. \A k \in 1..n : cs[k].frame \in Nat /\ cs[k].frame <= m
    <2>1. TAKE k \in 1..n
    <2>2. k \in DOMAIN cs /\ cs[k] \in CallTypes
      BY <1>1, <1>4
    <2>3. cs[k].frame \in Nat
      BY <2>2, CallIs
    <2>4. cs[k].frame <= m
      BY <2>2 DEF StackOK, Owned, m
    <2>. QED
      BY <2>3, <2>4
  <1>6. \A k \in 1..n + 1 : k = n + 1 \/ k \in 1..n
    BY <1>4
  <1>7. TypedStack(st2, x, gs, ds)
    <2>1. \A k \in DOMAIN ds : FrameOK(ds[k].dying)
      BY <1>1, <1>3, <1>4, <1>6
    <2>. QED
      BY <2>1, <1>1, <1>2, <1>4, Zenon DEF TypedStack
  <1>8. Awaits(ds)
    BY <1>4, <1>6 DEF Awaits
  <1>9. Owned(st2, gs, ds)
    <2>1. \A k \in DOMAIN ds : ds[k].frame <= Len(gs)
      <3>1. SUFFICES ASSUME NEW k \in DOMAIN ds PROVE ds[k].frame <= l
        BY DEF l
      <3>2. CASE k = n + 1
        BY <3>2, <1>4, <1>12
      <3>3. CASE k \in 1..n
        <4>1. ds[k] = cs[k] /\ cs[k].frame \in Nat /\ cs[k].frame <= m
          BY <3>3, <1>4, <1>5
        <4>2. \A i \in Nat : i <= m => i <= l
          BY <1>12
        <4>. QED
          BY <4>1, <4>2
      <3>. QED
        BY <3>2, <3>3, <1>4, <1>6
    <2>2. \A i \in DOMAIN gs : \E k \in DOMAIN ds : ds[k].frame = i
      <3>1. TAKE i \in DOMAIN gs
      <3>2. CASE i = Len(gs)
        BY <3>2, <1>3, <1>4
      <3>3. CASE i # Len(gs)
        <4>1. i \in DOMAIN fs
          <5>1. i # l /\ i \in 1..l
            BY <3>3, <1>14 DEF l
          <5>2. i \in 1..m
            BY <5>1, <1>12
          <5>. QED
            BY <5>2, <1>14
        <4>2. PICK k \in DOMAIN cs : cs[k].frame = i
          BY <4>1 DEF StackOK, Owned
        <4>3. k \in DOMAIN ds /\ ds[k] = cs[k]
          BY <1>4
        <4>. QED
          BY <4>2, <4>3
      <3>. QED
        BY <3>2, <3>3
    <2>3. ASSUME NEW i \in DOMAIN ds, NEW j \in DOMAIN ds, i < j, ds[j].frame # 0
          PROVE  /\ ds[i].frame <= ds[j].frame
                 /\ st2 = "running" \/ ds[j].at # "start" => ds[i].frame < ds[j].frame
      <3>1. i \in 1..n /\ ds[i] = cs[i]
        BY <2>3, <1>4
      <3>2. CASE j = n + 1
        <4>1. ds[j].frame = l /\ ds[j].at = "start"
          BY <3>2, <1>3, <1>4, <1>12
        <4>2. cs[i].frame \in Nat /\ cs[i].frame <= m
          BY <3>1, <1>5
        <4>3. st2 = "running" => cs[i].frame < l
          BY <4>2, <1>12, <1>13
        <4>4. cs[i].frame <= l
          BY <4>2, <1>12
        <4>. QED
          BY <3>1, <4>1, <4>3, <4>4
      <3>3. CASE j \in 1..n
        <4>1. ds[j] = cs[j] /\ cs[j].at = "call" /\ j \in DOMAIN cs /\ i \in DOMAIN cs
          BY <3>1, <3>3, <1>4
        <4>2. cs[i].frame < cs[j].frame /\ cs[i].frame <= cs[j].frame
          BY <2>3, <4>1 DEF StackOK, Owned
        <4>. QED
          BY <3>1, <4>1, <4>2
      <3>. QED
        BY <3>2, <3>3, <1>4, <1>6
    <2>. QED
      BY <2>1, <2>2, <2>3 DEF Owned
  <1>10. Stage(gs, ds)
    <2>1. ASSUME NEW k \in 1..n + 1
          PROVE  /\ ds[k].at \in {"start", "loop"} => ds[k].frame = Len(gs) /\ ds[k].frame # 0
                 /\ ds[k].at = "free" => ds[k].frame = 0
                 /\ ds[k].at \in {"loop", "call"} => ds[k].frame <= MaxDepth
      <3>1. CASE k = n + 1
        BY <3>1, <1>2, <1>3, <1>4, Zenon
      <3>2. CASE k \in 1..n
        <4>1. cs[k].at = "call" /\ cs[k].frame <= MaxDepth /\ ds[k] = cs[k]
          BY <3>2, <1>4 DEF StackOK, Stage
        <4>. QED
          BY <4>1
      <3>. QED
        BY <3>1, <3>2, <1>6
    <2>. QED
      BY <2>1, <1>4 DEF Stage
  <1>11. Returning(st2, gs, ds)
    <2>1. SUFFICES ASSUME NEW k \in 1..n + 1, ds[k].at = "call", ds[k].frame # 0
                   PROVE  ReturnsTo(st2, gs[ds[k].frame])
      BY <1>4 DEF Returning
    <2>2. k \in 1..n /\ ds[k] = cs[k]
      <3>1. k # n + 1
        BY <2>1, <1>3, <1>4
      <3>2. k \in 1..n
        BY <3>1, <1>6
      <3>. QED
        BY <3>2, <1>4
    <2>3. cs[k].frame \in 1..m
      BY <2>1, <2>2, <1>5, <1>12
    <2>4. ReturnsTo(st, fs[cs[k].frame])
      BY <2>1, <2>2, <1>4 DEF StackOK, Returning
    <2>. QED
      <3>1. gs[ds[k].frame] = fs[cs[k].frame]
        BY <2>2, <2>3, <1>2, Zenon
      <3>. QED
        BY <3>1, <2>4 DEF ReturnsTo
  <1>. QED
    BY <1>7, <1>8, <1>9, <1>10, <1>11 DEF StackOK, ds, c

-----------------------------------------------------------------------------
(* The steps of the interpreter *)

LEMMA FrontAndLast ==
    ASSUME NEW S, NEW q \in Seq(S), q # <<>>
    PROVE  q = Append(Front(q), Last(q))
  <1> DEFINE r == Append(Front(q), Last(q))
  <1>1. Last(q) \in S /\ Last(q) = q[Len(q)] /\ Len(q) \in Nat \ {0}
    BY LastIs
  <1>2. /\ r \in Seq(S) /\ Len(r) = Len(q)
        /\ \A i \in 1..Len(q) : r[i] = IF i = Len(q) THEN Last(q) ELSE q[i]
    BY <1>1, ReplaceIs
  <1> HIDE DEF r
  <1>3. \A i \in 1..Len(q) : r[i] = q[i]
    BY <1>1, <1>2
  <1>4. r = q
    BY <1>2, <1>3, SeqEqual
  <1>. QED
    BY <1>4 DEF r

LEMMA ImageIsFinite ==
    ASSUME NEW f, IsFiniteSet(DOMAIN f), f = [i \in DOMAIN f |-> f[i]]
    PROVE  IsFiniteSet({f[i] : i \in DOMAIN f})
  <1> DEFINE T == {f[i] : i \in DOMAIN f}
  <1>1. f \in Surjection(DOMAIN f, T)
    BY DEF Surjection
  <1>. QED
    BY <1>1, FS_Surjection

\* An exception that is thrown is a number of its own.
LEMMA NewExceptionIs ==
    ASSUME exception \in Nat, frames \in Seq(FrameType)
    PROVE  NewException \in Nat \ {0}
  <1>1. DOMAIN frames = 1..Len(frames) /\ Len(frames) \in Nat
    OBVIOUS
  <1>2. \A i \in DOMAIN frames : IsFiniteSet(Held(frames[i]))
    <2>1. TAKE i \in DOMAIN frames
    <2> DEFINE bs == frames[i].blocks
               h == [k \in DOMAIN bs |-> bs[k].held]
               H == {h[k] : k \in DOMAIN h}
    <2>2. bs \in Seq(BlockType)
      <3>1. frames[i] \in FrameType
        BY <2>1
      <3>. QED
        BY <3>1 DEF FrameType
    <2>3. DOMAIN h = 1..Len(bs) /\ Len(bs) \in Nat
      BY <2>2
    <2>4. IsFiniteSet(DOMAIN h)
      BY <2>3, FS_Interval
    <2>5. H = {bs[k].held : k \in DOMAIN bs}
      OBVIOUS
    <2>6. Held(frames[i]) \subseteq H
      BY <2>5 DEF Held
    <2>7. h = [k \in DOMAIN h |-> h[k]]
      OBVIOUS
    <2> HIDE DEF h
    <2>8. IsFiniteSet(H)
      BY <2>4, <2>7, ImageIsFinite
    <2>. QED
      BY <2>6, <2>8, FS_Subset
  <1> DEFINE h == [i \in DOMAIN frames |-> Held(frames[i])]
             H == {h[i] : i \in DOMAIN h}
  <1>3. DOMAIN h = 1..Len(frames) /\ h = [k \in DOMAIN h |-> h[k]]
    BY <1>1
  <1>4. IsFiniteSet(DOMAIN h)
    BY <1>1, <1>3, FS_Interval
  <1>5. \A T \in H : IsFiniteSet(T)
    BY <1>2
  <1>6. H = {Held(frames[i]) : i \in DOMAIN frames}
    OBVIOUS
  <1> HIDE DEF h
  <1>7. IsFiniteSet(H)
    BY <1>3, <1>4, ImageIsFinite
  <1>8. IsFiniteSet(UNION H)
    BY <1>5, <1>7, FS_UNION
  <1>9. Live = ({exception} \ {0}) \cup UNION H
    BY <1>6 DEF Live
  <1>10. IsFiniteSet(Live)
    <2>1. IsFiniteSet({exception})
      BY FS_Singleton
    <2>2. IsFiniteSet({exception} \ {0})
      BY <2>1, FS_Subset
    <2>. QED
      BY <2>2, <1>8, <1>9, FS_Union
  <1> DEFINE n == Cardinality(Live)
  <1>11. n \in Nat
    BY <1>10, FS_CardinalityType
  <1>12. \E e \in 1..n + 1 : e \notin Live
    <2> SUFFICES ASSUME 1..n + 1 \subseteq Live PROVE FALSE
      OBVIOUS
    <2>1. Cardinality(1..n + 1) <= n
      BY <1>10, FS_Subset
    <2> HIDE DEF n
    <2>2. Cardinality(1..n + 1) = n + 1
      <3> DEFINE m == n + 1
      <3>1. m \in Nat /\ m >= 1 /\ m - 1 + 1 = m
        BY <1>11
      <3> HIDE DEF m
      <3>2. Cardinality(1..m) = m - 1 + 1
        BY <3>1, FS_Interval
      <3>. QED
        BY <3>1, <3>2 DEF m
    <2>. QED
      BY <2>1, <2>2, <1>11
  <1>13. NewException \in 1..n + 1
    BY <1>12 DEF NewException
  <1>. QED
    BY <1>11, <1>13

\* What is known where the loop of swfdec_as_context_run is.
LEMMA LoopFacts ==
    ASSUME ScriptInv, Active
    PROVE  /\ StackOK(state, exception, frames, calls) /\ calls \in Seq(CallTypes) /\ top \in CallTypes
           /\ frames \in Seq(FrameType) /\ exception \in Nat /\ late \in BOOLEAN
           /\ state \in {"running", "aborted"} /\ FrameOK(top.dying) /\ calls # <<>>
           /\ TopOK(state, exception, frame, top)
           /\ top.at \in {"start", "loop"} \/ top.frame # 0 =>
                /\ frames # <<>> /\ frame \in FrameType /\ FrameHolds(frame) /\ top.frame # 0
                /\ top.frame = Len(frames) /\ Len(frames) \in Nat \ {0} /\ frame = frames[Len(frames)]
           /\ InLoop => Loops(state, exception, frame) /\ top.frame <= MaxDepth
           /\ top.at = "free" => top.frame = 0
  <1>1. /\ StackOK(state, exception, frames, calls) /\ TopOK(state, exception, frame, top)
        /\ late \in BOOLEAN /\ calls # <<>> /\ state # "crashed"
    BY DEF ScriptInv, ContextOK, top, frame, Active
  <1>2. /\ calls \in Seq(CallTypes) /\ frames \in Seq(FrameType) /\ exception \in Nat
        /\ state \in {"running", "aborted"} /\ \A k \in DOMAIN calls : FrameOK(calls[k].dying)
    BY <1>1 DEF StackOK, TypedStack
  <1>3. top = calls[Len(calls)] /\ Len(calls) \in DOMAIN calls /\ top \in CallTypes
    BY <1>1, <1>2, LastIs DEF top
  <1>4. /\ top.at \in {"start", "loop"} => top.frame = Len(frames) /\ top.frame # 0
        /\ top.at = "free" => top.frame = 0
        /\ top.at \in {"loop", "call"} => top.frame <= MaxDepth
    BY <1>1, <1>3 DEF StackOK, Stage
  <1>5. ASSUME top.frame # 0
        PROVE  /\ frames # <<>> /\ frame \in FrameType /\ FrameHolds(frame)
               /\ top.frame = Len(frames) /\ Len(frames) \in Nat \ {0} /\ frame = frames[Len(frames)]
    <2>1. /\ Last(calls).frame = Len(frames) /\ frames # <<>> /\ Len(frames) \in Nat \ {0}
          /\ FrameHolds(Last(frames)) /\ Last(frames) = frames[Len(frames)]
      BY <1>1, <1>5, TopFrame DEF top
    <2>2. Last(frames) \in FrameType
      BY <2>1, <1>2, LastIs
    <2>. QED
      BY <2>1, <2>2 DEF top, frame
  <1>6. InLoop => Loops(state, exception, frame) /\ top.frame <= MaxDepth
    BY <1>1, <1>4 DEF InLoop, TopOK
  <1>7. FrameOK(top.dying)
    BY <1>2, <1>3
  <1>. QED
    BY <1>1, <1>2, <1>3, <1>4, <1>5, <1>6, <1>7

\* The loop goes on with the frame f and the activation c.
LEMMA LoopGoesOn ==
    ASSUME ScriptInv, Active, top.at \in {"loop", "call"}, top.frame # 0,
           NEW f \in FrameType, FrameHolds(f), NEW c \in CallTypes, FrameOK(c.dying),
           c.frame = top.frame, c.at = "loop", FrameBecomes(f), Becomes(c),
           state' \in {"running", "aborted"}, state' = "running" => state = "running",
           exception' \in Nat, late' \in BOOLEAN, Loops(state', exception', f)
    PROVE  ScriptInv'
  <1>1. /\ StackOK(state, exception, frames, calls) /\ calls \in Seq(CallTypes)
        /\ frames \in Seq(FrameType) /\ frames # <<>> /\ calls # <<>>
    BY LoopFacts
  <1>2. frames' = Append(Front(frames), f) /\ calls' = Append(Front(calls), c)
    BY DEF FrameBecomes, Becomes
  <1>3. Last(frames') = f
    BY <1>1, <1>2, ReplaceIs
  <1>4. Last(calls') = c
    BY <1>1, <1>2, ReplaceIs
  <1> DEFINE st2 == state'
             x2 == exception'
  <1>5. st2 \in {"running", "aborted"} /\ (st2 = "running" => state = "running") /\ x2 \in Nat
    OBVIOUS
  <1> HIDE DEF st2, x2
  <1>6. StackOK(st2, x2, Append(Front(frames), f), Append(Front(calls), c))
    BY <1>1, <1>5, GoesOn DEF top
  <1>7. StackOK(state', exception', frames', calls')
    BY <1>2, <1>6 DEF st2, x2
  <1>8. TopOK(state', exception', Last(frames'), Last(calls'))
    BY <1>3, <1>4 DEF TopOK
  <1>. QED
    BY <1>7, <1>8 DEF ScriptInv, ContextOK, CrashOK

\* The activation on top goes on in the same place.
LEMMA TopStays ==
    ASSUME ScriptInv, Active
    PROVE  calls = Append(Front(calls), top)
  BY LoopFacts, FrontAndLast DEF top

\* The activation on top looks, or not, for the end of blocks.
LEMMA TopChecks ==
    ASSUME ScriptInv, Active, NEW v \in BOOLEAN
    PROVE  /\ [top EXCEPT !.check = v] \in CallTypes /\ [top EXCEPT !.check = v].check = v
           /\ [top EXCEPT !.check = v].frame = top.frame /\ [top EXCEPT !.check = v].at = top.at
           /\ [top EXCEPT !.check = v].dying = top.dying
  BY LoopFacts DEF CallTypes

\* swfdec_as_context_return keeps the invariant.
LEMMA LeaveKeeps ==
    ASSUME ScriptInv, Active, top.at \in {"start", "loop"}, Leave,
           state' \in {"running", "aborted"}, state' = "running" => state = "running",
           exception' = exception, late' \in BOOLEAN,
           exception = 0 \/ state' # "running" \/ frame.blocks = <<>>
    PROVE  ScriptInv'
  <1>1. StackOK(state, exception, frames, calls) /\ calls # <<>>
    BY LoopFacts
  <1>2. frames' = Front(frames) /\ calls' = Left(frames, calls)
    BY DEF Leave, Left, frame
  <1> DEFINE st2 == state'
  <1>3. st2 \in {"running", "aborted"} /\ (st2 = "running" => state = "running")
    OBVIOUS
  <1> HIDE DEF st2
  <1>4. /\ StackOK(st2, exception, Front(frames), Left(frames, calls)) /\ Left(frames, calls) # <<>>
        /\ Last(Left(frames, calls)).at = "free" /\ Last(Left(frames, calls)).dying = Last(frames)
    BY <1>1, <1>3, LeavesStack DEF top
  <1>5. StackOK(state', exception', frames', calls')
    BY <1>2, <1>4 DEF st2
  <1>6. TopOK(state', exception', Last(frames'), Last(calls'))
    BY <1>2, <1>4 DEF TopOK, frame
  <1>. QED
    BY <1>5, <1>6 DEF ScriptInv, ContextOK, CrashOK

\* A call of a script, while the activations cs wait for it.
LEMMA EnterKeeps ==
    ASSUME NEW cs, StackOK(state, exception, frames, cs), \A k \in DOMAIN cs : cs[k].at = "call",
           NEW s \in Scripts, Enter(s, cs), state = "running", exception' = exception, late' \in BOOLEAN,
           frames # <<>> \/ cs = <<>>
    PROVE  ScriptInv'
  <1>1. /\ cs \in Seq(CallTypes) /\ frames \in Seq(FrameType) /\ exception \in Nat
    BY DEF StackOK, TypedStack
  <1>2. ASSUME NEW gs, NEW st \in {"running", "aborted"},
               \/ gs = Append(frames, NewFrame(s)) /\ st = "running"
               \/ gs = frames /\ frames # <<>> /\ st = "aborted",
               frames' = gs, state' = st, calls' = Append(cs, Activation(Len(gs)))
        PROVE  ScriptInv'
    <2> DEFINE c == Activation(Len(gs))
    <2>1. StackOK(st, exception, gs, Append(cs, c))
      BY <1>2, EntersStack
    <2>2. Len(gs) \in Nat
      <3>1. gs \in Seq(FrameType)
        BY <2>1 DEF StackOK, TypedStack
      <3>. QED
        BY <3>1
    <2>3. c \in CallTypes /\ c.at = "start" /\ c.check = TRUE
      BY <2>2, ActivationIs
    <2> HIDE DEF c
    <2>4. Last(Append(cs, c)) = c
      BY <2>3, <1>1, AppendIs
    <2>5. st = "running" => Last(gs).blocks = <<>> /\ Last(gs).pc = 1
      <3>1. SUFFICES ASSUME st = "running" PROVE Last(gs).blocks = <<>> /\ Last(gs).pc = 1
        OBVIOUS
      <3> DEFINE f == NewFrame(s)
      <3>2. f \in FrameType /\ f.blocks = <<>> /\ f.pc = 1
        BY NewFrameHolds
      <3>3. gs = Append(frames, f)
        BY <3>1, <1>2
      <3> HIDE DEF f
      <3>4. Last(gs) = f
        BY <3>2, <3>3, <1>1, AppendIs
      <3>. QED
        BY <3>2, <3>4
    <2>6. TopOK(st, exception, Last(gs), Last(Append(cs, c)))
      BY <2>3, <2>4, <2>5 DEF TopOK
    <2>7. frames' = gs /\ state' = st /\ calls' = Append(cs, c)
      BY <1>2 DEF c
    <2>. QED
      BY <1>2, <2>1, <2>6, <2>7 DEF ScriptInv, ContextOK, CrashOK
  <1>3. CASE /\ frames' = Append(frames, NewFrame(s)) /\ calls' = Append(cs, Activation(Len(frames) + 1))
             /\ state' = state
    <2> DEFINE gs == Append(frames, NewFrame(s))
    <2>1. Len(gs) = Len(frames) + 1
      BY <1>1, NewFrameHolds, AppendIs
    <2> HIDE DEF gs
    <2>2. frames' = gs /\ calls' = Append(cs, Activation(Len(gs))) /\ state' = "running"
      BY <2>1, <1>3 DEF gs
    <2>. QED
      BY <2>2, <1>2 DEF gs
  <1>4. CASE state' = "aborted" /\ frames' = frames /\ frames # <<>> /\ calls' = Append(cs, Activation(Len(frames)))
    BY <1>2, <1>4
  <1>5. CASE state' = "aborted" /\ frames' = frames /\ frames = <<>> /\ calls' = cs
    <2>1. cs = <<>>
      BY <1>5
    <2>2. StackOK("aborted", exception, frames, cs)
      <3>1. DOMAIN cs = {}
        BY <2>1
      <3>. QED
        BY <3>1 DEF StackOK, TypedStack, Awaits, Owned, Stage, Returning
    <2>. QED
      BY <2>1, <2>2, <1>5 DEF ScriptInv, ContextOK, CrashOK
  <1>6. \/ /\ frames' = Append(frames, NewFrame(s)) /\ calls' = Append(cs, Activation(Len(frames) + 1))
           /\ state' = state
        \/ /\ state' = "aborted" /\ frames' = frames
           /\ calls' = IF frames = <<>> THEN cs ELSE Append(cs, Activation(Len(frames)))
    BY DEF Enter
  <1>. QED
    BY <1>3, <1>4, <1>5, <1>6

LEMMA RunKeeps ==
    ASSUME ScriptInv, NEW s \in Scripts, Run(s)
    PROVE  ScriptInv'
  <1>1. /\ calls = <<>> /\ state = "running" /\ late' = FALSE /\ exception' = exception
        /\ Enter(s, <<>>)
    BY DEF Run
  <1>2. Enter(s, calls)
    BY <1>1, Zenon
  <1>3. StackOK(state, exception, frames, calls)
    BY DEF ScriptInv, ContextOK
  <1>4. \A k \in DOMAIN calls : calls[k].at = "call"
    BY <1>1
  <1>. QED
    BY <1>1, <1>2, <1>3, <1>4, EnterKeeps

LEMMA StartKeeps ==
    ASSUME ScriptInv, Start
    PROVE  ScriptInv'
  <1>1. Active /\ top.at = "start" /\ exception' = exception /\ late' = late
    BY DEF Start
  <1>2. /\ StackOK(state, exception, frames, calls) /\ calls \in Seq(CallTypes) /\ top \in CallTypes
        /\ frames # <<>> /\ FrameHolds(frame) /\ FrameOK(top.dying) /\ late \in BOOLEAN
        /\ TopOK(state, exception, frame, top) /\ top.frame # 0 /\ top.frame = Len(frames)
        /\ state \in {"running", "aborted"} /\ exception \in Nat /\ Len(frames) \in Nat /\ calls # <<>>
    BY <1>1, LoopFacts
  <1>3. CASE state = "aborted" \/ late \/ Len(frames) > MaxDepth
    <2>1. state' = "aborted" /\ Leave
      BY <1>3 DEF Start
    <2>. QED
      BY <2>1, <1>1, <1>2, LeaveKeeps
  <1>4. CASE ~(state = "aborted" \/ late \/ Len(frames) > MaxDepth)
    <2> DEFINE c == [top EXCEPT !.at = "loop"]
    <2>1. /\ calls' = Append(Front(calls), c) /\ state' = state /\ frames' = frames /\ state = "running"
      BY <1>2, <1>4 DEF Start, Becomes
    <2>2. c \in CallTypes /\ c.at = "loop" /\ c.frame = top.frame /\ c.dying = top.dying /\ c.check = top.check
      BY <1>2 DEF CallTypes
    <2>3. top.frame <= MaxDepth
      BY <1>2, <1>4, CodeAssumption
    <2> HIDE DEF c
    <2>4. StackOK(state, exception, frames, Append(Front(calls), c))
      BY <2>1, <2>2, <2>3, <1>1, <1>2, ReplacesTop DEF top
    <2>5. Last(calls') = c
      BY <2>1, <2>2, <1>1, <1>2, ReplaceIs
    <2>6. frame.blocks = <<>> /\ frame.pc = 1
      BY <2>1, <1>1, <1>2 DEF TopOK
    <2>7. Covered(frame, frame.pc)
      <3>1. frame.script \in Scripts
        BY <1>2 DEF FrameHolds
      <3>2. Guards(frame.script, 1) = {}
        BY <3>1, NoGuardAtBegin
      <3>. QED
        BY <3>2, <2>6 DEF Covered, Guarding
    <2>8. TopOK(state', exception', Last(frames'), Last(calls'))
      BY <2>1, <2>2, <2>5, <2>6, <2>7, <1>1 DEF TopOK, Loops, frame
    <2>. QED
      BY <2>1, <2>4, <2>8, <1>1, <1>2 DEF ScriptInv, ContextOK, CrashOK
  <1>. QED
    BY <1>3, <1>4

LEMMA ResumeKeeps ==
    ASSUME ScriptInv, Resume
    PROVE  ScriptInv'
  <1>1. /\ Active /\ top.at = "call" /\ state' = state /\ exception' = exception /\ late' = late
    BY DEF Resume
  <1>2. /\ StackOK(state, exception, frames, calls) /\ calls \in Seq(CallTypes) /\ top \in CallTypes
        /\ FrameOK(top.dying) /\ late \in BOOLEAN /\ state \in {"running", "aborted"} /\ exception \in Nat
        /\ calls # <<>>
    BY <1>1, LoopFacts
  <1>3. CASE top.frame = 0
    <2>1. calls' = Front(calls) /\ frames' = frames
      BY <1>3 DEF Resume
    <2>2. /\ StackOK(state, exception, frames, Front(calls))
          /\ Front(calls) # <<>> => Last(Front(calls)).at = "call"
      BY <1>1, <1>2, <1>3, PopsTop DEF top
    <2>3. calls' # <<>> => TopOK(state', exception', Last(frames'), Last(calls'))
      BY <2>1, <2>2 DEF TopOK
    <2>. QED
      BY <2>1, <2>2, <2>3, <1>1, <1>2 DEF ScriptInv, ContextOK, CrashOK
  <1>4. CASE top.frame # 0
    <2> DEFINE c == [top EXCEPT !.at = "loop", !.check = TRUE]
               f == [frame EXCEPT !.pc = @ + 1]
    <2>1. Becomes(c) /\ FrameBecomes(f)
      BY <1>4 DEF Resume
    <2>2. /\ frame \in FrameType /\ FrameHolds(frame) /\ top.frame = Len(frames)
          /\ frame = frames[Len(frames)]
      BY <1>1, <1>4, LoopFacts
    <2>3. c \in CallTypes /\ c.at = "loop" /\ c.frame = top.frame /\ c.dying = top.dying /\ c.check = TRUE
      BY <1>2 DEF CallTypes
    <2>4. ReturnsTo(state, frame)
      <3>1. top = calls[Len(calls)] /\ Len(calls) \in DOMAIN calls
        BY <1>1, <1>2, LastIs DEF top
      <3>2. ReturnsTo(state, frames[top.frame])
        BY <3>1, <1>1, <1>2, <1>4 DEF StackOK, Returning
      <3>. QED
        BY <3>2, <2>2
    <2>5. f \in FrameType /\ FrameHolds(f) /\ f.pc = frame.pc + 1 /\ \A pc : Covered(f, pc) <=> Covered(frame, pc)
      <3> DEFINE to == frame.pc + 1
      <3>1. to \in Nat
        BY <2>2 DEF FrameType
      <3>2. f = [frame EXCEPT !.pc = to]
        OBVIOUS
      <3> HIDE DEF f, to
      <3>3. f \in FrameType /\ FrameHolds(f) /\ f.pc = to /\ \A pc : Covered(f, pc) <=> Covered(frame, pc)
        BY <3>1, <3>2, <2>2, PcMoves
      <3>. QED
        BY <3>3 DEF to
    <2> HIDE DEF c, f
    <2>6. Loops(state', exception', f)
      BY <2>4, <2>5, <1>1 DEF Loops, ReturnsTo
    <2>. QED
      BY <2>1, <2>3, <2>5, <2>6, <1>1, <1>2, <1>4, LoopGoesOn
  <1>. QED
    BY <1>3, <1>4

LEMMA FreeKeeps ==
    ASSUME ScriptInv, Free
    PROVE  ScriptInv'
  <1>1. /\ Active /\ top.at = "free" /\ state' = state /\ frames' = frames /\ late' = late
    BY DEF Free
  <1>2. /\ StackOK(state, exception, frames, calls) /\ calls \in Seq(CallTypes) /\ top \in CallTypes
        /\ FrameOK(top.dying) /\ late \in BOOLEAN /\ exception \in Nat /\ top.frame = 0
        /\ calls # <<>> /\ state \in {"running", "aborted"}
        /\ TopOK(state, exception, frame, top)
    BY <1>1, LoopFacts
  <1>3. CASE top.dying.blocks = <<>>
    <2>1. calls' = Front(calls) /\ exception' = exception
      BY <1>3 DEF Free
    <2>2. /\ StackOK(state, exception, frames, Front(calls))
          /\ Front(calls) # <<>> => Last(Front(calls)).at = "call"
      BY <1>1, <1>2, <1>3, PopsTop DEF top
    <2>3. calls' # <<>> => TopOK(state', exception', Last(frames'), Last(calls'))
      BY <2>1, <2>2 DEF TopOK
    <2>. QED
      BY <2>1, <2>2, <2>3, <1>1, <1>2 DEF ScriptInv, ContextOK, CrashOK
  <1>4. CASE top.dying.blocks # <<>>
    <2> DEFINE a == PopBlock(top.dying, exception, FALSE)
               g == a.frame
               c == [top EXCEPT !.dying = g]
    <2>1. calls' = Append(Front(calls), c) /\ exception' = a.exception
      BY <1>4 DEF Free, Becomes
    <2>2. Ends(top.dying, a, exception, FALSE)
      BY <1>2, <1>4, PopIs
    <2> HIDE DEF a
    <2>3. FrameOK(g) /\ a.exception \in Nat /\ g \in FrameType
      BY <2>2 DEF Ends, FrameOK
    <2>4. exception = 0 => a.exception = 0
      BY <2>2 DEF Ends, Gone, Catches, Retains
    <2> HIDE DEF g
    <2>5. /\ c \in CallTypes /\ c.at = "free" /\ c.frame = 0 /\ c.dying = g
      BY <1>1, <1>2, <2>3 DEF CallTypes
    <2> HIDE DEF c
    <2>6. StackOK(state, a.exception, frames, Append(Front(calls), c))
      BY <2>3, <2>5, <1>1, <1>2, ReplacesTop DEF top
    <2>7. Last(calls') = c
      BY <2>1, <2>5, <1>1, <1>2, ReplaceIs
    <2>8. TopOK(state', exception', Last(frames'), Last(calls'))
      <3>1. a.exception = 0 \/ state # "running"
        BY <2>4, <1>1, <1>2, <1>4 DEF TopOK
      <3>. QED
        BY <3>1, <2>1, <2>5, <2>7, <1>1 DEF TopOK
    <2>. QED
      BY <2>1, <2>6, <2>8, <1>1, <1>2 DEF ScriptInv, ContextOK, CrashOK
  <1>. QED
    BY <1>3, <1>4

LEMMA ErrorKeeps ==
    ASSUME ScriptInv, Error
    PROVE  ScriptInv'
  <1>1. /\ Active /\ top.at = "loop" /\ Leave /\ state = "aborted" /\ state' = state
        /\ exception' = exception /\ late' = late
    BY DEF Error, InLoop
  <1>2. late \in BOOLEAN
    BY <1>1, LoopFacts
  <1>. QED
    BY <1>1, <1>2, LeaveKeeps

LEMMA FinishKeeps ==
    ASSUME ScriptInv, Finish \/ OutOfRange \/ DoReturn
    PROVE  ScriptInv'
  <1>1. /\ Active /\ top.at = "loop" /\ Leave /\ exception = 0 /\ state' = state
        /\ exception' = exception /\ late' = late
    BY DEF Finish, OutOfRange, DoReturn, At, Decoding, Running, InLoop
  <1>2. late \in BOOLEAN /\ state \in {"running", "aborted"}
    BY <1>1, LoopFacts
  <1>. QED
    BY <1>1, <1>2, LeaveKeeps

LEMMA HandleExceptionKeeps ==
    ASSUME ScriptInv, HandleException
    PROVE  ScriptInv'
  <1>1. /\ Active /\ top.at = "loop" /\ state = "running" /\ exception # 0 /\ state' = state
        /\ late' = late /\ InLoop
    BY DEF HandleException, InLoop
  <1>2. /\ calls \in Seq(CallTypes) /\ top \in CallTypes /\ FrameOK(top.dying) /\ late \in BOOLEAN
        /\ exception \in Nat /\ frame \in FrameType /\ FrameHolds(frame) /\ top.frame # 0
    BY <1>1, LoopFacts
  <1>3. CASE frame.blocks = <<>>
    BY <1>1, <1>2, <1>3, LeaveKeeps DEF HandleException
  <1>4. CASE frame.blocks # <<>>
    <2> DEFINE a == PopBlock(frame, exception, TRUE)
               f == a.frame
    <2>1. FrameBecomes(f) /\ exception' = a.exception /\ calls' = calls
      BY <1>4 DEF HandleException
    <2>2. FrameHolds(f) /\ (a.exception = 0 => Covered(f, f.pc))
      <3> DEFINE x == exception
      <3>1. x \in Nat \ {0} /\ TRUE \in BOOLEAN
        BY <1>1, <1>2
      <3> HIDE DEF x
      <3>2. /\ FrameHolds(PopBlock(frame, x, TRUE).frame)
            /\ PopBlock(frame, x, TRUE).exception = 0
                 => Covered(PopBlock(frame, x, TRUE).frame, PopBlock(frame, x, TRUE).frame.pc)
        BY <3>1, <1>2, <1>4, HandlingKeepsCovered
      <3>. QED
        BY <3>2 DEF x
    <2>3. a.exception \in Nat
      <3>1. Ends(frame, a, exception, TRUE)
        BY <1>2, <1>4, PopIs DEF FrameHolds
      <3>. QED
        BY <3>1 DEF Ends
    <2> HIDE DEF a, f
    <2>4. f \in FrameType
      BY <2>2 DEF FrameHolds, FrameOK
    <2>6. Loops(state', exception', f)
      BY <2>1, <2>2 DEF Loops
    <2>7. Becomes(top)
      BY <2>1, <1>1, TopStays DEF Becomes
    <2>. QED
      BY <2>1, <2>2, <2>3, <2>4, <2>6, <2>7, <1>1, <1>2, LoopGoesOn
  <1>. QED
    BY <1>3, <1>4

LEMMA ExitBlockKeeps ==
    ASSUME ScriptInv, ExitBlock
    PROVE  ScriptInv'
  <1>1. /\ Active /\ top.at = "loop" /\ state = "running" /\ exception = 0 /\ state' = state
        /\ late' = late /\ InLoop /\ ~Inside(frame) /\ calls' = calls
    BY DEF ExitBlock, Decoding, Running, InLoop, Leaves
  <1>2. /\ calls \in Seq(CallTypes) /\ top \in CallTypes /\ FrameOK(top.dying) /\ late \in BOOLEAN
        /\ frame \in FrameType /\ FrameHolds(frame) /\ top.frame # 0
        /\ Loops(state, exception, frame)
    BY <1>1, LoopFacts
  <1>3. frame.blocks # <<>>
    BY <1>1 DEF Inside
  <1> DEFINE a == PopBlock(frame, 0, TRUE)
             f == a.frame
  <1>4. FrameBecomes(f) /\ exception' = a.exception
    BY DEF ExitBlock
  <1>5. Covered(frame, frame.pc)
    BY <1>1, <1>2 DEF Loops
  <1>6. FrameHolds(f) /\ Covered(f, f.pc)
    BY <1>1, <1>2, <1>5, ExitKeepsCovered
  <1>7. a.exception \in Nat
    <2>1. Ends(frame, a, 0, TRUE)
      BY <1>2, <1>3, PopIs DEF FrameHolds
    <2>. QED
      BY <2>1 DEF Ends
  <1> HIDE DEF a, f
  <1>8. f \in FrameType
    BY <1>6 DEF FrameHolds, FrameOK
  <1>9. Loops(state', exception', f)
    BY <1>6 DEF Loops
  <1>10. Becomes(top)
    BY <1>1, TopStays DEF Becomes
  <1>. QED
    BY <1>1, <1>2, <1>4, <1>6, <1>7, <1>8, <1>9, <1>10, LoopGoesOn

\* An object that is not where its block asserts it was left over, or another.
LEMMA MissesIs ==
    ASSUME NEW f, FrameOK(f), f.blocks # <<>>, Misses(f)
    PROVE  LeftIn(f.rejected)
  <1> DEFINE left == LeftIn(f.rejected)
             n == f.scope
             bs == f.blocks
  <1>1. f \in FrameType /\ Chain(bs, n, left)
    BY DEF FrameOK
  <1>2. bs \in Seq(BlockType) /\ n \in Nat
    BY <1>1 DEF FrameType
  <1> HIDE DEF left, n, bs
  <1>3. bs # <<>>
    BY DEF bs
  <1>4. ~left => n = Last(bs).depth
    BY <1>1, <1>2, <1>3, ChainPop
  <1>5. Last(bs).depth # n
    BY DEF Misses, bs, n
  <1>. QED
    BY <1>4, <1>5 DEF left

LEMMA AssertionFailsKeeps ==
    ASSUME ScriptInv, AssertionFails
    PROVE  ScriptInv'
  <1>1. /\ Active /\ state' = "crashed" /\ exception' = exception /\ frames' = frames
        /\ calls' = calls /\ late' = late
    BY DEF AssertionFails, Decoding, Running, InLoop
  <1>2. /\ StackOK(state, exception, frames, calls) /\ calls \in Seq(CallTypes)
        /\ frames \in Seq(FrameType) /\ late \in BOOLEAN /\ FrameOK(top.dying) /\ calls # <<>>
    BY <1>1, LoopFacts
  <1>3. StackOK("crashed", exception, frames, calls)
    <2>1. TypedStack("crashed", exception, frames, calls)
      BY <1>2 DEF StackOK, TypedStack
    <2>2. Owned("crashed", frames, calls)
      BY <1>2 DEF StackOK, Owned
    <2>3. Returning("crashed", frames, calls)
      BY DEF Returning, ReturnsTo
    <2>. QED
      BY <2>1, <2>2, <2>3, <1>2 DEF StackOK
  <1>4. TopOK("crashed", exception, frame, top)
    BY DEF TopOK, Loops
  <1>5. \E f \in Range(frames) \cup {c.dying : c \in Range(calls)} : LeftIn(f.rejected)
    <2>1. top \in Range(calls)
      BY <1>2, LastIs DEF top, Range
    <2>2. CASE top.at = "free" /\ top.dying.blocks # <<>> /\ Misses(top.dying)
      BY <2>1, <2>2, <1>2, MissesIs
    <2>3. CASE InLoop /\ Misses(frame) /\ frame.blocks # <<>>
      <3>1. FrameHolds(frame) /\ frames # <<>>
        BY <2>3, LoopFacts DEF InLoop
      <3>2. frame \in Range(frames)
        BY <3>1, <1>2, LastIs DEF frame, Range
      <3>3. LeftIn(frame.rejected)
        BY <2>3, <3>1, MissesIs DEF FrameHolds
      <3>. QED
        BY <3>2, <3>3
    <2>4. Leaves => frame.blocks # <<>>
      BY DEF Leaves, Inside
    <2>5. Decoding => InLoop
      BY DEF Decoding, Running
    <2>. QED
      BY <2>2, <2>3, <2>4, <2>5 DEF AssertionFails
  <1>. QED
    BY <1>1, <1>2, <1>3, <1>4, <1>5 DEF ScriptInv, ContextOK, CrashOK, top, frame

\* What is known where an action is executed.
LEMMA ActionFacts ==
    ASSUME ScriptInv, NEW a, At(a)
    PROVE  /\ Active /\ calls # <<>> /\ top.at = "loop" /\ InLoop /\ state = "running" /\ exception = 0
           /\ frame.pc \in DOMAIN Code[frame.script] /\ a \in Code[frame.script][frame.pc]
           /\ StackOK(state, exception, frames, calls) /\ calls \in Seq(CallTypes) /\ top \in CallTypes
           /\ frames \in Seq(FrameType) /\ frames # <<>> /\ late \in BOOLEAN
           /\ FrameOK(top.dying) /\ frame \in FrameType /\ FrameHolds(frame)
           /\ top.frame # 0 /\ top.frame = Len(frames) /\ frame = frames[Len(frames)]
           /\ top.frame <= MaxDepth /\ Covered(frame, frame.pc)
           /\ frame.pc \in Nat \ {0} /\ frame.pc + 1 \in Nat /\ frame.script \in Scripts
           /\ frame.scope \in Nat
  <1>1. /\ Active /\ calls # <<>> /\ top.at = "loop" /\ InLoop /\ state = "running" /\ exception = 0
        /\ frame.pc \in DOMAIN Code[frame.script] /\ a \in Code[frame.script][frame.pc]
    BY DEF At, Decoding, Running, InLoop, Active
  <1>2. /\ StackOK(state, exception, frames, calls) /\ calls \in Seq(CallTypes) /\ top \in CallTypes
        /\ frames \in Seq(FrameType) /\ frames # <<>> /\ late \in BOOLEAN
        /\ FrameOK(top.dying) /\ frame \in FrameType /\ FrameHolds(frame)
        /\ top.frame # 0 /\ top.frame = Len(frames) /\ frame = frames[Len(frames)]
        /\ top.frame <= MaxDepth /\ Loops(state, exception, frame)
    BY <1>1, LoopFacts
  <1>3. Covered(frame, frame.pc)
    BY <1>1, <1>2 DEF Loops
  <1>4. frame.pc \in Nat \ {0} /\ frame.pc + 1 \in Nat /\ frame.script \in Scripts
    BY <1>1, <1>2, AtAction
  <1>5. frame.scope \in Nat
    BY <1>2 DEF FrameType
  <1>. QED
    BY <1>1, <1>2, <1>3, <1>4, <1>5

\* The loop goes on with the frame g, and looks for the end of its blocks or not.
LEMMA GoesOnChecked ==
    ASSUME ScriptInv, Active, top.at = "loop", NEW v \in BOOLEAN,
           NEW g \in FrameType, FrameHolds(g), FrameBecomes(g), Becomes([top EXCEPT !.check = v]),
           late' = late, state' \in {"running", "aborted"}, state' = "running" => state = "running",
           exception' \in Nat, exception' = 0 => Covered(g, g.pc)
    PROVE  ScriptInv'
  <1> DEFINE c == [top EXCEPT !.check = v]
  <1>1. /\ c \in CallTypes /\ c.check = v /\ c.frame = top.frame /\ c.at = top.at /\ c.dying = top.dying
    BY TopChecks
  <1>2. FrameOK(top.dying) /\ top.frame # 0 /\ late \in BOOLEAN
    BY LoopFacts
  <1>3. Becomes(c)
    OBVIOUS
  <1> HIDE DEF c
  <1>4. Loops(state', exception', g)
    BY DEF Loops
  <1>. QED
    BY <1>1, <1>2, <1>3, <1>4, LoopGoesOn

\* The code goes on at the address to.
LEMMA GoesTo ==
    ASSUME ScriptInv, NEW a, At(a), NEW v \in BOOLEAN, NEW to \in Nat,
           FrameBecomes([frame EXCEPT !.pc = to]), Becomes([top EXCEPT !.check = v]), late' = late,
           state' \in {"running", "aborted"}, exception' \in Nat, exception' = 0 => Covered(frame, to)
    PROVE  ScriptInv'
  <1> DEFINE g == [frame EXCEPT !.pc = to]
  <1>1. Active /\ top.at = "loop" /\ state = "running" /\ FrameHolds(frame)
    BY ActionFacts
  <1>2. g \in FrameType /\ FrameHolds(g) /\ g.pc = to /\ (Covered(g, to) <=> Covered(frame, to))
    BY <1>1, PcMoves
  <1>3. FrameBecomes(g)
    OBVIOUS
  <1> HIDE DEF g
  <1>4. exception' = 0 => Covered(g, g.pc)
    BY <1>2
  <1>. QED
    BY <1>1, <1>2, <1>3, <1>4, GoesOnChecked

\* The action is passed.
LEMMA Passes ==
    ASSUME ScriptInv, NEW a, At(a), Next1(frame), state' \in {"running", "aborted"}, exception' \in Nat,
           exception' = 0 => Covered(frame, frame.pc + 1)
    PROVE  ScriptInv'
  <1> DEFINE to == frame.pc + 1
  <1>1. to \in Nat
    BY ActionFacts
  <1>2. FrameBecomes([frame EXCEPT !.pc = to]) /\ Becomes([top EXCEPT !.check = TRUE]) /\ late' = late
    BY DEF Next1
  <1>3. exception' = 0 => Covered(frame, to)
    OBVIOUS
  <1> HIDE DEF to
  <1>. QED
    BY <1>1, <1>2, <1>3, GoesTo

LEMMA PassesCovered ==
    ASSUME ScriptInv, NEW a, At(a), frame.pc + 1 \in Follows(frame.pc, a),
           ~HasBlock("try", a) /\ ~HasBlock("with", a)
    PROVE  Covered(frame, frame.pc + 1)
  <1>1. /\ FrameHolds(frame) /\ Covered(frame, frame.pc) /\ a \in Code[frame.script][frame.pc]
        /\ frame.pc \in DOMAIN Code[frame.script]
    BY ActionFacts
  <1>. QED
    BY <1>1, FollowsCovered

LEMMA DoPlainKeeps ==
    ASSUME ScriptInv, DoPlain
    PROVE  ScriptInv'
  <1>1. At(Plain) /\ Next1(frame) /\ state' \in {"running", "aborted"} /\ exception' = exception
    BY DEF DoPlain
  <1>2. exception = 0
    BY <1>1, ActionFacts
  <1>3. frame.pc + 1 \in Follows(frame.pc, Plain) /\ ~HasBlock("try", Plain) /\ ~HasBlock("with", Plain)
    BY DEF Follows, HasBlock, Plain
  <1>4. Covered(frame, frame.pc + 1)
    BY <1>1, <1>3, PassesCovered
  <1>. QED
    BY <1>1, <1>2, <1>4, Passes

LEMMA DoThrowKeeps ==
    ASSUME ScriptInv, DoThrow
    PROVE  ScriptInv'
  <1>1. At(Throw) /\ Next1(frame) /\ state' = state /\ exception' = NewException
    BY DEF DoThrow
  <1>2. state = "running" /\ exception = 0 /\ frames \in Seq(FrameType)
    BY <1>1, ActionFacts
  <1>3. exception' \in Nat /\ exception' # 0
    BY <1>1, <1>2, NewExceptionIs
  <1>. QED
    BY <1>1, <1>2, <1>3, Passes

LEMMA DoCallKeeps ==
    ASSUME ScriptInv, NEW s \in Scripts, DoCall(s)
    PROVE  ScriptInv'
  <1> DEFINE a == Call(s)
             c == [top EXCEPT !.at = "call"]
             cs == Append(Front(calls), c)
  <1>1. At(a) /\ Enter(s, cs) /\ exception' = exception /\ late' = late
    BY DEF DoCall
  <1>2. frame.pc + 1 \in Follows(frame.pc, a) /\ ~HasBlock("try", a) /\ ~HasBlock("with", a)
    BY DEF Follows, HasBlock, Call
  <1> HIDE DEF a
  <1>3. /\ calls # <<>> /\ top.at = "loop" /\ state = "running" /\ exception = 0
        /\ StackOK(state, exception, frames, calls) /\ calls \in Seq(CallTypes) /\ top \in CallTypes
        /\ frames # <<>> /\ late \in BOOLEAN /\ FrameOK(top.dying)
        /\ top.frame # 0 /\ top.frame = Len(frames) /\ frame = frames[Len(frames)]
        /\ top.frame <= MaxDepth
    BY <1>1, ActionFacts
  <1>4. /\ c \in CallTypes /\ c.at = "call" /\ c.frame = top.frame /\ c.dying = top.dying
    BY <1>3 DEF CallTypes
  <1>5. ReturnsTo(state, frames[c.frame])
    <2>1. Covered(frame, frame.pc + 1)
      BY <1>1, <1>2, PassesCovered
    <2>. QED
      BY <2>1, <1>3, <1>4 DEF ReturnsTo
  <1> HIDE DEF c
  <1>6. StackOK(state, 0, frames, cs)
    BY <1>3, <1>4, <1>5, ReplacesTop DEF top
  <1>7. \A k \in DOMAIN cs : cs[k].at = "call"
    <2>1. /\ DOMAIN cs = 1..Len(calls) /\ DOMAIN calls = 1..Len(calls) /\ Len(calls) \in Nat
          /\ \A k \in 1..Len(calls) : cs[k] = IF k = Len(calls) THEN c ELSE calls[k]
      BY <1>3, <1>4, ReplaceIs
    <2> HIDE DEF cs
    <2>2. TAKE k \in DOMAIN cs
    <2>3. CASE k = Len(calls)
      BY <2>1, <2>3, <1>4
    <2>4. CASE k # Len(calls)
      <3>1. k \in 1..Len(calls) /\ Len(calls) \in Nat /\ DOMAIN calls = 1..Len(calls)
        BY <2>1, <2>2
      <3>2. k < Len(calls) /\ k \in DOMAIN calls
        BY <3>1, <2>4
      <3>3. calls[k].at = "call"
        BY <3>2, <1>3 DEF StackOK, Awaits
      <3>. QED
        BY <3>1, <3>3, <2>1, <2>4
    <2>. QED
      BY <2>3, <2>4
  <1> HIDE DEF cs
  <1>. QED
    BY <1>1, <1>3, <1>6, <1>7, EnterKeeps

LEMMA DoJumpKeeps ==
    ASSUME ScriptInv, NEW a, DoJump(a)
    PROVE  ScriptInv'
  <1> DEFINE to == a.to
  <1>1. At(a) /\ exception' = exception /\ a.op = "jump"
    BY DEF DoJump
  <1>2. /\ Follows(frame.pc, a) = {IF to = frame.pc THEN frame.pc + 1 ELSE to}
        /\ ~HasBlock("try", a) /\ ~HasBlock("with", a)
    BY <1>1 DEF Follows, HasBlock
  <1>3. /\ Active /\ top.at = "loop" /\ state = "running" /\ exception = 0
        /\ FrameHolds(frame) /\ frame.pc \in DOMAIN Code[frame.script] /\ a \in Code[frame.script][frame.pc]
        /\ Covered(frame, frame.pc) /\ late \in BOOLEAN /\ frame.script \in Scripts
    BY <1>1, ActionFacts
  <1>4. to \in Nat
    BY <1>1, <1>3, CodeIs DEF Decoded
  <1>5. CASE to = frame.pc
    <2>1. Next1(frame) /\ state' = state
      BY <1>5 DEF DoJump
    <2>2. Covered(frame, frame.pc + 1)
      BY <1>1, <1>2, <1>5, PassesCovered
    <2>. QED
      BY <2>1, <2>2, <1>1, <1>3, Passes
  <1>6. CASE to # frame.pc /\ TooLate(to)
    <2>1. state' = "aborted" /\ Leave /\ late' = late
      BY <1>6 DEF DoJump
    <2>. QED
      BY <2>1, <1>1, <1>3, LeaveKeeps
  <1>7. CASE to # frame.pc /\ ~TooLate(to)
    <2>1. /\ FrameBecomes([frame EXCEPT !.pc = to]) /\ Becomes([top EXCEPT !.check = FALSE])
          /\ state' = state /\ late' = late
      BY <1>7 DEF DoJump
    <2>2. Covered(frame, to)
      BY <1>2, <1>3, <1>7, FollowsCovered
    <2> HIDE DEF to
    <2>. QED
      BY <2>1, <2>2, <1>1, <1>3, <1>4, GoesTo
  <1>. QED
    BY <1>5, <1>6, <1>7

LEMMA DoTryKeeps ==
    ASSUME ScriptInv, NEW a, DoTry(a)
    PROVE  ScriptInv'
  <1>1. a.op = "try" /\ At(a) /\ state' = state /\ exception' = exception
    BY DEF DoTry
  <1>2. /\ Active /\ top.at = "loop" /\ state = "running" /\ exception = 0
        /\ FrameHolds(frame) /\ frame.pc \in DOMAIN Code[frame.script] /\ a \in Code[frame.script][frame.pc]
        /\ Covered(frame, frame.pc) /\ frame \in FrameType /\ frame.scope \in Nat
    BY <1>1, ActionFacts
  <1>3. CASE a.catch = 0 /\ a.finally = 0
    <2>1. Next1(frame)
      BY <1>3 DEF DoTry
    <2>2. frame.pc + 1 \in Follows(frame.pc, a) /\ ~HasBlock("try", a) /\ ~HasBlock("with", a)
      BY <1>1, <1>3 DEF Follows, HasBlock
    <2>3. Covered(frame, frame.pc + 1)
      BY <2>2, <1>1, PassesCovered
    <2>. QED
      BY <2>1, <2>3, <1>1, <1>2, Passes
  <1>4. CASE ~(a.catch = 0 /\ a.finally = 0)
    <2> DEFINE q == frame.scope
               b == Block("try", frame.pc, frame.pc + 1, a.body, a, q, 0)
               g == Opened(frame, q, b)
    <2>1. Next1(PushBlock(frame, b))
      BY <1>4 DEF DoTry
    <2>2. HasBlock("try", a) /\ To("try", a) = a.body
      BY <1>1, <1>4 DEF HasBlock, To
    <2>3. b = Block("try", frame.pc, frame.pc + 1, To("try", a), a, q, 0)
      BY <2>2
    <2>4. [frame EXCEPT !.scope = q] = frame
      BY <1>2 DEF FrameType
    <2>5. FrameBecomes(g) /\ Becomes([top EXCEPT !.check = TRUE]) /\ late' = late
      <3>1. g = [PushBlock(frame, b) EXCEPT !.pc = @ + 1]
        BY <2>4 DEF Opened
      <3>. QED
        BY <3>1, <2>1 DEF Next1
    <2> HIDE DEF b
    <2>6. FrameHolds(g) /\ g \in FrameType /\ Covered(g, g.pc)
      BY <2>2, <2>3, <1>2, Opens
    <2> HIDE DEF g
    <2>. QED
      BY <2>5, <2>6, <1>1, <1>2, GoesOnChecked
  <1>. QED
    BY <1>3, <1>4

LEMMA DoWithKeeps ==
    ASSUME ScriptInv, NEW a, DoWith(a)
    PROVE  ScriptInv'
  <1> DEFINE end == a.end
  <1>1. At(a) /\ state' = state /\ exception' = exception /\ a.op = "with"
    BY DEF DoWith
  <1>2. /\ HasBlock("with", a) /\ To("with", a) = end /\ Follows(frame.pc, a) = {frame.pc + 1, end}
        /\ ~HasBlock("try", a)
    BY <1>1 DEF HasBlock, To, Follows
  <1>3. /\ Active /\ top.at = "loop" /\ state = "running" /\ exception = 0
        /\ FrameHolds(frame) /\ frame.pc \in DOMAIN Code[frame.script] /\ a \in Code[frame.script][frame.pc]
        /\ Covered(frame, frame.pc) /\ frame \in FrameType /\ frame.scope \in Nat
        /\ frame.script \in Scripts /\ frame.pc \in Nat
    BY <1>1, ActionFacts
  <1>4. end \in Nat
    BY <1>1, <1>3, CodeIs DEF Decoded
  <1> DEFINE q == frame.scope + 1
             b == Block("with", frame.pc, frame.pc + 1, end, a, q, 0)
             g == Opened(frame, q, b)
  <1>5. \/ FrameBecomes(g) /\ Becomes([top EXCEPT !.check = TRUE]) /\ late' = late
        \/ /\ FrameBecomes([frame EXCEPT !.pc = end]) /\ Becomes([top EXCEPT !.check = FALSE])
           /\ late' = late
    BY DEF DoWith, Next1, Opened
  <1>6. CASE FrameBecomes(g) /\ Becomes([top EXCEPT !.check = TRUE]) /\ late' = late
    <2>1. b = Block("with", frame.pc, frame.pc + 1, To("with", a), a, q, 0) /\ q \in Nat
      BY <1>2, <1>3
    <2>2. q = frame.scope + 1
      OBVIOUS
    <2> HIDE DEF b, q, end
    <2>3. FrameHolds(g) /\ g \in FrameType /\ Covered(g, g.pc)
      BY <2>1, <2>2, <1>2, <1>3, Opens
    <2> HIDE DEF g
    <2>. QED
      BY <2>3, <1>1, <1>3, <1>6, GoesOnChecked
  <1>7. CASE /\ FrameBecomes([frame EXCEPT !.pc = end]) /\ Becomes([top EXCEPT !.check = FALSE])
             /\ late' = late
    <2> DEFINE s == frame.script
               pc == frame.pc
    <2>1. SUFFICES ASSUME s \in Structured PROVE Guards(s, end) \subseteq Guards(s, pc)
      <3>1. Covered(frame, end)
        BY <2>1, <1>3 DEF Covered, Guarding
      <3> HIDE DEF end
      <3>. QED
        BY <3>1, <1>1, <1>3, <1>4, <1>7, GoesTo
    <2>2. Guarded(s, pc, a) /\ s \in Scripts /\ pc \in DOMAIN Code[s] /\ a \in Code[s][pc] /\ pc \in Nat
      BY <2>1, <1>3, CodeIs
    <2>3. CASE end # pc + 1
      BY <2>2, <2>3, <1>2 DEF Guarded
    <2>4. CASE end = pc + 1
      <3>1. SUFFICES ASSUME NEW i \in Guards(s, end), i \notin Guards(s, pc) PROVE FALSE
        OBVIOUS
      <3>2. i[2] = pc /\ i[1] = "with"
        BY <2>2, <2>4, <3>1, <1>2 DEF Guarded
      <3>3. PICK d \in Code[s][pc] : Covers("with", pc, d, end)
        BY <2>2, <3>1, <3>2, GuardsAre
      <3>4. d.op = "with" /\ end < To("with", d)
        BY <3>3 DEF Covers, HasBlock
      <3>5. d = a
        BY <2>2, <3>4, <1>1, CodeIs
      <3>. QED
        BY <2>2, <2>4, <3>4, <3>5, <1>2
    <2>. QED
      BY <2>3, <2>4
  <1>. QED
    BY <1>5, <1>6, <1>7

-----------------------------------------------------------------------------
(* The theorems *)

LEMMA ScriptInit ==
    ASSUME Init
    PROVE  ScriptInv
  <1>1. /\ state = "running" /\ exception = 0 /\ frames = <<>> /\ calls = <<>> /\ late = FALSE
    BY DEF Init
  <1>2. DOMAIN frames = {} /\ DOMAIN calls = {} /\ frames \in Seq(FrameType) /\ calls \in Seq(CallTypes)
    BY <1>1
  <1>3. StackOK(state, exception, frames, calls)
    BY <1>1, <1>2 DEF StackOK, TypedStack, Awaits, Owned, Stage, Returning
  <1>. QED
    BY <1>1, <1>3 DEF ScriptInv, ContextOK, CrashOK

LEMMA ScriptStep ==
    ASSUME ScriptInv, [Next]_vars
    PROVE  ScriptInv'
  <1>1. CASE UNCHANGED vars
    BY <1>1 DEF vars, ScriptInv, ContextOK, CrashOK
  <1>2. CASE TimeOut
    BY <1>2 DEF TimeOut, ScriptInv, ContextOK, CrashOK
  <1>3. CASE \E s \in Scripts : Run(s)
    BY <1>3, RunKeeps
  <1>4. CASE Start \/ Resume \/ Free \/ Error \/ HandleException \/ Finish \/ OutOfRange \/ ExitBlock
    BY <1>4, StartKeeps, ResumeKeeps, FreeKeeps, ErrorKeeps, HandleExceptionKeeps, FinishKeeps,
       ExitBlockKeeps
  <1>5. CASE AssertionFails
    BY <1>5, AssertionFailsKeeps
  <1>6. CASE Execute
    BY <1>6, DoPlainKeeps, DoThrowKeeps, FinishKeeps, DoCallKeeps, DoJumpKeeps, DoTryKeeps,
       DoWithKeeps DEF Execute
  <1>. QED
    BY <1>1, <1>2, <1>3, <1>4, <1>5, <1>6 DEF Next, Step

\* The invariant, of any code that decodes: every block of a frame is one that
\* the code has, and lies in the blocks below it, the objects of blocks are on
\* the scope chain in their order, and the frames are those of the activations,
\* in order; and in code that gets into blocks by their actions only, each
\* block that guards the place where the code goes on is there, or was turned
\* away.
THEOREM ScriptAlwaysSound == Spec => []ScriptInv
  <1>1. Init => ScriptInv
    BY ScriptInit
  <1>2. ScriptInv /\ [Next]_vars => ScriptInv'
    BY ScriptStep
  <1>. QED
    BY <1>1, <1>2, PTL DEF Spec

-----------------------------------------------------------------------------
(* The blocks of frames and the code *)

LEMMA BlocksNest ==
    ASSUME NEW f, FrameOK(f)
    PROVE  \A i \in DOMAIN f.blocks, j \in DOMAIN f.blocks :
             i < j => f.blocks[i].start <= f.blocks[j].start /\ f.blocks[j].end <= f.blocks[i].end
  BY DEF FrameOK, BlocksOK, Holds

LEMMA ScopesAre ==
    ASSUME NEW f, FrameOK(f)
    PROVE  ScopesFollow(f)
  <1> DEFINE bs == f.blocks
             n == f.scope
             left == LeftIn(f.rejected)
  <1>1. Chain(bs, n, left)
    BY DEF FrameOK
  <1>2. LeftOver(f) <=> left
    BY DEF LeftOver, LeftIn
  <1>3. \A i : DepthBelow(f, i) = Under(bs, i)
    BY DEF DepthBelow, Under
  <1>4. \A i : Puts(bs[i]) = IF f.blocks[i].kind \in {"catch", "with"} THEN 1 ELSE 0
    BY DEF Puts
  <1> HIDE DEF left
  <1>5. ASSUME NEW i \in DOMAIN f.blocks
        PROVE  LET with == DepthBelow(f, i) + (IF f.blocks[i].kind \in {"catch", "with"} THEN 1 ELSE 0)
               IN with <= f.blocks[i].depth /\ (~LeftOver(f) => f.blocks[i].depth = with)
    <2>1. Under(bs, i) + Puts(bs[i]) <= bs[i].depth /\ (~left => bs[i].depth = Under(bs, i) + Puts(bs[i]))
      BY <1>1 DEF Chain
    <2>. QED
      BY <2>1, <1>2, <1>3, <1>4
  <1>6. Under(bs, Len(bs) + 1) <= n /\ (~left => n = Under(bs, Len(bs) + 1))
    BY <1>1 DEF Chain
  <1>. QED
    BY <1>2, <1>3, <1>5, <1>6 DEF ScopesFollow

LEMMA SoundFollowsCode ==
    ASSUME ScriptInv
    PROVE  BlocksFollowCode
  <1> DEFINE all == Range(frames) \cup {c.dying : c \in Range(calls)}
  <1>1. /\ StackOK(state, exception, frames, calls) /\ late \in BOOLEAN /\ CrashOK
    BY DEF ScriptInv, ContextOK
  <1>2. /\ state \in {"running", "aborted", "crashed"} /\ exception \in Nat
        /\ frames \in Seq(FrameType) /\ calls \in Seq(CallTypes)
        /\ \A i \in DOMAIN frames : FrameHolds(frames[i])
        /\ \A k \in DOMAIN calls : FrameOK(calls[k].dying)
    BY <1>1 DEF StackOK, TypedStack
  <1>3. \A f \in Range(frames) : FrameHolds(f)
    BY <1>2 DEF Range
  <1>4. \A c \in Range(calls) : c \in CallTypes /\ FrameOK(c.dying) /\ c.frame <= Len(frames)
    <2>1. TAKE c \in Range(calls)
    <2>2. PICK k \in DOMAIN calls : c = calls[k]
      BY DEF Range
    <2>. QED
      BY <2>2, <1>1, <1>2 DEF StackOK, Owned
  <1>5. TypeOK
    <2>1. ASSUME NEW f \in Range(frames)
          PROVE  /\ f.script \in Scripts /\ f.pc \in Nat /\ f.scope \in Nat
                 /\ \A b \in Range(f.blocks) : b.kind \in Kinds /\ b.held \in Nat
      <3>1. FrameHolds(f)
        BY <1>3
      <3>2. f.blocks \in Seq(BlockType) /\ f.pc \in Nat /\ f.scope \in Nat
        BY <3>1 DEF FrameHolds, FrameOK, FrameType
      <3>3. \A b \in Range(f.blocks) : b \in BlockType
        BY <3>2 DEF Range
      <3>. QED
        BY <3>1, <3>2, <3>3 DEF FrameHolds, BlockType
    <2>2. ASSUME NEW c \in Range(calls)
          PROVE  /\ c.frame \in 0..Len(frames) /\ c.check \in BOOLEAN
                 /\ c.at \in {"start", "loop", "call", "free"}
      <3>1. c \in CallTypes /\ c.frame <= Len(frames) /\ Len(frames) \in Nat
        BY <1>2, <1>4
      <3>. QED
        BY <3>1, CallIs
    <2>. QED
      BY <2>1, <2>2, <1>1, <1>2 DEF TypeOK
  <1>6. \A i \in DOMAIN frames : \E c \in Range(calls) : c.frame = i
    BY <1>1 DEF StackOK, Owned, Range
  <1>7. \A i, j \in DOMAIN calls : i < j /\ calls[j].frame # 0 => calls[i].frame <= calls[j].frame
    BY <1>1 DEF StackOK, Owned
  <1>8. ASSUME InLoop PROVE top.frame = Len(frames) /\ Len(frames) \in 1..MaxDepth
    <2>1. Active /\ top.at = "loop"
      BY <1>8 DEF InLoop
    <2>2. top.frame = Len(frames) /\ top.frame <= MaxDepth /\ Len(frames) \in Nat \ {0}
      BY <2>1, <1>8, LoopFacts
    <2>. QED
      BY <2>2, CodeAssumption
  <1>9. ASSUME NEW f \in all
        PROVE  /\ ScopesFollow(f)
               /\ \A i \in DOMAIN f.blocks, j \in DOMAIN f.blocks :
                    i < j => /\ f.blocks[i].start <= f.blocks[j].start
                             /\ f.blocks[j].end <= f.blocks[i].end
    <2>1. FrameOK(f)
      BY <1>3, <1>4 DEF FrameHolds
    <2>. QED
      BY <2>1, ScopesAre, BlocksNest
  <1>10. state = "crashed" => \E f \in all : LeftOver(f)
    BY <1>1 DEF CrashOK, LeftOver, LeftIn
  <1>11. ASSUME Decoding
         PROVE  FrameHolds(frame) /\ Covered(frame, frame.pc) /\ frame.pc \in Nat /\ frame.blocks \in Seq(BlockType)
    <2>1. InLoop /\ Active /\ top.at = "loop" /\ state = "running" /\ exception = 0
      BY <1>11 DEF Decoding, Running, InLoop
    <2>2. Loops(state, exception, frame) /\ FrameHolds(frame)
      BY <2>1, LoopFacts
    <2>. QED
      BY <2>1, <2>2 DEF Loops, FrameHolds, FrameOK, FrameType
  <1>12. ASSUME Decoding, top.check, ~Leaves
         PROVE  \A b \in Range(frame.blocks) : frame.pc \in b.start..b.end - 1
    <2>1. Inside(frame)
      BY <1>12 DEF Leaves
    <2>2. \A i \in DOMAIN frame.blocks : Spans(frame.blocks[i], frame.pc)
      BY <2>1, <1>11, <1>12, InsideAll
    <2>3. TAKE b \in Range(frame.blocks)
    <2>4. PICK i \in DOMAIN frame.blocks : b = frame.blocks[i]
      BY DEF Range
    <2>5. b \in BlockType /\ Spans(b, frame.pc)
      BY <2>2, <2>4, <1>11, <1>12
    <2>6. b.start \in Nat /\ b.end \in Nat
      BY <2>5 DEF BlockType
    <2>. QED
      BY <2>5, <2>6, <1>11, <1>12 DEF Spans
  <1>13. ASSUME Decoding, frame.script \in Structured
         PROVE  Guards(frame.script, frame.pc) \subseteq Entered(frame) \cup frame.rejected
    <2>1. SUFFICES ASSUME NEW g \in Guards(frame.script, frame.pc)
                   PROVE  g \in Entered(frame) \cup frame.rejected
      OBVIOUS
    <2>2. Accounted(frame.blocks, frame.rejected, g)
      BY <2>1, <1>11, <1>13 DEF Covered, Guarding
    <2>3. CASE g \in frame.rejected
      BY <2>3
    <2>4. CASE \E i \in DOMAIN frame.blocks : IsOf(frame.blocks[i], g)
      <3>1. PICK i \in DOMAIN frame.blocks : IsOf(frame.blocks[i], g)
        BY <2>4
      <3>2. g = <<g[1], g[2]>>
        BY <2>1 DEF Guards
      <3>3. frame.blocks[i] \in Range(frame.blocks)
        BY <3>1 DEF Range
      <3>4. g = <<frame.blocks[i].kind, frame.blocks[i].at>>
        BY <3>1, <3>2 DEF IsOf
      <3>. QED
        BY <3>3, <3>4 DEF Entered
    <2>. QED
      BY <2>2, <2>3, <2>4 DEF Accounted
  <1>. QED
    BY <1>5, <1>6, <1>7, <1>8, <1>9, <1>10, <1>12, <1>13 DEF BlocksFollowCode

\* Whatever code is loaded, as long as its actions decode: the blocks of a
\* frame lie in each other and find their objects on the scope chain, as the
\* functions that end blocks assert, unless the object of a block that was
\* turned away is there; an action that another one leads to has the frame in
\* all of its blocks; in code that enters blocks by their Try and With only, an
\* action lacks none of the blocks around it but those that were turned away;
\* and a frame that the context lists is on the stack of a function.
THEOREM BlocksAlwaysFollowCode == Spec => []BlocksFollowCode
  BY ScriptAlwaysSound, SoundFollowsCode, PTL

-----------------------------------------------------------------------------
(* Exceptions *)

\* The exceptions that may still be handled, of an exception x in flight and
\* frames fs.
LiveIn(x, fs) == ({x} \ {0}) \cup UNION {Held(fs[i]) : i \in DOMAIN fs}

\* What a step may do to exceptions.
KeepsExceptions ==
    /\ \A e \in Live \ Live' :
         \/ state' = "aborted"
         \/ Caught(e)
         \/ e \in Held(frame) /\ (exception # 0 \/ Len(frames') < Len(frames))
         \/ TurnedAway(e)
    /\ exception = 0 /\ exception' # 0 => Running /\ frames' # <<>> /\ Len(frames') = Len(frames)

LEMMA HeldIs ==
    ASSUME NEW f
    PROVE  \A e : e \in Held(f) <=> e # 0 /\ \E i \in DOMAIN f.blocks : f.blocks[i].held = e
  BY DEF Held

\* The frame on top is replaced.
LEMMA LostByFrame ==
    ASSUME NEW x, NEW fs \in Seq(FrameType), fs # <<>>, NEW f \in FrameType, NEW x2,
           NEW e \in LiveIn(x, fs) \ LiveIn(x2, Append(Front(fs), f))
    PROVE  e # 0 /\ e # x2 /\ e \notin Held(f) /\ (e = x \/ e \in Held(Last(fs)))
  <1> DEFINE gs == Append(Front(fs), f)
             n == Len(fs)
  <1>1. /\ gs \in Seq(FrameType) /\ n \in Nat \ {0} /\ DOMAIN gs = 1..n /\ DOMAIN fs = 1..n
        /\ \A i \in 1..n : gs[i] = IF i = n THEN f ELSE fs[i]
    BY ReplaceIs
  <1> HIDE DEF gs
  <1>2. Last(fs) = fs[n] /\ n \in 1..n
    BY LastIs
  <1> HIDE DEF n
  <1>3. e \in LiveIn(x, fs) /\ e \notin LiveIn(x2, gs)
    BY DEF gs
  <1>4. \A i \in 1..n : e \notin Held(gs[i])
    BY <1>1, <1>3 DEF LiveIn
  <1>5. e \notin Held(f)
    BY <1>1, <1>2, <1>4
  <1>6. ASSUME e # x PROVE e # 0 /\ e \in Held(Last(fs))
    <2>1. PICK i \in 1..n : e \in Held(fs[i])
      BY <1>1, <1>3, <1>6 DEF LiveIn
    <2>2. i = n
      BY <2>1, <1>1, <1>4
    <2>3. e \in Held(Last(fs))
      BY <2>1, <2>2, <1>2
    <2>. QED
      BY <2>3, HeldIs
  <1>7. e = x => e # 0
    <2>1. 0 \notin LiveIn(x, fs)
      BY <1>1, HeldIs DEF LiveIn
    <2>. QED
      BY <2>1, <1>3
  <1>8. e # 0 => e # x2
    BY <1>3 DEF LiveIn
  <1>. QED
    BY <1>5, <1>6, <1>7, <1>8

\* The frame on top goes.
LEMMA LostByReturn ==
    ASSUME NEW x, NEW fs \in Seq(FrameType), fs # <<>>,
           NEW e \in LiveIn(x, fs) \ LiveIn(x, Front(fs))
    PROVE  e \in Held(Last(fs)) /\ Len(Front(fs)) < Len(fs)
  <1> DEFINE n == Len(fs)
             gs == Front(fs)
  <1>1. /\ n \in Nat \ {0} /\ DOMAIN gs = 1..n - 1 /\ DOMAIN fs = 1..n /\ Last(fs) = fs[n]
        /\ \A i \in 1..n - 1 : gs[i] = fs[i]
        /\ Len(gs) = n - 1
    BY FrontIs
  <1> HIDE DEF n, gs
  <1>2. PICK i \in 1..n : e \in Held(fs[i])
    BY <1>1 DEF LiveIn, gs
  <1>3. i = n
    <2>1. ASSUME i # n PROVE FALSE
      <3>1. i \in 1..n - 1
        BY <2>1, <1>1
      <3>2. e \in Held(gs[i]) /\ i \in DOMAIN gs
        BY <3>1, <1>1, <1>2
      <3>. QED
        BY <3>2 DEF LiveIn, gs
    <2>. QED
      BY <2>1
  <1>. QED
    BY <1>1, <1>2, <1>3 DEF n, gs

\* A frame is new.
LEMMA LostByCall ==
    ASSUME NEW x, NEW fs \in Seq(FrameType), NEW f \in FrameType
    PROVE  LiveIn(x, fs) \subseteq LiveIn(x, Append(fs, f))
  <1> DEFINE gs == Append(fs, f)
  <1>1. /\ DOMAIN gs = 1..Len(fs) + 1 /\ DOMAIN fs = 1..Len(fs) /\ Len(fs) \in Nat
        /\ \A i \in 1..Len(fs) : gs[i] = fs[i]
    BY AppendIs
  <1> HIDE DEF gs
  <1>2. \A i \in DOMAIN fs : i \in DOMAIN gs /\ gs[i] = fs[i]
    BY <1>1
  <1>3. LiveIn(x, fs) \subseteq LiveIn(x, gs)
    BY <1>2 DEF LiveIn
  <1>. QED
    BY <1>3 DEF gs

LEMMA LiveIs == Live = LiveIn(exception, frames) /\ Live' = LiveIn(exception', frames')
  BY DEF Live, LiveIn

\* Steps that change neither the exception nor the frames.
LEMMA NoFrameKeeps ==
    ASSUME exception' = exception, frames' = frames
    PROVE  KeepsExceptions
  BY LiveIs DEF KeepsExceptions

\* The frame on top returns.
LEMMA LeaveKeepsExceptions ==
    ASSUME ScriptInv, Active, top.at \in {"start", "loop"}, Leave, exception' = exception
    PROVE  KeepsExceptions
  <1>1. frames \in Seq(FrameType) /\ frames # <<>>
    BY LoopFacts
  <1>2. frames' = Front(frames)
    BY DEF Leave
  <1>3. ASSUME NEW e \in Live \ Live' PROVE e \in Held(frame) /\ Len(frames') < Len(frames)
    <2>1. e \in LiveIn(exception, frames) \ LiveIn(exception, Front(frames))
      BY <1>2, <1>3, LiveIs
    <2>. QED
      BY <2>1, <1>1, <1>2, LostByReturn DEF frame
  <1>. QED
    BY <1>3 DEF KeepsExceptions

\* A script is called.
LEMMA EnterKeepsExceptions ==
    ASSUME ScriptInv, NEW s \in Scripts, NEW cs, Enter(s, cs), exception' = exception
    PROVE  KeepsExceptions
  <1>1. frames \in Seq(FrameType)
    BY DEF ScriptInv, ContextOK, StackOK, TypedStack
  <1>2. CASE frames' = Append(frames, NewFrame(s))
    <2>1. NewFrame(s) \in FrameType
      BY NewFrameHolds
    <2> DEFINE f == NewFrame(s)
    <2> HIDE DEF f
    <2>2. LiveIn(exception, frames) \subseteq LiveIn(exception, Append(frames, f))
      BY <2>1, <1>1, LostByCall DEF f
    <2>3. Live \ Live' = {}
      BY <2>2, <1>2, LiveIs DEF f
    <2>. QED
      BY <2>3 DEF KeepsExceptions
  <1>3. CASE frames' = frames
    BY <1>3, NoFrameKeeps
  <1>. QED
    BY <1>2, <1>3 DEF Enter

\* The frame on top goes on with at least the blocks that it has.
LEMMA PcKeepsExceptions ==
    ASSUME ScriptInv, Active, top.at \in {"start", "loop"} \/ top.frame # 0,
           NEW f \in FrameType, FrameBecomes(f),
           \A i \in DOMAIN frame.blocks : \E k \in DOMAIN f.blocks : f.blocks[k].held = frame.blocks[i].held,
           exception' = exception \/ (exception = 0 /\ Running)
    PROVE  KeepsExceptions
  <1>1. frames \in Seq(FrameType) /\ frames # <<>>
    BY LoopFacts
  <1>2. frames' = Append(Front(frames), f)
    BY DEF FrameBecomes
  <1>3. Held(frame) \subseteq Held(f)
    BY HeldIs
  <1>4. frames' # <<>> /\ Len(frames') = Len(frames)
    BY <1>1, <1>2, ReplaceIs
  <1>5. ASSUME NEW e \in Live \ Live' PROVE FALSE
    <2> DEFINE x2 == exception'
    <2>1. e \in LiveIn(exception, frames) \ LiveIn(x2, Append(Front(frames), f))
      BY <1>2, <1>5, LiveIs
    <2>2. exception = x2 \/ exception = 0
      OBVIOUS
    <2> HIDE DEF x2
    <2>3. e # 0 /\ e # x2 /\ e \notin Held(f) /\ (e = exception \/ e \in Held(frame))
      BY <2>1, <1>1, LostByFrame DEF frame
    <2>. QED
      BY <2>2, <2>3, <1>3
  <1>. QED
    BY <1>4, <1>5 DEF KeepsExceptions

LEMMA FreeKeepsExceptions ==
    ASSUME ScriptInv, Free
    PROVE  KeepsExceptions
  <1>1. /\ Active /\ top.at = "free" /\ state' = state /\ frames' = frames /\ state # "crashed"
    BY DEF Free, Active
  <1>2. /\ state \in {"running", "aborted"} /\ FrameOK(top.dying) /\ exception \in Nat /\ TopOK(state, exception, frame, top)
    BY <1>1, LoopFacts
  <1>3. CASE top.dying.blocks = <<>>
    BY <1>1, <1>3, NoFrameKeeps DEF Free
  <1>4. CASE top.dying.blocks # <<>>
    <2> DEFINE a == PopBlock(top.dying, exception, FALSE)
    <2>1. exception' = a.exception
      BY <1>4 DEF Free
    <2>2. Ends(top.dying, a, exception, FALSE)
      BY <1>2, <1>4, PopIs
    <2> HIDE DEF a
    <2>3. exception = 0 => a.exception = 0
      BY <2>2 DEF Ends, Gone, Catches, Retains
    <2>4. exception = 0 \/ state' = "aborted"
      BY <1>1, <1>2, <1>4 DEF TopOK
    <2>5. CASE exception = 0
      BY <2>1, <2>3, <2>5, <1>1, NoFrameKeeps
    <2>6. CASE exception # 0
      BY <2>4, <2>6 DEF KeepsExceptions
    <2>. QED
      BY <2>5, <2>6
  <1>. QED
    BY <1>3, <1>4

\* A block of a frame that has not returned ends.
EndsBlock(f, a, x) == Ends(f, a, x, TRUE)

\* The exception x of the frame f has come to a catch clause.
CaughtIn(f, a, x) ==
    /\ a.exception = 0 /\ Last(f.blocks).kind = "try" /\ Last(f.blocks).try.catch # 0
    /\ a.frame.pc = Last(f.blocks).try.catch

\* The block that should keep it is turned away.
AwayIn(f) ==
    /\ Last(f.blocks).kind \in {"try", "catch"} /\ Last(f.blocks).try.finally # 0
    /\ ~Encloses(Popped(f), Last(f.blocks).try.finally, Last(f.blocks).try.end)

\* A block that is pushed or turned away leaves those that are there.
LEMMA PushedKeeps ==
    ASSUME NEW bs \in Seq(BlockType), NEW b \in BlockType, NEW g, NEW s, NEW bd, NEW rej,
           Pushed(g, b, s, bs, bd, rej)
    PROVE  /\ \A i \in DOMAIN bs : \E k \in DOMAIN g.blocks : g.blocks[k].held = bs[i].held
           /\ \/ \E k \in DOMAIN g.blocks : g.blocks[k].held = b.held
              \/ ~Admits(s, bs, bd, b.start, b.end)
  <1> DEFINE as == Append(bs, b)
             n == Len(bs)
  <1>1. /\ DOMAIN as = 1..n + 1 /\ DOMAIN bs = 1..n /\ n \in Nat
        /\ \A i \in 1..n : as[i] = bs[i]
        /\ as[n + 1] = b
    BY AppendIs
  <1>2. g.blocks = as \/ (g.blocks = bs /\ ~Admits(s, bs, bd, b.start, b.end))
    BY DEF Pushed
  <1> HIDE DEF as, n
  <1>3. CASE g.blocks = as
    <2>1. n + 1 \in DOMAIN as
      BY <1>1
    <2>2. \E k \in DOMAIN as : as[k].held = b.held
      BY <2>1, <1>1
    <2>3. ASSUME NEW i \in DOMAIN bs PROVE \E k \in DOMAIN as : as[k].held = bs[i].held
      <3>1. i \in DOMAIN as
        BY <1>1
      <3>2. as[i] = bs[i]
        BY <1>1
      <3>. QED
        BY <3>1, <3>2
    <2>. QED
      BY <2>2, <2>3, <1>3
  <1>4. CASE g.blocks = bs /\ ~Admits(s, bs, bd, b.start, b.end)
    BY <1>4
  <1>. QED
    BY <1>2, <1>3, <1>4

\* What swfdec_as_frame_pop_block may lose of the exceptions of a frame.
LEMMA PopLoses ==
    ASSUME NEW f, FrameOK(f), f.blocks # <<>>, NEW x \in Nat, NEW a, EndsBlock(f, a, x)
    PROVE  \A e : e # 0 /\ e # a.exception /\ e \notin Held(a.frame) /\ (e = x \/ e \in Held(f)) =>
             \/ x # 0 /\ e \in Held(f)
             \/ e = x /\ CaughtIn(f, a, x)
             \/ e = x /\ AwayIn(f)
  <1> SUFFICES ASSUME NEW e, e # 0, e # a.exception, e \notin Held(a.frame), e = x \/ e \in Held(f)
               PROVE  \/ x # 0 /\ e \in Held(f)
                      \/ e = x /\ CaughtIn(f, a, x)
                      \/ e = x /\ AwayIn(f)
    OBVIOUS
  <1> DEFINE bs == f.blocks
             b == Last(bs)
             cs == Front(bs)
             n == Len(bs)
             s == f.script
             rej == f.rejected
             bd == (f.bounded \/ Len(f.blocks) = 1)
  <1>1. f \in FrameType /\ bs \in Seq(BlockType) /\ BlocksOK(s, bs, rej)
    BY DEF FrameOK, FrameType
  <1>2. /\ b \in BlockType /\ BlockOK(s, b) /\ cs \in Seq(BlockType) /\ s \in Scripts
    BY <1>1, PopKeeps
  <1>3. /\ n \in Nat \ {0} /\ DOMAIN bs = 1..n /\ DOMAIN cs = 1..n - 1 /\ b = bs[n]
        /\ \A i \in 1..n - 1 : cs[i] = bs[i]
    BY <1>1, FrontIs
  <1>4. Gone(f, a, x, TRUE) \/ Catches(f, a, x) \/ Retains(f, a, x)
    BY DEF EndsBlock, Ends
  <1>5. \A start, end : Encloses(Popped(f), start, end) <=> Admits(s, cs, bd, start, end)
    <2> DEFINE h == FrameOf(s, f.pc, cs, bd, f.scope, rej)
    <2>1. Popped(f) = h
      BY <1>1, PoppedIs
    <2>2. h.script = s /\ h.blocks = cs /\ h.bounded = bd
      BY FrameIs
    <2> HIDE DEF h, s, cs, bd
    <2>. QED
      BY <2>1, <2>2, EnclosesIs
  <1> HIDE DEF b, cs, n, bs, s, rej, bd
  <1>6. CASE Catches(f, a, x) /\ e = x
    BY <1>6 DEF Catches, CaughtIn
  <1>7. CASE (Catches(f, a, x) \/ Retains(f, a, x)) /\ e # x
    BY <1>7 DEF Catches, Retains
  <1>8. CASE Retains(f, a, x) /\ e = x
    <2>1. /\ b.try.finally # 0 /\ b.kind \in {"try", "catch"}
          /\ \E m \in Nat : Around(f, a.frame, FinallyOf(b, m, x))
      BY <1>8 DEF Retains, b, bs
    <2>2. PICK m \in Nat : Around(f, a.frame, FinallyOf(b, m, x))
      BY <2>1
    <2> DEFINE d == FinallyOf(b, m, x)
               g == a.frame
    <2>3. b.try.op = "try"
      BY <2>1, <1>2, BlockOKIs
    <2>4. d \in BlockType /\ d.held = x /\ d.start = b.try.finally /\ d.end = b.try.end
      BY <2>1, <2>3, <1>2, ClausesAre
    <2>5. Pushed(g, d, s, cs, bd, rej)
      BY <2>2 DEF Around, s, cs, bd, rej, bs
    <2> HIDE DEF d, g
    <2>6. \/ \E k \in DOMAIN g.blocks : g.blocks[k].held = d.held
          \/ ~Admits(s, cs, bd, d.start, d.end)
      BY <2>4, <2>5, <1>2, PushedKeeps
    <2>7. CASE \E k \in DOMAIN g.blocks : g.blocks[k].held = d.held
      <3>1. e \in Held(g)
        BY <2>4, <2>7, <1>8, HeldIs
      <3>. QED
        BY <3>1 DEF g
    <2>8. CASE ~Admits(s, cs, bd, d.start, d.end)
      <3>1. ~Encloses(Popped(f), b.try.finally, b.try.end)
        BY <2>4, <2>8, <1>5
      <3>. QED
        BY <3>1, <2>1, <1>8 DEF AwayIn, b, bs
    <2>. QED
      BY <2>6, <2>7, <2>8
  <1>9. CASE Gone(f, a, x, TRUE) /\ x # 0
    BY <1>9 DEF Gone
  <1>10. CASE Gone(f, a, x, TRUE) /\ x = 0
    <2>1. a.frame.blocks = cs /\ a.exception = IF b.kind = "finally" THEN b.held ELSE 0
      BY <1>10 DEF Gone, b, cs, bs
    <2>2. PICK i \in DOMAIN bs : bs[i].held = e
      BY <1>10, HeldIs DEF bs
    <2>3. CASE i # n
      <3>1. i \in 1..n - 1
        BY <2>3, <1>3
      <3>2. i \in DOMAIN cs /\ cs[i].held = e
        BY <3>1, <2>2, <1>3
      <3>3. e \in Held(a.frame)
        BY <3>2, <2>1, HeldIs
      <3>. QED
        BY <3>3
    <2>4. CASE i = n
      <3>1. b.held = e /\ b.kind # "finally"
        BY <2>1, <2>2, <2>4, <1>3
      <3>. QED
        BY <3>1, <1>2 DEF BlockOK
    <2>. QED
      BY <2>3, <2>4
  <1>. QED
    BY <1>4, <1>6, <1>7, <1>8, <1>9, <1>10

\* A block of the frame on top ends.
LEMMA PopKeepsExceptions ==
    ASSUME ScriptInv, InLoop, frame.blocks # <<>>, NEW a, EndsBlock(frame, a, exception),
           FrameBecomes(a.frame), exception' = a.exception, exception = 0 => Running
    PROVE  KeepsExceptions
  <1>1. /\ frames \in Seq(FrameType) /\ frames # <<>> /\ FrameOK(frame) /\ exception \in Nat
    BY LoopFacts DEF InLoop, FrameHolds
  <1> DEFINE f == a.frame
  <1>2. f \in FrameType
    BY DEF EndsBlock, Ends, FrameOK
  <1>3. frames' = Append(Front(frames), f)
    BY DEF FrameBecomes
  <1> HIDE DEF f
  <1>4. frames' # <<>> /\ Len(frames') = Len(frames) /\ Last(frames') = f
    <2>1. /\ Append(Front(frames), f) # <<>> /\ Len(Append(Front(frames), f)) = Len(frames)
          /\ Last(Append(Front(frames), f)) = f
      BY <1>1, <1>2, ReplaceIs
    <2>. QED
      BY <2>1, <1>3
  <1>5. \A e : e # 0 /\ e # a.exception /\ e \notin Held(a.frame) /\ (e = exception \/ e \in Held(frame)) =>
          \/ exception # 0 /\ e \in Held(frame)
          \/ e = exception /\ CaughtIn(frame, a, exception)
          \/ e = exception /\ AwayIn(frame)
    <2> DEFINE g == frame
               x == exception
    <2>1. FrameOK(g) /\ g.blocks # <<>> /\ x \in Nat /\ EndsBlock(g, a, x)
      BY <1>1
    <2> HIDE DEF g, x
    <2>2. \A e : e # 0 /\ e # a.exception /\ e \notin Held(a.frame) /\ (e = x \/ e \in Held(g)) =>
            \/ x # 0 /\ e \in Held(g)
            \/ e = x /\ CaughtIn(g, a, x)
            \/ e = x /\ AwayIn(g)
      BY <2>1, PopLoses
    <2>. QED
      BY <2>2 DEF g, x
  <1>6. ASSUME NEW e, e = exception, CaughtIn(frame, a, exception) PROVE Caught(e)
    BY <1>4, <1>6 DEF CaughtIn, Caught, f
  <1>7. ASSUME NEW e, e = exception, AwayIn(frame) PROVE TurnedAway(e)
    BY <1>7 DEF AwayIn, TurnedAway
  <1>8. ASSUME NEW e \in Live \ Live'
        PROVE  Caught(e) \/ TurnedAway(e) \/ (e \in Held(frame) /\ exception # 0)
    <2> DEFINE x2 == a.exception
    <2>1. e \in LiveIn(exception, frames) \ LiveIn(x2, Append(Front(frames), f))
      BY <1>3, <1>8, LiveIs
    <2> HIDE DEF x2
    <2>2. e # 0 /\ e # x2 /\ e \notin Held(f) /\ (e = exception \/ e \in Held(frame))
      BY <2>1, <1>1, <1>2, LostByFrame DEF frame
    <2>3. e # 0 /\ e # a.exception /\ e \notin Held(a.frame) /\ (e = exception \/ e \in Held(frame))
      BY <2>2 DEF f, x2
    <2>4. \/ exception # 0 /\ e \in Held(frame)
          \/ e = exception /\ CaughtIn(frame, a, exception)
          \/ e = exception /\ AwayIn(frame)
      BY <2>3, <1>5
    <2>. QED
      BY <2>4, <1>6, <1>7
  <1>. QED
    BY <1>4, <1>8 DEF KeepsExceptions

LEMMA BlockStepKeepsExceptions ==
    ASSUME ScriptInv, HandleException \/ ExitBlock
    PROVE  KeepsExceptions
  <1>1. /\ InLoop /\ Active /\ top.at = "loop" /\ exception \in Nat /\ FrameHolds(frame)
    <2>1. InLoop /\ Active /\ top.at = "loop"
      BY DEF HandleException, ExitBlock, Decoding, Running, InLoop
    <2>. QED
      BY <2>1, LoopFacts
  <1>2. CASE HandleException /\ frame.blocks = <<>>
    BY <1>1, <1>2, LeaveKeepsExceptions DEF HandleException
  <1> DEFINE x == exception
             alive == TRUE
             a == PopBlock(frame, x, alive)
  <1>3. \/ HandleException /\ frame.blocks = <<>>
        \/ /\ frame.blocks # <<>> /\ FrameBecomes(a.frame) /\ exception' = a.exception
           /\ exception = 0 => Running
    <2>1. CASE HandleException
      BY <2>1 DEF HandleException
    <2>2. CASE ExitBlock
      <3>1. exception = 0 /\ Running /\ ~Inside(frame)
        BY <2>2 DEF ExitBlock, Decoding, Running, Leaves
      <3>2. FrameBecomes(a.frame) /\ exception' = a.exception
        BY <2>2, <3>1 DEF ExitBlock
      <3>3. frame.blocks # <<>>
        BY <3>1 DEF Inside
      <3>. QED
        BY <3>1, <3>2, <3>3
    <2>. QED
      BY <2>1, <2>2
  <1>4. CASE frame.blocks # <<>>
    <2>1. alive \in BOOLEAN /\ alive = TRUE
      OBVIOUS
    <2> HIDE DEF alive, x
    <2>2. Ends(frame, a, x, alive)
      BY <2>1, <1>1, <1>4, PopIs DEF FrameHolds, x
    <2>3. EndsBlock(frame, a, exception)
      BY <2>2 DEF x, EndsBlock, alive
    <2> HIDE DEF a
    <2>. QED
      BY <2>1, <2>3, <1>1, <1>3, <1>4, PopKeepsExceptions
  <1>. QED
    BY <1>2, <1>3, <1>4

\* The program counter of the frame on top changes.
LEMMA MoveKeepsExceptions ==
    ASSUME ScriptInv, Active, top.at = "loop" \/ top.frame # 0, NEW to \in Nat,
           FrameBecomes([frame EXCEPT !.pc = to]),
           exception' = exception \/ (exception = 0 /\ Running)
    PROVE  KeepsExceptions
  <1>1. FrameHolds(frame) /\ frame \in FrameType
    BY LoopFacts
  <1> DEFINE g == [frame EXCEPT !.pc = to]
  <1>2. g \in FrameType /\ g.blocks = frame.blocks
    BY <1>1, PcMoves
  <1>3. FrameBecomes(g)
    OBVIOUS
  <1> HIDE DEF g
  <1>. QED
    BY <1>2, <1>3, PcKeepsExceptions

\* A block is entered or turned away.
LEMMA OpenKeepsExceptions ==
    ASSUME ScriptInv, NEW a, At(a), NEW b \in BlockType, NEW g \in FrameType,
           Pushed(g, b, frame.script, frame.blocks, frame.bounded, frame.rejected),
           FrameBecomes(g), exception' = exception
    PROVE  KeepsExceptions
  <1>1. /\ Active /\ top.at = "loop" /\ FrameHolds(frame)
    BY ActionFacts
  <1> DEFINE bs == frame.blocks
             s == frame.script
             bd == frame.bounded
             rej == frame.rejected
  <1>2. bs \in Seq(BlockType)
    BY <1>1 DEF FrameHolds, FrameOK, FrameType
  <1>3. \A i \in DOMAIN bs : \E k \in DOMAIN g.blocks : g.blocks[k].held = bs[i].held
    <2>1. Pushed(g, b, s, bs, bd, rej)
      OBVIOUS
    <2> HIDE DEF bs, s, bd, rej
    <2>. QED
      BY <2>1, <1>2, PushedKeeps
  <1>. QED
    BY <1>1, <1>3, PcKeepsExceptions

\* The next action is passed.
LEMMA PassKeepsExceptions ==
    ASSUME ScriptInv, NEW a, At(a), Next1(frame), exception' = exception \/ exception = 0
    PROVE  KeepsExceptions
  <1>1. Active /\ top.at = "loop" /\ Running /\ frame.pc + 1 \in Nat
    BY ActionFacts DEF At, Decoding
  <1> DEFINE to == frame.pc + 1
  <1>2. FrameBecomes([frame EXCEPT !.pc = to]) /\ to \in Nat
    BY <1>1 DEF Next1
  <1> HIDE DEF to
  <1>. QED
    BY <1>1, <1>2, MoveKeepsExceptions

LEMMA ExecuteKeepsExceptions ==
    ASSUME ScriptInv, Execute
    PROVE  KeepsExceptions
  <1>1. ASSUME NEW a, At(a)
        PROVE  /\ Active /\ top.at = "loop" /\ exception = 0 /\ frame \in FrameType
               /\ FrameHolds(frame) /\ a \in Code[frame.script][frame.pc] /\ Covered(frame, frame.pc)
               /\ frame.pc \in DOMAIN Code[frame.script] /\ frame.scope \in Nat
               /\ frame.pc \in Nat /\ frame.script \in Scripts /\ Decoded(frame.pc, a)
    <2>1. /\ frame.script \in Scripts /\ frame.pc \in DOMAIN Code[frame.script]
          /\ a \in Code[frame.script][frame.pc]
      BY <1>1, ActionFacts
    <2>2. Decoded(frame.pc, a)
      BY <2>1, CodeIs
    <2>. QED
      BY <1>1, <2>2, ActionFacts
  <1>2. CASE DoPlain \/ DoThrow
    <2>1. PICK a : At(a) /\ Next1(frame) /\ (exception' = exception \/ exception = 0)
      BY <1>1, <1>2 DEF DoPlain, DoThrow
    <2>. QED
      BY <2>1, PassKeepsExceptions
  <1>3. CASE DoReturn
    <2>1. At(Return) /\ Leave /\ exception' = exception
      BY <1>3 DEF DoReturn
    <2>. QED
      BY <2>1, <1>1, LeaveKeepsExceptions
  <1>4. ASSUME NEW s \in Scripts, DoCall(s) PROVE KeepsExceptions
    <2> DEFINE cs == Append(Front(calls), [top EXCEPT !.at = "call"])
    <2>1. Enter(s, cs) /\ exception' = exception
      BY <1>4 DEF DoCall
    <2> HIDE DEF cs
    <2>. QED
      BY <2>1, EnterKeepsExceptions
  <1>5. ASSUME NEW a, DoJump(a) PROVE KeepsExceptions
    <2> DEFINE to == a.to
    <2>1. a.op = "jump" /\ At(a) /\ exception' = exception
      BY <1>5 DEF DoJump
    <2>2. Active /\ top.at = "loop" /\ to \in Nat
      BY <2>1, <1>1 DEF Decoded
    <2>3. \/ Next1(frame)
          \/ Leave
          \/ FrameBecomes([frame EXCEPT !.pc = to])
      BY <1>5 DEF DoJump
    <2> HIDE DEF to
    <2>. QED
      BY <2>1, <2>2, <2>3, PassKeepsExceptions, LeaveKeepsExceptions, MoveKeepsExceptions
  <1>6. ASSUME NEW a, DoTry(a) PROVE KeepsExceptions
    <2>1. a.op = "try" /\ At(a) /\ exception' = exception
      BY <1>6 DEF DoTry
    <2>2. /\ frame \in FrameType /\ FrameHolds(frame) /\ a \in Code[frame.script][frame.pc]
          /\ Covered(frame, frame.pc) /\ frame.pc \in DOMAIN Code[frame.script] /\ frame.scope \in Nat
      BY <2>1, <1>1
    <2>3. CASE a.catch = 0 /\ a.finally = 0
      <3>1. Next1(frame)
        BY <1>6, <2>3 DEF DoTry
      <3>. QED
        BY <2>1, <3>1, PassKeepsExceptions
    <2>4. CASE ~(a.catch = 0 /\ a.finally = 0)
      <3> DEFINE q == frame.scope
                 b == Block("try", frame.pc, frame.pc + 1, a.body, a, q, 0)
                 g == Opened(frame, q, b)
      <3>1. FrameBecomes([PushBlock(frame, b) EXCEPT !.pc = @ + 1])
        BY <1>6, <2>4 DEF DoTry, Next1
      <3>2. HasBlock("try", a) /\ To("try", a) = a.body
        BY <2>1, <2>4 DEF HasBlock, To
      <3>3. b = Block("try", frame.pc, frame.pc + 1, To("try", a), a, q, 0)
        BY <3>2
      <3>4. [frame EXCEPT !.scope = q] = frame
        BY <2>2 DEF FrameType
      <3>5. FrameBecomes(g)
        BY <3>1, <3>4 DEF Opened
      <3> HIDE DEF b
      <3>6. /\ g \in FrameType /\ b \in BlockType
            /\ Pushed(g, b, frame.script, frame.blocks, frame.bounded, frame.rejected)
        BY <2>2, <3>2, <3>3, Opens
      <3> HIDE DEF g
      <3>. QED
        BY <2>1, <3>5, <3>6, OpenKeepsExceptions
    <2>. QED
      BY <2>3, <2>4
  <1>7. ASSUME NEW a, DoWith(a) PROVE KeepsExceptions
    <2> DEFINE end == a.end
               q == frame.scope + 1
               b == Block("with", frame.pc, frame.pc + 1, end, a, q, 0)
               g == Opened(frame, q, b)
    <2>1. a.op = "with" /\ At(a) /\ exception' = exception
      BY <1>7 DEF DoWith
    <2>2. /\ Active /\ top.at = "loop" /\ exception = 0 /\ frame \in FrameType /\ FrameHolds(frame)
          /\ a \in Code[frame.script][frame.pc] /\ Covered(frame, frame.pc)
          /\ frame.pc \in DOMAIN Code[frame.script] /\ frame.scope \in Nat /\ end \in Nat
      BY <2>1, <1>1 DEF Decoded
    <2>3. FrameBecomes(g) \/ FrameBecomes([frame EXCEPT !.pc = end])
      <3>1. [frame EXCEPT !.scope = @ + 1] = [frame EXCEPT !.scope = q]
        OBVIOUS
      <3>2. \/ Next1(PushBlock([frame EXCEPT !.scope = @ + 1], b))
            \/ FrameBecomes([frame EXCEPT !.pc = end])
        BY <1>7 DEF DoWith
      <3>. QED
        BY <3>1, <3>2, Zenon DEF Next1, Opened
    <2>4. HasBlock("with", a) /\ To("with", a) = end
      BY <2>1 DEF HasBlock, To
    <2>5. b = Block("with", frame.pc, frame.pc + 1, To("with", a), a, q, 0)
      BY <2>4
    <2>6. q \in Nat /\ q = frame.scope + 1
      BY <2>2
    <2> HIDE DEF b, q, end
    <2>7. /\ g \in FrameType /\ b \in BlockType
          /\ Pushed(g, b, frame.script, frame.blocks, frame.bounded, frame.rejected)
      BY <2>2, <2>4, <2>5, <2>6, Opens
    <2> HIDE DEF g
    <2>8. CASE FrameBecomes(g)
      BY <2>1, <2>7, <2>8, OpenKeepsExceptions
    <2>9. CASE FrameBecomes([frame EXCEPT !.pc = end])
      BY <2>1, <2>2, <2>9, MoveKeepsExceptions
    <2>. QED
      BY <2>3, <2>8, <2>9
  <1>. QED
    BY <1>2, <1>3, <1>4, <1>5, <1>6, <1>7 DEF Execute

LEMMA StepKeepsExceptions ==
    ASSUME ScriptInv, Next
    PROVE  KeepsExceptions
  <1>1. CASE \E s \in Scripts : Run(s)
    <2>1. PICK s \in Scripts : Run(s)
      BY <1>1
    <2> DEFINE cs == <<>>
    <2>2. Enter(s, cs) /\ exception' = exception
      BY <2>1 DEF Run
    <2> HIDE DEF cs
    <2>. QED
      BY <2>2, EnterKeepsExceptions
  <1>2. CASE TimeOut \/ AssertionFails
    BY <1>2, NoFrameKeeps DEF TimeOut, AssertionFails
  <1>3. CASE Start
    <2>1. Active /\ top.at = "start" /\ exception' = exception /\ (Leave \/ frames' = frames)
      BY <1>3 DEF Start
    <2>. QED
      BY <2>1, LeaveKeepsExceptions, NoFrameKeeps
  <1>4. CASE Resume
    <2>1. Active /\ top.at = "call" /\ exception' = exception
      BY <1>4 DEF Resume
    <2>2. CASE top.frame = 0
      BY <1>4, <2>1, <2>2, NoFrameKeeps DEF Resume
    <2>3. CASE top.frame # 0
      <3> DEFINE to == frame.pc + 1
      <3>1. FrameBecomes([frame EXCEPT !.pc = to])
        BY <1>4, <2>3 DEF Resume
      <3>2. to \in Nat
        <4>1. frame \in FrameType
          BY <2>1, <2>3, LoopFacts
        <4>. QED
          BY <4>1 DEF FrameType
      <3> HIDE DEF to
      <3>. QED
        BY <2>1, <2>3, <3>1, <3>2, MoveKeepsExceptions
    <2>. QED
      BY <2>2, <2>3
  <1>5. CASE Free
    BY <1>5, FreeKeepsExceptions
  <1>6. CASE Error \/ Finish \/ OutOfRange
    <2>1. Active /\ top.at = "loop" /\ exception' = exception /\ Leave
      BY <1>6 DEF Error, Finish, OutOfRange, Running, InLoop
    <2>. QED
      BY <2>1, LeaveKeepsExceptions
  <1>7. CASE HandleException \/ ExitBlock
    BY <1>7, BlockStepKeepsExceptions
  <1>8. CASE Execute
    BY <1>8, ExecuteKeepsExceptions
  <1>. QED
    BY <1>1, <1>2, <1>3, <1>4, <1>5, <1>6, <1>7, <1>8 DEF Next, Step

\* Whatever code is loaded, as long as its actions decode: no exception is
\* lost.  It is in flight, or a finally clause keeps it, until a catch clause
\* has it, or the clause that keeps it returns or throws another one, unless
\* the block of the finally clause is turned away; and none is thrown by a
\* frame that has returned.
THEOREM ExceptionsAreAlwaysKept == Spec => ExceptionsAreKept
  <1>1. ScriptInv /\ [Next]_vars => [KeepsExceptions]_vars
    BY StepKeepsExceptions
  <1>. QED
    BY <1>1, ScriptAlwaysSound, PTL DEF Spec, ExceptionsAreKept, KeepsExceptions

=============================================================================
