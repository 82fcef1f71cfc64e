------------------------------- MODULE Objects -------------------------------
(***************************************************************************)
(* Objects of scripts (swfdec_as_object.c) and the garbage collector that  *)
(* frees them (swfdec_as_context.c, swfdec_as_gcable.c).  An object has    *)
(* variables, a prototype, and watches: a watch is a function that is      *)
(* called when a variable is set and says which value it gets.  It runs in *)
(* the middle of swfdec_as_object_set_variable and may do with the object  *)
(* what it likes.                                                          *)
(*                                                                         *)
(* The version is 8.  A variable that is hidden in this version has the    *)
(* flag "later" (SWFDEC_AS_VARIABLE_VERSION_9_UP).  An object may be a     *)
(* function; object and function are allocated and freed on their own, so  *)
(* functions are a second set of the same names.  Movies, arrays and super *)
(* objects have code of their own in the functions below; it is left out.  *)
(***************************************************************************)
EXTENDS Naturals, Sequences, SequencesExt, FiniteSetsExt

CONSTANTS
    Objects,        \* the places in memory where objects can be
    Global,         \* the object that is always there
    Native,         \* a function that the program has made
    Names,          \* the names of variables
    NativeName,     \* the name of that function
    Proto,          \* the name __proto__
    Undefined,      \* a value that is no object
    Freed,          \* an object that was freed
    RecursionLimit, \* how many prototypes are followed, 256 in the code
    Watches,        \* the places in memory where watches can be
    WatchLimit,     \* how often a watch may be referenced, 65 in the code
    Uses,           \* bound: the objects and variables that scripts change
    FlagChanges,    \* bound: the flags that scripts change
    MaxChanges      \* bound: the changes made by scripts, new objects aside

\* What is found when there are too many prototypes.
TooDeep == "too deep"

ASSUME ObjectsAssumption ==
    /\ {Global, Native} \subseteq Objects /\ Global # Native
    /\ {Proto, NativeName} \subseteq Names /\ Proto # NativeName
    /\ {Undefined, Freed, TooDeep} \cap Objects = {} /\ Undefined \notin {Freed, TooDeep}
    /\ Uses \subseteq Objects \X Names
    /\ FlagChanges \subseteq {"constant", "permanent", "later"}
    /\ {RecursionLimit, WatchLimit, MaxChanges} \subseteq Nat \ {0}
    /\ IsFiniteSet(Objects) /\ Watches \subseteq Nat

VARIABLES
    heap,      \* the objects, functions and watches, and those that are free
    pending,   \* the calls of swfdec_as_object_set_variable whose watch runs
    aborted,   \* the context was aborted
    known,     \* the objects that the scripts of this event can get
    changes,   \* how many changes they made
    overruled  \* objects whose watch gave __proto__ another value than was set

objectVars == <<heap, pending, aborted, known, changes, overruled>>

\* What an object is when swfdec_as_object_new has made it.  Object and watches
\* that are free look like new ones.
NewObject == [properties |-> <<>>, prototype |-> Undefined, flags |-> {}, watches |-> <<>>]
NewVariable == [value |-> Undefined, get |-> Undefined, set |-> Undefined, flags |-> {}]
NewWatch == [refcount |-> 0, watch |-> Undefined, data |-> Undefined]

Put(f, n, v) == [m \in DOMAIN f \cup {n} |-> IF m = n THEN v ELSE f[m]]
Without(f, n) == [m \in DOMAIN f \ {n} |-> f[m]]

----------------------------------------------------------------------------
(***************************************************************************)
(* Looking up                                                              *)
(***************************************************************************)
Has(h, o, n) == n \in DOMAIN h.object[o].properties

Var(h, o, n) == h.object[o].properties[n]

\* swfdec_as_object_get_prototype: in version 8 the variable has to be there.
GetPrototype(h, o) ==
    IF "later" \in h.object[o].flags \/ ~Has(h, o, Proto)
    THEN Undefined ELSE h.object[o].prototype

\* Of the prototypes only those count where the variable has a getter.
LookupWithPrototype(h, o, n) ==
    LET chain[i \in 1..RecursionLimit] ==
            LET before == IF i = 1 THEN o ELSE chain[i - 1]
            IN  IF before = Undefined THEN Undefined ELSE GetPrototype(h, before)
        getters == {i \in 1..RecursionLimit :
                      /\ chain[i] # Undefined
                      /\ Has(h, chain[i], n)
                      /\ Var(h, chain[i], n).get # Undefined}
    IN  IF Has(h, o, n) THEN o
        ELSE IF n = Proto THEN Undefined
        ELSE IF getters # {} THEN chain[Min(getters)]
        ELSE IF chain[RecursionLimit] # Undefined THEN TooDeep
        ELSE Undefined

----------------------------------------------------------------------------
(***************************************************************************)
(* Setting a variable                                                      *)
(***************************************************************************)
\* Whose variable is set, given what the lookup found.
Target(h, o, n, found) ==
    IF found \in {o, Undefined, TooDeep} \/ "later" \in Var(h, found, n).flags
    THEN o ELSE found

\* The variable is created or made visible; when it was hidden its getter goes.
Prepared(h, at, n) ==
    LET old == IF Has(h, at, n) THEN Var(h, at, n) ELSE NewVariable
        plain == IF "later" \in old.flags
                 THEN [old EXCEPT !.get = Undefined, !.set = Undefined] ELSE old
        new == IF "constant" \in old.flags
               THEN plain ELSE [plain EXCEPT !.flags = @ \ {"later"}]
    IN  [h EXCEPT !.object[at].properties = Put(@, n, new)]

\* swfdec_as_watch_ref, swfdec_as_watch_unref and swfdec_as_watch_can_recurse
Ref(h, w) == [h EXCEPT !.watch[w].refcount = @ + 1]
Unref(h, w) ==
    IF h.watch[w].refcount = 1 THEN [h EXCEPT !.watch[w] = NewWatch]
    ELSE [h EXCEPT !.watch[w].refcount = @ - 1]
CanRecurse(h, w) == h.watch[w].refcount <= WatchLimit

\* The rest: the value is the watch's, the prototype is what was set.  If the
\* object has watches a variable with a getter is given a value, too.  Its
\* setter is called last, and is a script like any other.
Finished(h, o, n, at, hasWatches, set, value) ==
    LET var == IF hasWatches \/ Var(h, at, n).get = Undefined
               THEN [Var(h, at, n) EXCEPT !.value = value] ELSE Var(h, at, n)
        stored == [h EXCEPT !.object[at].properties[n] = var]
    IN  IF n # Proto THEN stored
        ELSE [stored EXCEPT !.object[o].prototype = set,
                            !.object[o].flags = IF set = Undefined THEN {} ELSE var.flags]

Overruled(o, n, set, value) ==
    IF n # Proto THEN overruled
    ELSE IF set = value THEN overruled \ {o} ELSE overruled \cup {o}

\* What a script that changes something can do it with.
Change ==
    /\ ~aborted
    /\ changes < MaxChanges
    /\ changes' = changes + 1

ValuesOf(objects) == objects \cup {Undefined}

\* swfdec_as_object_set_variable_and_flags, up to the call of the watch
SetVariable(o, n, v) ==
    LET found == LookupWithPrototype(heap, o, n)
        at == Target(heap, o, n, found)
        h == Prepared(heap, at, n)
        watches == heap.object[o].watches
    IN  /\ Change
        /\ aborted' = (found = TooDeep)
        /\ \/ /\ "constant" \in Var(h, at, n).flags
              /\ heap' = h
              /\ UNCHANGED <<pending, overruled>>
           \/ /\ "constant" \notin Var(h, at, n).flags
              /\ n \in DOMAIN watches /\ CanRecurse(h, watches[n])
              /\ heap' = Ref(h, watches[n])
              /\ pending' = Append(pending, [object |-> o, name |-> n, value |-> v,
                                         watch |-> watches[n]])
              /\ UNCHANGED overruled
           \/ /\ "constant" \notin Var(h, at, n).flags
              /\ ~(n \in DOMAIN watches /\ CanRecurse(h, watches[n]))
              /\ heap' = Finished(h, o, n, at, watches # <<>>, v, v)
              /\ overruled' = Overruled(o, n, v, v)
              /\ UNCHANGED pending
        /\ UNCHANGED known

\* A watch that removes the variable is not released.
WrongWatchReturns(value) ==
    LET call == Last(pending)
        found == LookupWithPrototype(heap, call.object, call.name)
        h == IF found \in {Undefined, TooDeep} THEN heap ELSE Unref(heap, call.watch)
    IN  /\ pending # <<>>
        /\ aborted => value = Undefined
        /\ pending' = Front(pending)
        /\ aborted' = (aborted \/ found = TooDeep)
        /\ \/ /\ found \in {Undefined, TooDeep}
              /\ heap' = h
              /\ UNCHANGED overruled
           \/ /\ found \notin {Undefined, TooDeep}
              /\ heap' = Finished(h, call.object, call.name, found, TRUE, call.value, value)
              /\ overruled' = Overruled(call.object, call.name, call.value, value)
        /\ UNCHANGED <<known, changes>>

\* swfdec_as_object_set_variable_and_flags, from there on
WatchReturns(value) ==
    LET call == Last(pending)
        h == Unref(heap, call.watch)
        found == LookupWithPrototype(h, call.object, call.name)
    IN  /\ pending # <<>>
        /\ aborted => value = Undefined
        /\ pending' = Front(pending)
        /\ aborted' = (aborted \/ found = TooDeep)
        /\ \/ /\ found \in {Undefined, TooDeep}
              /\ heap' = h
              /\ UNCHANGED overruled
           \/ /\ found \notin {Undefined, TooDeep}
              /\ heap' = Finished(h, call.object, call.name, found, TRUE, call.value, value)
              /\ overruled' = Overruled(call.object, call.name, call.value, value)
        /\ UNCHANGED <<known, changes>>

----------------------------------------------------------------------------
(***************************************************************************)
(* The other changes                                                       *)
(***************************************************************************)
\* swfdec_as_object_delete_variable: the prototype stays.
DeleteVariable(o, n) ==
    /\ Change
    /\ Has(heap, o, n) /\ "permanent" \notin Var(heap, o, n).flags
    /\ heap' = [heap EXCEPT !.object[o].properties = Without(@, n)]
    /\ UNCHANGED <<pending, aborted, known, overruled>>

\* swfdec_as_object_add_variable.  Nothing is done for __proto__, see the bounds.
AddVariable(o, n, get, set) ==
    LET var == IF Has(heap, o, n) THEN Var(heap, o, n) ELSE NewVariable
    IN  /\ Change
        /\ n # Proto
        /\ heap' = [heap EXCEPT !.object[o].properties =
                                   Put(@, n, [var EXCEPT !.get = get, !.set = set])]
        /\ UNCHANGED <<pending, aborted, known, overruled>>

\* The flags of the prototype are forgotten.
WrongChangeFlags(o, n, flags) ==
    /\ Change
    /\ Has(heap, o, n)
    /\ heap' = [heap EXCEPT !.object[o].properties[n].flags = flags]
    /\ UNCHANGED <<pending, aborted, known, overruled>>

\* ASSetPropFlags, with swfdec_as_object_set_variable_flags and _unset_.
ChangeFlags(o, n, flags) ==
    LET h == [heap EXCEPT !.object[o].properties[n].flags = flags]
    IN  /\ Change
        /\ Has(heap, o, n)
        /\ heap' = IF n = Proto THEN [h EXCEPT !.object[o].flags = flags] ELSE h
        /\ UNCHANGED <<pending, aborted, known, overruled>>

FreeWatches(h) == {w \in Watches : h.watch[w].refcount = 0}

\* swfdec_as_object_watch: a watch that is there gets another function.
AddWatch(o, n, function, data) ==
    LET old == heap.object[o].watches
    IN  /\ Change
        /\ \/ /\ n \in DOMAIN old
              /\ heap' = [heap EXCEPT !.watch[old[n]].watch = function,
                                      !.watch[old[n]].data = data]
           \/ /\ n \notin DOMAIN old
              /\ FreeWatches(heap) # {}
              /\ LET w == Min(FreeWatches(heap))
                     new == [refcount |-> 1, watch |-> function, data |-> data]
                 IN  heap' = [heap EXCEPT !.object[o].watches = Put(@, n, w), !.watch[w] = new]
        /\ UNCHANGED <<pending, aborted, known, overruled>>

\* swfdec_as_object_unwatch
Unwatch(o, n) ==
    /\ Change
    /\ ~(Has(heap, o, n) /\ Var(heap, o, n).get # Undefined)
    /\ n \in DOMAIN heap.object[o].watches
    /\ heap' = [Unref(heap, heap.object[o].watches[n]) EXCEPT
                  !.object[o].watches = Without(@, n)]
    /\ UNCHANGED <<pending, aborted, known, overruled>>

\* A function and its object: swfdec_as_object_new, swfdec_as_object_set_relay.
\* What is made here is a function always, it can be used as any object.
NewFunction(o) ==
    /\ ~aborted
    /\ o \notin heap.objects
    /\ heap' = [heap EXCEPT !.objects = @ \cup {o},
                            !.functions = @ \cup {o}]
    /\ known' = known \cup {o}
    /\ UNCHANGED <<pending, aborted, changes, overruled>>

----------------------------------------------------------------------------
(***************************************************************************)
(* Collecting garbage                                                      *)
(***************************************************************************)
AllNodes == {"object", "function"} \X Objects

\* What is reached from nodes along edges, a function from nodes to sets of them.
Closure(edges, nodes) ==
    LET reached[i \in 0..2 * Cardinality(Objects)] ==
            IF i = 0 THEN nodes
            ELSE LET before == reached[i - 1]
                 IN  before \cup UNION {edges[n] : n \in before}
    IN  reached[2 * Cardinality(Objects)]

Nodes(kind, values) == {<<kind, o>> : o \in values \ {Undefined, Freed}}

Properties(h, o) == {Var(h, o, n) : n \in DOMAIN h.object[o].properties}
WatchesOf(h, o) == {h.watch[h.object[o].watches[n]] : n \in DOMAIN h.object[o].watches}

\* The prototype is not marked, as __proto__ is a variable.
WrongMarkedWith(h, node) ==
    LET o == node[2]
    IN  IF node[1] = "function" THEN Nodes("object", {o})
        ELSE (UNION {IF var.get = Undefined THEN Nodes("object", {var.value})
                     ELSE Nodes("function", {var.get, var.set}) : var \in Properties(h, o)})
               \cup (UNION {Nodes("function", {w.watch}) \cup Nodes("object", {w.data}) :
                              w \in WatchesOf(h, o)})
               \cup Nodes("function", {o} \cap h.functions)

\* swfdec_as_object_mark and swfdec_as_relay_mark: what is marked with a node.
MarkedWith(h, node) ==
    LET o == node[2]
    IN  IF node[1] = "function" THEN Nodes("object", {o})
        ELSE Nodes("object", {h.object[o].prototype})
               \cup (UNION {IF var.get = Undefined THEN Nodes("object", {var.value})
                            ELSE Nodes("function", {var.get, var.set}) : var \in Properties(h, o)})
               \cup (UNION {Nodes("function", {w.watch}) \cup Nodes("object", {w.data}) :
                              w \in WatchesOf(h, o)})
               \cup Nodes("function", {o} \cap h.functions)

Marked(h) == Closure([node \in AllNodes |-> MarkedWith(h, node)], Nodes("object", {Global}))

\* swfdec_as_context_collect, with swfdec_as_object_free
Collected(h) ==
    LET objects == {o \in h.objects : <<"object", o>> \in Marked(h)}
        kept(v) == IF v \in h.objects \ objects THEN Freed ELSE v
        left(o) == [n \in DOMAIN h.object[o].properties |->
                       [Var(h, o, n) EXCEPT !.value = kept(Var(h, o, n).value)]]
        freed == UNION {Range(h.object[o].watches) : o \in h.objects \ objects}
    IN  [h EXCEPT !.objects = objects,
                  !.functions = {f \in h.functions : <<"function", f>> \in Marked(h)},
                  !.object = [o \in Objects |->
                     IF o \notin objects THEN NewObject
                     ELSE [h.object[o] EXCEPT !.properties = left(o)]],
                  !.watch = [w \in Watches |-> IF w \in freed THEN NewWatch ELSE h.watch[w]]]

\* What leads to what, for scripts: they read variables, call functions, and
\* follow prototypes.
Leads(h, node) ==
    LET object == h.object[node[2]]
        plain == {var \in Properties(h, node[2]) : var.get = Undefined}
        others == Properties(h, node[2]) \ plain
    IN  IF node[1] = "function" THEN Nodes("object", {node[2]})
        ELSE Nodes("object", {object.prototype} \cup {var.value : var \in plain}
                               \cup {w.data : w \in WatchesOf(h, node[2])})
             \cup Nodes("function", {var.get : var \in others} \cup {var.set : var \in others}
                               \cup {w.watch : w \in WatchesOf(h, node[2])}
                               \cup ({node[2]} \cap h.functions))

Reachable(h) == Closure([node \in AllNodes |-> Leads(h, node)], Nodes("object", {Global}))

Allocated(h) == Nodes("object", h.objects) \cup Nodes("function", h.functions)

\* The event is over (swfdec_player_unlock); swfdec_as_context_maybe_gc thinks
\* there is something to collect or not.
EndEvent ==
    /\ pending = <<>>
    /\ heap' \in IF aborted THEN {heap} ELSE {heap, Collected(heap)}
    /\ known' = {node[2] : node \in Reachable(heap)}
    /\ overruled' = overruled \cap heap'.objects
    /\ UNCHANGED <<pending, aborted, changes>>

----------------------------------------------------------------------------
\* swfdec_as_context_startup: native functions are variables of the global object.
ObjectsInit ==
    /\ heap = [objects |-> {Global, Native}, functions |-> {Native},
               object |-> [o \in Objects |->
                   IF o # Global THEN NewObject
                   ELSE [NewObject EXCEPT !.properties =
                           Put(<<>>, NativeName, [NewVariable EXCEPT !.value = Native])]],
               watch |-> [w \in Watches |-> NewWatch]]
    /\ pending = <<>> /\ aborted = FALSE
    /\ known = {Global, Native} /\ changes = 0 /\ overruled = {}

Functions == known \cap heap.functions

ScriptChanges ==
    \/ \E use \in Uses :
         LET o == use[1]  n == use[2]
         IN  /\ o \in known
             /\ \/ \E v \in ValuesOf(known) : SetVariable(o, n, v)
                \/ DeleteVariable(o, n)
                \/ \E get \in Functions :
                     \E set \in {get, Undefined} : AddVariable(o, n, get, set)
                \/ \E flags \in SUBSET FlagChanges : ChangeFlags(o, n, flags)
                \/ \E f \in Functions, data \in ValuesOf(Functions) : AddWatch(o, n, f, data)
                \/ Unwatch(o, n)
    \/ \E o \in Objects : NewFunction(o)

ObjectsNext ==
    \/ ScriptChanges
    \/ \E value \in ValuesOf(known) : WatchReturns(value)
    \/ EndEvent

ObjectsSpec == ObjectsInit /\ [][ObjectsNext]_objectVars

----------------------------------------------------------------------------
\* A variable without a getter has a value that was freed.
Dangles(h, o, n) == Has(h, o, n) /\ Var(h, o, n).value = Freed /\ Var(h, o, n).get = Undefined

\* A call is about a variable, and it is the last.
About(calls, o, n) == calls # <<>> /\ Last(calls).object = o /\ Last(calls).name = n

\* A value that was freed is there again for a variable that was hidden and had
\* a getter, and until the watch that may see it has returned.
FreedStaysHidden ==
    \A o \in Objects, n \in Names :
        Dangles(heap', o, n) =>
          IF Dangles(heap, o, n) THEN pending' = Front(pending) => ~About(pending, o, n)
          ELSE /\ Has(heap, o, n) /\ Var(heap, o, n).value = Freed
               /\ "later" \in Var(heap, o, n).flags
               /\ "constant" \in Var(heap, o, n).flags \/ About(pending', o, n)

\* Nothing is freed, or all that cannot be reached.
AllGarbageGoes ==
    \/ Allocated(heap) \subseteq Allocated(heap')
    \/ Allocated(heap') = Reachable(heap)

\* Nothing that a script can get is freed, and all else is: whatever was done
\* to variables, prototypes and watches, what is allocated leads only to what is
\* allocated, and garbage collection leaves nothing that cannot be reached,
\* objects that only refer to each other included.  The value a variable had
\* before it got a getter is not marked.  It is there again only when the
\* variable is hidden and set: for its watch to see, and until that returns, or
\* for good if it is constant.
GarbageGoes ==
    /\ [](\A node \in Allocated(heap) : Leads(heap, node) \subseteq Allocated(heap))
    /\ [][FreedStaysHidden]_objectVars
    /\ [][AllGarbageGoes]_objectVars

\* A watch is freed when it is neither listed nor running, and not before:
\* functions that remove or replace the watch that runs them change nothing
\* about it.  An object that is freed has no watch that runs (the assertion in
\* swfdec_as_object_steal_watches), and no watch runs too often.
WatchesAreCounted ==
    \A w \in Watches :
        LET listed == {use \in Objects \X Names :
                         /\ use[2] \in DOMAIN heap.object[use[1]].watches
                         /\ heap.object[use[1]].watches[use[2]] = w}
            running == {i \in DOMAIN pending : pending[i].watch = w}
        IN  /\ heap.watch[w].refcount = Cardinality(listed) + Cardinality(running)
            /\ Cardinality(listed) <= 1
            /\ Cardinality(running) <= WatchLimit

\* What __proto__ reads is the prototype that lookups follow, and so are its
\* flags, while no watch of __proto__ decides and unless one gave another value.
ChainFollowsVariable ==
    \A o \in heap.objects \ overruled :
        Has(heap, o, Proto)
            /\ (\A i \in DOMAIN pending : pending[i].object # o \/ pending[i].name # Proto)
        => /\ heap.object[o].prototype = Var(heap, o, Proto).value
           /\ heap.object[o].prototype # Undefined =>
                heap.object[o].flags = Var(heap, o, Proto).flags
=============================================================================
