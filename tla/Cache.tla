-------------------------------- MODULE Cache --------------------------------
(***************************************************************************)
(* The cache of decoded pictures: swfdec_cache.c keeps items in the order  *)
(* of their use and the sum of their sizes, and frees items when room is   *)
(* needed.  The renderer (swfdec_renderer.c) finds items by the object     *)
(* they were made for, in lists whose links become empty when an item is   *)
(* freed.  Images and the frames of embedded videos are kept next to each  *)
(* other, and of a NetStream only the last picture.                        *)
(***************************************************************************)
EXTENDS Integers, SequencesExt

CONSTANTS
    Images, Streams,    \* the keys: what pictures are made for
    Variants,           \* color transforms of an image, times of a stream
    Sizes,              \* sizes that pictures have
    MaxCacheSize,
    Items,              \* cached pictures, used again when they were freed
    Empty               \* a link of a list whose item was freed

ASSUME CacheAssumption == /\ MaxCacheSize \in Nat
                          /\ Sizes \subseteq Nat
                          /\ Empty \notin Items

Keys == Images \cup Streams

VARIABLES
    queue,      \* the items of the cache, the last used one in front
    cache_size, \* the sum of their sizes
    lookup,     \* for each key its list of items
    pictures    \* the items that are not freed: [variant, size]

cacheVars == <<queue, cache_size, lookup, pictures>>

CacheInit ==
    /\ queue = <<>>
    /\ cache_size = 0
    /\ lookup = [k \in Keys |-> <<>>]
    /\ pictures = <<>>

SumOfSizes(items) ==
    LET sum[n \in 0..Len(items)] ==
            IF n = 0 THEN 0 ELSE sum[n - 1] + pictures[items[n]].size
    IN  sum[Len(items)]

\* What is left of a list when only some items may stay in it.
Only(list, items) ==
    LET left[n \in 0..Len(list)] ==
            IF n = 0 THEN <<>>
            ELSE IF list[n] \in items THEN Append(left[n - 1], list[n]) ELSE left[n - 1]
    IN  left[Len(list)]

AllBut(list, items) == Only(list, ToSet(list) \ items)

\* What is left of the lists when items are freed.
WithoutItems(lists, items) ==
    [k \in Keys |-> [n \in DOMAIN lists[k] |->
                       IF lists[k][n] \in items THEN Empty ELSE lists[k][n]]]

\* swfdec_cache_shrink pops from the tail of q until the sum is not more than n.
Shrunk(q, sum, n) ==
    SubSeq(q, 1, Max({k \in 0..Len(q) :
                        sum - SumOfSizes(SubSeq(q, k + 1, Len(q))) <= n \/ k = 0}))

\* The links that swfdec_renderer_get_cache leaves: it stops at the item it
\* looks for, and forgets empty links on its way.
Searched(key, item) ==
    LET list == lookup[key]
        stop == IF item = Empty THEN Len(list)
                ELSE CHOOSE n \in DOMAIN list : list[n] = item
    IN AllBut(SubSeq(list, 1, stop), {Empty}) \o SubSeq(list, stop + 1, Len(list))

\* The item that swfdec_renderer_get_cache finds: of an image the one of this
\* variant, of a stream the first, which is used if it is of this time.
Found(key, variant) ==
    LET live == AllBut(lookup[key], {Empty})
        equal == Only(live, {i \in DOMAIN pictures : pictures[i].variant = variant})
    IN IF key \in Streams THEN IF live = <<>> THEN Empty ELSE Head(live)
       ELSE IF equal = <<>> THEN Empty ELSE Head(equal)

Hit(key, variant) ==
    Found(key, variant) # Empty /\ pictures[Found(key, variant)].variant = variant

\* The picture is in the cache: swfdec_cached_use.
UsePicture(key, variant) ==
    LET item == Found(key, variant)
    IN /\ Hit(key, variant)
       /\ lookup' = [lookup EXCEPT ![key] = Searched(key, item)]
       /\ queue' = <<item>> \o AllBut(queue, {item})
       /\ UNCHANGED <<cache_size, pictures>>

WrongRoom(needed) == MaxCacheSize

\* How much may be in the cache before a picture is added.
Room(needed) == MaxCacheSize - needed

\* The sum of sizes when items were taken out by swfdec_cached_unuse.
SizeWithout(items) == cache_size - SumOfSizes(items)

\* The picture is made and added: swfdec_renderer_add_cache, which lets go of
\* a stream's last one, then swfdec_cache_add.  If the picture is larger than
\* the cache, it is freed when the caller lets go of it.
AddPicture(key, variant, needed, item) ==
    LET list == Searched(key, Found(key, variant))
        replaced == IF key \in Streams THEN ToSet(list) \ {Empty} ELSE {}
        others == AllBut(queue, replaced)
        sum == SizeWithout(Only(queue, replaced))
        fits == needed <= MaxCacheSize
        kept == IF fits /\ Room(needed) < sum THEN Shrunk(others, sum, Room(needed)) ELSE others
        freed == ToSet(queue) \ ToSet(kept)
        links == <<item>> \o IF key \in Streams THEN <<>> ELSE list
    IN /\ ~Hit(key, variant)
       /\ item \notin DOMAIN pictures
       /\ queue' = IF fits THEN <<item>> \o kept ELSE kept
       /\ cache_size' = sum - SumOfSizes(Only(others, freed))
                      + (IF fits THEN needed ELSE 0)
       /\ lookup' = WithoutItems([lookup EXCEPT ![key] = links],
                                 IF fits THEN freed ELSE freed \cup {item})
       /\ pictures' =
            [i \in (DOMAIN pictures \ freed) \cup (IF fits THEN {item} ELSE {}) |->
               IF i = item THEN [variant |-> variant, size |-> needed] ELSE pictures[i]]

CacheNext == \E key \in Keys, variant \in Variants :
    \/ UsePicture(key, variant)
    \/ \E needed \in Sizes, item \in Items : AddPicture(key, variant, needed, item)

CacheSpec == CacheInit /\ [][CacheNext]_cacheVars

-----------------------------------------------------------------------------
(* Properties *)

\* The size of the cache is the sum of the sizes of what is in it and never
\* more than the maximum; what is in it is alive, and everything alive is in
\* it once and in one list; an image has one picture of each variant, and a
\* stream one in all.  Adding, freeing and looking up keep the three in step
\* (swfdec_cache.c:201, swfdec_renderer.c:233).
CacheAgrees ==
    /\ cache_size = SumOfSizes(queue)
    /\ cache_size <= MaxCacheSize
    /\ IsInjective(queue)
    /\ ToSet(queue) = DOMAIN pictures
    /\ \A i \in DOMAIN pictures :
         Cardinality(UNION {{k} \X {n \in DOMAIN lookup[k] : lookup[k][n] = i} : k \in Keys}) = 1
    /\ \A k \in Keys : \A m, n \in DOMAIN lookup[k] :
         lookup[k][m] # Empty /\ lookup[k][n] # Empty /\ m # n =>
           k \in Images /\ pictures[lookup[k][m]].variant # pictures[lookup[k][n]].variant
=============================================================================
