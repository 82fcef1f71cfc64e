------------------------------- MODULE Drawing -------------------------------
(***************************************************************************)
(* What movies look like and what of it is drawn again: swfdec_movie.c     *)
(* caches the extents of every movie, and reports the areas that a movie   *)
(* covered before it is changed and that it covers after the scripts of an *)
(* event have run.  The application draws nothing else.                    *)
(*                                                                         *)
(* The stage is a row of points, a rectangle is the set of the points in   *)
(* it, and the matrix of a movie moves it along the row.                   *)
(***************************************************************************)
EXTENDS Integers, Sequences, FiniteSetsExt

CONSTANTS
    Clips,      \* the movies that scripts create and remove
    Stage,      \* the movie that they are created in, a root
    Width,      \* the number of points that are visible
    FirstShape, \* what is drawn in every movie of the first frame
    Shapes,     \* what scripts draw: rectangles that are not empty
    Places,    \* where they move movies to
    Depths,
    Nothing,    \* no movie
    MaxChanges  \* bound: how many things scripts change

ASSUME DrawingAssumption ==
    /\ Width \in Nat
    /\ IsFiniteSet(Clips)
    /\ Places \subseteq Nat /\ FirstShape \subseteq Nat
    /\ Shapes \subseteq (SUBSET Nat) \ {{}}
    /\ Stage \notin Clips /\ Nothing \notin Clips \cup {Stage}

\* SwfdecMovieCacheState: the numbers are compared.
UpToDate == 0
InvalidChildren == 1
InvalidExtents == 2

VARIABLES
    changes,    \* how many things scripts have changed
    movies,     \* the movies there are: a function to records
    pending,    \* invalid_pending
    invalid,    \* the points in the player's invalidations
    screen      \* what the application drew last at each point

drawingVars == <<changes, movies, pending, invalid, screen>>

Points == 0 .. Width - 1
Living == DOMAIN movies

NewMovie(parent, depth) ==
    [parent |-> parent, depth |-> depth, offset |-> 0, visible |-> TRUE,
     drawn |-> {},              \* the points that draws cover
     draw_extents |-> {},
     extents |-> {},
     cache_state |-> InvalidExtents,
     invalidate_last |-> TRUE]

-----------------------------------------------------------------------------
(* The tree of movies, and geometry *)

Children(tree, m) == {c \in DOMAIN tree : tree[c].parent = m}

\* A movie and all that it is in, up to the root.
Above(tree, m) ==
    LET above[x \in DOMAIN tree] ==
          {x} \cup (IF tree[x].parent = Nothing THEN {} ELSE above[tree[x].parent])
    IN  above[m]

\* A movie and all that is in it.
Family(tree, m) == {c \in DOMAIN tree : m \in Above(tree, c)}

\* From a movie down to one that is in it, with both ends.
Way(tree, m, c) == Above(tree, c) \cap Family(tree, m)

\* The least rectangle around some points.
Rect(points) == UNION {a .. b : a, b \in points}

Shift(points, d) == {p + d : p \in points}

SumOver(lengths) == MapThenSumSet(LAMBDA a : lengths[a], DOMAIN lengths)

\* Where a movie is on the stage: all matrices around it move it.
Origin(tree, m) == SumOver([a \in Above(tree, m) |-> tree[a].offset])

\* What swfdec_movie_do_invalidate reports of the movie itself.
Area(tree, m) == Points \cap Shift(tree[m].draw_extents, Origin(tree, m))

-----------------------------------------------------------------------------
(* Invalidation *)

WrongFresh(tree, m) == IF tree[m].invalidate_last THEN {} ELSE {m}

\* The movies that swfdec_movie_invalidate reports the old contents of: it
\* does not go into a movie that was reported already.
Fresh(tree, m) == {c \in Family(tree, m) : \A x \in Way(tree, m, c) : ~ tree[x].invalidate_last}

\* swfdec_movie_invalidate_last, in three parts: the flags, the list of pending
\* movies, and the points.
Marked(tree, m) == LET fresh == Fresh(tree, m)
                   IN  [c \in DOMAIN tree |->
                          [tree[c] EXCEPT !.invalidate_last = @ \/ c \in fresh]]

InvalidateLast(m) == /\ pending' = pending \cup Fresh(movies, m)
                     /\ invalid' = invalid \cup UNION {Area(movies, c) : c \in Fresh(movies, m)}

WrongQueueUpdate(tree, m, state) ==
    IF m = Nothing \/ tree[m].cache_state >= state THEN tree
    ELSE [tree EXCEPT ![m].cache_state = state]

\* The movies around m that are up to date, and all between them and m too.
Climbed(tree, m) ==
    {x \in Above(tree, m) \ {m} :
       \A y \in Way(tree, x, m) \ {m} : tree[y].cache_state = UpToDate}

\* swfdec_movie_queue_update climbs as long as it finds a better state.
QueueUpdate(tree, m, state) ==
    LET climbed == Climbed(tree, m)
    IN  IF tree[m].cache_state >= state THEN tree
        ELSE [c \in DOMAIN tree |->
                CASE c = m -> [tree[c] EXCEPT !.cache_state = state]
                  [] c \in climbed -> [tree[c] EXCEPT !.cache_state = InvalidChildren]
                  [] OTHER -> tree[c]]

-----------------------------------------------------------------------------
(* swfdec_movie_update *)

Outdated(tree) == {m \in DOMAIN tree : tree[m].cache_state # UpToDate}

\* An update starts as far up as all are out of date.
Topmost(tree, m) ==
    CHOOSE top \in Above(tree, m) : /\ Way(tree, top, m) \subseteq Outdated(tree)
                                    /\ tree[top].parent \notin Outdated(tree)

\* The movies that swfdec_movie_do_update brings up to date.
Visited(tree, m) == {c \in Family(tree, m) : Way(tree, m, c) \subseteq Outdated(tree)}

\* swfdec_movie_update_extents, from the movies inside to those around them: a
\* movie's extents are computed again if they are invalid, or if those of an
\* invalid movie in it were and it is not empty.
Computed(tree) ==
    LET computed[m \in Outdated(tree)] ==
          LET inside == Children(tree, m)
              invalidIn == inside \cap Outdated(tree)
              again == \/ tree[m].cache_state = InvalidExtents
                       \/ \E c \in invalidIn : computed[c].again /\ computed[c].extents # {}
              covered == (UNION {tree[c].extents : c \in inside \ invalidIn})
                           \cup (UNION {computed[c].extents : c \in invalidIn})
          IN  [again |-> again,
               extents |-> IF again
                           THEN Shift(Rect(tree[m].draw_extents \cup covered), tree[m].offset)
                           ELSE tree[m].extents]
    IN  computed

\* The movie is brought up to date, from the topmost invalid movie around it
\* on; a movie around that one has to be computed again.
Updated(tree, m) ==
    LET top == Topmost(tree, m)
        visited == Visited(tree, top)
        computed == Computed(tree)
        found == computed[top].again /\ computed[top].extents # {}
    IN  IF m \notin Outdated(tree) THEN tree
        ELSE [c \in DOMAIN tree |->
                CASE c \in visited ->
                       [tree[c] EXCEPT !.cache_state = UpToDate, !.extents = computed[c].extents]
                  [] c = tree[top].parent /\ found ->
                       [tree[c] EXCEPT !.cache_state = InvalidExtents]
                  [] OTHER -> tree[c]]

-----------------------------------------------------------------------------
(* What scripts and the timeline do *)

\* The tree without some movies and all that is in them: swfdec_movie_remove
\* invalidates and destroys them if no handler waits.  The extents of the
\* movies around them stay as they are.
Without(gone) == [c \in Living \ UNION {Family(movies, m) : m \in gone} |-> movies[c]]

AreasOf(gone) == UNION {UNION {Area(movies, c) : c \in Fresh(movies, m)} : m \in gone}

\* createEmptyMovieClip: a movie that is in this depth is removed for it.
Create(m, parent, depth) ==
    LET replaced == {c \in Children(movies, parent) : movies[c].depth = depth}
        tree == QueueUpdate(Without(replaced), parent, InvalidChildren)
    IN  /\ m \notin Living
        /\ movies' = [c \in DOMAIN tree \cup {m} |->
                        IF c = m THEN NewMovie(parent, depth) ELSE tree[c]]
        /\ pending' = (pending \cap DOMAIN tree) \cup {m}
        /\ invalid' = invalid \cup AreasOf(replaced)
        /\ UNCHANGED screen

RemoveMovie(m) == /\ m # Stage
                  /\ movies' = Without({m})
                  /\ pending' = pending \cap DOMAIN movies'
                  /\ invalid' = invalid \cup AreasOf({m})
                  /\ UNCHANGED screen

\* _x: swfdec_movie_begin_update_matrix and swfdec_movie_end_update_matrix.
Move(m, offset) ==
    /\ offset # movies[m].offset
    /\ InvalidateLast(m)
    /\ movies' = QueueUpdate([Marked(movies, m) EXCEPT ![m].offset = offset], m, InvalidExtents)
    /\ UNCHANGED screen

\* lineTo and the like: swfdec_spite_movie_recompute_draw.
Draw(m, shape) ==
    LET grown == Rect(movies[m].draw_extents \cup shape)
        tree == [Marked(movies, m) EXCEPT ![m].drawn = @ \cup shape, ![m].draw_extents = grown]
    IN  /\ InvalidateLast(m)
        /\ movies' = IF grown = movies[m].draw_extents THEN tree
                     ELSE QueueUpdate(tree, m, InvalidExtents)
        /\ UNCHANGED screen

\* clear
Clear(m) ==
    /\ movies[m].drawn # {}
    /\ InvalidateLast(m)
    /\ movies' = QueueUpdate([Marked(movies, m) EXCEPT ![m].drawn = {}, ![m].draw_extents = {}],
                             m, InvalidExtents)
    /\ UNCHANGED screen

\* _visible
SetVisible(m) ==
    /\ InvalidateLast(m)
    /\ movies' = [Marked(movies, m) EXCEPT ![m].visible = ~ @]
    /\ UNCHANGED screen

\* swapDepths with a movie of the same parent: swfdec_movie_set_depth of both.
SwapDepths(m, n) ==
    LET fresh == Fresh(movies, m) \cup Fresh(movies, n)
    IN  /\ m # n /\ movies[m].parent = movies[n].parent
        /\ pending' = pending \cup fresh
        /\ invalid' = invalid \cup UNION {Area(movies, c) : c \in fresh}
        /\ movies' = [Marked(Marked(movies, m), n) EXCEPT ![m].depth = movies[n].depth,
                                                          ![n].depth = movies[m].depth]
        /\ UNCHANGED screen

\* Whatever asks for _x, _width, getBounds and so on updates the movie first.
Measure(m) == /\ movies[m].cache_state # UpToDate
              /\ movies' = Updated(movies, m)
              /\ UNCHANGED <<pending, invalid, screen>>

-----------------------------------------------------------------------------
(* The end of an event *)

\* The movies that draw at a point: nothing around them is hidden.
Seen(tree, p) == {m \in DOMAIN tree : /\ \A a \in Above(tree, m) : tree[a].visible
                                      /\ p \in Shift(tree[m].drawn, Origin(tree, m))}

\* What a movie draws is below all that is in it, and siblings go by depth.
Beneath(tree, m, n) ==
    \/ m \in Above(tree, n)
    \/ \E a \in Above(tree, m), b \in Above(tree, n) :
         tree[a].parent = tree[b].parent /\ tree[a].depth < tree[b].depth

\* What is drawn at a point: who is, and what is beneath what.
Picture(tree, p) == {pair \in Seen(tree, p) \X Seen(tree, p) : Beneath(tree, pair[1], pair[2])}

UpdatedAll(tree, ms) ==
    LET updated[rest \in SUBSET ms] ==
          IF rest = {} THEN tree
          ELSE LET m == CHOOSE m \in rest : TRUE IN Updated(updated[rest \ {m}], m)
    IN  updated[ms]

\* swfdec_player_unlock: swfdec_player_update_movies brings the pending movies
\* up to date and invalidates the new contents of all that is in them.  The
\* application then draws the points of the invalidate signal.
Unlock ==
    LET tree == UpdatedAll(movies, pending)
        changed == UNION {Family(tree, m) : m \in pending}
        points == invalid \cup UNION {Area(tree, m) : m \in changed}
    IN  /\ movies' = [m \in Living |->
                        [tree[m] EXCEPT !.invalidate_last = @ /\ m \notin pending]]
        /\ pending' = {}
        /\ invalid' = {}
        /\ screen' = [p \in Points |-> IF p \in points THEN Picture(tree, p) ELSE screen[p]]

\* The timeline built the first frame: nesting says which movies it has, and
\* what they are in.  A movie is built before what is in it.
FirstFrame(nesting, depths) ==
    LET clips == DOMAIN nesting
        tree == [m \in clips \cup {Stage} |->
                   [IF m = Stage THEN NewMovie(Nothing, 0) ELSE NewMovie(nesting[m], depths[m])
                    EXCEPT !.drawn = FirstShape, !.draw_extents = Rect(FirstShape)]]
    IN  /\ \E order \in [clips -> 1 .. Cardinality(clips)] :
             \A m \in clips : nesting[m] \in clips => order[nesting[m]] < order[m]
        /\ \A m, n \in clips : m # n /\ nesting[m] = nesting[n] => depths[m] # depths[n]
        /\ movies = tree
        /\ pending = DOMAIN tree

DrawingInit ==
    /\ changes = 0
    /\ \E clips \in SUBSET Clips :
         \E nesting \in [clips -> clips \cup {Stage}], depths \in [clips -> Depths] :
           FirstFrame(nesting, depths)
    /\ invalid = Points
    /\ screen = [p \in Points |-> {}]

Change ==
    /\ changes < MaxChanges
    /\ changes' = changes + 1
    /\ \E m \in Living :
         \/ RemoveMovie(m)
         \/ Clear(m)
         \/ SetVisible(m)
         \/ \E offset \in Places : Move(m, offset)
         \/ \E shape \in Shapes : Draw(m, shape)
         \/ \E n \in Living : SwapDepths(m, n)
         \/ \E c \in Clips, depth \in Depths : Create(c, m, depth)

DrawingNext == \/ Change
               \/ (\E m \in Living : Measure(m)) /\ UNCHANGED changes
               \/ Unlock /\ UNCHANGED changes

DrawingSpec == DrawingInit /\ [][DrawingNext]_drawingVars

-----------------------------------------------------------------------------
(* Properties *)

\* Where the contents of a movie are, in its parent.
Covered(tree, m) ==
    Shift(tree[m].draw_extents \cup UNION {tree[c].extents : c \in Children(tree, m)},
          tree[m].offset)

\* The three states of the cache agree from parent to child: around a movie
\* that is out of date all are; one whose extents are invalid was invalidated
\* at its old place (the assertion of swfdec_movie_invalidate); the extents of
\* all others cover what is in the movie, and the list of pending movies is
\* that of the flags (swfdec_movie.c:262).
CachesAgree ==
    /\ pending = {m \in Living : movies[m].invalidate_last}
    /\ \A m \in Living :
         /\ movies[m].parent # Nothing /\ movies[m].cache_state # UpToDate =>
              movies[movies[m].parent].cache_state # UpToDate
         /\ movies[m].cache_state = InvalidExtents => movies[m].invalidate_last
         /\ movies[m].cache_state = UpToDate => Covered(movies, m) \subseteq movies[m].extents

\* When an event is over the screen shows what the movies look like: every
\* point at which anything changed was drawn again, whatever was moved, drawn,
\* hidden, created and removed, and in what order ("or the output will have
\* artifacts", swfdec_movie.c:134).
NoArtifacts ==
    pending = {} /\ invalid = {} => \A p \in Points : screen[p] = Picture(movies, p)
=============================================================================
