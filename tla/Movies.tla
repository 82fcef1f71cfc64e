------------------------------- MODULE Movies -------------------------------
(***************************************************************************)
(* The life of movies (swfdec_movie.c, swfdec_actor.c,                     *)
(* swfdec_sprite_movie.c): the display tree, the player's list of actors,  *)
(* the four queues of actions, and the frame iteration that walks over the *)
(* actors while what it does creates and destroys them.                    *)
(*                                                                         *)
(* Every movie here is a sprite.  A movie that is removed while it has an  *)
(* unload handler stays around, so that the handler can run; the iteration *)
(* destroys it.  When the player's timeouts fire is PlayerScheduler's      *)
(* business: here any of them may fire whenever the player is idle.        *)
(***************************************************************************)
EXTENDS Naturals, Sequences, SequencesExt, FiniteSets, FiniteSetsExt

CONSTANTS
    Movies,         \* identities of SwfdecMovie objects, each created once
    Root,           \* the movie at level 0
    None,           \* NULL
    MaxQueue        \* bound: how many actions are queued before one is run

ASSUME MovieAssumption == Root \in Movies /\ None \notin Movies
ASSUME FiniteAssumption == IsFiniteSet(Movies)
ASSUME QueueAssumption == MaxQueue \in Nat

VARIABLES
    stage,          \* the display tree, the actors and the queued actions
    phase,          \* what the player does
    running,        \* the action whose script runs, None for other scripts
    walk,           \* the loop variable of the loops over the actors
    resume,         \* the phase that follows when all actions are done
    born            \* history: the actors when the last iteration started

vars == <<stage, phase, running, walk, resume, born>>

Events == {"initialize", "construct", "load", "enter", "unload"}

\* SWFDEC_PLAYER_ACTION_QUEUE_*, and the queue of every event.
Queues == 0..3

\* Operators named Wrong... are faulty variants of the one that follows them:
\* each is what one of the properties below rules out.
Importance(event) == CASE event = "initialize" -> 0
                       [] event = "construct" -> 1
                       [] OTHER -> 2

Init == /\ stage = [state    |-> [m \in Movies |-> IF m = Root THEN "running" ELSE "unborn"],
                    parent   |-> [m \in Movies |-> None],
                    list     |-> [m \in Movies |-> <<>>],   \* by depth
                    roots    |-> <<Root>>,
                    actors   |-> <<Root>>,                  \* newest first
                    queue    |-> [i \in Queues |-> <<>>],
                    unload   |-> {},                        \* have an unload handler
                    timeline |-> {Root}]                    \* at a depth of the timeline
        /\ phase = "idle"
        /\ running = None
        /\ walk = None
        /\ resume = "idle"
        /\ born = {Root}

-----------------------------------------------------------------------------
(* Operations on a stage *)

\* swfdec_actor_queue_script.
QueueScript(s, m, event) ==
    [s EXCEPT !.queue[Importance(event)] = Append(@, <<m, event>>)]

WrongNewMovie(s, m, parent, depth, byTimeline) ==
    LET newest == [s EXCEPT !.state[m] = "running",
                            !.parent[m] = parent,
                            !.actors = Append(@, m),
                            !.timeline = IF byTimeline THEN @ \cup {m} ELSE @]
    IN  IF parent = None THEN [newest EXCEPT !.roots = InsertAt(@, depth, m)]
                         ELSE [newest EXCEPT !.list[parent] = InsertAt(@, depth, m)]

\* swfdec_movie_new: into the list of its parent (or the roots) at any depth,
\* and in front of all actors.
NewMovie(s, m, parent, depth, byTimeline) ==
    LET newest == [s EXCEPT !.state[m] = "running",
                           !.parent[m] = parent,
                           !.actors = <<m>> \o @,
                           !.timeline = IF byTimeline THEN @ \cup {m} ELSE @]
    IN  IF parent = None THEN [newest EXCEPT !.roots = InsertAt(@, depth, m)]
                         ELSE [newest EXCEPT !.list[parent] = InsertAt(@, depth, m)]

Siblings(s, parent) == IF parent = None THEN s.roots ELSE s.list[parent]
Depths(s, parent) == 1..Len(Siblings(s, parent)) + 1

Without(seq, gone) ==
    LET kept[i \in 0..Len(seq)] ==
            IF i = 0 THEN <<>>
            ELSE IF seq[i] \in gone THEN kept[i - 1] ELSE Append(kept[i - 1], seq[i])
    IN  kept[Len(seq)]

\* What some movies lead to: the least set with them that next leads not out of.
Reached(tops, next) ==
    LET closed == {X \in SUBSET Movies : tops \subseteq X /\ \A p \in X : next[p] \subseteq X}
    IN  {n \in Movies : \A X \in closed : n \in X}

\* The movies swfdec_movie_destroy visits, when it is called for all of tops.
Subtrees(s, tops) == Reached(tops, [p \in Movies |-> Range(s.list[p])])

WrongDestroy(s, tops) ==
    LET gone == Subtrees(s, tops)
    IN  [s EXCEPT
          !.state = [n \in Movies |-> IF n \in gone THEN "destroyed" ELSE s.state[n]],
          !.list = [n \in Movies |-> IF n \in gone THEN <<>> ELSE Without(s.list[n], tops)],
          !.roots = Without(@, tops),
          !.actors = Without(@, gone),
          !.queue = [i \in Queues |-> Without(s.queue[i], tops \X Events)]]

\* swfdec_movie_destroy: the movies and everything below them leave the tree, the
\* actors and (swfdec_player_remove_all_actions) the queues.
Destroy(s, tops) ==
    LET gone == Subtrees(s, tops)
    IN  [s EXCEPT
          !.state = [n \in Movies |-> IF n \in gone THEN "destroyed" ELSE s.state[n]],
          !.list = [n \in Movies |-> IF n \in gone THEN <<>> ELSE Without(s.list[n], tops)],
          !.roots = Without(@, tops),
          !.actors = Without(@, gone),
          !.queue = [i \in Queues |-> Without(s.queue[i], gone \X Events)]]

WrongRemoveOne(m, visit) ==
    LET s == [visit.stage EXCEPT !.state[m] = "removed"]
    IN  IF m \in s.unload THEN [visit EXCEPT !.stage = QueueScript(s, m, "unload")]
                          ELSE [visit EXCEPT !.stage = Destroy(s, {m})]

\* One visit of swfdec_movie_do_remove.  Once a movie with an unload handler
\* was met nothing is destroyed anymore, only marked.
RemoveOne(m, visit) ==
    LET s == [visit.stage EXCEPT !.state[m] = "removed"]
    IN  CASE m \in s.unload -> [stage |-> QueueScript(s, m, "unload"), destroy |-> FALSE]
          [] m \notin s.unload /\ visit.destroy -> [visit EXCEPT !.stage = Destroy(s, {m})]
          [] OTHER -> [visit EXCEPT !.stage = s]

\* The movie that is visited next: from m always on to the first child that was
\* not removed, as long as there is one.
Remaining(s, m) == {i \in DOMAIN s.list[m] : s.state[s.list[m][i]] = "running"}
NextVisit(s, m) ==
    LET first == [p \in Movies |-> IF Remaining(s, p) = {} THEN {}
                                   ELSE {s.list[p][Min(Remaining(s, p))]}]
    IN  CHOOSE n \in Reached({m}, first) : Remaining(s, n) = {}

\* swfdec_movie_remove, a visit at a time, m last.  The new depth of a movie that
\* was not destroyed, out of the timeline's, only matters among movies that are
\* already removed.
RemoveMovie(s, m) ==
    LET visits[i \in 0..Cardinality(Movies)] ==
            IF i = 0 THEN [stage |-> s, destroy |-> TRUE]
            ELSE LET last == visits[i - 1]
                 IN  IF last.stage.state[m] # "running" THEN last
                     ELSE RemoveOne(NextVisit(last.stage, m), last)
    IN  IF s.state[m] # "running" THEN s
        ELSE [visits[Cardinality(Movies)].stage EXCEPT !.timeline = @ \ {m}]

\* One after the other of those in the list.
RemoveAll(s, movies) ==
    LET after[i \in 0..Len(movies)] == IF i = 0 THEN s ELSE RemoveMovie(after[i - 1], movies[i])
    IN  after[Len(movies)]

-----------------------------------------------------------------------------
(* The timeline *)

Unborn == {m \in Movies : stage.state[m] = "unborn"}
Exists(m) == stage.state[m] \in {"running", "removed"}
Running(m) == stage.state[m] = "running"

\* A PlaceObject tag: the new movie gets its events.
Tags(s, m) == [new : Unborn, depth : Depths(s, m), handler : BOOLEAN]
PlaceTag(s, m, tag) ==
    LET new == tag.new
        placed == NewMovie(s, new, m, tag.depth, TRUE)
        events == [placed EXCEPT !.unload = IF tag.handler THEN @ \cup {new} ELSE @]
    IN  QueueScript(QueueScript(QueueScript(events, new, "initialize"), new, "construct"), new, "load")

\* The effects of swfdec_sprite_movie_goto on a running movie.  Forward: any
\* one tag of the frame.  Frames with more tags are several of these; the
\* scripts of DoAction tags are left out, enter handlers stand for them.
Built(s, m) == {s} \cup {PlaceTag(s, m, tag) : tag \in Tags(s, m)}
Forward(s, m) ==
    Built(s, m) \cup {RemoveMovie(s, c) : c \in Range(s.list[m]) \cap s.timeline}

\* Backward: the movies the timeline had placed are taken out of the list;
\* after the frame was built again, those it placed compatibly are put back
\* (the copy just placed is destroyed) and the others are removed.
Old(s, m) == Range(s.list[m]) \cap s.timeline
Split(s, m, kept) == [s EXCEPT !.list[m] = Without(@, Old(s, m) \ kept)]
RemoveOld(s, m, kept, split) ==
    RemoveAll(split, Without(s.list[m], Movies \ (Old(s, m) \ kept)))
Backward(s, m) ==
    UNION {{RemoveOld(s, m, kept, split) : split \in Built(Split(s, m, kept), m)} :
           kept \in SUBSET Old(s, m)}

Goto(s, m) == Forward(s, m) \cup Backward(s, m)

-----------------------------------------------------------------------------
(* What running scripts do.  A script refers to any movie that was not       *)
(* destroyed, removed ones included.                                         *)

Queued == UNION {Range(stage.queue[i]) : i \in Queues}
Length == Len(stage.queue[0]) + Len(stage.queue[1]) + Len(stage.queue[2]) + Len(stage.queue[3])
InScript == phase = "script" /\ Length <= MaxQueue

\* createEmptyMovieClip, and duplicateMovieClip and attachMovie, which queue
\* events; whoever is at that depth is removed first.  The constructor runs at
\* once, as part of the script.
CreateClip(m, parent, occupant, events) ==
    LET s == IF occupant = None THEN stage ELSE RemoveMovie(stage, occupant)
    IN  /\ InScript
        /\ m \in Unborn
        /\ Exists(parent)
        /\ occupant \in Range(stage.list[parent]) \cup {None}
        /\ \E depth \in Depths(s, parent), byTimeline \in BOOLEAN :
             LET new == NewMovie(s, m, parent, depth, byTimeline)
             IN  stage' = IF events THEN QueueScript(QueueScript(new, m, "initialize"), m, "load")
                                    ELSE new
        /\ UNCHANGED <<phase, running, walk, resume, born>>

\* removeMovieClip.
RemoveClip(m) == /\ InScript
                 /\ Running(m)
                 /\ m \notin stage.timeline
                 /\ stage' = RemoveMovie(stage, m)
                 /\ UNCHANGED <<phase, running, walk, resume, born>>

\* gotoAndPlay and all like it.
GotoFrame(m) == /\ InScript
                /\ Running(m)
                /\ stage' \in Goto(stage, m)
                /\ stage' # stage
                /\ UNCHANGED <<phase, running, walk, resume, born>>

\* onUnload is set or deleted.
SetHandler(m) == /\ InScript
                 /\ Exists(m)
                 /\ stage' = [stage EXCEPT !.unload = IF m \in @ THEN @ \ {m} ELSE @ \cup {m}]
                 /\ UNCHANGED <<phase, running, walk, resume, born>>

\* swapDepths with a sibling, or with a depth where there is nobody.
Place(s, parent, siblings) == IF parent = None THEN [s EXCEPT !.roots = siblings]
                                               ELSE [s EXCEPT !.list[parent] = siblings]
SwapWith(s, m, other) ==
    LET Other(n) == CASE n = m -> other [] n = other -> m [] OTHER -> n
        swapped == [i \in DOMAIN Siblings(s, s.parent[m]) |->
                      Other(Siblings(s, s.parent[m])[i])]
    IN  [Place(s, s.parent[m], swapped) EXCEPT !.timeline = {Other(n) : n \in s.timeline}]
MoveTo(s, m, depth, byTimeline) ==
    LET others == Without(Siblings(s, s.parent[m]), {m})
    IN  [Place(s, s.parent[m], InsertAt(others, depth, m))
           EXCEPT !.timeline = IF byTimeline THEN @ \cup {m} ELSE @ \ {m}]
SwapDepths(m) ==
    LET siblings == Siblings(stage, stage.parent[m])
    IN  /\ InScript
        /\ Exists(m)
        /\ Contains(siblings, m)
        /\ \/ \E other \in Range(siblings) \ {m} : stage' = SwapWith(stage, m, other)
           \/ \E depth \in DOMAIN siblings, byTimeline \in BOOLEAN :
                stage' = MoveTo(stage, m, depth, byTimeline)
        /\ UNCHANGED <<phase, running, walk, resume, born>>

\* loadMovie: swfdec_resource_replace_movie puts a new movie at the depth of
\* the old one, then removes that.
ReplaceMovie(m, new) ==
    LET siblings == Siblings(stage, stage.parent[m])
    IN  /\ InScript
        /\ Running(m)
        /\ new \in Unborn
        /\ Contains(siblings, m)
        /\ stage' = LET at == CHOOSE i \in DOMAIN siblings : siblings[i] = m
                        copy == NewMovie(stage, new, stage.parent[m], at, m \in stage.timeline)
                    IN  RemoveMovie(copy, m)
        /\ UNCHANGED <<phase, running, walk, resume, born>>

EndScript == /\ phase = "script"
             /\ phase' = "actions"
             /\ running' = None
             /\ UNCHANGED <<stage, walk, resume, born>>

-----------------------------------------------------------------------------
(* The player *)

\* swfdec_player_do_action: the first action of the first queue that has any.
\* swfdec_actor_execute ignores the enter event of a removed movie.
NextQueue == Min({i \in Queues : stage.queue[i] # <<>>})
RunAction ==
    /\ phase = "actions"
    /\ Queued # {}
    /\ LET action == Head(stage.queue[NextQueue])
           ignored == action[2] = "enter" /\ stage.state[action[1]] # "running"
       IN  /\ stage' = [stage EXCEPT !.queue[NextQueue] = Tail(@)]
           /\ running' = IF ignored THEN None ELSE action
           /\ phase' = IF ignored THEN "actions" ELSE "script"
    /\ UNCHANGED <<walk, resume, born>>

\* swfdec_player_perform_actions returns.
EndActions == /\ phase = "actions"
              /\ Queued = {}
              /\ phase' = resume
              /\ resume' = "idle"
              /\ walk' = IF resume = "end" THEN Head(stage.actors \o <<None>>) ELSE None
              /\ UNCHANGED <<stage, running, born>>

\* A timeout other than the iteration, an external action or a key event runs
\* a script.
CallScript == /\ phase = "idle"
              /\ phase' = "script"
              /\ UNCHANGED <<stage, running, walk, resume, born>>

\* swfdec_player_iterate; scripts of external actions are CallScript's.
StartIteration == /\ phase = "idle"
                  /\ phase' = "start"
                  /\ walk' = Head(stage.actors \o <<None>>)
                  /\ born' = Range(stage.actors)
                  /\ resume' = "end"
                  /\ UNCHANGED <<stage, running>>

\* walk->next, unless the actor is gone and its place in the list with it.
After(s, m) == IF ~Contains(s.actors, m) THEN m
               ELSE LET i == CHOOSE j \in DOMAIN s.actors : s.actors[j] = m
                    IN  (s.actors \o <<None>>)[i + 1]

\* swfdec_sprite_movie_iterate for one actor.
IterateStart ==
    /\ phase = "start"
    /\ walk # None
    /\ LET entered == QueueScript(stage, walk, "enter")
       IN  \/ ~Running(walk) /\ UNCHANGED stage
           \/ Running(walk) /\ stage' = entered
           \/ Running(walk) /\ stage' \in Goto(entered, walk)
    /\ walk' = After(stage', walk)
    /\ UNCHANGED <<phase, running, resume, born>>

StopIteration == /\ phase = "start"
                 /\ walk = None
                 /\ phase' = "actions"
                 /\ UNCHANGED <<stage, running, walk, resume, born>>

WrongIterateEndOrder ==
    /\ phase = "end"
    /\ walk # None
    /\ stage' = IF stage.parent[walk] = None \/ Running(walk) THEN stage
                ELSE Destroy(stage, {walk})
    /\ walk' = After(stage', walk)
    /\ UNCHANGED <<phase, running, resume, born>>
WrongIterateEndKeeps ==
    /\ phase = "end"
    /\ walk # None
    /\ walk' = After(stage, walk)
    /\ UNCHANGED <<stage, phase, running, resume, born>>

\* swfdec_actor_iterate_end for one actor: removed movies are destroyed now,
\* but never those at the root.
IterateEnd ==
    /\ phase = "end"
    /\ walk # None
    /\ walk' = After(stage, walk)
    /\ stage' = IF stage.parent[walk] = None \/ Running(walk) THEN stage
                ELSE Destroy(stage, {walk})
    /\ UNCHANGED <<phase, running, resume, born>>

\* onLoadInit and the replies to resource requests run scripts once more.
FinishIteration == /\ phase = "end"
                   /\ walk = None
                   /\ phase' = "script"
                   /\ UNCHANGED <<stage, running, walk, resume, born>>

\* swfdec_player_dispose: everything below the roots goes.
Dispose == /\ phase = "idle"
           /\ phase' = "disposed"
           /\ stage' = Destroy(stage, Range(stage.roots))
           /\ UNCHANGED <<running, walk, resume, born>>

Script == \/ \E m \in Movies :
               \/ \E parent \in Movies, occupant \in Movies \cup {None}, events \in BOOLEAN :
                    CreateClip(m, parent, occupant, events)
               \/ RemoveClip(m)
               \/ GotoFrame(m)
               \/ SetHandler(m)
               \/ SwapDepths(m)
               \/ \E new \in Movies : ReplaceMovie(m, new)

\* What the player does by itself once it was called.
Progress == EndScript \/ RunAction \/ EndActions \/ IterateStart \/ StopIteration
              \/ IterateEnd \/ FinishIteration

Next == Script \/ Progress \/ CallScript \/ StartIteration \/ Dispose

\* Scripts end, and the application keeps advancing a player it does not free.
Fairness == WF_vars(Progress) /\ SF_vars(StartIteration)

Spec == Init /\ [][Next]_vars /\ Fairness

-----------------------------------------------------------------------------
(* Properties *)

\* The state of every variable.
TypeOK == /\ stage.state \in [Movies -> {"unborn", "running", "removed", "destroyed"}]
          /\ stage.parent \in [Movies -> Movies \cup {None}]
          /\ stage.list \in [Movies -> Seq(Movies)]
          /\ stage.roots \in Seq(Movies)
          /\ stage.actors \in Seq(Movies)
          /\ stage.queue \in [Queues -> Seq(Movies \X Events)]
          /\ stage.unload \subseteq Movies
          /\ stage.timeline \subseteq Movies
          /\ phase \in {"idle", "script", "actions", "start", "end", "disposed"}
          /\ running \in (Movies \X Events) \cup {None}
          /\ walk \in Movies \cup {None}
          /\ resume \in {"idle", "end"}
          /\ born \subseteq Movies

\* A queued action always has an actor that was not destroyed: whatever
\* destroys a movie, at any depth of the tree, takes its actions back.  Its
\* unload handler is queued at most once, and only when it was removed; no step
\* revives a movie.  A movie the timeline placed runs its load handler only
\* after its initialize and construct handlers, in whichever order things were
\* queued.
ActionsHaveActors ==
    /\ \A a \in Queued : Exists(a[1])
    /\ \A m \in Movies :
         Cardinality({i \in DOMAIN stage.queue[2] : stage.queue[2][i] = <<m, "unload">>})
           <= (IF Running(m) THEN 0 ELSE 1)
    /\ running # None /\ running[2] = "load" =>
         {<<running[1], "initialize">>, <<running[1], "construct">>} \cap Queued = {}

\* The actors are exactly the movies that exist, and a movie comes before its
\* parent: what is done to a movie's children during a loop over the actors
\* never touches the rest of the list.  A running movie is in the list of its
\* parent, once: it is drawn, found by name and destroyed with its parent.
ChildrenComeFirst ==
    /\ TypeOK
    /\ IsInjective(stage.actors)
    /\ Range(stage.actors) = {m \in Movies : Exists(m)}
    /\ \A i, j \in DOMAIN stage.actors :
         stage.parent[stage.actors[i]] = stage.actors[j] => i < j
    /\ \A m \in Movies : Running(m) =>
          Cardinality({i \in DOMAIN Siblings(stage, stage.parent[m]) :
                         Siblings(stage, stage.parent[m])[i] = m}) = 1

\* The loops over the actors in swfdec_player_iterate never stand on an actor
\* that was destroyed under them, and meet every actor at most once: no movie
\* enters two frames in one iteration, and one that the iteration creates waits
\* for the next one.
LoopsStandOnActors ==
    /\ walk # None => Contains(stage.actors, walk)
    /\ \A m \in Movies :
          LET enters == {i \in DOMAIN stage.queue[2] : stage.queue[2][i] = <<m, "enter">>}
          IN  Cardinality(enters) <= (IF m \in born THEN 1 ELSE 0)

\* When a script or the timeline takes away a movie that has an unload handler,
\* even as part of another movie, the handler is queued and not lost with the
\* movie.  (Not so for a clip that was created inside of a removed movie: it
\* goes silently with that.)
Shown(m) == \A n \in Reached({m}, [p \in Movies |-> {stage.parent[p]} \ {None}]) : Running(n)
RemovalQueuesUnload ==
    [][\A m \in stage.unload :
         phase \in {"script", "start"} /\ stage'.state[m] # "running" /\ Shown(m)
           => Contains(stage'.queue[2], <<m, "unload">>)]_vars

\* A removed movie other than a root is destroyed in the end.
RemovedGetsDestroyed ==
    \A m \in Movies \ {Root} :
        stage.state[m] = "removed" /\ stage.parent[m] # None
          ~> (stage.state[m] = "destroyed" \/ phase = "disposed")

\* What swfdec_player_dispose asserts when the roots are destroyed: no actor is
\* left over.
DisposeLeavesNoActors == phase = "disposed" => stage.actors = <<>>

=============================================================================
