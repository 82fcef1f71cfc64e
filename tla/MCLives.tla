------------------------------- MODULE MCLives -------------------------------
(***************************************************************************)
(* What becomes of things in the end: movies that are removed, and a       *)
(* resource that is loaded.  The two share nothing: a behaviour is one of  *)
(* either.                                                                 *)
(***************************************************************************)
EXTENDS Resource

CONSTANTS r, a, b, None, Root, Movies, MaxQueue

VARIABLES stage, phase, running, walk, resume, born, part

Clips == INSTANCE MCMovies

clipVars == <<stage, phase, running, walk, resume, born>>
lifeVars == <<allVars, clipVars, part>>

\* Movies start in a tree of three that run.
LivesInit ==
    /\ part \in {"movies", "resource"}
    /\ ResourceInit /\ Clips!NestedInit
    /\ part = "movies" => resource.target = "root"

InResource(A) == part = "resource" /\ A /\ UNCHANGED <<clipVars, part>>
InMovies(A) == part = "movies" /\ A /\ UNCHANGED <<allVars, part>>

\* The fairness is that of ResourceSpec and of Movies.
LivesSpec ==
    /\ LivesInit
    /\ [][InResource(ResourceNext) \/ InMovies(Clips!Next)]_lifeVars
    /\ WF_lifeVars(InResource(\/ Step \/ Open \/ Detect \/ Round \/ Return \/ Close
                              \/ Fail \/ Failed))
    /\ WF_lifeVars(InResource(OnLoadInit))
    /\ WF_lifeVars(InMovies(Clips!Progress))
    /\ SF_lifeVars(InMovies(Clips!StartIteration))

-----------------------------------------------------------------------------
\* An iteration to come destroys a movie that was removed, see Movies.
RemovedGetsDestroyed == Clips!RemovedGetsDestroyed
=============================================================================
