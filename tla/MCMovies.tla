------------------------------ MODULE MCMovies ------------------------------
(* Model values for Movies: the root, and movies that may be created in any  *)
(* place and in any order, which makes them symmetric.                       *)
EXTENDS Movies, TLC

CONSTANTS r, a, b

MovieSymmetry == Permutations(Movies \ {Root})

\* The movie b inside of a, both placed by the timeline and running already.
NestedInit ==
    /\ stage = [state    |-> [m \in Movies |-> "running"],
                parent   |-> (r :> None @@ a :> r @@ b :> a),
                list     |-> (r :> <<a>> @@ a :> <<b>> @@ b :> <<>>),
                roots    |-> <<r>>,
                actors   |-> <<b, a, r>>,
                queue    |-> [i \in Queues |-> <<>>],
                unload   |-> {},
                timeline |-> Movies]
    /\ phase = "idle"
    /\ running = None
    /\ walk = None
    /\ resume = "idle"
    /\ born = Movies

NestedSpec == NestedInit /\ [][Next]_vars /\ Fairness
=============================================================================
