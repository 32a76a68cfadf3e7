---------------------------- MODULE RouteAnswers ----------------------------
(***************************************************************************)
(* What the answers of RouteSearch are worth.  The reference is a plain    *)
(* one: all walks over the lattice.                                        *)
(***************************************************************************)
EXTENDS RouteSearch

Walks[n \in 0 .. Cardinality(Cells)] ==
  IF n = 0 THEN {<<>>}
  ELSE LET shorter == Walks[n - 1]
           longest == {w \in shorter : Len(w) = n - 1}
       IN shorter \cup {Append(w[1], w[2]) : w \in {x \in longest \X Cells :
                          /\ n > 1 => Beside(x[1][n - 1], x[2])
                          /\ \A k \in DOMAIN x[1] : x[1][k] # x[2]}}

AllWalks == Walks[Cardinality(Cells)]

Routes(q) == {walk \in AllWalks : IsRoute(q, walk)}

Searched(q) ==
  ~router.cached
    \/ \A k \in 1 .. (Len(asked) - 1) : PathIdentifier(asked[k]) # PathIdentifier(q)

(***************************************************************************)
(* However many searches have used the same arrays before, and also when   *)
(* the epochs have started anew, a search answers with a route of its own  *)
(* lattice if there is one.  It is a shortest one with Dijkstra's search,  *)
(* and with A* unless a key was lowered in the queue: what the comment on  *)
(* the closed set calls the staleness of the heap leaves a route, but not  *)
(* the certainty that none is shorter.                                     *)
(***************************************************************************)
AnswersShortest ==
  control = "answered" /\ Searched(query) =>
    LET routes == Routes(query)
    IN IF answer = NoRoute THEN routes = {}
       ELSE /\ answer \in routes
            /\ router.heuristic = "None" \/ ~lowered =>
                 \A r \in routes : Len(answer) <= Len(r)

(***************************************************************************)
(* The cached router may answer with a route that was found on an earlier  *)
(* lattice ("Assumes paths are always clear", router.hpp).  What it gives  *)
(* is a route as long as its cells are still clear and the patches have    *)
(* not been rotated since, also if another lattice was asked for the same  *)
(* route in between.                                                       *)
(***************************************************************************)
CachedIsRouteIfClear ==
  control = "answered" /\ answer # NoRoute
    /\ (\A k \in DOMAIN answer : answer[k] \in query.open)
    /\ (\A k \in DOMAIN asked : PathIdentifier(asked[k]) = PathIdentifier(query)
                                  => asked[k].rotated = query.rotated)
    /\ query.walls = {}
  => IsRoute(query, answer)

(***************************************************************************)
(* Both: what is found is right, and what is found again.                  *)
(***************************************************************************)
RightAnswers == AnswersShortest /\ CachedIsRouteIfClear
=============================================================================
