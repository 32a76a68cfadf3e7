----------------------------- MODULE RouteSearch -----------------------------
(***************************************************************************)
(* How a route is found: CustomDPRouter and CachedRouter (router.cpp) and  *)
(* the search behind them (custom_graph_search.cpp), Dijkstra's or A*, of  *)
(* one thread that asks for one route after another.                       *)
(*                                                                         *)
(* A query stands for the slice and the arguments of find_routing_ancilla: *)
(* which cells may be routed through (free, or with EDPC those of routes   *)
(* that may be crossed), which pairs of cells are parted by a boundary     *)
(* that another route has reserved, the cells of the two patches, whether  *)
(* they were rotated, and the operators to be joined.  The route goes from *)
(* the target back to the source; only its cells are kept, each is joined  *)
(* to the ones before and after it.                                        *)
(***************************************************************************)
EXTENDS Integers, Sequences, FiniteSets

CONSTANTS
  furthest_cell,        \* the lower right cell of the layout
  Queries,              \* the k-th query is one of Queries[k]
  EpochValues,          \* bound: the numbers that an epoch may take, 2^32
  Simulated,            \* the second source when source and target are one
  NoRoute               \* std::nullopt

Cells == (0 .. furthest_cell[1]) \X (0 .. furthest_cell[2])

Vertices == Cells \cup {Simulated}

Operators == {"X", "Z"}

Query == [open : SUBSET Cells, walls : SUBSET (Cells \X Cells),
          source : Cells, target : Cells, rotated : SUBSET Cells,
          source_op : Operators, target_op : Operators]

ASSUME SearchAssumption ==
  /\ furthest_cell \in Nat \X Nat
  /\ EpochValues \in Nat \ {0, 1}
  /\ Simulated \notin Cells /\ NoRoute \notin Seq(Cells)
  /\ \A k \in DOMAIN Queries : \A q \in Queries[k] :
       q \in Query /\ q.source \notin q.open /\ q.target \notin q.open

VARIABLES
  router,               \* [cached, heuristic]: which router was chosen
  cached_routes,        \* CachedRouter's cached_routes_
  predecessor_map,      \* the thread's PredecessorBuffer, one for searches
                        \* with a simulated source and one for the others
  frontier,             \* what waits in the priority queue
  lowered,              \* the key of a vertex was lowered in this search
  control,              \* "idle", "searching", "tracing", "answered"
  query,                \* the query under way
  answer,
  asked                 \* history: the queries so far

searchVars == <<router, cached_routes, predecessor_map, frontier, lowered, control,
                query, answer, asked>>

-----------------------------------------------------------------------------
(* The graph. *)

Beside(c, d) == \/ c[1] = d[1] /\ c[2] - d[2] \in {-1, 1}
                \/ c[2] = d[2] /\ c[1] - d[1] \in {-1, 1}

(***************************************************************************)
(* The sides of a square patch that carry an operator: Z above and below,  *)
(* X left and right, until it is rotated.                                  *)
(***************************************************************************)
have_boundary_of_type_with(q, c, n, op) ==
  IF (op = "Z") = (c \notin q.rotated) THEN c[2] = n[2] ELSE c[1] = n[1]

have_directed_edge(q, a, b) ==
  /\ Beside(a, b)
  /\ \/ {a, b} \subseteq q.open /\ <<a, b>> \notin q.walls
     \/ /\ a \in q.open \cup {q.source} /\ b \in q.open \cup {q.target}
        /\ a = q.source \/ b = q.target
        /\ a = q.source => have_boundary_of_type_with(q, a, b, q.source_op)
        /\ b = q.target => have_boundary_of_type_with(q, b, a, q.target_op)

want_cycle(q) == q.source = q.target

Neighbours(q, v) == {n \in Cells : have_directed_edge(q, v, n)}

-----------------------------------------------------------------------------
(* The buffer. *)

Unused == [data |-> [v \in Vertices |-> [distance |-> 0, predecessor |-> v]],
           stamp |-> [v \in Vertices |-> 0],
           closed_stamp |-> [v \in Vertices |-> 0],
           epoch |-> 0]

(* Faulty: nothing is done when the epoch starts anew. *)
WrapsSilently(m) ==
  LET next == (m.epoch + 1) % EpochValues
  IN IF next # 0 THEN [m EXCEPT !.epoch = next] ELSE [m EXCEPT !.epoch = 1]

begin_epoch(m) ==
  LET next == (m.epoch + 1) % EpochValues
  IN IF next # 0 THEN [m EXCEPT !.epoch = next]
     ELSE [Unused EXCEPT !.data = m.data, !.epoch = 1]

is_set(m, v) == m.stamp[v] = m.epoch

is_closed(m, v) == m.closed_stamp[v] = m.epoch

close(m, v) == [m EXCEPT !.closed_stamp[v] = m.epoch]

predecessor(m, v) == IF is_set(m, v) THEN m.data[v].predecessor ELSE v

set(m, vertices, distance, pred) ==
  [m EXCEPT
     !.data = [v \in Vertices |-> IF v \in vertices
                 THEN [distance |-> distance, predecessor |-> pred] ELSE @[v]],
     !.stamp = [v \in Vertices |-> IF v \in vertices THEN m.epoch ELSE @[v]]]

(* Faulty: the roots are forgotten. *)
SumsAtMost(m, x, n, y) == m + x <= n + y

(***************************************************************************)
(* Keys of the queue: a distance and the square of a Euclidean distance to *)
(* the target, which is 0 without a heuristic.  AtMost compares the sums   *)
(* m + sqrt(x) and n + sqrt(y).                                            *)
(***************************************************************************)
AtMost(m, x, n, y) ==
  LET d == n - m
      r == IF d >= 0 THEN x - y - d * d ELSE y - x - d * d
  IN IF d >= 0 THEN r <= 0 \/ r * r <= 4 * d * d * y
     ELSE r >= 0 /\ 4 * d * d * x <= r * r

HeuristicSquared(q, c) ==
  IF router.heuristic = "None" THEN 0
  ELSE (c[1] - q.target[1]) * (c[1] - q.target[1])
         + (c[2] - q.target[2]) * (c[2] - q.target[2])

Buffer == predecessor_map[want_cycle(query)]

(***************************************************************************)
(* What std::priority_queue may have on top.  That is a vertex with the    *)
(* least key as long as keys do not change while they are in the queue;    *)
(* the search lowers them in place and does not restore the order of the   *)
(* heap, and after that it may be any vertex.                              *)
(***************************************************************************)
Top(v) ==
  \/ lowered
  \/ \A u \in frontier : AtMost(Buffer.data[v].distance, HeuristicSquared(query, v),
                                Buffer.data[u].distance, HeuristicSquared(query, u))

-----------------------------------------------------------------------------
SearchInit ==
  /\ router \in [cached : BOOLEAN, heuristic : {"None", "Euclidean"}]
  /\ cached_routes = <<>>
  /\ predecessor_map = [cycle \in BOOLEAN |-> Unused]
  /\ frontier = {}
  /\ lowered = FALSE
  /\ control = "idle"
  /\ query = NoRoute
  /\ answer = NoRoute
  /\ asked = <<>>

(* Faulty: the operators are no part of what a route is known by. *)
IdentifierOfCells(q) == <<q.source, q.target>>

PathIdentifier(q) == <<q.source, q.source_op, q.target, q.target_op>>

(***************************************************************************)
(* A search begins at the source or, if it has to come back there, at the  *)
(* cells around it.                                                        *)
(***************************************************************************)
Begin(q) ==
  LET m     == begin_epoch(predecessor_map[want_cycle(q)])
      first == Neighbours(q, q.source)
  IN /\ control' = "searching"
     /\ UNCHANGED answer
     /\ IF want_cycle(q)
          THEN /\ frontier' = first
               /\ predecessor_map' = [predecessor_map EXCEPT ![TRUE] =
                    set(set(m, {Simulated}, 0, Simulated), first, 1, Simulated)]
          ELSE /\ frontier' = {q.source}
               /\ predecessor_map' = [predecessor_map EXCEPT ![FALSE] =
                    set(m, {q.source}, 0, q.source)]

find_routing_ancilla(q) ==
  /\ control = "idle"
  /\ query' = q
  /\ asked' = Append(asked, q)
  /\ lowered' = FALSE
  /\ IF router.cached /\ PathIdentifier(q) \in DOMAIN cached_routes
       THEN /\ control' = "answered"
            /\ answer' = cached_routes[PathIdentifier(q)]
            /\ UNCHANGED <<predecessor_map, frontier>>
       ELSE Begin(q)
  /\ UNCHANGED <<router, cached_routes>>

Improves(m, v, n) ==
  ~is_set(m, n) \/ m.data[n].distance > m.data[v].distance + 1

(***************************************************************************)
(* The vertex on top leaves the queue.  What is better reached from it and *)
(* was reached before gets its new key where it is, in the queue or not.   *)
(***************************************************************************)
Pop ==
  /\ control = "searching"
  /\ \E v \in frontier :
       /\ Top(v)
       /\ LET m      == close(Buffer, v)
              better == {n \in Neighbours(query, v) : Improves(m, v, n)}
          IN IF is_closed(Buffer, v)
               THEN frontier' = frontier \ {v} /\ UNCHANGED <<predecessor_map, lowered, control>>
             ELSE IF v = query.target
               THEN /\ frontier' = {}
                    /\ predecessor_map' = [predecessor_map EXCEPT ![want_cycle(query)] = m]
                    /\ control' = "tracing"
                    /\ UNCHANGED lowered
             ELSE /\ frontier' = (frontier \ {v})
                       \cup {n \in better : ~is_set(m, n)}
                  /\ predecessor_map' = [predecessor_map EXCEPT ![want_cycle(query)] =
                       set(m, better, m.data[v].distance + 1, v)]
                  /\ lowered' = (lowered \/ \E n \in better : is_set(m, n))
                  /\ UNCHANGED control
  /\ UNCHANGED <<router, cached_routes, query, answer, asked>>

Exhaust ==
  /\ control = "searching" /\ frontier = {}
  /\ control' = "tracing"
  /\ UNCHANGED <<router, cached_routes, predecessor_map, frontier, lowered, query, answer, asked>>

(***************************************************************************)
(* The predecessors are followed from the target until one is its own.     *)
(***************************************************************************)
Back(m, target) ==
  LET back[k \in 0 .. Cardinality(Vertices)] ==
        IF k = 0 THEN target ELSE predecessor(m, back[k - 1])
  IN back

Trace(m, target) ==
  LET back == Back(m, target)
      stop == CHOOSE k \in 1 .. Cardinality(Vertices) :
                /\ predecessor(m, back[k]) = back[k]
                /\ \A j \in 1 .. (k - 1) : predecessor(m, back[j]) # back[j]
  IN [start |-> back[stop], cells |-> [k \in 1 .. (stop - 1) |-> back[k]]]

Answer ==
  /\ control = "tracing"
  /\ control' = "answered"
  /\ LET t == Trace(Buffer, query.target)
         found == t.start = (IF want_cycle(query) THEN Simulated ELSE query.source)
         known == PathIdentifier(query)
     IN /\ answer' = IF found THEN t.cells ELSE NoRoute
        /\ cached_routes' =
             IF router.cached /\ found
             THEN [i \in DOMAIN cached_routes \cup {known} |->
                     IF i = known THEN t.cells ELSE cached_routes[i]]
             ELSE cached_routes
  /\ UNCHANGED <<router, predecessor_map, frontier, lowered, query, asked>>

Continue ==
  /\ control = "answered"
  /\ control' = "idle"
  /\ query' = NoRoute
  /\ answer' = NoRoute
  /\ UNCHANGED <<router, cached_routes, predecessor_map, frontier, lowered, asked>>

SearchNext ==
  \/ \E k \in DOMAIN Queries :
       Len(asked) = k - 1 /\ \E q \in Queries[k] : find_routing_ancilla(q)
  \/ Pop \/ Exhaust \/ Answer \/ Continue

SearchSpec == SearchInit /\ [][SearchNext]_searchVars

-----------------------------------------------------------------------------
(***************************************************************************)
(* A walk from target to source through open cells and no walls, that      *)
(* meets both patches at sides with the right operators.                   *)
(***************************************************************************)
IsRoute(q, walk) ==
  LET whole == <<q.target>> \o walk \o <<q.source>>
  IN /\ \A k \in DOMAIN walk : walk[k] \in q.open
     /\ \A k \in 1 .. (Len(walk) - 1) : <<walk[k + 1], walk[k]>> \notin q.walls
     /\ Beside(q.target, whole[2]) /\ Beside(whole[Len(walk) + 1], q.source)
     /\ have_boundary_of_type_with(q, q.target, whole[2], q.target_op)
     /\ have_boundary_of_type_with(q, q.source, whole[Len(walk) + 1], q.source_op)
=============================================================================
