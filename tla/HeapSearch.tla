------------------------------ MODULE HeapSearch ------------------------------
(***************************************************************************)
(* A search of RouteSearch with its priority queue as the standard library *)
(* keeps it (std::priority_queue over a vector, libstdc++): a binary heap  *)
(* whose order rests on keys that the search lowers in place               *)
(* (custom_graph_search.cpp).  RouteSearch says only what the queue may    *)
(* give; here the vertex it gives and the order in which neighbours are    *)
(* pushed are those of the code, and nothing is left to choice.            *)
(***************************************************************************)
EXTENDS RouteAnswers, SequencesExt

VARIABLE heap           \* the vector of the priority queue, the top first

heapVars == <<searchVars, heap>>

-----------------------------------------------------------------------------
(* The heap. *)

(* Faulty: the lower key is the worse one. *)
ComesFirst(q, m, u, v) ==
  ~AtMost(m.data[v].distance, HeuristicSquared(q, v), m.data[u].distance, HeuristicSquared(q, u))

(***************************************************************************)
(* The comparator: u comes after v, by the keys of this moment.            *)
(***************************************************************************)
ComesAfter(q, m, u, v) ==
  ~AtMost(m.data[u].distance, HeuristicSquared(q, u), m.data[v].distance, HeuristicSquared(q, v))

(***************************************************************************)
(* From a hole on, everything that comes after v moves down.               *)
(***************************************************************************)
RECURSIVE push_heap(_, _, _, _, _)
push_heap(q, m, s, hole, v) ==
  LET parent == hole \div 2
  IN IF hole > 1 /\ ComesAfter(q, m, s[parent], v)
     THEN push_heap(q, m, [s EXCEPT ![hole] = s[parent]], parent, v)
     ELSE [s EXCEPT ![hole] = v]

(***************************************************************************)
(* The hole at the top sinks to a leaf, and what was last goes there.      *)
(***************************************************************************)
RECURSIVE adjust_heap(_, _, _, _, _)
adjust_heap(q, m, s, hole, last) ==
  LET children == {2 * hole, 2 * hole + 1} \cap DOMAIN s
      up == IF 2 * hole + 1 \in children /\ ~ComesAfter(q, m, s[2 * hole + 1], s[2 * hole])
            THEN 2 * hole + 1 ELSE 2 * hole
  IN IF children = {} THEN push_heap(q, m, s, hole, last)
     ELSE adjust_heap(q, m, [s EXCEPT ![hole] = s[up]], up, last)

push(q, m, s, v) == push_heap(q, m, Append(s, v), Len(s) + 1, v)

pop(q, m, s) == IF Len(s) = 1 THEN <<>> ELSE adjust_heap(q, m, Front(s), 1, Last(s))

-----------------------------------------------------------------------------
(***************************************************************************)
(* The cells above, below, left and right of one, and what is better       *)
(* reached from it, one after the other.                                   *)
(***************************************************************************)
Around(c) == <<<<c[1] - 1, c[2]>>, <<c[1] + 1, c[2]>>, <<c[1], c[2] - 1>>, <<c[1], c[2] + 1>>>>

Reached(q, v, at, n) ==
  LET better == set(at.map, {n}, at.map.data[v].distance + 1, v)
  IN IF n \notin Neighbours(q, v) \/ ~Improves(at.map, v, n) THEN at
     ELSE IF is_set(at.map, n) THEN [at EXCEPT !.map = better, !.lowered = TRUE]
     ELSE [at EXCEPT !.map = better, !.heap = push(q, better, @, n)]

Reach(q, m, s, v) ==
  FoldLeft(LAMBDA at, n : Reached(q, v, at, n),
           [map |-> m, heap |-> s, lowered |-> FALSE], Around(v))

HeapInit == SearchInit /\ heap = <<>>

HeapFind(q) ==
  /\ find_routing_ancilla(q)
  /\ heap' = IF control' = "answered" THEN heap
             ELSE IF ~want_cycle(q) THEN <<q.source>>
             ELSE FoldLeft(LAMBDA s, n : push(q, predecessor_map'[TRUE], s, n), <<>>,
                           SelectSeq(Around(q.source), LAMBDA n : n \in Neighbours(q, q.source)))

HeapPop ==
  /\ control = "searching" /\ heap # <<>>
  /\ LET v    == Head(heap)
         rest == pop(query, Buffer, heap)
         m    == close(Buffer, v)
         next == Reach(query, m, rest, v)
     IN IF is_closed(Buffer, v)
          THEN heap' = rest /\ UNCHANGED <<predecessor_map, lowered, control>>
        ELSE IF v = query.target
          THEN /\ heap' = <<>>
               /\ predecessor_map' = [predecessor_map EXCEPT ![want_cycle(query)] = m]
               /\ control' = "tracing"
               /\ UNCHANGED lowered
        ELSE /\ heap' = next.heap
             /\ predecessor_map' = [predecessor_map EXCEPT ![want_cycle(query)] = next.map]
             /\ lowered' = (lowered \/ next.lowered)
             /\ UNCHANGED control
  /\ frontier' = ToSet(heap')
  /\ UNCHANGED <<router, cached_routes, query, answer, asked>>

HeapNext ==
  \/ \E k \in DOMAIN Queries :
       Len(asked) = k - 1 /\ \E q \in Queries[k] : HeapFind(q)
  \/ HeapPop
  \/ UNCHANGED heap /\ (Exhaust \/ Answer \/ Continue)

HeapSpec == HeapInit /\ [][HeapNext]_heapVars

-----------------------------------------------------------------------------
(***************************************************************************)
(* The heap gives what RouteSearch allows it to - the least key until one  *)
(* is lowered, and always something that waits - and the steps through     *)
(* what is around a cell come to the step that is taken at once there.     *)
(***************************************************************************)
KeepsContract == SearchSpec

(***************************************************************************)
(* A* answers with a shortest route, as Dijkstra's search does, also on    *)
(* the lattices where it lowers keys in place and then pops a vertex that  *)
(* is not the least: "A* with the consistent Euclidean heuristic is        *)
(* otherwise fine" (custom_graph_search.cpp).                              *)
(***************************************************************************)
HeapShortest ==
  control = "answered" /\ Searched(query) /\ answer # NoRoute =>
    \A r \in Routes(query) : Len(answer) <= Len(r)
=============================================================================
