---------------------------- MODULE DependencyDag ----------------------------
(***************************************************************************)
(* DependencyDag<LSInstruction> and the DirectedGraph beneath it           *)
(* (src/include/lsqecc/dag/, src/src/dag/), as functions of their state.   *)
(*                                                                         *)
(* Labels are handed out in increasing order and ordered_map keeps the     *)
(* order of insertion, so that a walk over the graph visits labels in      *)
(* increasing order.  The maps of a node to its successors (edges) and to  *)
(* its predecessors (back_edges) are two, as in the code.                  *)
(***************************************************************************)
EXTENDS Naturals, Sequences, SequencesExt

-----------------------------------------------------------------------------
(* DirectedGraph *)

EmptyGraph == [edges |-> <<>>, back_edges |-> <<>>]

Nodes(g) == DOMAIN g.edges

add_nodes(g, labels) ==
  LET with(f) == [l \in DOMAIN f \cup labels |-> IF l \in DOMAIN f THEN f[l] ELSE {}]
  IN [edges |-> with(g.edges), back_edges |-> with(g.back_edges)]

add_edges(g, pairs) ==
  [edges |-> [l \in Nodes(g) |-> g.edges[l] \cup {e[2] : e \in {f \in pairs : f[1] = l}}],
   back_edges |-> [l \in Nodes(g) |->
                     g.back_edges[l] \cup {e[1] : e \in {f \in pairs : f[2] = l}}]]

(* Faulty: those that waited for the node still do. *)
LeavesBackEdges(g, target) ==
  [edges |-> [l \in Nodes(g) \ {target} |-> g.edges[l] \ {target}],
   back_edges |-> [l \in Nodes(g) \ {target} |-> g.back_edges[l]]]

(***************************************************************************)
(* The code erases every edge of the target from the very set it iterates  *)
(* over (directed_graph.cpp:42-46), which the standard leaves undefined.   *)
(* The iterator is that of the deque under the ordered set.  It always     *)
(* erases the front, which libstdc++ pops without moving the others, and   *)
(* the end was read before the loop: each edge is visited once.            *)
(***************************************************************************)
remove_node(g, target) ==
  [edges |-> [l \in Nodes(g) \ {target} |->
                IF l \in g.back_edges[target] THEN g.edges[l] \ {target} ELSE g.edges[l]],
   back_edges |-> [l \in Nodes(g) \ {target} |->
                IF l \in g.edges[target] THEN g.back_edges[l] \ {target}
                ELSE g.back_edges[l]]]

(***************************************************************************)
(* The replacement is a chain: its first node takes over the predecessors  *)
(* of the target, its last one the successors.                             *)
(***************************************************************************)
graph_expand(g, target, replacement) ==
  add_edges(add_nodes(remove_node(g, target), Range(replacement)),
    {<<replacement[k - 1], replacement[k]>> : k \in 2 .. Len(replacement)}
      \cup {<<Last(replacement), to>> : to \in g.edges[target]}
      \cup {<<from, replacement[1]>> : from \in g.back_edges[target]})

graph_heads(g) == {l \in Nodes(g) : g.back_edges[l] = {}}

(***************************************************************************)
(* The nodes that topological_order_tails_first lists: those that its      *)
(* depth first walk reaches from the heads, which are the nodes of every   *)
(* set that holds the heads and the successors of what it holds.           *)
(***************************************************************************)
topological_order(g) ==
  {l \in Nodes(g) :
     \A reached \in SUBSET Nodes(g) :
       graph_heads(g) \subseteq reached /\ (\A m \in reached : g.edges[m] \subseteq reached)
         => l \in reached}

-----------------------------------------------------------------------------
(* DependencyDag *)

EmptyDag ==
  [graph |-> EmptyGraph,
   instructions |-> <<>>,               \* label -> instruction
   proximate_dependencies |-> {},
   proximate_heads |-> <<>>,            \* an ordered_set
   current_label |-> 0]

InOrder(labels) ==
  CHOOSE seq \in [1 .. Cardinality(labels) -> labels] :
    \A j, k \in 1 .. Cardinality(labels) : j < k => seq[j] < seq[k]

Inserted(seq, label) == IF Contains(seq, label) THEN seq ELSE Append(seq, label)

(* Faulty: a node that is gone stays among the proximate heads. *)
NotErased(seq, label) == seq

Erased(seq, label) == RemoveFirst(seq, label)

Without(f, label) == [l \in DOMAIN f \ {label} |-> f[l]]

(* Faulty: instructions commute unless they are on exactly the same patches. *)
can_commute_loose(a, b) == a.patches # b.patches

can_commute(a, b) == a.patches \cap b.patches = {}

(* Faulty: only the tails are asked. *)
tails_only(d, instruction) ==
  {l \in topological_order(d.graph) :
     d.graph.edges[l] = {} /\ ~can_commute(d.instructions[l], instruction)}

Dependencies(d, instruction) ==
  {l \in topological_order(d.graph) : ~can_commute(d.instructions[l], instruction)}

push_instruction_based_on_commutation(d, instruction) ==
  LET label == d.current_label
  IN [d EXCEPT
        !.graph = add_edges(add_nodes(@, {label}),
                            {<<l, label>> : l \in Dependencies(d, instruction)}),
        !.instructions = [l \in DOMAIN @ \cup {label} |->
                            IF l = label THEN instruction ELSE @[l]],
        !.current_label = @ + 1]

applicable_instructions(d) == InOrder(graph_heads(d.graph))

(***************************************************************************)
(* What the code inserts among the proximate heads are predecessors of the *)
(* popped node.  A head has none.                                          *)
(***************************************************************************)
pop_head(d, label) ==
  LET ahead == {l \in d.graph.back_edges[label] : <<l, label>> \in d.proximate_dependencies}
  IN [d EXCEPT
        !.graph = remove_node(@, label),
        !.instructions = Without(@, label),
        !.proximate_dependencies = @ \ {<<l, label>> : l \in ahead},
        !.proximate_heads = Erased(@ \o InOrder(ahead \ Range(@)), label)]

(***************************************************************************)
(* Replace a node by a chain of new ones, each of which has to run in the  *)
(* slice after its predecessor if the replacement is proximate.            *)
(***************************************************************************)
dag_expand(d, target, replacement, proximate) ==
  LET new == [k \in DOMAIN replacement |-> d.current_label + k - 1]
      renamed(e) == <<IF e[1] = target THEN Last(new) ELSE e[1],
                      IF e[2] = target THEN new[1] ELSE e[2]>>
  IN [d EXCEPT
        !.graph = graph_expand(@, target, new),
        !.instructions = [l \in DOMAIN @ \cup Range(new) |->
                            IF l \in DOMAIN @ THEN @[l]
                            ELSE replacement[l + 1 - d.current_label]],
        !.proximate_dependencies =
          {renamed(e) : e \in @}
            \cup {<<new[k - 1], new[k]>> : k \in IF proximate THEN 2 .. Len(new) ELSE {}},
        !.proximate_heads =
          IF Contains(@, target) THEN Inserted(Erased(@, target), new[1]) ELSE @,
        !.current_label = @ + Len(new)]

make_proximate(d, head) == [d EXCEPT !.proximate_heads = Inserted(@, head)]
=============================================================================
