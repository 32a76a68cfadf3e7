-------------------------- MODULE DagSlices_proofs --------------------------
(***************************************************************************)
(* Proofs about DagSlices: the dependency graph remains the order of what  *)
(* is left of the program, the walks of next() are safe, and the dag       *)
(* pipeline implements PatchOrder.                                         *)
(*                                                                         *)
(* What the operations on the graph do to a head is stated by Popped and   *)
(* Replaced, what pushing an instruction does by Pushed; WellFormed is     *)
(* what all of them keep.  From these relations follows that each          *)
(* operation keeps OrderKept, the order of the program in the graph.       *)
(* DagInv, the inductive invariant, adds what the walks and the proximate  *)
(* heads are.                                                              *)
(***************************************************************************)
EXTENDS DagSlices, FiniteSetTheorems, SequenceTheorems, WellFoundedInduction, TLAPS

(* Lists of labels. *)

Distinct(seq) == \A j, k \in 1 .. Len(seq) : seq[j] = seq[k] => j = k

Increasing(seq, n) == \A j, k \in 1 .. n : j < k => seq[j] < seq[k]

\* A set of numbers has a least element.
LEMMA LeastNumber ==
  ASSUME NEW T, T \subseteq Nat, T # {}
  PROVE  \E m \in T : \A n \in T : m <= n
<1>1. PICK m \in T : \A n \in T : ~ (<<n, m>> \in OpToRel(<, Nat))
  BY NatLessThanWellFounded, WFMin
<1>2. ASSUME NEW n \in T
      PROVE  m <= n
  <2>1. ~ (n < m)
    BY <1>1 DEF OpToRel
  <2> QED
    BY <2>1
<1> QED
  BY <1>2

\* A finite set of labels can be listed in increasing order.
LEMMA SetIsListed ==
  ASSUME NEW S, S \subseteq Nat, IsFiniteSet(S)
  PROVE  \E seq \in [1 .. Cardinality(S) -> S] : Increasing(seq, Cardinality(S))
<1> DEFINE Listed(T) == \E seq \in [1 .. Cardinality(T) -> T] : Increasing(seq, Cardinality(T))
           Unlisted == {n \in Nat : \E T \in SUBSET Nat :
                          IsFiniteSet(T) /\ Cardinality(T) = n /\ ~ Listed(T)}
<1> SUFFICES Unlisted = {}
  BY FS_CardinalityType
<1> SUFFICES ASSUME Unlisted # {} PROVE FALSE
  OBVIOUS
<1>1. PICK m \in Unlisted : \A n \in Unlisted : m <= n
  <2> HIDE DEF Listed
  <2> QED
    BY LeastNumber
<1>2. PICK T \in SUBSET Nat : IsFiniteSet(T) /\ Cardinality(T) = m /\ ~ Listed(T)
  BY <1>1
<1>3. T # {}
  <2> SUFFICES ASSUME T = {} PROVE FALSE
    OBVIOUS
  <2>1. m = 0
    BY <1>2, FS_EmptySet
  <2>2. [j \in 1 .. 0 |-> j] \in [1 .. 0 -> T] /\ Increasing([j \in 1 .. 0 |-> j], 0)
    BY DEF Increasing
  <2> QED
    BY <1>2, <2>1, <2>2
<1>4. PICK e \in T : \A n \in T : e <= n
  BY <1>3, LeastNumber
<1>5. IsFiniteSet(T \ {e}) /\ Cardinality(T \ {e}) = m - 1 /\ m - 1 \in Nat
  <2>1. IsFiniteSet(T \ {e}) /\ Cardinality(T \ {e}) = Cardinality(T) - 1
    BY <1>2, <1>4, FS_RemoveElement
  <2>2. Cardinality(T \ {e}) \in Nat
    BY <2>1, FS_CardinalityType
  <2> QED
    BY <1>2, <2>1, <2>2
<1>6. PICK rest \in [1 .. m - 1 -> T \ {e}] : Increasing(rest, m - 1)
  <2>1. Listed(T \ {e})
    <3> HIDE DEF Listed
    <3>1. m - 1 \notin Unlisted
      BY <1>1, <1>5
    <3> QED
      BY <1>5, <3>1
  <2> QED
    BY <1>5, <2>1
<1> DEFINE seq == [j \in 1 .. m |-> IF j = 1 THEN e ELSE rest[j - 1]]
<1>7. seq \in [1 .. m -> T]
  BY <1>1, <1>4, <1>6
<1>8. Increasing(seq, m)
  <2> SUFFICES ASSUME NEW j \in 1 .. m, NEW k \in 1 .. m, j < k
               PROVE  seq[j] < seq[k]
    BY DEF Increasing
  <2>1. k - 1 \in 1 .. m - 1 /\ seq[k] = rest[k - 1] /\ rest[k - 1] \in T \ {e}
    BY <1>1, <1>6
  <2>2. CASE j = 1
    <3>1. seq[j] = e /\ e \in Nat /\ seq[k] \in Nat /\ seq[k] # e /\ e <= seq[k]
      BY <1>2, <1>4, <2>1, <2>2
    <3> QED
      BY <3>1
  <2>3. CASE j # 1
    BY <1>1, <1>6, <2>1, <2>3 DEF Increasing
  <2> QED
    BY <2>2, <2>3
<1> QED
  BY <1>2, <1>7, <1>8

\* A loop over a finite set of labels visits each of them once at most.
LEMMA InOrderLists ==
  ASSUME NEW S, S \subseteq Nat, IsFiniteSet(S)
  PROVE  /\ InOrder(S) \in Seq(Nat)
         /\ \A j \in 1 .. Len(InOrder(S)) : InOrder(S)[j] \in S
         /\ Distinct(InOrder(S))
<1> DEFINE n == Cardinality(S)
           seq == InOrder(S)
<1>1. n \in Nat
  BY FS_CardinalityType
<1>2. seq \in [1 .. n -> S] /\ Increasing(seq, n)
  BY SetIsListed DEF Increasing, InOrder
<1> HIDE DEF n, seq
<1>3. seq \in Seq(Nat) /\ Len(seq) = n
  <2>1. seq \in [1 .. n -> Nat]
    BY <1>2
  <2> QED
    BY <1>1, <2>1
<1>4. Distinct(seq)
  <2> SUFFICES ASSUME NEW j \in 1 .. n, NEW k \in 1 .. n, seq[j] = seq[k]
               PROVE  j = k
    BY <1>3 DEF Distinct
  <2>1. seq[j] \in Nat /\ seq[k] \in Nat
    BY <1>2
  <2>2. ~ (j < k) /\ ~ (k < j)
    BY <1>2, <2>1 DEF Increasing
  <2> QED
    BY <1>1, <2>2
<1> QED
  BY <1>2, <1>3, <1>4 DEF seq

\* The range of a list.
LEMMA ListRange ==
  ASSUME NEW seq \in Seq(Nat)
  PROVE  /\ DOMAIN seq = 1 .. Len(seq) /\ Len(seq) \in Nat
         /\ Range(seq) = {seq[j] : j \in 1 .. Len(seq)}
         /\ \A j \in 1 .. Len(seq) : seq[j] \in Nat
BY DEF Range

\* A list without its i-th element.
LEMMA RemovedAt ==
  ASSUME NEW seq \in Seq(Nat), NEW i \in 1 .. Len(seq)
  PROVE  /\ RemoveAt(seq, i) \in Seq(Nat)
         /\ Len(RemoveAt(seq, i)) = Len(seq) - 1
         /\ \A j \in 1 .. Len(seq) - 1 :
              RemoveAt(seq, i)[j] = IF j < i THEN seq[j] ELSE seq[j + 1]
<1> DEFINE n == Len(seq)
           left == SubSeq(seq, 1, i - 1)
           right == SubSeq(seq, i + 1, n)
           both == left \o right
<1>1. n \in Nat /\ i \in Nat /\ 1 <= i /\ i <= n
  OBVIOUS
<1>2. left \in Seq(Nat) /\ Len(left) = i - 1 /\ \A j \in 1 .. i - 1 : left[j] = seq[j]
  BY <1>1
<1>3. right \in Seq(Nat) /\ Len(right) = n - i /\ \A j \in 1 .. n - i : right[j] = seq[i + j]
  BY <1>1
<1>4. RemoveAt(seq, i) = both
  BY DEF RemoveAt
<1> HIDE DEF left, right
<1>5. /\ both \in Seq(Nat)
      /\ Len(both) = Len(left) + Len(right)
      /\ \A j \in 1 .. Len(left) + Len(right) :
           both[j] = IF j <= Len(left) THEN left[j] ELSE right[j - Len(left)]
  BY <1>2, <1>3, ConcatProperties
<1> HIDE DEF both, n
<1>6. ASSUME NEW j \in 1 .. n - 1
      PROVE  both[j] = IF j < i THEN seq[j] ELSE seq[j + 1]
  <2>1. CASE j < i
    <3>1. j \in 1 .. i - 1 /\ j \in 1 .. Len(left) + Len(right) /\ j <= Len(left)
      BY <1>1, <1>2, <1>3, <2>1
    <3> QED
      BY <1>2, <1>5, <2>1, <3>1
  <2>2. CASE ~ (j < i)
    <3>1. j - (i - 1) \in 1 .. n - i /\ i + (j - (i - 1)) = j + 1
      BY <1>1, <2>2
    <3> QED
      BY <1>1, <1>2, <1>3, <1>5, <2>2, <3>1
  <2> QED
    BY <2>1, <2>2
<1> QED
  BY <1>1, <1>2, <1>3, <1>4, <1>5, <1>6 DEF n

\* A list with one more element.
LEMMA LongerList ==
  ASSUME NEW seq \in Seq(Nat), NEW label \in Nat
  PROVE  /\ Append(seq, label) \in Seq(Nat)
         /\ Len(Append(seq, label)) = Len(seq) + 1
         /\ \A j \in 1 .. Len(seq) : Append(seq, label)[j] = seq[j]
         /\ Append(seq, label)[Len(seq) + 1] = label
OBVIOUS

\* A list that does not hold the label is left alone.
LEMMA ErasedNothing ==
  ASSUME NEW seq \in Seq(Nat), NEW label, \A j \in 1 .. Len(seq) : seq[j] # label
  PROVE  Erased(seq, label) = seq
BY DEF Erased, RemoveFirst

(***************************************************************************)
(* Erasing a label from a list without repetitions removes it and nothing  *)
(* else.                                                                   *)
(***************************************************************************)
LEMMA ErasedIsGone ==
  ASSUME NEW seq \in Seq(Nat), Distinct(seq), NEW label
  PROVE  /\ Erased(seq, label) \in Seq(Nat)
         /\ Distinct(Erased(seq, label))
         /\ Range(Erased(seq, label)) = Range(seq) \ {label}
<1>1. CASE \A j \in 1 .. Len(seq) : seq[j] # label
  BY <1>1, ErasedNothing DEF Range
<1>2. ASSUME NEW i \in 1 .. Len(seq), seq[i] = label
      PROVE  /\ Erased(seq, label) \in Seq(Nat)
             /\ Distinct(Erased(seq, label))
             /\ Range(Erased(seq, label)) = Range(seq) \ {label}
  <2> DEFINE n == Len(seq)
             left == RemoveAt(seq, i)
  <2>1. {j \in 1 .. Len(seq) : seq[j] = label} = {i}
    BY <1>2 DEF Distinct
  <2>2. Min({i}) = i
    BY DEF Min
  <2>3. SelectInSeq(seq, LAMBDA v : v = label) = i
    BY <2>1, <2>2 DEF SelectInSeq
  <2>4. Erased(seq, label) = left
    BY <1>2, <2>3 DEF Erased, RemoveFirst
  <2>5. /\ left \in Seq(Nat)
        /\ Len(left) = n - 1
        /\ \A j \in 1 .. n - 1 : left[j] = IF j < i THEN seq[j] ELSE seq[j + 1]
    BY RemovedAt
  <2>6. /\ n \in Nat /\ i \in 1 .. n
        /\ Range(seq) = {seq[j] : j \in 1 .. n}
        /\ Range(left) = {left[j] : j \in 1 .. n - 1}
        /\ \A j, k \in 1 .. n : seq[j] = seq[k] => j = k
    BY <2>5, ListRange DEF Distinct
  <2> HIDE DEF left, n
  <2>7. \A j, k \in 1 .. n - 1 : left[j] = left[k] => j = k
    <3> SUFFICES ASSUME NEW j \in 1 .. n - 1, NEW k \in 1 .. n - 1, left[j] = left[k]
                 PROVE  j = k
      OBVIOUS
    <3>1. j \in 1 .. n /\ j + 1 \in 1 .. n /\ k \in 1 .. n /\ k + 1 \in 1 .. n
      BY <2>6
    <3>2. CASE j < i /\ k < i
      BY <2>5, <2>6, <3>1, <3>2
    <3>3. CASE j < i /\ ~ (k < i)
      <4>1. j = k + 1
        BY <2>5, <2>6, <3>1, <3>3
      <4> QED
        BY <3>1, <3>3, <4>1
    <3>4. CASE ~ (j < i) /\ k < i
      <4>1. j + 1 = k
        BY <2>5, <2>6, <3>1, <3>4
      <4> QED
        BY <3>1, <3>4, <4>1
    <3>5. CASE ~ (j < i) /\ ~ (k < i)
      <4>1. j + 1 = k + 1
        BY <2>5, <2>6, <3>1, <3>5
      <4> QED
        BY <3>1, <4>1
    <3> QED
      BY <3>2, <3>3, <3>4, <3>5
  <2>8. ASSUME NEW j \in 1 .. n - 1
        PROVE  left[j] \in Range(seq) \ {label}
    <3>1. j \in 1 .. n /\ j + 1 \in 1 .. n
      BY <2>6
    <3>2. CASE j < i
      <4>1. left[j] = seq[j] /\ j # i
        BY <2>5, <2>6, <3>2
      <4> QED
        BY <1>2, <2>6, <3>1, <4>1
    <3>3. CASE ~ (j < i)
      <4>1. j + 1 # i
        BY <3>1, <3>3, <2>6
      <4> QED
        BY <1>2, <2>5, <2>6, <3>1, <3>3, <4>1
    <3> QED
      BY <3>2, <3>3
  <2>9. ASSUME NEW j \in 1 .. n, seq[j] # label
        PROVE  \E k \in 1 .. n - 1 : left[k] = seq[j]
    <3>1. CASE j < i
      <4>1. j \in 1 .. n - 1 /\ left[j] = seq[j]
        BY <2>5, <2>6, <3>1
      <4> QED
        BY <4>1
    <3>2. CASE j > i
      <4>1. j - 1 \in 1 .. n - 1 /\ left[j - 1] = seq[j]
        BY <2>5, <2>6, <3>2
      <4> QED
        BY <4>1
    <3> QED
      BY <1>2, <2>6, <2>9, <3>1, <3>2
  <2>10. Range(left) = Range(seq) \ {label}
    <3>1. Range(left) \subseteq Range(seq) \ {label}
      BY <2>6, <2>8
    <3>2. Range(seq) \ {label} \subseteq Range(left)
      <4> SUFFICES ASSUME NEW j \in 1 .. n, seq[j] # label
                   PROVE  seq[j] \in Range(left)
        BY <2>6
      <4> QED
        BY <2>6, <2>9
    <3> QED
      BY <3>1, <3>2
  <2>11. Distinct(left)
    BY <2>5, <2>7 DEF Distinct
  <2> QED
    BY <2>4, <2>5, <2>10, <2>11
<1> QED
  BY <1>1, <1>2

\* A label is inserted at the end of a list that does not hold it yet.
LEMMA InsertedIsLast ==
  ASSUME NEW seq \in Seq(Nat), Distinct(seq), NEW label \in Nat
  PROVE  /\ Inserted(seq, label) \in Seq(Nat)
         /\ Distinct(Inserted(seq, label))
         /\ Range(Inserted(seq, label)) = Range(seq) \cup {label}
<1>1. CASE \E j \in 1 .. Len(seq) : seq[j] = label
  BY <1>1 DEF Inserted, Contains, Range
<1>2. CASE ~ \E j \in 1 .. Len(seq) : seq[j] = label
  <2> DEFINE longer == Append(seq, label)
             n == Len(seq)
  <2>1. Inserted(seq, label) = longer
    BY <1>2 DEF Inserted, Contains
  <2>2. /\ longer \in Seq(Nat)
        /\ Len(longer) = n + 1
        /\ \A j \in 1 .. n : longer[j] = seq[j]
        /\ longer[n + 1] = label
    BY LongerList
  <2>3. /\ n \in Nat
        /\ Range(seq) = {seq[j] : j \in 1 .. n}
        /\ Range(longer) = {longer[j] : j \in 1 .. n + 1}
        /\ \A j, k \in 1 .. n : seq[j] = seq[k] => j = k
    BY <2>2, ListRange DEF Distinct
  <2> HIDE DEF longer, n
  <2>4. \A j \in 1 .. n : j \in 1 .. n + 1 /\ seq[j] # label
    BY <1>2, <2>3 DEF n
  <2>5. n + 1 \in 1 .. n + 1 /\ \A j \in 1 .. n + 1 : j \in 1 .. n \/ j = n + 1
    BY <2>3
  <2>6. Range(longer) = Range(seq) \cup {label}
    BY <2>2, <2>3, <2>4, <2>5
  <2>7. \A j, k \in 1 .. n + 1 : longer[j] = longer[k] => j = k
    BY <2>2, <2>3, <2>4, <2>5
  <2>8. Distinct(longer)
    BY <2>2, <2>7 DEF Distinct
  <2> QED
    BY <2>1, <2>2, <2>6, <2>8
<1> QED
  BY <1>1, <1>2

-----------------------------------------------------------------------------
(* The operations of the graph that the pipeline uses. *)

(***************************************************************************)
(* What the operations on the graph keep: the two maps of edges are over   *)
(* the same nodes and mirror each other, every node has an instruction,    *)
(* and labels are handed out in increasing order.                          *)
(***************************************************************************)
LabelMap(f, S) == DOMAIN f \subseteq Nat /\ f \in [DOMAIN f -> S]

Entry == [kind : Kinds, patches : SUBSET Patches, stage : Nat, root : Nat]

IsDag(d) ==
  /\ d = [graph |-> [edges |-> d.graph.edges, back_edges |-> d.graph.back_edges],
          instructions |-> d.instructions,
          proximate_dependencies |-> {},
          proximate_heads |-> d.proximate_heads,
          current_label |-> d.current_label]
  /\ LabelMap(d.graph.edges, SUBSET Nat)
  /\ LabelMap(d.graph.back_edges, SUBSET Nat)
  /\ LabelMap(d.instructions, Entry)
  /\ d.proximate_heads \in Seq(Nat)
  /\ d.current_label \in Nat

WellFormed(d) ==
  /\ IsDag(d)
  /\ DOMAIN d.graph.back_edges = DOMAIN d.graph.edges
  /\ DOMAIN d.graph.edges \subseteq DOMAIN d.instructions
  /\ \A l \in DOMAIN d.instructions : l < d.current_label
  /\ \A l \in DOMAIN d.graph.edges : /\ d.graph.edges[l] \subseteq DOMAIN d.graph.edges
                                     /\ d.graph.back_edges[l] \subseteq DOMAIN d.graph.edges
  /\ \A l, m \in DOMAIN d.graph.edges :
       m \in d.graph.edges[l] <=> l \in d.graph.back_edges[m]
  /\ Distinct(d.proximate_heads)

\* e is d without the head h.
Popped(d, e, h) ==
  /\ DOMAIN e.graph.edges = DOMAIN d.graph.edges \ {h}
  /\ \A l \in DOMAIN d.graph.edges \ {h} :
       /\ e.graph.edges[l] = d.graph.edges[l]
       /\ e.graph.back_edges[l] = d.graph.back_edges[l] \ {h}
       /\ e.instructions[l] = d.instructions[l]
  /\ e.proximate_heads = Erased(d.proximate_heads, h)

\* e is d with the instruction ins in the place of the head h.
Replaced(d, e, h, ins) ==
  /\ DOMAIN e.graph.edges = (DOMAIN d.graph.edges \ {h}) \cup {d.current_label}
  /\ e.graph.edges[d.current_label] = d.graph.edges[h]
  /\ e.graph.back_edges[d.current_label] = {}
  /\ e.instructions[d.current_label] = ins
  /\ \A l \in DOMAIN d.graph.edges \ {h} :
       /\ e.graph.edges[l] = d.graph.edges[l]
       /\ e.graph.back_edges[l] =
            IF l \in d.graph.edges[h] THEN (d.graph.back_edges[l] \ {h}) \cup {d.current_label}
            ELSE d.graph.back_edges[l]
       /\ e.instructions[l] = d.instructions[l]
  /\ e.proximate_heads = Inserted(Erased(d.proximate_heads, h), d.current_label)

\* e is d with the instruction ins behind those of the set ahead.
Pushed(d, e, ahead, ins) ==
  /\ DOMAIN e.graph.edges = DOMAIN d.graph.edges \cup {d.current_label}
  /\ e.graph.edges[d.current_label] = {}
  /\ e.graph.back_edges[d.current_label] = ahead
  /\ e.instructions[d.current_label] = ins
  /\ \A l \in DOMAIN d.graph.edges :
       /\ e.graph.edges[l] = d.graph.edges[l] \cup (IF l \in ahead THEN {d.current_label} ELSE {})
       /\ e.graph.back_edges[l] = d.graph.back_edges[l]
       /\ e.instructions[l] = d.instructions[l]
  /\ e.proximate_heads = d.proximate_heads

\* The nodes of the graph are finitely many.
LEMMA FiniteNodes ==
  ASSUME NEW d, WellFormed(d)
  PROVE  /\ DOMAIN d.graph.edges \subseteq Nat
         /\ IsFiniteSet(DOMAIN d.graph.edges)
<1>1. /\ DOMAIN d.graph.edges \subseteq Nat /\ d.current_label \in Nat
      /\ \A l \in DOMAIN d.graph.edges : l <= d.current_label
  BY DEF WellFormed, IsDag, LabelMap
<1> QED
  BY <1>1, FS_BoundedSetOfNaturals

\* Nothing is among the members of the empty set.
LEMMA EmptyListed ==
  InOrder({}) = << >>
<1>1. InOrder({}) \in Seq(Nat) /\ \A j \in 1 .. Len(InOrder({})) : InOrder({})[j] \in {}
  BY InOrderLists, FS_EmptySet
<1> QED
  BY <1>1

\* pop_head of a node that waits for nothing.
LEMMA PopHead ==
  ASSUME NEW d, WellFormed(d), NEW h \in DOMAIN d.graph.edges, d.graph.back_edges[h] = {}
  PROVE  Popped(d, pop_head(d, h), h) /\ WellFormed(pop_head(d, h))
<1> DEFINE ed == d.graph.edges
           ba == d.graph.back_edges
           nodes == DOMAIN d.graph.edges
           nodes2 == nodes \ {h}
           ed2 == [l \in nodes2 |-> IF l \in ba[h] THEN ed[l] \ {h} ELSE ed[l]]
           ba2 == [l \in nodes2 |-> IF l \in ed[h] THEN ba[l] \ {h} ELSE ba[l]]
           in2 == [l \in DOMAIN d.instructions \ {h} |-> d.instructions[l]]
           heads2 == Erased(d.proximate_heads, h)
           e == [graph |-> [edges |-> ed2, back_edges |-> ba2],
                 instructions |-> in2,
                 proximate_dependencies |-> {},
                 proximate_heads |-> heads2,
                 current_label |-> d.current_label]
<1>1. /\ LabelMap(ed, SUBSET Nat) /\ LabelMap(ba, SUBSET Nat)
      /\ LabelMap(d.instructions, Entry)
      /\ d.proximate_heads \in Seq(Nat) /\ Distinct(d.proximate_heads)
      /\ d.current_label \in Nat /\ d.proximate_dependencies = {}
      /\ DOMAIN ba = nodes /\ nodes \subseteq DOMAIN d.instructions
      /\ \A l \in DOMAIN d.instructions : l < d.current_label
      /\ \A l \in nodes : ed[l] \subseteq nodes /\ ba[l] \subseteq nodes
      /\ \A l, m \in nodes : m \in ed[l] <=> l \in ba[m]
  BY DEF WellFormed, IsDag
<1>2. pop_head(d, h) = e
  <2>1. d.proximate_heads \o InOrder({}) = d.proximate_heads
    BY <1>1, EmptyListed, ConcatEmptySeq
  <2>2. {l \in d.graph.back_edges[h] : <<l, h>> \in d.proximate_dependencies} = {}
    BY <1>1
  <2>3. pop_head(d, h) = [d EXCEPT !.graph = remove_node(@, h),
                                   !.instructions = Without(@, h),
                                   !.proximate_dependencies = @ \ {},
                                   !.proximate_heads = Erased(@ \o InOrder({}), h)]
    BY <2>2 DEF pop_head
  <2>4. remove_node(d.graph, h) = [edges |-> ed2, back_edges |-> ba2]
    BY DEF remove_node, Nodes
  <2>5. Without(d.instructions, h) = in2
    BY DEF Without
  <2> HIDE DEF ed, ba, nodes, nodes2, ed2, ba2, in2, heads2
  <2> QED
    BY <1>1, <2>1, <2>3, <2>4, <2>5 DEF WellFormed, IsDag, heads2
<1>3. /\ e.graph.edges = ed2 /\ e.graph.back_edges = ba2 /\ e.instructions = in2
      /\ e.proximate_heads = heads2 /\ e.current_label = d.current_label
  OBVIOUS
<1>4. \A l \in nodes2 : h \notin ba[l] \/ l \in ed[h]
  BY <1>1
<1>5. /\ DOMAIN ed2 = nodes2 /\ DOMAIN ba2 = nodes2
      /\ \A l \in nodes2 : ed2[l] = ed[l] /\ ba2[l] = ba[l] \ {h}
      /\ \A l \in nodes2 : in2[l] = d.instructions[l]
      /\ DOMAIN in2 = DOMAIN d.instructions \ {h}
  BY <1>1, <1>4
<1>6. /\ LabelMap(ed2, SUBSET Nat) /\ LabelMap(ba2, SUBSET Nat) /\ LabelMap(in2, Entry)
  BY <1>1 DEF LabelMap
<1>7. heads2 \in Seq(Nat) /\ Distinct(heads2)
  BY <1>1, ErasedIsGone
<1>8. \A l \in nodes2 : h \notin ed[l]
  BY <1>1
<1> HIDE DEF ed2, ba2, in2, heads2
<1>9. IsDag(e)
  BY <1>1, <1>6, <1>7 DEF IsDag
<1>10. /\ \A l \in DOMAIN in2 : l < d.current_label
       /\ nodes2 \subseteq DOMAIN in2
       /\ \A l \in nodes2 : ed2[l] \subseteq nodes2 /\ ba2[l] \subseteq nodes2
       /\ \A l, m \in nodes2 : m \in ed2[l] <=> l \in ba2[m]
  BY <1>1, <1>5, <1>8
<1> HIDE DEF e
<1>11. WellFormed(e)
  BY <1>3, <1>5, <1>7, <1>9, <1>10 DEF WellFormed
<1>12. Popped(d, e, h)
  BY <1>3, <1>5 DEF Popped, heads2
<1> QED
  BY <1>2, <1>11, <1>12

-----------------------------------------------------------------------------
\* The node h waits for nothing and can be replaced by a new node c.
Replaceable(g, h, c) ==
  /\ LabelMap(g.edges, SUBSET Nat) /\ LabelMap(g.back_edges, SUBSET Nat)
  /\ DOMAIN g.back_edges = DOMAIN g.edges
  /\ h \in DOMAIN g.edges /\ g.back_edges[h] = {} /\ g.edges[h] \subseteq DOMAIN g.edges
  /\ c \in Nat \ DOMAIN g.edges
  /\ \A l \in DOMAIN g.edges : h \notin g.edges[l] /\ c \notin g.back_edges[l]
  /\ \A l \in DOMAIN g.edges : h \in g.back_edges[l] <=> l \in g.edges[h]

Reedged(g, h, c) ==
  [l \in (DOMAIN g.edges \ {h}) \cup {c} |-> IF l = c THEN g.edges[h] ELSE g.edges[l]]

Rebacked(g, h, c) ==
  [l \in (DOMAIN g.edges \ {h}) \cup {c} |->
     IF l = c THEN {}
     ELSE IF l \in g.edges[h] THEN (g.back_edges[l] \ {h}) \cup {c}
     ELSE g.back_edges[l]]

\* graph_expand with one node in the place of a node that waits for nothing.
LEMMA GraphExpand ==
  ASSUME NEW g, NEW h, NEW c, Replaceable(g, h, c)
  PROVE  graph_expand(g, h, <<c>>) =
           [edges |-> Reedged(g, h, c), back_edges |-> Rebacked(g, h, c)]
<1> DEFINE ed == g.edges
           ba == g.back_edges
           nodes == (DOMAIN g.edges \ {h}) \cup {c}
           removed == remove_node(g, h)
           added == add_nodes(removed, {c})
           pairs == {<<c, to>> : to \in g.edges[h]}
           ed2 == Reedged(g, h, c)
           ba2 == Rebacked(g, h, c)
<1>0. /\ h \in DOMAIN ed /\ ba[h] = {} /\ ed[h] \subseteq DOMAIN ed /\ DOMAIN ba = DOMAIN ed
      /\ c \notin DOMAIN ed
      /\ \A l \in DOMAIN ed : h \notin ed[l] /\ c \notin ba[l]
      /\ \A l \in DOMAIN ed : h \in ba[l] <=> l \in ed[h]
  BY DEF Replaceable
<1>1. /\ removed = [edges |-> removed.edges, back_edges |-> removed.back_edges]
      /\ DOMAIN removed.edges = DOMAIN ed \ {h} /\ DOMAIN removed.back_edges = DOMAIN ed \ {h}
      /\ \A l \in DOMAIN ed \ {h} : removed.edges[l] = ed[l]
      /\ \A l \in DOMAIN ed \ {h} :
           removed.back_edges[l] = IF l \in ed[h] THEN ba[l] \ {h} ELSE ba[l]
  BY <1>0 DEF remove_node, Nodes
<1> HIDE DEF removed
<1>2. /\ added = [edges |-> added.edges, back_edges |-> added.back_edges]
      /\ DOMAIN added.edges = nodes /\ DOMAIN added.back_edges = nodes
      /\ \A l \in nodes : added.edges[l] = IF l = c THEN {} ELSE ed[l]
      /\ \A l \in nodes : added.back_edges[l] = IF l = c THEN {} ELSE removed.back_edges[l]
  <2>1. added = [edges |-> [l \in DOMAIN removed.edges \cup {c} |->
                              IF l \in DOMAIN removed.edges THEN removed.edges[l] ELSE {}],
                 back_edges |-> [l \in DOMAIN removed.back_edges \cup {c} |->
                              IF l \in DOMAIN removed.back_edges THEN removed.back_edges[l]
                              ELSE {}]]
    BY DEF add_nodes
  <2> HIDE DEF added
  <2> QED
    BY <1>0, <1>1, <2>1
<1> HIDE DEF added
<1>3. Range(<<c>>) = {c} /\ Last(<<c>>) = c /\ Len(<<c>>) = 1 /\ <<c>>[1] = c
  BY DEF Range, Last
<1>4. graph_expand(g, h, <<c>>) = add_edges(added, pairs)
  <2>1. {<<(<<c>>)[k - 1], (<<c>>)[k]>> : k \in 2 .. Len(<<c>>)} = {}
    BY <1>3
  <2>2. {<<from, (<<c>>)[1]>> : from \in g.back_edges[h]} = {}
    BY <1>0
  <2>3. {<<Last(<<c>>), to>> : to \in g.edges[h]} = pairs
    BY <1>3
  <2>4. {} \cup pairs \cup {} = pairs
    OBVIOUS
  <2> HIDE DEF pairs
  <2> QED
    BY <1>3, <2>1, <2>2, <2>3, <2>4 DEF graph_expand, added, removed
<1>5. \A l \in nodes : {e[2] : e \in {f \in pairs : f[1] = l}} = IF l = c THEN ed[h] ELSE {}
  <2>1. ASSUME NEW l \in nodes, l # c
        PROVE  {e[2] : e \in {f \in pairs : f[1] = l}} = {}
    BY <2>1
  <2>2. {f \in pairs : f[1] = c} = pairs
    <3>1. ASSUME NEW f \in pairs
          PROVE  f[1] = c
      <4>1. PICK to \in ed[h] : f = <<c, to>>
        OBVIOUS
      <4> QED
        BY <4>1
    <3> HIDE DEF pairs
    <3> QED
      BY <3>1
  <2>3. {e[2] : e \in pairs} = ed[h]
    <3>1. ASSUME NEW f \in pairs
          PROVE  f[2] \in ed[h]
      <4>1. PICK to \in ed[h] : f = <<c, to>>
        OBVIOUS
      <4> QED
        BY <4>1
    <3>2. ASSUME NEW to \in ed[h]
          PROVE  <<c, to>> \in pairs /\ (<<c, to>>)[2] = to
      OBVIOUS
    <3> HIDE DEF pairs
    <3> QED
      BY <3>1, <3>2
  <2> HIDE DEF pairs
  <2> QED
    BY <2>1, <2>2, <2>3
<1>6. \A l \in nodes : {e[1] : e \in {f \in pairs : f[2] = l}} = IF l \in ed[h] THEN {c} ELSE {}
  <2>1. ASSUME NEW l \in nodes, l \notin ed[h]
        PROVE  {e[1] : e \in {f \in pairs : f[2] = l}} = {}
    BY <2>1
  <2>2. ASSUME NEW l \in ed[h]
        PROVE  {e[1] : e \in {f \in pairs : f[2] = l}} = {c}
    <3>1. {f \in pairs : f[2] = l} = {<<c, l>>}
      OBVIOUS
    <3>2. {e[1] : e \in {<<c, l>>}} = {c}
      OBVIOUS
    <3> HIDE DEF pairs
    <3> QED
      BY <3>1, <3>2
  <2> HIDE DEF pairs
  <2> QED
    BY <2>1, <2>2
<1> HIDE DEF pairs
<1>7. add_edges(added, pairs) =
        [edges |-> [l \in nodes |-> added.edges[l] \cup (IF l = c THEN ed[h] ELSE {})],
         back_edges |-> [l \in nodes |->
                           added.back_edges[l] \cup (IF l \in ed[h] THEN {c} ELSE {})]]
  BY <1>2, <1>5, <1>6 DEF add_edges, Nodes
<1>8. \A l \in nodes : added.edges[l] \cup (IF l = c THEN ed[h] ELSE {}) = ed2[l]
  BY <1>2 DEF Reedged
<1>9. ed[h] \subseteq nodes \ {c}
  BY <1>0
<1>10. \A l \in nodes : added.back_edges[l] \cup (IF l \in ed[h] THEN {c} ELSE {}) = ba2[l]
  <2>1. ASSUME NEW l \in nodes, l = c
        PROVE  added.back_edges[l] \cup (IF l \in ed[h] THEN {c} ELSE {}) = ba2[l]
    BY <1>2, <1>9, <2>1 DEF Rebacked
  <2>2. ASSUME NEW l \in nodes, l # c
        PROVE  added.back_edges[l] \cup (IF l \in ed[h] THEN {c} ELSE {}) = ba2[l]
    <3>1. added.back_edges[l] = IF l \in ed[h] THEN ba[l] \ {h} ELSE ba[l]
      BY <1>1, <1>2, <2>2
    <3> QED
      BY <2>2, <3>1 DEF Rebacked
  <2> QED
    BY <2>1, <2>2
<1>11. add_edges(added, pairs) = [edges |-> ed2, back_edges |-> ba2]
  BY <1>7, <1>8, <1>10 DEF Reedged, Rebacked
<1> QED
  BY <1>4, <1>11

(***************************************************************************)
(* expand of a node that waits for nothing by one instruction, which       *)
(* make_proximate then puts among the proximate heads.                     *)
(***************************************************************************)
Continued(d, h, ins) ==
  make_proximate(dag_expand(d, h, <<ins>>, TRUE), d.current_label)

\* expand, and then make_proximate, of such a node.
LEMMA ExpandHead ==
  ASSUME NEW d, WellFormed(d), NEW h \in DOMAIN d.graph.edges, d.graph.back_edges[h] = {},
         NEW ins \in Entry
  PROVE  /\ Replaced(d, Continued(d, h, ins), h, ins)
         /\ WellFormed(Continued(d, h, ins))
         /\ dag_expand(d, h, <<ins>>, TRUE).current_label = d.current_label + 1
<1> DEFINE c == d.current_label
           ed == d.graph.edges
           ba == d.graph.back_edges
           nodes == DOMAIN d.graph.edges
           nodes2 == (nodes \ {h}) \cup {c}
           ed2 == Reedged(d.graph, h, c)
           ba2 == Rebacked(d.graph, h, c)
           in2 == [l \in DOMAIN d.instructions \cup {c} |->
                     IF l \in DOMAIN d.instructions THEN d.instructions[l] ELSE ins]
           heads1 == IF Contains(d.proximate_heads, h)
                       THEN Inserted(Erased(d.proximate_heads, h), c)
                       ELSE d.proximate_heads
           heads2 == Inserted(Erased(d.proximate_heads, h), c)
           e1 == [graph |-> [edges |-> ed2, back_edges |-> ba2],
                  instructions |-> in2,
                  proximate_dependencies |-> {},
                  proximate_heads |-> heads1,
                  current_label |-> c + 1]
           e == [graph |-> [edges |-> ed2, back_edges |-> ba2],
                 instructions |-> in2,
                 proximate_dependencies |-> {},
                 proximate_heads |-> heads2,
                 current_label |-> c + 1]
<1>1. /\ LabelMap(ed, SUBSET Nat) /\ LabelMap(ba, SUBSET Nat)
      /\ LabelMap(d.instructions, Entry)
      /\ d.proximate_heads \in Seq(Nat) /\ Distinct(d.proximate_heads)
      /\ c \in Nat /\ d.proximate_dependencies = {}
      /\ DOMAIN ba = nodes /\ nodes \subseteq DOMAIN d.instructions
      /\ \A l \in DOMAIN d.instructions : l < c
      /\ \A l \in nodes : ed[l] \subseteq nodes /\ ba[l] \subseteq nodes
      /\ \A l, m \in nodes : m \in ed[l] <=> l \in ba[m]
  BY DEF WellFormed, IsDag
<1>2. c \notin DOMAIN d.instructions /\ c \notin nodes
  BY <1>1
<1>3. graph_expand(d.graph, h, <<c>>) = [edges |-> ed2, back_edges |-> ba2]
  <2>1. Replaceable(d.graph, h, c)
    BY <1>1, <1>2 DEF Replaceable
  <2> QED
    BY <2>1, GraphExpand
<1>4. dag_expand(d, h, <<ins>>, TRUE) = e1
  <2>1. [k \in DOMAIN <<ins>> |-> d.current_label + k - 1] = <<c>>
    BY <1>1
  <2> DEFINE new == [k \in DOMAIN <<ins>> |-> d.current_label + k - 1]
             renamed(p) == <<IF p[1] = h THEN Last(new) ELSE p[1],
                             IF p[2] = h THEN new[1] ELSE p[2]>>
             instructions2 == [l \in DOMAIN d.instructions \cup Range(new) |->
                                 IF l \in DOMAIN d.instructions THEN d.instructions[l]
                                 ELSE <<ins>>[l + 1 - d.current_label]]
             dependencies2 ==
               {renamed(p) : p \in d.proximate_dependencies}
                 \cup {<<new[k - 1], new[k]>> : k \in IF TRUE THEN 2 .. Len(new) ELSE {}}
  <2>2. dag_expand(d, h, <<ins>>, TRUE) =
          [d EXCEPT
             !.graph = graph_expand(d.graph, h, new),
             !.instructions = instructions2,
             !.proximate_dependencies = dependencies2,
             !.proximate_heads =
               IF Contains(d.proximate_heads, h)
                 THEN Inserted(Erased(d.proximate_heads, h), new[1]) ELSE d.proximate_heads,
             !.current_label = d.current_label + Len(new)]
    BY DEF dag_expand
  <2>3. /\ new = <<c>> /\ new[1] = c /\ Len(new) = 1 /\ Range(new) = {c}
    BY <2>1 DEF Range
  <2> HIDE DEF new
  <2>4. instructions2 = in2
    <3>1. <<ins>>[c + 1 - c] = ins
      BY <1>1
    <3> QED
      BY <2>3, <3>1
  <2>5. dependencies2 = {}
    BY <1>1, <2>3
  <2>6. d = [graph |-> d.graph, instructions |-> d.instructions,
             proximate_dependencies |-> {},
             proximate_heads |-> d.proximate_heads,
             current_label |-> c]
    BY DEF WellFormed, IsDag
  <2> HIDE DEF instructions2, dependencies2, in2, ed2, ba2
  <2> QED
    BY <1>3, <2>2, <2>3, <2>4, <2>5, <2>6
<1>5. make_proximate(e1, c) = e
  <2>1. Inserted(heads1, c) = heads2
    <3>1. CASE Contains(d.proximate_heads, h)
      <4>1. /\ heads2 \in Seq(Nat) /\ Range(heads2) = Range(Erased(d.proximate_heads, h)) \cup {c}
        BY <1>1, ErasedIsGone, InsertedIsLast
      <4>2. Contains(heads2, c)
        <5> HIDE DEF heads2
        <5>1. c \in Range(heads2) /\ heads2 \in Seq(Nat)
          BY <4>1
        <5>2. Range(heads2) = {heads2[j] : j \in 1 .. Len(heads2)}
          BY <5>1, ListRange
        <5> QED
          BY <5>1, <5>2 DEF Contains
      <4> QED
        BY <3>1, <4>2 DEF Inserted
    <3>2. CASE ~ Contains(d.proximate_heads, h)
      <4>1. Erased(d.proximate_heads, h) = d.proximate_heads
        BY <1>1, <3>2, ErasedNothing DEF Contains
      <4> QED
        BY <3>2, <4>1
    <3> QED
      BY <3>1, <3>2
  <2> HIDE DEF heads1, heads2, ed2, ba2, in2
  <2> QED
    BY <2>1 DEF make_proximate
<1>6. /\ e.graph.edges = ed2 /\ e.graph.back_edges = ba2 /\ e.instructions = in2
      /\ e.proximate_heads = heads2 /\ e.current_label = c + 1
      /\ e1.current_label = c + 1
  OBVIOUS
<1>7. /\ DOMAIN ed2 = nodes2 /\ DOMAIN ba2 = nodes2
      /\ ed2[c] = ed[h] /\ ba2[c] = {} /\ in2[c] = ins
      /\ \A l \in nodes \ {h} :
           /\ l # c /\ ed2[l] = ed[l]
           /\ ba2[l] = IF l \in ed[h] THEN (ba[l] \ {h}) \cup {c} ELSE ba[l]
           /\ in2[l] = d.instructions[l]
      /\ DOMAIN in2 = DOMAIN d.instructions \cup {c}
  BY <1>1, <1>2 DEF Reedged, Rebacked
<1>8. /\ LabelMap(ed2, SUBSET Nat) /\ LabelMap(ba2, SUBSET Nat) /\ LabelMap(in2, Entry)
  <2>1. LabelMap(ed2, SUBSET Nat)
    BY <1>1 DEF LabelMap, Reedged
  <2>2. LabelMap(ba2, SUBSET Nat)
    BY <1>1 DEF LabelMap, Rebacked
  <2>3. LabelMap(in2, Entry)
    BY <1>1 DEF LabelMap
  <2> QED
    BY <2>1, <2>2, <2>3
<1>9. heads2 \in Seq(Nat) /\ Distinct(heads2)
  BY <1>1, ErasedIsGone, InsertedIsLast
<1>10. \A l \in nodes : h \notin ed[l] /\ (h \in ba[l] <=> l \in ed[h])
  BY <1>1
<1> HIDE DEF ed2, ba2, in2, heads2, heads1
<1>11. IsDag(e)
  <2>1. c + 1 \in Nat
    BY <1>1
  <2> QED
    BY <1>8, <1>9, <2>1 DEF IsDag
<1>12. /\ \A l \in DOMAIN in2 : l < c + 1
       /\ nodes2 \subseteq DOMAIN in2
  BY <1>1, <1>7 DEF LabelMap
<1>13. \A l \in nodes2 : ed2[l] \subseteq nodes2 /\ ba2[l] \subseteq nodes2
  <2>1. ed[h] \subseteq nodes2
    BY <1>1, <1>10
  <2>2. ASSUME NEW l \in nodes \ {h}
        PROVE  ed[l] \subseteq nodes2 /\ ba2[l] \subseteq nodes2
    <3>1. ed[l] \subseteq nodes /\ ba[l] \subseteq nodes /\ h \notin ed[l]
      BY <1>1, <1>10
    <3>2. ba2[l] = (ba[l] \ {h}) \cup {c} \/ (ba2[l] = ba[l] /\ h \notin ba[l])
      BY <1>7, <1>10
    <3> QED
      BY <3>1, <3>2
  <2> QED
    BY <1>7, <2>1, <2>2
<1>14. \A l, m \in nodes2 : m \in ed2[l] <=> l \in ba2[m]
  <2>1. ASSUME NEW l \in nodes \ {h}, NEW m \in nodes \ {h}
        PROVE  m \in ed2[l] <=> l \in ba2[m]
    <3>1. m \in ed[l] <=> l \in ba[m]
      BY <1>1
    <3>2. l # h /\ l # c /\ ed2[l] = ed[l]
      BY <1>2, <1>7
    <3>3. ba2[m] = IF m \in ed[h] THEN (ba[m] \ {h}) \cup {c} ELSE ba[m]
      BY <1>7
    <3> QED
      BY <3>1, <3>2, <3>3
  <2>2. ASSUME NEW m \in nodes \ {h}
        PROVE  m \in ed2[c] <=> c \in ba2[m]
    <3>1. c \notin ba[m]
      BY <1>1, <1>2
    <3>2. ba2[m] = IF m \in ed[h] THEN (ba[m] \ {h}) \cup {c} ELSE ba[m]
      BY <1>7
    <3>3. m \in ed[h] <=> c \in ba2[m]
      BY <3>1, <3>2
    <3> QED
      BY <1>7, <3>3
  <2>3. ASSUME NEW l \in nodes2
        PROVE  c \notin ed2[l] /\ l \notin ba2[c]
    <3>1. ba2[c] = {} /\ ed2[c] = ed[h] /\ c \notin ed[h]
      BY <1>1, <1>2, <1>7
    <3>2. CASE l # c
      <4>1. l \in nodes /\ ed2[l] = ed[l] /\ ed[l] \subseteq nodes
        BY <1>1, <1>7, <3>2
      <4> QED
        BY <1>2, <3>1, <4>1
    <3> QED
      BY <3>1, <3>2
  <2> QED
    BY <2>1, <2>2, <2>3
<1> HIDE DEF e, e1
<1>15. WellFormed(e)
  BY <1>6, <1>7, <1>9, <1>11, <1>12, <1>13, <1>14 DEF WellFormed
<1>16. Replaced(d, e, h, ins)
  BY <1>6, <1>7 DEF Replaced, heads2
<1>17. e = Continued(d, h, ins)
  BY <1>4, <1>5 DEF Continued
<1> QED
  BY <1>4, <1>6, <1>15, <1>16, <1>17

-----------------------------------------------------------------------------
\* The edges of a graph with a new node c behind those of the set ahead.
PushedEdges(g, c, ahead) ==
  [l \in DOMAIN g.edges \cup {c} |->
     IF l = c THEN {} ELSE g.edges[l] \cup (IF l \in ahead THEN {c} ELSE {})]

PushedBackEdges(g, c, ahead) ==
  [l \in DOMAIN g.edges \cup {c} |-> IF l = c THEN ahead ELSE g.back_edges[l]]

PushedGraph(g, c, ahead) == add_edges(add_nodes(g, {c}), {<<l, c>> : l \in ahead})

\* A node for a new instruction is added behind those of the set ahead.
LEMMA GraphPush ==
  ASSUME NEW g, NEW c, NEW ahead,
         c \notin DOMAIN g.edges, ahead \subseteq DOMAIN g.edges,
         DOMAIN g.back_edges = DOMAIN g.edges
  PROVE  PushedGraph(g, c, ahead) =
           [edges |-> PushedEdges(g, c, ahead), back_edges |-> PushedBackEdges(g, c, ahead)]
<1> DEFINE nodes == DOMAIN g.edges \cup {c}
           added == add_nodes(g, {c})
           pairs == {<<l, c>> : l \in ahead}
           ed2 == PushedEdges(g, c, ahead)
           ba2 == PushedBackEdges(g, c, ahead)
<1>1. /\ DOMAIN added.edges = nodes /\ DOMAIN added.back_edges = nodes
      /\ \A l \in nodes : added.edges[l] = IF l = c THEN {} ELSE g.edges[l]
      /\ \A l \in nodes : added.back_edges[l] = IF l = c THEN {} ELSE g.back_edges[l]
  <2>1. added = [edges |-> [l \in DOMAIN g.edges \cup {c} |->
                              IF l \in DOMAIN g.edges THEN g.edges[l] ELSE {}],
                 back_edges |-> [l \in DOMAIN g.back_edges \cup {c} |->
                              IF l \in DOMAIN g.back_edges THEN g.back_edges[l] ELSE {}]]
    BY DEF add_nodes
  <2> HIDE DEF added
  <2> QED
    BY <2>1
<1> HIDE DEF added
<1>2. \A f \in pairs : f[1] \in ahead /\ f[2] = c
  <2> SUFFICES ASSUME NEW f \in pairs
               PROVE  f[1] \in ahead /\ f[2] = c
    OBVIOUS
  <2>1. PICK l \in ahead : f = <<l, c>>
    OBVIOUS
  <2> QED
    BY <2>1
<1>3. \A l \in nodes : {e[2] : e \in {f \in pairs : f[1] = l}} = IF l \in ahead THEN {c} ELSE {}
  <2>1. ASSUME NEW l \in ahead
        PROVE  {e[2] : e \in {f \in pairs : f[1] = l}} = {c}
    <3>1. <<l, c>> \in {f \in pairs : f[1] = l} /\ (<<l, c>>)[2] = c
      OBVIOUS
    <3> HIDE DEF pairs
    <3> QED
      BY <1>2, <3>1
  <2> HIDE DEF pairs
  <2> QED
    BY <1>2, <2>1
<1>4. \A l \in nodes : {e[1] : e \in {f \in pairs : f[2] = l}} = IF l = c THEN ahead ELSE {}
  <2>1. {e[1] : e \in {f \in pairs : f[2] = c}} = ahead
    <3>1. \A l \in ahead : <<l, c>> \in pairs /\ (<<l, c>>)[1] = l /\ (<<l, c>>)[2] = c
      OBVIOUS
    <3> HIDE DEF pairs
    <3> QED
      BY <1>2, <3>1
  <2> HIDE DEF pairs
  <2> QED
    BY <1>2, <2>1
<1> HIDE DEF pairs
<1>5. add_edges(added, pairs) =
        [edges |-> [l \in nodes |-> added.edges[l] \cup (IF l \in ahead THEN {c} ELSE {})],
         back_edges |-> [l \in nodes |->
                           added.back_edges[l] \cup (IF l = c THEN ahead ELSE {})]]
  BY <1>1, <1>3, <1>4 DEF add_edges, Nodes
<1>6. \A l \in nodes : added.edges[l] \cup (IF l \in ahead THEN {c} ELSE {}) = ed2[l]
  BY <1>1 DEF PushedEdges
<1>7. \A l \in nodes : added.back_edges[l] \cup (IF l = c THEN ahead ELSE {}) = ba2[l]
  BY <1>1 DEF PushedBackEdges
<1>8. add_edges(added, pairs) = [edges |-> ed2, back_edges |-> ba2]
  BY <1>5, <1>6, <1>7 DEF PushedEdges, PushedBackEdges
<1> QED
  BY <1>8 DEF added, pairs, PushedGraph

\* push_instruction_based_on_commutation.
LEMMA PushInstruction ==
  ASSUME NEW d, WellFormed(d), NEW ins \in Entry
  PROVE  /\ Pushed(d, push_instruction_based_on_commutation(d, ins), Dependencies(d, ins), ins)
         /\ WellFormed(push_instruction_based_on_commutation(d, ins))
<1> DEFINE c == d.current_label
           ahead == Dependencies(d, ins)
           ed == d.graph.edges
           ba == d.graph.back_edges
           nodes == DOMAIN d.graph.edges
           nodes2 == nodes \cup {c}
           ed2 == PushedEdges(d.graph, c, ahead)
           ba2 == PushedBackEdges(d.graph, c, ahead)
           in2 == [l \in DOMAIN d.instructions \cup {c} |->
                     IF l = c THEN ins ELSE d.instructions[l]]
           e == [graph |-> [edges |-> ed2, back_edges |-> ba2],
                 instructions |-> in2,
                 proximate_dependencies |-> {},
                 proximate_heads |-> d.proximate_heads,
                 current_label |-> c + 1]
<1>1. /\ LabelMap(ed, SUBSET Nat) /\ LabelMap(ba, SUBSET Nat)
      /\ LabelMap(d.instructions, Entry)
      /\ d.proximate_heads \in Seq(Nat) /\ Distinct(d.proximate_heads)
      /\ c \in Nat /\ d.proximate_dependencies = {}
      /\ DOMAIN ba = nodes /\ nodes \subseteq DOMAIN d.instructions
      /\ \A l \in DOMAIN d.instructions : l < c
      /\ \A l \in nodes : ed[l] \subseteq nodes /\ ba[l] \subseteq nodes
      /\ \A l, m \in nodes : m \in ed[l] <=> l \in ba[m]
  BY DEF WellFormed, IsDag
<1>2. c \notin DOMAIN d.instructions /\ c \notin nodes
  BY <1>1
<1>3. ahead \subseteq nodes
  BY DEF Dependencies, topological_order, Nodes
<1> HIDE DEF ahead
<1>4. push_instruction_based_on_commutation(d, ins) = e
  <2>1. PushedGraph(d.graph, c, ahead) = [edges |-> ed2, back_edges |-> ba2]
    BY <1>1, <1>2, <1>3, GraphPush
  <2>2. push_instruction_based_on_commutation(d, ins) =
          [d EXCEPT
             !.graph = PushedGraph(d.graph, c, ahead),
             !.instructions = in2,
             !.current_label = c + 1]
    BY DEF push_instruction_based_on_commutation, PushedGraph, ahead
  <2>3. d = [graph |-> d.graph, instructions |-> d.instructions,
             proximate_dependencies |-> {},
             proximate_heads |-> d.proximate_heads,
             current_label |-> c]
    BY DEF WellFormed, IsDag
  <2>4. ASSUME NEW graph, NEW instructions, NEW label
        PROVE  [d EXCEPT !.graph = graph, !.instructions = instructions,
                         !.current_label = label] =
                 [graph |-> graph, instructions |-> instructions,
                  proximate_dependencies |-> {},
                  proximate_heads |-> d.proximate_heads,
                  current_label |-> label]
    <3> DEFINE r == [d EXCEPT !.graph = graph, !.instructions = instructions,
                              !.current_label = label]
    <3>1. r = [f \in DOMAIN r |-> r[f]]
      OBVIOUS
    <3>2. DOMAIN r = {"graph", "instructions", "proximate_dependencies",
                      "proximate_heads", "current_label"}
      BY <2>3
    <3>3. /\ r["graph"] = graph /\ r["instructions"] = instructions
          /\ r["proximate_dependencies"] = {} /\ r["proximate_heads"] = d.proximate_heads
          /\ r["current_label"] = label
      BY <2>3
    <3> HIDE DEF r
    <3>4. r = [graph |-> graph, instructions |-> instructions,
               proximate_dependencies |-> {},
               proximate_heads |-> d.proximate_heads,
               current_label |-> label]
      BY <3>1, <3>2, <3>3
    <3> QED
      BY <3>4 DEF r
  <2> HIDE DEF in2, ed2, ba2
  <2> QED
    BY <2>1, <2>2, <2>4
<1>5. /\ e.graph.edges = ed2 /\ e.graph.back_edges = ba2 /\ e.instructions = in2
      /\ e.proximate_heads = d.proximate_heads /\ e.current_label = c + 1
  OBVIOUS
<1>6. /\ DOMAIN ed2 = nodes2 /\ DOMAIN ba2 = nodes2
      /\ ed2[c] = {} /\ ba2[c] = ahead /\ in2[c] = ins
      /\ \A l \in nodes :
           /\ l # c
           /\ ed2[l] = ed[l] \cup (IF l \in ahead THEN {c} ELSE {})
           /\ ba2[l] = ba[l]
           /\ in2[l] = d.instructions[l]
      /\ DOMAIN in2 = DOMAIN d.instructions \cup {c}
  BY <1>1, <1>2 DEF PushedEdges, PushedBackEdges
<1>7. LabelMap(ed2, SUBSET Nat) /\ LabelMap(ba2, SUBSET Nat) /\ LabelMap(in2, Entry)
  <2>1. LabelMap(ed2, SUBSET Nat)
    BY <1>1 DEF LabelMap, PushedEdges
  <2>2. LabelMap(ba2, SUBSET Nat)
    BY <1>1, <1>3 DEF LabelMap, PushedBackEdges
  <2>3. LabelMap(in2, Entry)
    BY <1>1 DEF LabelMap
  <2> QED
    BY <2>1, <2>2, <2>3
<1> HIDE DEF ed2, ba2, in2
<1>8. IsDag(e)
  <2>1. c + 1 \in Nat
    BY <1>1
  <2> QED
    BY <1>1, <1>7, <2>1 DEF IsDag
<1>9. (\A l \in DOMAIN in2 : l < c + 1) /\ nodes2 \subseteq DOMAIN in2
  BY <1>1, <1>6 DEF LabelMap
<1>10. \A l \in nodes2 : ed2[l] \subseteq nodes2 /\ ba2[l] \subseteq nodes2
  BY <1>1, <1>3, <1>6
<1>11. \A l, m \in nodes2 : m \in ed2[l] <=> l \in ba2[m]
  <2>1. ASSUME NEW l \in nodes, NEW m \in nodes
        PROVE  m \in ed2[l] <=> l \in ba2[m]
    <3>1. m \in ed[l] <=> l \in ba[m]
      BY <1>1
    <3>2. m # c /\ ed2[l] = ed[l] \cup (IF l \in ahead THEN {c} ELSE {}) /\ ba2[m] = ba[m]
      BY <1>6
    <3> QED
      BY <3>1, <3>2
  <2>2. ASSUME NEW l \in nodes
        PROVE  c \in ed2[l] <=> l \in ba2[c]
    <3>1. ed2[l] = ed[l] \cup (IF l \in ahead THEN {c} ELSE {}) /\ c \notin ed[l]
      BY <1>1, <1>2, <1>6
    <3> QED
      BY <1>6, <3>1
  <2>3. ASSUME NEW m \in nodes2
        PROVE  m \notin ed2[c] /\ c \notin ba2[m]
    <3>1. CASE m = c
      BY <1>2, <1>3, <1>6, <3>1
    <3>2. CASE m # c
      <4>1. m \in nodes /\ ba2[m] = ba[m] /\ ba[m] \subseteq nodes
        BY <1>1, <1>6, <3>2
      <4> QED
        BY <1>2, <1>6, <4>1
    <3> QED
      BY <3>1, <3>2
  <2> QED
    BY <2>1, <2>2, <2>3
<1> HIDE DEF e
<1>12. WellFormed(e)
  BY <1>1, <1>5, <1>6, <1>8, <1>9, <1>10, <1>11 DEF WellFormed
<1>13. Pushed(d, e, ahead, ins)
  BY <1>5, <1>6 DEF Pushed
<1> QED
  BY <1>4, <1>12, <1>13 DEF ahead

-----------------------------------------------------------------------------
(* The order of the program in the graph. *)

RootOf(d, l) == d.instructions[l].root

(***************************************************************************)
(* GraphIsOrder, as a relation of a graph, a program and the set of its    *)
(* instructions that are done: one node waits for another exactly if it    *)
(* comes from a later instruction that shares a patch with the other's,    *)
(* and the nodes are what is left of the program, each of it once.         *)
(***************************************************************************)
OrderKept(d, p, done) ==
  /\ \A l \in DOMAIN d.graph.edges :
       /\ RootOf(d, l) \in DOMAIN p \ done
       /\ d.instructions[l].patches = p[RootOf(d, l)]
  /\ \A l, m \in DOMAIN d.graph.edges :
       /\ m \in d.graph.edges[l] <=>
            RootOf(d, l) < RootOf(d, m) /\ p[RootOf(d, l)] \cap p[RootOf(d, m)] # {}
       /\ RootOf(d, l) = RootOf(d, m) => l = m
  /\ \A r \in DOMAIN p \ done : \E l \in DOMAIN d.graph.edges : RootOf(d, l) = r

\* A node that is in the graph has an instruction with a number.
LEMMA NodeHasRoot ==
  ASSUME NEW d, WellFormed(d)
  PROVE  \A l \in DOMAIN d.graph.edges : /\ d.instructions[l] \in Entry
                                         /\ RootOf(d, l) \in Nat
BY DEF WellFormed, IsDag, LabelMap, RootOf, Entry

(***************************************************************************)
(* The walk from the heads reaches every node: of those it missed, the one *)
(* from the earliest instruction would have to be a head.                  *)
(***************************************************************************)
LEMMA AllReached ==
  ASSUME NEW d, NEW p, NEW done, WellFormed(d), OrderKept(d, p, done)
  PROVE  topological_order(d.graph) = DOMAIN d.graph.edges
<1> DEFINE nodes == DOMAIN d.graph.edges
<1> SUFFICES ASSUME NEW reached \in SUBSET nodes,
                    graph_heads(d.graph) \subseteq reached,
                    \A m \in reached : d.graph.edges[m] \subseteq reached,
                    NEW l \in nodes, l \notin reached
             PROVE  FALSE
  BY DEF topological_order, Nodes
<1> DEFINE missed == {RootOf(d, m) : m \in nodes \ reached}
<1>1. missed \subseteq Nat /\ missed # {}
  BY NodeHasRoot
<1>2. PICK r \in missed : \A q \in missed : r <= q
  <2> HIDE DEF missed
  <2> QED
    BY <1>1, LeastNumber
<1>3. PICK n \in nodes \ reached : RootOf(d, n) = r
  BY <1>2
<1>4. d.graph.back_edges[n] # {}
  BY <1>3 DEF graph_heads, Nodes
<1>5. PICK m \in d.graph.back_edges[n] : TRUE
  BY <1>4
<1>6. m \in nodes /\ n \in d.graph.edges[m]
  BY <1>3, <1>5 DEF WellFormed
<1>7. RootOf(d, m) < RootOf(d, n)
  BY <1>3, <1>6 DEF OrderKept
<1>8. m \in reached
  BY <1>2, <1>3, <1>6, <1>7, NodeHasRoot
<1> QED
  BY <1>3, <1>6, <1>8

\* A new instruction depends on all those before it that share a patch.
LEMMA DependsOnSharers ==
  ASSUME NEW d, NEW p, NEW done, WellFormed(d), OrderKept(d, p, done), NEW ins
  PROVE  Dependencies(d, ins) =
           {l \in DOMAIN d.graph.edges : p[RootOf(d, l)] \cap ins.patches # {}}
<1>1. topological_order(d.graph) = DOMAIN d.graph.edges
  BY AllReached
<1>2. \A l \in DOMAIN d.graph.edges : d.instructions[l].patches = p[RootOf(d, l)]
  BY DEF OrderKept
<1> QED
  BY <1>1, <1>2 DEF Dependencies, can_commute

\* An instruction whose node waits for nothing has no predecessor left.
LEMMA HeadIsReady ==
  ASSUME NEW d, NEW p, NEW done, WellFormed(d), OrderKept(d, p, done),
         NEW h \in DOMAIN d.graph.edges, d.graph.back_edges[h] = {},
         NEW j \in DOMAIN p, j < RootOf(d, h), p[RootOf(d, h)] \cap p[j] # {}
  PROVE  j \in done
<1> SUFFICES ASSUME j \notin done PROVE FALSE
  OBVIOUS
<1>1. PICK l \in DOMAIN d.graph.edges : RootOf(d, l) = j
  BY DEF OrderKept
<1>2. h \in d.graph.edges[l]
  BY <1>1 DEF OrderKept
<1>3. l \in d.graph.back_edges[h]
  BY <1>2 DEF WellFormed
<1> QED
  BY <1>3

\* A node all of whose predecessors are done waits for nothing.
LEMMA ReadyIsHead ==
  ASSUME NEW d, NEW p, NEW done, WellFormed(d), OrderKept(d, p, done),
         NEW h \in DOMAIN d.graph.edges,
         \A j \in DOMAIN p : j < RootOf(d, h) /\ p[RootOf(d, h)] \cap p[j] # {} => j \in done
  PROVE  d.graph.back_edges[h] = {}
<1> SUFFICES ASSUME NEW m \in d.graph.back_edges[h] PROVE FALSE
  OBVIOUS
<1>1. m \in DOMAIN d.graph.edges /\ h \in d.graph.edges[m]
  BY DEF WellFormed
<1>2. /\ RootOf(d, m) \in DOMAIN p \ done /\ RootOf(d, m) < RootOf(d, h)
      /\ p[RootOf(d, h)] \cap p[RootOf(d, m)] # {}
  BY <1>1 DEF OrderKept
<1> QED
  BY <1>2

\* Building the graph: a further instruction of the program is pushed.
LEMMA PushKeepsOrder ==
  ASSUME NEW d, NEW e, NEW p \in Seq(SUBSET Patches), NEW done, NEW ins \in Entry,
         WellFormed(d), OrderKept(d, p, done), WellFormed(e),
         Pushed(d, e, Dependencies(d, ins), ins),
         done \subseteq DOMAIN p, ins.root = Len(p) + 1
  PROVE  OrderKept(e, Append(p, ins.patches), done)
<1> DEFINE nodes == DOMAIN d.graph.edges
           c == d.current_label
           ahead == {l \in nodes : p[RootOf(d, l)] \cap ins.patches # {}}
           q == Append(p, ins.patches)
           n == Len(p)
<1>1. /\ DOMAIN p = 1 .. n /\ n \in Nat
      /\ DOMAIN q = 1 .. n + 1 /\ q[n + 1] = ins.patches /\ \A j \in 1 .. n : q[j] = p[j]
  BY DEF Entry
<1> HIDE DEF q, n
<1>2. /\ DOMAIN e.graph.edges = nodes \cup {c}
      /\ e.graph.edges[c] = {} /\ RootOf(e, c) = n + 1 /\ e.instructions[c] = ins
      /\ \A l \in nodes :
           /\ e.graph.edges[l] = d.graph.edges[l] \cup (IF l \in ahead THEN {c} ELSE {})
           /\ RootOf(e, l) = RootOf(d, l) /\ e.instructions[l] = d.instructions[l]
  BY DependsOnSharers DEF Pushed, RootOf, n
<1>3. c \notin nodes
  BY DEF WellFormed, IsDag
<1>4. \A l \in nodes : /\ RootOf(d, l) \in 1 .. n /\ RootOf(d, l) \notin done
                       /\ d.instructions[l].patches = p[RootOf(d, l)]
  BY <1>1 DEF OrderKept
<1>5. ASSUME NEW l \in nodes \cup {c}
      PROVE  RootOf(e, l) \in DOMAIN q \ done /\ e.instructions[l].patches = q[RootOf(e, l)]
  <2>1. CASE l = c
    BY <1>1, <1>2, <2>1
  <2>2. CASE l # c
    BY <1>1, <1>2, <1>4, <2>2
  <2> QED
    BY <2>1, <2>2
<1>6. ASSUME NEW l \in nodes \cup {c}, NEW m \in nodes \cup {c}
      PROVE  /\ m \in e.graph.edges[l] <=>
                  RootOf(e, l) < RootOf(e, m) /\ q[RootOf(e, l)] \cap q[RootOf(e, m)] # {}
             /\ RootOf(e, l) = RootOf(e, m) => l = m
  <2>1. CASE l \in nodes /\ m \in nodes
    <3>1. /\ m \in d.graph.edges[l] <=>
               RootOf(d, l) < RootOf(d, m) /\ p[RootOf(d, l)] \cap p[RootOf(d, m)] # {}
          /\ RootOf(d, l) = RootOf(d, m) => l = m
      BY <2>1 DEF OrderKept
    <3>2. /\ RootOf(e, l) = RootOf(d, l) /\ RootOf(e, m) = RootOf(d, m)
          /\ q[RootOf(e, l)] = p[RootOf(d, l)] /\ q[RootOf(e, m)] = p[RootOf(d, m)]
      BY <1>1, <1>2, <1>4, <2>1
    <3>3. m \in e.graph.edges[l] <=> m \in d.graph.edges[l]
      BY <1>2, <1>3, <2>1
    <3> QED
      BY <3>1, <3>2, <3>3
  <2>2. CASE l \in nodes /\ m = c
    <3>1. /\ RootOf(e, l) = RootOf(d, l) /\ RootOf(e, m) = n + 1 /\ RootOf(d, l) \in 1 .. n
          /\ q[RootOf(e, l)] = p[RootOf(d, l)] /\ q[RootOf(e, m)] = ins.patches
      BY <1>1, <1>2, <1>4, <2>2
    <3>2. c \notin d.graph.edges[l]
      BY <1>3, <2>2 DEF WellFormed
    <3>3. m \in e.graph.edges[l] <=> l \in ahead
      BY <1>2, <2>2, <3>2
    <3> QED
      BY <1>1, <2>2, <3>1, <3>3
  <2>3. CASE l = c
    <3>1. RootOf(e, l) = n + 1 /\ (m = c \/ RootOf(e, m) \in 1 .. n)
      BY <1>2, <1>4, <2>3
    <3> QED
      BY <1>1, <1>2, <2>3, <3>1
  <2> QED
    BY <2>1, <2>2, <2>3
<1>7. ASSUME NEW r \in DOMAIN q \ done
      PROVE  \E l \in nodes \cup {c} : RootOf(e, l) = r
  <2>1. CASE r = n + 1
    BY <1>2, <2>1
  <2>2. CASE r \in DOMAIN p \ done
    <3>1. PICK l \in nodes : RootOf(d, l) = r
      BY <2>2 DEF OrderKept
    <3> QED
      BY <1>2, <3>1
  <2> QED
    BY <1>1, <2>1, <2>2
<1> QED
  BY <1>2, <1>5, <1>6, <1>7 DEF OrderKept, q

\* An instruction that has ended leaves the graph.
LEMMA PopKeepsOrder ==
  ASSUME NEW d, NEW e, NEW p, NEW done, NEW h \in DOMAIN d.graph.edges,
         WellFormed(d), OrderKept(d, p, done), Popped(d, e, h)
  PROVE  OrderKept(e, p, done \cup {RootOf(d, h)})
<1> DEFINE nodes == DOMAIN d.graph.edges
<1>1. /\ DOMAIN e.graph.edges = nodes \ {h}
      /\ \A l \in nodes \ {h} :
           /\ e.graph.edges[l] = d.graph.edges[l]
           /\ RootOf(e, l) = RootOf(d, l) /\ e.instructions[l] = d.instructions[l]
  BY DEF Popped, RootOf
<1>2. \A l \in nodes \ {h} : RootOf(d, l) # RootOf(d, h)
  BY DEF OrderKept
<1>3. ASSUME NEW r \in DOMAIN p \ (done \cup {RootOf(d, h)})
      PROVE  \E l \in nodes \ {h} : RootOf(e, l) = r
  <2>1. PICK l \in nodes : RootOf(d, l) = r
    BY <1>3 DEF OrderKept
  <2> QED
    BY <1>1, <1>3, <2>1
<1>4. \A l \in nodes \ {h} : /\ RootOf(e, l) \in DOMAIN p \ (done \cup {RootOf(d, h)})
                             /\ e.instructions[l].patches = p[RootOf(e, l)]
  BY <1>1, <1>2 DEF OrderKept
<1>5. ASSUME NEW l \in nodes \ {h}, NEW m \in nodes \ {h}
      PROVE  /\ m \in e.graph.edges[l] <=>
                  RootOf(e, l) < RootOf(e, m) /\ p[RootOf(e, l)] \cap p[RootOf(e, m)] # {}
             /\ RootOf(e, l) = RootOf(e, m) => l = m
  BY <1>1 DEF OrderKept
<1> QED
  BY <1>1, <1>3, <1>4, <1>5 DEF OrderKept

\* What continues an instruction takes its place.
LEMMA ReplaceKeepsOrder ==
  ASSUME NEW d, NEW e, NEW p, NEW done, NEW h \in DOMAIN d.graph.edges, NEW ins,
         WellFormed(d), OrderKept(d, p, done), Replaced(d, e, h, ins),
         d.graph.back_edges[h] = {},
         ins.root = RootOf(d, h), ins.patches = d.instructions[h].patches
  PROVE  OrderKept(e, p, done)
<1> DEFINE nodes == DOMAIN d.graph.edges
           c == d.current_label
           old(l) == IF l = c THEN h ELSE l
           nodes2 == (nodes \ {h}) \cup {c}
<1>1. c \notin nodes
  BY DEF WellFormed, IsDag
<1>2. /\ DOMAIN e.graph.edges = nodes2
      /\ \A l \in nodes2 :
           /\ old(l) \in nodes
           /\ e.graph.edges[l] = d.graph.edges[old(l)]
           /\ RootOf(e, l) = RootOf(d, old(l))
           /\ e.instructions[l].patches = d.instructions[old(l)].patches
  BY <1>1 DEF Replaced, RootOf
<1>3. \A l \in nodes : c \notin d.graph.edges[l] /\ h \notin d.graph.edges[l]
  BY <1>1 DEF WellFormed
<1>4. ASSUME NEW l \in nodes2, NEW m \in nodes2
      PROVE  /\ m \in e.graph.edges[l] <=>
                  RootOf(e, l) < RootOf(e, m) /\ p[RootOf(e, l)] \cap p[RootOf(e, m)] # {}
             /\ RootOf(e, l) = RootOf(e, m) => l = m
  <2>1. /\ old(m) \in d.graph.edges[old(l)] <=>
             RootOf(d, old(l)) < RootOf(d, old(m))
             /\ p[RootOf(d, old(l))] \cap p[RootOf(d, old(m))] # {}
        /\ RootOf(d, old(l)) = RootOf(d, old(m)) => old(l) = old(m)
    BY <1>2 DEF OrderKept
  <2>2. m \in d.graph.edges[old(l)] <=> old(m) \in d.graph.edges[old(l)]
    BY <1>2, <1>3
  <2>3. old(l) = old(m) => l = m
    BY <1>1
  <2> HIDE DEF old
  <2> QED
    BY <1>2, <2>1, <2>2, <2>3
<1>5. ASSUME NEW r \in DOMAIN p \ done
      PROVE  \E l \in nodes2 : RootOf(e, l) = r
  <2>1. PICK k \in nodes : RootOf(d, k) = r
    BY <1>5 DEF OrderKept
  <2>2. CASE k = h
    BY <1>1, <1>2, <2>1, <2>2
  <2>3. CASE k # h
    BY <1>1, <1>2, <2>1, <2>3
  <2> QED
    BY <2>2, <2>3
<1>6. \A l \in nodes2 : /\ RootOf(e, l) \in DOMAIN p \ done
                        /\ e.instructions[l].patches = p[RootOf(e, l)]
  <2> HIDE DEF old
  <2> QED
    BY <1>2 DEF OrderKept
<1> HIDE DEF nodes2
<1> QED
  BY <1>2, <1>4, <1>5, <1>6 DEF OrderKept

-----------------------------------------------------------------------------
(* The inductive invariant. *)

HistoryInv ==
  /\ program \in Seq(SUBSET Patches)
  /\ begun \subseteq DOMAIN program
  /\ ended \subseteq begun
  /\ \A r \in begun : Order!Before(r) \subseteq ended

\* The proximate heads are the instructions that have begun and not ended.
BegunInv ==
  \A l \in Nat :
    l \in Range(dag.proximate_heads) <=>
      l \in Live /\ RootOf(dag, l) \in begun

\* What a loop has yet to visit is still there, and waits for nothing.
WalkInv ==
  /\ labels \in Seq(Nat) /\ Distinct(labels)
  /\ \A l \in Range(labels) : l \in Live /\ dag.graph.back_edges[l] = {}
  /\ control = "proximate" => Range(labels) \subseteq Range(dag.proximate_heads)

PhaseInv ==
  /\ control \in {"builder", "consumer", "proximate", "applicable", "exhausted", "threw"}
  /\ control \in {"builder", "consumer", "exhausted"} => labels = << >>
  /\ control = "builder" => begun = {}

\* An error is thrown for one of two reasons.
RetryInv ==
  /\ LabelMap(attempts, Nat)
  /\ control # "threw" => \A l \in DOMAIN attempts : attempts[l] <= MAX_RETRIES
  /\ control = "threw" =>
       Visited.root \in begun \ ended \/ attempts[Head(labels)] = MAX_RETRIES + 1

DagInv ==
  /\ WellFormed(dag)
  /\ OrderKept(dag, program, ended)
  /\ HistoryInv
  /\ BegunInv
  /\ WalkInv
  /\ PhaseInv
  /\ RetryInv

\* The graph of the implementation, as a relation and as the run checks it.
LEMMA OrderIsGraph ==
  DagInv => GraphIsOrder
<1> SUFFICES ASSUME DagInv PROVE GraphIsOrder
  OBVIOUS
<1> DEFINE nodes == DOMAIN dag.graph.edges
<1>1. /\ DOMAIN dag.graph.back_edges = nodes
      /\ \A l \in nodes : dag.graph.edges[l] \subseteq nodes
      /\ \A l, m \in nodes : m \in dag.graph.edges[l] <=> l \in dag.graph.back_edges[m]
  BY DEF DagInv, WellFormed
<1>2. /\ \A l \in nodes : Root(l) \in DOMAIN program \ ended
      /\ \A l, m \in nodes :
           /\ m \in dag.graph.edges[l] <=>
                Root(l) < Root(m) /\ program[Root(l)] \cap program[Root(m)] # {}
           /\ Root(l) = Root(m) => l = m
      /\ \A r \in DOMAIN program \ ended : \E l \in nodes : Root(l) = r
  BY DEF DagInv, OrderKept, RootOf, Root
<1>3. \A l \in nodes :
        dag.graph.edges[l] =
          {m \in nodes : Root(l) < Root(m) /\ program[Root(l)] \cap program[Root(m)] # {}}
  BY <1>1, <1>2
<1>4. {Root(l) : l \in nodes} = DOMAIN program \ ended
  BY <1>2
<1> QED
  BY <1>1, <1>2, <1>3, <1>4 DEF GraphIsOrder, Live, Nodes

\* The walks of next() are safe.
LEMMA InvIsSafe ==
  DagInv => WalksAreSafe
<1> SUFFICES ASSUME DagInv PROVE WalksAreSafe
  OBVIOUS
<1> DEFINE nodes == DOMAIN dag.graph.edges
           heads == dag.proximate_heads
<1>1. /\ nodes \subseteq Nat /\ heads \in Seq(Nat)
  BY DEF DagInv, WellFormed, IsDag, LabelMap
<1>2. /\ labels \in Seq(Nat)
      /\ \A l \in Range(labels) : l \in nodes /\ dag.graph.back_edges[l] = {}
      /\ control = "proximate" => Range(labels) \subseteq Range(heads)
  BY DEF DagInv, WalkInv, Live, Nodes
<1>3. \A k \in DOMAIN labels : labels[k] \in Range(labels)
  BY DEF Range
<1>4. Range(heads) \subseteq Nat
  BY <1>1, ListRange
<1>5. \A l \in Range(heads) : l \in nodes /\ Root(l) \in begun
  BY <1>4 DEF DagInv, BegunInv, RootOf, Root, Live, Nodes
<1>6. \A l \in nodes : Root(l) \in begun => l \in Range(heads)
  BY <1>1 DEF DagInv, BegunInv, RootOf, Root, Live, Nodes
<1>7. /\ \A l \in nodes : Root(l) \in DOMAIN program \ ended
      /\ \A r \in DOMAIN program \ ended : \E l \in nodes : Root(l) = r
      /\ begun \subseteq DOMAIN program
  BY DEF DagInv, OrderKept, HistoryInv, RootOf, Root
<1>8. {Root(l) : l \in Range(heads)} = begun \ ended
  BY <1>5, <1>6, <1>7
<1>9. control = "threw" =>
        Visited.root \in begun \ ended \/ attempts[Head(labels)] = MAX_RETRIES + 1
  BY DEF DagInv, RetryInv
<1> QED
  BY <1>2, <1>3, <1>5, <1>8, <1>9 DEF WalksAreSafe, Live, Nodes

\* The first of the labels a loop has yet to visit, and the others.
LEMMA FirstVisited ==
  ASSUME DagInv, labels # << >>
  PROVE  /\ Head(labels) \in DOMAIN dag.graph.edges
         /\ Head(labels) \in Nat
         /\ dag.graph.back_edges[Head(labels)] = {}
         /\ Visited \in Entry
         /\ Visited.root = RootOf(dag, Head(labels))
         /\ Tail(labels) \in Seq(Nat)
         /\ Distinct(Tail(labels))
         /\ Head(labels) \in Range(labels)
         /\ Range(Tail(labels)) \subseteq Range(labels) \ {Head(labels)}
<1> DEFINE h == Head(labels)
           t == Tail(labels)
           n == Len(labels)
<1>1. labels \in Seq(Nat)
  BY DEF DagInv, WalkInv
<1>2. /\ n \in Nat /\ n # 0 /\ h = labels[1] /\ t \in Seq(Nat) /\ Len(t) = n - 1
      /\ \A j \in 1 .. n - 1 : t[j] = labels[j + 1]
  BY <1>1
<1>3. /\ Range(labels) = {labels[j] : j \in 1 .. n}
      /\ Range(t) = {t[j] : j \in 1 .. n - 1}
  BY <1>1, <1>2, ListRange
<1>4. \A j, k \in 1 .. n : labels[j] = labels[k] => j = k
  BY DEF DagInv, WalkInv, Distinct
<1> HIDE DEF h, t, n
<1>5. 1 \in 1 .. n /\ \A j \in 1 .. n - 1 : j + 1 \in 1 .. n /\ j + 1 # 1
  BY <1>2
<1>6. Distinct(t)
  BY <1>2, <1>4, <1>5 DEF Distinct
<1>7. h \in Range(labels) /\ Range(t) \subseteq Range(labels) \ {h}
  <2>1. h \in Range(labels)
    BY <1>2, <1>3, <1>5
  <2>2. ASSUME NEW j \in 1 .. n - 1
        PROVE  t[j] \in Range(labels) \ {h}
    <3>1. t[j] = labels[j + 1] /\ j + 1 \in 1 .. n /\ labels[j + 1] # labels[1]
      BY <1>2, <1>4, <1>5
    <3> QED
      BY <1>2, <1>3, <3>1
  <2> QED
    BY <1>3, <2>1, <2>2
<1>8. h \in DOMAIN dag.graph.edges /\ dag.graph.back_edges[h] = {}
  BY <1>7 DEF DagInv, WalkInv, Live, Nodes
<1>9. Visited \in Entry /\ Visited.root = RootOf(dag, h) /\ h \in Nat
  BY <1>8, NodeHasRoot DEF DagInv, Visited, RootOf, h, WellFormed, IsDag, LabelMap
<1> QED
  BY <1>2, <1>6, <1>7, <1>8, <1>9 DEF h, t

\* The instruction a loop visits may begin.
LEMMA VisitedIsReady ==
  ASSUME DagInv, labels # << >>
  PROVE  /\ Visited.root \in DOMAIN program \ ended
         /\ Order!Before(Visited.root) \subseteq ended
<1> DEFINE h == Head(labels)
<1>1. /\ h \in DOMAIN dag.graph.edges /\ dag.graph.back_edges[h] = {}
      /\ Visited.root = RootOf(dag, h) /\ RootOf(dag, h) \in Nat
  BY FirstVisited, NodeHasRoot DEF DagInv
<1>2. WellFormed(dag) /\ OrderKept(dag, program, ended) /\ program \in Seq(SUBSET Patches)
  BY DEF DagInv, HistoryInv
<1> HIDE DEF h
<1>3. RootOf(dag, h) \in DOMAIN program \ ended
  BY <1>1, <1>2 DEF OrderKept
<1>4. ASSUME NEW j \in 1 .. (RootOf(dag, h) - 1),
             program[RootOf(dag, h)] \cap program[j] # {}
      PROVE  j \in ended
  <2>1. j \in DOMAIN program /\ j < RootOf(dag, h)
    BY <1>1, <1>2, <1>3
  <2> QED
    BY <1>1, <1>2, <1>4, <2>1, HeadIsReady
<1> QED
  BY <1>1, <1>3, <1>4 DEF Order!Before

\* What has begun waits for nothing.
LEMMA BegunIsHead ==
  ASSUME DagInv, NEW l \in Range(dag.proximate_heads)
  PROVE  /\ l \in DOMAIN dag.graph.edges
         /\ dag.graph.back_edges[l] = {}
<1>1. WellFormed(dag) /\ OrderKept(dag, program, ended) /\ program \in Seq(SUBSET Patches)
  BY DEF DagInv, HistoryInv
<1>2. l \in Nat
  <2>1. dag.proximate_heads \in Seq(Nat)
    BY <1>1 DEF WellFormed, IsDag
  <2> QED
    BY <2>1, ListRange
<1>3. l \in DOMAIN dag.graph.edges /\ RootOf(dag, l) \in begun
  BY <1>2 DEF DagInv, BegunInv, Live, Nodes
<1>4. Order!Before(RootOf(dag, l)) \subseteq ended /\ RootOf(dag, l) \in Nat
  BY <1>1, <1>3, NodeHasRoot DEF DagInv, HistoryInv
<1>5. ASSUME NEW j \in DOMAIN program, j < RootOf(dag, l),
             program[RootOf(dag, l)] \cap program[j] # {}
      PROVE  j \in ended
  <2>1. j \in 1 .. (RootOf(dag, l) - 1)
    BY <1>1, <1>4, <1>5
  <2> QED
    BY <1>4, <1>5, <2>1 DEF Order!Before
<1>6. dag.graph.back_edges[l] = {}
  BY <1>1, <1>3, <1>5, ReadyIsHead
<1> QED
  BY <1>3, <1>6

-----------------------------------------------------------------------------
\* The range of the empty list.
LEMMA EmptyRange ==
  /\ << >> \in Seq(Nat) /\ Distinct(<< >>) /\ Range(<< >>) = {}
BY DEF Distinct, Range

\* Nothing is built yet.
LEMMA DagInitInv ==
  DagInit => DagInv
<1> SUFFICES ASSUME DagInit PROVE DagInv
  OBVIOUS
<1> USE DEF DagInit
<1>1. WellFormed(dag)
  <2>1. /\ dag = [graph |-> [edges |-> << >>, back_edges |-> << >>], instructions |-> << >>,
                  proximate_dependencies |-> {}, proximate_heads |-> << >>, current_label |-> 0]
        /\ DOMAIN << >> = {}
    BY DEF EmptyDag, EmptyGraph
  <2>2. /\ dag.graph.edges = << >> /\ dag.graph.back_edges = << >> /\ dag.instructions = << >>
        /\ dag.proximate_heads = << >> /\ dag.current_label = 0
    BY <2>1
  <2>3. \A S : LabelMap(<< >>, S)
    BY <2>1 DEF LabelMap
  <2>4. dag = [graph |-> [edges |-> dag.graph.edges, back_edges |-> dag.graph.back_edges],
               instructions |-> dag.instructions, proximate_dependencies |-> {},
               proximate_heads |-> dag.proximate_heads, current_label |-> dag.current_label]
    BY <2>1, <2>2
  <2>5. IsDag(dag)
    BY <2>2, <2>3, <2>4, EmptyRange DEF IsDag
  <2>6. /\ DOMAIN dag.graph.edges = {} /\ DOMAIN dag.graph.back_edges = {}
        /\ DOMAIN dag.instructions = {} /\ Distinct(dag.proximate_heads)
    BY <2>1, <2>2, EmptyRange
  <2> QED
    BY <2>5, <2>6 DEF WellFormed
<1>2. DOMAIN dag.graph.edges = {} /\ Live = {} /\ dag.proximate_heads = << >>
  BY DEF EmptyDag, EmptyGraph, Live, Nodes
<1>3. DOMAIN program = {}
  OBVIOUS
<1>4. OrderKept(dag, program, ended)
  BY <1>2, <1>3 DEF OrderKept
<1>5. HistoryInv
  BY DEF HistoryInv
<1>6. BegunInv /\ WalkInv
  BY <1>2, EmptyRange DEF BegunInv, WalkInv
<1>7. PhaseInv /\ RetryInv
  BY DEF PhaseInv, RetryInv, LabelMap
<1> QED
  BY <1>1, <1>4, <1>5, <1>6, <1>7 DEF DagInv

\* The builder pushes the next instruction of the program.
LEMMA BuildInv ==
  ASSUME DagInv, NEW ins \in Instructions, Build(ins)
  PROVE  DagInv'
<1> DEFINE entry == [kind |-> ins.kind, patches |-> ins.patches, stage |-> 0,
                     root |-> Len(program) + 1]
           e == push_instruction_based_on_commutation(dag, entry)
           c == dag.current_label
<1>1. /\ program \in Seq(SUBSET Patches) /\ WellFormed(dag) /\ OrderKept(dag, program, ended)
      /\ begun = {} /\ ended = {} /\ labels = << >>
      /\ control = "builder" /\ dag.proximate_heads \in Seq(Nat)
  BY DEF DagInv, HistoryInv, PhaseInv, Build, WellFormed, IsDag
<1>2. entry \in Entry
  <2>1. ins.kind \in Kinds /\ ins.patches \in SUBSET Patches
    BY InstructionsAssumption DEF Kinds
  <2>2. Len(program) + 1 \in Nat
    BY <1>1
  <2> QED
    BY <2>1, <2>2 DEF Entry
<1>3. /\ dag' = e /\ program' = Append(program, ins.patches)
      /\ UNCHANGED <<attempts, control, labels, needs_advance, begun, ended>>
  BY DEF Build
<1>4. entry.root = Len(program) + 1 /\ entry.patches = ins.patches
  OBVIOUS
<1> HIDE DEF entry, e
<1>5. Pushed(dag, e, Dependencies(dag, entry), entry) /\ WellFormed(e)
  BY <1>1, <1>2, PushInstruction DEF e
<1>6. OrderKept(e, Append(program, ins.patches), ended)
  BY <1>1, <1>2, <1>4, <1>5, PushKeepsOrder
<1>7. WellFormed(dag') /\ OrderKept(dag', program', ended')
  BY <1>1, <1>3, <1>5, <1>6
<1>8. HistoryInv'
  <2>1. program' \in Seq(SUBSET Patches)
    BY <1>1, <1>2, <1>3, <1>4 DEF Entry
  <2> QED
    BY <1>1, <1>3, <2>1 DEF HistoryInv
<1>9. Range(dag'.proximate_heads) = {}
  <2>1. \A l \in Range(dag.proximate_heads) : FALSE
    <3>1. Range(dag.proximate_heads) \subseteq Nat
      BY <1>1, ListRange
    <3> QED
      BY <1>1, <3>1 DEF DagInv, BegunInv
  <2> QED
    BY <1>3, <1>5, <2>1 DEF Pushed
<1>10. BegunInv'
  BY <1>1, <1>3, <1>9 DEF BegunInv
<1>11. WalkInv'
  BY <1>1, <1>3, EmptyRange DEF WalkInv
<1>12. PhaseInv' /\ RetryInv'
  BY <1>1, <1>3 DEF DagInv, PhaseInv, RetryInv
<1> QED
  BY <1>7, <1>8, <1>10, <1>11, <1>12 DEF DagInv

\* The steps of the loops that leave the graph alone.
LEMMA ControlInv ==
  ASSUME DagInv, Built \/ Call \/ StartApplicable \/ Return
  PROVE  DagInv'
<1>1. UNCHANGED <<dag, attempts, program, begun, ended>> /\ control # "threw"
  BY DEF Built, Call, StartApplicable, Return
<1>2. WellFormed(dag') /\ OrderKept(dag', program', ended')
  BY <1>1 DEF DagInv
<1>3. HistoryInv' /\ BegunInv'
  BY <1>1 DEF DagInv, HistoryInv, BegunInv, Order!Before, Live, Nodes
<1>4. WalkInv' /\ PhaseInv'
  <2>1. CASE Built
    BY <1>1, <2>1 DEF Built, DagInv, WalkInv, PhaseInv, Live, Nodes
  <2>2. CASE Call
    <3>1. CASE Nodes(dag.graph) = {}
      BY <1>1, <2>2, <3>1 DEF Call, DagInv, WalkInv, PhaseInv, Live, Nodes
    <3>2. CASE Nodes(dag.graph) # {}
      <4>1. control' = "proximate" /\ labels' = dag.proximate_heads
        BY <2>2, <3>2 DEF Call
      <4>2. dag.proximate_heads \in Seq(Nat) /\ Distinct(dag.proximate_heads)
        BY DEF DagInv, WellFormed, IsDag
      <4>3. \A l \in Range(dag.proximate_heads) :
              l \in DOMAIN dag.graph.edges /\ dag.graph.back_edges[l] = {}
        BY BegunIsHead
      <4> QED
        BY <1>1, <4>1, <4>2, <4>3 DEF WalkInv, PhaseInv, Live, Nodes
    <3> QED
      BY <3>1, <3>2
  <2>3. CASE StartApplicable
    <3> DEFINE heads == graph_heads(dag.graph)
    <3>1. heads \subseteq DOMAIN dag.graph.edges /\ \A l \in heads : dag.graph.back_edges[l] = {}
      BY DEF graph_heads, Nodes
    <3>2. heads \subseteq Nat /\ IsFiniteSet(heads)
      BY <3>1, FiniteNodes, FS_Subset DEF DagInv
    <3>3. control' = "applicable" /\ labels' = InOrder(heads)
      BY <2>3 DEF StartApplicable, applicable_instructions
    <3> HIDE DEF heads
    <3>4. /\ InOrder(heads) \in Seq(Nat) /\ Distinct(InOrder(heads))
          /\ \A j \in 1 .. Len(InOrder(heads)) : InOrder(heads)[j] \in heads
      BY <3>2, InOrderLists
    <3>5. Range(InOrder(heads)) \subseteq heads
      BY <3>4, ListRange
    <3> QED
      BY <1>1, <3>1, <3>3, <3>4, <3>5 DEF WalkInv, PhaseInv, Live, Nodes
  <2>4. CASE Return
    BY <1>1, <2>4 DEF Return, DagInv, WalkInv, PhaseInv, Live, Nodes
  <2> QED
    BY <2>1, <2>2, <2>3, <2>4
<1>5. RetryInv'
  <2>1. control' # "threw"
    BY DEF Built, Call, StartApplicable, Return
  <2> QED
    BY <1>1, <2>1 DEF DagInv, RetryInv
<1> QED
  BY <1>2, <1>3, <1>4, <1>5 DEF DagInv

\* The turn of a loop in which the instruction fails.
LEMMA FailsInv ==
  ASSUME DagInv, ApplyFails
  PROVE  DagInv'
<1> DEFINE h == Head(labels)
           tried == Attempts(h) + 1
<1>1. /\ UNCHANGED <<dag, needs_advance, program, begun, ended>>
      /\ control \in {"proximate", "applicable"} /\ labels # << >>
  BY DEF ApplyFails, Answered
<1>2. /\ h \in Nat /\ h \in Range(labels) /\ Visited.root = RootOf(dag, h)
      /\ Tail(labels) \in Seq(Nat) /\ Distinct(Tail(labels))
      /\ Range(Tail(labels)) \subseteq Range(labels)
  BY <1>1, FirstVisited
<1>3. WellFormed(dag') /\ OrderKept(dag', program', ended')
  BY <1>1 DEF DagInv
<1>4. HistoryInv' /\ BegunInv'
  BY <1>1 DEF DagInv, HistoryInv, BegunInv, Order!Before, Live, Nodes
<1>5. /\ LabelMap(attempts, Nat) /\ \A l \in DOMAIN attempts : attempts[l] <= MAX_RETRIES
      /\ MAX_RETRIES \in Nat
  BY <1>1, DagAssumption DEF DagInv, RetryInv
<1>6. tried \in Nat /\ tried <= MAX_RETRIES + 1
  BY <1>5 DEF Attempts, LabelMap
<1>7. CASE control = "proximate"
  <2>1. control' = "threw" /\ UNCHANGED <<attempts, labels>>
    BY <1>7 DEF ApplyFails
  <2>2. WalkInv' /\ PhaseInv'
    BY <1>1, <2>1 DEF DagInv, WalkInv, PhaseInv, Live, Nodes
  <2>3. Visited.root \in begun \ ended
    <3>1. h \in Range(dag.proximate_heads)
      BY <1>2, <1>7 DEF DagInv, WalkInv
    <3>2. RootOf(dag, h) \in begun
      BY <1>2, <3>1 DEF DagInv, BegunInv
    <3> QED
      BY <1>1, <1>2, <3>2, VisitedIsReady
  <2>4. Visited' = Visited
    BY <1>1, <2>1 DEF Visited
  <2>5. RetryInv'
    BY <1>1, <1>5, <2>1, <2>3, <2>4 DEF RetryInv
  <2> QED
    BY <1>3, <1>4, <2>2, <2>5 DEF DagInv
<1>8. CASE control = "applicable"
  <2> DEFINE more == [l \in DOMAIN attempts \cup {h} |-> IF l = h THEN tried ELSE attempts[l]]
  <2>1. /\ attempts' = more
        /\ IF tried > MAX_RETRIES THEN control' = "threw" /\ UNCHANGED labels
           ELSE labels' = Tail(labels) /\ UNCHANGED control
    BY <1>8 DEF ApplyFails, Incremented
  <2> HIDE DEF tried
  <2>2. LabelMap(more, Nat) /\ more[h] = tried /\ h \in DOMAIN more
    BY <1>2, <1>5, <1>6 DEF LabelMap
  <2>3. \A l \in DOMAIN more : more[l] <= MAX_RETRIES \/ (l = h /\ tried > MAX_RETRIES)
    BY <1>2, <1>5, <1>6 DEF LabelMap
  <2> HIDE DEF more
  <2>4. CASE tried > MAX_RETRIES
    <3>1. control' = "threw" /\ UNCHANGED labels
      BY <2>1, <2>4
    <3>2. attempts'[Head(labels')] = MAX_RETRIES + 1
      BY <1>5, <1>6, <2>1, <2>2, <2>4, <3>1
    <3>3. RetryInv'
      BY <2>1, <2>2, <3>1, <3>2 DEF RetryInv
    <3>4. WalkInv' /\ PhaseInv'
      BY <1>1, <3>1 DEF DagInv, WalkInv, PhaseInv, Live, Nodes
    <3> QED
      BY <1>3, <1>4, <3>3, <3>4 DEF DagInv
  <2>5. CASE ~ (tried > MAX_RETRIES)
    <3>1. labels' = Tail(labels) /\ control' = "applicable"
      BY <1>8, <2>1, <2>5
    <3>2. RetryInv'
      BY <2>1, <2>2, <2>3, <2>5, <3>1 DEF RetryInv
    <3>3. WalkInv' /\ PhaseInv'
      BY <1>1, <1>2, <1>8, <3>1 DEF DagInv, WalkInv, PhaseInv, Live, Nodes
    <3> QED
      BY <1>3, <1>4, <3>2, <3>3 DEF DagInv
  <2> QED
    BY <2>4, <2>5
<1> QED
  BY <1>1, <1>7, <1>8

-----------------------------------------------------------------------------
(***************************************************************************)
(* What every turn of a loop that changes the lattice does to the history. *)
(***************************************************************************)
LEMMA TurnHistory ==
  ASSUME DagInv, labels # << >>, begun' = begun \cup {Visited.root},
         ended' = ended \/ ended' = ended \cup {Visited.root}, UNCHANGED program
  PROVE  HistoryInv'
<1> DEFINE r == Visited.root
<1>1. /\ r \in DOMAIN program /\ Order!Before(r) \subseteq ended
      /\ HistoryInv
  BY VisitedIsReady DEF DagInv
<1> HIDE DEF r
<1>2. \A q : (Order!Before(q))' = Order!Before(q)
  BY DEF Order!Before
<1>3. begun' = begun \cup {r} /\ (ended' = ended \/ ended' = ended \cup {r}) /\ program' = program
  BY DEF r
<1>4. /\ begun' \subseteq DOMAIN program' /\ ended' \subseteq begun'
      /\ program' \in Seq(SUBSET Patches)
  BY <1>1, <1>3 DEF HistoryInv
<1>5. \A q \in begun' : Order!Before(q) \subseteq ended'
  BY <1>1, <1>3 DEF HistoryInv
<1>6. \A q \in begun' : (Order!Before(q))' \subseteq ended'
  BY <1>2, <1>5
<1> QED
  BY <1>4, <1>6 DEF HistoryInv

\* The turn in which the instruction ends.
LEMMA EndInv ==
  ASSUME DagInv, ApplyEnds
  PROVE  DagInv'
<1> DEFINE h == Head(labels)
           e == pop_head(dag, h)
           heads == dag.proximate_heads
<1>1. /\ dag' = e /\ labels' = Tail(labels)
      /\ begun' = begun \cup {Visited.root} /\ ended' = ended \cup {Visited.root}
      /\ UNCHANGED <<attempts, control, needs_advance, program>>
      /\ control \in {"proximate", "applicable"} /\ labels # << >>
  BY DEF ApplyEnds, Applied, Answered
<1>2. /\ h \in DOMAIN dag.graph.edges /\ h \in Nat /\ dag.graph.back_edges[h] = {}
      /\ Visited.root = RootOf(dag, h)
      /\ Tail(labels) \in Seq(Nat) /\ Distinct(Tail(labels)) /\ h \in Range(labels)
      /\ Range(Tail(labels)) \subseteq Range(labels) \ {h}
  BY <1>1, FirstVisited
<1>3. /\ WellFormed(dag) /\ OrderKept(dag, program, ended)
  BY DEF DagInv
<1> HIDE DEF h, e
<1>4. Popped(dag, e, h) /\ WellFormed(e)
  BY <1>2, <1>3, PopHead DEF e
<1>5. OrderKept(e, program, ended \cup {RootOf(dag, h)})
  BY <1>2, <1>3, <1>4, PopKeepsOrder
<1>6. WellFormed(dag') /\ OrderKept(dag', program', ended')
  BY <1>1, <1>2, <1>4, <1>5
<1>7. HistoryInv'
  BY <1>1, TurnHistory
<1>8. /\ DOMAIN e.graph.edges = DOMAIN dag.graph.edges \ {h}
      /\ \A l \in DOMAIN dag.graph.edges \ {h} :
           /\ RootOf(e, l) = RootOf(dag, l) /\ RootOf(dag, l) # RootOf(dag, h)
           /\ e.graph.back_edges[l] = dag.graph.back_edges[l] \ {h}
  BY <1>2, <1>3, <1>4 DEF Popped, RootOf, OrderKept
<1>9. Range(e.proximate_heads) = Range(heads) \ {h}
  BY <1>3, <1>4, ErasedIsGone DEF Popped, WellFormed, IsDag
<1>10. \A l \in Nat :
         l \in Range(heads) <=> l \in DOMAIN dag.graph.edges /\ RootOf(dag, l) \in begun
  BY DEF DagInv, BegunInv, Live, Nodes
<1> HIDE DEF heads
<1>11. \A l \in Nat :
         l \in Range(e.proximate_heads) <=>
           l \in DOMAIN e.graph.edges /\ RootOf(e, l) \in begun \cup {RootOf(dag, h)}
  BY <1>2, <1>8, <1>9, <1>10
<1>12. BegunInv'
  BY <1>1, <1>2, <1>11 DEF BegunInv, Live, Nodes
<1>13. \A l \in Range(labels) : l \in DOMAIN dag.graph.edges /\ dag.graph.back_edges[l] = {}
  BY DEF DagInv, WalkInv, Live, Nodes
<1>14. control = "proximate" => Range(labels) \subseteq Range(heads)
  BY DEF DagInv, WalkInv, heads
<1>15. \A l \in Range(Tail(labels)) : l \in DOMAIN e.graph.edges /\ e.graph.back_edges[l] = {}
  BY <1>2, <1>8, <1>13
<1>16. control = "proximate" => Range(Tail(labels)) \subseteq Range(e.proximate_heads)
  BY <1>2, <1>9, <1>14
<1>17. WalkInv'
  BY <1>1, <1>2, <1>15, <1>16 DEF WalkInv, Live, Nodes
<1>18. PhaseInv' /\ RetryInv'
  BY <1>1 DEF DagInv, PhaseInv, RetryInv
<1> QED
  BY <1>6, <1>7, <1>12, <1>17, <1>18 DEF DagInv

\* The turn after which the instruction continues as another one.
LEMMA ContinueInv ==
  ASSUME DagInv, NEW ins \in Entry, ins.root = Visited.root, ins.patches = Visited.patches,
         control \in {"proximate", "applicable"}, labels # << >>,
         Applied(<<ins>>), UNCHANGED ended
  PROVE  DagInv'
<1> DEFINE h == Head(labels)
           c == dag.current_label
           e == Continued(dag, h, ins)
           heads == dag.proximate_heads
<1>1. /\ h \in DOMAIN dag.graph.edges /\ h \in Nat /\ dag.graph.back_edges[h] = {}
      /\ Visited.root = RootOf(dag, h) /\ ins.patches = dag.instructions[h].patches
      /\ Tail(labels) \in Seq(Nat) /\ Distinct(Tail(labels)) /\ h \in Range(labels)
      /\ Range(Tail(labels)) \subseteq Range(labels) \ {h}
  BY FirstVisited DEF Visited
<1>2. /\ WellFormed(dag) /\ OrderKept(dag, program, ended)
      /\ c \in Nat /\ c \notin DOMAIN dag.graph.edges
  BY DEF DagInv, WellFormed, IsDag
<1>3. /\ Replaced(dag, e, h, ins) /\ WellFormed(e)
      /\ dag_expand(dag, h, <<ins>>, TRUE).current_label = c + 1
  BY <1>1, <1>2, ExpandHead
<1>4. /\ dag' = e /\ labels' = Tail(labels)
      /\ begun' = begun \cup {Visited.root} /\ ended' = ended
      /\ UNCHANGED <<attempts, control, needs_advance, program>>
  <2>1. <<ins>> # << >> /\ Len(<<ins>>) = 1 /\ c + 1 - 1 = c
    BY <1>2
  <2>2. dag' = make_proximate(dag_expand(dag, h, <<ins>>, TRUE),
                              dag_expand(dag, h, <<ins>>, TRUE).current_label - Len(<<ins>>))
    BY <2>1 DEF Applied
  <2>3. dag' = e
    <3>1. dag_expand(dag, h, <<ins>>, TRUE).current_label - Len(<<ins>>) = c
      <4> DEFINE next == dag_expand(dag, h, <<ins>>, TRUE).current_label
      <4>1. next = c + 1
        BY <1>3
      <4> HIDE DEF next, c
      <4>2. next - Len(<<ins>>) = c
        BY <1>2, <2>1, <4>1
      <4> QED
        BY <4>2 DEF next
    <3> HIDE DEF h
    <3> QED
      BY <2>2, <3>1 DEF Continued
  <2> QED
    BY <2>3 DEF Applied
<1> HIDE DEF h, e, c
<1>5. OrderKept(e, program, ended)
  BY <1>1, <1>2, <1>3, ReplaceKeepsOrder
<1>6. WellFormed(dag') /\ OrderKept(dag', program', ended')
  BY <1>3, <1>4, <1>5
<1>7. HistoryInv'
  BY <1>4, TurnHistory
<1>8. /\ DOMAIN e.graph.edges = (DOMAIN dag.graph.edges \ {h}) \cup {c}
      /\ RootOf(e, c) = RootOf(dag, h)
      /\ \A l \in DOMAIN dag.graph.edges \ {h} :
           /\ RootOf(e, l) = RootOf(dag, l) /\ RootOf(dag, l) # RootOf(dag, h)
           /\ e.graph.back_edges[l] =
                IF l \in dag.graph.edges[h] THEN (dag.graph.back_edges[l] \ {h}) \cup {c}
                ELSE dag.graph.back_edges[l]
  BY <1>1, <1>2, <1>3 DEF Replaced, RootOf, OrderKept, c
<1>9. Range(e.proximate_heads) = (Range(heads) \ {h}) \cup {c}
  <2>1. heads \in Seq(Nat) /\ Distinct(heads)
    BY <1>2 DEF WellFormed, IsDag
  <2> DEFINE rest == Erased(heads, h)
  <2>2. rest \in Seq(Nat) /\ Distinct(rest) /\ Range(rest) = Range(heads) \ {h}
    BY <2>1, ErasedIsGone
  <2>3. e.proximate_heads = Inserted(rest, c)
    BY <1>3 DEF Replaced, c
  <2> HIDE DEF rest
  <2> QED
    BY <1>2, <2>2, <2>3, InsertedIsLast
<1>10. \A l \in Nat :
         l \in Range(heads) <=> l \in DOMAIN dag.graph.edges /\ RootOf(dag, l) \in begun
  BY DEF DagInv, BegunInv, Live, Nodes
<1> HIDE DEF heads
<1>11. \A l \in Nat :
         l \in Range(e.proximate_heads) <=>
           l \in DOMAIN e.graph.edges /\ RootOf(e, l) \in begun \cup {RootOf(dag, h)}
  BY <1>1, <1>2, <1>8, <1>9, <1>10
<1>12. BegunInv'
  BY <1>1, <1>4, <1>11 DEF BegunInv, Live, Nodes
<1>13. \A l \in Range(labels) : l \in DOMAIN dag.graph.edges /\ dag.graph.back_edges[l] = {}
  BY DEF DagInv, WalkInv, Live, Nodes
<1>14. control = "proximate" => Range(labels) \subseteq Range(heads)
  BY DEF DagInv, WalkInv, heads
<1>15. ASSUME NEW l \in Range(Tail(labels))
       PROVE  l \in DOMAIN e.graph.edges /\ e.graph.back_edges[l] = {}
  <2>1. l \in DOMAIN dag.graph.edges \ {h} /\ dag.graph.back_edges[l] = {}
    BY <1>1, <1>13
  <2>2. l \notin dag.graph.edges[h]
    BY <1>1, <1>2, <2>1 DEF WellFormed
  <2> QED
    BY <1>8, <2>1, <2>2
<1>16. control = "proximate" => Range(Tail(labels)) \subseteq Range(e.proximate_heads)
  BY <1>1, <1>9, <1>14
<1>17. WalkInv'
  BY <1>1, <1>4, <1>15, <1>16 DEF WalkInv, Live, Nodes
<1>18. PhaseInv' /\ RetryInv'
  BY <1>4 DEF DagInv, PhaseInv, RetryInv
<1> QED
  BY <1>6, <1>7, <1>12, <1>17, <1>18 DEF DagInv

\* Every step keeps the invariant.
LEMMA DagStepInv ==
  ASSUME DagInv, [DagNext]_dagVars
  PROVE  DagInv'
<1>1. CASE \E ins \in Instructions : Build(ins)
  BY <1>1, BuildInv
<1>2. CASE Built \/ Call \/ StartApplicable \/ Return
  BY <1>2, ControlInv
<1>3. CASE ApplyEnds
  BY <1>3, EndInv
<1>4. CASE ApplyContinues
  <2> DEFINE ins == [Visited EXCEPT !.kind = Followup(Visited.kind)]
  <2>1. /\ Answered("followup") /\ Applied(<<ins>>) /\ UNCHANGED ended
    BY <1>4 DEF ApplyContinues
  <2>2. control \in {"proximate", "applicable"} /\ labels # << >> /\ "followup" \in Answers(Visited)
    BY <2>1 DEF Answered
  <2>3. Visited \in Entry
    BY <2>2, FirstVisited
  <2>4. Visited.kind \in {"S", "Rotate", "Busy2", "Busy1"}
    BY <2>2, <2>3 DEF Answers, CNOTAnswers, Entry, Kinds, ProgramKinds, BusyKinds
  <2>5. Followup(Visited.kind) \in Kinds
    BY <2>4 DEF Followup, Kinds, ProgramKinds, BusyKinds
  <2>6. ins \in Entry /\ ins.root = Visited.root /\ ins.patches = Visited.patches
    BY <2>3, <2>5 DEF Entry
  <2> HIDE DEF ins
  <2> QED
    BY <2>1, <2>2, <2>6, ContinueInv
<1>5. CASE ApplyReschedules
  <2> DEFINE ins == [Visited EXCEPT !.stage = Visited.stage + 1]
  <2>1. /\ Answered("rescheduled") /\ Applied(<<ins>>) /\ UNCHANGED ended
    BY <1>5 DEF ApplyReschedules
  <2>2. control \in {"proximate", "applicable"} /\ labels # << >>
    BY <2>1 DEF Answered
  <2>3. Visited \in Entry
    BY <2>2, FirstVisited
  <2>4. ins \in Entry /\ ins.root = Visited.root /\ ins.patches = Visited.patches
    BY <2>3 DEF Entry
  <2> HIDE DEF ins
  <2> QED
    BY <2>1, <2>2, <2>4, ContinueInv
<1>6. CASE ApplyFails
  BY <1>6, FailsInv
<1>7. CASE UNCHANGED dagVars
  <2>1. UNCHANGED <<dag, attempts, control, labels, program, begun, ended>>
    BY <1>7 DEF dagVars
  <2>2. WellFormed(dag') /\ OrderKept(dag', program', ended')
    BY <2>1 DEF DagInv
  <2>3. HistoryInv' /\ BegunInv'
    BY <2>1 DEF DagInv, HistoryInv, BegunInv, Order!Before, Live, Nodes
  <2>4. WalkInv' /\ PhaseInv' /\ RetryInv'
    BY <2>1 DEF DagInv, WalkInv, PhaseInv, RetryInv, Live, Nodes, Visited
  <2> QED
    BY <2>2, <2>3, <2>4 DEF DagInv
<1> QED
  BY <1>1, <1>2, <1>3, <1>4, <1>5, <1>6, <1>7 DEF DagNext

(***************************************************************************)
(* The invariant holds in every state of the dag pipeline.                 *)
(***************************************************************************)
THEOREM DagCorrect == DagSpec => []DagInv
BY DagInitInv, DagStepInv, PTL DEF DagSpec

(***************************************************************************)
(* The dependency graph remains the order of what is left of the program.  *)
(***************************************************************************)
THEOREM GraphStaysOrder == DagSpec => []GraphIsOrder
BY DagCorrect, OrderIsGraph, PTL

(***************************************************************************)
(* Nothing that the loops of next() hold becomes stale.                    *)
(***************************************************************************)
THEOREM WalksStaySafe == DagSpec => []WalksAreSafe
BY DagCorrect, InvIsSafe, PTL

\* Every step of the pipeline is one that PatchOrder allows.
LEMMA DagOrders ==
  ASSUME DagInv, [DagNext]_dagVars
  PROVE  [Order!Next]_Order!abstractVars
<1> USE DEF Order!abstractVars
<1>1. HistoryInv
  BY DEF DagInv
<1>2. ASSUME NEW ins \in Instructions, Build(ins)
      PROVE  [Order!Next]_Order!abstractVars
  <2>1. Order!Read(ins.patches)
    BY <1>2 DEF Build, Order!Read
  <2>2. ins.patches \in SUBSET Patches
    BY InstructionsAssumption
  <2> QED
    BY <2>1, <2>2 DEF Order!Next
<1>3. CASE ApplyEnds
  <2> DEFINE q == Visited.root
  <2>1. q \in DOMAIN program \ ended /\ Order!Before(q) \subseteq ended
    BY <1>3, VisitedIsReady DEF ApplyEnds, Answered
  <2>2. begun' = begun \cup {q} /\ ended' = ended \cup {q} /\ UNCHANGED program
    BY <1>3 DEF ApplyEnds, Applied
  <2> HIDE DEF q
  <2>3. CASE q \in begun
    <3>1. Order!End(q)
      BY <2>1, <2>2, <2>3 DEF Order!End
    <3> QED
      BY <2>1, <3>1 DEF Order!Next
  <2>4. CASE q \notin begun
    <3>1. Order!BeginAndEnd(q)
      BY <2>1, <2>2, <2>4 DEF Order!BeginAndEnd, Order!Ready
    <3> QED
      BY <2>1, <3>1 DEF Order!Next
  <2> QED
    BY <2>3, <2>4
<1>4. CASE ApplyContinues \/ ApplyReschedules
  <2> DEFINE q == Visited.root
  <2>1. q \in DOMAIN program \ ended /\ Order!Before(q) \subseteq ended
    BY <1>4, VisitedIsReady DEF ApplyContinues, ApplyReschedules, Answered
  <2>2. begun' = begun \cup {q} /\ UNCHANGED <<program, ended>>
    BY <1>4 DEF ApplyContinues, ApplyReschedules, Applied
  <2> HIDE DEF q
  <2>3. CASE q \in begun
    BY <2>2, <2>3
  <2>4. CASE q \notin begun
    <3>1. Order!Begin(q)
      BY <2>1, <2>2, <2>4 DEF Order!Begin, Order!Ready
    <3> QED
      BY <2>1, <3>1 DEF Order!Next
  <2> QED
    BY <2>3, <2>4
<1>5. CASE Built \/ Call \/ StartApplicable \/ Return \/ ApplyFails \/ UNCHANGED dagVars
  <2>1. UNCHANGED <<program, begun, ended>>
    BY <1>5 DEF Built, Call, StartApplicable, Return, ApplyFails, dagVars
  <2> QED
    BY <2>1
<1> QED
  BY <1>2, <1>3, <1>4, <1>5 DEF DagNext

(***************************************************************************)
(* The dag pipeline runs every program in patch order: it implements       *)
(* PatchOrder.                                                             *)
(***************************************************************************)
THEOREM DagImplementsPatchOrder == DagSpec => RunsInPatchOrder
<1>1. DagInit => Order!Init
  BY DEF DagInit, Order!Init
<1>2. DagInv /\ [DagNext]_dagVars => [Order!Next]_Order!abstractVars
  BY DagOrders
<1> QED
  BY <1>1, <1>2, DagCorrect, PTL DEF DagSpec, RunsInPatchOrder, Order!Spec

=============================================================================
