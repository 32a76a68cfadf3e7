------------------------- MODULE RouteSearch_proofs -------------------------
(***************************************************************************)
(* Proofs about RouteSearch, for every lattice, every sequence of queries, *)
(* every range of epochs and each of the four routers: a search answers    *)
(* with a route of its own lattice or, if there is none, with none, in     *)
(* Dijkstra's search and as long as no key was lowered in the queue with a *)
(* shortest one, and what the cached router answers is a route while it is *)
(* clear.                                                                  *)
(*                                                                         *)
(* Until a key is lowered the argument is the one for A* with a consistent *)
(* heuristic.  After that the queue may give any vertex it holds: what is  *)
(* left is that every vertex was reached from one that is closer.  What is *)
(* also particular to this code is that keys are compared without roots,   *)
(* and that its arrays are never cleared: what an earlier search has left  *)
(* there has an older stamp.                                               *)
(*                                                                         *)
(*   numbers and keys, the graph, walks, the buffer, one lemma for each    *)
(*   thing that a search does, the trace of predecessors, the actions      *)
(***************************************************************************)
EXTENDS RouteAnswers, FiniteSetTheorems, FunctionTheorems, SequenceTheorems, WellFoundedInduction, TLAPS

-----------------------------------------------------------------------------
(* Numbers. *)

\* Induction, for a set of numbers.
LEMMA SetInduction ==
  ASSUME NEW S, 0 \in S, \A n \in Nat : n \in S => n + 1 \in S
  PROVE  Nat \subseteq S
<1> DEFINE T == Nat \ S
<1> SUFFICES ASSUME T # {} PROVE FALSE
  OBVIOUS
<1>1. PICK m \in T : \A n \in T : ~ (<<n, m>> \in OpToRel(<, Nat))
  BY NatLessThanWellFounded, WFMin
<1>2. m \in T
  OBVIOUS
<1>3. m # 0 /\ m - 1 \in Nat
  BY <1>2
<1>4. m - 1 \in T
  BY <1>3
<1>5. <<m - 1, m>> \in OpToRel(<, Nat)
  BY <1>3 DEF OpToRel
<1> QED
  BY <1>1, <1>4, <1>5

\* Products of natural numbers grow with their factors.
LEMMA ProductsGrow ==
  ASSUME NEW a \in Nat, NEW b \in Nat, NEW c \in Nat, NEW d \in Nat, a <= c, b <= d
  PROVE  a * b \in Nat /\ a * b <= c * d
<1>1. a * b \in Nat /\ a * b <= a * d
  OBVIOUS
<1>2. a * d <= c * d
  OBVIOUS
<1> QED
  BY <1>1, <1>2

LEMMA ProductsGrowStrictly ==
  ASSUME NEW a \in Nat, NEW b \in Nat, NEW c \in Nat, NEW d \in Nat, a < c, b < d
  PROVE  a * b < c * d
<1>1. a * b <= a * d /\ a * d < c * d
  OBVIOUS
<1> QED
  BY <1>1

\* So do roots.
LEMMA RootsGrow ==
  ASSUME NEW a \in Nat, NEW b \in Nat, a * a <= b * b
  PROVE  a <= b
<1> SUFFICES ASSUME b < a PROVE FALSE
  OBVIOUS
<1>1. b * b < a * a
  BY ProductsGrowStrictly
<1> QED
  BY <1>1

LEMMA SumSquared ==
  ASSUME NEW a \in Int, NEW b \in Int
  PROVE  (a + b) * (a + b) = a * a + 2 * (a * b) + b * b
OBVIOUS

-----------------------------------------------------------------------------
(***************************************************************************)
(* Keys.  AtMost compares m + sqrt(x) with n + sqrt(y); in what follows    *)
(* sqrt(y) is at most 1 + sqrt(z), which is what a heuristic has to be     *)
(* like that does not mislead a search: y and z are squared distances of   *)
(* cells that lie beside each other.                                       *)
(***************************************************************************)
Near(y, z) == y - z - 1 <= 0 \/ (y - z - 1) * (y - z - 1) <= 4 * z

\* d >= 0 and sqrt(x) <= d + sqrt(y) give sqrt(x) <= d + 1 + sqrt(z).
LEMMA FurtherAhead ==
  ASSUME NEW d \in Nat, NEW x \in Nat, NEW y \in Nat, NEW z \in Nat, Near(y, z),
         x - y - d * d <= 0 \/ (x - y - d * d) * (x - y - d * d) <= 4 * d * d * y
  PROVE  LET r == x - z - (d + 1) * (d + 1)
         IN r <= 0 \/ r * r <= 4 * (d + 1) * (d + 1) * z
<1> DEFINE r1 == x - y - d * d
           r2 == y - z - 1
           r  == x - z - (d + 1) * (d + 1)
           c  == r1 - 2 * d
<1> SUFFICES ASSUME r > 0, ~ (r * r <= 4 * (d + 1) * (d + 1) * z)
             PROVE  FALSE
  OBVIOUS
<1>1. r1 \in Int /\ r2 \in Int /\ r \in Int /\ c \in Int /\ d * d \in Nat
  OBVIOUS
<1>2. (d + 1) * (d + 1) = d * d + 2 * d + 1
  OBVIOUS
<1>3. r = c + r2 /\ r1 = c + 2 * d /\ y = z + 1 + r2
  BY <1>1, <1>2
<1>4. r2 <= 0 \/ r2 * r2 <= 4 * z
  BY DEF Near
<1>5. r1 <= 0 \/ r1 * r1 <= 4 * d * d * y
  OBVIOUS
<1>6. /\ d * d * z \in Nat /\ d * z \in Nat
      /\ 4 * (d + 1) * (d + 1) * z = 4 * (d * d * z) + 8 * (d * z) + 4 * z
      /\ 4 * d * d * y = 4 * (d * d * z) + 4 * (d * d) + 4 * (d * d * r2)
  BY <1>3
<1> HIDE DEF r1, r2, r, c
<1>7. c > 0 /\ c * c > 4 * (d * d * z)
  <2>1. CASE r2 <= 0
    <3>1. r <= c
      BY <1>1, <1>3, <2>1
    <3>2. r * r <= c * c
      BY <1>1, <3>1, ProductsGrow
    <3> QED
      BY <1>1, <1>6, <3>1, <3>2
  <2>2. CASE r2 > 0 /\ c <= 0
    <3>1. r <= r2
      BY <1>1, <1>3, <2>2
    <3>2. r * r <= r2 * r2
      BY <1>1, <2>2, <3>1, ProductsGrow
    <3> QED
      BY <1>1, <1>4, <1>6, <2>2, <3>2
  <2>3. CASE r2 > 0 /\ c > 0 /\ c * c <= 4 * (d * d * z)
    <3>1. r2 \in Nat /\ c \in Nat /\ c * c \in Nat /\ r2 * r2 \in Nat /\ c * r2 \in Nat
      BY <1>1, <2>3
    <3>2. (c * c) * (r2 * r2) <= (4 * (d * d * z)) * (4 * z)
      BY <1>4, <1>6, <2>3, <3>1, ProductsGrow
    <3>3. (c * r2) * (c * r2) = (c * c) * (r2 * r2)
      BY <3>1
    <3>4. (4 * (d * z)) * (4 * (d * z)) = (4 * (d * d * z)) * (4 * z)
      OBVIOUS
    <3>5. c * r2 <= 4 * (d * z)
      BY <1>6, <3>1, <3>2, <3>3, <3>4, RootsGrow
    <3>6. r * r = c * c + 2 * (c * r2) + r2 * r2
      BY <1>1, <1>3, SumSquared
    <3> QED
      BY <1>4, <1>6, <2>3, <3>1, <3>5, <3>6
  <2> QED
    BY <1>1, <1>6, <2>1, <2>2, <2>3
<1>8. c * c + 4 * (c * d) < c * c + 4 * (d * d * r2)
  <2>1. r1 * r1 <= 4 * d * d * y
    BY <1>1, <1>3, <1>5, <1>7
  <2>2. r1 * r1 = c * c + 4 * (c * d) + 4 * (d * d)
    BY <1>1, <1>3
  <2> QED
    BY <1>1, <1>6, <1>7, <2>1, <2>2
<1>9. d > 0 /\ c < d * r2
  <2>1. c * d < (d * r2) * d
    BY <1>1, <1>8
  <2>2. d > 0
    BY <1>1, <2>1
  <2>3. CASE d * r2 <= c
    <3>1. (d * r2) * d <= c * d
      BY <1>1, <2>2, <2>3
    <3> QED
      BY <1>1, <2>1, <3>1
  <2> QED
    BY <1>1, <2>2, <2>3
<1>10. r2 > 0
  BY <1>1, <1>7, <1>9
<1>11. c * c <= (d * r2) * (d * r2)
  BY <1>1, <1>7, <1>9, <1>10, ProductsGrow
<1>12. (d * r2) * (d * r2) = (d * d) * (r2 * r2)
  BY <1>1
<1>13. (d * d) * (r2 * r2) <= (d * d) * (4 * z)
  BY <1>1, <1>4, <1>10, ProductsGrow
<1>14. c * c <= 4 * (d * d * z)
  BY <1>1, <1>11, <1>12, <1>13
<1> QED
  BY <1>1, <1>6, <1>7, <1>14

\* sqrt(x) + k + 1 <= sqrt(y) gives sqrt(x) + k <= sqrt(z).
LEMMA FurtherBehind ==
  ASSUME NEW k \in Nat, NEW x \in Nat, NEW y \in Nat, NEW z \in Nat, Near(y, z),
         y - x - (k + 1) * (k + 1) >= 0,
         4 * (k + 1) * (k + 1) * x
           <= (y - x - (k + 1) * (k + 1)) * (y - x - (k + 1) * (k + 1))
  PROVE  LET s == z - x - k * k
         IN s >= 0 /\ 4 * k * k * x <= s * s
<1> DEFINE r == y - x - (k + 1) * (k + 1)
           s == z - x - k * k
           t == r - s
           w == t + 2 * k
<1>1. r \in Int /\ s \in Int /\ t \in Int /\ w \in Int /\ k * k \in Nat /\ k * k * x \in Nat
      /\ k * x \in Nat
  OBVIOUS
<1>2. (k + 1) * (k + 1) = k * k + 2 * k + 1
  OBVIOUS
<1>3. w = y - z - 1 /\ z = s + x + k * k /\ r = s + t
  BY <1>1, <1>2
<1>4. w <= 0 \/ w * w <= 4 * s + 4 * x + 4 * (k * k)
  <2>1. 4 * z = 4 * s + 4 * x + 4 * (k * k)
    BY <1>1, <1>3
  <2> QED
    BY <1>3, <2>1 DEF Near
<1>5. r >= 0 /\ 4 * (k * k * x) + 8 * (k * x) + 4 * x <= r * r
  BY <1>1
<1>6. w * w = t * t + 4 * (t * k) + 4 * (k * k)
  BY <1>1
<1> HIDE DEF r, s, t, w
<1>7. s >= 0
  <2> SUFFICES ASSUME s < 0 PROVE FALSE
    BY <1>1
  <2>1. t > r /\ r \in Nat /\ t \in Nat /\ w > 0
    BY <1>1, <1>3, <1>5 DEF w
  <2>2. r * r <= t * t
    BY <2>1, ProductsGrow
  <2>3. 4 * x <= t * t
    BY <1>1, <1>5, <2>1, <2>2
  <2>4. t * k \in Nat
    BY <2>1
  <2> QED
    BY <1>1, <1>4, <1>6, <2>1, <2>3, <2>4
<1>8. ASSUME s * s < 4 * (k * k * x)
      PROVE  FALSE
  <2>1. r \in Nat /\ s \in Nat
    BY <1>1, <1>5, <1>7
  <2>2. (k * r) * (k * r) = (k * k) * (r * r)
    BY <1>1
  <2>3. (k * k) * (4 * (k * k * x) + 8 * (k * x) + 4 * x) <= (k * k) * (r * r)
    <3>1. 4 * (k * k * x) + 8 * (k * x) + 4 * x \in Nat /\ r * r \in Nat
      BY <1>1, <2>1
    <3> QED
      BY <1>1, <1>5, <3>1, ProductsGrow
  <2>4. (k * k) * (4 * (k * k * x) + 8 * (k * x) + 4 * x)
          = ((k + 1) * (k + 1)) * (4 * (k * k * x))
    BY <1>1
  <2>5. ((k + 1) * (k + 1)) * (s * s) < ((k + 1) * (k + 1)) * (4 * (k * k * x))
    <3>1. (k + 1) * (k + 1) > 0 /\ s * s \in Nat
      BY <2>1
    <3> HIDE DEF s
    <3> QED
      BY <1>1, <1>8, <3>1
  <2>6. ((k + 1) * (k + 1)) * (s * s) = ((k + 1) * s) * ((k + 1) * s)
    BY <2>1
  <2>7. ((k + 1) * s) * ((k + 1) * s) < (k * r) * (k * r)
    BY <2>1, <2>2, <2>3, <2>4, <2>5, <2>6
  <2>8. (k + 1) * s < k * r
    <3> SUFFICES ASSUME k * r <= (k + 1) * s PROVE FALSE
      BY <2>1
    <3>1. (k * r) * (k * r) <= ((k + 1) * s) * ((k + 1) * s)
      BY <2>1, ProductsGrow
    <3> QED
      BY <2>1, <2>7, <3>1
  <2>9. s < k * t
    BY <1>1, <1>3, <2>1, <2>8
  <2>10. t > 0 /\ t \in Nat
    <3> SUFFICES ASSUME t <= 0 PROVE FALSE
      BY <1>1
    <3>1. k * t <= 0
      BY <1>1
    <3> QED
      BY <1>1, <2>1, <2>9, <3>1
  <2>11. t * t < 4 * x
    <3>1. w > 0
      BY <1>1, <2>10 DEF w
    <3>2. t * t + 4 * (t * k) <= 4 * s + 4 * x
      BY <1>1, <1>4, <1>6, <2>1, <2>10, <3>1
    <3> QED
      BY <1>1, <2>1, <2>9, <2>10, <3>2
  <2>12. s * t < 4 * (k * x)
    <3> SUFFICES ASSUME 4 * (k * x) <= s * t PROVE FALSE
      BY <1>1, <2>1, <2>10
    <3>1. (4 * (k * x)) * (4 * (k * x)) <= (s * t) * (s * t)
      BY <1>1, <2>1, <2>10, ProductsGrow
    <3>2. (s * s) * (t * t) < (4 * (k * k * x)) * (4 * x)
      BY <1>1, <1>8, <2>1, <2>10, <2>11, ProductsGrowStrictly
    <3>3. (s * t) * (s * t) = (s * s) * (t * t)
      BY <2>1, <2>10
    <3>4. (4 * (k * x)) * (4 * (k * x)) = (4 * (k * k * x)) * (4 * x)
      OBVIOUS
    <3> QED
      BY <1>1, <2>1, <2>10, <3>1, <3>2, <3>3, <3>4
  <2>13. r * r = s * s + 2 * (s * t) + t * t
    BY <1>1, <1>3, SumSquared
  <2> QED
    BY <1>1, <1>5, <1>8, <2>1, <2>10, <2>11, <2>12, <2>13
<1>9. 4 * k * k * x = 4 * (k * k * x) /\ s * s \in Int
  BY <1>1
<1> QED
  BY <1>1, <1>7, <1>8, <1>9 DEF s

\* A key that is at most another is at most what lies one step behind it.
LEMMA KeysOneFurther ==
  ASSUME NEW m \in Nat, NEW n \in Nat, NEW x \in Nat, NEW y \in Nat, NEW z \in Nat,
         Near(y, z), AtMost(m, x, n, y)
  PROVE  AtMost(m, x, n + 1, z)
<1>1. CASE n >= m
  <2> DEFINE d == n - m
  <2>1. d \in Nat /\ n + 1 - m = d + 1
    BY <1>1
  <2>2. x - y - d * d <= 0 \/ (x - y - d * d) * (x - y - d * d) <= 4 * d * d * y
    BY <2>1 DEF AtMost
  <2>3. LET r == x - z - (d + 1) * (d + 1)
        IN r <= 0 \/ r * r <= 4 * (d + 1) * (d + 1) * z
    <3> HIDE DEF d
    <3> QED
      BY <2>1, <2>2, FurtherAhead
  <2> HIDE DEF d
  <2> QED
    BY <2>1, <2>3 DEF AtMost
<1>2. CASE n < m
  <2> DEFINE k == m - n - 1
  <2>1. k \in Nat /\ n - m = -(k + 1) /\ n + 1 - m = -k
    BY <1>2
  <2> HIDE DEF k
  <2>2. (-(k + 1)) * (-(k + 1)) = (k + 1) * (k + 1) /\ (-k) * (-k) = k * k
    BY <2>1
  <2>3. /\ y - x - (k + 1) * (k + 1) >= 0
        /\ 4 * (k + 1) * (k + 1) * x
             <= (y - x - (k + 1) * (k + 1)) * (y - x - (k + 1) * (k + 1))
    <3>1. 4 * (-(k + 1)) * (-(k + 1)) * x = 4 * (k + 1) * (k + 1) * x
      BY <2>1
    <3>2. ~ (-(k + 1) >= 0)
      BY <2>1
    <3> QED
      BY <2>1, <2>2, <3>1, <3>2 DEF AtMost
  <2>4. z - x - k * k >= 0 /\ 4 * k * k * x <= (z - x - k * k) * (z - x - k * k)
    BY <2>1, <2>3, FurtherBehind
  <2>5. CASE k = 0
    BY <2>1, <2>4, <2>5 DEF AtMost
  <2>6. CASE k > 0
    <3>1. 4 * (-k) * (-k) * x = 4 * k * k * x
      BY <2>1
    <3>2. ~ (-k >= 0)
      BY <2>1, <2>6
    <3> QED
      BY <2>1, <2>2, <2>4, <3>1, <3>2 DEF AtMost
  <2> QED
    BY <2>1, <2>5, <2>6
<1> QED
  BY <1>1, <1>2

LEMMA KeyIsAtMostItself ==
  ASSUME NEW m \in Nat, NEW x \in Nat
  PROVE  AtMost(m, x, m, x)
BY DEF AtMost

\* Keys of one vertex are compared by their distances.
LEMMA KeysOfOneVertex ==
  ASSUME NEW m \in Nat, NEW n \in Nat, NEW x \in Nat, AtMost(m, x, n, x)
  PROVE  m <= n
<1> SUFFICES ASSUME n < m PROVE FALSE
  OBVIOUS
<1> DEFINE d == m - n
<1>1. d \in Nat /\ d > 0 /\ n - m = -d
  OBVIOUS
<1> HIDE DEF d
<1>2. (-d) * (-d) = d * d /\ d * d > 0
  BY <1>1
<1>3. ~ (-d >= 0)
  BY <1>1
<1> QED
  BY <1>1, <1>2, <1>3 DEF AtMost

\* The target's key is its distance.
LEMMA KeysOfTarget ==
  ASSUME NEW m \in Nat, NEW n \in Nat, NEW k \in Nat, NEW y \in Nat, AtMost(m, 0, n, y), n <= k
  PROVE  AtMost(m, 0, k, y)
<1>1. CASE k >= m
  <2>1. (k - m) * (k - m) >= 0
    BY <1>1, ProductsGrow
  <2> QED
    BY <1>1, <2>1 DEF AtMost
<1>2. CASE k < m
  <2> DEFINE d == m - n
             e == m - k
  <2>1. d \in Nat /\ e \in Nat /\ e > 0 /\ e <= d /\ n - m = -d /\ k - m = -e
    BY <1>2
  <2> HIDE DEF d, e
  <2>2. ~ (-d >= 0) /\ ~ (-e >= 0) /\ (-d) * (-d) = d * d /\ (-e) * (-e) = e * e
    BY <2>1
  <2>3. e * e <= d * d /\ e * e \in Nat /\ d * d \in Nat
    BY <2>1, ProductsGrow
  <2>4. y - 0 - d * d >= 0
    BY <2>1, <2>2 DEF AtMost
  <2>5. y - 0 - e * e \in Nat
    BY <2>3, <2>4
  <2>6. 4 * (-e) * (-e) * 0 = 0 /\ (y - 0 - e * e) * (y - 0 - e * e) \in Nat
    BY <2>1, <2>5
  <2> QED
    BY <2>1, <2>2, <2>5, <2>6 DEF AtMost
<1> QED
  BY <1>1, <1>2

LEMMA CellParts ==
  ASSUME NEW c \in Cells
  PROVE  c[1] \in Nat /\ c[2] \in Nat /\ c = <<c[1], c[2]>>
BY SearchAssumption DEF Cells

\* What HeuristicSquared is for a kind of heuristic and a target t.
Squared(kind, t, c) ==
  IF kind = "None" THEN 0
  ELSE (c[1] - t[1]) * (c[1] - t[1]) + (c[2] - t[2]) * (c[2] - t[2])

\* A heuristic never misleads.
LEMMA HeuristicIsNear ==
  ASSUME NEW kind, NEW t \in Cells, NEW a \in Cells, NEW b \in Cells, Beside(a, b)
  PROVE  Near(Squared(kind, t, a), Squared(kind, t, b))
<1>1. CASE kind = "None"
  BY <1>1 DEF Squared, Near
<1>2. CASE kind # "None"
  <2> DEFINE A == a[1] - t[1]
             B == a[2] - t[2]
             C == b[1] - t[1]
             D == b[2] - t[2]
  <2>1. A \in Int /\ B \in Int /\ C \in Int /\ D \in Int
    BY CellParts
  <2>2. Squared(kind, t, a) = A * A + B * B /\ Squared(kind, t, b) = C * C + D * D
    BY <1>2 DEF Squared
  <2>3. \/ A = C /\ (D = B + 1 \/ D = B - 1)
        \/ B = D /\ (C = A + 1 \/ C = A - 1)
    <3>1. /\ a[1] \in Int /\ a[2] \in Int /\ b[1] \in Int /\ b[2] \in Int
          /\ t[1] \in Int /\ t[2] \in Int
      BY CellParts
    <3>2. \/ a[1] = b[1] /\ (a[2] - b[2] = -1 \/ a[2] - b[2] = 1)
          \/ a[2] = b[2] /\ (a[1] - b[1] = -1 \/ a[1] - b[1] = 1)
      BY DEF Beside
    <3> QED
      BY <3>1, <3>2
  <2> HIDE DEF A, B, C, D
  <2> SUFFICES ASSUME NEW E \in Int, NEW F \in Int, NEW G \in Int,
                      Squared(kind, t, a) = E * E + F * F,
                      Squared(kind, t, b) = G * G + F * F,
                      G = E + 1 \/ G = E - 1
               PROVE  Near(Squared(kind, t, a), Squared(kind, t, b))
    <3>1. CASE A = C
      <4>1. Squared(kind, t, a) = B * B + A * A /\ Squared(kind, t, b) = D * D + A * A
        BY <2>1, <2>2, <3>1
      <4> QED
        BY <2>1, <2>3, <3>1, <4>1
    <3>2. CASE B = D
      <4>1. Squared(kind, t, a) = A * A + B * B /\ Squared(kind, t, b) = C * C + B * B
        BY <2>2, <3>2
      <4> QED
        BY <2>1, <2>3, <3>2, <4>1
    <3> QED
      BY <2>3, <3>1, <3>2
  <2> DEFINE r == Squared(kind, t, a) - Squared(kind, t, b) - 1
  <2>4. r = -(2 * G) \/ r = 2 * G
    <3>1. CASE G = E + 1
      <4>1. E = G - 1 /\ E * E = G * G - 2 * G + 1
        BY <3>1
      <4>2. G * G \in Int /\ F * F \in Int
        OBVIOUS
      <4> HIDE DEF r
      <4> QED
        BY <4>1, <4>2 DEF r
    <3>2. CASE G = E - 1
      <4>1. E = G + 1 /\ E * E = G * G + 2 * G + 1
        BY <3>2
      <4>2. G * G \in Int /\ F * F \in Int
        OBVIOUS
      <4> HIDE DEF r
      <4> QED
        BY <4>1, <4>2 DEF r
    <3> QED
      BY <3>1, <3>2
  <2> HIDE DEF r
  <2>5. r * r = 4 * (G * G)
    BY <2>4
  <2>6. F * F >= 0 /\ G * G \in Int
    <3>1. F * F \in Nat
      <4>1. F \in Nat \/ -F \in Nat
        OBVIOUS
      <4>2. (-F) * (-F) = F * F
        OBVIOUS
      <4> QED
        BY <4>1, <4>2, ProductsGrow
    <3> QED
      BY <3>1
  <2>7. r * r <= 4 * Squared(kind, t, b)
    BY <2>5, <2>6
  <2> QED
    BY <2>7 DEF Near, r
<1> QED
  BY <1>1, <1>2

LEMMA HeuristicIsSquare ==
  ASSUME NEW kind, NEW t \in Cells
  PROVE  /\ \A c \in Cells : Squared(kind, t, c) \in Nat
         /\ Squared(kind, t, t) = 0
<1>1. ASSUME NEW i \in Int
      PROVE  i * i \in Nat
  <2>1. i \in Nat \/ -i \in Nat
    OBVIOUS
  <2>2. (-i) * (-i) = i * i
    OBVIOUS
  <2> QED
    BY <2>1, <2>2, ProductsGrow
<1>2. ASSUME NEW c \in Cells
      PROVE  Squared(kind, t, c) \in Nat
  <2>1. c[1] - t[1] \in Int /\ c[2] - t[2] \in Int
    BY CellParts
  <2> QED
    BY <1>1, <2>1 DEF Squared
<1>3. Squared(kind, t, t) = 0
  BY CellParts DEF Squared
<1> QED
  BY <1>2, <1>3

-----------------------------------------------------------------------------
(* The lattice as a graph. *)

LEMMA FiniteCells ==
  /\ IsFiniteSet(Cells) /\ IsFiniteSet(Vertices)
  /\ Cardinality(Cells) \in Nat /\ Cardinality(Vertices) = Cardinality(Cells) + 1
<1>1. IsFiniteSet(0 .. furthest_cell[1]) /\ IsFiniteSet(0 .. furthest_cell[2])
  BY FS_Interval, SearchAssumption
<1>2. IsFiniteSet(Cells)
  BY <1>1, FS_Product DEF Cells
<1> QED
  BY <1>2, FS_AddElement, FS_CardinalityType, SearchAssumption DEF Vertices

Posed(q) == q \in Query /\ q.source \notin q.open /\ q.target \notin q.open

Origin(q) == IF want_cycle(q) THEN Simulated ELSE q.source

\* The vertices that a search may go on to from u.
After(q, u) == Neighbours(q, IF u = Simulated THEN q.source ELSE u)

LEMMA QueryParts ==
  ASSUME NEW q, Posed(q)
  PROVE  /\ q.open \subseteq Cells /\ q.source \in Cells /\ q.target \in Cells
         /\ q.source \notin q.open /\ q.target \notin q.open
         /\ q.source # Simulated /\ q.target # Simulated /\ Simulated \notin q.open
         /\ Origin(q) \in Vertices /\ Origin(q) # q.target
         /\ Origin(q) = Simulated <=> want_cycle(q)
         /\ \A u : After(q, u) \subseteq Cells
BY SearchAssumption DEF Posed, Query, Origin, After, Neighbours, Vertices, want_cycle

LEMMA BesideIsSymmetric ==
  ASSUME NEW c \in Cells, NEW d \in Cells, Beside(c, d)
  PROVE  Beside(d, c)
BY CellParts DEF Beside

\* Every vertex that a search goes on to lies beside the last one.
LEMMA AfterIsBeside ==
  ASSUME NEW q, Posed(q), NEW u \in Cells, NEW v \in After(q, u)
  PROVE  v \in Cells /\ Beside(u, v)
BY SearchAssumption DEF After, Neighbours, have_directed_edge, Vertices

-----------------------------------------------------------------------------
(* Walks and routes. *)

IsWalk(w) ==
  /\ w \in Seq(Cells) /\ Len(w) <= Cardinality(Cells)
  /\ \A j, k \in DOMAIN w : w[j] = w[k] => j = k
  /\ \A k \in 1 .. (Len(w) - 1) : Beside(w[k], w[k + 1])

WalksOf(n) == {w \in [1 .. n -> Cells] :
  /\ \A j, k \in 1 .. n : w[j] = w[k] => j = k
  /\ \A k \in 1 .. (n - 1) : Beside(w[k], w[k + 1])}

Growing(walks, n) ==
  {x \in walks \X Cells :
     /\ n > 1 => Beside(x[1][n - 1], x[2])
     /\ \A k \in DOMAIN x[1] : x[1][k] # x[2]}

Grown(walks, n) == {Append(w[1], w[2]) : w \in Growing(walks, n)}

\* The walks of n + 1 cells are those of n with one more cell.
LEMMA WalksGrow ==
  ASSUME NEW n \in Nat
  PROVE  WalksOf(n + 1) = Grown(WalksOf(n), n + 1)
<1> DEFINE Longer == Growing(WalksOf(n), n + 1)
<1>1. ASSUME NEW v \in WalksOf(n + 1)
      PROVE  \E w \in Longer : v = Append(w[1], w[2])
  <2> DEFINE u == [k \in 1 .. n |-> v[k]]
  <2>1. v \in [1 .. n + 1 -> Cells]
    BY DEF WalksOf
  <2>2. u \in [1 .. n -> Cells] /\ v[n + 1] \in Cells
    BY <2>1
  <2>3. u \in WalksOf(n)
    BY <2>2 DEF WalksOf
  <2>4. \A k \in DOMAIN u : u[k] # v[n + 1]
    BY DEF WalksOf
  <2>5. n + 1 > 1 => Beside(u[n + 1 - 1], v[n + 1])
    BY DEF WalksOf
  <2>6. <<u, v[n + 1]>> \in Longer
    <3> HIDE DEF u
    <3>1. <<u, v[n + 1]>> \in WalksOf(n) \X Cells
      BY <2>2, <2>3
    <3>2. <<u, v[n + 1]>>[1] = u /\ <<u, v[n + 1]>>[2] = v[n + 1]
      OBVIOUS
    <3> QED
      BY <2>4, <2>5, <3>1, <3>2 DEF Growing
  <2>7. v = Append(u, v[n + 1])
    <3>1. u \in Seq(Cells) /\ Len(u) = n
      BY <2>2
    <3>2. Append(u, v[n + 1]) = [k \in 1 .. n + 1 |-> IF k <= n THEN u[k] ELSE v[n + 1]]
      BY <2>2, <3>1
    <3>3. v = [k \in 1 .. n + 1 |-> v[k]]
      BY <2>1
    <3>4. \A k \in 1 .. n + 1 : v[k] = IF k <= n THEN u[k] ELSE v[n + 1]
      OBVIOUS
    <3> HIDE DEF u
    <3> QED
      BY <3>2, <3>3, <3>4
  <2> HIDE DEF u, Longer
  <2> QED
    BY <2>6, <2>7
<1>2. ASSUME NEW w \in Longer
      PROVE  Append(w[1], w[2]) \in WalksOf(n + 1)
  <2> DEFINE v == Append(w[1], w[2])
  <2>1. /\ w[1] \in [1 .. n -> Cells] /\ w[2] \in Cells
        /\ \A j, k \in 1 .. n : w[1][j] = w[1][k] => j = k
        /\ \A k \in 1 .. (n - 1) : Beside(w[1][k], w[1][k + 1])
        /\ \A k \in 1 .. n : w[1][k] # w[2]
        /\ n > 0 => Beside(w[1][n], w[2])
    BY DEF WalksOf, Growing
  <2>2. w[1] \in Seq(Cells) /\ Len(w[1]) = n
    BY <2>1
  <2>3. v = [k \in 1 .. n + 1 |-> IF k <= n THEN w[1][k] ELSE w[2]]
    <3> DEFINE a == w[1]
               b == w[2]
    <3>1. a \in Seq(Cells) /\ b \in Cells /\ Len(a) = n
      BY <2>1, <2>2
    <3> HIDE DEF a, b
    <3>2. /\ Append(a, b) \in Seq(Cells) /\ Len(Append(a, b)) = n + 1
          /\ \A k \in 1 .. n : Append(a, b)[k] = a[k]
          /\ Append(a, b)[n + 1] = b
      BY <3>1, AppendProperties
    <3>3. Append(a, b) = [k \in 1 .. n + 1 |-> Append(a, b)[k]]
      <4>1. Append(a, b) \in [1 .. Len(Append(a, b)) -> Cells]
        BY <3>2, LenProperties
      <4> QED
        BY <3>2, <4>1
    <3>4. Append(a, b) = [k \in 1 .. n + 1 |-> IF k <= n THEN a[k] ELSE b]
      BY <3>2, <3>3
    <3> QED
      BY <3>4 DEF a, b
  <2> HIDE DEF v, Longer
  <2>4. (\A k \in 1 .. n : v[k] = w[1][k]) /\ v[n + 1] = w[2]
    BY <2>3
  <2>5. \A j, k \in 1 .. n + 1 : v[j] = v[k] => j = k
    <3> SUFFICES ASSUME NEW j \in 1 .. n + 1, NEW k \in 1 .. n + 1, v[j] = v[k]
                 PROVE  j = k
      OBVIOUS
    <3>1. CASE j <= n /\ k <= n
      BY <2>1, <2>4, <3>1
    <3>2. CASE j = n + 1 \/ k = n + 1
      BY <2>1, <2>4, <3>2
    <3> QED
      BY <3>1, <3>2
  <2>6. \A k \in 1 .. n : Beside(v[k], v[k + 1])
    <3> TAKE k \in 1 .. n
    <3>1. CASE k < n
      BY <2>1, <2>4, <3>1
    <3>2. CASE k = n
      BY <2>1, <2>4, <3>2
    <3> QED
      BY <3>1, <3>2
  <2>7. v \in [1 .. n + 1 -> Cells]
    BY <2>1, <2>3
  <2>8. v \in WalksOf(n + 1)
    BY <2>5, <2>6, <2>7 DEF WalksOf
  <2> QED
    BY <2>8 DEF v
<1> QED
  BY <1>1, <1>2 DEF Grown

-----------------------------------------------------------------------------
LEMMA NoWalk == WalksOf(0) = {<<>>}
<1>1. ASSUME NEW w \in [1 .. 0 -> Cells]
      PROVE  w = <<>>
  <2>1. w \in Seq(Cells) /\ Len(w) = 0
    BY IsASeq
  <2> QED
    BY <2>1, EmptySeq
<1>2. <<>> \in [1 .. 0 -> Cells]
  OBVIOUS
<1>3. <<>> \in WalksOf(0)
  BY <1>2 DEF WalksOf
<1>4. \A w \in WalksOf(0) : w \in [1 .. 0 -> Cells]
  BY DEF WalksOf
<1> QED
  BY <1>1, <1>3, <1>4

WalksUpTo(n) == UNION {WalksOf(k) : k \in 0 .. n}

LongestOf(walks, n) == {w \in walks : Len(w) = n}

More(walks, n) == walks \cup Grown(LongestOf(walks, n - 1), n)

LEMMA WalksUpToGrow ==
  ASSUME NEW n \in Nat
  PROVE  WalksUpTo(n + 1) = More(WalksUpTo(n), n + 1)
<1>1. 0 .. (n + 1) = 0 .. n \cup {n + 1}
  OBVIOUS
<1>2. WalksUpTo(n + 1) = WalksUpTo(n) \cup WalksOf(n + 1)
  BY <1>1 DEF WalksUpTo
<1>3. ASSUME NEW k \in 0 .. n, NEW w \in WalksOf(k)
      PROVE  Len(w) = k
  BY DEF WalksOf
<1>4. LongestOf(WalksUpTo(n), n) = WalksOf(n)
  BY <1>3 DEF LongestOf, WalksUpTo
<1>5. n + 1 - 1 = n
  OBVIOUS
<1> QED
  BY <1>2, <1>4, <1>5, WalksGrow DEF More

LEMMA WalksUpToNone == WalksUpTo(0) = {<<>>}
<1>1. 0 .. 0 = {0}
  OBVIOUS
<1> QED
  BY <1>1, NoWalk DEF WalksUpTo

\* The walks of the model are these.
LEMMA WalksAre == Walks = [n \in 0 .. Cardinality(Cells) |-> WalksUpTo(n)]
<1> DEFINE C == Cardinality(Cells)
           None == {<<>>}
           Solves(f) == f = [n \in 0 .. C |-> IF n = 0 THEN None ELSE More(f[n - 1], n)]
           W == [n \in 0 .. C |-> WalksUpTo(n)]
<1>1. C \in Nat
  BY FiniteCells
<1>2. \A n \in Nat : WalksUpTo(n + 1) = More(WalksUpTo(n), n + 1)
  BY WalksUpToGrow
<1>3. Walks = CHOOSE f : Solves(f)
  BY DEF Walks, More, LongestOf, Grown, Growing
<1>12. WalksUpTo(0) = None
  BY WalksUpToNone
<1> HIDE DEF C, None
<1>4. Solves(W)
  <2>1. \A n \in 0 .. C : W[n] = IF n = 0 THEN None ELSE More(W[n - 1], n)
    <3> TAKE n \in 0 .. C
    <3>1. CASE n = 0
      BY <1>1, <1>12, <3>1
    <3>2. CASE n # 0
      <4>1. n - 1 \in 0 .. C /\ n - 1 \in Nat /\ n - 1 + 1 = n
        BY <1>1, <3>2
      <4>2. WalksUpTo(n) = More(WalksUpTo(n - 1), n)
        BY <1>2, <4>1
      <4> QED
        BY <3>2, <4>1, <4>2
    <3> QED
      BY <3>1, <3>2
  <2> QED
    BY <2>1
<1> HIDE DEF Solves
<1>5. Solves(Walks)
  BY <1>3, <1>4
<1>6. \A n \in 0 .. C : Walks[n] = IF n = 0 THEN None ELSE More(Walks[n - 1], n)
  BY <1>5 DEF Solves
<1> DEFINE S == {n \in Nat : n \in 0 .. C => Walks[n] = WalksUpTo(n)}
<1>7. 0 \in S
  BY <1>1, <1>6, <1>12
<1>8. \A n \in Nat : n \in S => n + 1 \in S
  <2> SUFFICES ASSUME NEW n \in Nat, n \in S, n + 1 \in 0 .. C
               PROVE  Walks[n + 1] = WalksUpTo(n + 1)
    OBVIOUS
  <2>1. n \in 0 .. C /\ n + 1 - 1 = n /\ n + 1 # 0
    BY <1>1
  <2>2. Walks[n] = WalksUpTo(n)
    BY <2>1
  <2>3. Walks[n + 1] = More(WalksUpTo(n), n + 1)
    BY <1>6, <2>1, <2>2
  <2> QED
    BY <1>2, <2>3
<1>9. Nat \subseteq S
  <2> HIDE DEF S
  <2> QED
    BY <1>7, <1>8, SetInduction
<1>10. \A n \in 0 .. C : Walks[n] = WalksUpTo(n)
  BY <1>1, <1>9
<1>11. Walks = [n \in 0 .. C |-> Walks[n]]
  BY <1>5 DEF Solves
<1> QED
  BY <1>10, <1>11 DEF C

LEMMA AllWalksAre ==
  ASSUME NEW w
  PROVE  w \in AllWalks <=> IsWalk(w)
<1> DEFINE C == Cardinality(Cells)
<1>1. C \in Nat
  BY FiniteCells
<1>2. w \in AllWalks <=> \E n \in 0 .. C : w \in WalksOf(n)
  <2>1. C \in 0 .. C
    BY <1>1
  <2>2. AllWalks = WalksUpTo(C)
    BY <2>1, WalksAre DEF AllWalks
  <2> QED
    BY <2>2 DEF WalksUpTo
<1> HIDE DEF C
<1>3. ASSUME NEW n \in 0 .. C, w \in WalksOf(n)
      PROVE  IsWalk(w)
  <2>1. w \in [1 .. n -> Cells] /\ n \in Nat
    BY <1>1, <1>3 DEF WalksOf
  <2>2. w \in Seq(Cells) /\ Len(w) = n /\ DOMAIN w = 1 .. n
    BY <2>1
  <2> QED
    BY <1>1, <1>3, <2>2 DEF IsWalk, WalksOf, C
<1>4. ASSUME IsWalk(w)
      PROVE  w \in WalksOf(Len(w)) /\ Len(w) \in 0 .. C
  <2>1. w \in [1 .. Len(w) -> Cells] /\ Len(w) \in Nat /\ DOMAIN w = 1 .. Len(w)
    BY <1>4 DEF IsWalk
  <2>2. /\ \A j, k \in 1 .. Len(w) : w[j] = w[k] => j = k
        /\ \A k \in 1 .. (Len(w) - 1) : Beside(w[k], w[k + 1])
    BY <1>4, <2>1 DEF IsWalk
  <2>3. Len(w) <= C
    BY <1>4 DEF IsWalk, C
  <2>4. w \in WalksOf(Len(w))
    BY <2>1, <2>2 DEF WalksOf
  <2> QED
    BY <1>1, <2>1, <2>3, <2>4
<1> QED
  BY <1>2, <1>3, <1>4

(***************************************************************************)
(* A route seen from its target: the cell that it leaves the target by and *)
(* the cell that it reaches the source from, which are the patches' own    *)
(* if they lie beside each other.                                          *)
(***************************************************************************)
HeadOf(q, r) == IF Len(r) = 0 THEN q.source ELSE r[1]

FootOf(q, r) == IF Len(r) = 0 THEN q.target ELSE r[Len(r)]

LEMMA RouteParts ==
  ASSUME NEW q, Posed(q), NEW r \in Seq(Cells)
  PROVE  IsRoute(q, r) <=>
           /\ \A k \in 1 .. Len(r) : r[k] \in q.open
           /\ \A k \in 1 .. (Len(r) - 1) : <<r[k + 1], r[k]>> \notin q.walls
           /\ Beside(q.target, HeadOf(q, r)) /\ Beside(FootOf(q, r), q.source)
           /\ have_boundary_of_type_with(q, q.target, HeadOf(q, r), q.target_op)
           /\ have_boundary_of_type_with(q, q.source, FootOf(q, r), q.source_op)
<1> DEFINE t == <<q.target>>
           s == <<q.source>>
           n == Len(r)
           whole == t \o r \o s
<1>1. t \in Seq(Cells) /\ s \in Seq(Cells) /\ Len(t) = 1 /\ Len(s) = 1
      /\ t[1] = q.target /\ s[1] = q.source
  BY QueryParts
<1>2. n \in Nat /\ DOMAIN r = 1 .. n
  OBVIOUS
<1> HIDE DEF t, s
<1>3. /\ t \o r \in Seq(Cells) /\ Len(t \o r) = n + 1
      /\ (t \o r)[1] = q.target /\ \A k \in 2 .. (n + 1) : (t \o r)[k] = r[k - 1]
  <2>1. /\ t \o r \in Seq(Cells) /\ Len(t \o r) = Len(t) + Len(r)
        /\ \A k \in 1 .. (Len(t) + Len(r)) :
             (t \o r)[k] = IF k <= Len(t) THEN t[k] ELSE r[k - Len(t)]
    BY <1>1, ConcatProperties
  <2> QED
    BY <1>1, <1>2, <2>1
<1>4. /\ \A k \in 1 .. (n + 1) : whole[k] = (t \o r)[k]
      /\ whole[n + 2] = q.source
  BY <1>1, <1>2, <1>3, ConcatProperties
<1> HIDE DEF whole
<1>5. whole[2] = HeadOf(q, r) /\ whole[n + 1] = FootOf(q, r)
  BY <1>2, <1>3, <1>4 DEF HeadOf, FootOf
<1>6. IsRoute(q, r) <=>
        /\ \A k \in DOMAIN r : r[k] \in q.open
        /\ \A k \in 1 .. (n - 1) : <<r[k + 1], r[k]>> \notin q.walls
        /\ Beside(q.target, whole[2]) /\ Beside(whole[n + 1], q.source)
        /\ have_boundary_of_type_with(q, q.target, whole[2], q.target_op)
        /\ have_boundary_of_type_with(q, q.source, whole[n + 1], q.source_op)
  BY DEF IsRoute, whole, t, s
<1> QED
  BY <1>2, <1>5, <1>6

\* The edges of a route: between its cells, from the source, to the target.
LEMMA EdgeParts ==
  ASSUME NEW q, Posed(q)
  PROVE  /\ \A a, b \in q.open : b \in After(q, a) <=> Beside(a, b) /\ <<a, b>> \notin q.walls
         /\ \A b \in q.open \cup {q.target} : b \in After(q, Origin(q)) <=>
              /\ Beside(q.source, b)
              /\ have_boundary_of_type_with(q, q.source, b, q.source_op)
              /\ b = q.target => have_boundary_of_type_with(q, b, q.source, q.target_op)
         /\ \A a \in q.open : q.target \in After(q, a) <=>
              Beside(a, q.target) /\ have_boundary_of_type_with(q, q.target, a, q.target_op)
         /\ \A a \in Vertices : \A b \in After(q, a) :
              /\ b \in q.open \cup {q.target}
              /\ a \in q.open \cup {q.source, Simulated}
<1>1. \A u, b : b \in After(q, u) <=>
        b \in Cells /\ have_directed_edge(q, IF u = Simulated THEN q.source ELSE u, b)
  BY DEF After, Neighbours
<1>2. (IF Origin(q) = Simulated THEN q.source ELSE Origin(q)) = q.source
  BY QueryParts DEF Origin
<1>3. \A a, b \in q.open : b \in After(q, a) <=> Beside(a, b) /\ <<a, b>> \notin q.walls
  BY <1>1, QueryParts DEF have_directed_edge
<1>4. ASSUME NEW b \in q.open \cup {q.target}
      PROVE  b \in After(q, Origin(q)) <=>
              /\ Beside(q.source, b)
              /\ have_boundary_of_type_with(q, q.source, b, q.source_op)
              /\ b = q.target => have_boundary_of_type_with(q, b, q.source, q.target_op)
  <2>1. b \in Cells /\ Origin(q) \in Vertices
    BY QueryParts
  <2>2. b \in After(q, Origin(q)) <=> have_directed_edge(q, q.source, b)
    BY <1>1, <1>2, <2>1
  <2>3. have_directed_edge(q, q.source, b) <=>
          /\ Beside(q.source, b)
          /\ have_boundary_of_type_with(q, q.source, b, q.source_op)
          /\ b = q.target => have_boundary_of_type_with(q, b, q.source, q.target_op)
    BY QueryParts DEF have_directed_edge
  <2> QED
    BY <2>2, <2>3
<1>5. ASSUME NEW a \in q.open
      PROVE  q.target \in After(q, a) <=>
              Beside(a, q.target) /\ have_boundary_of_type_with(q, q.target, a, q.target_op)
  <2>1. a # Simulated /\ a # q.source /\ a # q.target /\ q.target \in Cells
    BY QueryParts
  <2>2. q.target \in After(q, a) <=> have_directed_edge(q, a, q.target)
    BY <1>1, <2>1
  <2>3. have_directed_edge(q, a, q.target) <=>
          Beside(a, q.target) /\ have_boundary_of_type_with(q, q.target, a, q.target_op)
    BY <2>1, QueryParts DEF have_directed_edge
  <2> QED
    BY <2>2, <2>3
<1>6. ASSUME NEW a \in Vertices, NEW b \in After(q, a)
      PROVE  b \in q.open \cup {q.target} /\ a \in q.open \cup {q.source, Simulated}
  BY <1>1, QueryParts DEF have_directed_edge
<1> QED
  BY <1>3, <1>4, <1>5, <1>6

\* A route can be walked from the source.
LEMMA RouteCanBeWalked ==
  ASSUME NEW q, Posed(q), NEW r \in Routes(q)
  PROVE  /\ r \in Seq(Cells) /\ Len(r) \in Nat
         /\ \E W \in [0 .. (Len(r) + 1) -> Vertices] :
              /\ W[0] = Origin(q) /\ W[Len(r) + 1] = q.target
              /\ \A k \in 0 .. Len(r) : W[k + 1] \in After(q, W[k])
<1> DEFINE n == Len(r)
           W == [k \in 0 .. (n + 1) |-> IF k = 0 THEN Origin(q)
                                        ELSE IF k = n + 1 THEN q.target ELSE r[n + 1 - k]]
<1>1. r \in Seq(Cells) /\ n \in Nat /\ IsRoute(q, r)
  BY AllWalksAre DEF Routes, IsWalk
<1>2. \A k \in 1 .. n : r[k] \in q.open /\ r[k] \in Cells
  BY <1>1, RouteParts
<1>3. /\ \A k \in 1 .. (n - 1) : <<r[k + 1], r[k]>> \notin q.walls
      /\ Beside(q.target, HeadOf(q, r)) /\ Beside(FootOf(q, r), q.source)
      /\ have_boundary_of_type_with(q, q.target, HeadOf(q, r), q.target_op)
      /\ have_boundary_of_type_with(q, q.source, FootOf(q, r), q.source_op)
  BY <1>1, RouteParts
<1>4. \A k \in 1 .. (n - 1) : Beside(r[k + 1], r[k])
  <2> TAKE k \in 1 .. (n - 1)
  <2>1. k \in 1 .. n /\ k + 1 \in 1 .. n
    BY <1>1
  <2>2. Beside(r[k], r[k + 1])
    BY AllWalksAre DEF Routes, IsWalk
  <2> QED
    BY <1>2, <2>1, <2>2, BesideIsSymmetric
<1>5. HeadOf(q, r) \in Cells /\ FootOf(q, r) \in Cells
  BY <1>1, <1>2, QueryParts DEF HeadOf, FootOf
<1>6. Beside(HeadOf(q, r), q.target) /\ Beside(q.source, FootOf(q, r))
  BY <1>3, <1>5, BesideIsSymmetric, QueryParts
<1> HIDE DEF n
<1>7. W \in [0 .. (n + 1) -> Vertices]
  BY <1>1, <1>2, QueryParts DEF Vertices
<1>8. W[0] = Origin(q) /\ W[n + 1] = q.target /\ \A k \in 1 .. n : W[k] = r[n + 1 - k]
  BY <1>1
<1> HIDE DEF W
<1>9. ASSUME NEW k \in 0 .. n
      PROVE  W[k + 1] \in After(q, W[k])
  <2>1. CASE k = 0 /\ n = 0
    <3>1. HeadOf(q, r) = q.source /\ FootOf(q, r) = q.target
      BY <2>1 DEF HeadOf, FootOf, n
    <3>2. W[k] = Origin(q) /\ W[k + 1] = q.target
      BY <1>8, <2>1
    <3> QED
      BY <1>3, <1>6, <3>1, <3>2, EdgeParts
  <2>2. CASE k = 0 /\ n > 0
    <3>1. FootOf(q, r) = r[n] /\ r[n] \in q.open /\ r[n] # q.target
      BY <1>1, <1>2, <2>2, QueryParts DEF FootOf, n
    <3>2. W[k] = Origin(q) /\ W[k + 1] = r[n]
      BY <1>1, <1>8, <2>2
    <3> QED
      BY <1>3, <1>6, <3>1, <3>2, EdgeParts
  <2>3. CASE k = n /\ n > 0
    <3>1. HeadOf(q, r) = r[1] /\ r[1] \in q.open
      BY <1>1, <1>2, <2>3 DEF HeadOf, n
    <3>2. W[k] = r[1] /\ W[k + 1] = q.target
      BY <1>1, <1>8, <2>3
    <3> QED
      BY <1>3, <1>6, <3>1, <3>2, EdgeParts
  <2>4. CASE 0 < k /\ k < n
    <3> DEFINE j == n - k
    <3>1. j \in 1 .. (n - 1) /\ j \in 1 .. n /\ j + 1 \in 1 .. n
      BY <1>1, <2>4
    <3>2. k \in 1 .. n /\ k + 1 \in 1 .. n /\ n + 1 - k = j + 1 /\ n + 1 - (k + 1) = j
      BY <1>1, <2>4
    <3>3. W[k] = r[j + 1] /\ W[k + 1] = r[j]
      BY <1>8, <3>2
    <3> HIDE DEF j
    <3> QED
      BY <1>2, <1>3, <1>4, <3>1, <3>3, EdgeParts
  <2> QED
    BY <1>1, <2>1, <2>2, <2>3, <2>4
<1> QED
  BY <1>1, <1>7, <1>8, <1>9 DEF n

\* What leads back from the target to the source, and meets nothing twice,
\* is a route.
LEMMA StepsBackAreARoute ==
  ASSUME NEW q, Posed(q), NEW n \in Nat, NEW B \in [0 .. (n + 1) -> Vertices],
         B[0] = q.target, B[n + 1] = Origin(q),
         \A k \in 0 .. n : B[k] \in After(q, B[k + 1]),
         \A j, k \in 0 .. (n + 1) : B[j] = B[k] => j = k
  PROVE  [k \in 1 .. n |-> B[k]] \in Routes(q)
<1> DEFINE r == [k \in 1 .. n |-> B[k]]
<1>1. ASSUME NEW k \in 1 .. n
      PROVE  r[k] = B[k] /\ r[k] \in q.open /\ r[k] \in Cells
  <2>1. k \in 0 .. n /\ k \in 0 .. (n + 1) /\ k + 1 \in 0 .. (n + 1) /\ k # 0
    OBVIOUS
  <2>2. B[k] # q.target /\ B[k + 1] \in Vertices
    BY <2>1
  <2> QED
    BY <2>1, <2>2, EdgeParts, QueryParts
<1>2. r \in [1 .. n -> Cells]
  BY <1>1
<1>3. r \in Seq(Cells) /\ Len(r) = n /\ DOMAIN r = 1 .. n
  BY <1>2
<1> HIDE DEF r
<1>4. \A k \in 1 .. (n - 1) : /\ Beside(r[k], r[k + 1])
                               /\ <<r[k + 1], r[k]>> \notin q.walls
  <2> TAKE k \in 1 .. (n - 1)
  <2>1. k \in 0 .. n /\ k \in 1 .. n /\ k + 1 \in 1 .. n
    OBVIOUS
  <2>2. r[k] \in After(q, r[k + 1])
    BY <1>1, <2>1
  <2>3. Beside(r[k + 1], r[k]) /\ <<r[k + 1], r[k]>> \notin q.walls
    BY <1>1, <2>1, <2>2, EdgeParts
  <2> QED
    BY <1>1, <2>1, <2>3, BesideIsSymmetric
<1>5. \A j, k \in 1 .. n : r[j] = r[k] => j = k
  BY <1>1
<1>6. n <= Cardinality(Cells)
  <2>1. IsFiniteSet(1 .. n) /\ Cardinality(1 .. n) = n
    BY FS_Interval
  <2>2. r \in Injection(1 .. n, Cells)
    BY <1>2, <1>5, Fun_IsInj
  <2> QED
    BY <2>1, <2>2, FS_Injection, FiniteCells
<1>7. IsWalk(r)
  BY <1>3, <1>4, <1>5, <1>6 DEF IsWalk
<1>8. /\ Beside(q.target, HeadOf(q, r))
      /\ have_boundary_of_type_with(q, q.target, HeadOf(q, r), q.target_op)
  <2>1. q.target \in After(q, B[1])
    OBVIOUS
  <2>2. CASE n = 0
    <3>1. HeadOf(q, r) = q.source /\ B[1] = Origin(q)
      BY <1>3, <2>2 DEF HeadOf
    <3> QED
      BY <2>1, <3>1, EdgeParts, BesideIsSymmetric, QueryParts
  <2>3. CASE n > 0
    <3>1. HeadOf(q, r) = B[1] /\ B[1] \in q.open /\ B[1] \in Cells
      BY <1>1, <1>3, <2>3 DEF HeadOf
    <3> QED
      BY <2>1, <3>1, EdgeParts, BesideIsSymmetric, QueryParts
  <2> QED
    BY <2>2, <2>3
<1>9. /\ Beside(FootOf(q, r), q.source)
      /\ have_boundary_of_type_with(q, q.source, FootOf(q, r), q.source_op)
  <2>1. B[n] \in After(q, Origin(q))
    OBVIOUS
  <2>2. FootOf(q, r) = B[n] /\ B[n] \in q.open \cup {q.target} /\ B[n] \in Cells
    BY <1>1, <1>3, QueryParts DEF FootOf
  <2> QED
    BY <2>1, <2>2, EdgeParts, BesideIsSymmetric, QueryParts
<1>10. IsRoute(q, r)
  BY <1>1, <1>3, <1>4, <1>8, <1>9, RouteParts
<1> QED
  BY <1>7, <1>10, AllWalksAre DEF Routes, r

-----------------------------------------------------------------------------
(* The buffer. *)

Stamped(m) ==
  /\ m \in [data : [Vertices -> [distance : Nat, predecessor : Vertices]],
            stamp : [Vertices -> Nat], closed_stamp : [Vertices -> Nat],
            epoch : 0 .. (EpochValues - 1)]
  /\ \A v \in Vertices : m.stamp[v] <= m.epoch /\ m.closed_stamp[v] <= m.epoch

LEMMA UnusedIsStamped == Stamped(Unused)
<1>1. 0 \in 0 .. (EpochValues - 1)
  BY SearchAssumption
<1> QED
  BY <1>1 DEF Stamped, Unused

\* Nothing is left of an earlier search, also when the epochs start anew.
LEMMA EpochBegins ==
  ASSUME NEW m, Stamped(m)
  PROVE  /\ Stamped(begin_epoch(m))
         /\ \A v \in Vertices : ~ is_set(begin_epoch(m), v) /\ ~ is_closed(begin_epoch(m), v)
<1> DEFINE next == (m.epoch + 1) % EpochValues
<1>1. m.epoch \in Nat /\ m.epoch + 1 <= EpochValues /\ EpochValues \in Nat /\ EpochValues > 1
  BY SearchAssumption DEF Stamped
<1>2. CASE m.epoch + 1 < EpochValues
  <2>1. next = m.epoch + 1
    BY <1>1, <1>2
  <2>2. begin_epoch(m) = [m EXCEPT !.epoch = m.epoch + 1]
    BY <1>1, <2>1 DEF begin_epoch
  <2> QED
    BY <1>1, <1>2, <2>2 DEF Stamped, is_set, is_closed
<1>3. CASE m.epoch + 1 = EpochValues
  <2>1. next = 0
    BY <1>1, <1>3
  <2>2. begin_epoch(m) = [Unused EXCEPT !.data = m.data, !.epoch = 1]
    BY <2>1 DEF begin_epoch
  <2>3. 1 \in 0 .. (EpochValues - 1)
    BY <1>1
  <2> DEFINE b == begin_epoch(m)
  <2>4. /\ b = [data |-> m.data, stamp |-> [v \in Vertices |-> 0],
                closed_stamp |-> [v \in Vertices |-> 0], epoch |-> 1]
    BY <2>2 DEF Unused
  <2> HIDE DEF b
  <2>5. Stamped(b)
    BY <2>3, <2>4 DEF Stamped
  <2>6. \A v \in Vertices : ~ is_set(b, v) /\ ~ is_closed(b, v)
    BY <2>4 DEF is_set, is_closed
  <2> QED
    BY <2>5, <2>6 DEF b
<1> QED
  BY <1>1, <1>2, <1>3

\* What r has of m after these vertices were set.
HasSet(r, m, vertices, d, p) ==
  /\ Stamped(r)
  /\ \A v \in Vertices : /\ is_closed(r, v) <=> is_closed(m, v)
                         /\ is_set(r, v) <=> v \in vertices \/ is_set(m, v)
  /\ \A v \in vertices : r.data[v].distance = d /\ r.data[v].predecessor = p
  /\ \A v \in Vertices \ vertices : r.data[v] = m.data[v]

LEMMA SetParts ==
  ASSUME NEW m, Stamped(m), NEW vertices, vertices \subseteq Vertices,
         NEW d \in Nat, NEW p \in Vertices
  PROVE  HasSet(set(m, vertices, d, p), m, vertices, d, p)
<1> DEFINE r == set(m, vertices, d, p)
<1>0. m = [data |-> m.data, stamp |-> m.stamp,
           closed_stamp |-> m.closed_stamp, epoch |-> m.epoch]
  BY DEF Stamped
<1>1. /\ r.data = [v \in Vertices |-> IF v \in vertices
                     THEN [distance |-> d, predecessor |-> p] ELSE m.data[v]]
      /\ r.stamp = [v \in Vertices |-> IF v \in vertices THEN m.epoch ELSE m.stamp[v]]
      /\ r.closed_stamp = m.closed_stamp /\ r.epoch = m.epoch
      /\ r = [data |-> r.data, stamp |-> r.stamp,
              closed_stamp |-> r.closed_stamp, epoch |-> r.epoch]
  <2> DEFINE D == [v \in Vertices |-> IF v \in vertices
                     THEN [distance |-> d, predecessor |-> p] ELSE m.data[v]]
             S == [v \in Vertices |-> IF v \in vertices THEN m.epoch ELSE m.stamp[v]]
  <2>1. r = [m EXCEPT !.data = D, !.stamp = S]
    BY DEF set
  <2> HIDE DEF D, S, r
  <2>2. r = [data |-> D, stamp |-> S, closed_stamp |-> m.closed_stamp, epoch |-> m.epoch]
    BY <1>0, <2>1
  <2>3. r.data = D /\ r.stamp = S /\ r.closed_stamp = m.closed_stamp /\ r.epoch = m.epoch
    BY <2>2
  <2> QED
    BY <2>2, <2>3 DEF D, S
<1> HIDE DEF r
<1>2. /\ r.data \in [Vertices -> [distance : Nat, predecessor : Vertices]]
      /\ r.stamp \in [Vertices -> Nat] /\ r.closed_stamp \in [Vertices -> Nat]
      /\ r.epoch \in 0 .. (EpochValues - 1)
  BY <1>1 DEF Stamped
<1>3. r \in [data : [Vertices -> [distance : Nat, predecessor : Vertices]],
             stamp : [Vertices -> Nat], closed_stamp : [Vertices -> Nat],
             epoch : 0 .. (EpochValues - 1)]
  BY <1>1, <1>2
<1>4. \A v \in Vertices : r.stamp[v] <= r.epoch /\ r.closed_stamp[v] <= r.epoch
  BY <1>1 DEF Stamped
<1>5. Stamped(r)
  BY <1>3, <1>4 DEF Stamped
<1>6. \A v \in Vertices :
        /\ is_closed(r, v) <=> is_closed(m, v)
        /\ is_set(r, v) <=> v \in vertices \/ is_set(m, v)
  BY <1>1 DEF is_closed, is_set
<1>7. \A v \in vertices : r.data[v].distance = d /\ r.data[v].predecessor = p
  BY <1>1
<1>8. \A v \in Vertices \ vertices : r.data[v] = m.data[v]
  BY <1>1
<1> QED
  BY <1>5, <1>6, <1>7, <1>8 DEF r, HasSet

LEMMA CloseParts ==
  ASSUME NEW m, Stamped(m), NEW c \in Vertices
  PROVE  /\ Stamped(close(m, c)) /\ close(m, c).data = m.data
         /\ \A v \in Vertices :
              /\ is_set(close(m, c), v) <=> is_set(m, v)
              /\ is_closed(close(m, c), v) <=> v = c \/ is_closed(m, v)
BY DEF Stamped, close, is_set, is_closed

-----------------------------------------------------------------------------
(***************************************************************************)
(* A search for q.  The keys are those of a heuristic h that never         *)
(* misleads.                                                               *)
(***************************************************************************)
Leads(q, h) ==
  /\ h \in [Cells -> Nat] /\ h[q.target] = 0
  /\ \A a, b \in Cells : Beside(a, b) => Near(h[a], h[b])

\* The search has gone on from u.
Expanded(m, u) == is_set(m, u) /\ (u = Simulated \/ is_closed(m, u))

\* Whatever has been reached was reached from a vertex that is closer.
Tree(q, m) ==
  /\ is_set(m, Origin(q)) /\ m.data[Origin(q)].distance = 0
  /\ m.data[Origin(q)].predecessor = Origin(q)
  /\ \A v \in Vertices \ {Origin(q)} : is_set(m, v) =>
       LET p == m.data[v].predecessor
       IN /\ Expanded(m, p) /\ v \in After(q, p)
          /\ m.data[v].distance > m.data[p].distance

\* As long as no key was lowered: what was expanded is as close as it can be.
Ordered(q, h, m, open) ==
  /\ \A u \in Vertices : Expanded(m, u) => \A n \in After(q, u) :
       m.data[n].distance <= m.data[u].distance + 1
  /\ \A u \in Cells : is_closed(m, u) => \A w \in open :
       AtMost(m.data[u].distance, h[u], m.data[w].distance, h[w])

\* Without a heuristic no key is lowered: those in the queue differ by one.
Uninformed(h) == \A c \in Cells : h[c] = 0

Level(m, open) ==
  \A v, w \in open : m.data[v].distance <= m.data[w].distance + 1

Searching(q, h, m, open, low) ==
  /\ Stamped(m)
  /\ open \subseteq Cells
  /\ \A v \in Vertices : is_closed(m, v) => is_set(m, v) /\ v # Simulated /\ v \notin open
  /\ \A v \in Cells : is_set(m, v) <=> v \in open \/ is_closed(m, v)
  /\ Tree(q, m)
  /\ \A u \in Vertices : Expanded(m, u) => \A n \in After(q, u) : is_set(m, n)
  /\ ~ is_closed(m, q.target)
  /\ ~ low => Ordered(q, h, m, open)
  /\ Uninformed(h) => ~ low /\ Level(m, open)

\* What a search has come to.
Traced(q, m, low) ==
  /\ Stamped(m) /\ Tree(q, m)
  /\ IF is_set(m, q.target)
       THEN ~ low => \A r \in Routes(q) : m.data[q.target].distance <= Len(r) + 1
       ELSE Routes(q) = {}

LEMMA DataAreTyped ==
  ASSUME NEW m, Stamped(m), NEW v \in Vertices
  PROVE  m.data[v].distance \in Nat /\ m.data[v].predecessor \in Vertices
BY DEF Stamped

\* The first steps of a search that has to come back, and of the others.
LEMMA SearchBeginsAround ==
  ASSUME NEW q, Posed(q), want_cycle(q), NEW h, Leads(q, h), NEW m, Stamped(m)
  PROVE  LET first == Neighbours(q, q.source)
         IN Searching(q, h, set(set(begin_epoch(m), {Simulated}, 0, Simulated),
                                first, 1, Simulated), first, FALSE)
<1> DEFINE first == Neighbours(q, q.source)
           e == begin_epoch(m)
           a == set(e, {Simulated}, 0, Simulated)
           b == set(a, first, 1, Simulated)
<1>1. Stamped(e) /\ \A v \in Vertices : ~ is_set(e, v) /\ ~ is_closed(e, v)
  BY EpochBegins
<1>2. Simulated \in Vertices /\ first \subseteq Cells /\ Cells \subseteq Vertices
      /\ Simulated \notin Cells
  BY SearchAssumption DEF Vertices, Neighbours
<1> HIDE DEF e, first
<1>3. /\ Stamped(a)
      /\ \A v \in Vertices : ~ is_closed(a, v) /\ (is_set(a, v) <=> v = Simulated)
      /\ a.data[Simulated].distance = 0 /\ a.data[Simulated].predecessor = Simulated
  <2>1. {Simulated} \subseteq Vertices /\ 0 \in Nat
    BY <1>2
  <2>2. HasSet(a, e, {Simulated}, 0, Simulated)
    BY <1>1, <1>2, <2>1, SetParts
  <2> HIDE DEF a
  <2> QED
    BY <1>1, <1>2, <2>2 DEF HasSet
<1> HIDE DEF a
<1>4. /\ Stamped(b)
      /\ \A v \in Vertices : ~ is_closed(b, v) /\ (is_set(b, v) <=> v \in first \/ v = Simulated)
      /\ \A v \in first : b.data[v].distance = 1 /\ b.data[v].predecessor = Simulated
      /\ b.data[Simulated].distance = 0 /\ b.data[Simulated].predecessor = Simulated
  <2>1. first \subseteq Vertices /\ 1 \in Nat
    BY <1>2
  <2>2. HasSet(b, a, first, 1, Simulated)
    BY <1>2, <1>3, <2>1, SetParts
  <2> HIDE DEF b
  <2> QED
    BY <1>2, <1>3, <2>2 DEF HasSet
<1> HIDE DEF b
<1>5. Origin(q) = Simulated /\ q.target \in Vertices /\ After(q, Simulated) = first
  BY QueryParts DEF Origin, After, first, Vertices
<1>6. \A u \in Vertices : Expanded(b, u) <=> u = Simulated
  BY <1>2, <1>4 DEF Expanded
<1>7. Tree(q, b)
  BY <1>2, <1>4, <1>5, <1>6 DEF Tree
<1>8. Ordered(q, h, b, first) /\ Level(b, first)
  BY <1>2, <1>4, <1>5, <1>6 DEF Ordered, Level
<1>9. Searching(q, h, b, first, FALSE)
  BY <1>2, <1>4, <1>5, <1>6, <1>7, <1>8 DEF Searching
<1> QED
  BY <1>9 DEF a, b, e, first

LEMMA SearchBeginsAtSource ==
  ASSUME NEW q, Posed(q), ~ want_cycle(q), NEW h, Leads(q, h), NEW m, Stamped(m)
  PROVE  Searching(q, h, set(begin_epoch(m), {q.source}, 0, q.source), {q.source}, FALSE)
<1> DEFINE e == begin_epoch(m)
           s == q.source
           a == set(e, {s}, 0, s)
<1>1. Stamped(e) /\ \A v \in Vertices : ~ is_set(e, v) /\ ~ is_closed(e, v)
  BY EpochBegins
<1>2. s \in Vertices /\ s \in Cells /\ s # Simulated /\ Cells \subseteq Vertices
      /\ Origin(q) = s /\ q.target \in Vertices
  BY QueryParts DEF Vertices, Origin
<1> HIDE DEF e, s
<1>3. /\ Stamped(a)
      /\ \A v \in Vertices : ~ is_closed(a, v) /\ (is_set(a, v) <=> v = s)
      /\ a.data[s].distance = 0 /\ a.data[s].predecessor = s
  <2>1. {s} \subseteq Vertices /\ 0 \in Nat
    BY <1>2
  <2>2. HasSet(a, e, {s}, 0, s)
    BY <1>1, <1>2, <2>1, SetParts
  <2> HIDE DEF a
  <2> QED
    BY <1>1, <1>2, <2>2 DEF HasSet
<1> HIDE DEF a
<1>4. \A u \in Vertices : ~ Expanded(a, u)
  BY <1>2, <1>3 DEF Expanded
<1>5. Tree(q, a)
  BY <1>2, <1>3 DEF Tree
<1>6. Ordered(q, h, a, {s}) /\ Level(a, {s})
  BY <1>2, <1>3, <1>4 DEF Ordered, Level
<1>7. Searching(q, h, a, {s}, FALSE)
  BY <1>2, <1>3, <1>4, <1>5, <1>6 DEF Searching
<1> QED
  BY <1>7 DEF a, e, s

(***************************************************************************)
(* One more vertex is expanded: as long as no key was lowered, the one     *)
(* with the least.  If none is lowered by it either, then none that was    *)
(* reached before is improved, and none that waits has a lower key.        *)
(***************************************************************************)
LEMMA SearchGoesOn ==
  ASSUME NEW q, Posed(q), NEW h, Leads(q, h), NEW m, NEW open, NEW low,
         Searching(q, h, m, open, low), NEW c \in open, c # q.target,
         low \/ \A u \in open : AtMost(m.data[c].distance, h[c], m.data[u].distance, h[u])
  PROVE  LET a      == close(m, c)
             better == {n \in Neighbours(q, c) : Improves(a, c, n)}
         IN Searching(q, h, set(a, better, a.data[c].distance + 1, c),
                      (open \ {c}) \cup {n \in better : ~ is_set(a, n)},
                      low \/ \E n \in better : is_set(a, n))
<1> DEFINE a      == close(m, c)
           better == {n \in Neighbours(q, c) : Improves(a, c, n)}
           d      == a.data[c].distance
           b      == set(a, better, d + 1, c)
           later  == (open \ {c}) \cup {n \in better : ~ is_set(a, n)}
           lowers == low \/ \E n \in better : is_set(a, n)
<1>1. c \in Cells /\ c \in Vertices /\ c # Simulated /\ Cells \subseteq Vertices
      /\ Neighbours(q, c) = After(q, c) /\ After(q, c) \subseteq Cells
      /\ q.target \in Vertices /\ Origin(q) \in Vertices
  BY SearchAssumption, QueryParts DEF Searching, Vertices, After
<1>2. /\ Stamped(a) /\ a.data = m.data
      /\ \A v \in Vertices : /\ is_set(a, v) <=> is_set(m, v)
                             /\ is_closed(a, v) <=> v = c \/ is_closed(m, v)
  BY <1>1, CloseParts DEF Searching
<1>3. /\ \A v \in Vertices : is_closed(m, v) => is_set(m, v) /\ v # Simulated /\ v \notin open
      /\ \A v \in Cells : is_set(m, v) <=> v \in open \/ is_closed(m, v)
      /\ \A u \in Vertices : Expanded(m, u) => \A n \in After(q, u) : is_set(m, n)
      /\ Tree(q, m) /\ ~ is_closed(m, q.target) /\ open \subseteq Cells
  BY DEF Searching
<1>4. /\ ~ low => Ordered(q, h, m, open)
      /\ Uninformed(h) => ~ low /\ Level(m, open)
  BY DEF Searching
<1>5. better \subseteq After(q, c) /\ better \subseteq Vertices
      /\ \A n \in After(q, c) : n \in better <=>
           ~ is_set(m, n) \/ m.data[n].distance > d + 1
  BY <1>1, <1>2 DEF Improves
<1>6. d = m.data[c].distance /\ d \in Nat /\ d + 1 \in Nat
      /\ \A v \in Vertices : m.data[v].distance \in Nat
  BY <1>1, <1>2, DataAreTyped DEF Searching
<1> HIDE DEF a, better, d
<1>7. HasSet(b, a, better, d + 1, c)
  BY <1>1, <1>2, <1>5, <1>6, SetParts
<1> HIDE DEF b
<1>8. /\ Stamped(b)
      /\ \A v \in Vertices : /\ is_closed(b, v) <=> v = c \/ is_closed(m, v)
                             /\ is_set(b, v) <=> v \in better \/ is_set(m, v)
      /\ \A v \in better : b.data[v].distance = d + 1 /\ b.data[v].predecessor = c
      /\ \A v \in Vertices \ better : b.data[v] = m.data[v]
  BY <1>2, <1>7 DEF HasSet
<1>9. later = (open \ {c}) \cup {n \in better : ~ is_set(m, n)}
      /\ (lowers <=> low \/ \E n \in better : is_set(m, n))
  BY <1>1, <1>2, <1>5
<1> HIDE DEF later, lowers
<1>10. \A n \in After(q, c) : n \in Cells /\ Beside(c, n)
  BY <1>1, AfterIsBeside
<1>11. \A n \in After(q, c) : Near(h[c], h[n])
  BY <1>1, <1>10 DEF Leads
<1>12. c \notin better
  <2>1. ~ Beside(c, c)
    BY <1>1, CellParts DEF Beside
  <2> QED
    BY <1>5, <1>10, <2>1
<1>13. is_set(m, c)
  BY <1>1, <1>3
<1>14. Origin(q) \notin better
  <2>1. \A n \in After(q, c) : n \in q.open \cup {q.target}
    BY <1>1, EdgeParts
  <2>2. Origin(q) \notin q.open /\ Origin(q) # q.target
    BY QueryParts DEF Origin
  <2> QED
    BY <1>5, <2>1, <2>2
<1>15. \A u \in Vertices : is_set(m, u) =>
         is_set(b, u) /\ b.data[u].distance \in Nat
           /\ b.data[u].distance <= m.data[u].distance
  BY <1>5, <1>6, <1>8
<1>16. \A u \in Vertices : Expanded(m, u) => Expanded(b, u)
  BY <1>8 DEF Expanded
<1>17. Expanded(b, c)
  BY <1>1, <1>8, <1>13 DEF Expanded
<1>18. later \subseteq Cells
  BY <1>1, <1>3, <1>5, <1>9
<1>19. \A v \in Vertices : is_closed(b, v) => is_set(b, v) /\ v # Simulated /\ v \notin later
  BY <1>1, <1>3, <1>8, <1>9, <1>13
<1>20. \A v \in Cells : is_set(b, v) <=> v \in later \/ is_closed(b, v)
  BY <1>1, <1>3, <1>5, <1>8, <1>9, <1>13
<1>21. Tree(q, b)
  <2>1. /\ is_set(b, Origin(q)) /\ b.data[Origin(q)].distance = 0
        /\ b.data[Origin(q)].predecessor = Origin(q)
    BY <1>1, <1>3, <1>8, <1>14 DEF Tree
  <2>2. ASSUME NEW v \in Vertices \ {Origin(q)}, is_set(b, v)
        PROVE  LET p == b.data[v].predecessor
               IN /\ Expanded(b, p) /\ v \in After(q, p)
                  /\ b.data[v].distance > b.data[p].distance
    <3>1. CASE v \in better
      BY <1>1, <1>5, <1>6, <1>8, <1>12, <1>17, <3>1
    <3>2. CASE v \notin better
      <4> DEFINE p == m.data[v].predecessor
      <4>1. is_set(m, v) /\ b.data[v] = m.data[v] /\ p \in Vertices
        BY <1>8, <2>2, <3>2, DataAreTyped DEF Searching
      <4>2. Expanded(m, p) /\ v \in After(q, p) /\ m.data[v].distance > m.data[p].distance
        BY <1>3, <4>1 DEF Tree
      <4>3. Expanded(b, p) /\ b.data[p].distance <= m.data[p].distance
            /\ b.data[p].distance \in Nat
        BY <1>15, <1>16, <4>1, <4>2 DEF Expanded
      <4> HIDE DEF p
      <4>4. b.data[v].distance > b.data[p].distance
        BY <1>6, <4>1, <4>2, <4>3
      <4> QED
        BY <4>1, <4>2, <4>3, <4>4 DEF p
    <3> QED
      BY <3>1, <3>2
  <2> QED
    BY <2>1, <2>2 DEF Tree
<1>22. ASSUME NEW u \in Vertices, Expanded(b, u)
       PROVE  u = c \/ Expanded(m, u)
  <2>1. CASE u = Simulated
    BY <1>1, <1>5, <1>8, <1>22, <2>1, SearchAssumption DEF Expanded
  <2>2. CASE u # Simulated
    BY <1>3, <1>8, <1>22, <2>2 DEF Expanded
  <2> QED
    BY <2>1, <2>2
<1>23. ASSUME NEW u \in Vertices, Expanded(b, u), NEW n \in After(q, u)
       PROVE  is_set(b, n)
  <2>1. n \in Cells /\ n \in Vertices
    BY <1>1, QueryParts
  <2>2. CASE u = c
    BY <1>5, <1>8, <2>1, <2>2
  <2>3. CASE Expanded(m, u)
    BY <1>3, <1>8, <2>1, <2>3
  <2> QED
    BY <1>22, <1>23, <2>2, <2>3
<1>24. ~ is_closed(b, q.target)
  BY <1>1, <1>3, <1>8
<1>25. ASSUME ~ lowers
       PROVE  Ordered(q, h, b, later)
  <2>1. ~ low /\ Ordered(q, h, m, open)
        /\ \A u \in open : AtMost(m.data[c].distance, h[c], m.data[u].distance, h[u])
    BY <1>4, <1>9, <1>25
  <2>2. \A v \in better : ~ is_set(m, v)
    BY <1>9, <1>25
  <2>3. ASSUME NEW u \in Vertices, Expanded(b, u), NEW n \in After(q, u)
        PROVE  b.data[n].distance <= b.data[u].distance + 1
    <3>1. n \in Cells /\ n \in Vertices
      BY <1>1, QueryParts
    <3>2. CASE u = c
      BY <1>5, <1>6, <1>8, <1>12, <1>1, <3>1, <3>2
    <3>3. CASE Expanded(m, u)
      <4>1. is_set(m, n) /\ m.data[n].distance <= m.data[u].distance + 1
        BY <1>3, <2>1, <3>3 DEF Ordered
      <4>2. n \notin better /\ u \notin better
        BY <2>2, <3>3, <4>1 DEF Expanded
      <4> QED
        BY <1>8, <3>1, <4>1, <4>2
    <3> QED
      BY <1>22, <2>3, <3>2, <3>3
  <2>4. ASSUME NEW u \in Cells, is_closed(b, u), NEW w \in later
        PROVE  AtMost(b.data[u].distance, h[u], b.data[w].distance, h[w])
    <3>1. u \notin better /\ b.data[u] = m.data[u] /\ (u = c \/ is_closed(m, u))
      BY <1>1, <1>3, <1>8, <1>12, <2>2, <2>4
    <3>2. u \in Vertices /\ w \in Cells /\ w \in Vertices
          /\ h[u] \in Nat /\ h[w] \in Nat /\ h[c] \in Nat /\ m.data[u].distance \in Nat
      BY <1>1, <1>6, <1>18 DEF Leads
    <3>3. AtMost(m.data[u].distance, h[u], d, h[c])
      BY <1>6, <2>1, <3>1, <3>2, KeyIsAtMostItself DEF Ordered
    <3>4. CASE w \in better
      <4>1. b.data[w].distance = d + 1 /\ Near(h[c], h[w])
        BY <1>5, <1>8, <1>11, <3>4
      <4>2. AtMost(m.data[u].distance, h[u], d + 1, h[w])
        BY <1>6, <3>2, <3>3, <4>1, KeysOneFurther
      <4> QED
        BY <3>1, <4>1, <4>2
    <3>5. CASE w \notin better
      <4>1. w \in open /\ b.data[w] = m.data[w]
        BY <1>8, <1>9, <3>2, <3>5
      <4>2. AtMost(m.data[u].distance, h[u], m.data[w].distance, h[w])
        BY <1>6, <2>1, <3>1, <4>1 DEF Ordered
      <4> QED
        BY <3>1, <4>1, <4>2
    <3> QED
      BY <3>4, <3>5
  <2> QED
    BY <2>3, <2>4 DEF Ordered
<1>26. ASSUME Uninformed(h)
       PROVE  ~ lowers /\ Level(b, later)
  <2>1. ~ low /\ Level(m, open) /\ Ordered(q, h, m, open)
    BY <1>4, <1>26
  <2>2. ASSUME NEW u \in open
        PROVE  d <= m.data[u].distance /\ m.data[u].distance <= d + 1
    <3>1. u \in Cells /\ u \in Vertices /\ h[u] = 0 /\ h[c] = 0 /\ 0 \in Nat
      BY <1>1, <1>3, <1>26 DEF Uninformed
    <3>2. AtMost(d, 0, m.data[u].distance, 0)
      BY <1>6, <2>1, <3>1
    <3>3. d <= m.data[u].distance
      BY <1>6, <3>1, <3>2, KeysOfOneVertex
    <3> QED
      BY <1>6, <2>1, <3>3 DEF Level
  <2>3. ASSUME NEW u \in better, is_set(m, u)
        PROVE  FALSE
    <3>1. u \in Cells /\ u \in Vertices /\ h[u] = 0 /\ h[c] = 0 /\ 0 \in Nat
          /\ m.data[u].distance > d + 1 /\ m.data[u].distance \in Nat
      BY <1>1, <1>5, <1>6, <1>26, <2>3 DEF Uninformed
    <3>2. CASE u \in open
      BY <1>6, <2>2, <3>1, <3>2
    <3>3. CASE is_closed(m, u)
      <4>1. AtMost(m.data[u].distance, 0, d, 0)
        BY <1>6, <2>1, <3>1, <3>3 DEF Ordered
      <4>2. m.data[u].distance <= d
        BY <1>6, <3>1, <4>1, KeysOfOneVertex
      <4> QED
        BY <1>6, <3>1, <4>2
    <3> QED
      BY <1>3, <2>3, <3>1, <3>2, <3>3
  <2>4. ~ lowers
    BY <1>9, <2>1, <2>3
  <2>5. ASSUME NEW u \in later
        PROVE  d <= b.data[u].distance /\ b.data[u].distance <= d + 1
               /\ b.data[u].distance \in Nat
    <3>1. u \in Vertices
      BY <1>1, <1>18
    <3>2. CASE u \in better
      BY <1>6, <1>8, <3>2
    <3>3. CASE u \notin better
      <4>1. u \in open /\ b.data[u] = m.data[u]
        BY <1>8, <1>9, <3>1, <3>3
      <4> QED
        BY <1>6, <2>2, <3>1, <4>1
    <3> QED
      BY <3>2, <3>3
  <2>6. Level(b, later)
    BY <1>6, <2>5 DEF Level
  <2> QED
    BY <2>4, <2>6
<1>27. Searching(q, h, b, later, lowers)
  BY <1>8, <1>18, <1>19, <1>20, <1>21, <1>23, <1>24, <1>25, <1>26 DEF Searching
<1> QED
  BY <1>27 DEF later, lowers, b, better, d, a

(***************************************************************************)
(* When the target has the least key, no walk to it is shorter: the first  *)
(* vertex of the walk that was not expanded bounds its length.             *)
(***************************************************************************)
LEMMA TargetIsReachedShortest ==
  ASSUME NEW q, Posed(q), NEW h, Leads(q, h), NEW m, NEW open,
         Searching(q, h, m, open, FALSE), q.target \in open,
         \A u \in open : AtMost(m.data[q.target].distance, h[q.target],
                               m.data[u].distance, h[u]),
         NEW n \in Nat, NEW W \in [0 .. n -> Vertices],
         W[0] = Origin(q), W[n] = q.target,
         \A k \in 0 .. (n - 1) : W[k + 1] \in After(q, W[k])
  PROVE  m.data[q.target].distance <= n
<1> DEFINE D == m.data[q.target].distance
           Bounded(k) == \/ Expanded(m, W[k]) /\ m.data[W[k]].distance <= k
                         \/ W[k] \in Cells /\ AtMost(D, 0, k, h[W[k]])
           S == {k \in Nat : k <= n => Bounded(k)}
<1>1. D \in Nat /\ h[q.target] = 0 /\ (\A c \in Cells : h[c] \in Nat)
      /\ q.target \in Cells /\ Cells \subseteq Vertices /\ q.target # Simulated
      /\ \A v \in Vertices : m.data[v].distance \in Nat
  BY DataAreTyped, QueryParts DEF Leads, Searching, Vertices
<1>2. /\ \A v \in Cells : is_set(m, v) <=> v \in open \/ is_closed(m, v)
      /\ \A u \in Vertices : Expanded(m, u) => \A v \in After(q, u) :
           is_set(m, v) /\ m.data[v].distance <= m.data[u].distance + 1
      /\ ~ is_closed(m, q.target) /\ Tree(q, m)
  BY DEF Searching, Ordered
<1>3. ASSUME NEW k \in Nat, k <= n, NEW v, v = W[k], v \in Cells, is_set(m, v),
             m.data[v].distance <= k
      PROVE  Bounded(k)
  <2>1. CASE is_closed(m, v)
    BY <1>3, <2>1 DEF Expanded
  <2>2. CASE v \in open
    <3>1. AtMost(D, 0, m.data[v].distance, h[v])
      BY <1>1, <2>2
    <3>2. AtMost(D, 0, k, h[v])
      BY <1>1, <1>3, <3>1, KeysOfTarget
    <3> QED
      BY <1>3, <3>2
  <2> QED
    BY <1>2, <1>3, <2>1, <2>2
<1> HIDE DEF D
<1>4. 0 \in S
  <2>1. is_set(m, Origin(q)) /\ m.data[Origin(q)].distance = 0 /\ Origin(q) \in Vertices
    BY <1>2, QueryParts DEF Tree
  <2>2. CASE Origin(q) = Simulated
    BY <2>1, <2>2 DEF Expanded
  <2>3. CASE Origin(q) # Simulated
    <3>1. Origin(q) \in Cells
      BY <2>1, <2>3 DEF Vertices
    <3> HIDE DEF Bounded
    <3>2. Bounded(0)
      BY <1>3, <2>1, <3>1
    <3> QED
      BY <3>2
  <2> QED
    BY <2>2, <2>3
<1>5. ASSUME NEW k \in Nat, k \in S
      PROVE  k + 1 \in S
  <2> SUFFICES ASSUME k + 1 <= n
               PROVE  Bounded(k + 1)
    OBVIOUS
  <2>1. k \in 0 .. n /\ k \in 0 .. (n - 1) /\ k + 1 \in 0 .. n
    OBVIOUS
  <2>2. W[k] \in Vertices /\ W[k + 1] \in After(q, W[k]) /\ W[k + 1] \in Cells
    BY <2>1, QueryParts
  <2>3. CASE Expanded(m, W[k]) /\ m.data[W[k]].distance <= k
    <3>1. is_set(m, W[k + 1]) /\ m.data[W[k + 1]].distance <= m.data[W[k]].distance + 1
      BY <1>2, <2>2, <2>3
    <3>2. m.data[W[k + 1]].distance <= k + 1
      BY <1>1, <2>2, <2>3, <3>1
    <3> HIDE DEF Bounded
    <3> QED
      BY <1>3, <2>1, <2>2, <3>1, <3>2
  <2>4. CASE W[k] \in Cells /\ AtMost(D, 0, k, h[W[k]])
    <3>1. Near(h[W[k]], h[W[k + 1]])
      BY <2>2, <2>4, AfterIsBeside DEF Leads
    <3>2. AtMost(D, 0, k + 1, h[W[k + 1]])
      BY <1>1, <2>2, <2>4, <3>1, KeysOneFurther
    <3> QED
      BY <2>2, <3>2
  <2>5. Bounded(k)
    BY <1>5, <2>1
  <2> QED
    BY <2>3, <2>4, <2>5
<1> HIDE DEF S
<1>6. n \in S
  BY <1>4, <1>5, SetInduction
<1>7. Bounded(n)
  BY <1>6 DEF S
<1>8. ~ Expanded(m, W[n])
  BY <1>1, <1>2 DEF Expanded
<1>9. AtMost(D, 0, n, 0)
  BY <1>1, <1>7, <1>8
<1> QED
  BY <1>1, <1>9, KeysOfOneVertex DEF D

\* When nothing is left in the queue, the target cannot be walked to.
LEMMA TargetIsOutOfReach ==
  ASSUME NEW q, Posed(q), NEW h, NEW m, NEW low, Searching(q, h, m, {}, low),
         NEW n \in Nat, NEW W \in [0 .. n -> Vertices],
         W[0] = Origin(q), W[n] = q.target,
         \A k \in 0 .. (n - 1) : W[k + 1] \in After(q, W[k])
  PROVE  FALSE
<1> DEFINE S == {k \in Nat : k <= n => Expanded(m, W[k])}
<1>1. ASSUME NEW v \in Vertices, is_set(m, v)
      PROVE  Expanded(m, v)
  BY <1>1 DEF Searching, Expanded, Vertices
<1>2. 0 \in S
  <2>1. is_set(m, Origin(q)) /\ Origin(q) \in Vertices
    BY QueryParts DEF Tree, Searching
  <2> QED
    BY <1>1, <2>1
<1>3. ASSUME NEW k \in Nat, k \in S
      PROVE  k + 1 \in S
  <2> SUFFICES ASSUME k + 1 <= n
               PROVE  Expanded(m, W[k + 1])
    OBVIOUS
  <2>1. k \in 0 .. n /\ k \in 0 .. (n - 1) /\ k + 1 \in 0 .. n
    OBVIOUS
  <2>2. Expanded(m, W[k]) /\ W[k] \in Vertices
    BY <1>3, <2>1
  <2>3. is_set(m, W[k + 1])
    BY <2>1, <2>2 DEF Searching
  <2> QED
    BY <1>1, <2>1, <2>3
<1> HIDE DEF S
<1>4. n \in S
  BY <1>2, <1>3, SetInduction
<1>5. Expanded(m, q.target)
  BY <1>4 DEF S
<1> QED
  BY <1>5, QueryParts DEF Searching, Expanded

\* A walk along a route is one step longer than the route has cells.
LEMMA RouteIsAWalk ==
  ASSUME NEW q, Posed(q), NEW r \in Routes(q)
  PROVE  \E n \in Nat : /\ n = Len(r) + 1
                         /\ \E W \in [0 .. n -> Vertices] :
                              /\ W[0] = Origin(q) /\ W[n] = q.target
                              /\ \A k \in 0 .. (n - 1) : W[k + 1] \in After(q, W[k])
<1>1. Len(r) \in Nat
  BY RouteCanBeWalked
<1>2. PICK W \in [0 .. (Len(r) + 1) -> Vertices] :
        /\ W[0] = Origin(q) /\ W[Len(r) + 1] = q.target
        /\ \A k \in 0 .. Len(r) : W[k + 1] \in After(q, W[k])
  BY RouteCanBeWalked
<1>3. Len(r) + 1 \in Nat /\ Len(r) + 1 - 1 = Len(r)
  BY <1>1
<1> QED
  BY <1>2, <1>3

LEMMA SearchEndsAtTarget ==
  ASSUME NEW q, Posed(q), NEW h, Leads(q, h), NEW m, NEW open, NEW low \in BOOLEAN,
         Searching(q, h, m, open, low), q.target \in open,
         low \/ \A u \in open : AtMost(m.data[q.target].distance, h[q.target],
                                      m.data[u].distance, h[u])
  PROVE  Traced(q, close(m, q.target), low)
<1> DEFINE t == q.target
           a == close(m, t)
<1>1. t \in Vertices /\ t # Simulated /\ is_set(m, t) /\ Stamped(m) /\ Tree(q, m)
      /\ Origin(q) \in Vertices
  BY QueryParts DEF Searching, Vertices
<1>2. /\ Stamped(a) /\ a.data = m.data
      /\ \A v \in Vertices : /\ is_set(a, v) <=> is_set(m, v)
                             /\ is_closed(a, v) <=> v = t \/ is_closed(m, v)
  BY <1>1, CloseParts
<1> HIDE DEF a
<1>3. \A u \in Vertices : Expanded(m, u) => Expanded(a, u)
  BY <1>2 DEF Expanded
<1>4. Tree(q, a)
  <2>1. \A v \in Vertices : m.data[v].predecessor \in Vertices
    BY <1>1, DataAreTyped
  <2> QED
    BY <1>1, <1>2, <1>3, <2>1 DEF Tree
<1>5. ASSUME ~ low, NEW r \in Routes(q)
      PROVE  m.data[t].distance <= Len(r) + 1
  <2>1. PICK n \in Nat : /\ n = Len(r) + 1
                         /\ \E W \in [0 .. n -> Vertices] :
                              /\ W[0] = Origin(q) /\ W[n] = q.target
                              /\ \A k \in 0 .. (n - 1) : W[k + 1] \in After(q, W[k])
    BY RouteIsAWalk
  <2>2. low = FALSE
    BY <1>5
  <2>3. m.data[q.target].distance <= n
    BY <2>1, <2>2, TargetIsReachedShortest
  <2> QED
    BY <2>1, <2>3
<1>6. Traced(q, a, low)
  BY <1>1, <1>2, <1>4, <1>5 DEF Traced
<1> QED
  BY <1>6 DEF a

LEMMA SearchEndsWithout ==
  ASSUME NEW q, Posed(q), NEW h, NEW m, NEW low, Searching(q, h, m, {}, low)
  PROVE  Traced(q, m, low)
<1>1. ~ is_set(m, q.target)
  BY QueryParts DEF Searching
<1>2. ASSUME NEW r \in Routes(q)
      PROVE  FALSE
  BY RouteIsAWalk, TargetIsOutOfReach
<1> QED
  BY <1>1, <1>2 DEF Searching, Traced

-----------------------------------------------------------------------------
(* The trace. *)

LEMMA BackIs ==
  ASSUME NEW m, NEW t
  PROVE  Back(m, t) = [k \in 0 .. Cardinality(Vertices) |->
           IF k = 0 THEN t ELSE predecessor(m, Back(m, t)[k - 1])]
<1> DEFINE Chain(n, f) == f = [k \in 0 .. n |->
             IF k = 0 THEN t ELSE predecessor(m, f[k - 1])]
           S == {n \in Nat : \E f : Chain(n, f)}
<1>1. 0 \in S
  <2>1. Chain(0, [k \in 0 .. 0 |-> t])
    OBVIOUS
  <2> QED
    BY <2>1
<1>2. ASSUME NEW n \in Nat, n \in S
      PROVE  n + 1 \in S
  <2>1. PICK f : Chain(n, f)
    BY <1>2
  <2> DEFINE g == [k \in 0 .. (n + 1) |-> IF k = n + 1 THEN predecessor(m, f[n]) ELSE f[k]]
  <2> HIDE DEF Chain
  <2>2. \A k \in 0 .. n : f[k] = IF k = 0 THEN t ELSE predecessor(m, f[k - 1])
    BY <2>1 DEF Chain
  <2>3. \A k \in 0 .. (n + 1) : g[k] = IF k = 0 THEN t ELSE predecessor(m, g[k - 1])
    <3> TAKE k \in 0 .. (n + 1)
    <3>1. CASE k = 0
      BY <3>1, <2>2
    <3>2. CASE k # 0
      <4>1. k - 1 \in 0 .. n /\ g[k - 1] = f[k - 1]
        BY <3>2
      <4>2. CASE k = n + 1
        BY <4>1, <4>2, <3>2
      <4>3. CASE k # n + 1
        <5>1. k \in 0 .. n
          BY <4>3
        <5> QED
          BY <5>1, <4>1, <4>3, <2>2, <3>2
      <4> QED
        BY <4>2, <4>3
    <3> QED
      BY <3>1, <3>2
  <2>4. Chain(n + 1, g)
    BY <2>3 DEF Chain
  <2> QED
    BY <2>4
<1>3. Cardinality(Vertices) \in Nat
  BY FiniteCells
<1>4. Cardinality(Vertices) \in S
  <2> HIDE DEF S
  <2> QED
    BY <1>1, <1>2, <1>3, SetInduction
<1>5. \E f : Chain(Cardinality(Vertices), f)
  BY <1>4
<1>6. Back(m, t) = CHOOSE f : Chain(Cardinality(Vertices), f)
  BY DEF Back
<1>7. Chain(Cardinality(Vertices), Back(m, t))
  <2> HIDE DEF Chain
  <2> QED
    BY <1>5, <1>6
<1> QED
  BY <1>7

\* When the target was not reached, the trace does not leave it.
LEMMA TraceIsLost ==
  ASSUME NEW q, Posed(q), NEW m, ~ is_set(m, q.target)
  PROVE  Trace(m, q.target).start # Origin(q)
<1> DEFINE t == q.target
           back == Back(m, t)
           N == Cardinality(Vertices)
           Stops(k) == /\ predecessor(m, back[k]) = back[k]
                       /\ \A j \in 1 .. (k - 1) : predecessor(m, back[j]) # back[j]
           stop == CHOOSE k \in 1 .. N : Stops(k)
<1>1. N \in Nat /\ N >= 1
  BY FiniteCells
<1>2. predecessor(m, t) = t
  BY DEF predecessor
<1>3. back[1] = t
  <2>1. 0 \in 0 .. N /\ 1 \in 0 .. N
    BY <1>1
  <2> HIDE DEF t, N
  <2>2. back = [k \in 0 .. N |-> IF k = 0 THEN t ELSE predecessor(m, back[k - 1])]
    BY BackIs DEF N
  <2> HIDE DEF back
  <2>3. back[0] = t /\ back[1] = predecessor(m, back[0])
    BY <2>1, <2>2
  <2> QED
    BY <1>2, <2>3
<1>4. Trace(m, t) = [start |-> back[stop], cells |-> [k \in 1 .. (stop - 1) |-> back[k]]]
  BY DEF Trace
<1> HIDE DEF back, N, t
<1>5. Stops(1) /\ 1 \in 1 .. N
  BY <1>1, <1>2, <1>3
<1>6. stop \in 1 .. N /\ Stops(stop)
  <2> HIDE DEF Stops
  <2> QED
    BY <1>5
<1>7. stop = 1
  <2>1. stop \in Nat /\ stop >= 1
    BY <1>1, <1>6
  <2> HIDE DEF stop
  <2>2. CASE stop > 1
    <3>1. 1 \in 1 .. (stop - 1)
      BY <2>1, <2>2
    <3> QED
      BY <1>2, <1>3, <1>6, <3>1
  <2> QED
    BY <2>1, <2>2
<1> HIDE DEF stop
<1>8. Trace(m, t).start = t
  BY <1>3, <1>4, <1>7
<1> QED
  BY <1>8, QueryParts DEF t

\* When it was reached, the trace is a route no longer than its distance.
LEMMA TraceIsARoute ==
  ASSUME NEW q, Posed(q), NEW m, Stamped(m), Tree(q, m), is_set(m, q.target)
  PROVE  /\ Trace(m, q.target).start = Origin(q)
         /\ Trace(m, q.target).cells \in Routes(q)
         /\ Len(Trace(m, q.target).cells) + 1 <= m.data[q.target].distance
<1> DEFINE t == q.target
           back == Back(m, t)
           N == Cardinality(Vertices)
           D == m.data[t].distance
           Stops(k) == /\ predecessor(m, back[k]) = back[k]
                       /\ \A j \in 1 .. (k - 1) : predecessor(m, back[j]) # back[j]
           stop == CHOOSE k \in 1 .. N : Stops(k)
           At(k) == /\ back[k] \in Vertices /\ is_set(m, back[k])
                    /\ m.data[back[k]].distance + k <= D
                    /\ k > 0 => back[k - 1] \in After(q, back[k])
                    /\ \A j \in 0 .. (k - 1) : back[j] \in Vertices
                         /\ m.data[back[j]].distance > m.data[back[k]].distance
           Far(k) == \A j \in 0 .. (k - 1) : back[j] # Origin(q)
           S == {k \in Nat : k <= N /\ Far(k) => At(k)}
<1>1. N \in Nat /\ D \in Nat /\ t \in Vertices /\ Origin(q) \in Vertices /\ t # Origin(q)
      /\ IsFiniteSet(Vertices)
  BY FiniteCells, DataAreTyped, QueryParts DEF Vertices
<1>2. back[0] = t /\ \A k \in 1 .. N : back[k] = predecessor(m, back[k - 1])
  <2> HIDE DEF t, N
  <2>1. 0 \in 0 .. N /\ \A k \in 1 .. N : k \in 0 .. N /\ k # 0
    BY <1>1
  <2>2. back = [k \in 0 .. N |-> IF k = 0 THEN t ELSE predecessor(m, back[k - 1])]
    BY BackIs DEF N
  <2> HIDE DEF back
  <2> QED
    BY <2>1, <2>2
<1>3. Trace(m, t) = [start |-> back[stop], cells |-> [k \in 1 .. (stop - 1) |-> back[k]]]
  BY DEF Trace
<1>4. ASSUME NEW v \in Vertices, is_set(m, v), v # Origin(q)
      PROVE  LET p == predecessor(m, v)
             IN /\ p \in Vertices /\ is_set(m, p) /\ v \in After(q, p) /\ p # v
                /\ m.data[p].distance < m.data[v].distance
                /\ m.data[p].distance \in Nat /\ m.data[v].distance \in Nat
  <2> DEFINE p == m.data[v].predecessor
  <2>1. predecessor(m, v) = p /\ p \in Vertices /\ m.data[p].distance \in Nat
        /\ m.data[v].distance \in Nat
    BY <1>4, DataAreTyped DEF predecessor
  <2>2. Expanded(m, p) /\ v \in After(q, p) /\ m.data[v].distance > m.data[p].distance
    BY <1>4 DEF Tree
  <2>3. p # v /\ is_set(m, p)
    BY <2>1, <2>2 DEF Expanded
  <2> HIDE DEF p
  <2> QED
    BY <2>1, <2>2, <2>3
<1>5. predecessor(m, Origin(q)) = Origin(q)
  BY DEF Tree, predecessor
<1>6. is_set(m, t) /\ \A v \in Vertices : m.data[v].distance \in Nat
  BY DataAreTyped
<1> HIDE DEF back, N, t, D
<1>7. 0 \in S
  BY <1>1, <1>2, <1>6 DEF D
<1>8. ASSUME NEW k \in Nat, k \in S
      PROVE  k + 1 \in S
  <2> SUFFICES ASSUME k + 1 <= N, Far(k + 1)
               PROVE  At(k + 1)
    OBVIOUS
  <2>1. At(k) /\ back[k] # Origin(q)
    BY <1>1, <1>8
  <2>2. k + 1 \in 1 .. N /\ k + 1 - 1 = k
    BY <1>1
  <2>3. back[k + 1] = predecessor(m, back[k])
    BY <1>2, <2>2
  <2> DEFINE e == m.data[back[k]].distance
             f == m.data[back[k + 1]].distance
  <2>4. /\ back[k + 1] \in Vertices /\ is_set(m, back[k + 1])
        /\ back[k] \in After(q, back[k + 1]) /\ f < e /\ f \in Nat /\ e \in Nat
    BY <1>4, <2>1, <2>3
  <2>5. e + k <= D
    BY <2>1
  <2>6. f + (k + 1) <= D
    <3> HIDE DEF e, f
    <3> QED
      BY <1>1, <2>4, <2>5
  <2>7. ASSUME NEW j \in 0 .. k
        PROVE  back[j] \in Vertices /\ m.data[back[j]].distance > f
    <3>1. CASE j = k
      BY <2>1, <2>4, <3>1
    <3>2. CASE j # k
      <4>1. j \in 0 .. (k - 1)
        BY <3>2
      <4>2. back[j] \in Vertices /\ m.data[back[j]].distance > e
        BY <2>1, <4>1
      <4>3. m.data[back[j]].distance \in Nat
        BY <1>6, <4>2
      <4> HIDE DEF e, f
      <4> QED
        BY <2>4, <4>2, <4>3
    <3> QED
      BY <3>1, <3>2
  <2>8. k + 1 - 1 = k /\ k + 1 > 0
    OBVIOUS
  <2> HIDE DEF e
  <2> QED
    BY <2>4, <2>6, <2>7, <2>8
<1>9. ASSUME NEW k \in Nat, k <= N, Far(k)
      PROVE  At(k)
  <2> HIDE DEF S, At, Far
  <2>1. Nat \subseteq S
    BY <1>7, <1>8, SetInduction
  <2> QED
    BY <1>9, <2>1 DEF S
<1>10. \E K \in 0 .. N : back[K] = Origin(q) /\ Far(K)
  <2> SUFFICES ASSUME \A K \in 0 .. N : ~ (back[K] = Origin(q) /\ Far(K))
               PROVE  FALSE
    OBVIOUS
  <2> DEFINE T == {k \in Nat : k <= N => Far(k)}
             f == [k \in 0 .. N |-> back[k]]
  <2>1. 0 \in T
    OBVIOUS
  <2>2. ASSUME NEW k \in Nat, k \in T
        PROVE  k + 1 \in T
    <3> SUFFICES ASSUME k + 1 <= N PROVE Far(k + 1)
      OBVIOUS
    <3>1. k \in 0 .. N /\ Far(k) /\ back[k] # Origin(q)
      BY <1>1, <2>2
    <3> QED
      BY <3>1
  <2>3. Nat \subseteq T
    <3> HIDE DEF T
    <3> QED
      BY <2>1, <2>2, SetInduction
  <2>4. \A k \in 0 .. N : At(k)
    <3> TAKE k \in 0 .. N
    <3>1. k \in Nat /\ k <= N /\ Far(k)
      BY <1>1, <2>3
    <3> HIDE DEF At, Far
    <3> QED
      BY <1>9, <3>1
  <2>5. f \in [0 .. N -> Vertices]
    BY <2>4
  <2>6. \A j, k \in 0 .. N : f[j] = f[k] => j = k
    <3> SUFFICES ASSUME NEW j \in 0 .. N, NEW k \in 0 .. N, f[j] = f[k], j < k
                 PROVE  FALSE
      OBVIOUS
    <3>1. m.data[back[j]].distance > m.data[back[k]].distance
      BY <2>4
    <3>2. back[j] = back[k] /\ m.data[back[j]].distance \in Nat
      BY <1>6, <2>4
    <3> QED
      BY <3>1, <3>2
  <2> HIDE DEF f
  <2>7. f \in Injection(0 .. N, Vertices)
    BY <2>5, <2>6, Fun_IsInj
  <2>8. Cardinality(0 .. N) = N + 1
    BY <1>1, FS_Interval
  <2>9. Cardinality(0 .. N) <= N
    BY <1>1, <2>7, FS_Injection DEF N
  <2> QED
    BY <1>1, <2>8, <2>9
<1>11. PICK K \in 0 .. N : back[K] = Origin(q) /\ Far(K)
  BY <1>10
<1>12. K \in 1 .. N /\ K \in Nat
  BY <1>1, <1>2, <1>11
<1>13. \A k \in 0 .. K : At(k) /\ back[k] \in Vertices
  <2> TAKE k \in 0 .. K
  <2>1. k \in Nat /\ k <= N /\ Far(k)
    BY <1>1, <1>11, <1>12
  <2>2. At(k)
    <3> HIDE DEF At, Far
    <3> QED
      BY <1>9, <2>1
  <2> QED
    BY <2>2
<1>14. \A k \in 0 .. (K - 1) : predecessor(m, back[k]) # back[k] /\ back[k] \in After(q, back[k + 1])
  <2> TAKE k \in 0 .. (K - 1)
  <2>1. k \in 0 .. K /\ k + 1 \in 0 .. K /\ k + 1 > 0 /\ k + 1 - 1 = k
    BY <1>12
  <2>2. back[k] # Origin(q) /\ At(k) /\ At(k + 1)
    BY <1>11, <1>13, <2>1
  <2> QED
    BY <1>4, <2>1, <2>2
<1>15. Stops(K)
  BY <1>5, <1>11, <1>12, <1>14
<1>16. stop = K
  <2>1. stop \in 1 .. N /\ Stops(stop)
    <3> HIDE DEF Stops
    <3> QED
      BY <1>12, <1>15
  <2> HIDE DEF stop
  <2>2. CASE stop < K
    <3>1. stop \in 0 .. (K - 1)
      BY <1>1, <1>12, <2>1, <2>2
    <3> QED
      BY <1>14, <2>1, <3>1
  <2>3. CASE stop > K
    <3>1. K \in 1 .. (stop - 1)
      BY <1>1, <1>12, <2>1, <2>3
    <3> QED
      BY <1>15, <2>1, <3>1
  <2> QED
    BY <1>1, <1>12, <2>1, <2>2, <2>3
<1>17. m.data[Origin(q)].distance + K <= D /\ m.data[Origin(q)].distance \in Nat
  <2>1. K \in 0 .. K
    BY <1>12
  <2> QED
    BY <1>1, <1>6, <1>11, <1>13, <2>1
<1> DEFINE n == K - 1
           B == [k \in 0 .. K |-> back[k]]
<1>18. n \in Nat /\ n + 1 = K
  BY <1>12
<1>19. /\ B \in [0 .. (n + 1) -> Vertices] /\ B[0] = t /\ B[n + 1] = Origin(q)
       /\ \A k \in 0 .. n : B[k] \in After(q, B[k + 1])
       /\ \A j, k \in 0 .. (n + 1) : B[j] = B[k] => j = k
       /\ \A k \in 1 .. n : B[k] = back[k]
  <2>1. B \in [0 .. K -> Vertices] /\ B[0] = t /\ B[K] = Origin(q)
    BY <1>2, <1>11, <1>12, <1>13
  <2>2. \A k \in 0 .. (K - 1) : B[k] = back[k] /\ B[k + 1] = back[k + 1]
    BY <1>12
  <2>3. \A j, k \in 0 .. K : B[j] = B[k] => j = k
    <3> SUFFICES ASSUME NEW j \in 0 .. K, NEW k \in 0 .. K, B[j] = B[k], j < k
                 PROVE  FALSE
      OBVIOUS
    <3>1. m.data[back[j]].distance > m.data[back[k]].distance
      BY <1>13
    <3>2. back[j] = back[k] /\ m.data[back[j]].distance \in Nat
      BY <1>6, <1>13
    <3> QED
      BY <3>1, <3>2
  <2> HIDE DEF B
  <2> QED
    BY <1>14, <1>18, <2>1, <2>2, <2>3
<1>20. K <= D
  BY <1>1, <1>12, <1>17
<1> HIDE DEF n, B, stop
<1>21. [k \in 1 .. n |-> B[k]] \in Routes(q)
  BY <1>18, <1>19, StepsBackAreARoute DEF t
<1>22. Trace(m, t).cells = [k \in 1 .. n |-> B[k]] /\ Trace(m, t).start = Origin(q)
  <2>1. Trace(m, t) = [start |-> back[K], cells |-> [k \in 1 .. n |-> back[k]]]
    BY <1>3, <1>16 DEF n
  <2>2. [k \in 1 .. n |-> back[k]] = [k \in 1 .. n |-> B[k]]
    BY <1>19
  <2> QED
    BY <1>11, <2>1, <2>2
<1>23. Len([k \in 1 .. n |-> B[k]]) = n
  BY <1>18
<1> QED
  BY <1>18, <1>20, <1>21, <1>22, <1>23 DEF t, D

-----------------------------------------------------------------------------
(***************************************************************************)
(* The invariant.  Every buffer is stamped no later than its epoch; while  *)
(* a search is under way it is a search in the sense above, of which only  *)
(* a part holds once a key was lowered, which Dijkstra's search does not   *)
(* do; a route that is cached or answered was a route when it was asked    *)
(* for.                                                                    *)
(***************************************************************************)
Heuristic == [c \in Cells |-> Squared(router.heuristic, query.target, c)]

OnceARoute(queries, r, id) ==
  \E k \in DOMAIN queries : PathIdentifier(queries[k]) = id /\ r \in Routes(queries[k])

RouterType ==
  /\ router \in [cached : BOOLEAN, heuristic : {"None", "Euclidean"}]
  /\ predecessor_map = [cycle \in BOOLEAN |-> predecessor_map[cycle]]
  /\ \A cycle \in BOOLEAN : Stamped(predecessor_map[cycle])
  /\ control \in {"idle", "searching", "tracing", "answered"}
  /\ asked \in Seq(Query)
  /\ lowered \in BOOLEAN

Asked ==
  control # "idle" =>
    Posed(query) /\ Len(asked) > 0 /\ query = asked[Len(asked)]

CachedWereRoutes ==
  \A id \in DOMAIN cached_routes : OnceARoute(asked, cached_routes[id], id)

AnswerWasRoute ==
  control = "answered" /\ answer # NoRoute => OnceARoute(asked, answer, PathIdentifier(query))

SearchInv ==
  /\ RouterType /\ Asked /\ CachedWereRoutes /\ AnswerWasRoute
  /\ control = "searching" => Searching(query, Heuristic, Buffer, frontier, lowered)
  /\ control = "tracing" => Traced(query, Buffer, lowered)
  /\ router.heuristic = "None" => ~ lowered
  /\ AnswersShortest

LEMMA HeuristicLeads ==
  ASSUME NEW q, Posed(q), NEW kind, NEW h,
         h = [c \in Cells |-> Squared(kind, q.target, c)]
  PROVE  Leads(q, h)
<1>1. q.target \in Cells
  BY QueryParts
<1>2. h \in [Cells -> Nat] /\ h[q.target] = 0
  BY <1>1, HeuristicIsSquare
<1>3. \A a, b \in Cells : Beside(a, b) => Near(h[a], h[b])
  BY <1>1, HeuristicIsNear
<1> QED
  BY <1>2, <1>3 DEF Leads

LEMMA NoHeuristicIsUninformed ==
  ASSUME router.heuristic = "None"
  PROVE  Uninformed(Heuristic)
BY DEF Uninformed, Heuristic, Squared

LEMMA InitSearch == SearchInit => SearchInv
<1> SUFFICES ASSUME SearchInit PROVE SearchInv
  OBVIOUS
<1>0. lowered \in BOOLEAN /\ ~ lowered
  BY DEF SearchInit
<1>1. RouterType
  BY <1>0, UnusedIsStamped DEF SearchInit, RouterType
<1>2. Asked /\ AnswerWasRoute /\ AnswersShortest
  BY DEF SearchInit, Asked, AnswerWasRoute, AnswersShortest
<1>3. CachedWereRoutes
  BY DEF SearchInit, CachedWereRoutes
<1> QED
  BY <1>0, <1>1, <1>2, <1>3 DEF SearchInit, SearchInv

LEMMA RoutesAreSequences ==
  ASSUME NEW q, NEW r \in Routes(q)
  PROVE  r \in Seq(Cells) /\ Len(r) \in Nat /\ r # NoRoute
<1>1. r \in Seq(Cells)
  BY AllWalksAre DEF Routes, IsWalk
<1> QED
  BY <1>1, SearchAssumption

\* What was a route of an earlier query still was one after another query.
LEMMA OnceIsForever ==
  ASSUME asked \in Seq(Query), NEW q \in Query, asked' = Append(asked, q),
         NEW r, NEW id, OnceARoute(asked, r, id)
  PROVE  OnceARoute(asked', r, id)
<1>1. PICK k \in DOMAIN asked : PathIdentifier(asked[k]) = id /\ r \in Routes(asked[k])
  BY DEF OnceARoute
<1>2. k \in DOMAIN asked' /\ asked'[k] = asked[k]
  OBVIOUS
<1> QED
  BY <1>1, <1>2 DEF OnceARoute

LEMMA FindKeepsInv ==
  ASSUME SearchInv, NEW k \in DOMAIN Queries, NEW q \in Queries[k], find_routing_ancilla(q)
  PROVE  SearchInv'
<1>1. Posed(q) /\ q \in Query
  BY SearchAssumption DEF Posed
<1>2. /\ control = "idle" /\ query' = q /\ asked' = Append(asked, q)
      /\ router' = router /\ cached_routes' = cached_routes /\ lowered' = FALSE
  BY DEF find_routing_ancilla
<1>3. asked' \in Seq(Query) /\ Len(asked') = Len(asked) + 1 /\ asked'[Len(asked')] = q
      /\ Len(asked) \in Nat /\ \A j \in 1 .. Len(asked) : asked'[j] = asked[j]
  BY <1>1, <1>2 DEF SearchInv, RouterType
<1>4. Asked' /\ ~ lowered'
  BY <1>1, <1>2, <1>3 DEF Asked
<1>5. CachedWereRoutes'
  <2> SUFFICES ASSUME NEW id \in DOMAIN cached_routes
               PROVE  OnceARoute(asked', cached_routes[id], id)
    BY <1>2 DEF CachedWereRoutes
  <2>1. OnceARoute(asked, cached_routes[id], id)
    BY DEF SearchInv, CachedWereRoutes
  <2> QED
    BY <1>1, <1>2, <2>1, OnceIsForever DEF SearchInv, RouterType
<1>6. CASE router.cached /\ PathIdentifier(q) \in DOMAIN cached_routes
  <2> DEFINE id == PathIdentifier(q)
  <2>1. /\ control' = "answered" /\ answer' = cached_routes[id]
        /\ predecessor_map' = predecessor_map
    BY <1>6 DEF find_routing_ancilla
  <2>2. OnceARoute(asked, cached_routes[id], id)
    BY <1>6 DEF SearchInv, CachedWereRoutes
  <2>3. OnceARoute(asked', cached_routes[id], id)
    BY <1>1, <1>2, <2>2, OnceIsForever DEF SearchInv, RouterType
  <2>4. AnswerWasRoute'
    BY <1>2, <2>1, <2>3 DEF AnswerWasRoute
  <2>5. ~ Searched(query)'
    <3>1. PICK j \in DOMAIN asked : PathIdentifier(asked[j]) = id
      BY <2>2 DEF OnceARoute
    <3>2. j \in 1 .. Len(asked)
      BY <3>1 DEF SearchInv, RouterType
    <3>3. j \in 1 .. (Len(asked') - 1) /\ PathIdentifier(asked'[j]) = PathIdentifier(query')
      BY <1>2, <1>3, <3>1, <3>2
    <3> QED
      BY <1>2, <1>6, <3>3 DEF Searched
  <2>6. AnswersShortest'
    BY <2>5 DEF AnswersShortest
  <2>7. RouterType'
    BY <1>2, <1>3, <2>1 DEF SearchInv, RouterType
  <2> QED
    BY <1>4, <1>5, <2>1, <2>4, <2>6, <2>7 DEF SearchInv
<1>7. CASE ~ (router.cached /\ PathIdentifier(q) \in DOMAIN cached_routes)
  <2>1. Begin(q)
    BY <1>7 DEF find_routing_ancilla
  <2>2. control' = "searching"
    BY <2>1 DEF Begin
  <2>3. AnswerWasRoute' /\ AnswersShortest'
    BY <2>2 DEF AnswerWasRoute, AnswersShortest
  <2>4. /\ predecessor_map = [cycle \in BOOLEAN |-> predecessor_map[cycle]]
        /\ \A cycle \in BOOLEAN : Stamped(predecessor_map[cycle])
    BY DEF SearchInv, RouterType
  <2>5. Leads(q, Heuristic')
    BY <1>1, <1>2, HeuristicLeads DEF Heuristic
  <2>6. \E m : /\ predecessor_map' = [predecessor_map EXCEPT ![want_cycle(q)] = m]
               /\ Searching(q, Heuristic', m, frontier', FALSE)
    <3>1. CASE want_cycle(q)
      <4>1. want_cycle(q) = TRUE
        BY <3>1
      <4>2. Stamped(predecessor_map[want_cycle(q)])
        BY <2>4, <4>1
      <4>3. LET first == Neighbours(q, q.source)
                a == set(set(begin_epoch(predecessor_map[want_cycle(q)]),
                             {Simulated}, 0, Simulated), first, 1, Simulated)
            IN /\ predecessor_map' = [predecessor_map EXCEPT ![TRUE] = a]
               /\ frontier' = first /\ Searching(q, Heuristic', a, first, FALSE)
        BY <1>1, <2>1, <2>5, <3>1, <4>2, SearchBeginsAround DEF Begin
      <4> QED
        BY <4>1, <4>3
    <3>2. CASE ~ want_cycle(q)
      <4>1. want_cycle(q) = FALSE
        BY <3>2 DEF want_cycle
      <4>2. Stamped(predecessor_map[want_cycle(q)])
        BY <2>4, <4>1
      <4>3. LET a == set(begin_epoch(predecessor_map[want_cycle(q)]), {q.source}, 0, q.source)
            IN /\ predecessor_map' = [predecessor_map EXCEPT ![FALSE] = a]
               /\ frontier' = {q.source} /\ Searching(q, Heuristic', a, {q.source}, FALSE)
        BY <1>1, <2>1, <2>5, <3>2, <4>2, SearchBeginsAtSource DEF Begin
      <4> QED
        BY <4>1, <4>3
    <3> QED
      BY <3>1, <3>2
  <2>7. PICK m : /\ predecessor_map' = [predecessor_map EXCEPT ![want_cycle(q)] = m]
                 /\ Searching(q, Heuristic', m, frontier', FALSE)
    BY <2>6
  <2>8. want_cycle(q) \in BOOLEAN
    BY DEF want_cycle
  <2>9. Stamped(m)
    BY <2>7 DEF Searching
  <2>10. /\ predecessor_map' = [cycle \in BOOLEAN |-> predecessor_map'[cycle]]
         /\ \A cycle \in BOOLEAN : Stamped(predecessor_map'[cycle])
         /\ Buffer' = m
    BY <1>2, <2>4, <2>7, <2>8, <2>9 DEF Buffer
  <2>11. RouterType'
    BY <1>2, <1>3, <2>2, <2>10 DEF SearchInv, RouterType
  <2> QED
    BY <1>2, <1>4, <1>5, <2>2, <2>3, <2>7, <2>10, <2>11 DEF SearchInv
<1> QED
  BY <1>6, <1>7

\* A step of a search leaves what was asked and what is cached as it is.
LEMMA SearchStepKeepsRest ==
  ASSUME SearchInv, control # "idle", control' \in {"searching", "tracing"},
         UNCHANGED <<router, cached_routes, query, asked>>
  PROVE  Asked' /\ CachedWereRoutes' /\ AnswerWasRoute' /\ AnswersShortest'
<1>1. Asked'
  BY DEF SearchInv, Asked
<1>2. CachedWereRoutes'
  BY DEF SearchInv, CachedWereRoutes, OnceARoute
<1>3. AnswerWasRoute' /\ AnswersShortest'
  BY DEF AnswerWasRoute, AnswersShortest
<1> QED
  BY <1>1, <1>2, <1>3

LEMMA PopKeepsInv ==
  ASSUME SearchInv, Pop
  PROVE  SearchInv'
<1> DEFINE m == Buffer
           h == Heuristic
<1>1. control = "searching" /\ UNCHANGED <<router, cached_routes, query, answer, asked>>
  BY DEF Pop
<1>2. Posed(query) /\ Searching(query, h, m, frontier, lowered) /\ Leads(query, h)
      /\ lowered \in BOOLEAN
  BY <1>1, HeuristicLeads DEF SearchInv, RouterType, Asked, Heuristic
<1>3. /\ predecessor_map = [cycle \in BOOLEAN |-> predecessor_map[cycle]]
      /\ \A cycle \in BOOLEAN : Stamped(predecessor_map[cycle])
      /\ want_cycle(query) \in BOOLEAN
  BY DEF SearchInv, RouterType, want_cycle
<1>4. h' = h
  BY <1>1 DEF Heuristic
<1>5. \A c \in Cells : HeuristicSquared(query, c) = h[c]
  BY DEF HeuristicSquared, Heuristic, Squared
<1>6. frontier \subseteq Cells
  BY <1>2 DEF Searching
<1>7. PICK c \in frontier :
        /\ Top(c)
        /\ LET a      == close(m, c)
               better == {n \in Neighbours(query, c) : Improves(a, c, n)}
           IN IF is_closed(m, c)
                THEN frontier' = frontier \ {c} /\ UNCHANGED <<predecessor_map, lowered, control>>
              ELSE IF c = query.target
                THEN /\ frontier' = {}
                     /\ predecessor_map' = [predecessor_map EXCEPT ![want_cycle(query)] = a]
                     /\ control' = "tracing"
                     /\ UNCHANGED lowered
              ELSE /\ frontier' = (frontier \ {c}) \cup {n \in better : ~ is_set(a, n)}
                   /\ predecessor_map' = [predecessor_map EXCEPT ![want_cycle(query)] =
                        set(a, better, a.data[c].distance + 1, c)]
                   /\ lowered' = (lowered \/ \E n \in better : is_set(a, n))
                   /\ UNCHANGED control
  BY DEF Pop
<1>8. lowered \/ \A u \in frontier : AtMost(m.data[c].distance, h[c], m.data[u].distance, h[u])
  BY <1>5, <1>6, <1>7 DEF Top
<1>9. ~ is_closed(m, c)
  BY <1>2, <1>6 DEF Searching, Vertices
<1>10. ASSUME NEW a, Stamped(a), control' \in {"searching", "tracing"}, lowered' \in BOOLEAN,
              predecessor_map' = [predecessor_map EXCEPT ![want_cycle(query)] = a]
       PROVE  RouterType' /\ Buffer' = a
  <2>1. /\ predecessor_map' = [cycle \in BOOLEAN |-> predecessor_map'[cycle]]
        /\ \A cycle \in BOOLEAN : Stamped(predecessor_map'[cycle])
        /\ Buffer' = a
    BY <1>1, <1>3, <1>10 DEF Buffer
  <2> QED
    BY <1>1, <1>10, <2>1 DEF SearchInv, RouterType
<1> HIDE DEF m, h
<1>11. CASE c = query.target
  <2> DEFINE a == close(m, c)
  <2>1. control' = "tracing" /\ lowered' = lowered
        /\ predecessor_map' = [predecessor_map EXCEPT ![want_cycle(query)] = a]
    BY <1>7, <1>9, <1>11
  <2>2. Traced(query, a, lowered)
    BY <1>2, <1>8, <1>11, SearchEndsAtTarget
  <2> HIDE DEF a
  <2>3. RouterType' /\ Buffer' = a
    BY <1>2, <1>10, <2>1, <2>2 DEF Traced
  <2>4. Asked' /\ CachedWereRoutes' /\ AnswerWasRoute' /\ AnswersShortest'
    BY <1>1, <2>1, SearchStepKeepsRest
  <2> QED
    BY <1>1, <2>1, <2>2, <2>3, <2>4 DEF SearchInv
<1>12. CASE c # query.target
  <2> DEFINE a      == close(m, c)
             better == {n \in Neighbours(query, c) : Improves(a, c, n)}
             b      == set(a, better, a.data[c].distance + 1, c)
             later  == (frontier \ {c}) \cup {n \in better : ~ is_set(a, n)}
             lowers == lowered \/ \E n \in better : is_set(a, n)
  <2>1. control' = control
        /\ predecessor_map' = [predecessor_map EXCEPT ![want_cycle(query)] = b]
        /\ frontier' = later /\ lowered' = lowers /\ lowers \in BOOLEAN
    BY <1>2, <1>7, <1>9, <1>12
  <2>2. Searching(query, h, b, later, lowers)
    BY <1>2, <1>8, <1>12, SearchGoesOn
  <2> HIDE DEF a, better, b, later, lowers
  <2>3. RouterType' /\ Buffer' = b
    BY <1>1, <1>10, <2>1, <2>2 DEF Searching
  <2>4. Asked' /\ CachedWereRoutes' /\ AnswerWasRoute' /\ AnswersShortest'
    BY <1>1, <2>1, SearchStepKeepsRest
  <2>5. Searching(query, h, b, frontier', lowered')
    BY <2>1, <2>2
  <2>6. Searching(query, Heuristic, Buffer, frontier, lowered)'
    BY <1>1, <1>4, <2>3, <2>5 DEF h
  <2>7. router'.heuristic = "None" => ~ lowered'
    <3> SUFFICES ASSUME router.heuristic = "None" PROVE ~ lowered'
      BY <1>1
    <3>1. Uninformed(h)
      BY NoHeuristicIsUninformed DEF h
    <3> QED
      BY <2>5, <3>1 DEF Searching
  <2> QED
    BY <1>1, <2>1, <2>3, <2>4, <2>6, <2>7 DEF SearchInv
<1> QED
  BY <1>11, <1>12

LEMMA ExhaustKeepsInv ==
  ASSUME SearchInv, Exhaust
  PROVE  SearchInv'
<1>1. /\ control = "searching" /\ frontier = {} /\ control' = "tracing"
      /\ UNCHANGED <<router, cached_routes, predecessor_map, frontier, lowered, query, answer,
                  asked>>
  BY DEF Exhaust
<1>2. Posed(query) /\ Searching(query, Heuristic, Buffer, {}, lowered)
  BY <1>1 DEF SearchInv, Asked
<1>3. Traced(query, Buffer, lowered)
  BY <1>2, SearchEndsWithout
<1>4. Traced(query, Buffer, lowered)'
  BY <1>1, <1>3 DEF Buffer
<1>5. RouterType'
  BY <1>1 DEF SearchInv, RouterType
<1>6. Asked' /\ CachedWereRoutes' /\ AnswerWasRoute' /\ AnswersShortest'
  BY <1>1, SearchStepKeepsRest
<1> QED
  BY <1>1, <1>4, <1>5, <1>6 DEF SearchInv

LEMMA AnswerKeepsInv ==
  ASSUME SearchInv, Answer
  PROVE  SearchInv'
<1> DEFINE t == Trace(Buffer, query.target)
           found == t.start = (IF want_cycle(query) THEN Simulated ELSE query.source)
           known == PathIdentifier(query)
<1>1. /\ control = "tracing" /\ control' = "answered"
      /\ answer' = IF found THEN t.cells ELSE NoRoute
      /\ cached_routes' = IF router.cached /\ found
                            THEN [i \in DOMAIN cached_routes \cup {known} |->
                                    IF i = known THEN t.cells ELSE cached_routes[i]]
                            ELSE cached_routes
      /\ UNCHANGED <<router, predecessor_map, frontier, lowered, query, asked>>
  BY DEF Answer
<1>2. Posed(query) /\ Traced(query, Buffer, lowered) /\ Len(asked) > 0 /\ query = asked[Len(asked)]
      /\ Len(asked) \in DOMAIN asked
  BY <1>1 DEF SearchInv, Asked, RouterType
<1>3. found <=> t.start = Origin(query)
  BY DEF Origin
<1>4. CASE is_set(Buffer, query.target)
  <2>1. found /\ t.cells \in Routes(query)
        /\ Len(t.cells) + 1 <= Buffer.data[query.target].distance
        /\ Buffer.data[query.target].distance \in Nat
    BY <1>2, <1>3, <1>4, TraceIsARoute, DataAreTyped, QueryParts DEF Traced, Vertices
  <2>2. ~ lowered => \A r \in Routes(query) : Buffer.data[query.target].distance <= Len(r) + 1
    BY <1>2, <1>4 DEF Traced
  <2>3. t.cells # NoRoute /\ Len(t.cells) \in Nat /\ \A r \in Routes(query) : Len(r) \in Nat
    BY <2>1, RoutesAreSequences
  <2>4. router.heuristic = "None" \/ ~ lowered => \A r \in Routes(query) : Len(t.cells) <= Len(r)
    BY <2>1, <2>2, <2>3 DEF SearchInv
  <2> HIDE DEF t, found
  <2>5. answer' = t.cells
    BY <1>1, <2>1
  <2>6. AnswersShortest'
    BY <1>1, <2>1, <2>3, <2>4, <2>5 DEF AnswersShortest
  <2>7. OnceARoute(asked', t.cells, known)
    BY <1>1, <1>2, <2>1 DEF OnceARoute
  <2>8. AnswerWasRoute'
    BY <1>1, <2>5, <2>7 DEF AnswerWasRoute
  <2>9. CachedWereRoutes'
    <3> SUFFICES ASSUME NEW id \in DOMAIN cached_routes'
                 PROVE  OnceARoute(asked', cached_routes'[id], id)
      BY DEF CachedWereRoutes
    <3>1. CASE cached_routes' = cached_routes
      BY <1>1, <3>1 DEF SearchInv, CachedWereRoutes, OnceARoute
    <3>2. CASE cached_routes' # cached_routes /\ id = known
      <4>1. cached_routes'[id] = t.cells
        BY <1>1, <3>2
      <4> QED
        BY <2>7, <3>2, <4>1 DEF OnceARoute
    <3>3. CASE cached_routes' # cached_routes /\ id # known
      <4>1. id \in DOMAIN cached_routes /\ cached_routes'[id] = cached_routes[id]
        BY <1>1, <3>3
      <4>2. OnceARoute(asked, cached_routes[id], id)
        BY <4>1 DEF SearchInv, CachedWereRoutes
      <4> QED
        BY <1>1, <4>1, <4>2 DEF OnceARoute
    <3> QED
      BY <3>1, <3>2, <3>3
  <2>10. RouterType' /\ Asked'
    BY <1>1, <1>2 DEF SearchInv, RouterType, Asked
  <2> QED
    BY <1>1, <2>6, <2>8, <2>9, <2>10 DEF SearchInv
<1>5. CASE ~ is_set(Buffer, query.target)
  <2>1. ~ found
    BY <1>2, <1>3, <1>5, TraceIsLost
  <2>2. Routes(query) = {}
    BY <1>2, <1>5 DEF Traced
  <2> HIDE DEF t, found
  <2>3. answer' = NoRoute /\ cached_routes' = cached_routes
    BY <1>1, <2>1
  <2>4. AnswersShortest' /\ AnswerWasRoute'
    BY <1>1, <2>2, <2>3 DEF AnswersShortest, AnswerWasRoute
  <2>5. CachedWereRoutes'
    BY <1>1, <2>3 DEF SearchInv, CachedWereRoutes, OnceARoute
  <2>6. RouterType' /\ Asked'
    BY <1>1, <1>2 DEF SearchInv, RouterType, Asked
  <2> QED
    BY <1>1, <2>4, <2>5, <2>6 DEF SearchInv
<1> QED
  BY <1>4, <1>5

LEMMA ContinueKeepsInv ==
  ASSUME SearchInv, Continue
  PROVE  SearchInv'
<1>1. /\ control' = "idle"
      /\ UNCHANGED <<router, cached_routes, predecessor_map, frontier, lowered, asked>>
  BY DEF Continue
<1>2. RouterType'
  BY <1>1 DEF SearchInv, RouterType
<1>3. CachedWereRoutes'
  BY <1>1 DEF SearchInv, CachedWereRoutes, OnceARoute
<1> QED
  BY <1>1, <1>2, <1>3 DEF SearchInv, Asked, AnswerWasRoute, AnswersShortest

(***************************************************************************)
(* The invariant holds throughout.                                         *)
(***************************************************************************)
THEOREM SearchInvariant == SearchSpec => []SearchInv
<1>1. SearchInv /\ [SearchNext]_searchVars => SearchInv'
  <2> SUFFICES ASSUME SearchInv, [SearchNext]_searchVars PROVE SearchInv'
    OBVIOUS
  <2>1. ASSUME NEW k \in DOMAIN Queries, NEW q \in Queries[k], find_routing_ancilla(q)
        PROVE  SearchInv'
    BY <2>1, FindKeepsInv
  <2>2. CASE Pop
    BY <2>2, PopKeepsInv
  <2>3. CASE Exhaust
    BY <2>3, ExhaustKeepsInv
  <2>4. CASE Answer
    BY <2>4, AnswerKeepsInv
  <2>5. CASE Continue
    BY <2>5, ContinueKeepsInv
  <2>6. CASE UNCHANGED searchVars
    BY <2>6 DEF searchVars, SearchInv, RouterType, Asked, CachedWereRoutes, AnswerWasRoute,
                OnceARoute, Heuristic, Buffer, AnswersShortest, Searched
  <2> QED
    BY <2>1, <2>2, <2>3, <2>4, <2>5, <2>6 DEF SearchNext
<1> QED
  BY <1>1, InitSearch, PTL DEF SearchSpec

(***************************************************************************)
(* A search answers with a route of its own lattice, and without one only  *)
(* if there is none, whatever earlier searches have left in the arrays and *)
(* in whatever order the queue gives what it holds once a key was lowered  *)
(* in it; the route is a shortest one unless that has happened, which it   *)
(* never does in Dijkstra's search (custom_graph_search.cpp).              *)
(***************************************************************************)
THEOREM SearchAnswersShortest == SearchSpec => []AnswersShortest
<1>1. SearchInv => AnswersShortest
  BY DEF SearchInv
<1> QED
  BY <1>1, SearchInvariant, PTL

\* Whether a walk is a route depends on no more than this.
LEMMA RouteStaysARoute ==
  ASSUME NEW p, NEW q, NEW r, IsRoute(p, r), PathIdentifier(p) = PathIdentifier(q),
         p.rotated = q.rotated, \A k \in DOMAIN r : r[k] \in q.open, q.walls = {}
  PROVE  IsRoute(q, r)
<1>1. /\ p.source = q.source /\ p.target = q.target
      /\ p.source_op = q.source_op /\ p.target_op = q.target_op
  BY DEF PathIdentifier
<1>2. \A c, n, op : have_boundary_of_type_with(p, c, n, op)
                      <=> have_boundary_of_type_with(q, c, n, op)
  BY DEF have_boundary_of_type_with
<1> QED
  BY <1>1, <1>2 DEF IsRoute

(***************************************************************************)
(* What the cached router answers is a route as long as its cells are      *)
(* clear and the patches were not rotated in between (router.hpp).         *)
(***************************************************************************)
THEOREM CachedRoutesStayRoutes == SearchSpec => []CachedIsRouteIfClear
<1>1. SearchInv => CachedIsRouteIfClear
  <2> SUFFICES ASSUME SearchInv, control = "answered", answer # NoRoute,
                      \A k \in DOMAIN answer : answer[k] \in query.open,
                      \A k \in DOMAIN asked :
                        PathIdentifier(asked[k]) = PathIdentifier(query)
                          => asked[k].rotated = query.rotated,
                      query.walls = {}
               PROVE  IsRoute(query, answer)
    BY DEF CachedIsRouteIfClear
  <2>1. PICK k \in DOMAIN asked : /\ PathIdentifier(asked[k]) = PathIdentifier(query)
                                  /\ answer \in Routes(asked[k])
    BY DEF SearchInv, AnswerWasRoute, OnceARoute
  <2>2. IsRoute(asked[k], answer) /\ asked[k].rotated = query.rotated
    BY <2>1 DEF Routes
  <2> QED
    BY <2>1, <2>2, RouteStaysARoute
<1> QED
  BY <1>1, SearchInvariant, PTL

(***************************************************************************)
(* Whatever is asked for on whichever lattice, what the search finds is    *)
(* right, and so is what the cached router finds again (router.cpp).       *)
(***************************************************************************)
THEOREM SearchAnswersRight == SearchSpec => []RightAnswers
<1>1. AnswersShortest /\ CachedIsRouteIfClear => RightAnswers
  BY DEF RightAnswers
<1> QED
  BY <1>1, SearchAnswersShortest, CachedRoutesStayRoutes, PTL

=============================================================================
