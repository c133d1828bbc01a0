---------------------------- MODULE VisionProofs ----------------------------
(***************************************************************************)
(* Proofs about the camera's display loop, the face detector's pipeline    *)
(* and the region layer, for networks of any number of layers, a fifo of   *)
(* any depth that takes the first of them, any number of boxes, any        *)
(* probabilities and any geometry.  The operators of the region layer are  *)
(* right for any number of classes; that the program evaluates what they   *)
(* say takes as few as the array output has room for (OutputFits).         *)
(***************************************************************************)
EXTENDS VisionInv, FiniteSetTheorems, SequenceTheorems, WellFoundedInduction, TLAPS

-----------------------------------------------------------------------------
(* A nonempty set of natural numbers has a least element. *)
LEMMA LeastNatural ==
  ASSUME NEW T, T \subseteq Nat, T # {}
  PROVE  \E x \in T : \A y \in T : x <= y
  <1>1. PICK R : R = OpToRel(<, Nat)
    OBVIOUS
  <1>2. IsWellFoundedOn(R, Nat)
    BY <1>1, NatLessThanWellFounded
  <1>3. PICK x \in T : \A y \in T : ~ (<<y, x>> \in R)
    BY <1>2, WFMin
  <1>4. ASSUME NEW y \in T PROVE x <= y
    <2>1. ~ (<<y, x>> \in OpToRel(<, Nat))
      BY <1>1, <1>3
    <2>2. ~ (y < x)
      BY <2>1 DEF OpToRel
    <2> QED BY <2>2
  <1> QED BY <1>4

(* A set of natural numbers that holds 0 and, with a number below n, the   *)
(* next one, holds all numbers up to n.                                    *)
LEMMA InductionUpTo ==
  ASSUME NEW T, NEW n \in Nat, 0 \in T,
         \A i \in 0 .. n - 1 : i \in T => i + 1 \in T
  PROVE  \A i \in 0 .. n : i \in T
  <1> SUFFICES ASSUME NEW x \in 0 .. n, x \notin T PROVE FALSE
    OBVIOUS
  <1> DEFINE Bad == {y \in 0 .. n : y \notin T}
  <1>1. Bad \subseteq Nat /\ Bad # {}
    OBVIOUS
  <1>2. PICK b \in Bad : \A y \in Bad : b <= y
    BY <1>1, LeastNatural
  <1>3. b \in 0 .. n /\ b # 0
    OBVIOUS
  <1>4. b - 1 \in 0 .. n - 1 /\ ~ (b <= b - 1) /\ b - 1 \in 0 .. n
    BY <1>3
  <1>5. b - 1 \in T
    BY <1>2, <1>4
  <1>6. b - 1 + 1 \in T
    BY <1>4, <1>5
  <1> QED BY <1>3, <1>6

(* f holds the values of a loop of n rounds, after each round, that starts *)
(* with v and has the body G.                                              *)
Iterates(f, v, n, G) ==
  f[0] = v /\ \A i \in 1 .. n : f[i] = G[<<i, f[i - 1]>>]

(* A loop of n rounds computes something in each.                          *)
LEMMA IteratedFunction ==
  ASSUME NEW V, NEW v \in V, NEW n \in Nat, NEW G \in [(1 .. n) \X V -> V]
  PROVE  \E f \in [0 .. n -> V] : Iterates(f, v, n, G)
  <1> DEFINE Computes(f, m) ==
         f[0] = v /\ \A i \in 1 .. m : f[i] = G[<<i, f[i - 1]>>]
  <1> DEFINE T == {m \in 0 .. n : \E f \in [0 .. m -> V] : Computes(f, m)}
  <1>1. 0 \in T
    <2>1. PICK f : f = [i \in 0 .. 0 |-> v]
      OBVIOUS
    <2>2. f \in [0 .. 0 -> V] /\ Computes(f, 0)
      BY <2>1
    <2> QED BY <2>2
  <1>2. ASSUME NEW m \in 0 .. n - 1, m \in T PROVE m + 1 \in T
    <2>1. PICK f \in [0 .. m -> V] : Computes(f, m)
      BY <1>2
    <2>2. PICK w \in V : w = G[<<m + 1, f[m]>>]
      <3>1. m + 1 \in 1 .. n /\ m \in 0 .. m
        OBVIOUS
      <3> QED BY <3>1
    <2>3. PICK g : g = [i \in 0 .. m + 1 |-> IF i = m + 1 THEN w ELSE f[i]]
      OBVIOUS
    <2>4. g \in [0 .. m + 1 -> V]
      BY <2>3
    <2>5. \A i \in 0 .. m : g[i] = f[i]
      BY <2>3
    <2>6. g[0] = v
      BY <2>1, <2>5
    <2>7. ASSUME NEW i \in 1 .. m + 1 PROVE g[i] = G[<<i, g[i - 1]>>]
      <3>1. CASE i = m + 1
        <4>1. g[i] = w /\ g[i - 1] = f[m]
          BY <2>3, <2>5, <3>1
        <4> QED BY <2>2, <3>1, <4>1
      <3>2. CASE i # m + 1
        <4>1. i \in 1 .. m /\ i - 1 \in 0 .. m /\ i \in 0 .. m
          BY <3>2
        <4>2. f[i] = G[<<i, f[i - 1]>>]
          BY <2>1, <4>1
        <4> QED BY <2>5, <4>1, <4>2
      <3> QED BY <3>1, <3>2
    <2>8. m + 1 \in 0 .. n
      OBVIOUS
    <2> QED BY <2>4, <2>6, <2>7, <2>8
  <1>3. n \in T
    <2> HIDE DEF T
    <2>1. \A i \in 0 .. n : i \in T
      BY <1>1, <1>2, InductionUpTo
    <2> QED BY <2>1
  <1> QED BY <1>3 DEF Iterates

-----------------------------------------------------------------------------
(* The region layer. *)

(* The body of a round of do_nms_sort's loop maps probabilities to         *)
(* probabilities.                                                          *)
LEMMA SuppressTyped ==
  ASSUME NEW s, NEW p \in [Boxes -> Nat], NEW i
  PROVE  Suppress(s, p, i) \in [Boxes -> Nat]
  BY DEF Suppress

(* The probabilities after each round of do_nms_sort, defined by recursion. *)
LEMMA RoundsProperties ==
  ASSUME NEW s, NEW p \in [Boxes -> Nat]
  PROVE  /\ Rounds(s, p)[0] = p
         /\ \A i \in 1 .. NBoxes : Rounds(s, p)[i] = Suppress(s, Rounds(s, p)[i - 1], i)
  <1> USE RegionAssumption
  <1> DEFINE Body(f) == [i \in 0 .. NBoxes |-> IF i = 0 THEN p ELSE Suppress(s, f[i - 1], i)]
  <1>1. PICK G : G = [x \in (1 .. NBoxes) \X [Boxes -> Nat] |-> Suppress(s, x[2], x[1])]
    OBVIOUS
  <1>2. G \in [(1 .. NBoxes) \X [Boxes -> Nat] -> [Boxes -> Nat]]
    BY <1>1, SuppressTyped
  <1>3. PICK f \in [0 .. NBoxes -> [Boxes -> Nat]] :
            f[0] = p /\ \A i \in 1 .. NBoxes : f[i] = G[<<i, f[i - 1]>>]
    <2>1. PICK V : V = [Boxes -> Nat]
      OBVIOUS
    <2>2. p \in V /\ NBoxes \in Nat /\ G \in [(1 .. NBoxes) \X V -> V]
      BY <1>2, <2>1
    <2>3. \E f \in [0 .. NBoxes -> V] : Iterates(f, p, NBoxes, G)
      BY <2>2, IteratedFunction
    <2> QED BY <2>1, <2>3, Zenon DEF Iterates
  <1>4. ASSUME NEW i \in 1 .. NBoxes PROVE f[i] = Suppress(s, f[i - 1], i)
    <2>1. i - 1 \in 0 .. NBoxes
      OBVIOUS
    <2>2. <<i, f[i - 1]>> \in (1 .. NBoxes) \X [Boxes -> Nat]
      BY <2>1
    <2>3. G[<<i, f[i - 1]>>] = Suppress(s, f[i - 1], i)
      BY <1>1, <2>2
    <2> QED BY <1>3, <2>3
  <1>5. f = Body(f)
    <2>1. ASSUME NEW i \in 0 .. NBoxes PROVE f[i] = Body(f)[i]
      <3>1. Body(f)[i] = IF i = 0 THEN p ELSE Suppress(s, f[i - 1], i)
        OBVIOUS
      <3>2. CASE i = 0
        BY <1>3, <3>1, <3>2
      <3>3. CASE i # 0
        <4>1. i \in 1 .. NBoxes
          BY <3>3
        <4>2. f[i] = Suppress(s, f[i - 1], i)
          BY <1>4, <4>1
        <4> QED BY <3>1, <3>3, <4>2
      <3> QED BY <3>2, <3>3
    <2> QED BY <2>1
  <1>6. Rounds(s, p) = CHOOSE g : g = Body(g)
    BY DEF Rounds
  <1>7. Rounds(s, p) = Body(Rounds(s, p))
    <2> HIDE DEF Body
    <2> QED BY <1>5, <1>6
  <1>8. PICK q : q = Rounds(s, p)
    OBVIOUS
  <1>9. q = Body(q)
    BY <1>7, <1>8
  <1>10. q[0] = p /\ \A i \in 1 .. NBoxes : q[i] = Suppress(s, q[i - 1], i)
    <2>1. PICK r : r = Body(q)
      OBVIOUS
    <2>2. r[0] = p /\ \A i \in 1 .. NBoxes : r[i] = Suppress(s, q[i - 1], i)
      BY <2>1
    <2> QED BY <1>9, <2>1, <2>2, Zenon
  <1> QED BY <1>8, <1>10

-----------------------------------------------------------------------------
(* What qsort leaves: every box once, by falling probability.              *)
IsOrder(s, p) ==
  /\ s \in [Boxes -> Boxes]
  /\ \A j, k \in Boxes : s[j] = s[k] => j = k
  /\ \A b \in Boxes : \E k \in Boxes : s[k] = b
  /\ \A j, k \in Boxes : j <= k => p[s[j]] >= p[s[k]]

LEMMA SortedProperties ==
  ASSUME NEW p \in [Boxes -> Nat], NEW s \in Sorted(p)
  PROVE  IsOrder(s, p)
  <1> USE RegionAssumption
  <1>1. IsFiniteSet(Boxes) /\ Cardinality(Boxes) = NBoxes
    <2>1. 1 \in Int /\ NBoxes \in Int /\ ~ (1 > NBoxes) /\ NBoxes - 1 + 1 = NBoxes
      OBVIOUS
    <2>2. /\ IsFiniteSet(1 .. NBoxes)
          /\ Cardinality(1 .. NBoxes) = IF 1 > NBoxes THEN 0 ELSE NBoxes - 1 + 1
      BY <2>1, FS_Interval
    <2> QED BY <2>1, <2>2 DEF Boxes
  <1>2. s \in SetToSeqs(Boxes) /\ \A i \in 1 .. NBoxes - 1 : p[s[i]] >= p[s[i + 1]]
    BY DEF Sorted
  <1>3. s \in {f \in [Boxes -> Boxes] : \A i, j \in Boxes : i # j => f[i] # f[j]}
    <2>1. 1 .. Cardinality(Boxes) = Boxes
      BY <1>1 DEF Boxes
    <2> QED BY <1>2, <2>1, Zenon DEF SetToSeqs
  <1>4. s \in [Boxes -> Boxes] /\ \A j, k \in Boxes : s[j] = s[k] => j = k
    BY <1>3, Zenon
  <1>5. s \in Injection(Boxes, Boxes)
    BY <1>4 DEF Injection, IsInjective
  <1>6. s \in Surjection(Boxes, Boxes)
    BY <1>1, <1>5, FS_Injection
  <1>7. \A b \in Boxes : \E k \in Boxes : s[k] = b
    BY <1>6 DEF Surjection
  <1>8. ASSUME NEW j \in Boxes, NEW k \in Boxes, j <= k PROVE p[s[j]] >= p[s[k]]
    <2> DEFINE T == {m \in 0 .. NBoxes - j : p[s[j]] >= p[s[j + m]]}
    <2>1. p[s[j]] \in Nat /\ j \in 1 .. NBoxes /\ k \in 1 .. NBoxes /\ NBoxes - j \in Nat
      BY <1>4 DEF Boxes
    <2>2. 0 \in T
      BY <2>1
    <2>3. ASSUME NEW m \in 0 .. NBoxes - j - 1, m \in T PROVE m + 1 \in T
      <3>1. j + m \in 1 .. NBoxes - 1 /\ j + (m + 1) = j + m + 1
        BY <2>1
      <3>2. j + m \in Boxes /\ j + m + 1 \in Boxes
        <4>1. \A n \in 1 .. NBoxes - 1 : n \in Boxes /\ n + 1 \in Boxes
          BY DEF Boxes
        <4> QED BY <3>1, <4>1
      <3>3. p[s[j + m]] >= p[s[j + m + 1]]
        BY <1>2, <3>1
      <3>4. p[s[j + m]] \in Nat /\ p[s[j + m + 1]] \in Nat
        BY <1>4, <3>2
      <3>5. p[s[j]] >= p[s[j + m]]
        BY <2>3
      <3>6. p[s[j]] >= p[s[j + m + 1]]
        BY <2>1, <3>3, <3>4, <3>5
      <3>7. p[s[j]] >= p[s[j + (m + 1)]]
        BY <3>1, <3>6
      <3>8. m + 1 \in 0 .. NBoxes - j
        BY <2>1
      <3> QED BY <3>7, <3>8
    <2>4. k - j \in 0 .. NBoxes - j /\ j + (k - j) = k
      BY <1>8, <2>1
    <2>5. k - j \in T
      <3> HIDE DEF T
      <3> QED BY <2>1, <2>2, <2>3, <2>4, InductionUpTo
    <2>6. p[s[j]] >= p[s[j + (k - j)]]
      BY <2>5
    <2> QED BY <2>4, <2>6
  <1> QED BY <1>4, <1>7, <1>8 DEF IsOrder

(* What a round does to the box in place k of the order. *)
LEMMA SuppressAt ==
  ASSUME NEW p, NEW s, IsOrder(s, p), NEW q \in [Boxes -> Nat],
         NEW i \in Boxes, NEW k \in Boxes
  PROVE  /\ q[s[i]] # 0 /\ k > i /\ <<s[i], s[k]>> \in Overlap => Suppress(s, q, i)[s[k]] = 0
         /\ ~ (q[s[i]] # 0 /\ k > i /\ <<s[i], s[k]>> \in Overlap)
               => Suppress(s, q, i)[s[k]] = q[s[k]]
  <1> USE RegionAssumption
  <1>1. s[k] \in Boxes /\ s[i] \in Boxes
    BY DEF IsOrder
  <1>2. (\E j \in i + 1 .. NBoxes : s[j] = s[k] /\ <<s[i], s[k]>> \in Overlap)
          <=> k > i /\ <<s[i], s[k]>> \in Overlap
    <2>1. ASSUME NEW j \in i + 1 .. NBoxes, s[j] = s[k] PROVE k > i
      <3>1. j \in Boxes
        BY DEF Boxes
      <3>2. j = k
        BY <2>1, <3>1 DEF IsOrder
      <3> QED BY <3>2 DEF Boxes
    <2>2. k > i => k \in i + 1 .. NBoxes
      BY DEF Boxes
    <2> QED BY <2>1, <2>2
  <1>3. CASE q[s[i]] = 0
    BY <1>3 DEF Suppress
  <1>4. CASE q[s[i]] # 0
    <2>1. Suppress(s, q, i)[s[k]] =
            IF \E j \in i + 1 .. NBoxes : s[j] = s[k] /\ <<s[i], s[k]>> \in Overlap
            THEN 0 ELSE q[s[k]]
      BY <1>1, <1>4 DEF Suppress
    <2> QED BY <1>2, <1>4, <2>1
  <1> QED BY <1>3, <1>4

(* What holds of the probabilities q after i rounds over the order s: a    *)
(* box has its probability or 0; none of the first i that is left overlaps *)
(* a later one that is left; and one that is gone overlaps one of the      *)
(* first i, before it, that is left.                                       *)
RoundInv(s, p, q, i) ==
  /\ q \in [Boxes -> Nat]
  /\ \A b \in Boxes : q[b] = 0 \/ q[b] = p[b]
  /\ \A j, k \in Boxes :
        j < k /\ j <= i /\ q[s[j]] # 0 /\ q[s[k]] # 0 => <<s[j], s[k]>> \notin Overlap
  /\ \A k \in Boxes : p[s[k]] # 0 /\ q[s[k]] = 0 =>
        \E j \in Boxes : j < k /\ j <= i /\ q[s[j]] # 0 /\ <<s[j], s[k]>> \in Overlap

LEMMA RoundStep ==
  ASSUME NEW p \in [Boxes -> Nat], NEW s, IsOrder(s, p), NEW i \in Boxes, NEW q,
         RoundInv(s, p, q, i - 1)
  PROVE  RoundInv(s, p, Suppress(s, q, i), i)
  <1> USE RegionAssumption
  <1>1. PICK r : r = Suppress(s, q, i)
    OBVIOUS
  <1>2. q \in [Boxes -> Nat] /\ \A b \in Boxes : q[b] = 0 \/ q[b] = p[b]
    BY DEF RoundInv
  <1>3. r \in [Boxes -> Nat]
    BY <1>1, <1>2, SuppressTyped
  <1>4. \A b \in Boxes : r[b] = 0 \/ r[b] = q[b]
    BY <1>1, <1>2 DEF Suppress
  <1>5. ASSUME NEW k \in Boxes
        PROVE  /\ q[s[i]] # 0 /\ k > i /\ <<s[i], s[k]>> \in Overlap => r[s[k]] = 0
               /\ ~ (q[s[i]] # 0 /\ k > i /\ <<s[i], s[k]>> \in Overlap) => r[s[k]] = q[s[k]]
    BY <1>1, <1>2, SuppressAt
  <1>6. \A k \in Boxes : s[k] \in Boxes /\ k \in Int
    <2>1. \A k \in Boxes : s[k] \in Boxes
      BY DEF IsOrder
    <2>2. \A k \in Boxes : k \in Int
      BY DEF Boxes
    <2> QED BY <2>1, <2>2
  <1>7. ASSUME NEW j \in Boxes, NEW k \in Boxes, j < k, j <= i, r[s[j]] # 0, r[s[k]] # 0
        PROVE  <<s[j], s[k]>> \notin Overlap
    <2>1. q[s[j]] # 0 /\ q[s[k]] # 0
      BY <1>4, <1>6, <1>7
    <2>2. CASE j = i
      BY <1>5, <1>7, <2>1, <2>2
    <2>3. CASE j # i
      <3>1. j <= i - 1
        BY <1>6, <1>7, <2>3
      <3> QED BY <1>7, <2>1, <3>1 DEF RoundInv
    <2> QED BY <2>2, <2>3
  <1>8. ASSUME NEW k \in Boxes, p[s[k]] # 0, r[s[k]] = 0
        PROVE  \E j \in Boxes : j < k /\ j <= i /\ r[s[j]] # 0 /\ <<s[j], s[k]>> \in Overlap
    <2>1. CASE q[s[k]] = 0
      <3>1. PICK j \in Boxes : j < k /\ j <= i - 1 /\ q[s[j]] # 0 /\ <<s[j], s[k]>> \in Overlap
        BY <1>8, <2>1 DEF RoundInv
      <3>2. j <= i /\ ~ (j > i)
        BY <1>6, <3>1
      <3>3. r[s[j]] = q[s[j]]
        BY <1>5, <3>2
      <3> QED BY <3>1, <3>2, <3>3
    <2>2. CASE q[s[k]] # 0
      <3>1. q[s[i]] # 0 /\ k > i /\ <<s[i], s[k]>> \in Overlap
        BY <1>5, <1>8, <2>2
      <3>2. i < k /\ i <= i /\ ~ (i > i)
        BY <1>6, <3>1
      <3>3. r[s[i]] = q[s[i]]
        BY <1>5, <3>2
      <3> QED BY <3>1, <3>2, <3>3
    <2> QED BY <2>1, <2>2
  <1>9. \A b \in Boxes : r[b] = 0 \/ r[b] = p[b]
    BY <1>2, <1>4
  <1>10. RoundInv(s, p, r, i)
    BY <1>3, <1>7, <1>8, <1>9 DEF RoundInv
  <1> QED BY <1>1, <1>10

(* Of the boxes with a probability in p those with one in r do not overlap, *)
(* and each that is gone overlaps one as probable that is left.            *)
Survive(p, r) ==
  /\ r \in [Boxes -> Nat]
  /\ \A b \in Boxes : r[b] = 0 \/ r[b] = p[b]
  /\ \A a, b \in Boxes : a # b /\ r[a] # 0 /\ r[b] # 0 => <<a, b>> \notin Overlap
  /\ \A b \in Boxes : p[b] # 0 /\ r[b] = 0 =>
        \E a \in Boxes : r[a] # 0 /\ <<a, b>> \in Overlap /\ p[a] >= p[b]

(* What do_nms_sort leaves of one class survives in this sense. *)
LEMMA NmsKeeps ==
  ASSUME NEW p \in [Boxes -> Nat], NEW r \in NmsClass(p)
  PROVE  Survive(p, r)
  <1> USE RegionAssumption
  <1>1. PICK s \in Sorted(p) : r = Rounds(s, p)[NBoxes]
    BY DEF NmsClass
  <1>2. IsOrder(s, p)
    BY SortedProperties
  <1>3. PICK q : q = Rounds(s, p)
    OBVIOUS
  <1>4. q[0] = p /\ \A i \in 1 .. NBoxes : q[i] = Suppress(s, q[i - 1], i)
    BY <1>3, RoundsProperties
  <1>5. \A k \in Boxes : s[k] \in Boxes /\ k \in Int /\ k >= 1 /\ k <= NBoxes
    <2>1. \A k \in Boxes : s[k] \in Boxes
      BY <1>2 DEF IsOrder
    <2>2. \A k \in Boxes : k \in Int /\ k >= 1 /\ k <= NBoxes
      BY DEF Boxes
    <2> QED BY <2>1, <2>2
  <1> DEFINE T == {i \in 0 .. NBoxes : RoundInv(s, p, q[i], i)}
  <1>6. 0 \in T
    <2>1. RoundInv(s, p, p, 0)
      BY <1>5 DEF RoundInv
    <2> QED BY <1>4, <2>1
  <1>7. ASSUME NEW i \in 0 .. NBoxes - 1, i \in T PROVE i + 1 \in T
    <2>1. i + 1 \in Boxes /\ i + 1 - 1 = i /\ i + 1 \in 1 .. NBoxes /\ i + 1 \in 0 .. NBoxes
      BY DEF Boxes
    <2>2. RoundInv(s, p, q[i], i + 1 - 1)
      BY <1>7, <2>1
    <2>3. RoundInv(s, p, Suppress(s, q[i], i + 1), i + 1)
      BY <1>2, <2>1, <2>2, RoundStep
    <2>4. q[i + 1] = Suppress(s, q[i], i + 1)
      BY <1>4, <2>1
    <2> QED BY <2>1, <2>3, <2>4
  <1>8. NBoxes \in T
    <2> HIDE DEF T
    <2>1. \A i \in 0 .. NBoxes : i \in T
      BY <1>6, <1>7, InductionUpTo
    <2> QED BY <2>1
  <1>9. RoundInv(s, p, r, NBoxes)
    BY <1>1, <1>3, <1>8
  <1>10. ASSUME NEW a \in Boxes, NEW b \in Boxes, a # b, r[a] # 0, r[b] # 0
         PROVE  <<a, b>> \notin Overlap
    <2>1. PICK j \in Boxes, k \in Boxes : s[j] = a /\ s[k] = b
      BY <1>2 DEF IsOrder
    <2>2. j < k \/ k < j
      BY <1>5, <1>10, <2>1
    <2>3. CASE j < k
      BY <1>5, <1>9, <1>10, <2>1, <2>3 DEF RoundInv
    <2>4. CASE k < j
      <3>1. <<b, a>> \notin Overlap
        BY <1>5, <1>9, <1>10, <2>1, <2>4 DEF RoundInv
      <3>2. ASSUME NEW o \in Overlap, o = <<a, b>> PROVE <<b, a>> \in Overlap
        BY <3>2
      <3> QED BY <3>1, <3>2
    <2> QED BY <2>2, <2>3, <2>4
  <1>11. ASSUME NEW b \in Boxes, p[b] # 0, r[b] = 0
         PROVE  \E a \in Boxes : r[a] # 0 /\ <<a, b>> \in Overlap /\ p[a] >= p[b]
    <2>1. PICK k \in Boxes : s[k] = b
      BY <1>2 DEF IsOrder
    <2>2. PICK j \in Boxes : j < k /\ r[s[j]] # 0 /\ <<s[j], s[k]>> \in Overlap
      BY <1>9, <1>11, <2>1 DEF RoundInv
    <2>3. p[s[j]] >= p[s[k]]
      BY <1>2, <1>5, <2>2 DEF IsOrder
    <2> QED BY <1>5, <2>1, <2>2, <2>3
  <1> QED BY <1>9, <1>10, <1>11 DEF RoundInv, Survive

-----------------------------------------------------------------------------
(* max_index: there is a first of the most probable classes. *)
LEMMA MaxIndexProperties ==
  ASSUME NEW a \in [Classes -> Nat]
  PROVE  /\ max_index(a) \in Classes
         /\ \A j \in Classes : a[max_index(a)] >= a[j]
         /\ \A j \in 1 .. max_index(a) - 1 : a[max_index(a)] > a[j]
  <1> USE RegionAssumption
  <1> DEFINE IsFirst(k, m) == \A j \in 1 .. m : a[k] >= a[j] /\ (j < k => a[k] > a[j])
             T == {m \in 0 .. NClasses - 1 : \E k \in 1 .. m + 1 : IsFirst(k, m + 1)}
  <1>1. \A k \in Classes : a[k] \in Nat
    OBVIOUS
  <1>2. 0 \in T
    <2>1. 1 \in Classes /\ 1 \in 1 .. 0 + 1 /\ 0 \in 0 .. NClasses - 1
      BY DEF Classes
    <2>2. ASSUME NEW j \in 1 .. 0 + 1 PROVE a[1] >= a[j] /\ ~ (j < 1)
      <3>1. j = 1
        OBVIOUS
      <3> QED BY <1>1, <2>1, <3>1
    <2> QED BY <2>1, <2>2
  <1>3. ASSUME NEW m \in 0 .. NClasses - 1 - 1, m \in T PROVE m + 1 \in T
    <2>1. PICK k \in 1 .. m + 1 : IsFirst(k, m + 1)
      BY <1>3
    <2>2. PICK n : n = m + 1 + 1
      OBVIOUS
    <2>3. n \in Classes /\ k \in Classes /\ k < n /\ n = m + 1 + 1 /\ m + 1 \in 0 .. NClasses - 1
      BY <2>2 DEF Classes
    <2>4. \A j \in 1 .. n : j # n => j \in 1 .. m + 1 /\ j \in Classes
      BY <2>3 DEF Classes
    <2>5. a[n] \in Nat /\ a[k] \in Nat /\ k \in 1 .. n /\ n \in 1 .. n
      BY <1>1, <2>3 DEF Classes
    <2>6. CASE a[n] > a[k]
      <3>1. ASSUME NEW j \in 1 .. n PROVE a[n] >= a[j] /\ (j < n => a[n] > a[j])
        <4>1. CASE j = n
          BY <2>3, <2>5, <4>1 DEF Classes
        <4>2. CASE j # n
          <5>1. a[k] >= a[j] /\ a[j] \in Nat
            BY <1>1, <2>1, <2>4, <4>2
          <5> QED BY <2>5, <2>6, <5>1
        <4> QED BY <4>1, <4>2
      <3>2. IsFirst(n, n)
        BY <3>1
      <3> QED BY <2>2, <2>3, <2>5, <3>2
    <2>7. CASE ~ (a[n] > a[k])
      <3>1. ASSUME NEW j \in 1 .. n PROVE a[k] >= a[j] /\ (j < k => a[k] > a[j])
        <4>1. CASE j = n
          BY <2>3, <2>5, <2>7, <4>1 DEF Classes
        <4>2. CASE j # n
          BY <2>1, <2>4, <4>2
        <4> QED BY <4>1, <4>2
      <3>2. IsFirst(k, n)
        BY <3>1
      <3> QED BY <2>2, <2>3, <2>5, <3>2
    <2> QED BY <2>6, <2>7
  <1>4. NClasses - 1 \in T
    <2> HIDE DEF T
    <2>1. NClasses - 1 \in Nat
      OBVIOUS
    <2>2. \A i \in 0 .. NClasses - 1 : i \in T
      BY <1>2, <1>3, <2>1, InductionUpTo
    <2> QED BY <2>1, <2>2
  <1>5. PICK k \in Classes : IsFirst(k, NClasses)
    <2>1. NClasses - 1 + 1 = NClasses
      OBVIOUS
    <2>2. \E k \in 1 .. NClasses - 1 + 1 : IsFirst(k, NClasses - 1 + 1)
      BY <1>4
    <2> QED BY <2>1, <2>2 DEF Classes
  <1>6. /\ \A j \in Classes : a[k] >= a[j]
        /\ \A j \in 1 .. k - 1 : a[k] > a[j]
    <2>1. \A j \in 1 .. k - 1 : j \in 1 .. NClasses /\ j < k
      BY DEF Classes
    <2> QED BY <1>5, <2>1 DEF Classes
  <1> DEFINE P(n) == /\ \A j \in Classes : a[n] >= a[j]
                     /\ \A j \in 1 .. n - 1 : a[n] > a[j]
  <1>7. max_index(a) = CHOOSE n \in Classes : P(n)
    BY DEF max_index
  <1>8. P(k)
    BY <1>6
  <1>9. max_index(a) \in Classes /\ P(max_index(a))
    <2> HIDE DEF P
    <2> QED BY <1>7, <1>8
  <1> QED BY <1>9

-----------------------------------------------------------------------------
Objects == [box : Boxes, class : Classes]

(* region_layer_detect_object reports box b. *)
Reported(p, b) == p[b][max_index(p[b])] > Threshold

(* One round of its loop. *)
LookAt(p, b, o) ==
  IF Reported(p, b) /\ Len(o) < MaxObjects
  THEN Append(o, [box |-> b, class |-> max_index(p[b])])
  ELSE o

LEMMA LookAtTyped ==
  ASSUME NEW p \in [Boxes -> [Classes -> Nat]], NEW b \in Boxes, NEW o \in Seq(Objects)
  PROVE  LookAt(p, b, o) \in Seq(Objects)
  <1>1. p[b] \in [Classes -> Nat]
    OBVIOUS
  <1>2. max_index(p[b]) \in Classes
    BY <1>1, MaxIndexProperties
  <1>3. [box |-> b, class |-> max_index(p[b])] \in Objects
    BY <1>2 DEF Objects
  <1>4. Append(o, [box |-> b, class |-> max_index(p[b])]) \in Seq(Objects)
    BY <1>3, AppendProperties
  <1> QED BY <1>4 DEF LookAt

(* The objects after each round of region_layer_detect_object's loop,      *)
(* defined by recursion.                                                   *)
LEMMA ObjectsUpToProperties ==
  ASSUME NEW p \in [Boxes -> [Classes -> Nat]]
  PROVE  /\ ObjectsUpTo(p)[0] = <<>>
         /\ \A b \in 1 .. NBoxes : ObjectsUpTo(p)[b] = LookAt(p, b, ObjectsUpTo(p)[b - 1])
  <1> USE RegionAssumption
  <1> DEFINE Body(f) == [b \in 0 .. NBoxes |-> IF b = 0 THEN <<>> ELSE LookAt(p, b, f[b - 1])]
  <1>1. PICK V : V = Seq(Objects)
    OBVIOUS
  <1>2. PICK G : G = [x \in (1 .. NBoxes) \X V |-> LookAt(p, x[1], x[2])]
    OBVIOUS
  <1>3. G \in [(1 .. NBoxes) \X V -> V]
    <2>1. \A b \in 1 .. NBoxes : \A o \in V : LookAt(p, b, o) \in V
      BY <1>1, LookAtTyped DEF Boxes
    <2> QED BY <1>2, <2>1
  <1>4. PICK f \in [0 .. NBoxes -> V] :
            f[0] = <<>> /\ \A i \in 1 .. NBoxes : f[i] = G[<<i, f[i - 1]>>]
    <2>1. <<>> \in V /\ NBoxes \in Nat
      BY <1>1
    <2>2. \E f \in [0 .. NBoxes -> V] : Iterates(f, <<>>, NBoxes, G)
      BY <1>3, <2>1, IteratedFunction
    <2> QED BY <2>2, Zenon DEF Iterates
  <1>5. ASSUME NEW i \in 1 .. NBoxes PROVE f[i] = LookAt(p, i, f[i - 1])
    <2>1. i - 1 \in 0 .. NBoxes
      OBVIOUS
    <2>2. <<i, f[i - 1]>> \in (1 .. NBoxes) \X V
      BY <2>1
    <2>3. G[<<i, f[i - 1]>>] = LookAt(p, i, f[i - 1])
      BY <1>2, <2>2
    <2> QED BY <1>4, <2>3
  <1>6. f = Body(f)
    <2>1. ASSUME NEW i \in 0 .. NBoxes PROVE f[i] = Body(f)[i]
      BY <1>4, <1>5
    <2> QED BY <2>1
  <1>7. ObjectsUpTo(p) = CHOOSE g : g = Body(g)
    BY Zenon DEF ObjectsUpTo, LookAt, Reported
  <1>8. ObjectsUpTo(p) = Body(ObjectsUpTo(p))
    <2> HIDE DEF Body
    <2> QED BY <1>6, <1>7
  <1>9. PICK q : q = ObjectsUpTo(p)
    OBVIOUS
  <1>10. q = Body(q)
    BY <1>8, <1>9
  <1>11. q[0] = <<>> /\ \A i \in 1 .. NBoxes : q[i] = LookAt(p, i, q[i - 1])
    <2>1. PICK r : r = Body(q)
      OBVIOUS
    <2>2. r[0] = <<>> /\ \A i \in 1 .. NBoxes : r[i] = LookAt(p, i, q[i - 1])
      BY <2>1
    <2> QED BY <1>10, <2>1, <2>2, Zenon
  <1> QED BY <1>9, <1>11

ReportedUpTo(p, b) == {a \in 1 .. b : Reported(p, a)}

(* What holds of the objects o after the first b boxes: they are the first *)
(* of those reported, in order and as many as there is room for, each with *)
(* its most probable class.                                                *)
DetectInv(p, b, o) ==
  /\ o \in Seq(Objects)
  /\ Len(o) = IF Cardinality(ReportedUpTo(p, b)) < MaxObjects
              THEN Cardinality(ReportedUpTo(p, b)) ELSE MaxObjects
  /\ \A i \in 1 .. Len(o) :
        /\ o[i].box \in ReportedUpTo(p, b)
        /\ Cardinality({a \in ReportedUpTo(p, b) : a < o[i].box}) = i - 1
        /\ o[i].class = max_index(p[o[i].box])

LEMMA DetectStep ==
  ASSUME NEW p \in [Boxes -> [Classes -> Nat]], NEW b \in 0 .. NBoxes - 1, NEW o,
         DetectInv(p, b, o)
  PROVE  DetectInv(p, b + 1, LookAt(p, b + 1, o))
  <1> USE RegionAssumption
  <1>1. PICK c : c = b + 1
    OBVIOUS
  <1>2. c \in Boxes /\ c \in Int /\ b \in Int /\ c > b /\ c \notin 1 .. b
    BY <1>1 DEF Boxes
  <1>3. \A a : a \in 1 .. c <=> a \in 1 .. b \/ a = c
    BY <1>1
  <1>4. PICK F, H : F = ReportedUpTo(p, b) /\ H = ReportedUpTo(p, c)
    OBVIOUS
  <1>5. \A a \in F : a \in Int /\ a < c /\ a \in H
    BY <1>1, <1>3, <1>4 DEF ReportedUpTo
  <1>6. IsFiniteSet(F) /\ Cardinality(F) \in Nat
    <2>1. IsFiniteSet(1 .. b)
      <3>1. 1 \in Int /\ b \in Int
        BY <1>2
      <3> HIDE RegionAssumption
      <3> QED BY <3>1, FS_Interval, SMT
    <2>2. F \in SUBSET (1 .. b)
      BY <1>4 DEF ReportedUpTo
    <2>3. IsFiniteSet(F)
      BY <2>1, <2>2, FS_Subset
    <2> QED BY <2>3, FS_CardinalityType
  <1>7. /\ o \in Seq(Objects)
        /\ Len(o) = IF Cardinality(F) < MaxObjects THEN Cardinality(F) ELSE MaxObjects
        /\ \A i \in 1 .. Len(o) :
              /\ o[i].box \in F
              /\ Cardinality({a \in F : a < o[i].box}) = i - 1
              /\ o[i].class = max_index(p[o[i].box])
    BY <1>4, Zenon DEF DetectInv
  <1>8. ASSUME NEW x \in F PROVE {a \in H : a < x} = {a \in F : a < x}
    <2>1. c \notin {a \in H : a < x}
      BY <1>2, <1>5, <1>8
    <2>2. \A a \in H : a = c \/ a \in F
      BY <1>3, <1>4 DEF ReportedUpTo
    <2> QED BY <1>5, <2>1, <2>2
  <1>9. \A i \in 1 .. Len(o) :
           /\ o[i].box \in H
           /\ Cardinality({a \in H : a < o[i].box}) = i - 1
           /\ o[i].class = max_index(p[o[i].box])
    <2> SUFFICES ASSUME NEW i \in 1 .. Len(o)
                 PROVE  /\ o[i].box \in H
                        /\ Cardinality({a \in H : a < o[i].box}) = i - 1
                        /\ o[i].class = max_index(p[o[i].box])
      OBVIOUS
    <2>1. o[i].box \in F /\ Cardinality({a \in F : a < o[i].box}) = i - 1
          /\ o[i].class = max_index(p[o[i].box])
      BY <1>7
    <2>2. {a \in H : a < o[i].box} = {a \in F : a < o[i].box}
      BY <1>8, <2>1
    <2>3. o[i].box \in H
      BY <1>5, <2>1
    <2> QED BY <2>1, <2>2, <2>3, Zenon
  <1>10. CASE ~ Reported(p, c)
    <2>1. H = F
      BY <1>3, <1>4, <1>10 DEF ReportedUpTo
    <2>2. LookAt(p, c, o) = o
      BY <1>10 DEF LookAt
    <2>3. DetectInv(p, c, o)
      BY <1>4, <1>7, <1>9, <2>1, Zenon DEF DetectInv
    <2> QED BY <1>1, <2>2, <2>3, Zenon
  <1>11. CASE Reported(p, c)
    <2>1. H = F \cup {c} /\ c \notin F
      BY <1>2, <1>3, <1>4, <1>11 DEF ReportedUpTo
    <2>2. Cardinality(H) = Cardinality(F) + 1
      BY <1>6, <2>1, FS_AddElement
    <2>3. CASE ~ (Len(o) < MaxObjects)
      <3>1. LookAt(p, c, o) = o
        BY <2>3 DEF LookAt
      <3>2. Len(o) = IF Cardinality(H) < MaxObjects THEN Cardinality(H) ELSE MaxObjects
        BY <1>6, <1>7, <2>2, <2>3
      <3>3. DetectInv(p, c, o)
        BY <1>4, <1>7, <1>9, <3>2, Zenon DEF DetectInv
      <3> QED BY <1>1, <3>1, <3>3, Zenon
    <2>4. CASE Len(o) < MaxObjects
      <3>1. Len(o) = Cardinality(F)
        BY <1>6, <1>7, <2>4
      <3>2. PICK e : e = [box |-> c, class |-> max_index(p[c])]
        OBVIOUS
      <3>3. PICK w : w = Append(o, e)
        OBVIOUS
      <3>4. LookAt(p, c, o) = w
        BY <1>11, <2>4, <3>2, <3>3 DEF LookAt
      <3>5. w \in Seq(Objects)
        BY <1>2, <1>7, <3>4, LookAtTyped
      <3>6. e \in Objects
        BY <1>2, <3>2, MaxIndexProperties DEF Objects
      <3>7. Len(w) = Len(o) + 1 /\ w[Len(o) + 1] = e /\ \A i \in 1 .. Len(o) : w[i] = o[i]
        BY <1>7, <3>3, <3>6, AppendProperties
      <3>8. Len(w) = IF Cardinality(H) < MaxObjects THEN Cardinality(H) ELSE MaxObjects
        BY <1>6, <2>2, <2>4, <3>1, <3>7
      <3>9. {a \in H : a < c} = F
        BY <1>2, <1>5, <2>1
      <3>10. ASSUME NEW i \in 1 .. Len(w)
             PROVE  /\ w[i].box \in H
                    /\ Cardinality({a \in H : a < w[i].box}) = i - 1
                    /\ w[i].class = max_index(p[w[i].box])
        <4>1. CASE i = Len(o) + 1
          <5>1. w[i] = e /\ i - 1 = Cardinality(F)
            BY <1>6, <3>1, <3>7, <4>1
          <5>2. w[i].box = c /\ w[i].class = max_index(p[c])
            BY <3>2, <5>1
          <5>3. c \in H
            BY <2>1
          <5> QED BY <3>9, <5>1, <5>2, <5>3, Zenon
        <4>2. CASE i # Len(o) + 1
          <5>1. i \in 1 .. Len(o)
            BY <1>6, <3>1, <3>7, <4>2
          <5>2. w[i] = o[i]
            BY <3>7, <5>1
          <5> QED BY <1>9, <5>1, <5>2, Zenon
        <4> QED BY <4>1, <4>2, Zenon
      <3>11. DetectInv(p, c, w)
        BY <1>4, <3>5, <3>8, <3>10, Zenon DEF DetectInv
      <3> QED BY <1>1, <3>4, <3>11, Zenon
    <2> QED BY <2>3, <2>4
  <1> QED BY <1>10, <1>11

(* region_layer_detect_object lists the first boxes to report. *)
LEMMA DetectObjectProperties ==
  ASSUME NEW p \in [Boxes -> [Classes -> Nat]]
  PROVE  DetectInv(p, NBoxes, region_layer_detect_object(p))
  <1> USE RegionAssumption
  <1>1. PICK q : q = ObjectsUpTo(p)
    OBVIOUS
  <1>2. q[0] = <<>> /\ \A b \in 1 .. NBoxes : q[b] = LookAt(p, b, q[b - 1])
    BY <1>1, ObjectsUpToProperties
  <1> DEFINE T == {b \in 0 .. NBoxes : DetectInv(p, b, q[b])}
  <1>3. 0 \in T
    <2>1. ReportedUpTo(p, 0) = {}
      BY DEF ReportedUpTo
    <2>2. Cardinality(ReportedUpTo(p, 0)) = 0
      BY <2>1, FS_EmptySet
    <2>3. <<>> \in Seq(Objects) /\ Len(<<>>) = 0
      OBVIOUS
    <2>4. Len(<<>>) = IF Cardinality(ReportedUpTo(p, 0)) < MaxObjects
                      THEN Cardinality(ReportedUpTo(p, 0)) ELSE MaxObjects
      BY <2>2, <2>3
    <2>5. \A i \in 1 .. Len(<<>>) : FALSE
      BY <2>3
    <2>6. DetectInv(p, 0, <<>>)
      BY <2>3, <2>4, <2>5, Zenon DEF DetectInv
    <2> QED BY <1>2, <2>6
  <1>4. ASSUME NEW b \in 0 .. NBoxes - 1, b \in T PROVE b + 1 \in T
    <2>1. b + 1 \in 1 .. NBoxes /\ b + 1 - 1 = b /\ b + 1 \in 0 .. NBoxes
      OBVIOUS
    <2>2. q[b + 1] = LookAt(p, b + 1, q[b])
      BY <1>2, <2>1
    <2>3. DetectInv(p, b + 1, LookAt(p, b + 1, q[b]))
      BY <1>4, DetectStep
    <2> QED BY <2>1, <2>2, <2>3
  <1>5. NBoxes \in T
    <2> HIDE DEF T
    <2>1. \A i \in 0 .. NBoxes : i \in T
      BY <1>3, <1>4, InductionUpTo
    <2> QED BY <2>1
  <1> QED BY <1>1, <1>5 DEF region_layer_detect_object

-----------------------------------------------------------------------------
(***************************************************************************)
(* region_layer_detect_object after do_nms_sort and get_region_boxes finds *)
(* right answers only, for any scene: of each class it keeps boxes above   *)
(* the threshold that do not overlap and that leave nothing out, and it    *)
(* reports the first of them, each once and with its most probable class.  *)
(***************************************************************************)
THEOREM AnswersAreRight ==
  ASSUME NEW s \in [Boxes -> [Classes -> Nat]],
         NEW r \in do_nms_sort(get_region_boxes(s))
  PROVE  Detects(region_layer_detect_object(r), s)
  <1> USE RegionAssumption
  <1> DEFINE Of(k) == [b \in Boxes |-> get_region_boxes(s)[b][k]]
  <1>1. ASSUME NEW k \in Classes
        PROVE  /\ Of(k) \in [Boxes -> Nat]
               /\ \A b \in Boxes : Of(k)[b] = IF s[b][k] > Threshold THEN s[b][k] ELSE 0
               /\ \A b \in Boxes : s[b][k] \in Nat
    BY DEF get_region_boxes
  <1>2. PICK f \in [Classes -> UNION {NmsClass(Of(k)) : k \in Classes}] :
           /\ \A k \in Classes : f[k] \in NmsClass(Of(k))
           /\ r = [b \in Boxes |-> [k \in Classes |-> f[k][b]]]
    BY Zenon DEF do_nms_sort
  <1>3. ASSUME NEW k \in Classes
        PROVE  /\ f[k] \in [Boxes -> Nat]
               /\ \A b \in Boxes : f[k][b] = 0 \/ f[k][b] = Of(k)[b]
               /\ \A a, b \in Boxes : a # b /\ f[k][a] # 0 /\ f[k][b] # 0 => <<a, b>> \notin Overlap
               /\ \A b \in Boxes : Of(k)[b] # 0 /\ f[k][b] = 0 =>
                     \E a \in Boxes : f[k][a] # 0 /\ <<a, b>> \in Overlap /\ Of(k)[a] >= Of(k)[b]
    <2>1. Of(k) \in [Boxes -> Nat] /\ f[k] \in NmsClass(Of(k))
      BY <1>1, <1>2
    <2>2. Survive(Of(k), f[k])
      <3> HIDE DEF Of
      <3> QED BY <2>1, NmsKeeps
    <2> HIDE DEF Of
    <2> QED BY <2>2, Zenon DEF Survive
  <1>4. \A b \in Boxes : \A k \in Classes : r[b][k] = f[k][b] /\ r[b][k] \in Nat
    BY <1>2, <1>3
  <1>5. r \in [Boxes -> [Classes -> Nat]]
    <2>1. \A b \in Boxes : [k \in Classes |-> f[k][b]] \in [Classes -> Nat]
      BY <1>3
    <2> QED BY <1>2, <2>1
  <1>6. \A b \in Boxes : \A k \in Classes : r[b][k] # 0 => r[b][k] = s[b][k] /\ s[b][k] > Threshold
    <2> SUFFICES ASSUME NEW b \in Boxes, NEW k \in Classes, r[b][k] # 0
                 PROVE  r[b][k] = s[b][k] /\ s[b][k] > Threshold
      OBVIOUS
    <2>1. f[k][b] # 0 /\ r[b][k] = f[k][b]
      BY <1>4
    <2>2. f[k][b] = Of(k)[b]
      BY <1>3, <2>1
    <2>3. Of(k)[b] = IF s[b][k] > Threshold THEN s[b][k] ELSE 0
      BY <1>1
    <2> HIDE DEF Of
    <2> QED BY <2>1, <2>2, <2>3
  <1>7. PICK kept : kept = [k \in Classes |-> {b \in Boxes : r[b][k] # 0}]
    OBVIOUS
  <1>8. kept \in [Classes -> SUBSET Boxes]
    BY <1>7
  <1>9. \A k \in Classes : \A b : b \in kept[k] <=> b \in Boxes /\ r[b][k] # 0
    BY <1>7
  <1>10. ASSUME NEW k \in Classes PROVE Keeps(kept[k], s, k)
    <2>1. PICK F : F = {b \in Boxes : s[b][k] > Threshold}
      OBVIOUS
    <2>2. kept[k] \subseteq F
      BY <1>6, <1>9, <2>1
    <2>3. \A a, b \in kept[k] : a # b => <<a, b>> \notin Overlap
      <3> SUFFICES ASSUME NEW a \in kept[k], NEW b \in kept[k], a # b
                   PROVE  <<a, b>> \notin Overlap
        OBVIOUS
      <3>1. a \in Boxes /\ b \in Boxes /\ r[a][k] # 0 /\ r[b][k] # 0
        BY <1>9
      <3>2. f[k][a] # 0 /\ f[k][b] # 0
        BY <1>4, <3>1
      <3> HIDE DEF Of
      <3> QED BY <1>3, <3>1, <3>2
    <2>4. ASSUME NEW b \in F \ kept[k]
          PROVE  \E a \in kept[k] : <<a, b>> \in Overlap /\ s[a][k] >= s[b][k]
      <3>1. b \in Boxes /\ s[b][k] > Threshold /\ r[b][k] = 0
        BY <1>9, <2>1, <2>4
      <3>2. Of(k)[b] = s[b][k] /\ Of(k)[b] # 0 /\ f[k][b] = 0
        <4>1. Of(k)[b] = IF s[b][k] > Threshold THEN s[b][k] ELSE 0
          BY <1>1, <3>1
        <4>2. s[b][k] \in Nat /\ f[k][b] = r[b][k]
          BY <1>1, <1>4, <3>1
        <4> HIDE DEF Of
        <4> QED BY <3>1, <4>1, <4>2
      <3>3. PICK a \in Boxes : f[k][a] # 0 /\ <<a, b>> \in Overlap /\ Of(k)[a] >= Of(k)[b]
        <4> HIDE DEF Of
        <4> QED BY <1>3, <3>1, <3>2
      <3>4. r[a][k] # 0 /\ r[a][k] = f[k][a] /\ f[k][a] = Of(k)[a]
        <4> HIDE DEF Of
        <4> QED BY <1>3, <1>4, <3>3
      <3>5. a \in kept[k] /\ Of(k)[a] = s[a][k]
        <4> HIDE DEF Of
        <4> QED BY <1>6, <1>9, <3>4
      <3> HIDE DEF Of
      <3> QED BY <3>2, <3>3, <3>5
    <2> QED BY <2>1, <2>2, <2>3, <2>4, Zenon DEF Keeps
  <1>11. ASSUME NEW b \in Boxes
         PROVE  /\ max_index(r[b]) \in Classes
                /\ \A k \in Classes : r[b][max_index(r[b])] >= r[b][k]
                /\ \A k \in 1 .. max_index(r[b]) - 1 : r[b][max_index(r[b])] > r[b][k]
    <2>1. r[b] \in [Classes -> Nat]
      BY <1>5
    <2> QED BY <2>1, MaxIndexProperties
  <1>12. PICK some : some = {b \in Boxes : \E k \in Classes : b \in kept[k]}
    OBVIOUS
  <1>13. ASSUME NEW b \in Boxes PROVE Reported(r, b) <=> b \in some
    <2>1. PICK c \in Classes : c = max_index(r[b])
      BY <1>11
    <2>2. r[b][c] \in Nat
      BY <1>4
    <2>3. Reported(r, b) => b \in kept[c]
      BY <1>9, <2>1, <2>2 DEF Reported
    <2>4. ASSUME NEW k \in Classes, b \in kept[k] PROVE r[b][c] > Threshold
      <3>1. r[b][k] # 0
        BY <1>9, <2>4
      <3>2. r[b][k] > Threshold /\ r[b][k] \in Nat
        BY <1>4, <1>6, <3>1
      <3>3. r[b][c] >= r[b][k]
        BY <1>11, <2>1
      <3> QED BY <2>2, <3>2, <3>3
    <2> QED BY <1>12, <2>1, <2>3, <2>4 DEF Reported
  <1>14. ReportedUpTo(r, NBoxes) = some
    BY <1>12, <1>13 DEF ReportedUpTo, Boxes
  <1>15. PICK o : o = region_layer_detect_object(r)
    OBVIOUS
  <1>16. DetectInv(r, NBoxes, o)
    BY <1>5, <1>15, DetectObjectProperties
  <1>17. Len(o) = IF Cardinality(some) < MaxObjects THEN Cardinality(some) ELSE MaxObjects
    BY <1>14, <1>16, Zenon DEF DetectInv
  <1>18. ASSUME NEW i \in 1 .. Len(o), NEW b, b = o[i].box, NEW c, c = o[i].class
         PROVE  /\ b \in some
                /\ Cardinality({a \in some : a < b}) = i - 1
                /\ b \in kept[c]
                /\ \A k \in Classes : b \in kept[k] =>
                      s[b][c] > s[b][k] \/ (s[b][c] = s[b][k] /\ c <= k)
    <2>1. b \in some /\ Cardinality({a \in some : a < b}) = i - 1 /\ c = max_index(r[b])
      BY <1>14, <1>16, <1>18, Zenon DEF DetectInv
    <2>2. b \in Boxes /\ c \in Classes
      BY <1>11, <1>12, <2>1
    <2>3. r[b][c] > Threshold /\ r[b][c] \in Nat
      BY <1>4, <1>13, <2>1, <2>2 DEF Reported
    <2>4. b \in kept[c] /\ r[b][c] = s[b][c]
      BY <1>6, <1>9, <2>2, <2>3
    <2>5. ASSUME NEW k \in Classes, b \in kept[k]
          PROVE  s[b][c] > s[b][k] \/ (s[b][c] = s[b][k] /\ c <= k)
      <3>1. r[b][k] # 0
        BY <1>9, <2>5
      <3>2. r[b][k] = s[b][k] /\ r[b][k] \in Nat
        BY <1>4, <1>6, <2>2, <3>1
      <3>3. r[b][c] >= r[b][k]
        BY <1>11, <2>1, <2>2
      <3>4. CASE c <= k
        BY <2>3, <2>4, <3>2, <3>3, <3>4
      <3>5. CASE ~ (c <= k)
        <4>1. k \in 1 .. c - 1
          BY <2>2, <3>5 DEF Classes
        <4>2. r[b][c] > r[b][k]
          BY <1>11, <2>1, <2>2, <4>1
        <4> QED BY <2>4, <3>2, <4>2
      <3> QED BY <3>4, <3>5
    <2> QED BY <2>1, <2>4, <2>5
  <1>19. Detects(o, s)
    <2>1. \A i \in 1 .. Len(o) :
            LET b == o[i].box
                c == o[i].class
            IN  /\ b \in some
                /\ Cardinality({a \in some : a < b}) = i - 1
                /\ b \in kept[c]
                /\ \A k \in Classes : b \in kept[k] =>
                      s[b][c] > s[b][k] \/ (s[b][c] = s[b][k] /\ c <= k)
      BY <1>18, Zenon
    <2>2. /\ \A k \in Classes : Keeps(kept[k], s, k)
          /\ LET all == {b \in Boxes : \E k \in Classes : b \in kept[k]}
             IN  /\ Len(o) = IF Cardinality(all) < MaxObjects THEN Cardinality(all) ELSE MaxObjects
                 /\ \A i \in 1 .. Len(o) :
                      LET b == o[i].box
                          c == o[i].class
                      IN  /\ b \in all
                          /\ Cardinality({a \in all : a < b}) = i - 1
                          /\ b \in kept[c]
                          /\ \A k \in Classes : b \in kept[k] =>
                                s[b][c] > s[b][k] \/ (s[b][c] = s[b][k] /\ c <= k)
      BY <1>10, <1>12, <1>17, <2>1, Zenon
    <2> QED BY <1>8, <2>2, Zenon DEF Detects
  <1> QED BY <1>15, <1>19

-----------------------------------------------------------------------------
(* The camera and the display. *)

\* The camera interrupt.  The frame that ended is in the buffer the display
\* takes next, or that one has been filled before.
LEMMA DvpKeeps ==
  ASSUME CameraIInv, on_irq_dvp
  PROVE  CameraIInv'
  <1> USE DEF CameraIInv, CameraTypeOK
  <1>1. ~starting
    BY DEF on_irq_dvp, Preempts, ResetWhileStarting
  <1>2. CASE dvp.finish
    <2>1. /\ dvp' = [dvp EXCEPT !.finish = FALSE, !.rgb_addr = NextBuffer]
          /\ g_dvp_finish_flag' = 1
          /\ UNCHANGED <<g_ram_mux, show, starting, filled>>
      BY <1>2 DEF on_irq_dvp
    <2>2. NextBuffer = 1 - g_ram_mux /\ 1 - g_ram_mux \in Both
      BY DEF NextBuffer, Both
    <2>3. CameraTypeOK' /\ dvp'.rgb_addr = 1 - g_ram_mux /\ ~dvp'.finish
      BY <2>1, <2>2 DEF Both
    <2>4. g_ram_mux \in filled
      BY <1>1, <1>2 DEF ToDraw, ToFill
    <2>5. show = "flip" => Both \subseteq filled
      BY <1>1, <1>2, <2>4 DEF ToDraw, ToFill, FrameTaken, Both
    <2>6. show = "draw" => 1 - g_ram_mux \in filled
      BY DEF ToDraw
    <2> QED BY <1>1, <2>1, <2>3, <2>4, <2>5, <2>6 DEF ToDraw, ToFill, FrameTaken
  <1>3. CASE ~dvp.finish
    <2>1. /\ dvp' = [dvp EXCEPT !.start = FALSE, !.busy = TRUE]
          /\ UNCHANGED <<g_dvp_finish_flag, g_ram_mux, show, starting, filled>>
      BY <1>3 DEF on_irq_dvp
    <2>2. CameraTypeOK' /\ dvp'.rgb_addr = dvp.rgb_addr /\ dvp'.finish = dvp.finish
      BY <2>1
    <2> QED BY <1>1, <2>1, <2>2 DEF ToDraw, ToFill, FrameTaken
  <1> QED BY <1>2, <1>3

\* The sensor.
LEMMA FrameKeeps ==
  ASSUME CameraIInv, enabled' = enabled, FrameStart \/ FrameFinish
  PROVE  CameraIInv'
  <1> USE DEF CameraIInv, CameraTypeOK
  <1>1. CASE FrameStart
    <2>1. /\ dvp' = [dvp EXCEPT !.start = TRUE]
          /\ UNCHANGED <<g_dvp_finish_flag, g_ram_mux, show, starting, filled>>
      BY <1>1 DEF FrameStart
    <2>2. /\ CameraTypeOK' /\ dvp'.rgb_addr = dvp.rgb_addr /\ dvp'.finish = dvp.finish
          /\ dvp'.busy = dvp.busy
      BY <2>1
    <2> QED BY <2>1, <2>2 DEF ToDraw, ToFill, FrameTaken, ResetWhileStarting
  <1>2. CASE FrameFinish
    <2>1. /\ dvp' = [dvp EXCEPT !.busy = FALSE, !.finish = TRUE] /\ dvp.busy
          /\ filled' = filled \cup {dvp.rgb_addr}
          /\ UNCHANGED <<g_dvp_finish_flag, g_ram_mux, show, starting>>
      BY <1>2 DEF FrameFinish
    <2>2. CameraTypeOK' /\ dvp'.rgb_addr = dvp.rgb_addr
      BY <2>1
    <2>3. ~starting
      BY <2>1 DEF ResetWhileStarting
    <2> QED BY <2>1, <2>2, <2>3 DEF ToDraw, ToFill, FrameTaken
  <1> QED BY <1>1, <1>2

\* The display.
LEMMA ShowKeeps ==
  ASSUME CameraIInv, ShowEnter \/ dvp_lcd_show
  PROVE  CameraIInv'
  <1> USE DEF CameraIInv, CameraTypeOK
  <1>1. CASE ShowEnter
    BY <1>1 DEF ShowEnter, ToDraw, ToFill, FrameTaken, ResetWhileStarting
  <1>2. CASE ShowWait
    BY <1>2 DEF ShowWait, ToDraw, ToFill, FrameTaken, ResetWhileStarting
  <1>3. CASE ShowTake
    BY <1>3 DEF ShowTake, ToDraw, ToFill, FrameTaken, ResetWhileStarting, Both
  <1>4. CASE ShowFlip
    <2>1. /\ show = "flip" /\ show' = "draw" /\ g_ram_mux' = 1 - g_ram_mux
          /\ UNCHANGED <<dvp, g_dvp_finish_flag, starting, enabled, filled>>
      BY <1>4 DEF ShowFlip
    <2>2. CameraTypeOK' /\ 1 - g_ram_mux' = g_ram_mux /\ g_ram_mux' \in Both
      BY <2>1 DEF Both
    <2>3. ToDraw'
      BY <2>1, <2>2 DEF ToDraw, FrameTaken
    <2>4. ~starting => ToFill'
      BY <2>1, <2>2 DEF ToDraw, ToFill, FrameTaken
    <2> QED BY <2>1, <2>2, <2>3, <2>4 DEF ResetWhileStarting
  <1>5. CASE ShowReturn
    BY <1>5 DEF ShowReturn, ToDraw, ToFill, FrameTaken, ResetWhileStarting
  <1> QED BY <1>1, <1>2, <1>3, <1>4, <1>5 DEF dvp_lcd_show

\* The program's calls.
LEMMA CameraCallsKeep ==
  ASSUME CameraIInv, CameraCalls
  PROVE  CameraIInv'
  <1> USE DEF CameraIInv, CameraTypeOK
  <1>0. show = "idle"
    BY DEF CameraCalls, Level, Priority
  <1>1. CASE machine_ov5640_init
    <2>1. /\ dvp' = [clock |-> TRUE, start |-> FALSE, finish |-> FALSE, busy |-> FALSE, rgb_addr |-> 0]
          /\ starting' = TRUE /\ "DVP" \notin enabled'
          /\ UNCHANGED <<g_dvp_finish_flag, g_ram_mux, show, filled>>
      BY <1>1 DEF machine_ov5640_init
    <2> QED BY <2>1 DEF ToDraw, FrameTaken, ResetWhileStarting, Both
  <1>2. CASE CameraStart
    <2>1. /\ starting /\ starting' = FALSE /\ g_ram_mux' = 0 /\ g_dvp_finish_flag' = 0
          /\ dvp' = [dvp EXCEPT !.start = FALSE, !.finish = FALSE]
          /\ show' = "idle"
      BY <1>0, <1>2 DEF CameraStart
    <2>2. dvp'.rgb_addr = 0 /\ ~dvp'.finish /\ CameraTypeOK'
      BY <2>1 DEF ResetWhileStarting, Both
    <2> QED BY <2>1, <2>2 DEF ToDraw, ToFill, FrameTaken
  <1>3. CASE machine_ov5640_lcdshow
    BY <1>3 DEF machine_ov5640_lcdshow, ToDraw, ToFill, FrameTaken
  <1>4. CASE machine_ov5640_disable
    <2>1. /\ dvp' = [dvp EXCEPT !.clock = FALSE] /\ ~starting
          /\ UNCHANGED <<g_dvp_finish_flag, g_ram_mux, show, starting, filled>>
      BY <1>4 DEF machine_ov5640_disable
    <2>2. CameraTypeOK' /\ dvp'.rgb_addr = dvp.rgb_addr /\ dvp'.finish = dvp.finish
      BY <2>1
    <2> QED BY <2>1, <2>2 DEF ToDraw, ToFill, FrameTaken
  <1>5. CASE lcd_init
    BY <1>5 DEF lcd_init, ToDraw, ToFill, FrameTaken
  <1> QED BY <1>1, <1>2, <1>3, <1>4, <1>5 DEF CameraCalls

\* Steps of the face detector; of the interrupts it enables only its own.
LEMMA AiKeepsCamera ==
  ASSUME CameraIInv, UNCHANGED camVars, enabled' \subseteq enabled \cup {"AI_DMA", "AI"}
  PROVE  CameraIInv'
  BY DEF CameraIInv, CameraTypeOK, ToDraw, ToFill, FrameTaken, ResetWhileStarting, camVars

LEMMA CameraInvariance == Spec => []CameraIInv
  <1>1. Init => CameraIInv
    <2> SUFFICES ASSUME CamInit PROVE CameraIInv
      BY DEF Init
    <2>1. CameraTypeOK
      BY DEF CamInit, CameraTypeOK, Both
    <2>2. ~dvp.finish /\ dvp.rgb_addr = 0 /\ g_ram_mux = 0 /\ ~FrameTaken /\ show = "idle" /\ ~starting
      BY DEF CamInit, FrameTaken
    <2> QED BY <2>1, <2>2 DEF CameraIInv, ToDraw, ToFill
  <1>2. CameraIInv /\ [Next]_vars => CameraIInv'
    <2> SUFFICES ASSUME CameraIInv, [Next]_vars PROVE CameraIInv'
      OBVIOUS
    <2>1. CASE Hardware
      BY <2>1, FrameKeeps, AiKeepsCamera DEF Hardware
    <2>2. CASE Interrupt
      BY <2>2, DvpKeeps, ShowKeeps, AiKeepsCamera DEF Interrupt
    <2>3. CASE Show
      BY <2>3, ShowKeeps DEF Show
    <2>4. CASE CameraCalls
      BY <2>4, CameraCallsKeep
    <2>5. CASE AiCalls
      BY <2>5, AiKeepsCamera DEF AiCalls, machine_ai_init
    <2>6. CASE Processing
      BY <2>6, AiKeepsCamera DEF Processing
    <2>7. CASE UNCHANGED vars
      BY <2>7, AiKeepsCamera DEF vars
    <2> QED BY <2>1, <2>2, <2>3, <2>4, <2>5, <2>6, <2>7 DEF Next
  <1> QED BY <1>1, <1>2, PTL DEF Spec

(***************************************************************************)
(* dvp_lcd_show never draws a buffer that has not been filled since the    *)
(* camera was started, wherever in it the camera's interrupts come.        *)
(***************************************************************************)
THEOREM DrawsOnlyFilled == Spec => []DrawsFilledBuffer
  <1>1. CameraIInv => DrawsFilledBuffer
    BY DEF CameraIInv, CameraTypeOK, ToDraw, DrawsFilledBuffer, Drawn, Both
  <1> QED BY <1>1, CameraInvariance, PTL

-----------------------------------------------------------------------------
(* The layers of a network as a sequence. *)

LEMMA Regroup == \A s, t, u \in Seq(Nat) : (s \o t) \o u = s \o (t \o u)
  BY ConcatAssociative

LEMMA FirstOnes ==
  ASSUME NEW m \in Nat
  PROVE  /\ Layers(1, m) \in Seq(Nat) /\ Len(Layers(1, m)) = m
         /\ \A n \in 1 .. m : Layers(1, m)[n] = n
  BY DEF Layers

\* The layers up to i and those after it are the layers up to j.
LEMMA Joined ==
  ASSUME NEW i \in Nat, NEW j \in Nat, i <= j
  PROVE  /\ Layers(i + 1, j) \in Seq(Nat)
         /\ Layers(1, i) \o Layers(i + 1, j) = Layers(1, j)
  <1>1. /\ Layers(i + 1, j) \in Seq(Nat) /\ Len(Layers(i + 1, j)) = j - i
        /\ \A n \in 1 .. j - i : Layers(i + 1, j)[n] = i + n
    BY DEF Layers
  <1>2. /\ Layers(1, i) \in Seq(Nat) /\ Len(Layers(1, i)) = i
        /\ \A n \in 1 .. i : Layers(1, i)[n] = n
    BY FirstOnes
  <1>3. /\ Layers(1, j) \in Seq(Nat) /\ Len(Layers(1, j)) = j
        /\ \A n \in 1 .. j : Layers(1, j)[n] = n
    BY FirstOnes
  <1>4. PICK a, b, c : a = Layers(1, i) /\ b = Layers(i + 1, j) /\ c = Layers(1, j)
    OBVIOUS
  <1>5. /\ a \o b \in Seq(Nat) /\ Len(a \o b) = j
        /\ \A n \in 1 .. j : (a \o b)[n] = n
    <2>1. /\ a \in Seq(Nat) /\ Len(a) = i /\ \A n \in 1 .. i : a[n] = n
          /\ b \in Seq(Nat) /\ Len(b) = j - i /\ \A n \in 1 .. j - i : b[n] = i + n
      BY <1>1, <1>2, <1>4, Zenon
    <2>2. /\ a \o b \in Seq(Nat) /\ Len(a \o b) = i + (j - i)
          /\ \A n \in 1 .. i + (j - i) : (a \o b)[n] = IF n <= i THEN a[n] ELSE b[n - i]
      <3>1. /\ a \o b \in Seq(Nat) /\ Len(a \o b) = Len(a) + Len(b)
            /\ \A n \in 1 .. Len(a) + Len(b) :
                 (a \o b)[n] = IF n <= Len(a) THEN a[n] ELSE b[n - Len(a)]
        BY <2>1, ConcatProperties
      <3> QED BY <2>1, <3>1, Zenon
    <2>3. i + (j - i) = j
      OBVIOUS
    <2>4. ASSUME NEW n \in 1 .. j PROVE (a \o b)[n] = n
      <3>1. (a \o b)[n] = IF n <= i THEN a[n] ELSE b[n - i]
        BY <2>2, <2>3
      <3>2. n <= i => a[n] = n
        BY <2>1
      <3>3. ~(n <= i) => b[n - i] = n
        BY <2>1
      <3> QED BY <3>1, <3>2, <3>3
    <2> QED BY <2>2, <2>3, <2>4
  <1>6. a \o b = c
    BY <1>3, <1>4, <1>5, SeqEqual
  <1> QED BY <1>1, <1>4, <1>6

\* What cfg_fifo takes of the layers after i: those up to some n, all of them
\* when there is room.
LEMMA PushTakes ==
  ASSUME kpu.fifo \in Seq(Nat), Len(kpu.fifo) <= FifoLayers,
         NEW i \in Nat, NEW j \in Nat, i <= j
  PROVE  \E n \in i .. j :
            /\ Push(i + 1, j) = kpu.fifo \o Layers(i + 1, n)
            /\ Push(i + 1, j) \in Seq(Nat)
            /\ Len(Push(i + 1, j)) <= FifoLayers
            /\ j - i <= FifoLayers - Len(kpu.fifo) => n = j
  <1> USE FaceDetectAssumption
  <1>0. FifoLayers - Len(kpu.fifo) \in Nat /\ Len(kpu.fifo) \in Nat
    BY LenProperties
  <1>1. PICK room \in Nat : room = FifoLayers - Len(kpu.fifo)
    BY <1>0
  <1>2. PICK n : n = LastTaken(i + 1, j)
    OBVIOUS
  <1>3. n = IF j - i <= room THEN j ELSE i + room
    <2>1. n = IF j - (i + 1) + 1 <= room THEN j ELSE (i + 1) - 1 + room
      BY <1>1, <1>2 DEF LastTaken
    <2>2. j - (i + 1) + 1 = j - i /\ (i + 1) - 1 + room = i + room
      BY <1>1
    <2> QED BY <2>1, <2>2, Zenon
  <1>4. n \in i .. j /\ n - i <= room /\ (j - i <= room => n = j)
    <2>1. CASE j - i <= room
      BY <1>3, <2>1
    <2>2. CASE ~(j - i <= room)
      BY <1>3, <2>2
    <2> QED BY <2>1, <2>2
  <1>5. Push(i + 1, j) = kpu.fifo \o Layers(i + 1, n)
    BY <1>2 DEF Push
  <1>6. PICK u : u = Layers(i + 1, n)
    OBVIOUS
  <1>7. u \in Seq(Nat) /\ Len(u) = n - i
    BY <1>4, <1>6 DEF Layers
  <1>8. PICK f \in Seq(Nat) : f = kpu.fifo
    OBVIOUS
  <1>9. f \o u \in Seq(Nat) /\ Len(f \o u) = Len(f) + Len(u)
    BY <1>7, ConcatProperties
  <1>10. f \o u = Push(i + 1, j)
    BY <1>5, <1>6, <1>8, Zenon
  <1>11. Len(f \o u) <= FifoLayers
    <2>1. Len(f \o u) = Len(kpu.fifo) + (n - i)
      BY <1>7, <1>8, <1>9
    <2> QED BY <1>0, <1>1, <1>4, <2>1
  <1>12. j - i <= FifoLayers - Len(kpu.fifo) => n = j
    BY <1>1, <1>4
  <1> QED BY <1>4, <1>5, <1>9, <1>10, <1>11, <1>12, Zenon

\* Executing a layer moves it from the fifo to those computed.
LEMMA Moved ==
  ASSUME NEW s \in Seq(Nat), NEW t \in Seq(Nat), t # <<>>
  PROVE  /\ Append(s, Head(t)) \in Seq(Nat) /\ Tail(t) \in Seq(Nat)
         /\ Append(s, Head(t)) \o Tail(t) = s \o t
  <1>1. /\ Head(t) \in Nat /\ Head(t) = t[1] /\ Tail(t) \in Seq(Nat) /\ Len(t) \in Nat \ {0}
        /\ Len(Tail(t)) = Len(t) - 1
        /\ \A i \in 1 .. Len(Tail(t)) : Tail(t)[i] = t[i + 1]
    BY HeadTailProperties, EmptySeq
  <1>2. PICK a, b : a = Append(s, Head(t)) /\ b = Tail(t)
    OBVIOUS
  <1>3. /\ a \in Seq(Nat) /\ Len(a) = Len(s) + 1 /\ a[Len(s) + 1] = t[1]
        /\ \A i \in 1 .. Len(s) : a[i] = s[i]
    BY <1>1, <1>2
  <1>4. /\ a \o b \in Seq(Nat) /\ Len(a \o b) = Len(s) + Len(t)
        /\ s \o t \in Seq(Nat) /\ Len(s \o t) = Len(s) + Len(t)
        /\ Len(s) \in Nat /\ Len(t) \in Nat
    BY <1>1, <1>2, <1>3
  <1>5. ASSUME NEW i \in 1 .. Len(s) + Len(t) PROVE (a \o b)[i] = (s \o t)[i]
    <2>1. CASE i <= Len(s)
      BY <1>1, <1>2, <1>3, <2>1, ConcatProperties
    <2>2. CASE i = Len(s) + 1
      BY <1>1, <1>2, <1>3, <2>2, ConcatProperties
    <2>3. CASE i > Len(s) + 1
      <3>1. (a \o b)[i] = b[i - (Len(s) + 1)] /\ i - (Len(s) + 1) \in 1 .. Len(b)
        BY <1>1, <1>2, <1>3, <2>3, ConcatProperties
      <3>2. b[i - (Len(s) + 1)] = t[i - (Len(s) + 1) + 1] /\ i - (Len(s) + 1) + 1 = i - Len(s)
        BY <1>1, <1>2, <1>4, <3>1
      <3>3. (s \o t)[i] = t[i - Len(s)]
        BY <1>4, <2>3, ConcatProperties
      <3> QED BY <3>1, <3>2, <3>3
    <2>4. i <= Len(s) \/ i = Len(s) + 1 \/ i > Len(s) + 1
      BY <1>4
    <2> QED BY <2>1, <2>2, <2>3, <2>4, Zenon
  <1>6. a \o b = s \o t
    BY <1>4, <1>5, SeqEqual
  <1> QED BY <1>1, <1>2, <1>3, <1>6

\* Layers come in order, and the last one leaves the fifo empty.
LEMMA LastLayer ==
  ASSUME NEW s \in Seq(Nat), NEW t \in Seq(Nat), t # <<>>, NEW m \in Nat,
         s \o t = Layers(1, m)
  PROVE  /\ Head(t) \in 1 .. m
         /\ Head(t) = m => Tail(t) = <<>> /\ Append(s, Head(t)) = Layers(1, m)
  <1>1. /\ Head(t) = t[1] /\ Len(t) \in Nat \ {0} /\ Len(s) \in Nat
        /\ Tail(t) \in Seq(Nat) /\ Len(Tail(t)) = Len(t) - 1
    BY HeadTailProperties, EmptySeq
  <1>2. /\ Len(s \o t) = Len(s) + Len(t)
        /\ \A i \in 1 .. Len(s) + Len(t) :
             (s \o t)[i] = IF i <= Len(s) THEN s[i] ELSE t[i - Len(s)]
    BY ConcatProperties
  <1>5. Len(s \o t) = m /\ \A n \in 1 .. m : (s \o t)[n] = n
    BY FirstOnes
  <1>6. PICK k, l : k = Len(s) /\ l = Len(t)
    OBVIOUS
  <1>7. k + l = m /\ k \in Nat /\ l \in Nat \ {0}
    BY <1>1, <1>2, <1>5, <1>6
  <1>8. k + 1 \in 1 .. m /\ ~(k + 1 <= k) /\ (k + 1) - k = 1
    BY <1>7
  <1>9. t[1] = k + 1
    <2>1. (s \o t)[k + 1] = k + 1
      BY <1>5, <1>8, Zenon
    <2>2. (s \o t)[k + 1] = t[(k + 1) - k]
      BY <1>2, <1>6, <1>7, <1>8, Zenon
    <2> QED BY <1>8, <2>1, <2>2, Zenon
  <1>3. Head(t) = Len(s) + 1 /\ Len(s) + Len(t) = m
    BY <1>1, <1>6, <1>7, <1>9, Zenon
  <1>4. ASSUME Head(t) = m PROVE Tail(t) = <<>> /\ Append(s, Head(t)) = Layers(1, m)
    <2>1. Len(Tail(t)) = 0
      BY <1>1, <1>3, <1>4
    <2>2. Tail(t) = <<>>
      BY <1>1, <2>1, EmptySeq
    <2>3. Append(s, Head(t)) \in Seq(Nat) /\ Append(s, Head(t)) \o Tail(t) = Layers(1, m)
      BY Moved
    <2> QED BY <2>2, <2>3, ConcatEmptySeq
  <1> QED BY <1>1, <1>3, <1>4

-----------------------------------------------------------------------------
(* The pipeline of machine_ai_process_image. *)

\* The DMA channel takes the image to the accelerator.
LEMMA InputDoneKeeps ==
  ASSUME PipeIInv, InputDone
  PROVE  PipeIInv'
  <1>1. PipeTypeOK /\ Sending /\ dma = "input" /\ Labelled
    BY DEF PipeIInv, InputDone, Resting, Computing, Arrived
  <1>2. /\ kpu' = [kpu EXCEPT !.image = ai_buf]
        /\ dma' = "none" /\ dma_intstatus' = TRUE
        /\ UNCHANGED <<ai_param_layer, step, buf_status, ai_buf, input_data, object_info,
                       image, before, computed>>
    BY DEF InputDone
  <1>3. PipeTypeOK'
    BY <1>1, <1>2 DEF PipeTypeOK
  <1>4. /\ kpu'.image = ai_buf /\ kpu'.fifo = kpu.fifo /\ kpu'.masked = kpu.masked
        /\ kpu'.result = kpu.result
    BY <1>1, <1>2 DEF PipeTypeOK
  <1>5. Sending'
    BY <1>1, <1>2, <1>4 DEF Sending, Empty
  <1>6. Labelled'
    BY <1>1, <1>2 DEF Labelled
  <1> QED BY <1>3, <1>5, <1>6 DEF PipeIInv

\* The accelerator executes a layer.
LEMMA ExecuteLayerKeeps ==
  ASSUME PipeIInv, ExecuteLayer
  PROVE  PipeIInv'
  <1> USE FaceDetectAssumption
  <1>1. PipeTypeOK /\ Computing /\ Labelled /\ kpu.fifo # <<>>
    BY DEF PipeIInv, ExecuteLayer, Resting, Sending, Arrived, Empty
  <1>2. /\ computed' = Append(computed, Head(kpu.fifo))
        /\ kpu' = [kpu EXCEPT !.fifo = Tail(kpu.fifo),
                              !.result = IF Head(kpu.fifo) = ai_param_layer
                                         THEN <<kpu.image>> ELSE kpu.result]
        /\ UNCHANGED <<ai_param_layer, step, buf_status, ai_buf, dma, dma_intstatus,
                       input_data, object_info, image, before>>
    BY DEF ExecuteLayer
  <1>3. PICK m \in 0 .. ai_param_layer :
            /\ computed \o kpu.fifo = Layers(1, m)
            /\ ~kpu.masked => InParts /\ m = FirstLayers
    BY <1>1 DEF Computing, Fed
  <1>4. /\ computed \in Seq(Nat) /\ kpu.fifo \in Seq(Nat) /\ m \in Nat
        /\ kpu.image = image /\ kpu.result = <<>> /\ image \in Pictures
        /\ Len(kpu.fifo) <= FifoLayers /\ ai_param_layer \in Nat
    BY <1>1, <1>3 DEF Computing, Fed, Finished, PipeTypeOK
  <1>5. /\ Append(computed, Head(kpu.fifo)) \in Seq(Nat) /\ Tail(kpu.fifo) \in Seq(Nat)
        /\ Append(computed, Head(kpu.fifo)) \o Tail(kpu.fifo) = Layers(1, m)
        /\ Len(Tail(kpu.fifo)) <= FifoLayers
    <2>1. Len(Tail(kpu.fifo)) = Len(kpu.fifo) - 1 /\ Len(kpu.fifo) \in Nat
      BY <1>1, <1>4, HeadTailProperties, EmptySeq
    <2>2. Len(Tail(kpu.fifo)) <= FifoLayers
      BY <1>4, <2>1
    <2> QED BY <1>1, <1>3, <1>4, <2>2, Moved
  <1>6. /\ Head(kpu.fifo) \in 1 .. m
        /\ Head(kpu.fifo) = m => /\ Tail(kpu.fifo) = <<>>
                                 /\ Append(computed, Head(kpu.fifo)) = Layers(1, m)
    BY <1>1, <1>3, <1>4, LastLayer
  <1>7. Head(kpu.fifo) = ai_param_layer => kpu.masked
    BY <1>1, <1>3, <1>4, <1>6 DEF InParts, PipeTypeOK
  <1>8. PICK r : r = IF Head(kpu.fifo) = ai_param_layer THEN <<kpu.image>> ELSE kpu.result
    OBVIOUS
  <1>9. r \in Seq(Pictures) /\ r \in {<<>>, <<image>>}
    BY <1>4, <1>8
  <1>10. /\ kpu'.fifo = Tail(kpu.fifo) /\ kpu'.masked = kpu.masked /\ kpu'.image = kpu.image
         /\ kpu'.result = r
         /\ kpu' \in [image : Pictures, fifo : Seq(Nat), masked : BOOLEAN, raw : BOOLEAN,
                      result : Seq(Pictures)]
    <2>1. kpu' = [kpu EXCEPT !.fifo = Tail(kpu.fifo), !.result = r]
      BY <1>2, <1>8
    <2>2. kpu \in [image : Pictures, fifo : Seq(Nat), masked : BOOLEAN, raw : BOOLEAN,
                   result : Seq(Pictures)]
      BY <1>1 DEF PipeTypeOK
    <2> QED BY <1>5, <1>9, <2>1, <2>2
  <1>11. PipeTypeOK'
    BY <1>1, <1>2, <1>5, <1>10 DEF PipeTypeOK
  <1>12. r # <<>> => Finished'
    <2> SUFFICES ASSUME r # <<>> PROVE Finished'
      OBVIOUS
    <2>1. Head(kpu.fifo) = ai_param_layer /\ kpu.masked /\ m = ai_param_layer
      BY <1>4, <1>6, <1>7, <1>8
    <2> QED BY <1>2, <1>6, <1>10, <2>1 DEF Finished, Layers
  <1>13. Fed'
    <2>1. computed' \o kpu'.fifo = Layers(1, m) /\ m \in 0 .. ai_param_layer'
      BY <1>2, <1>5, <1>10
    <2>2. ~kpu'.masked => InParts' /\ m = FirstLayers
      BY <1>2, <1>3, <1>10 DEF InParts
    <2>3. Len(kpu'.fifo) <= FifoLayers
      BY <1>5, <1>10
    <2> QED BY <1>2, <1>4, <1>9, <1>10, <1>12, <2>1, <2>2, <2>3 DEF Fed, Layers
  <1>14. Computing'
    BY <1>1, <1>2, <1>13 DEF Computing
  <1>15. Labelled'
    BY <1>1, <1>2 DEF Labelled
  <1> QED BY <1>11, <1>14, <1>15 DEF PipeIInv

\* The fifo is found almost empty: only the status of that changes.
LEMMA AlmostEmptyKeeps ==
  ASSUME PipeIInv, AlmostEmpty
  PROVE  PipeIInv'
  <1>1. /\ kpu' = [kpu EXCEPT !.raw = TRUE]
        /\ UNCHANGED <<ai_param_layer, step, buf_status, ai_buf, dma, dma_intstatus, input_data,
                       object_info, image, before, computed>>
    BY DEF AlmostEmpty
  <1>2. /\ kpu'.image = kpu.image /\ kpu'.fifo = kpu.fifo /\ kpu'.masked = kpu.masked
        /\ kpu'.result = kpu.result
    BY <1>1 DEF PipeIInv, PipeTypeOK
  <1>3. PipeTypeOK' /\ Labelled'
    BY <1>1 DEF PipeIInv, PipeTypeOK, Labelled
  <1>4. CASE Resting
    <2>1. Resting'
      BY <1>1, <1>2, <1>4 DEF Resting, Empty, Layers
    <2> QED BY <1>3, <2>1 DEF PipeIInv
  <1>5. CASE Sending
    <2>1. Sending'
      BY <1>1, <1>2, <1>5 DEF Sending, Empty
    <2> QED BY <1>3, <2>1 DEF PipeIInv
  <1>6. CASE Computing
    <2>1. Computing'
      BY <1>1, <1>2, <1>6 DEF Computing, Fed, Finished, InParts, Layers
    <2> QED BY <1>3, <2>1 DEF PipeIInv
  <1>7. CASE Arrived
    <2>1. Arrived'
      BY <1>1, <1>2, <1>7 DEF Arrived, Finished, Empty, Layers
    <2> QED BY <1>3, <2>1 DEF PipeIInv
  <1> QED BY <1>4, <1>5, <1>6, <1>7 DEF PipeIInv

\* The DMA channel brings the result.
LEMMA OutputDoneKeeps ==
  ASSUME PipeIInv, OutputDone
  PROVE  PipeIInv'
  <1>1. PipeTypeOK /\ Computing /\ Labelled /\ dma = "output" /\ kpu.result # <<>>
    BY DEF PipeIInv, OutputDone, Resting, Sending, Arrived
  <1>2. /\ kpu' = [kpu EXCEPT !.result = <<>>] /\ input_data' = kpu.result[1]
        /\ dma' = "none" /\ dma_intstatus' = TRUE
        /\ UNCHANGED <<ai_param_layer, step, buf_status, ai_buf, object_info, image, before, computed>>
    BY DEF OutputDone
  <1>3. kpu.result = <<image>> /\ Finished /\ step = "output" /\ buf_status = 1
    BY <1>1 DEF Computing, Fed
  <1>4. input_data' = image
    BY <1>2, <1>3
  <1>6. /\ kpu'.fifo = kpu.fifo /\ kpu'.masked = kpu.masked /\ kpu'.result = <<>>
        /\ kpu' \in [image : Pictures, fifo : Seq(Nat), masked : BOOLEAN, raw : BOOLEAN,
                     result : Seq(Pictures)]
    <2>1. PICK e \in Seq(Pictures) : e = <<>>
      BY EmptySeq
    <2>2. kpu' = [kpu EXCEPT !.result = e]
      BY <1>2, <2>1
    <2> QED BY <1>1, <2>1, <2>2 DEF PipeTypeOK
  <1>5. PipeTypeOK'
    BY <1>1, <1>2, <1>4, <1>6 DEF PipeTypeOK
  <1>7. Arrived'
    BY <1>2, <1>3, <1>4, <1>6 DEF Arrived, Finished, Empty, Layers
  <1>8. Labelled'
    BY <1>1, <1>2 DEF Labelled
  <1> QED BY <1>5, <1>7, <1>8 DEF PipeIInv

\* The interrupt of the DMA channel.
LEMMA DmaIrqKeeps ==
  ASSUME PipeIInv, ai_dma_irq
  PROVE  PipeIInv'
  <1> USE FaceDetectAssumption
  <1>1. PipeTypeOK /\ Labelled /\ dma_intstatus
    BY DEF PipeIInv, ai_dma_irq
  <1>2. dma_intstatus' = FALSE
        /\ UNCHANGED <<ai_param_layer, step, ai_buf, dma, input_data, object_info, image,
                       before, computed>>
    BY DEF ai_dma_irq
  <1>3. Labelled'
    BY <1>1, <1>2 DEF Labelled
  <1>4. CASE Sending
    <2>1. kpu' = ai_cal_start /\ buf_status' = 1
      BY <1>4 DEF ai_dma_irq, Sending
    <2>2. /\ Empty /\ computed = <<>> /\ kpu.image = image /\ step = "started"
          /\ input_data = before /\ dma = "none"
      BY <1>1, <1>4 DEF Sending
    <2>3. PICK m \in Nat : m = IF InParts THEN FirstLayers ELSE ai_param_layer
      BY <1>1 DEF PipeTypeOK
    <2>4. Layers(1, m) \in Seq(Nat)
      BY FirstOnes
    <2>5. <<>> \o Layers(1, m) = Layers(1, m)
      BY <2>4, ConcatEmptySeq
    <2>6. /\ kpu'.fifo = Layers(1, m) /\ kpu'.masked = ~InParts /\ kpu'.image = kpu.image
          /\ kpu'.result = kpu.result
          /\ kpu' \in [image : Pictures, fifo : Seq(Nat), masked : BOOLEAN, raw : BOOLEAN,
                       result : Seq(Pictures)]
      <3>1. Push(1, m) = Layers(1, m)
        <4>1. kpu.fifo = <<>> /\ kpu.fifo \in Seq(Nat) /\ Len(kpu.fifo) = 0
          BY <2>2, EmptySeq DEF Empty
        <4>2. m <= FifoLayers /\ m - 0 <= FifoLayers - Len(kpu.fifo) /\ 0 <= m
          BY <1>1, <2>3, <4>1 DEF InParts, PipeTypeOK
        <4>3. PICK n \in 0 .. m : /\ Push(0 + 1, m) = kpu.fifo \o Layers(0 + 1, n)
                                 /\ n = m
          <5>1. Len(kpu.fifo) <= FifoLayers
            BY <4>1
          <5> QED BY <4>1, <4>2, <5>1, PushTakes
        <4>4. 0 + 1 = 1
          OBVIOUS
        <4>5. Push(1, m) = <<>> \o Layers(1, m)
          BY <4>1, <4>3, <4>4, Zenon
        <4> QED BY <2>5, <4>5
      <3>2. kpu \in [image : Pictures, fifo : Seq(Nat), masked : BOOLEAN, raw : BOOLEAN,
                     result : Seq(Pictures)] /\ kpu.masked
        BY <1>1, <2>2 DEF PipeTypeOK, Empty
      <3>3. CASE InParts
        <4>1. kpu' = [kpu EXCEPT !.fifo = Layers(1, m), !.masked = FALSE]
          BY <2>1, <2>3, <3>1, <3>3 DEF ai_cal_start
        <4> QED BY <2>4, <3>2, <3>3, <4>1
      <3>4. CASE ~InParts
        <4>1. kpu' = [kpu EXCEPT !.fifo = Layers(1, m)]
          BY <2>1, <2>3, <3>1, <3>4 DEF ai_cal_start
        <4> QED BY <2>4, <3>2, <3>4, <4>1 DEF InParts
      <3> QED BY <3>3, <3>4
    <2>7. /\ computed' \o kpu'.fifo = Layers(1, m)
          /\ m \in 0 .. ai_param_layer' /\ Len(kpu'.fifo) <= FifoLayers
          /\ ~kpu'.masked => InParts' /\ m = FirstLayers
      <3>1. computed' \o kpu'.fifo = Layers(1, m)
        BY <1>2, <2>2, <2>5, <2>6
      <3>2. Len(kpu'.fifo) = m /\ m <= ai_param_layer /\ m <= FifoLayers
        BY <1>1, <2>3, <2>6, FirstOnes DEF InParts, PipeTypeOK
      <3> QED BY <1>2, <2>3, <2>6, <3>1, <3>2 DEF InParts
    <2>8. Fed'
      BY <1>2, <2>2, <2>6, <2>7 DEF Fed, Empty, Layers
    <2>9. Computing'
      BY <1>2, <2>1, <2>2, <2>8 DEF Computing
    <2>10. PipeTypeOK'
      BY <1>1, <1>2, <2>6 DEF PipeTypeOK
    <2> QED BY <1>3, <2>9, <2>10 DEF PipeIInv
  <1>5. CASE Arrived
    <2>1. buf_status = 1 /\ buf_status' = 2 /\ kpu' = kpu
      BY <1>1, <1>5 DEF ai_dma_irq, Arrived
    <2>2. PipeTypeOK' /\ Arrived'
      BY <1>1, <1>2, <1>5, <2>1 DEF PipeTypeOK, Arrived, Finished, Empty, Layers
    <2> QED BY <1>3, <2>2 DEF PipeIInv
  <1> QED BY <1>1, <1>4, <1>5 DEF PipeIInv, Resting, Computing

\* The interrupt of the accelerator: the rest of the layers, once.
LEMMA AiIrqKeeps ==
  ASSUME PipeIInv, ai_irq
  PROVE  PipeIInv'
  <1> USE FaceDetectAssumption
  <1>1. PipeTypeOK /\ Labelled /\ Computing /\ ~kpu.masked
    BY DEF PipeIInv, ai_irq, Resting, Sending, Arrived, Empty
  <1>2. /\ kpu' = [kpu EXCEPT !.masked = TRUE, !.raw = FALSE,
                              !.fifo = Push(FirstLayers + 1, ai_param_layer)]
        /\ UNCHANGED <<ai_param_layer, step, buf_status, ai_buf, dma, dma_intstatus, input_data,
                       object_info, image, before, computed>>
    BY DEF ai_irq
  <1>3. /\ computed \in Seq(Nat) /\ kpu.fifo \in Seq(Nat) /\ ai_param_layer \in Nat
        /\ computed \o kpu.fifo = Layers(1, FirstLayers)
        /\ kpu.image = image /\ kpu.result = <<>> /\ InParts /\ Len(kpu.fifo) <= FifoLayers
    BY <1>1 DEF Computing, Fed, Finished, PipeTypeOK
  <1>4. PICK n \in FirstLayers .. ai_param_layer :
            /\ Push(FirstLayers + 1, ai_param_layer) = kpu.fifo \o Layers(FirstLayers + 1, n)
            /\ Len(Push(FirstLayers + 1, ai_param_layer)) <= FifoLayers
    <2>1. FirstLayers <= ai_param_layer
      BY <1>3 DEF InParts
    <2> QED BY <1>3, <2>1, PushTakes
  <1>5. PICK u : u = Layers(FirstLayers + 1, n)
    OBVIOUS
  <1>6. u \in Seq(Nat) /\ Layers(1, FirstLayers) \o u = Layers(1, n)
    <2>1. n \in Nat /\ FirstLayers \in Nat /\ FirstLayers <= n
      BY <1>3, <1>4
    <2> QED BY <1>5, <2>1, Joined
  <1>7. computed \o (kpu.fifo \o u) = Layers(1, n) /\ kpu.fifo \o u \in Seq(Nat)
    <2>1. kpu.fifo \o u \in Seq(Nat)
      BY <1>3, <1>6, ConcatProperties
    <2>2. (computed \o kpu.fifo) \o u = computed \o (kpu.fifo \o u)
      BY <1>3, <1>6, Regroup, Zenon
    <2> QED BY <1>3, <1>6, <2>1, <2>2, Zenon
  <1>8. /\ kpu'.fifo = kpu.fifo \o u /\ kpu'.masked = TRUE /\ kpu'.image = kpu.image
        /\ kpu'.result = kpu.result
        /\ kpu' \in [image : Pictures, fifo : Seq(Nat), masked : BOOLEAN, raw : BOOLEAN,
                     result : Seq(Pictures)]
    <2>1. kpu' = [kpu EXCEPT !.masked = TRUE, !.raw = FALSE, !.fifo = kpu.fifo \o u]
      BY <1>2, <1>4, <1>5
    <2>2. PICK v \in Seq(Nat) : v = kpu.fifo \o u
      BY <1>7
    <2>3. kpu' = [kpu EXCEPT !.masked = TRUE, !.raw = FALSE, !.fifo = v]
      BY <2>1, <2>2
    <2> QED BY <1>1, <2>2, <2>3 DEF PipeTypeOK
  <1>9. PipeTypeOK'
    BY <1>1, <1>2, <1>8 DEF PipeTypeOK
  <1>10. Fed'
    <2>1. computed' \o kpu'.fifo = Layers(1, n) /\ n \in 0 .. ai_param_layer'
      <3>1. n \in 0 .. ai_param_layer
        BY <1>3, <1>4
      <3>2. computed' \o kpu'.fifo = Layers(1, n)
        BY <1>2, <1>7, <1>8
      <3> QED BY <1>2, <3>1, <3>2
    <2>2. Len(kpu'.fifo) <= FifoLayers
      BY <1>4, <1>5, <1>8
    <2> QED BY <1>2, <1>3, <1>8, <2>1, <2>2 DEF Fed, Layers
  <1>11. Computing'
    BY <1>1, <1>2, <1>10 DEF Computing
  <1>12. Labelled'
    BY <1>1, <1>2 DEF Labelled
  <1> QED BY <1>9, <1>11, <1>12 DEF PipeIInv

\* The program's calls.
LEMMA AiInitKeeps ==
  ASSUME PipeIInv, machine_ai_init
  PROVE  PipeIInv'
  <1> USE FaceDetectAssumption
  <1>1. PipeTypeOK /\ Labelled /\ Resting
    BY DEF PipeIInv, machine_ai_init, Sending, Computing, Arrived
  <1>2. buf_status' = 0 /\ UNCHANGED <<step, ai_buf, dma>>
    BY DEF machine_ai_init
  <1>3. CASE UNCHANGED <<ai_param_layer, input_data, image, before, computed, kpu, dma_intstatus>>
    <2>1. PipeTypeOK'
      BY <1>1, <1>2, <1>3 DEF PipeTypeOK
    <2>2. Resting'
      BY <1>1, <1>2, <1>3 DEF Resting, Empty, Layers
    <2>3. Labelled'
      BY <1>1, <1>2, <1>3 DEF Labelled, Resting
    <2> QED BY <2>1, <2>2, <2>3 DEF PipeIInv
  <1>4. CASE /\ \E n \in LayerCounts, s \in Scenes :
                  /\ ai_param_layer' = n /\ input_data' = s
                  /\ image' = s /\ before' = NoScene /\ computed' = <<>>
             /\ kpu' = [kpu EXCEPT !.masked = TRUE, !.raw = FALSE]
             /\ dma_intstatus' = FALSE
    <2>1. PICK n \in LayerCounts, s \in Scenes :
            /\ ai_param_layer' = n /\ input_data' = s
            /\ image' = s /\ before' = NoScene /\ computed' = <<>>
      BY <1>4
    <2>2. /\ kpu'.fifo = kpu.fifo /\ kpu'.masked = TRUE /\ kpu'.result = kpu.result
          /\ kpu' \in [image : Pictures, fifo : Seq(Nat), masked : BOOLEAN, raw : BOOLEAN,
                       result : Seq(Pictures)]
      BY <1>1, <1>4 DEF PipeTypeOK
    <2>3. s \in Pictures /\ NoScene' = NoScene /\ NoScene \in Pictures
      BY DEF Pictures, NoScene, Boxes, Classes
    <2>4. computed' \in Seq(Nat)
      BY <2>1, EmptySeq
    <2>5. PipeTypeOK'
      BY <1>1, <1>2, <2>1, <2>2, <2>3, <2>4 DEF PipeTypeOK
    <2>6. Resting'
      BY <1>1, <1>2, <1>4, <2>1, <2>2 DEF Resting, Empty
    <2>7. Labelled'
      BY <1>1, <1>2, <2>1 DEF Labelled, Resting
    <2> QED BY <2>5, <2>6, <2>7 DEF PipeIInv
  <1> QED BY <1>3, <1>4 DEF machine_ai_init

LEMMA ProcessImageKeeps ==
  ASSUME PipeIInv, NEW im \in Images, Initialised, machine_ai_process_image(im)
  PROVE  PipeIInv'
  <1>1. PipeTypeOK /\ Labelled /\ Resting
    BY DEF PipeIInv, machine_ai_process_image, Sending, Computing, Arrived
  <1>2. /\ ai_param_layer # 0 /\ buf_status' = 0 /\ ai_buf' = im /\ dma' = "input"
        /\ step' = "started" /\ image' = im /\ before' = image /\ computed' = <<>>
        /\ UNCHANGED <<ai_param_layer, dma_intstatus, kpu, input_data, object_info>>
    BY DEF machine_ai_process_image, Initialised
  <1>3. im \in Pictures /\ computed' \in Seq(Nat)
    BY <1>2, EmptySeq DEF Pictures
  <1>4. PipeTypeOK'
    BY <1>1, <1>2, <1>3 DEF PipeTypeOK
  <1>5. Sending'
    BY <1>1, <1>2 DEF Sending, Resting, Empty
  <1>6. Labelled'
    BY <1>1, <1>2 DEF Labelled
  <1> QED BY <1>4, <1>5, <1>6 DEF PipeIInv

LEMMA ProcessingKeeps ==
  ASSUME PipeIInv, ai_cal \/ ai_data_output \/ ai_draw_label
  PROVE  PipeIInv'
  <1>0. PipeTypeOK /\ Labelled
    BY DEF PipeIInv
  <1>1. CASE ai_cal
    <2>1. Computing /\ step = "started"
      BY <1>1 DEF PipeIInv, ai_cal, Resting, Sending, Arrived
    <2>2. /\ object_info' \in Answers[input_data] /\ step' = "second"
          /\ UNCHANGED <<ai_param_layer, buf_status, ai_buf, dma, dma_intstatus, kpu, input_data,
                         image, before, computed>>
      BY <1>1 DEF ai_cal
    <2>3. PipeTypeOK'
      BY <1>0, <2>2 DEF PipeTypeOK
    <2>4. Computing'
      BY <2>1, <2>2 DEF Computing, Fed, Finished, InParts, Layers
    <2>5. Labelled'
      <3>1. object_info' \in Answers[before]
        BY <2>1, <2>2 DEF Computing
      <3> QED BY <1>0, <2>1, <2>2, <3>1 DEF Labelled
    <2> QED BY <2>3, <2>4, <2>5 DEF PipeIInv
  <1>2. CASE ai_data_output
    <2>1. Computing /\ step = "second"
      BY <1>2 DEF PipeIInv, ai_data_output, Resting, Sending, Arrived
    <2>2. /\ dma' = "output" /\ step' = "output"
          /\ UNCHANGED <<ai_param_layer, buf_status, ai_buf, dma_intstatus, kpu, input_data,
                         object_info, image, before, computed>>
      BY <1>2 DEF ai_data_output
    <2>3. PipeTypeOK'
      BY <1>0, <2>2 DEF PipeTypeOK
    <2>4. Computing'
      BY <2>1, <2>2 DEF Computing, Fed, Finished, InParts, Layers
    <2>5. Labelled'
      BY <1>0, <2>1, <2>2 DEF Labelled
    <2> QED BY <2>3, <2>4, <2>5 DEF PipeIInv
  <1>3. CASE ai_draw_label
    <2>1. Arrived /\ buf_status = 2 /\ ~dma_intstatus
      BY <1>3 DEF PipeIInv, ai_draw_label, Resting, Sending, Computing, Arrived
    <2>2. step' = "idle" /\ UNCHANGED <<ai_param_layer, buf_status, ai_buf, dma, dma_intstatus, kpu,
                                         input_data, object_info, image, before, computed>>
      BY <1>3 DEF ai_draw_label, pipeVars
    <2>3. PipeTypeOK'
      BY <1>0, <2>2 DEF PipeTypeOK
    <2>4. Resting'
      BY <2>1, <2>2 DEF Resting, Arrived, Finished, Empty, Layers
    <2>5. Labelled'
      BY <1>0, <2>2 DEF Labelled
    <2> QED BY <2>3, <2>4, <2>5 DEF PipeIInv
  <1> QED BY <1>1, <1>2, <1>3

\* The camera's steps leave the pipeline alone.
LEMMA CameraKeepsPipe ==
  ASSUME PipeIInv, UNCHANGED aiVars
  PROVE  PipeIInv'
  <1>1. UNCHANGED <<ai_param_layer, step, buf_status, ai_buf, dma, dma_intstatus, kpu, input_data,
                    object_info, image, before, computed>>
    BY DEF aiVars
  <1>2. PipeTypeOK' /\ Labelled'
    BY <1>1 DEF PipeIInv, PipeTypeOK, Labelled
  <1>3. CASE Resting
    <2>1. Resting'
      BY <1>1, <1>3 DEF Resting, Empty, Layers
    <2> QED BY <1>2, <2>1 DEF PipeIInv
  <1>4. CASE Sending
    <2>1. Sending'
      BY <1>1, <1>4 DEF Sending, Empty
    <2> QED BY <1>2, <2>1 DEF PipeIInv
  <1>5. CASE Computing
    <2>1. Computing'
      BY <1>1, <1>5 DEF Computing, Fed, Finished, InParts, Layers
    <2> QED BY <1>2, <2>1 DEF PipeIInv
  <1>6. CASE Arrived
    <2>1. Arrived'
      BY <1>1, <1>6 DEF Arrived, Finished, Empty, Layers
    <2> QED BY <1>2, <2>1 DEF PipeIInv
  <1> QED BY <1>3, <1>4, <1>5, <1>6 DEF PipeIInv

LEMMA PipeInvariance == Spec => []PipeIInv
  <1>1. Init => PipeIInv
    <2> SUFFICES ASSUME AiInit PROVE PipeIInv
      BY DEF Init
    <2>1. NoScene \in Pictures /\ <<>> \in Seq(Nat) /\ <<>> \in Seq(Pictures)
      BY EmptySeq DEF Pictures
    <2>2. PipeTypeOK
      BY <2>1 DEF AiInit, PipeTypeOK
    <2>3. Resting
      BY DEF AiInit, Resting, Empty
    <2>4. Labelled
      BY DEF AiInit, Labelled
    <2> QED BY <2>2, <2>3, <2>4 DEF PipeIInv
  <1>2. PipeIInv /\ [Next]_vars => PipeIInv'
    <2> SUFFICES ASSUME PipeIInv, [Next]_vars PROVE PipeIInv'
      OBVIOUS
    <2>1. CASE Hardware
      BY <2>1, InputDoneKeeps, ExecuteLayerKeeps, AlmostEmptyKeeps, OutputDoneKeeps, CameraKeepsPipe DEF Hardware
    <2>2. CASE Interrupt
      BY <2>2, DmaIrqKeeps, AiIrqKeeps, CameraKeepsPipe DEF Interrupt
    <2>3. CASE Show \/ CameraCalls
      BY <2>3, CameraKeepsPipe DEF Show, CameraCalls
    <2>4. CASE AiCalls
      BY <2>4, AiInitKeeps, ProcessImageKeeps DEF AiCalls
    <2>5. CASE Processing
      BY <2>5, ProcessingKeeps DEF Processing
    <2>6. CASE UNCHANGED vars
      BY <2>6, CameraKeepsPipe DEF vars
    <2> QED BY <2>1, <2>2, <2>3, <2>4, <2>5, <2>6 DEF Next
  <1> QED BY <1>1, <1>2, PTL DEF Spec

(***************************************************************************)
(* The accelerator gets the layers of an image once and in order, and only *)
(* after the image, however its interrupt and the DMA channel's interleave *)
(* with the program; buf_status is 2 only when all have been computed.     *)
(***************************************************************************)
THEOREM LayersAreInOrder == Spec => []LayersInOrder
  <1>1. PipeIInv => LayersInOrder
    <2> USE FaceDetectAssumption
    <2> SUFFICES ASSUME PipeIInv PROVE LayersInOrder
      OBVIOUS
    <2>0. /\ computed \in Seq(Nat) /\ kpu.fifo \in Seq(Nat) /\ ai_param_layer \in Nat
      BY DEF PipeIInv, PipeTypeOK
    <2>1. ASSUME NEW m \in Nat, computed \o kpu.fifo = Layers(1, m)
          PROVE  computed \o kpu.fifo = Layers(1, Len(computed \o kpu.fifo))
      <3>1. Len(computed \o kpu.fifo) = m
        BY <2>1, FirstOnes
      <3> QED BY <2>1, <3>1, Zenon
    <2>2. \E m \in Nat : computed \o kpu.fifo = Layers(1, m)
      <3>1. CASE Computing
        <4>1. PICK m \in 0 .. ai_param_layer : computed \o kpu.fifo = Layers(1, m)
          BY <3>1 DEF Computing, Fed
        <4> QED BY <2>0, <4>1
      <3>2. CASE kpu.fifo = <<>> /\ computed = Layers(1, ai_param_layer)
        BY <2>0, <3>2, ConcatEmptySeq
      <3>3. CASE kpu.fifo = <<>> /\ computed = <<>>
        <4>1. Layers(1, 0) \in Seq(Nat) /\ Len(Layers(1, 0)) = 0
          BY FirstOnes
        <4>2. Layers(1, 0) = <<>>
          BY <4>1, EmptySeq
        <4>3. computed \o kpu.fifo = <<>>
          BY <2>0, <3>3, ConcatEmptySeq
        <4>4. computed \o kpu.fifo = Layers(1, 0) /\ 0 \in Nat
          BY <4>2, <4>3
        <4> QED BY <4>4
      <3> QED BY <3>1, <3>2, <3>3 DEF PipeIInv, Resting, Sending, Arrived, Empty, Finished
    <2>3. kpu.fifo # <<>> => kpu.image = image
      BY DEF PipeIInv, Resting, Sending, Computing, Arrived, Empty, Fed
    <2>4. buf_status = 2 => computed = Layers(1, ai_param_layer)
      BY DEF PipeIInv, Resting, Sending, Computing, Arrived, Finished
    <2> QED BY <2>1, <2>2, <2>3, <2>4 DEF LayersInOrder
  <1> QED BY <1>1, PipeInvariance, PTL

(***************************************************************************)
(* As long as the network has no more classes than the array output holds, *)
(* one with the sizes of the code, the objects machine_ai_process_image    *)
(* draws are a right answer for the image of the call before: the result   *)
(* it reads is complete and not yet overwritten, and non-maximum           *)
(* suppression has kept what it should.                                    *)
(***************************************************************************)
THEOREM LabelsArePrevious == OutputFits /\ Spec => []LabelsOfPreviousImage
  <1> SUFFICES ASSUME OutputFits PROVE Spec => []LabelsOfPreviousImage
    OBVIOUS
  <1>1. PipeIInv => LabelsOfPreviousImage
    <2> SUFFICES ASSUME PipeIInv, step \in {"second", "output"}
                 PROVE  Detects(object_info, before)
      BY DEF LabelsOfPreviousImage
    <2>1. before \in Images \cup Scenes /\ object_info \in Answers[before]
      BY DEF PipeIInv, Labelled
    <2>2. before \in [Boxes -> [Classes -> Nat]]
      BY <2>1, FaceDetectAssumption
    <2>3. Answers[before] =
            {region_layer_detect_object(p) : p \in do_nms_sort(get_region_boxes(before))}
      BY <2>1, OutputFits DEF Answers
    <2>4. PICK p \in do_nms_sort(get_region_boxes(before)) :
             object_info = region_layer_detect_object(p)
      BY <2>1, <2>3, Zenon
    <2>5. Detects(region_layer_detect_object(p), before)
      BY <2>2, AnswersAreRight
    <2> QED BY <2>4, <2>5
  <1> QED BY <1>1, PipeInvariance, PTL
=============================================================================
