-------------------------- MODULE UmmMallocProofs --------------------------
(***************************************************************************)
(* Proofs about the heap of umm_malloc.c for heaps of any size and any     *)
(* sequence of calls.  A memory is looked at as four functions of links    *)
(* and a set of free bits; the helpers of the code are shown to change     *)
(* these in one place (Writes), to keep the chain of headers and the ring  *)
(* of free blocks (HeapShape), then, call by call, to keep what the other  *)
(* clients own (Sane) and wrote there (Holds).  InOrder, which says both,  *)
(* is inductive and implies HeapIInv.                                      *)
(***************************************************************************)
EXTENDS UmmMallocInv, FiniteSetTheorems, WellFoundedInduction, TLAPS

-----------------------------------------------------------------------------
(* A nonempty set of natural numbers has a least element. *)
LEMMA LeastNatural ==
  ASSUME NEW T, T \subseteq Nat, T # {}
  PROVE  \E x \in T : \A y \in T : x <= y
  <1>1. PICK R : R = OpToRel(<, Nat)
    OBVIOUS
  <1>2. IsWellFoundedOn(R, Nat)
    BY <1>1, NatLessThanWellFounded
  <1>3. PICK x \in T : \A y \in T : ~ (<<y, x>> \in R)
    BY <1>2, WFMin
  <1>4. ASSUME NEW y \in T PROVE x <= y
    <2>1. ~ (<<y, x>> \in OpToRel(<, Nat))
      BY <1>1, <1>3
    <2>2. ~ (y < x)
      BY <2>1 DEF OpToRel
    <2> QED BY <2>2
  <1> QED BY <1>4

(* A nonempty, bounded set of natural numbers has a greatest element. *)
LEMMA GreatestNatural ==
  ASSUME NEW T, NEW m \in Nat, T \subseteq 0 .. m, T # {}
  PROVE  \E x \in T : \A y \in T : y <= x
  <1>1. PICK x \in {m - y : y \in T} : \A z \in {m - y : y \in T} : x <= z
    <2>1. \A y \in T : m - y \in Nat
      OBVIOUS
    <2>2. PICK y \in T : TRUE
      OBVIOUS
    <2>3. {m - z : z \in T} \subseteq Nat
      BY <2>1
    <2>4. m - y \in {m - z : z \in T}
      BY <2>2
    <2> QED BY <2>3, <2>4, LeastNatural
  <1>2. PICK y \in T : x = m - y
    BY <1>1
  <1>3. \A z \in T : m - y <= m - z
    BY <1>1, <1>2
  <1> QED BY <1>3

(* A set of natural numbers that holds 0 and, with a number below n, the   *)
(* next one, holds all numbers up to n.                                    *)
LEMMA InductionUpTo ==
  ASSUME NEW T, NEW n \in Nat, 0 \in T,
         \A i \in 0 .. n - 1 : i \in T => i + 1 \in T
  PROVE  \A i \in 0 .. n : i \in T
  <1> SUFFICES ASSUME NEW x \in 0 .. n, x \notin T PROVE FALSE
    OBVIOUS
  <1> DEFINE Bad == {y \in 0 .. n : y \notin T}
  <1>1. Bad \subseteq Nat /\ Bad # {}
    OBVIOUS
  <1>2. PICK b \in Bad : \A y \in Bad : b <= y
    BY <1>1, LeastNatural
  <1>3. b \in 0 .. n /\ b # 0
    OBVIOUS
  <1>4. b - 1 \in 0 .. n - 1 /\ ~ (b <= b - 1) /\ b - 1 \in 0 .. n
    BY <1>3
  <1>5. b - 1 \in T
    BY <1>2, <1>4
  <1>6. b - 1 + 1 \in T
    BY <1>4, <1>5
  <1> QED BY <1>3, <1>6

(* f holds the values of a loop of n rounds, after each round, that starts *)
(* with v and has the body G.                                              *)
Iterates(f, v, n, G) ==
  f[0] = v /\ \A i \in 1 .. n : f[i] = G[<<i, f[i - 1]>>]

(* A loop of n rounds computes something in each.                          *)
LEMMA IteratedFunction ==
  ASSUME NEW V, NEW v \in V, NEW n \in Nat, NEW G \in [(1 .. n) \X V -> V]
  PROVE  \E f \in [0 .. n -> V] : Iterates(f, v, n, G)
  <1> DEFINE Computes(f, m) ==
         f[0] = v /\ \A i \in 1 .. m : f[i] = G[<<i, f[i - 1]>>]
  <1> DEFINE T == {m \in 0 .. n : \E f \in [0 .. m -> V] : Computes(f, m)}
  <1>1. 0 \in T
    <2>1. PICK f : f = [i \in 0 .. 0 |-> v]
      OBVIOUS
    <2>2. f \in [0 .. 0 -> V] /\ Computes(f, 0)
      BY <2>1
    <2> QED BY <2>2
  <1>2. ASSUME NEW m \in 0 .. n - 1, m \in T PROVE m + 1 \in T
    <2>1. PICK f \in [0 .. m -> V] : Computes(f, m)
      BY <1>2
    <2>2. PICK w \in V : w = G[<<m + 1, f[m]>>]
      <3>1. m + 1 \in 1 .. n /\ m \in 0 .. m
        OBVIOUS
      <3> QED BY <3>1
    <2>3. PICK g : g = [i \in 0 .. m + 1 |-> IF i = m + 1 THEN w ELSE f[i]]
      OBVIOUS
    <2>4. g \in [0 .. m + 1 -> V]
      BY <2>3
    <2>5. \A i \in 0 .. m : g[i] = f[i]
      BY <2>3
    <2>6. g[0] = v
      BY <2>1, <2>5
    <2>7. ASSUME NEW i \in 1 .. m + 1 PROVE g[i] = G[<<i, g[i - 1]>>]
      <3>1. CASE i = m + 1
        <4>1. g[i] = w /\ g[i - 1] = f[m]
          BY <2>3, <2>5, <3>1
        <4> QED BY <2>2, <3>1, <4>1
      <3>2. CASE i # m + 1
        <4>1. i \in 1 .. m /\ i - 1 \in 0 .. m /\ i \in 0 .. m
          BY <3>2
        <4>2. f[i] = G[<<i, f[i - 1]>>]
          BY <2>1, <4>1
        <4> QED BY <2>5, <4>1, <4>2
      <3> QED BY <3>1, <3>2
    <2>8. m + 1 \in 0 .. n
      OBVIOUS
    <2> QED BY <2>4, <2>6, <2>7, <2>8
  <1>3. n \in T
    <2> HIDE DEF T
    <2>1. \A i \in 0 .. n : i \in T
      BY <1>1, <1>2, InductionUpTo
    <2> QED BY <2>1
  <1> QED BY <1>3 DEF Iterates

-----------------------------------------------------------------------------
(* A memory as four functions from blocks to links and the set of blocks   *)
(* with the free bit.                                                      *)
Nexts(m, n) == [b \in 0 .. n - 1 |-> NBLOCK(m, b)]
Prevs(m, n) == [b \in 0 .. n - 1 |-> PBLOCK(m, b)]
NextFrees(m, n) == [b \in 0 .. n - 1 |-> NFREE(m, b)]
PrevFrees(m, n) == [b \in 0 .. n - 1 |-> PFREE(m, b)]
FreeSet(m, n) == {b \in 0 .. n - 1 : IsFree(m, b)}

(* Only cells of X differ. *)
Kept(m, w, n, X) == \A y \in 0 .. 2 * n - 1 : y \notin X => w[y] = m[y]

(* w is m but for cells of X and has the given links. *)
Becomes(m, w, n, X, nb, pb, nf, pf, fs) ==
  /\ w \in Memory(n) /\ Kept(m, w, n, X)
  /\ Nexts(w, n) = nb /\ Prevs(w, n) = pb
  /\ NextFrees(w, n) = nf /\ PrevFrees(w, n) = pf /\ FreeSet(w, n) = fs

(* Headers and bodies of different blocks are different cells. *)
LEMMA CellsApart ==
  ASSUME NEW n \in Nat, NEW b \in 0 .. n - 1, NEW c \in 0 .. n - 1
  PROVE  /\ 2 * b \in 0 .. 2 * n - 1 /\ 2 * b + 1 \in 0 .. 2 * n - 1
         /\ 2 * b # 2 * c + 1
         /\ 2 * b = 2 * c <=> b = c
         /\ 2 * b + 1 = 2 * c + 1 <=> b = c
  OBVIOUS

(* The links of a memory are natural numbers. *)
LEMMA LinksTyped ==
  ASSUME NEW n \in Nat, NEW m \in Memory(n)
  PROVE  /\ Nexts(m, n) \in [0 .. n - 1 -> Nat] /\ Prevs(m, n) \in [0 .. n - 1 -> Nat]
         /\ NextFrees(m, n) \in [0 .. n - 1 -> Nat] /\ PrevFrees(m, n) \in [0 .. n - 1 -> Nat]
         /\ FreeSet(m, n) \subseteq 0 .. n - 1
  BY CellsApart DEF Memory, Cell, NBLOCK, PBLOCK, NFREE, PFREE, Nexts, Prevs, NextFrees, PrevFrees, FreeSet

(* Each setter changes one link of one block. *)
LEMMA SetNBlockWrites ==
  ASSUME NEW n \in Nat, NEW m \in Memory(n), NEW b \in 0 .. n - 1, NEW v \in Nat, NEW f \in BOOLEAN
  PROVE  Becomes(m, SetNBlock(m, b, v, f), n, {2 * b}, [Nexts(m, n) EXCEPT ![b] = v], Prevs(m, n),
                 NextFrees(m, n), PrevFrees(m, n), IF f THEN FreeSet(m, n) \cup {b} ELSE FreeSet(m, n) \ {b})
  <1>0. PICK w : w = SetNBlock(m, b, v, f)
    OBVIOUS
  <1>1. PICK y \in 0 .. 2 * n - 1 : y = 2 * b
    BY CellsApart
  <1>2. PICK r \in Cell : r = [m[y] EXCEPT !.next = v, !.free = f] /\ r.next = v /\ r.free = f /\ r.prev = m[y].prev
    <2>1. PICK q \in Cell : q = m[y]
      BY DEF Memory
    <2>2. PICK r : r = [q EXCEPT !.next = v, !.free = f]
      OBVIOUS
    <2>3. r \in Cell /\ r.next = v /\ r.free = f /\ r.prev = q.prev
      BY <2>2 DEF Cell
    <2> QED BY <2>1, <2>2, <2>3
  <1>3. w = [m EXCEPT ![y] = r]
    BY <1>0, <1>1, <1>2 DEF SetNBlock, Memory
  <1>4. w \in Memory(n) /\ w[y] = r /\ Kept(m, w, n, {2 * b})
    BY <1>1, <1>3 DEF Memory, Kept
  <1>5. \A c \in 0 .. n - 1 : w[2 * c + 1] = m[2 * c + 1] /\ (c # b => w[2 * c] = m[2 * c])
    BY <1>1, <1>4, CellsApart DEF Kept
  <1>6. Nexts(w, n) = [Nexts(m, n) EXCEPT ![b] = v]
    BY <1>1, <1>2, <1>4, <1>5 DEF Nexts, NBLOCK
  <1>7. Prevs(w, n) = Prevs(m, n)
    BY <1>1, <1>2, <1>4, <1>5 DEF Prevs, PBLOCK
  <1>8. NextFrees(w, n) = NextFrees(m, n)
    BY <1>1, <1>2, <1>4, <1>5 DEF NextFrees, NFREE
  <1>9. PrevFrees(w, n) = PrevFrees(m, n)
    BY <1>1, <1>2, <1>4, <1>5 DEF PrevFrees, PFREE
  <1>10. FreeSet(w, n) = IF f THEN FreeSet(m, n) \cup {b} ELSE FreeSet(m, n) \ {b}
    BY <1>1, <1>2, <1>4, <1>5 DEF FreeSet, IsFree
  <1> QED BY <1>0, <1>4, <1>6, <1>7, <1>8, <1>9, <1>10 DEF Becomes

(* The back link of a header. *)
LEMMA SetPBlockWrites ==
  ASSUME NEW n \in Nat, NEW m \in Memory(n), NEW b \in 0 .. n - 1, NEW v \in Nat
  PROVE  Becomes(m, SetPBlock(m, b, v), n, {2 * b}, Nexts(m, n), [Prevs(m, n) EXCEPT ![b] = v],
                 NextFrees(m, n), PrevFrees(m, n), FreeSet(m, n))
  <1>0. PICK w : w = SetPBlock(m, b, v)
    OBVIOUS
  <1>1. PICK y \in 0 .. 2 * n - 1 : y = 2 * b
    BY CellsApart
  <1>2. PICK r \in Cell : r = [m[y] EXCEPT !.prev = v] /\ r.next = m[y].next /\ r.free = m[y].free /\ r.prev = v
    <2>1. PICK q \in Cell : q = m[y]
      BY DEF Memory
    <2>2. PICK r : r = [q EXCEPT !.prev = v]
      OBVIOUS
    <2>3. r \in Cell /\ r.next = q.next /\ r.free = q.free /\ r.prev = v
      BY <2>2 DEF Cell
    <2> QED BY <2>1, <2>2, <2>3
  <1>3. w = [m EXCEPT ![y] = r]
    BY <1>0, <1>1, <1>2 DEF SetPBlock, Memory
  <1>4. w \in Memory(n) /\ w[y] = r /\ Kept(m, w, n, {2 * b})
    BY <1>1, <1>3 DEF Memory, Kept
  <1>5. \A c \in 0 .. n - 1 : w[2 * c + 1] = m[2 * c + 1] /\ (c # b => w[2 * c] = m[2 * c])
    BY <1>1, <1>4, CellsApart DEF Kept
  <1>6. Nexts(w, n) = Nexts(m, n)
    BY <1>1, <1>2, <1>4, <1>5 DEF Nexts, NBLOCK
  <1>7. Prevs(w, n) = [Prevs(m, n) EXCEPT ![b] = v]
    BY <1>1, <1>2, <1>4, <1>5 DEF Prevs, PBLOCK
  <1>8. NextFrees(w, n) = NextFrees(m, n)
    BY <1>1, <1>2, <1>4, <1>5 DEF NextFrees, NFREE
  <1>9. PrevFrees(w, n) = PrevFrees(m, n)
    BY <1>1, <1>2, <1>4, <1>5 DEF PrevFrees, PFREE
  <1>10. FreeSet(w, n) = FreeSet(m, n)
    BY <1>1, <1>2, <1>4, <1>5 DEF FreeSet, IsFree
  <1> QED BY <1>0, <1>4, <1>6, <1>7, <1>8, <1>9, <1>10 DEF Becomes

(* The forward link of the free list. *)
LEMMA SetNFreeWrites ==
  ASSUME NEW n \in Nat, NEW m \in Memory(n), NEW b \in 0 .. n - 1, NEW v \in Nat
  PROVE  Becomes(m, SetNFree(m, b, v), n, {2 * b + 1}, Nexts(m, n), Prevs(m, n),
                 [NextFrees(m, n) EXCEPT ![b] = v], PrevFrees(m, n), FreeSet(m, n))
  <1>0. PICK w : w = SetNFree(m, b, v)
    OBVIOUS
  <1>1. PICK y \in 0 .. 2 * n - 1 : y = 2 * b + 1
    BY CellsApart
  <1>2. PICK r \in Cell : r = [m[y] EXCEPT !.next = v] /\ r.next = v /\ r.prev = m[y].prev
    <2>1. PICK q \in Cell : q = m[y]
      BY DEF Memory
    <2>2. PICK r : r = [q EXCEPT !.next = v]
      OBVIOUS
    <2>3. r \in Cell /\ r.next = v /\ r.prev = q.prev
      BY <2>2 DEF Cell
    <2> QED BY <2>1, <2>2, <2>3
  <1>3. w = [m EXCEPT ![y] = r]
    BY <1>0, <1>1, <1>2 DEF SetNFree, Memory
  <1>4. w \in Memory(n) /\ w[y] = r /\ Kept(m, w, n, {2 * b + 1})
    BY <1>1, <1>3 DEF Memory, Kept
  <1>5. \A c \in 0 .. n - 1 : w[2 * c] = m[2 * c] /\ (c # b => w[2 * c + 1] = m[2 * c + 1])
    BY <1>1, <1>4, CellsApart DEF Kept
  <1>6. Nexts(w, n) = Nexts(m, n)
    BY <1>1, <1>2, <1>4, <1>5 DEF Nexts, NBLOCK
  <1>7. Prevs(w, n) = Prevs(m, n)
    BY <1>1, <1>2, <1>4, <1>5 DEF Prevs, PBLOCK
  <1>8. NextFrees(w, n) = [NextFrees(m, n) EXCEPT ![b] = v]
    BY <1>1, <1>2, <1>4, <1>5 DEF NextFrees, NFREE
  <1>9. PrevFrees(w, n) = PrevFrees(m, n)
    BY <1>1, <1>2, <1>4, <1>5 DEF PrevFrees, PFREE
  <1>10. FreeSet(w, n) = FreeSet(m, n)
    BY <1>1, <1>2, <1>4, <1>5 DEF FreeSet, IsFree
  <1> QED BY <1>0, <1>4, <1>6, <1>7, <1>8, <1>9, <1>10 DEF Becomes

(* The back link of the free list. *)
LEMMA SetPFreeWrites ==
  ASSUME NEW n \in Nat, NEW m \in Memory(n), NEW b \in 0 .. n - 1, NEW v \in Nat
  PROVE  Becomes(m, SetPFree(m, b, v), n, {2 * b + 1}, Nexts(m, n), Prevs(m, n),
                 NextFrees(m, n), [PrevFrees(m, n) EXCEPT ![b] = v], FreeSet(m, n))
  <1>0. PICK w : w = SetPFree(m, b, v)
    OBVIOUS
  <1>1. PICK y \in 0 .. 2 * n - 1 : y = 2 * b + 1
    BY CellsApart
  <1>2. PICK r \in Cell : r = [m[y] EXCEPT !.prev = v] /\ r.next = m[y].next /\ r.prev = v
    <2>1. PICK q \in Cell : q = m[y]
      BY DEF Memory
    <2>2. PICK r : r = [q EXCEPT !.prev = v]
      OBVIOUS
    <2>3. r \in Cell /\ r.next = q.next /\ r.prev = v
      BY <2>2 DEF Cell
    <2> QED BY <2>1, <2>2, <2>3
  <1>3. w = [m EXCEPT ![y] = r]
    BY <1>0, <1>1, <1>2 DEF SetPFree, Memory
  <1>4. w \in Memory(n) /\ w[y] = r /\ Kept(m, w, n, {2 * b + 1})
    BY <1>1, <1>3 DEF Memory, Kept
  <1>5. \A c \in 0 .. n - 1 : w[2 * c] = m[2 * c] /\ (c # b => w[2 * c + 1] = m[2 * c + 1])
    BY <1>1, <1>4, CellsApart DEF Kept
  <1>6. Nexts(w, n) = Nexts(m, n)
    BY <1>1, <1>2, <1>4, <1>5 DEF Nexts, NBLOCK
  <1>7. Prevs(w, n) = Prevs(m, n)
    BY <1>1, <1>2, <1>4, <1>5 DEF Prevs, PBLOCK
  <1>8. NextFrees(w, n) = NextFrees(m, n)
    BY <1>1, <1>2, <1>4, <1>5 DEF NextFrees, NFREE
  <1>9. PrevFrees(w, n) = [PrevFrees(m, n) EXCEPT ![b] = v]
    BY <1>1, <1>2, <1>4, <1>5 DEF PrevFrees, PFREE
  <1>10. FreeSet(w, n) = FreeSet(m, n)
    BY <1>1, <1>2, <1>4, <1>5 DEF FreeSet, IsFree
  <1> QED BY <1>0, <1>4, <1>6, <1>7, <1>8, <1>9, <1>10 DEF Becomes

(* A header written for a block in use. *)
LEMMA SetNBlockUsed ==
  ASSUME NEW n \in Nat, NEW m \in Memory(n), NEW b \in 0 .. n - 1, NEW v \in Nat
  PROVE  Becomes(m, SetNBlock(m, b, v, FALSE), n, {2 * b}, [Nexts(m, n) EXCEPT ![b] = v], Prevs(m, n),
                 NextFrees(m, n), PrevFrees(m, n), FreeSet(m, n) \ {b})
  <1>1. Becomes(m, SetNBlock(m, b, v, FALSE), n, {2 * b}, [Nexts(m, n) EXCEPT ![b] = v], Prevs(m, n),
                NextFrees(m, n), PrevFrees(m, n), IF FALSE THEN FreeSet(m, n) \cup {b} ELSE FreeSet(m, n) \ {b})
    BY SetNBlockWrites
  <1> QED BY <1>1

(* A header written for a free block. *)
LEMMA SetNBlockFree ==
  ASSUME NEW n \in Nat, NEW m \in Memory(n), NEW b \in 0 .. n - 1, NEW v \in Nat
  PROVE  Becomes(m, SetNBlock(m, b, v, TRUE), n, {2 * b}, [Nexts(m, n) EXCEPT ![b] = v], Prevs(m, n),
                 NextFrees(m, n), PrevFrees(m, n), FreeSet(m, n) \cup {b})
  <1>1. Becomes(m, SetNBlock(m, b, v, TRUE), n, {2 * b}, [Nexts(m, n) EXCEPT ![b] = v], Prevs(m, n),
                NextFrees(m, n), PrevFrees(m, n), IF TRUE THEN FreeSet(m, n) \cup {b} ELSE FreeSet(m, n) \ {b})
    BY SetNBlockWrites
  <1> QED BY <1>1

(* Writes one after the other. *)
LEMMA KeptTrans ==
  ASSUME NEW n, NEW a, NEW b, NEW c, NEW X, NEW Y, NEW Z, Kept(a, b, n, X), Kept(b, c, n, Y),
         X \subseteq Z, Y \subseteq Z
  PROVE  Kept(a, c, n, Z)
  BY DEF Kept

(* Reading a link through the functions. *)
LEMMA LinkAt ==
  ASSUME NEW n, NEW m, NEW b \in 0 .. n - 1
  PROVE  /\ Nexts(m, n)[b] = NBLOCK(m, b) /\ Prevs(m, n)[b] = PBLOCK(m, b)
         /\ NextFrees(m, n)[b] = NFREE(m, b) /\ PrevFrees(m, n)[b] = PFREE(m, b)
  BY DEF Nexts, Prevs, NextFrees, PrevFrees

-----------------------------------------------------------------------------
(* What the helpers write. *)

(* c is out of the list: its neighbours in it are linked. *)
LEMMA DisconnectWrites ==
  ASSUME NEW n \in Nat, NEW m \in Memory(n), NEW c \in 0 .. n - 1,
         NEW p \in 0 .. n - 1, p = PFREE(m, c), NEW q \in 0 .. n - 1, q = NFREE(m, c),
         p # c, q # c
  PROVE  Becomes(m, umm_disconnect_from_free_list(m, c), n, {2 * p + 1, 2 * q + 1, 2 * c},
                 Nexts(m, n), Prevs(m, n), [NextFrees(m, n) EXCEPT ![p] = q],
                 [PrevFrees(m, n) EXCEPT ![q] = p], FreeSet(m, n) \ {c})
  <1>1. PICK m1 : m1 = SetNFree(m, p, q)
    OBVIOUS
  <1>2. Becomes(m, m1, n, {2 * p + 1}, Nexts(m, n), Prevs(m, n), [NextFrees(m, n) EXCEPT ![p] = q], PrevFrees(m, n), FreeSet(m, n))
    BY <1>1, SetNFreeWrites
  <1>t1. m1 \in Memory(n)
    BY <1>2 DEF Becomes
  <1>3. /\ Kept(m, m1, n, {2 * p + 1}) /\ Nexts(m1, n) = Nexts(m, n) /\ Prevs(m1, n) = Prevs(m, n)
        /\ NextFrees(m1, n) = [NextFrees(m, n) EXCEPT ![p] = q] /\ PrevFrees(m1, n) = PrevFrees(m, n)
        /\ FreeSet(m1, n) = FreeSet(m, n)
    BY <1>2 DEF Becomes
  <1>4. PICK m2 : m2 = SetPFree(m1, q, p)
    OBVIOUS
  <1>5. Becomes(m1, m2, n, {2 * q + 1}, Nexts(m1, n), Prevs(m1, n), NextFrees(m1, n), [PrevFrees(m1, n) EXCEPT ![q] = p], FreeSet(m1, n))
    BY <1>t1, <1>4, SetPFreeWrites
  <1>t2. m2 \in Memory(n)
    BY <1>5 DEF Becomes
  <1>6. /\ Kept(m1, m2, n, {2 * q + 1}) /\ Nexts(m2, n) = Nexts(m, n) /\ Prevs(m2, n) = Prevs(m, n)
        /\ NextFrees(m2, n) = [NextFrees(m, n) EXCEPT ![p] = q] /\ PrevFrees(m2, n) = [PrevFrees(m, n) EXCEPT ![q] = p]
        /\ FreeSet(m2, n) = FreeSet(m, n)
    BY <1>3, <1>5 DEF Becomes
  <1>7. PICK v \in Nat : v = NBLOCK(m2, c) /\ v = Nexts(m, n)[c]
    <2>1. NBLOCK(m2, c) = Nexts(m2, n)[c] /\ Nexts(m2, n) \in [0 .. n - 1 -> Nat]
      BY <1>t2, LinkAt, LinksTyped
    <2> QED BY <2>1, <1>6
  <1>8. PICK w : w = SetNBlock(m2, c, v, FALSE)
    OBVIOUS
  <1>9. Becomes(m2, w, n, {2 * c}, [Nexts(m2, n) EXCEPT ![c] = v], Prevs(m2, n), NextFrees(m2, n), PrevFrees(m2, n), FreeSet(m2, n) \ {c})
    BY <1>t2, <1>7, <1>8, SetNBlockUsed
  <1>10. [Nexts(m2, n) EXCEPT ![c] = v] = Nexts(m, n)
    BY <1>6, <1>7, LinksTyped
  <1>11. /\ w \in Memory(n) /\ Kept(m2, w, n, {2 * c}) /\ Nexts(w, n) = Nexts(m, n) /\ Prevs(w, n) = Prevs(m, n)
         /\ NextFrees(w, n) = [NextFrees(m, n) EXCEPT ![p] = q] /\ PrevFrees(w, n) = [PrevFrees(m, n) EXCEPT ![q] = p]
         /\ FreeSet(w, n) = FreeSet(m, n) \ {c}
    BY <1>6, <1>9, <1>10 DEF Becomes
  <1>12. NFREE(m1, c) = q /\ PFREE(m1, c) = p
    <2>1. NextFrees(m1, n)[c] = NextFrees(m, n)[c] /\ PrevFrees(m1, n)[c] = PrevFrees(m, n)[c]
      BY <1>3 DEF NextFrees
    <2> QED BY <2>1 DEF NextFrees, PrevFrees
  <1>13. w = umm_disconnect_from_free_list(m, c)
    BY <1>1, <1>4, <1>7, <1>8, <1>12 DEF umm_disconnect_from_free_list
  <1>14. Kept(m, w, n, {2 * p + 1, 2 * q + 1, 2 * c})
    <2>1. Kept(m, m2, n, {2 * p + 1, 2 * q + 1})
      BY <1>3, <1>6, KeptTrans
    <2> QED BY <2>1, <1>11, KeptTrans
  <1> QED BY <1>11, <1>13, <1>14 DEF Becomes

(* The block of c is cut after k blocks, at s. *)
LEMMA SplitWrites ==
  ASSUME NEW n \in Nat, NEW m \in Memory(n), NEW c \in 0 .. n - 1, NEW k \in Nat, NEW f \in BOOLEAN,
         NEW s \in 0 .. n - 1, s = c + k, s # c, NEW x \in 0 .. n - 1, x = NBLOCK(m, c)
  PROVE  Becomes(m, umm_split_block(m, c, k, f), n, {2 * s, 2 * x, 2 * c},
                 [[Nexts(m, n) EXCEPT ![s] = x] EXCEPT ![c] = s], [[Prevs(m, n) EXCEPT ![s] = c] EXCEPT ![x] = s],
                 NextFrees(m, n), PrevFrees(m, n), (IF f THEN FreeSet(m, n) \cup {s} ELSE FreeSet(m, n) \ {s}) \ {c})
  <1>1. PICK w1 : w1 = SetNBlock(m, s, x, f)
    OBVIOUS
  <1>2. x \in Nat
    OBVIOUS
  <1>3. Becomes(m, w1, n, {2 * s}, [Nexts(m, n) EXCEPT ![s] = x], Prevs(m, n),
              NextFrees(m, n), PrevFrees(m, n), IF f THEN FreeSet(m, n) \cup {s} ELSE FreeSet(m, n) \ {s})
    BY <1>1, <1>2, SetNBlockWrites
  <1>4. w1 \in Memory(n) /\ Kept(m, w1, n, {2 * s})
    BY <1>3 DEF Becomes
  <1>5. w1 \in Memory(n)
    BY <1>4
  <1>6. /\ Nexts(w1, n) = [Nexts(m, n) EXCEPT ![s] = x] /\ Prevs(w1, n) = Prevs(m, n)
        /\ NextFrees(w1, n) = NextFrees(m, n) /\ PrevFrees(w1, n) = PrevFrees(m, n)
        /\ FreeSet(w1, n) = IF f THEN FreeSet(m, n) \cup {s} ELSE FreeSet(m, n) \ {s}
    BY <1>3 DEF Becomes
  <1>7. PICK w2 : w2 = SetPBlock(w1, s, c)
    OBVIOUS
  <1>8. Becomes(w1, w2, n, {2 * s}, Nexts(w1, n), [Prevs(w1, n) EXCEPT ![s] = c],
              NextFrees(w1, n), PrevFrees(w1, n), FreeSet(w1, n))
    BY <1>5, <1>7, SetPBlockWrites
  <1>9. w2 \in Memory(n) /\ Kept(w1, w2, n, {2 * s})
    BY <1>8 DEF Becomes
  <1>10. w2 \in Memory(n)
    BY <1>9
  <1>11. /\ Nexts(w2, n) = [Nexts(m, n) EXCEPT ![s] = x] /\ Prevs(w2, n) = [Prevs(m, n) EXCEPT ![s] = c]
        /\ NextFrees(w2, n) = NextFrees(m, n) /\ PrevFrees(w2, n) = PrevFrees(m, n)
        /\ FreeSet(w2, n) = IF f THEN FreeSet(m, n) \cup {s} ELSE FreeSet(m, n) \ {s}
    BY <1>8, <1>6 DEF Becomes
  <1>12. Kept(m, w2, n, {2 * s})
    BY <1>4, <1>9, KeptTrans
  <1>13. NBLOCK(w2, c) = x
    <2>1. NBLOCK(w2, c) = Nexts(w2, n)[c] /\ NBLOCK(m, c) = Nexts(m, n)[c]
      BY LinkAt
    <2>2. Nexts(m, n) \in [0 .. n - 1 -> Nat]
      BY LinksTyped
    <2> QED BY <2>1, <2>2, <1>11
  <1>14. PICK w3 : w3 = SetPBlock(w2, x, s)
    OBVIOUS
  <1>15. Becomes(w2, w3, n, {2 * x}, Nexts(w2, n), [Prevs(w2, n) EXCEPT ![x] = s],
              NextFrees(w2, n), PrevFrees(w2, n), FreeSet(w2, n))
    BY <1>10, <1>14, SetPBlockWrites
  <1>16. w3 \in Memory(n) /\ Kept(w2, w3, n, {2 * x})
    BY <1>15 DEF Becomes
  <1>17. w3 \in Memory(n)
    BY <1>16
  <1>18. /\ Nexts(w3, n) = [Nexts(m, n) EXCEPT ![s] = x] /\ Prevs(w3, n) = [[Prevs(m, n) EXCEPT ![s] = c] EXCEPT ![x] = s]
        /\ NextFrees(w3, n) = NextFrees(m, n) /\ PrevFrees(w3, n) = PrevFrees(m, n)
        /\ FreeSet(w3, n) = IF f THEN FreeSet(m, n) \cup {s} ELSE FreeSet(m, n) \ {s}
    BY <1>15, <1>11 DEF Becomes
  <1>19. Kept(m, w3, n, {2 * s, 2 * x})
    BY <1>12, <1>16, KeptTrans
  <1>20. PICK w4 : w4 = SetNBlock(w3, c, s, FALSE)
    OBVIOUS
  <1>21. s \in Nat
    OBVIOUS
  <1>22. Becomes(w3, w4, n, {2 * c}, [Nexts(w3, n) EXCEPT ![c] = s], Prevs(w3, n),
              NextFrees(w3, n), PrevFrees(w3, n), FreeSet(w3, n) \ {c})
    BY <1>17, <1>20, <1>21, SetNBlockUsed
  <1>23. w4 \in Memory(n) /\ Kept(w3, w4, n, {2 * c})
    BY <1>22 DEF Becomes
  <1>24. w4 \in Memory(n)
    BY <1>23
  <1>25. /\ Nexts(w4, n) = [[Nexts(m, n) EXCEPT ![s] = x] EXCEPT ![c] = s] /\ Prevs(w4, n) = [[Prevs(m, n) EXCEPT ![s] = c] EXCEPT ![x] = s]
        /\ NextFrees(w4, n) = NextFrees(m, n) /\ PrevFrees(w4, n) = PrevFrees(m, n)
        /\ FreeSet(w4, n) = (IF f THEN FreeSet(m, n) \cup {s} ELSE FreeSet(m, n) \ {s}) \ {c}
    BY <1>22, <1>18 DEF Becomes
  <1>26. Kept(m, w4, n, {2 * s, 2 * x, 2 * c})
    BY <1>19, <1>23, KeptTrans
  <1>27. w4 = umm_split_block(m, c, k, f)
    BY <1>1, <1>7, <1>13, <1>14, <1>20 DEF umm_split_block
  <1> QED BY <1>25, <1>24, <1>26, <1>27 DEF Becomes

(* c takes in x, the block before y. *)
LEMMA TakeInWrites ==
  ASSUME NEW n \in Nat, NEW m \in Memory(n), NEW c \in 0 .. n - 1,
         NEW x \in 0 .. n - 1, x = NBLOCK(m, c), NEW y \in 0 .. n - 1, y = NBLOCK(m, x)
  PROVE  Becomes(m, TakeIn(m, c), n, {2 * y, 2 * c},
                 [Nexts(m, n) EXCEPT ![c] = y], [Prevs(m, n) EXCEPT ![y] = c],
                 NextFrees(m, n), PrevFrees(m, n), FreeSet(m, n) \ {c})
  <1>1. PICK w1 : w1 = SetPBlock(m, y, c)
    OBVIOUS
  <1>2. Becomes(m, w1, n, {2 * y}, Nexts(m, n), [Prevs(m, n) EXCEPT ![y] = c],
              NextFrees(m, n), PrevFrees(m, n), FreeSet(m, n))
    BY <1>1, SetPBlockWrites
  <1>3. w1 \in Memory(n) /\ Kept(m, w1, n, {2 * y})
    BY <1>2 DEF Becomes
  <1>4. w1 \in Memory(n)
    BY <1>3
  <1>5. /\ Nexts(w1, n) = Nexts(m, n) /\ Prevs(w1, n) = [Prevs(m, n) EXCEPT ![y] = c]
        /\ NextFrees(w1, n) = NextFrees(m, n) /\ PrevFrees(w1, n) = PrevFrees(m, n)
        /\ FreeSet(w1, n) = FreeSet(m, n)
    BY <1>2 DEF Becomes
  <1>6. NBLOCK(w1, c) = x /\ NBLOCK(w1, x) = y
    <2>1. NBLOCK(w1, c) = Nexts(w1, n)[c] /\ NBLOCK(m, c) = Nexts(m, n)[c] /\ NBLOCK(w1, x) = Nexts(w1, n)[x] /\ NBLOCK(m, x) = Nexts(m, n)[x]
      BY LinkAt
    <2>2. Nexts(m, n) \in [0 .. n - 1 -> Nat]
      BY LinksTyped
    <2> QED BY <2>1, <2>2, <1>5
  <1>7. PICK w2 : w2 = SetNBlock(w1, c, y, FALSE)
    OBVIOUS
  <1>8. y \in Nat
    OBVIOUS
  <1>9. Becomes(w1, w2, n, {2 * c}, [Nexts(w1, n) EXCEPT ![c] = y], Prevs(w1, n),
              NextFrees(w1, n), PrevFrees(w1, n), FreeSet(w1, n) \ {c})
    BY <1>4, <1>7, <1>8, SetNBlockUsed
  <1>10. w2 \in Memory(n) /\ Kept(w1, w2, n, {2 * c})
    BY <1>9 DEF Becomes
  <1>11. w2 \in Memory(n)
    BY <1>10
  <1>12. /\ Nexts(w2, n) = [Nexts(m, n) EXCEPT ![c] = y] /\ Prevs(w2, n) = [Prevs(m, n) EXCEPT ![y] = c]
        /\ NextFrees(w2, n) = NextFrees(m, n) /\ PrevFrees(w2, n) = PrevFrees(m, n)
        /\ FreeSet(w2, n) = FreeSet(m, n) \ {c}
    BY <1>9, <1>5 DEF Becomes
  <1>13. Kept(m, w2, n, {2 * y, 2 * c})
    BY <1>3, <1>10, KeptTrans
  <1>14. w2 = TakeIn(m, c)
    BY <1>1, <1>6, <1>7 DEF TakeIn
  <1> QED BY <1>12, <1>11, <1>13, <1>14 DEF Becomes

(* p takes in c, the block before x. *)
LEMMA AssimilateDownWrites ==
  ASSUME NEW n \in Nat, NEW m \in Memory(n), NEW c \in 0 .. n - 1, NEW f \in BOOLEAN,
         NEW p \in 0 .. n - 1, p = PBLOCK(m, c), NEW x \in 0 .. n - 1, x = NBLOCK(m, c), c # p
  PROVE  Becomes(m, umm_assimilate_down(m, c, f), n, {2 * p, 2 * x},
                 [Nexts(m, n) EXCEPT ![p] = x], [Prevs(m, n) EXCEPT ![x] = p],
                 NextFrees(m, n), PrevFrees(m, n), IF f THEN FreeSet(m, n) \cup {p} ELSE FreeSet(m, n) \ {p})
  <1>1. PICK w1 : w1 = SetNBlock(m, p, x, f)
    OBVIOUS
  <1>2. x \in Nat
    OBVIOUS
  <1>3. Becomes(m, w1, n, {2 * p}, [Nexts(m, n) EXCEPT ![p] = x], Prevs(m, n),
              NextFrees(m, n), PrevFrees(m, n), IF f THEN FreeSet(m, n) \cup {p} ELSE FreeSet(m, n) \ {p})
    BY <1>1, <1>2, SetNBlockWrites
  <1>4. w1 \in Memory(n) /\ Kept(m, w1, n, {2 * p})
    BY <1>3 DEF Becomes
  <1>5. w1 \in Memory(n)
    BY <1>4
  <1>6. /\ Nexts(w1, n) = [Nexts(m, n) EXCEPT ![p] = x] /\ Prevs(w1, n) = Prevs(m, n)
        /\ NextFrees(w1, n) = NextFrees(m, n) /\ PrevFrees(w1, n) = PrevFrees(m, n)
        /\ FreeSet(w1, n) = IF f THEN FreeSet(m, n) \cup {p} ELSE FreeSet(m, n) \ {p}
    BY <1>3 DEF Becomes
  <1>7. NBLOCK(w1, c) = x
    <2>1. NBLOCK(w1, c) = Nexts(w1, n)[c] /\ NBLOCK(m, c) = Nexts(m, n)[c]
      BY LinkAt
    <2>2. Nexts(m, n) \in [0 .. n - 1 -> Nat]
      BY LinksTyped
    <2> QED BY <2>1, <2>2, <1>6
  <1>8. PBLOCK(w1, c) = p
    <2>1. PBLOCK(w1, c) = Prevs(w1, n)[c] /\ PBLOCK(m, c) = Prevs(m, n)[c]
      BY LinkAt
    <2>2. Prevs(m, n) \in [0 .. n - 1 -> Nat]
      BY LinksTyped
    <2> QED BY <2>1, <2>2, <1>6
  <1>9. PICK w2 : w2 = SetPBlock(w1, x, p)
    OBVIOUS
  <1>10. Becomes(w1, w2, n, {2 * x}, Nexts(w1, n), [Prevs(w1, n) EXCEPT ![x] = p],
              NextFrees(w1, n), PrevFrees(w1, n), FreeSet(w1, n))
    BY <1>5, <1>9, SetPBlockWrites
  <1>11. w2 \in Memory(n) /\ Kept(w1, w2, n, {2 * x})
    BY <1>10 DEF Becomes
  <1>12. w2 \in Memory(n)
    BY <1>11
  <1>13. /\ Nexts(w2, n) = [Nexts(m, n) EXCEPT ![p] = x] /\ Prevs(w2, n) = [Prevs(m, n) EXCEPT ![x] = p]
        /\ NextFrees(w2, n) = NextFrees(m, n) /\ PrevFrees(w2, n) = PrevFrees(m, n)
        /\ FreeSet(w2, n) = IF f THEN FreeSet(m, n) \cup {p} ELSE FreeSet(m, n) \ {p}
    BY <1>10, <1>6 DEF Becomes
  <1>14. Kept(m, w2, n, {2 * p, 2 * x})
    BY <1>4, <1>11, KeptTrans
  <1>15. w2 = umm_assimilate_down(m, c, f)
    BY <1>1, <1>7, <1>8, <1>9 DEF umm_assimilate_down
  <1> QED BY <1>13, <1>12, <1>14, <1>15 DEF Becomes

(* r takes the place of c in the list. *)
LEMMA ReplaceWrites ==
  ASSUME NEW n \in Nat, NEW m \in Memory(n), NEW c \in 0 .. n - 1, NEW r \in 0 .. n - 1, r # c,
         NEW p \in 0 .. n - 1, p = PFREE(m, c), NEW q \in 0 .. n - 1, q = NFREE(m, c), p # c
  PROVE  Becomes(m, Replace(m, c, r), n, {2 * p + 1, 2 * r + 1, 2 * q + 1},
                 Nexts(m, n), Prevs(m, n),
                 [[NextFrees(m, n) EXCEPT ![p] = r] EXCEPT ![r] = q], [[PrevFrees(m, n) EXCEPT ![r] = p] EXCEPT ![q] = r], FreeSet(m, n))
  <1>1. PICK w1 : w1 = SetNFree(m, p, r)
    OBVIOUS
  <1>2. Becomes(m, w1, n, {2 * p + 1}, Nexts(m, n), Prevs(m, n),
              [NextFrees(m, n) EXCEPT ![p] = r], PrevFrees(m, n), FreeSet(m, n))
    BY <1>1, SetNFreeWrites
  <1>3. w1 \in Memory(n) /\ Kept(m, w1, n, {2 * p + 1})
    BY <1>2 DEF Becomes
  <1>4. w1 \in Memory(n)
    BY <1>3
  <1>5. /\ Nexts(w1, n) = Nexts(m, n) /\ Prevs(w1, n) = Prevs(m, n)
        /\ NextFrees(w1, n) = [NextFrees(m, n) EXCEPT ![p] = r] /\ PrevFrees(w1, n) = PrevFrees(m, n)
        /\ FreeSet(w1, n) = FreeSet(m, n)
    BY <1>2 DEF Becomes
  <1>6. PICK w2 : w2 = SetPFree(w1, r, p)
    OBVIOUS
  <1>7. Becomes(w1, w2, n, {2 * r + 1}, Nexts(w1, n), Prevs(w1, n),
              NextFrees(w1, n), [PrevFrees(w1, n) EXCEPT ![r] = p], FreeSet(w1, n))
    BY <1>4, <1>6, SetPFreeWrites
  <1>8. w2 \in Memory(n) /\ Kept(w1, w2, n, {2 * r + 1})
    BY <1>7 DEF Becomes
  <1>9. w2 \in Memory(n)
    BY <1>8
  <1>10. /\ Nexts(w2, n) = Nexts(m, n) /\ Prevs(w2, n) = Prevs(m, n)
        /\ NextFrees(w2, n) = [NextFrees(m, n) EXCEPT ![p] = r] /\ PrevFrees(w2, n) = [PrevFrees(m, n) EXCEPT ![r] = p]
        /\ FreeSet(w2, n) = FreeSet(m, n)
    BY <1>7, <1>5 DEF Becomes
  <1>11. Kept(m, w2, n, {2 * p + 1, 2 * r + 1})
    BY <1>3, <1>8, KeptTrans
  <1>12. NFREE(w2, c) = q
    <2>1. NFREE(w2, c) = NextFrees(w2, n)[c] /\ NFREE(m, c) = NextFrees(m, n)[c]
      BY LinkAt
    <2>2. NextFrees(m, n) \in [0 .. n - 1 -> Nat]
      BY LinksTyped
    <2> QED BY <2>1, <2>2, <1>10
  <1>13. PICK w3 : w3 = SetPFree(w2, q, r)
    OBVIOUS
  <1>14. Becomes(w2, w3, n, {2 * q + 1}, Nexts(w2, n), Prevs(w2, n),
              NextFrees(w2, n), [PrevFrees(w2, n) EXCEPT ![q] = r], FreeSet(w2, n))
    BY <1>9, <1>13, SetPFreeWrites
  <1>15. w3 \in Memory(n) /\ Kept(w2, w3, n, {2 * q + 1})
    BY <1>14 DEF Becomes
  <1>16. w3 \in Memory(n)
    BY <1>15
  <1>17. /\ Nexts(w3, n) = Nexts(m, n) /\ Prevs(w3, n) = Prevs(m, n)
        /\ NextFrees(w3, n) = [NextFrees(m, n) EXCEPT ![p] = r] /\ PrevFrees(w3, n) = [[PrevFrees(m, n) EXCEPT ![r] = p] EXCEPT ![q] = r]
        /\ FreeSet(w3, n) = FreeSet(m, n)
    BY <1>14, <1>10 DEF Becomes
  <1>18. Kept(m, w3, n, {2 * p + 1, 2 * r + 1, 2 * q + 1})
    BY <1>11, <1>15, KeptTrans
  <1>19. PICK w4 : w4 = SetNFree(w3, r, q)
    OBVIOUS
  <1>20. Becomes(w3, w4, n, {2 * r + 1}, Nexts(w3, n), Prevs(w3, n),
              [NextFrees(w3, n) EXCEPT ![r] = q], PrevFrees(w3, n), FreeSet(w3, n))
    BY <1>16, <1>19, SetNFreeWrites
  <1>21. w4 \in Memory(n) /\ Kept(w3, w4, n, {2 * r + 1})
    BY <1>20 DEF Becomes
  <1>22. w4 \in Memory(n)
    BY <1>21
  <1>23. /\ Nexts(w4, n) = Nexts(m, n) /\ Prevs(w4, n) = Prevs(m, n)
        /\ NextFrees(w4, n) = [[NextFrees(m, n) EXCEPT ![p] = r] EXCEPT ![r] = q] /\ PrevFrees(w4, n) = [[PrevFrees(m, n) EXCEPT ![r] = p] EXCEPT ![q] = r]
        /\ FreeSet(w4, n) = FreeSet(m, n)
    BY <1>20, <1>17 DEF Becomes
  <1>24. Kept(m, w4, n, {2 * p + 1, 2 * r + 1, 2 * q + 1})
    BY <1>18, <1>21, KeptTrans
  <1>25. w4 = Replace(m, c, r)
    BY <1>1, <1>6, <1>12, <1>13, <1>19 DEF Replace
  <1> QED BY <1>23, <1>22, <1>24, <1>25 DEF Becomes

(* c is the first of the list. *)
LEMMA AddWrites ==
  ASSUME NEW n \in Nat, NEW m \in Memory(n), NEW c \in 0 .. n - 1, c # 0, 0 \in 0 .. n - 1,
         NEW h \in 0 .. n - 1, h = NFREE(m, 0)
  PROVE  Becomes(m, AddToFreeList(m, c), n, {2 * h + 1, 2 * c + 1, 2 * 0 + 1, 2 * c},
                 Nexts(m, n), Prevs(m, n),
                 [[NextFrees(m, n) EXCEPT ![c] = h] EXCEPT ![0] = c], [[PrevFrees(m, n) EXCEPT ![h] = c] EXCEPT ![c] = 0], FreeSet(m, n) \cup {c})
  <1>1. PICK w1 : w1 = SetPFree(m, h, c)
    OBVIOUS
  <1>2. Becomes(m, w1, n, {2 * h + 1}, Nexts(m, n), Prevs(m, n),
              NextFrees(m, n), [PrevFrees(m, n) EXCEPT ![h] = c], FreeSet(m, n))
    BY <1>1, SetPFreeWrites
  <1>3. w1 \in Memory(n) /\ Kept(m, w1, n, {2 * h + 1})
    BY <1>2 DEF Becomes
  <1>4. w1 \in Memory(n)
    BY <1>3
  <1>5. /\ Nexts(w1, n) = Nexts(m, n) /\ Prevs(w1, n) = Prevs(m, n)
        /\ NextFrees(w1, n) = NextFrees(m, n) /\ PrevFrees(w1, n) = [PrevFrees(m, n) EXCEPT ![h] = c]
        /\ FreeSet(w1, n) = FreeSet(m, n)
    BY <1>2 DEF Becomes
  <1>6. NFREE(w1, 0) = h
    <2>1. NFREE(w1, 0) = NextFrees(w1, n)[0] /\ NFREE(m, 0) = NextFrees(m, n)[0]
      BY LinkAt
    <2>2. NextFrees(m, n) \in [0 .. n - 1 -> Nat]
      BY LinksTyped
    <2> QED BY <2>1, <2>2, <1>5
  <1>7. PICK w2 : w2 = SetNFree(w1, c, h)
    OBVIOUS
  <1>8. Becomes(w1, w2, n, {2 * c + 1}, Nexts(w1, n), Prevs(w1, n),
              [NextFrees(w1, n) EXCEPT ![c] = h], PrevFrees(w1, n), FreeSet(w1, n))
    BY <1>4, <1>7, SetNFreeWrites
  <1>9. w2 \in Memory(n) /\ Kept(w1, w2, n, {2 * c + 1})
    BY <1>8 DEF Becomes
  <1>10. w2 \in Memory(n)
    BY <1>9
  <1>11. /\ Nexts(w2, n) = Nexts(m, n) /\ Prevs(w2, n) = Prevs(m, n)
        /\ NextFrees(w2, n) = [NextFrees(m, n) EXCEPT ![c] = h] /\ PrevFrees(w2, n) = [PrevFrees(m, n) EXCEPT ![h] = c]
        /\ FreeSet(w2, n) = FreeSet(m, n)
    BY <1>8, <1>5 DEF Becomes
  <1>12. Kept(m, w2, n, {2 * h + 1, 2 * c + 1})
    BY <1>3, <1>9, KeptTrans
  <1>13. PICK w3 : w3 = SetPFree(w2, c, 0)
    OBVIOUS
  <1>14. Becomes(w2, w3, n, {2 * c + 1}, Nexts(w2, n), Prevs(w2, n),
              NextFrees(w2, n), [PrevFrees(w2, n) EXCEPT ![c] = 0], FreeSet(w2, n))
    BY <1>10, <1>13, SetPFreeWrites
  <1>15. w3 \in Memory(n) /\ Kept(w2, w3, n, {2 * c + 1})
    BY <1>14 DEF Becomes
  <1>16. w3 \in Memory(n)
    BY <1>15
  <1>17. /\ Nexts(w3, n) = Nexts(m, n) /\ Prevs(w3, n) = Prevs(m, n)
        /\ NextFrees(w3, n) = [NextFrees(m, n) EXCEPT ![c] = h] /\ PrevFrees(w3, n) = [[PrevFrees(m, n) EXCEPT ![h] = c] EXCEPT ![c] = 0]
        /\ FreeSet(w3, n) = FreeSet(m, n)
    BY <1>14, <1>11 DEF Becomes
  <1>18. Kept(m, w3, n, {2 * h + 1, 2 * c + 1})
    BY <1>12, <1>15, KeptTrans
  <1>19. PICK w4 : w4 = SetNFree(w3, 0, c)
    OBVIOUS
  <1>20. Becomes(w3, w4, n, {2 * 0 + 1}, Nexts(w3, n), Prevs(w3, n),
              [NextFrees(w3, n) EXCEPT ![0] = c], PrevFrees(w3, n), FreeSet(w3, n))
    BY <1>16, <1>19, SetNFreeWrites
  <1>21. w4 \in Memory(n) /\ Kept(w3, w4, n, {2 * 0 + 1})
    BY <1>20 DEF Becomes
  <1>22. w4 \in Memory(n)
    BY <1>21
  <1>23. /\ Nexts(w4, n) = Nexts(m, n) /\ Prevs(w4, n) = Prevs(m, n)
        /\ NextFrees(w4, n) = [[NextFrees(m, n) EXCEPT ![c] = h] EXCEPT ![0] = c] /\ PrevFrees(w4, n) = [[PrevFrees(m, n) EXCEPT ![h] = c] EXCEPT ![c] = 0]
        /\ FreeSet(w4, n) = FreeSet(m, n)
    BY <1>20, <1>17 DEF Becomes
  <1>24. Kept(m, w4, n, {2 * h + 1, 2 * c + 1, 2 * 0 + 1})
    BY <1>18, <1>21, KeptTrans
  <1>25. NBLOCK(w4, c) = Nexts(m, n)[c]
    <2>1. NBLOCK(w4, c) = Nexts(w4, n)[c] /\ NBLOCK(m, c) = Nexts(m, n)[c]
      BY LinkAt
    <2>2. Nexts(m, n) \in [0 .. n - 1 -> Nat]
      BY LinksTyped
    <2> QED BY <2>1, <2>2, <1>23
  <1>26. PICK w5 : w5 = SetNBlock(w4, c, Nexts(m, n)[c], TRUE)
    OBVIOUS
  <1>27. Nexts(m, n)[c] \in Nat
    BY LinksTyped
  <1>28. Becomes(w4, w5, n, {2 * c}, [Nexts(w4, n) EXCEPT ![c] = Nexts(m, n)[c]], Prevs(w4, n),
              NextFrees(w4, n), PrevFrees(w4, n), FreeSet(w4, n) \cup {c})
    BY <1>22, <1>26, <1>27, SetNBlockFree
  <1>29. w5 \in Memory(n) /\ Kept(w4, w5, n, {2 * c})
    BY <1>28 DEF Becomes
  <1>30. w5 \in Memory(n)
    BY <1>29
  <1>31. /\ Nexts(w5, n) = [Nexts(m, n) EXCEPT ![c] = Nexts(m, n)[c]] /\ Prevs(w5, n) = Prevs(m, n)
        /\ NextFrees(w5, n) = [[NextFrees(m, n) EXCEPT ![c] = h] EXCEPT ![0] = c] /\ PrevFrees(w5, n) = [[PrevFrees(m, n) EXCEPT ![h] = c] EXCEPT ![c] = 0]
        /\ FreeSet(w5, n) = FreeSet(m, n) \cup {c}
    BY <1>28, <1>23 DEF Becomes
  <1>32. Kept(m, w5, n, {2 * h + 1, 2 * c + 1, 2 * 0 + 1, 2 * c})
    BY <1>24, <1>29, KeptTrans
  <1>33. w5 = AddToFreeList(m, c)
    BY <1>1, <1>6, <1>7, <1>13, <1>19, <1>25, <1>26 DEF AddToFreeList
  <1>34. [Nexts(m, n) EXCEPT ![c] = Nexts(m, n)[c]] = Nexts(m, n)
    BY LinksTyped
  <1> QED BY <1>31, <1>30, <1>32, <1>33, <1>34 DEF Becomes

-----------------------------------------------------------------------------
(* The invariant on the four functions. *)
ChainOf(nb, pb, n, C) ==
  /\ C \subseteq 0 .. n - 1 /\ 0 \in C /\ 1 \in C /\ n - 1 \in C /\ nb[n - 1] = 0
  /\ \A b \in C \ {n - 1} : nb[b] \in C /\ nb[b] > b /\ pb[nb[b]] = b
  /\ \A b \in C \ {n - 1}, c \in C : c <= b \/ c >= nb[b]

RingOf(nf, pf, F) ==
  /\ \A b \in F \cup {0} : nf[b] \in F \cup {0} /\ pf[b] \in F \cup {0}
  /\ \A b \in F \cup {0} : pf[nf[b]] = b /\ nf[pf[b]] = b
  /\ \A S \in SUBSET F : S # {} => \E b \in S : pf[b] \notin S

(* Chained in terms of the four functions. *)
LEMMA ChainByFunctions ==
  ASSUME NEW n \in Nat, n >= 3, NEW m, NEW C
  PROVE  Chained(m, n, C) <=> ChainOf(Nexts(m, n), Prevs(m, n), n, C)
  <1>1. ASSUME C \subseteq 0 .. n - 1
        PROVE  /\ Nexts(m, n)[n - 1] = NBLOCK(m, n - 1)
               /\ \A b \in C : Nexts(m, n)[b] = NBLOCK(m, b) /\ Prevs(m, n)[b] = PBLOCK(m, b)
    <2>1. n - 1 \in 0 .. n - 1
      OBVIOUS
    <2> QED BY <1>1, <2>1, LinkAt
  <1>2. ASSUME Chained(m, n, C) PROVE ChainOf(Nexts(m, n), Prevs(m, n), n, C)
    BY <1>1, <1>2 DEF Chained, ChainOf
  <1>3. ASSUME ChainOf(Nexts(m, n), Prevs(m, n), n, C) PROVE Chained(m, n, C)
    BY <1>1, <1>3 DEF Chained, ChainOf
  <1> QED BY <1>2, <1>3

(* Linked in terms of the four functions. *)
LEMMA RingByFunctions ==
  ASSUME NEW n \in Nat, n >= 3, NEW m, NEW F \in SUBSET (0 .. n - 1)
  PROVE  Linked(m, F) <=> RingOf(NextFrees(m, n), PrevFrees(m, n), F)
  <1>1. \A b \in F \cup {0} : NextFrees(m, n)[b] = NFREE(m, b) /\ PrevFrees(m, n)[b] = PFREE(m, b)
    <2>1. F \cup {0} \subseteq 0 .. n - 1
      OBVIOUS
    <2> QED BY <2>1, LinkAt
  <1> DEFINE nf == NextFrees(m, n)
             pf == PrevFrees(m, n)
  <1>2. ASSUME Linked(m, F) PROVE RingOf(nf, pf, F)
    <2>1. \A b \in F \cup {0} : nf[b] \in F \cup {0} /\ pf[b] \in F \cup {0}
      BY <1>1, <1>2 DEF Linked
    <2>2. \A b \in F \cup {0} : pf[nf[b]] = b /\ nf[pf[b]] = b
      <3> SUFFICES ASSUME NEW b \in F \cup {0} PROVE pf[nf[b]] = b /\ nf[pf[b]] = b
        OBVIOUS
      <3>1. nf[b] = NFREE(m, b) /\ pf[b] = PFREE(m, b)
        BY <1>1
      <3>2. pf[nf[b]] = PFREE(m, nf[b]) /\ nf[pf[b]] = NFREE(m, pf[b])
        BY <1>1, <2>1
      <3>3. PFREE(m, NFREE(m, b)) = b /\ NFREE(m, PFREE(m, b)) = b
        BY <1>2 DEF Linked
      <3> QED BY <3>1, <3>2, <3>3
    <2>3. \A S \in SUBSET F : S # {} => \E b \in S : pf[b] \notin S
      BY <1>1, <1>2 DEF Linked
    <2> QED BY <2>1, <2>2, <2>3 DEF RingOf
  <1>3. ASSUME RingOf(nf, pf, F) PROVE Linked(m, F)
    <2>1. \A b \in F \cup {0} : NFREE(m, b) \in F \cup {0} /\ PFREE(m, b) \in F \cup {0}
      BY <1>1, <1>3 DEF RingOf
    <2>2. \A b \in F \cup {0} : PFREE(m, NFREE(m, b)) = b /\ NFREE(m, PFREE(m, b)) = b
      <3> SUFFICES ASSUME NEW b \in F \cup {0} PROVE PFREE(m, NFREE(m, b)) = b /\ NFREE(m, PFREE(m, b)) = b
        OBVIOUS
      <3>1. nf[b] = NFREE(m, b) /\ pf[b] = PFREE(m, b)
        BY <1>1
      <3>2. pf[nf[b]] = PFREE(m, nf[b]) /\ nf[pf[b]] = NFREE(m, pf[b])
        BY <1>1, <2>1, <3>1
      <3>3. pf[nf[b]] = b /\ nf[pf[b]] = b
        BY <1>3 DEF RingOf
      <3> QED BY <3>1, <3>2, <3>3
    <2>3. \A S \in SUBSET F : S # {} => \E b \in S : PFREE(m, b) \notin S
      BY <1>1, <1>3 DEF RingOf
    <2> QED BY <2>1, <2>2, <2>3 DEF Linked
  <1> QED BY <1>2, <1>3

(* Marked in terms of the set of free bits. *)
LEMMA MarksByFunctions ==
  ASSUME NEW n \in Nat, NEW m \in Memory(n), NEW C \in SUBSET (0 .. n - 1), NEW F
  PROVE  Marked(m, n, C, F) <=> F \subseteq C \ {0, n - 1} /\ FreeSet(m, n) \cap C = F
  <1>1. \A b \in C : IsFree(m, b) \in BOOLEAN
    BY CellsApart DEF Memory, Cell, IsFree
  <1>2. \A b \in C : (b \in FreeSet(m, n)) = IsFree(m, b)
    BY <1>1 DEF FreeSet
  <1>3. ASSUME Marked(m, n, C, F) PROVE F \subseteq C \ {0, n - 1} /\ FreeSet(m, n) \cap C = F
    <2>1. F \subseteq C \ {0, n - 1} /\ \A b \in C : b \in FreeSet(m, n) <=> b \in F
      BY <1>2, <1>3 DEF Marked
    <2> QED BY <2>1
  <1>4. ASSUME F \subseteq C \ {0, n - 1}, FreeSet(m, n) \cap C = F PROVE Marked(m, n, C, F)
    <2>1. \A b \in C : (b \in FreeSet(m, n)) = (b \in F)
      BY <1>4
    <2> QED BY <1>2, <1>4, <2>1 DEF Marked
  <1> QED BY <1>3, <1>4

(* No block of the ring is its own predecessor. *)
LEMMA NoSelfLink ==
  ASSUME NEW nf, NEW pf, NEW F, RingOf(nf, pf, F), NEW c \in F
  PROVE  pf[c] # c /\ nf[c] # c
  <1>1. {c} \in SUBSET F /\ {c} # {}
    OBVIOUS
  <1>2. PICK b \in {c} : pf[b] \notin {c}
    BY <1>1 DEF RingOf
  <1>3. pf[nf[c]] = c
    BY DEF RingOf
  <1> QED BY <1>2, <1>3

(* A free block leaves the list. *)
LEMMA RingWithout ==
  ASSUME NEW D, NEW F \in SUBSET D, 0 \in D, 0 \notin F,
         NEW nf \in [D -> Nat], NEW pf \in [D -> Nat], RingOf(nf, pf, F), NEW c \in F
  PROVE  /\ pf[c] # c /\ nf[c] # c /\ pf[c] \in F \cup {0} /\ nf[c] \in F \cup {0}
         /\ RingOf([nf EXCEPT ![pf[c]] = nf[c]], [pf EXCEPT ![nf[c]] = pf[c]], F \ {c})
  <1>1. PICK p \in F \cup {0}, q \in F \cup {0} : p = pf[c] /\ q = nf[c] /\ nf[p] = c /\ pf[q] = c
    BY DEF RingOf
  <1>2. p # c
    <2>1. {c} \in SUBSET F /\ {c} # {}
      OBVIOUS
    <2>2. PICK b \in {c} : pf[b] \notin {c}
      BY <2>1 DEF RingOf
    <2> QED BY <1>1, <2>2
  <1>3. q # c
    BY <1>1, <1>2
  <1> DEFINE nf1 == [nf EXCEPT ![p] = q]
             pf1 == [pf EXCEPT ![q] = p]
             G == F \ {c}
  <1>4. \A b \in G \cup {0} : nf1[b] \in G \cup {0} /\ pf1[b] \in G \cup {0}
    BY <1>1, <1>2, <1>3 DEF RingOf
  <1>5. \A b \in G \cup {0} : pf1[nf1[b]] = b /\ nf1[pf1[b]] = b
    BY <1>1, <1>2, <1>3 DEF RingOf
  <1>6. \A S \in SUBSET G : S # {} => \E b \in S : pf1[b] \notin S
    <2> SUFFICES ASSUME NEW S \in SUBSET G, S # {} PROVE \E b \in S : pf1[b] \notin S
      OBVIOUS
    <2>1. PICK b \in S : pf[b] \notin S
      BY DEF RingOf
    <2>2. CASE b # q
      BY <2>1, <2>2
    <2>3. CASE b = q
      <3>1. S \cup {c} \in SUBSET F /\ S \cup {c} # {}
        OBVIOUS
      <3>2. PICK a \in S \cup {c} : pf[a] \notin S \cup {c}
        BY <3>1 DEF RingOf
      <3>3. CASE a = c
        BY <1>1, <2>3, <3>2, <3>3
      <3>4. CASE a # c
        BY <1>1, <3>2, <3>4
      <3> QED BY <3>3, <3>4
    <2> QED BY <2>2, <2>3
  <1>7. RingOf(nf1, pf1, G)
    BY <1>4, <1>5, <1>6 DEF RingOf
  <1> QED BY <1>1, <1>2, <1>3, <1>7

(* A block becomes the first of the list. *)
LEMMA RingWith ==
  ASSUME NEW D, NEW F \in SUBSET D, 0 \in D, 0 \notin F,
         NEW nf \in [D -> Nat], NEW pf \in [D -> Nat], RingOf(nf, pf, F),
         NEW c \in D, c \notin F, c # 0
  PROVE  /\ nf[0] \in F \cup {0}
         /\ RingOf([[nf EXCEPT ![c] = nf[0]] EXCEPT ![0] = c],
                   [[pf EXCEPT ![nf[0]] = c] EXCEPT ![c] = 0], F \cup {c})
  <1>1. PICK h \in F \cup {0} : h = nf[0] /\ pf[h] = 0
    BY DEF RingOf
  <1> DEFINE nf1 == [[nf EXCEPT ![c] = h] EXCEPT ![0] = c]
             pf1 == [[pf EXCEPT ![h] = c] EXCEPT ![c] = 0]
             G == F \cup {c}
  <1>4. \A b \in G \cup {0} : nf1[b] \in G \cup {0} /\ pf1[b] \in G \cup {0}
    BY <1>1 DEF RingOf
  <1>5. \A b \in G \cup {0} : pf1[nf1[b]] = b /\ nf1[pf1[b]] = b
    BY <1>1 DEF RingOf
  <1>6. \A S \in SUBSET G : S # {} => \E b \in S : pf1[b] \notin S
    <2> SUFFICES ASSUME NEW S \in SUBSET G, S # {} PROVE \E b \in S : pf1[b] \notin S
      OBVIOUS
    <2>1. CASE c \in S
      BY <2>1
    <2>2. CASE c \notin S
      <3>1. PICK b \in S : pf[b] \notin S
        BY <2>2 DEF RingOf
      <3> QED BY <2>2, <3>1
    <2> QED BY <2>1, <2>2
  <1>7. RingOf(nf1, pf1, G)
    BY <1>4, <1>5, <1>6 DEF RingOf
  <1> QED BY <1>1, <1>7

(* A block takes the place of another. *)
LEMMA RingReplaced ==
  ASSUME NEW D, NEW F \in SUBSET D, 0 \in D, 0 \notin F,
         NEW nf \in [D -> Nat], NEW pf \in [D -> Nat], RingOf(nf, pf, F),
         NEW c \in F, NEW r \in D, r \notin F, r # 0
  PROVE  RingOf([[nf EXCEPT ![pf[c]] = r] EXCEPT ![r] = nf[c]],
                [[pf EXCEPT ![r] = pf[c]] EXCEPT ![nf[c]] = r], (F \ {c}) \cup {r})
  <1>1. PICK p \in F \cup {0}, q \in F \cup {0} : p = pf[c] /\ q = nf[c] /\ nf[p] = c /\ pf[q] = c
    BY DEF RingOf
  <1>2. p # c /\ q # c
    <2>1. pf[c] # c /\ nf[c] # c
      BY NoSelfLink
    <2> QED BY <1>1, <2>1
  <1> DEFINE nf1 == [[nf EXCEPT ![p] = r] EXCEPT ![r] = q]
             pf1 == [[pf EXCEPT ![r] = p] EXCEPT ![q] = r]
             G == (F \ {c}) \cup {r}
  <1>4. \A b \in G \cup {0} : nf1[b] \in G \cup {0} /\ pf1[b] \in G \cup {0}
    BY <1>1, <1>2 DEF RingOf
  <1>5. \A b \in G \cup {0} : pf1[nf1[b]] = b /\ nf1[pf1[b]] = b
    BY <1>1, <1>2 DEF RingOf
  <1>6. \A S \in SUBSET G : S # {} => \E b \in S : pf1[b] \notin S
    <2> SUFFICES ASSUME NEW S \in SUBSET G, S # {} PROVE \E b \in S : pf1[b] \notin S
      OBVIOUS
    <2>1. CASE r \notin S
      <3>1. PICK b \in S : pf[b] \notin S
        BY <2>1 DEF RingOf
      <3> QED BY <2>1, <3>1, <1>1, <1>2
    <2>2. CASE r \in S
      <3>1. (S \ {r}) \cup {c} \in SUBSET F /\ (S \ {r}) \cup {c} # {}
        OBVIOUS
      <3>2. PICK b \in (S \ {r}) \cup {c} : pf[b] \notin (S \ {r}) \cup {c}
        BY <3>1 DEF RingOf
      <3>3. pf[b] \in F \cup {0} /\ pf[b] # r
        BY <3>1, <3>2 DEF RingOf
      <3>4. CASE b = c
        <4>1. pf1[r] = p /\ p \notin S
          BY <1>1, <1>2, <3>2, <3>3, <3>4
        <4> QED BY <2>2, <4>1
      <3>5. CASE b # c
        <4>1. b \in S /\ b # r /\ b # q
          BY <1>1, <3>2, <3>5
        <4>2. pf1[b] = pf[b] /\ pf[b] \notin S
          BY <3>2, <3>3, <4>1
        <4> QED BY <4>1, <4>2
      <3> QED BY <3>4, <3>5
    <2> QED BY <2>1, <2>2
  <1>7. RingOf(nf1, pf1, G)
    BY <1>4, <1>5, <1>6 DEF RingOf
  <1> QED BY <1>1, <1>7

(* A block is cut in two at s. *)
LEMMA ChainSplit ==
  ASSUME NEW n \in Nat, NEW C, NEW nb \in [0 .. n - 1 -> Nat], NEW pb \in [0 .. n - 1 -> Nat],
         ChainOf(nb, pb, n, C), NEW c \in C, c # n - 1, NEW s \in Nat, c < s, s < nb[c]
  PROVE  /\ s \in 0 .. n - 1 /\ s \notin C
         /\ ChainOf([[nb EXCEPT ![s] = nb[c]] EXCEPT ![c] = s],
                    [[pb EXCEPT ![s] = c] EXCEPT ![nb[c]] = s], n, C \cup {s})
  <1>1. PICK x \in C : x = nb[c] /\ s < x /\ x <= n - 1 /\ pb[x] = c
    BY DEF ChainOf
  <1>2. s \in 0 .. n - 1 /\ s \notin C /\ s # n - 1
    BY <1>1 DEF ChainOf
  <1> DEFINE nb1 == [[nb EXCEPT ![s] = x] EXCEPT ![c] = s]
             pb1 == [[pb EXCEPT ![s] = c] EXCEPT ![x] = s]
             G == C \cup {s}
  <1>3. /\ G \subseteq 0 .. n - 1 /\ 0 \in G /\ 1 \in G /\ n - 1 \in G /\ nb1[n - 1] = 0
    BY <1>1, <1>2 DEF ChainOf
  <1>4. nb1[c] = s /\ nb1[s] = x /\ pb1[s] = c /\ pb1[x] = s
    BY <1>1, <1>2 DEF ChainOf
  <1>5. \A b \in C \ {n - 1, c} : nb1[b] = nb[b] /\ nb[b] # x /\ pb1[nb[b]] = pb[nb[b]]
    BY <1>1, <1>2 DEF ChainOf
  <1>6. \A b \in G \ {n - 1} : nb1[b] \in G /\ nb1[b] > b /\ pb1[nb1[b]] = b
    BY <1>1, <1>2, <1>4, <1>5 DEF ChainOf
  <1>7. \A b \in G \ {n - 1}, a \in G : a <= b \/ a >= nb1[b]
    <2> SUFFICES ASSUME NEW b \in G \ {n - 1}, NEW a \in G, ~(a <= b) PROVE a >= nb1[b]
      BY <1>3, <1>6
    <2>1. CASE b = c
      BY <1>1, <1>2, <1>4, <2>1 DEF ChainOf
    <2>2. CASE b = s
      <3>1. a \in C /\ ~(a <= c)
        BY <1>1, <1>2, <2>2 DEF ChainOf
      <3> QED BY <1>1, <1>4, <2>2, <3>1 DEF ChainOf
    <2>3. CASE b \in C \ {n - 1, c}
      <3>1. nb1[b] = nb[b]
        BY <1>5, <2>3
      <3>2. CASE a \in C
        BY <2>3, <3>1, <3>2 DEF ChainOf
      <3>3. CASE a = s
        <4>1. c <= b \/ c >= nb[b]
          BY <2>3 DEF ChainOf
        <4>2. b <= c \/ b >= x
          BY <1>1, <2>3 DEF ChainOf
        <4> QED BY <1>1, <1>3, <2>3, <3>1, <3>3, <4>1, <4>2
      <3> QED BY <3>2, <3>3
    <2> QED BY <2>1, <2>2, <2>3
  <1>8. ChainOf(nb1, pb1, n, G)
    BY <1>3, <1>6, <1>7 DEF ChainOf
  <1> QED BY <1>1, <1>2, <1>8

(* A block takes in the one that follows it. *)
LEMMA ChainMerge ==
  ASSUME NEW n \in Nat, NEW C, NEW nb \in [0 .. n - 1 -> Nat], NEW pb \in [0 .. n - 1 -> Nat],
         ChainOf(nb, pb, n, C), NEW c \in C, c # n - 1, nb[c] # 1, nb[c] # n - 1
  PROVE  /\ nb[nb[c]] \in C
         /\ ChainOf([nb EXCEPT ![c] = nb[nb[c]]], [pb EXCEPT ![nb[nb[c]]] = c], n, C \ {nb[c]})
  <1>1. PICK x \in C : x = nb[c] /\ x > c /\ pb[x] = c /\ x # 1 /\ x # n - 1
    BY DEF ChainOf
  <1>2. PICK y \in C : y = nb[x] /\ y > x /\ pb[y] = x
    BY <1>1 DEF ChainOf
  <1> DEFINE nb1 == [nb EXCEPT ![c] = y]
             pb1 == [pb EXCEPT ![y] = c]
             G == C \ {x}
  <1>3. /\ G \subseteq 0 .. n - 1 /\ 0 \in G /\ 1 \in G /\ n - 1 \in G /\ nb1[n - 1] = 0
    <2>1. C \subseteq 0 .. n - 1 /\ 0 \in C /\ 1 \in C /\ n - 1 \in C /\ nb[n - 1] = 0
      BY DEF ChainOf
    <2>2. c >= 0 /\ x # 0 /\ n - 1 \in 0 .. n - 1
      BY <1>1, <2>1
    <2>3. nb1[n - 1] = 0
      BY <2>1, <2>2
    <2> QED BY <1>1, <2>1, <2>2, <2>3
  <1>4. nb1[c] = y /\ pb1[y] = c /\ y \in G /\ y > c
    BY <1>1, <1>2 DEF ChainOf
  <1>5. \A b \in G \ {n - 1, c} : nb1[b] = nb[b] /\ nb[b] # x /\ nb[b] # y /\ pb1[nb[b]] = pb[nb[b]]
    BY <1>1, <1>2 DEF ChainOf
  <1>6. \A b \in G \ {n - 1} : nb1[b] \in G /\ nb1[b] > b /\ pb1[nb1[b]] = b
    BY <1>1, <1>2, <1>4, <1>5 DEF ChainOf
  <1>7. \A b \in G \ {n - 1}, a \in G : a <= b \/ a >= nb1[b]
    <2> SUFFICES ASSUME NEW b \in G \ {n - 1}, NEW a \in G PROVE a <= b \/ a >= nb1[b]
      OBVIOUS
    <2>1. CASE b = c
      <3>1. a <= c \/ a >= x
        BY <1>1 DEF ChainOf
      <3>2. a <= x \/ a >= y
        BY <1>1, <1>2 DEF ChainOf
      <3> QED BY <1>1, <1>3, <1>4, <2>1, <3>1, <3>2
    <2>2. CASE b # c
      BY <1>5, <2>2 DEF ChainOf
    <2> QED BY <2>1, <2>2
  <1>8. ChainOf(nb1, pb1, n, G)
    BY <1>3, <1>6, <1>7 DEF ChainOf
  <1> QED BY <1>1, <1>2, <1>8

-----------------------------------------------------------------------------
(* The helpers keep the shape of the heap. *)

(* The shape of a memory is that of its four functions. *)
LEMMA ShapeByFunctions ==
  ASSUME NEW n \in Nat, n >= 3, NEW m \in Memory(n), NEW C, NEW F
  PROVE  HeapShape(m, n, C, F) <=>
           /\ ChainOf(Nexts(m, n), Prevs(m, n), n, C)
           /\ F \subseteq C \ {0, n - 1} /\ FreeSet(m, n) \cap C = F
           /\ RingOf(NextFrees(m, n), PrevFrees(m, n), F)
  <1>1. ASSUME C \subseteq 0 .. n - 1
        PROVE  Marked(m, n, C, F) <=> F \subseteq C \ {0, n - 1} /\ FreeSet(m, n) \cap C = F
    BY <1>1, MarksByFunctions
  <1>2. ASSUME F \subseteq 0 .. n - 1
        PROVE  Linked(m, F) <=> RingOf(NextFrees(m, n), PrevFrees(m, n), F)
    BY <1>2, RingByFunctions
  <1>3. Chained(m, n, C) <=> ChainOf(Nexts(m, n), Prevs(m, n), n, C)
    BY ChainByFunctions
  <1>4. ASSUME HeapShape(m, n, C, F)
        PROVE  /\ ChainOf(Nexts(m, n), Prevs(m, n), n, C)
               /\ F \subseteq C \ {0, n - 1} /\ FreeSet(m, n) \cap C = F
               /\ RingOf(NextFrees(m, n), PrevFrees(m, n), F)
    <2>1. Chained(m, n, C) /\ Marked(m, n, C, F) /\ Linked(m, F)
      BY <1>4 DEF HeapShape
    <2>2. C \subseteq 0 .. n - 1
      BY <2>1 DEF Chained
    <2>3. F \subseteq 0 .. n - 1
      BY <2>1, <2>2 DEF Marked
    <2> QED BY <1>1, <1>2, <1>3, <2>1, <2>2, <2>3
  <1>5. ASSUME ChainOf(Nexts(m, n), Prevs(m, n), n, C),
               F \subseteq C \ {0, n - 1}, FreeSet(m, n) \cap C = F,
               RingOf(NextFrees(m, n), PrevFrees(m, n), F)
        PROVE  HeapShape(m, n, C, F)
    <2>1. C \subseteq 0 .. n - 1
      BY <1>5 DEF ChainOf
    <2>2. F \subseteq 0 .. n - 1
      BY <1>5, <2>1
    <2>3. Chained(m, n, C) /\ Marked(m, n, C, F) /\ Linked(m, F)
      BY <1>1, <1>2, <1>3, <1>5, <2>1, <2>2
    <2> QED BY <2>3 DEF HeapShape
  <1> QED BY <1>4, <1>5

(* A memory with such functions has the shape. *)
LEMMA ShapeFrom ==
  ASSUME NEW n \in Nat, n >= 3, NEW m \in Memory(n), NEW C, NEW F,
         ChainOf(Nexts(m, n), Prevs(m, n), n, C),
         F \subseteq C \ {0, n - 1}, FreeSet(m, n) \cap C = F,
         RingOf(NextFrees(m, n), PrevFrees(m, n), F)
  PROVE  HeapShape(m, n, C, F)
  BY ShapeByFunctions

(* What the shape says of the four functions. *)
LEMMA ShapeParts ==
  ASSUME NEW m, NEW n, NEW C, NEW F, HeapShape(m, n, C, F)
  PROVE  /\ n \in Nat /\ n >= 3 /\ m \in Memory(n)
         /\ ChainOf(Nexts(m, n), Prevs(m, n), n, C)
         /\ F \subseteq C \ {0, n - 1} /\ FreeSet(m, n) \cap C = F
         /\ RingOf(NextFrees(m, n), PrevFrees(m, n), F)
         /\ C \subseteq 0 .. n - 1 /\ F \subseteq 0 .. n - 1 /\ 0 \notin F /\ 0 \in C /\ 1 \in C /\ n - 1 \in C
         /\ Nexts(m, n) \in [0 .. n - 1 -> Nat] /\ Prevs(m, n) \in [0 .. n - 1 -> Nat]
         /\ NextFrees(m, n) \in [0 .. n - 1 -> Nat] /\ PrevFrees(m, n) \in [0 .. n - 1 -> Nat]
         /\ 0 \in 0 .. n - 1 /\ n - 1 \in 0 .. n - 1
  <1>1. n \in Nat /\ n >= 3 /\ m \in Memory(n)
    BY DEF HeapShape
  <1>2. /\ ChainOf(Nexts(m, n), Prevs(m, n), n, C)
        /\ F \subseteq C \ {0, n - 1} /\ FreeSet(m, n) \cap C = F
        /\ RingOf(NextFrees(m, n), PrevFrees(m, n), F)
    BY <1>1, ShapeByFunctions
  <1>3. C \subseteq 0 .. n - 1 /\ 0 \in C /\ 1 \in C /\ n - 1 \in C
    BY <1>2 DEF ChainOf
  <1>4. /\ Nexts(m, n) \in [0 .. n - 1 -> Nat] /\ Prevs(m, n) \in [0 .. n - 1 -> Nat]
        /\ NextFrees(m, n) \in [0 .. n - 1 -> Nat] /\ PrevFrees(m, n) \in [0 .. n - 1 -> Nat]
    BY <1>1, LinksTyped
  <1>5. F \subseteq 0 .. n - 1 /\ 0 \notin F /\ 0 \in 0 .. n - 1 /\ n - 1 \in 0 .. n - 1
    BY <1>1, <1>2, <1>3
  <1> QED BY <1>1, <1>2, <1>3, <1>4, <1>5

(* The cells that hold links. *)
Links(C, F) == {2 * b : b \in C} \cup {2 * b + 1 : b \in F \cup {0}}

(* umm_disconnect_from_free_list: c is no longer free, nothing else        *)
(* changes.                                                                *)
LEMMA Disconnected ==
  ASSUME NEW m, NEW n, NEW C, NEW F, HeapShape(m, n, C, F), NEW c \in F,
         NEW w, w = umm_disconnect_from_free_list(m, c)
  PROVE  /\ HeapShape(w, n, C, F \ {c})
         /\ Nexts(w, n) = Nexts(m, n) /\ Prevs(w, n) = Prevs(m, n)
         /\ Kept(m, w, n, Links(C, F))
  <1> DEFINE nf == NextFrees(m, n)
             pf == PrevFrees(m, n)
             p == pf[c]
             q == nf[c]
  <1>1. /\ n \in Nat /\ n >= 3 /\ m \in Memory(n) /\ c \in 0 .. n - 1 /\ c \in C
        /\ F \subseteq 0 .. n - 1 /\ 0 \in 0 .. n - 1 /\ 0 \notin F
        /\ nf \in [0 .. n - 1 -> Nat] /\ pf \in [0 .. n - 1 -> Nat] /\ RingOf(nf, pf, F)
    BY ShapeParts
  <1>2. /\ p # c /\ q # c /\ p \in F \cup {0} /\ q \in F \cup {0}
        /\ RingOf([nf EXCEPT ![p] = q], [pf EXCEPT ![q] = p], F \ {c})
    BY <1>1, RingWithout
  <1>3. p \in 0 .. n - 1 /\ q \in 0 .. n - 1
    BY <1>1, <1>2
  <1>4. p = PFREE(m, c) /\ q = NFREE(m, c)
    BY <1>1, LinkAt
  <1>5. Becomes(m, w, n, {2 * p + 1, 2 * q + 1, 2 * c}, Nexts(m, n), Prevs(m, n),
                [nf EXCEPT ![p] = q], [pf EXCEPT ![q] = p], FreeSet(m, n) \ {c})
    <2> HIDE DEF p, q
    <2> QED BY <1>1, <1>2, <1>3, <1>4, DisconnectWrites
  <1>6. /\ w \in Memory(n) /\ Kept(m, w, n, {2 * p + 1, 2 * q + 1, 2 * c})
        /\ Nexts(w, n) = Nexts(m, n) /\ Prevs(w, n) = Prevs(m, n)
        /\ NextFrees(w, n) = [nf EXCEPT ![p] = q] /\ PrevFrees(w, n) = [pf EXCEPT ![q] = p]
        /\ FreeSet(w, n) = FreeSet(m, n) \ {c}
    BY <1>5 DEF Becomes
  <1>7. Kept(m, w, n, Links(C, F))
    <2>1. {2 * p + 1, 2 * q + 1, 2 * c} \subseteq Links(C, F)
      BY <1>1, <1>2 DEF Links
    <2> QED BY <1>6, <2>1 DEF Kept
  <1>8. ChainOf(Nexts(w, n), Prevs(w, n), n, C)
    BY <1>6, ShapeParts
  <1>9. F \ {c} \subseteq C \ {0, n - 1} /\ FreeSet(w, n) \cap C = F \ {c}
    <2>1. F \subseteq C \ {0, n - 1} /\ FreeSet(m, n) \cap C = F
      BY ShapeParts
    <2> QED BY <1>6, <2>1
  <1>10. HeapShape(w, n, C, F \ {c})
    <2>1. RingOf(NextFrees(w, n), PrevFrees(w, n), F \ {c})
      BY <1>2, <1>6
    <2>2. w \in Memory(n)
      BY <1>6
    <2> QED BY <1>1, <1>8, <1>9, <2>1, <2>2, ShapeByFunctions
  <1> QED BY <1>6, <1>7, <1>10

(* Of c only the blocks before s remain, followed by s. *)
Halves(m, w, n, C, c, s) ==
  /\ s \in (0 .. n - 1) \ C
  /\ NBLOCK(w, c) = s /\ NBLOCK(w, s) = NBLOCK(m, c)
  /\ \A b \in C \ {c} : NBLOCK(w, b) = NBLOCK(m, b)

(* The header at s takes over the end of block c. *)
LEMMA HalvesFrom ==
  ASSUME NEW m, NEW w, NEW n, NEW C \in SUBSET (0 .. n - 1), NEW c \in C, NEW s \in 0 .. n - 1, s \notin C,
         Nexts(w, n) = [[Nexts(m, n) EXCEPT ![s] = NBLOCK(m, c)] EXCEPT ![c] = s]
  PROVE  Halves(m, w, n, C, c, s)
  <1>1. s # c /\ c \in 0 .. n - 1
    OBVIOUS
  <1>2. Nexts(w, n)[c] = NBLOCK(w, c) /\ Nexts(w, n)[s] = NBLOCK(w, s)
    BY <1>1 DEF Nexts
  <1>3. Nexts(w, n)[c] = s /\ Nexts(w, n)[s] = NBLOCK(m, c)
    BY <1>1 DEF Nexts
  <1>4. ASSUME NEW b \in C \ {c} PROVE NBLOCK(w, b) = NBLOCK(m, b)
    <2>1. b # s /\ b # c /\ b \in 0 .. n - 1
      OBVIOUS
    <2>2. Nexts(w, n)[b] = Nexts(m, n)[b]
      BY <1>1, <2>1 DEF Nexts
    <2> QED BY <2>1, <2>2 DEF Nexts
  <1> QED BY <1>2, <1>3, <1>4 DEF Halves

(* A client's block is cut in two; the second part is a client's too. *)
Split(m, c, k) == umm_split_block(m, c, k, FALSE)

(* umm_split_block of a block in use: its tail from s on is a block too. *)
LEMMA Cut ==
  ASSUME NEW m, NEW n, NEW C, NEW F, HeapShape(m, n, C, F), NEW c \in C, c \notin F, c # n - 1,
         NEW k, k \in Nat \ {0}, NEW s, s = c + k, s < NBLOCK(m, c), NEW w, w = Split(m, c, k)
  PROVE  /\ HeapShape(w, n, C \cup {s}, F)
         /\ Halves(m, w, n, C, c, s)
         /\ Kept(m, w, n, Links(C \cup {s}, F))
  <1> DEFINE nb == Nexts(m, n)
             pb == Prevs(m, n)
  <1>1. /\ n \in Nat /\ n >= 3 /\ m \in Memory(n) /\ c \in 0 .. n - 1
        /\ nb \in [0 .. n - 1 -> Nat] /\ pb \in [0 .. n - 1 -> Nat] /\ ChainOf(nb, pb, n, C)
        /\ F \subseteq C /\ FreeSet(m, n) \cap C = F /\ C \subseteq 0 .. n - 1
    BY ShapeParts
  <1>2. PICK x \in C : x = nb[c]
    BY <1>1 DEF ChainOf
  <1>3. x = NBLOCK(m, c) /\ x \in 0 .. n - 1
    <2>1. c \in 0 .. n - 1
      BY <1>1
    <2>2. nb[c] = NBLOCK(m, c)
      BY <2>1, LinkAt
    <2> QED BY <1>1, <1>2, <2>2
  <1>4. s \in Nat /\ c < s /\ s < nb[c] /\ s # c
    BY <1>1, <1>2, <1>3
  <1>5. /\ s \in 0 .. n - 1 /\ s \notin C
        /\ ChainOf([[nb EXCEPT ![s] = x] EXCEPT ![c] = s],
                   [[pb EXCEPT ![s] = c] EXCEPT ![x] = s], n, C \cup {s})
    BY <1>1, <1>2, <1>4, ChainSplit
  <1>6. Becomes(m, w, n, {2 * s, 2 * x, 2 * c}, [[nb EXCEPT ![s] = x] EXCEPT ![c] = s],
                [[pb EXCEPT ![s] = c] EXCEPT ![x] = s], NextFrees(m, n), PrevFrees(m, n),
                (IF FALSE THEN FreeSet(m, n) \cup {s} ELSE FreeSet(m, n) \ {s}) \ {c})
    BY <1>1, <1>3, <1>4, <1>5, SplitWrites DEF Split
  <1>7. /\ w \in Memory(n) /\ Kept(m, w, n, {2 * s, 2 * x, 2 * c})
        /\ Nexts(w, n) = [[nb EXCEPT ![s] = x] EXCEPT ![c] = s]
        /\ Prevs(w, n) = [[pb EXCEPT ![s] = c] EXCEPT ![x] = s]
        /\ NextFrees(w, n) = NextFrees(m, n) /\ PrevFrees(w, n) = PrevFrees(m, n)
        /\ FreeSet(w, n) = (FreeSet(m, n) \ {s}) \ {c}
    BY <1>6 DEF Becomes
  <1>8. Kept(m, w, n, Links(C \cup {s}, F))
    <2>1. {2 * s, 2 * x, 2 * c} \subseteq Links(C \cup {s}, F)
      BY <1>2 DEF Links
    <2> QED BY <1>7, <2>1 DEF Kept
  <1>9. F \subseteq (C \cup {s}) \ {0, n - 1} /\ FreeSet(w, n) \cap (C \cup {s}) = F
    <2>1. F \subseteq C \ {0, n - 1} /\ FreeSet(m, n) \cap C = F
      BY ShapeParts
    <2> QED BY <1>5, <1>7, <2>1
  <1>10. HeapShape(w, n, C \cup {s}, F)
    <2>1. RingOf(NextFrees(w, n), PrevFrees(w, n), F)
      BY <1>7, ShapeParts
    <2>2. w \in Memory(n)
      BY <1>7
    <2>3. ChainOf(Nexts(w, n), Prevs(w, n), n, C \cup {s})
      BY <1>5, <1>7
    <2>4. n \in Nat /\ n >= 3
      BY <1>1
    <2>5. F \subseteq (C \cup {s}) \ {0, n - 1}
      BY <1>9
    <2>6. FreeSet(w, n) \cap (C \cup {s}) = F
      BY <1>9
    <2> QED BY <2>1, <2>2, <2>3, <2>4, <2>5, <2>6, ShapeFrom
  <1>11. Halves(m, w, n, C, c, s)
    BY <1>1, <1>3, <1>5, <1>7, HalvesFrom
  <1> QED BY <1>5, <1>8, <1>10, <1>11

(* The first k blocks of a free one are handed out; the rest, from s on, is free. *)
Handed(m, c, k, s) == Replace(umm_split_block(m, c, k, TRUE), c, s)

(* The split of umm_malloc: the tail takes the place of c in the free      *)
(* list.                                                                   *)
LEMMA CutFree ==
  ASSUME NEW m, NEW n, NEW C, NEW F, HeapShape(m, n, C, F), NEW c \in F,
         NEW k, k \in Nat \ {0}, NEW s, s = c + k, s < NBLOCK(m, c),
         NEW w, w = Handed(m, c, k, s)
  PROVE  /\ HeapShape(w, n, C \cup {s}, (F \ {c}) \cup {s})
         /\ Halves(m, w, n, C, c, s)
         /\ Kept(m, w, n, Links(C \cup {s}, F \cup {s}))
  <1> DEFINE nb == Nexts(m, n)
             pb == Prevs(m, n)
             nf == NextFrees(m, n)
             pf == PrevFrees(m, n)
  <1>1. /\ n \in Nat /\ n >= 3 /\ m \in Memory(n) /\ c \in 0 .. n - 1 /\ c \in C /\ c # n - 1
        /\ nb \in [0 .. n - 1 -> Nat] /\ pb \in [0 .. n - 1 -> Nat] /\ ChainOf(nb, pb, n, C)
        /\ nf \in [0 .. n - 1 -> Nat] /\ pf \in [0 .. n - 1 -> Nat] /\ RingOf(nf, pf, F)
        /\ F \subseteq C /\ F \subseteq 0 .. n - 1 /\ 0 \notin F /\ 0 \in 0 .. n - 1 /\ 0 \in C
        /\ C \subseteq 0 .. n - 1
    <2>1. /\ n \in Nat /\ n >= 3 /\ m \in Memory(n) /\ C \subseteq 0 .. n - 1 /\ F \subseteq C \ {0, n - 1}
          /\ nb \in [0 .. n - 1 -> Nat] /\ pb \in [0 .. n - 1 -> Nat] /\ ChainOf(nb, pb, n, C)
          /\ nf \in [0 .. n - 1 -> Nat] /\ pf \in [0 .. n - 1 -> Nat] /\ RingOf(nf, pf, F) /\ 0 \in C
      BY ShapeParts
    <2> QED BY <2>1
  <1>2. PICK x \in C : x = nb[c]
    BY <1>1 DEF ChainOf
  <1>3. x = NBLOCK(m, c) /\ x \in 0 .. n - 1
    <2>1. c \in 0 .. n - 1
      BY <1>1
    <2>2. nb[c] = NBLOCK(m, c)
      BY <2>1, LinkAt
    <2> QED BY <1>1, <1>2, <2>2
  <1>4. s \in Nat /\ c < s /\ s < nb[c] /\ s # c
    BY <1>1, <1>2, <1>3
  <1>5. /\ s \in 0 .. n - 1 /\ s \notin C
        /\ ChainOf([[nb EXCEPT ![s] = x] EXCEPT ![c] = s],
                   [[pb EXCEPT ![s] = c] EXCEPT ![x] = s], n, C \cup {s})
    BY <1>1, <1>2, <1>4, ChainSplit
  <1>6. PICK v : v = umm_split_block(m, c, k, TRUE)
    OBVIOUS
  <1>7. Becomes(m, v, n, {2 * s, 2 * x, 2 * c}, [[nb EXCEPT ![s] = x] EXCEPT ![c] = s],
                [[pb EXCEPT ![s] = c] EXCEPT ![x] = s], nf, pf,
                (IF TRUE THEN FreeSet(m, n) \cup {s} ELSE FreeSet(m, n) \ {s}) \ {c})
    BY <1>1, <1>3, <1>4, <1>5, <1>6, SplitWrites
  <1>8. /\ Kept(m, v, n, {2 * s, 2 * x, 2 * c})
        /\ Nexts(v, n) = [[nb EXCEPT ![s] = x] EXCEPT ![c] = s]
        /\ Prevs(v, n) = [[pb EXCEPT ![s] = c] EXCEPT ![x] = s]
        /\ NextFrees(v, n) = nf /\ PrevFrees(v, n) = pf
        /\ FreeSet(v, n) = (FreeSet(m, n) \cup {s}) \ {c}
    BY <1>7 DEF Becomes
  <1>9. v \in Memory(n)
    BY <1>7 DEF Becomes
  <1>10. PICK p \in F \cup {0}, q \in F \cup {0} : p = pf[c] /\ q = nf[c]
    BY <1>1 DEF RingOf
  <1>11. p \in 0 .. n - 1 /\ q \in 0 .. n - 1 /\ p # c
    BY <1>1, <1>10, NoSelfLink
  <1>12. p = PFREE(v, c) /\ q = NFREE(v, c)
    <2>1. PrevFrees(v, n)[c] = PFREE(v, c) /\ NextFrees(v, n)[c] = NFREE(v, c)
      BY <1>1, LinkAt
    <2> QED BY <1>8, <1>10, <2>1
  <1>13. Becomes(v, w, n, {2 * p + 1, 2 * s + 1, 2 * q + 1}, Nexts(v, n), Prevs(v, n),
                 [[NextFrees(v, n) EXCEPT ![p] = s] EXCEPT ![s] = q],
                 [[PrevFrees(v, n) EXCEPT ![s] = p] EXCEPT ![q] = s], FreeSet(v, n))
    <2>1. w = Replace(v, c, s)
      BY <1>6 DEF Handed
    <2>2. n \in Nat /\ c \in 0 .. n - 1
      BY <1>1
    <2>3. s \in 0 .. n - 1 /\ s # c
      BY <1>4, <1>5
    <2>4. p \in 0 .. n - 1 /\ q \in 0 .. n - 1
      BY <1>11
    <2>5. p # c
      BY <1>11
    <2>6. p = PFREE(v, c)
      BY <1>12
    <2>7. q = NFREE(v, c)
      BY <1>12
    <2>8. Becomes(v, Replace(v, c, s), n, {2 * p + 1, 2 * s + 1, 2 * q + 1}, Nexts(v, n), Prevs(v, n),
                  [[NextFrees(v, n) EXCEPT ![p] = s] EXCEPT ![s] = q],
                  [[PrevFrees(v, n) EXCEPT ![s] = p] EXCEPT ![q] = s], FreeSet(v, n))
      BY <1>9, <2>2, <2>3, <2>4, <2>5, <2>6, <2>7, ReplaceWrites
    <2> QED BY <2>1, <2>8
  <1>14. /\ w \in Memory(n) /\ Kept(v, w, n, {2 * p + 1, 2 * s + 1, 2 * q + 1})
         /\ Nexts(w, n) = [[nb EXCEPT ![s] = x] EXCEPT ![c] = s]
         /\ Prevs(w, n) = [[pb EXCEPT ![s] = c] EXCEPT ![x] = s]
         /\ NextFrees(w, n) = [[nf EXCEPT ![p] = s] EXCEPT ![s] = q]
         /\ PrevFrees(w, n) = [[pf EXCEPT ![s] = p] EXCEPT ![q] = s]
         /\ FreeSet(w, n) = (FreeSet(m, n) \cup {s}) \ {c}
    BY <1>8, <1>13 DEF Becomes
  <1>15. Kept(m, w, n, Links(C \cup {s}, F \cup {s}))
    <2>1. {2 * s, 2 * x, 2 * c} \subseteq Links(C \cup {s}, F \cup {s})
      BY <1>1, <1>2 DEF Links
    <2>2. {2 * p + 1, 2 * s + 1, 2 * q + 1} \subseteq Links(C \cup {s}, F \cup {s})
      BY <1>10 DEF Links
    <2>3. Kept(v, w, n, {2 * p + 1, 2 * s + 1, 2 * q + 1})
      BY <1>14
    <2>4. Kept(m, v, n, {2 * s, 2 * x, 2 * c})
      BY <1>8
    <2> QED BY <2>1, <2>2, <2>3, <2>4 DEF Kept
  <1> DEFINE G == (F \ {c}) \cup {s}
  <1>16. G \subseteq (C \cup {s}) \ {0, n - 1} /\ FreeSet(w, n) \cap (C \cup {s}) = G
    <2>1. F \subseteq C \ {0, n - 1} /\ FreeSet(m, n) \cap C = F /\ n - 1 \in C
      BY ShapeParts
    <2> QED BY <1>1, <1>5, <1>14, <2>1
  <1>17. RingOf(NextFrees(w, n), PrevFrees(w, n), G)
    <2>1. s \in 0 .. n - 1 /\ s \notin F /\ s # 0
      BY <1>1, <1>5
    <2>2. RingOf([[nf EXCEPT ![pf[c]] = s] EXCEPT ![s] = nf[c]],
                 [[pf EXCEPT ![s] = pf[c]] EXCEPT ![nf[c]] = s], G)
      BY <1>1, <2>1, RingReplaced
    <2> QED BY <1>10, <1>14, <2>2
  <1>18. HeapShape(w, n, C \cup {s}, G)
    <2>2. w \in Memory(n)
      BY <1>14
    <2>3. ChainOf(Nexts(w, n), Prevs(w, n), n, C \cup {s})
      BY <1>5, <1>14
    <2>4. n \in Nat /\ n >= 3
      BY <1>1
    <2>5. G \subseteq (C \cup {s}) \ {0, n - 1}
      BY <1>16
    <2>6. FreeSet(w, n) \cap (C \cup {s}) = G
      BY <1>16
    <2> HIDE DEF G
    <2> QED BY <1>17, <2>2, <2>3, <2>4, <2>5, <2>6, ShapeFrom
  <1>19. Halves(m, w, n, C, c, s)
    BY <1>1, <1>3, <1>5, <1>14, HalvesFrom
  <1> QED BY <1>5, <1>15, <1>18, <1>19

(* c takes in the free block x that follows it. *)
LEMMA TookUp ==
  ASSUME NEW m, NEW n, NEW C, NEW F, HeapShape(m, n, C, F), NEW c \in C, c \notin F, c # 0, c # n - 1,
         NEW x, x = NBLOCK(m, c), x \in F,
         NEW w, w = TakeIn(umm_disconnect_from_free_list(m, x), c)
  PROVE  /\ HeapShape(w, n, C \ {x}, F \ {x}) /\ x # c
         /\ NBLOCK(m, x) \in C
         /\ Nexts(w, n) = [Nexts(m, n) EXCEPT ![c] = NBLOCK(m, x)]
         /\ Kept(m, w, n, Links(C, F))
  <1> DEFINE nb == Nexts(m, n)
             pb == Prevs(m, n)
             nf == NextFrees(m, n)
             pf == PrevFrees(m, n)
  <1>1. PICK v : v = umm_disconnect_from_free_list(m, x)
    OBVIOUS
  <1>2. HeapShape(v, n, C, F \ {x}) /\ Nexts(v, n) = nb /\ Prevs(v, n) = pb /\ Kept(m, v, n, Links(C, F))
    BY <1>1, Disconnected
  <1>3. n \in Nat /\ n >= 3 /\ C \subseteq 0 .. n - 1 /\ F \subseteq C \ {0, n - 1}
    BY ShapeParts
  <1>4. v \in Memory(n) /\ ChainOf(Nexts(v, n), Prevs(v, n), n, C)
    BY <1>2, ShapeParts
  <1>5. ChainOf(nb, pb, n, C)
    BY <1>2, <1>4
  <1>6. RingOf(NextFrees(v, n), PrevFrees(v, n), F \ {x})
    BY <1>2, ShapeParts
  <1>7. FreeSet(v, n) \cap C = F \ {x}
    BY <1>2, ShapeParts
  <1>8. nb \in [0 .. n - 1 -> Nat] /\ pb \in [0 .. n - 1 -> Nat]
    BY ShapeParts
  <1>9. c \in 0 .. n - 1 /\ x \in 0 .. n - 1 /\ x \in C /\ x # n - 1
    BY <1>3
  <1>10. nb[c] = NBLOCK(m, c) /\ nb[x] = NBLOCK(m, x)
    BY <1>9, LinkAt
  <1>11. x # c /\ x # 1
    BY <1>3, <1>5, <1>9, <1>10 DEF ChainOf
  <1>12. PICK y \in C : y = nb[x]
    BY <1>5, <1>9 DEF ChainOf
  <1>13. y \in 0 .. n - 1
    BY <1>3, <1>12
  <1>14. Nexts(v, n)[c] = NBLOCK(v, c) /\ Nexts(v, n)[x] = NBLOCK(v, x)
    BY <1>9, LinkAt
  <1>15. x = NBLOCK(v, c)
    BY <1>2, <1>10, <1>14
  <1>16. y = NBLOCK(v, x)
    BY <1>2, <1>12, <1>14
  <1>17. Becomes(v, w, n, {2 * y, 2 * c}, [Nexts(v, n) EXCEPT ![c] = y], [Prevs(v, n) EXCEPT ![y] = c],
                 NextFrees(v, n), PrevFrees(v, n), FreeSet(v, n) \ {c})
    <2>1. c \in 0 .. n - 1
      BY <1>9
    <2>2. x \in 0 .. n - 1
      BY <1>9
    <2>3. v \in Memory(n) /\ n \in Nat
      BY <1>3, <1>4
    <2>4. Becomes(v, TakeIn(v, c), n, {2 * y, 2 * c}, [Nexts(v, n) EXCEPT ![c] = y], [Prevs(v, n) EXCEPT ![y] = c],
                  NextFrees(v, n), PrevFrees(v, n), FreeSet(v, n) \ {c})
      BY <1>13, <1>15, <1>16, <2>1, <2>2, <2>3, TakeInWrites
    <2> QED BY <1>1, <2>4
  <1>18. /\ w \in Memory(n) /\ Kept(v, w, n, {2 * y, 2 * c})
         /\ Nexts(w, n) = [nb EXCEPT ![c] = y] /\ Prevs(w, n) = [pb EXCEPT ![y] = c]
         /\ NextFrees(w, n) = NextFrees(v, n) /\ PrevFrees(w, n) = PrevFrees(v, n)
         /\ FreeSet(w, n) = FreeSet(v, n) \ {c}
    BY <1>2, <1>17 DEF Becomes
  <1>19. Kept(m, w, n, Links(C, F))
    <2>1. {2 * y, 2 * c} \subseteq Links(C, F)
      BY <1>12 DEF Links
    <2> QED BY <1>2, <1>18, <2>1 DEF Kept
  <1>20. HeapShape(w, n, C \ {x}, F \ {x})
    <2>1. n \in Nat /\ n >= 3
      BY <1>3
    <2>2. w \in Memory(n)
      BY <1>18
    <2>3. ChainOf(Nexts(w, n), Prevs(w, n), n, C \ {x})
      <3>1. x = nb[c] /\ nb[c] # 1 /\ nb[c] # n - 1
        BY <1>9, <1>10, <1>11
      <3>2. ChainOf([nb EXCEPT ![c] = nb[nb[c]]], [pb EXCEPT ![nb[nb[c]]] = c], n, C \ {nb[c]})
        BY <1>3, <1>5, <1>8, <3>1, ChainMerge
      <3> QED BY <1>12, <1>18, <3>1, <3>2
    <2>4. F \ {x} \subseteq (C \ {x}) \ {0, n - 1}
      BY <1>3
    <2>5. FreeSet(w, n) \cap (C \ {x}) = F \ {x}
      BY <1>3, <1>7, <1>18
    <2>6. RingOf(NextFrees(w, n), PrevFrees(w, n), F \ {x})
      BY <1>6, <1>18
    <2> QED BY <2>1, <2>2, <2>3, <2>4, <2>5, <2>6, ShapeFrom
  <1> QED BY <1>10, <1>11, <1>12, <1>18, <1>19, <1>20

(* Every block but the first is behind another. *)
LEMMA ChainBack ==
  ASSUME NEW n \in Nat, NEW nb, NEW pb, NEW C, ChainOf(nb, pb, n, C), NEW c \in C, c # 0
  PROVE  pb[c] \in C /\ pb[c] # n - 1 /\ nb[pb[c]] = c /\ pb[c] < c
  <1>1. C \subseteq 0 .. n - 1 /\ 0 \in C /\ c \in 1 .. n - 1
    BY DEF ChainOf
  <1>2. PICK p \in {b \in C : b < c} : \A b \in {b \in C : b < c} : b <= p
    <2> DEFINE T == {b \in C : b < c}
    <2>1. T \subseteq 0 .. c /\ 0 \in T /\ c \in Nat
      <3>1. c \in Nat /\ c > 0
        BY <1>1
      <3>2. \A b \in C : b \in Nat
        BY <1>1
      <3>3. 0 \in T
        BY <1>1, <3>1
      <3>4. \A b \in T : b \in 0 .. c
        BY <3>1, <3>2
      <3> QED BY <3>1, <3>3, <3>4
    <2> HIDE DEF T
    <2>2. \E p \in T : \A b \in T : b <= p
      BY <2>1, GreatestNatural
    <2> QED BY <2>2 DEF T
  <1>3. p \in C \ {n - 1} /\ p \in Nat
    BY <1>1, <1>2
  <1>4. nb[p] \in C /\ nb[p] > p /\ pb[nb[p]] = p /\ (c <= p \/ c >= nb[p])
    BY <1>3 DEF ChainOf
  <1>5. nb[p] = c
    <2>1. nb[p] \in Nat /\ c \in Nat /\ p < c
      <3>1. nb[p] \in C /\ c \in C
        BY <1>4
      <3>2. \A b \in C : b \in Nat
        BY <1>1
      <3>3. p < c
        BY <1>2
      <3> QED BY <3>1, <3>2, <3>3
    <2>2. ~(nb[p] < c)
      <3>1. nb[p] < c => nb[p] <= p
        BY <1>2, <1>4
      <3> QED BY <1>3, <1>4, <2>1, <3>1
    <2> QED BY <1>3, <1>4, <2>1, <2>2
  <1> QED BY <1>2, <1>3, <1>4, <1>5

(* The block before c takes c in and keeps its mark. *)
TakenIn(m, w, n, p, c) == Nexts(w, n) = [Nexts(m, n) EXCEPT ![p] = NBLOCK(m, c)]

(* umm_assimilate_down: the block before c takes c in. *)
LEMMA TookDown ==
  ASSUME NEW m, NEW n, NEW C, NEW F, HeapShape(m, n, C, F), NEW c \in C, c \notin F,
         c # 0, c # 1, c # n - 1, NEW p, p = PBLOCK(m, c),
         NEW f \in BOOLEAN, f <=> p \in F,
         NEW w, w = umm_assimilate_down(m, c, f)
  PROVE  /\ HeapShape(w, n, C \ {c}, F) /\ p \in C /\ NBLOCK(m, c) \in C /\ p < c /\ NBLOCK(m, p) = c
         /\ TakenIn(m, w, n, p, c)
         /\ Kept(m, w, n, Links(C, F))
  <1> DEFINE nb == Nexts(m, n)
             pb == Prevs(m, n)
  <1>1. /\ n \in Nat /\ n >= 3 /\ C \subseteq 0 .. n - 1 /\ F \subseteq C \ {0, n - 1}
        /\ ChainOf(nb, pb, n, C) /\ FreeSet(m, n) \cap C = F
    BY ShapeParts
  <1>2. m \in Memory(n) /\ nb \in [0 .. n - 1 -> Nat] /\ pb \in [0 .. n - 1 -> Nat]
    BY ShapeParts
  <1>3. c \in 0 .. n - 1
    BY <1>1
  <1>4. p = pb[c] /\ nb[c] = NBLOCK(m, c)
    BY <1>3, LinkAt
  <1>5. p \in C /\ p # n - 1 /\ nb[p] = c /\ p < c
    BY <1>1, <1>4, ChainBack
  <1>6. p \in 0 .. n - 1 /\ c # p
    BY <1>1, <1>3, <1>5
  <1>7. PICK x \in C : x = nb[c]
    BY <1>1 DEF ChainOf
  <1>8. x \in 0 .. n - 1 /\ x = NBLOCK(m, c) /\ NBLOCK(m, p) = c
    <2>1. nb[p] = NBLOCK(m, p)
      BY <1>6, LinkAt
    <2> QED BY <1>1, <1>4, <1>5, <1>7, <2>1
  <1>9. Becomes(m, w, n, {2 * p, 2 * x}, [nb EXCEPT ![p] = x], [pb EXCEPT ![x] = p],
                NextFrees(m, n), PrevFrees(m, n), IF f THEN FreeSet(m, n) \cup {p} ELSE FreeSet(m, n) \ {p})
    <2>1. n \in Nat /\ m \in Memory(n)
      BY <1>1, <1>2
    <2>2. p \in 0 .. n - 1
      BY <1>6
    <2>3. c # p
      BY <1>6
    <2>4. x \in 0 .. n - 1
      BY <1>8
    <2>5. x = NBLOCK(m, c)
      BY <1>8
    <2> QED BY <1>3, <2>1, <2>2, <2>3, <2>4, <2>5, AssimilateDownWrites
  <1>10. /\ w \in Memory(n) /\ Kept(m, w, n, {2 * p, 2 * x})
         /\ Nexts(w, n) = [nb EXCEPT ![p] = x] /\ Prevs(w, n) = [pb EXCEPT ![x] = p]
         /\ NextFrees(w, n) = NextFrees(m, n) /\ PrevFrees(w, n) = PrevFrees(m, n)
         /\ FreeSet(w, n) = IF f THEN FreeSet(m, n) \cup {p} ELSE FreeSet(m, n) \ {p}
    BY <1>9 DEF Becomes
  <1>11. Kept(m, w, n, Links(C, F))
    <2>1. {2 * p, 2 * x} \subseteq Links(C, F)
      BY <1>5, <1>7 DEF Links
    <2> QED BY <1>10, <2>1 DEF Kept
  <1>12. HeapShape(w, n, C \ {c}, F)
    <2>1. n \in Nat /\ n >= 3
      BY <1>1
    <2>2. w \in Memory(n)
      BY <1>10
    <2>3. ChainOf(Nexts(w, n), Prevs(w, n), n, C \ {c})
      <3>1. nb[p] = c /\ nb[p] # 1 /\ nb[p] # n - 1
        BY <1>5
      <3>2. ChainOf([nb EXCEPT ![p] = nb[nb[p]]], [pb EXCEPT ![nb[nb[p]]] = p], n, C \ {nb[p]})
        BY <1>1, <1>2, <1>5, <3>1, ChainMerge
      <3> QED BY <1>7, <1>10, <3>1, <3>2
    <2>4. F \subseteq (C \ {c}) \ {0, n - 1}
      BY <1>1
    <2>5. FreeSet(w, n) \cap (C \ {c}) = F
      BY <1>1, <1>5, <1>6, <1>10
    <2>6. RingOf(NextFrees(w, n), PrevFrees(w, n), F)
      BY <1>10, ShapeParts
    <2> QED BY <2>1, <2>2, <2>3, <2>4, <2>5, <2>6, ShapeFrom
  <1> QED BY <1>5, <1>7, <1>8, <1>10, <1>11, <1>12 DEF TakenIn

(* c becomes the first of the free list. *)
LEMMA Added ==
  ASSUME NEW m, NEW n, NEW C, NEW F, HeapShape(m, n, C, F), NEW c \in C, c \notin F,
         c # 0, c # n - 1, NEW w, w = AddToFreeList(m, c)
  PROVE  /\ HeapShape(w, n, C, F \cup {c})
         /\ Nexts(w, n) = Nexts(m, n) /\ Kept(m, w, n, Links(C, F \cup {c}))
  <1> DEFINE nf == NextFrees(m, n)
             pf == PrevFrees(m, n)
             G == F \cup {c}
  <1>1. /\ n \in Nat /\ n >= 3 /\ C \subseteq 0 .. n - 1 /\ F \subseteq C \ {0, n - 1}
        /\ RingOf(nf, pf, F) /\ FreeSet(m, n) \cap C = F /\ F \subseteq 0 .. n - 1 /\ 0 \notin F
        /\ ChainOf(Nexts(m, n), Prevs(m, n), n, C) /\ 0 \in 0 .. n - 1 /\ 0 \in C
    BY ShapeParts
  <1>2. m \in Memory(n) /\ nf \in [0 .. n - 1 -> Nat] /\ pf \in [0 .. n - 1 -> Nat]
    BY ShapeParts
  <1>3. c \in 0 .. n - 1
    BY <1>1
  <1>4. /\ nf[0] \in F \cup {0}
        /\ RingOf([[nf EXCEPT ![c] = nf[0]] EXCEPT ![0] = c],
                  [[pf EXCEPT ![nf[0]] = c] EXCEPT ![c] = 0], G)
    <2>1. F \in SUBSET (0 .. n - 1) /\ 0 \in 0 .. n - 1
      BY <1>1
    <2>2. 0 \notin F /\ RingOf(nf, pf, F)
      BY <1>1
    <2> HIDE DEF nf, pf
    <2> QED BY <1>2, <1>3, <2>1, <2>2, RingWith
  <1>5. PICK h \in F \cup {0} : h = nf[0]
    BY <1>4
  <1>6. h \in 0 .. n - 1
    BY <1>1
  <1>7. h = NFREE(m, 0)
    <2>1. 0 \in 0 .. n - 1
      BY <1>1
    <2>2. nf[0] = NFREE(m, 0)
      BY <2>1, LinkAt
    <2> QED BY <1>5, <2>2
  <1>8. Becomes(m, w, n, {2 * h + 1, 2 * c + 1, 2 * 0 + 1, 2 * c}, Nexts(m, n), Prevs(m, n),
                [[nf EXCEPT ![c] = h] EXCEPT ![0] = c], [[pf EXCEPT ![h] = c] EXCEPT ![c] = 0],
                FreeSet(m, n) \cup {c})
    <2>1. n \in Nat /\ m \in Memory(n)
      BY <1>1, <1>2
    <2>2. 0 \in 0 .. n - 1
      BY <1>1
    <2> QED BY <1>3, <1>6, <1>7, <2>1, <2>2, AddWrites
  <1>9. /\ w \in Memory(n) /\ Kept(m, w, n, {2 * h + 1, 2 * c + 1, 2 * 0 + 1, 2 * c})
        /\ Nexts(w, n) = Nexts(m, n) /\ Prevs(w, n) = Prevs(m, n)
        /\ NextFrees(w, n) = [[nf EXCEPT ![c] = h] EXCEPT ![0] = c]
        /\ PrevFrees(w, n) = [[pf EXCEPT ![h] = c] EXCEPT ![c] = 0]
        /\ FreeSet(w, n) = FreeSet(m, n) \cup {c}
    BY <1>8 DEF Becomes
  <1>10. Kept(m, w, n, Links(C, G))
    <2>1. {2 * h + 1, 2 * c + 1, 2 * 0 + 1, 2 * c} \subseteq Links(C, G)
      BY DEF Links
    <2> QED BY <1>9, <2>1 DEF Kept
  <1>11. HeapShape(w, n, C, G)
    <2>1. n \in Nat /\ n >= 3
      BY <1>1
    <2>2. w \in Memory(n)
      BY <1>9
    <2>3. ChainOf(Nexts(w, n), Prevs(w, n), n, C)
      BY <1>1, <1>9
    <2>4. G \subseteq C \ {0, n - 1}
      BY <1>1
    <2>5. FreeSet(w, n) \cap C = G
      BY <1>1, <1>9
    <2>6. RingOf(NextFrees(w, n), PrevFrees(w, n), G)
      BY <1>4, <1>5, <1>9
    <2> HIDE DEF G
    <2> QED BY <2>1, <2>2, <2>3, <2>4, <2>5, <2>6, ShapeFrom
  <1> QED BY <1>9, <1>10, <1>11

-----------------------------------------------------------------------------
(* The cells of a client lie between the links. *)
DataOf(m, b) == 2 * b + 1 .. 2 * NBLOCK(m, b) - 1

(* What the chain says of a block and the one that follows. *)
LEMMA ChainFacts ==
  ASSUME NEW m, NEW n, NEW C, NEW F, HeapShape(m, n, C, F), NEW b \in C, b # n - 1
  PROVE  /\ b \in 0 .. n - 1 /\ n \in Nat /\ n >= 3
         /\ NBLOCK(m, b) \in C /\ NBLOCK(m, b) \in 1 .. n - 1 /\ NBLOCK(m, b) > b
         /\ \A c \in C : c <= b \/ c >= NBLOCK(m, b)
         /\ C \subseteq 0 .. n - 1 /\ F \subseteq C \ {0, n - 1}
  <1>1. Chained(m, n, C) /\ Marked(m, n, C, F) /\ n \in Nat /\ n >= 3
    BY DEF HeapShape
  <1>2. C \subseteq 0 .. n - 1 /\ F \subseteq C \ {0, n - 1}
    BY <1>1 DEF Chained, Marked
  <1>3. NBLOCK(m, b) \in C /\ NBLOCK(m, b) > b /\ \A c \in C : c <= b \/ c >= NBLOCK(m, b)
    BY <1>1 DEF Chained
  <1>4. b \in 0 .. n - 1 /\ NBLOCK(m, b) \in 0 .. n - 1
    BY <1>2, <1>3
  <1>5. NBLOCK(m, b) \in 1 .. n - 1
    BY <1>3, <1>4
  <1> QED BY <1>1, <1>2, <1>3, <1>4, <1>5

(* The cells of a client hold no link and belong to no other block. *)
LEMMA DataApart ==
  ASSUME NEW m, NEW n, NEW C, NEW F, HeapShape(m, n, C, F), NEW b \in C, b \notin F \cup {0, n - 1},
         NEW y \in DataOf(m, b)
  PROVE  /\ y \in 0 .. 2 * n - 1
         /\ \A c \in C : c # b => y # 2 * c /\ y # 2 * c + 1 /\ (c # n - 1 => y \notin DataOf(m, c))
         /\ y # 2 * b
         /\ y \notin Links(C, F)
  <1>1. /\ b \in 1 .. n - 1 /\ n \in Nat /\ NBLOCK(m, b) \in 1 .. n - 1
        /\ \A c \in C : c <= b \/ c >= NBLOCK(m, b)
    BY ChainFacts
  <1>2. C \subseteq 0 .. n - 1 /\ F \subseteq C
    BY ChainFacts
  <1>3. PICK x \in 1 .. n - 1 : x = NBLOCK(m, b)
    BY <1>1
  <1>4. y \in 2 * b + 1 .. 2 * x - 1
    BY <1>3 DEF DataOf
  <1>5. y \in 0 .. 2 * n - 1 /\ y # 2 * b
    BY <1>1, <1>4
  <1>6. ASSUME NEW c \in C, c # b
        PROVE  y # 2 * c /\ y # 2 * c + 1 /\ (c # n - 1 => y \notin DataOf(m, c))
    <2>1. c \in 0 .. n - 1 /\ (c <= b \/ c >= x)
      BY <1>1, <1>2, <1>3, <1>6
    <2>2. y # 2 * c /\ y # 2 * c + 1
      BY <1>1, <1>4, <1>6, <2>1
    <2>3. ASSUME c # n - 1 PROVE y \notin DataOf(m, c)
      <3>1. NBLOCK(m, c) \in 1 .. n - 1 /\ \A d \in C : d <= c \/ d >= NBLOCK(m, c)
        BY <2>3, ChainFacts
      <3>2. PICK z \in 1 .. n - 1 : z = NBLOCK(m, c)
        BY <3>1
      <3>3. b <= c \/ b >= z
        BY <3>1, <3>2
      <3>4. y \notin 2 * c + 1 .. 2 * z - 1
        BY <1>1, <1>4, <1>6, <2>1, <3>2, <3>3
      <3> QED BY <3>2, <3>4 DEF DataOf
    <2> QED BY <2>2, <2>3
  <1>7. y \notin Links(C, F)
    <2>1. \A c \in C : y # 2 * c
      BY <1>5, <1>6
    <2>2. 0 \in C
      BY ShapeParts
    <2>3. \A c \in F \cup {0} : y # 2 * c + 1
      BY <1>2, <1>6, <2>2
    <2> QED BY <2>1, <2>3 DEF Links
  <1> QED BY <1>5, <1>6, <1>7

(* A memory with the same links has the same shape. *)
LEMMA SameLinks ==
  ASSUME NEW m, NEW n, NEW C, NEW F, HeapShape(m, n, C, F), NEW w \in Memory(n),
         \A y \in Links(C, F) : w[y] = m[y]
  PROVE  /\ HeapShape(w, n, C, F)
         /\ \A b \in C : NBLOCK(w, b) = NBLOCK(m, b) /\ PBLOCK(w, b) = PBLOCK(m, b)
  <1>1. \A b \in C : w[2 * b] = m[2 * b]
    BY DEF Links
  <1>2. \A b \in F \cup {0} : w[2 * b + 1] = m[2 * b + 1]
    BY DEF Links
  <1>3. \A b \in C : NBLOCK(w, b) = NBLOCK(m, b)
    BY <1>1 DEF NBLOCK
  <1>4. \A b \in C : PBLOCK(w, b) = PBLOCK(m, b)
    BY <1>1 DEF PBLOCK
  <1>5. \A b \in C : IsFree(w, b) = IsFree(m, b)
    BY <1>1 DEF IsFree
  <1>6. \A b \in F \cup {0} : NFREE(w, b) = NFREE(m, b)
    BY <1>2 DEF NFREE
  <1>7. \A b \in F \cup {0} : PFREE(w, b) = PFREE(m, b)
    BY <1>2 DEF PFREE
  <1>8. n \in Nat /\ n >= 3 /\ Chained(m, n, C) /\ Marked(m, n, C, F) /\ Linked(m, F)
    BY DEF HeapShape
  <1>9. Chained(w, n, C)
    <2>1. /\ C \subseteq 0 .. n - 1 /\ 0 \in C /\ 1 \in C /\ n - 1 \in C
          /\ NBLOCK(m, n - 1) = 0
      BY <1>8 DEF Chained
    <2>2. ASSUME NEW b \in C \ {n - 1}
          PROVE  /\ NBLOCK(w, b) \in C /\ NBLOCK(w, b) > b
                 /\ PBLOCK(w, NBLOCK(w, b)) = b
                 /\ \A c \in C : c <= b \/ c >= NBLOCK(w, b)
      <3>1. /\ NBLOCK(m, b) \in C /\ NBLOCK(m, b) > b
            /\ PBLOCK(m, NBLOCK(m, b)) = b
            /\ \A c \in C : c <= b \/ c >= NBLOCK(m, b)
        BY <1>8 DEF Chained
      <3>2. NBLOCK(w, b) = NBLOCK(m, b)
        BY <1>3
      <3>3. PBLOCK(w, NBLOCK(m, b)) = PBLOCK(m, NBLOCK(m, b))
        BY <1>4, <3>1
      <3> QED BY <3>1, <3>2, <3>3
    <2> QED BY <1>3, <2>1, <2>2 DEF Chained
  <1>10. Marked(w, n, C, F)
    BY <1>5, <1>8 DEF Marked
  <1>11. Linked(w, F)
    <2>1. ASSUME NEW b \in F \cup {0}
          PROVE  /\ NFREE(w, b) \in F \cup {0} /\ PFREE(w, b) \in F \cup {0}
                 /\ PFREE(w, NFREE(w, b)) = b /\ NFREE(w, PFREE(w, b)) = b
      <3>1. /\ NFREE(m, b) \in F \cup {0} /\ PFREE(m, b) \in F \cup {0}
            /\ PFREE(m, NFREE(m, b)) = b /\ NFREE(m, PFREE(m, b)) = b
        BY <1>8 DEF Linked
      <3>2. NFREE(w, b) = NFREE(m, b) /\ PFREE(w, b) = PFREE(m, b)
        BY <1>6, <1>7
      <3>3. PFREE(w, NFREE(m, b)) = PFREE(m, NFREE(m, b)) /\ NFREE(w, PFREE(m, b)) = NFREE(m, PFREE(m, b))
        BY <1>6, <1>7, <3>1
      <3> QED BY <3>1, <3>2, <3>3
    <2>2. ASSUME NEW S \in SUBSET F, S # {} PROVE \E b \in S : PFREE(w, b) \notin S
      <3>1. PICK b \in S : PFREE(m, b) \notin S
        BY <1>8, <2>2 DEF Linked
      <3> QED BY <1>7, <3>1
    <2> QED BY <2>1, <2>2 DEF Linked
  <1> QED BY <1>3, <1>4, <1>8, <1>9, <1>10, <1>11 DEF HeapShape

-----------------------------------------------------------------------------
(* Giving a block back, merged with the free blocks beside it. *)

(* The free bit tells whether a block is in F. *)
LEMMA MarkOf ==
  ASSUME NEW m, NEW n, NEW C, NEW F, HeapShape(m, n, C, F), NEW b \in C
  PROVE  IsFree(m, b) = (b \in F)
  BY DEF HeapShape, Marked

(* The block before c, which PBLOCK names. *)
LEMMA Before ==
  ASSUME NEW m, NEW n, NEW C, NEW F, HeapShape(m, n, C, F), NEW c \in C, c # 0
  PROVE  PBLOCK(m, c) \in C \ {n - 1} /\ NBLOCK(m, PBLOCK(m, c)) = c /\ PBLOCK(m, c) < c
  <1>1. n \in Nat /\ n >= 3 /\ C \subseteq 0 .. n - 1 /\ ChainOf(Nexts(m, n), Prevs(m, n), n, C)
    BY ShapeParts
  <1>2. PICK p : p = Prevs(m, n)[c]
    OBVIOUS
  <1>3. p \in C /\ p # n - 1 /\ Nexts(m, n)[p] = c /\ p < c
    BY <1>1, <1>2, ChainBack
  <1>4. c \in 0 .. n - 1 /\ p \in 0 .. n - 1
    BY <1>1, <1>3
  <1>5. Prevs(m, n)[c] = PBLOCK(m, c) /\ Nexts(m, n)[p] = NBLOCK(m, p)
    BY <1>4, LinkAt
  <1> QED BY <1>2, <1>3, <1>5

(* The function of forward links is NBLOCK. *)
LEMMA NextsOf ==
  ASSUME NEW m, NEW n, NEW C, NEW F, HeapShape(m, n, C, F), NEW b \in C
  PROVE  Nexts(m, n)[b] = NBLOCK(m, b)
  <1>1. b \in 0 .. n - 1
    BY ShapeParts
  <1> QED BY <1>1, LinkAt

(* What taking in the block that follows leaves of C and F. *)
LEMMA Up ==
  ASSUME NEW m, NEW n, NEW C, NEW F, HeapShape(m, n, C, F), Apart(m, F),
         NEW c \in C, c \notin F, c # 0, c # n - 1,
         NEW x, x = NBLOCK(m, c), NEW w, w = umm_assimilate_up(m, c),
         NEW D, D = C \ ({x} \cap F), NEW G, G = F \ {x}
  PROVE  /\ HeapShape(w, n, D, G) /\ Apart(w, G) /\ c \in D /\ x \in C
         /\ NBLOCK(w, c) = IF x \in F THEN NBLOCK(m, x) ELSE x
         /\ NBLOCK(w, c) \notin G
         /\ \A b \in D \ {c} : NBLOCK(w, b) = NBLOCK(m, b)
         /\ Kept(m, w, n, Links(C, F))
  <1>1. /\ x \in C /\ x > c /\ c \in 0 .. n - 1 /\ C \subseteq 0 .. n - 1 /\ F \subseteq C \ {0, n - 1}
        /\ n \in Nat /\ n >= 3
    BY ChainFacts
  <1>2. IsFree(m, x) = (x \in F)
    BY <1>1, MarkOf
  <1>3. CASE x \in F
    <2>1. w = TakeIn(umm_disconnect_from_free_list(m, x), c)
      BY <1>2, <1>3 DEF umm_assimilate_up
    <2>2. /\ HeapShape(w, n, C \ {x}, F \ {x}) /\ x # c
          /\ NBLOCK(m, x) \in C
          /\ Nexts(w, n) = [Nexts(m, n) EXCEPT ![c] = NBLOCK(m, x)]
          /\ Kept(m, w, n, Links(C, F))
      BY <1>3, <2>1, TookUp
    <2>3. D = C \ {x}
      BY <1>3
    <2>4. HeapShape(w, n, D, G)
      BY <2>2, <2>3
    <2>5. c \in D /\ Nexts(m, n) \in [0 .. n - 1 -> Nat]
      BY <2>2, <2>3, ShapeParts
    <2>6. NBLOCK(w, c) = NBLOCK(m, x)
      <3>1. Nexts(w, n)[c] = NBLOCK(w, c)
        BY <2>4, <2>5, NextsOf
      <3> QED BY <1>1, <2>2, <2>5, <3>1
    <2>7. ASSUME NEW b \in D \ {c} PROVE NBLOCK(w, b) = NBLOCK(m, b)
      <3>1. Nexts(w, n)[b] = NBLOCK(w, b)
        BY <2>4, NextsOf
      <3>2. b \in C
        BY <2>3
      <3>3. Nexts(m, n)[b] = NBLOCK(m, b)
        BY <3>2, NextsOf
      <3>4. Nexts(w, n)[b] = Nexts(m, n)[b]
        BY <1>1, <2>2, <2>5, <2>7, <3>2
      <3> QED BY <3>1, <3>3, <3>4
    <2>8. NBLOCK(m, x) \notin F
      BY <1>3 DEF Apart
    <2>9. Apart(w, G)
      <3>1. ASSUME NEW b \in G PROVE NBLOCK(w, b) \notin G
        <4>1. b \in D \ {c} /\ b \in F
          BY <1>1, <2>3
        <4>2. NBLOCK(w, b) = NBLOCK(m, b)
          BY <2>7, <4>1
        <4>3. NBLOCK(m, b) \notin F
          BY <4>1 DEF Apart
        <4> QED BY <4>2, <4>3
      <3> QED BY <3>1 DEF Apart
    <2> QED BY <1>1, <1>3, <2>2, <2>4, <2>5, <2>6, <2>7, <2>8, <2>9
  <1>4. CASE x \notin F
    <2>1. w = m
      BY <1>2, <1>4 DEF umm_assimilate_up
    <2>2. D = C /\ G = F
      BY <1>4
    <2>3. Kept(m, w, n, Links(C, F))
      BY <2>1 DEF Kept
    <2> QED BY <1>1, <1>4, <2>1, <2>2, <2>3
  <1> QED BY <1>3, <1>4

(* umm_free: c is given back, free blocks beside it are merged with it,    *)
(* and every other block in use stays as it was.                           *)
LEMMA Freed ==
  ASSUME NEW m, NEW n, NEW C, NEW F, HeapShape(m, n, C, F), Apart(m, F),
         NEW c \in C, c \notin F, c # 0, c # n - 1, NEW w, w = FreeBlock(m, c)
  PROVE  \E D \in SUBSET (0 .. n - 1), G \in SUBSET (0 .. n - 1) :
           /\ HeapShape(w, n, D, G) /\ Apart(w, G) /\ D \ G = (C \ F) \ {c}
           /\ \A b \in D \ G : NBLOCK(w, b) = NBLOCK(m, b)
           /\ Kept(m, w, n, Links(C, F \cup {c}))
  <1>1. PICK x : x = NBLOCK(m, c)
    OBVIOUS
  <1>2. PICK v : v = umm_assimilate_up(m, c)
    OBVIOUS
  <1>3. PICK D, G : D = C \ ({x} \cap F) /\ G = F \ {x}
    OBVIOUS
  <1>4. /\ HeapShape(v, n, D, G) /\ Apart(v, G) /\ c \in D /\ x \in C
        /\ NBLOCK(v, c) \notin G
        /\ \A b \in D \ {c} : NBLOCK(v, b) = NBLOCK(m, b)
        /\ Kept(m, v, n, Links(C, F))
    BY <1>1, <1>2, <1>3, Up
  <1>5. D \ G = C \ F /\ D \subseteq C /\ G \subseteq F /\ c \notin G /\ F \subseteq C
    <2>1. F \subseteq C
      BY ShapeParts
    <2> QED BY <1>3, <2>1
  <1>6. PICK p : p = PBLOCK(v, c)
    OBVIOUS
  <1>7. p \in D \ {n - 1} /\ NBLOCK(v, p) = c /\ p < c
    BY <1>4, <1>6, Before
  <1>8. IsFree(v, p) = (p \in G)
    BY <1>4, <1>7, MarkOf
  <1>9. w = JoinOrAdd(v, c)
    BY <1>2 DEF FreeBlock
  <1>10. Links(D, G) \subseteq Links(C, F \cup {c}) /\ Links(C, F) \subseteq Links(C, F \cup {c})
         /\ Links(D, G \cup {c}) \subseteq Links(C, F \cup {c})
    BY <1>5 DEF Links
  <1>11. D \subseteq 0 .. n - 1 /\ G \subseteq D \ {0, n - 1} /\ n \in Nat /\ n >= 3
    BY <1>4, ShapeParts
  <1>12. CASE p \in G
    <2>1. PICK f \in BOOLEAN : f = TRUE /\ w = umm_assimilate_down(v, c, f)
      BY <1>6, <1>8, <1>9, <1>12 DEF JoinOrAdd
    <2>2. c # 1
      BY <1>7, <1>11, <1>12
    <2>3. f <=> p \in G
      BY <1>12, <2>1
    <2>4. /\ HeapShape(w, n, D \ {c}, G)
          /\ Nexts(w, n) = [Nexts(v, n) EXCEPT ![p] = NBLOCK(v, c)]
          /\ Kept(v, w, n, Links(D, G))
      <3>1. HeapShape(v, n, D, G) /\ c \in D
        BY <1>4
      <3>2. c \notin G
        BY <1>5
      <3>3. w = umm_assimilate_down(v, c, f)
        BY <2>1
      <3>4. HeapShape(w, n, D \ {c}, G)
        BY <1>6, <2>2, <2>3, <3>1, <3>2, <3>3, TookDown
      <3>5. Kept(v, w, n, Links(D, G))
        BY <1>6, <2>2, <2>3, <3>1, <3>2, <3>3, <3>4, TookDown
      <3>6. TakenIn(v, w, n, p, c)
        BY <1>6, <2>2, <2>3, <3>1, <3>2, <3>3, <3>4, <3>5, TookDown
      <3> QED BY <3>4, <3>5, <3>6 DEF TakenIn
    <2>5. ASSUME NEW b \in D \ {c, p} PROVE NBLOCK(w, b) = NBLOCK(m, b)
      <3>1. Nexts(w, n)[b] = NBLOCK(w, b) /\ Nexts(v, n)[b] = NBLOCK(v, b)
        <4>1. b \in D /\ b \in D \ {c}
          OBVIOUS
        <4>2. HeapShape(w, n, D \ {c}, G) /\ HeapShape(v, n, D, G)
          BY <1>4, <2>4
        <4>3. Nexts(w, n)[b] = NBLOCK(w, b)
          BY <4>1, <4>2, NextsOf
        <4>4. Nexts(v, n)[b] = NBLOCK(v, b)
          BY <4>1, <4>2, NextsOf
        <4> QED BY <4>3, <4>4
      <3>2. Nexts(v, n) \in [0 .. n - 1 -> Nat]
        BY <1>4, ShapeParts
      <3>3. Nexts(w, n)[b] = Nexts(v, n)[b]
        BY <1>11, <2>4, <3>2
      <3> QED BY <1>4, <3>1, <3>3
    <2>6. NBLOCK(w, p) = NBLOCK(v, c)
      <3>1. p \in D \ {c} /\ p \in 0 .. n - 1
        BY <1>7, <1>11
      <3>2. Nexts(w, n)[p] = NBLOCK(w, p)
        BY <2>4, <3>1, NextsOf
      <3>3. Nexts(v, n) \in [0 .. n - 1 -> Nat]
        BY <1>4, ShapeParts
      <3> QED BY <2>4, <3>1, <3>2, <3>3
    <2>7. Apart(w, G)
      <3>1. ASSUME NEW b \in G PROVE NBLOCK(w, b) \notin G
        <4>1. CASE b = p
          BY <1>4, <2>6, <4>1
        <4>2. CASE b # p
          <5>1. b \in D \ {c, p}
            BY <1>5, <1>11, <4>2
          <5>2. NBLOCK(w, b) = NBLOCK(v, b)
            BY <1>4, <2>5, <5>1
          <5>3. NBLOCK(v, b) \notin G
            BY <1>4 DEF Apart
          <5> QED BY <5>2, <5>3
        <4> QED BY <4>1, <4>2
      <3> QED BY <3>1 DEF Apart
    <2>8. Kept(m, w, n, Links(C, F \cup {c}))
      BY <1>4, <1>10, <2>4 DEF Kept
    <2>9. (D \ {c}) \ G = (C \ F) \ {c}
      BY <1>5
    <2>10. \A b \in (D \ {c}) \ G : NBLOCK(w, b) = NBLOCK(m, b)
      BY <1>12, <2>5
    <2>11. D \ {c} \in SUBSET (0 .. n - 1) /\ G \in SUBSET (0 .. n - 1)
      BY <1>11
    <2> QED BY <2>4, <2>7, <2>8, <2>9, <2>10, <2>11
  <1>13. CASE p \notin G
    <2>1. w = AddToFreeList(v, c)
      BY <1>6, <1>8, <1>9, <1>13 DEF JoinOrAdd
    <2>2. /\ HeapShape(w, n, D, G \cup {c})
          /\ Nexts(w, n) = Nexts(v, n) /\ Kept(v, w, n, Links(D, G \cup {c}))
      BY <1>4, <1>5, <2>1, Added
    <2>3. ASSUME NEW b \in D PROVE NBLOCK(w, b) = NBLOCK(v, b)
      <3>1. Nexts(w, n)[b] = NBLOCK(w, b) /\ Nexts(v, n)[b] = NBLOCK(v, b)
        BY <1>4, <2>2, NextsOf
      <3> QED BY <2>2, <3>1
    <2>4. Apart(w, G \cup {c})
      <3>1. ASSUME NEW b \in G \cup {c} PROVE NBLOCK(w, b) \notin G \cup {c}
        <4>1. b \in D /\ b # n - 1
          BY <1>4, <1>11
        <4>2. NBLOCK(w, b) = NBLOCK(v, b) /\ NBLOCK(v, b) > b /\ b \in 0 .. n - 1
          BY <1>4, <2>3, <4>1, ChainFacts
        <4>3. CASE b = c
          BY <1>4, <4>2, <4>3
        <4>4. CASE b # c
          <5>1. NBLOCK(v, b) \notin G
            BY <1>4, <4>4 DEF Apart
          <5>2. NBLOCK(v, b) # c
            <6>1. PBLOCK(v, NBLOCK(v, b)) = b
              BY <1>4, <4>1 DEF HeapShape, Chained
            <6> QED BY <1>6, <1>13, <4>4, <6>1
          <5> QED BY <4>2, <5>1, <5>2
        <4> QED BY <4>3, <4>4
      <3> QED BY <3>1 DEF Apart
    <2>5. Kept(m, w, n, Links(C, F \cup {c}))
      BY <1>4, <1>10, <2>2, KeptTrans
    <2>6. D \ (G \cup {c}) = (C \ F) \ {c}
      BY <1>5
    <2>7. \A b \in D \ (G \cup {c}) : NBLOCK(w, b) = NBLOCK(m, b)
      BY <1>4, <2>3
    <2>8. D \in SUBSET (0 .. n - 1) /\ G \cup {c} \in SUBSET (0 .. n - 1)
      BY <1>4, <1>11
    <2> QED BY <2>2, <2>4, <2>5, <2>6, <2>7, <2>8
  <1> QED BY <1>12, <1>13

-----------------------------------------------------------------------------
(* The walks along the free list and along the headers. *)

(* f holds the places of a walk of n steps from v. *)
Walk(f, v, n, step) == f[0] = v /\ \A i \in 1 .. n : f[i] = step[f[i - 1]]

(* A walk of any length exists. *)
LEMMA WalkExists ==
  ASSUME NEW V, NEW v \in V, NEW n \in Nat, NEW step \in [V -> V]
  PROVE  \E f \in [0 .. n -> V] : Walk(f, v, n, step)
  <1>1. PICK G : G = [x \in (1 .. n) \X V |-> step[x[2]]]
    OBVIOUS
  <1>2. G \in [(1 .. n) \X V -> V]
    BY <1>1
  <1>3. PICK f \in [0 .. n -> V] : Iterates(f, v, n, G)
    BY <1>2, IteratedFunction
  <1>4. f[0] = v /\ \A i \in 1 .. n : f[i] = G[<<i, f[i - 1]>>]
    BY <1>3 DEF Iterates
  <1>5. ASSUME NEW i \in 1 .. n PROVE f[i] = step[f[i - 1]]
    <2>1. i - 1 \in 0 .. n
      OBVIOUS
    <2>2. <<i, f[i - 1]>> \in (1 .. n) \X V
      BY <2>1
    <2>3. G[<<i, f[i - 1]>>] = step[f[i - 1]]
      BY <1>1, <2>2
    <2> QED BY <1>4, <2>3
  <1> QED BY <1>4, <1>5 DEF Walk

(* FreeList is the walk from the head along NFREE that stays at 0. *)
LEMMA FreeListProperties ==
  ASSUME NEW m, NEW F, numblocks \in Nat, Linked(m, F), 0 \notin F, NEW at, at = FreeList(m)
  PROVE  /\ at \in [0 .. numblocks -> F \cup {0}]
         /\ at[0] = NFREE(m, 0)
         /\ \A k \in 1 .. numblocks : at[k] = IF at[k - 1] = 0 THEN 0 ELSE NFREE(m, at[k - 1])
  <1> DEFINE Rule(f) == [k \in 0 .. numblocks |->
                IF k = 0 THEN NFREE(m, 0) ELSE IF f[k - 1] = 0 THEN 0 ELSE NFREE(m, f[k - 1])]
             V == F \cup {0}
             step == [b \in V |-> IF b = 0 THEN 0 ELSE NFREE(m, b)]
  <1>1. \A b \in V : NFREE(m, b) \in V
    BY DEF Linked
  <1>2. step \in [V -> V] /\ NFREE(m, 0) \in V
    BY <1>1
  <1>3. PICK f \in [0 .. numblocks -> V] : f[0] = NFREE(m, 0) /\ \A i \in 1 .. numblocks : f[i] = step[f[i - 1]]
    <2>1. PICK u, U, st, n : u = NFREE(m, 0) /\ U = V /\ st = step /\ n = numblocks
      OBVIOUS
    <2>2. u \in U /\ st \in [U -> U] /\ n \in Nat
      BY <1>2, <2>1
    <2> HIDE DEF step, V
    <2>3. \E f \in [0 .. n -> U] : Walk(f, u, n, st)
      BY <2>2, WalkExists
    <2> QED BY <2>1, <2>3 DEF Walk
  <1>4. ASSUME NEW i \in 1 .. numblocks PROVE f[i] = IF f[i - 1] = 0 THEN 0 ELSE NFREE(m, f[i - 1])
    <2>1. i - 1 \in 0 .. numblocks
      OBVIOUS
    <2> QED BY <1>3, <2>1
  <1>5. f = Rule(f)
    <2>1. ASSUME NEW i \in 0 .. numblocks PROVE f[i] = Rule(f)[i]
      BY <1>3, <1>4
    <2> QED BY <2>1
  <1>6. at = CHOOSE g : g = Rule(g)
    BY DEF FreeList
  <1>7. at = Rule(at)
    <2> HIDE DEF Rule
    <2> QED BY <1>5, <1>6
  <1>8. at[0] = NFREE(m, 0) /\ \A k \in 1 .. numblocks : at[k] = IF at[k - 1] = 0 THEN 0 ELSE NFREE(m, at[k - 1])
    <2>1. 0 \in 0 .. numblocks /\ \A k \in 1 .. numblocks : k \in 0 .. numblocks /\ k # 0
      OBVIOUS
    <2>2. \A k \in 0 .. numblocks : at[k] = Rule(at)[k]
      BY <1>7
    <2> QED BY <2>1, <2>2
  <1>9. \A i \in 0 .. numblocks : at[i] \in V
    <2> DEFINE T == {i \in 0 .. numblocks : at[i] \in V}
    <2>1. 0 \in T
      BY <1>1, <1>8
    <2>2. ASSUME NEW i \in 0 .. numblocks - 1, i \in T PROVE i + 1 \in T
      <3>1. i + 1 \in 1 .. numblocks /\ i + 1 - 1 = i
        OBVIOUS
      <3>2. at[i + 1] = IF at[i] = 0 THEN 0 ELSE NFREE(m, at[i])
        BY <1>8, <3>1
      <3> QED BY <1>1, <2>2, <3>1, <3>2
    <2> HIDE DEF T
    <2>3. \A i \in 0 .. numblocks : i \in T
      BY <2>1, <2>2, InductionUpTo
    <2> QED BY <2>3 DEF T
  <1>10. at \in [0 .. numblocks -> V]
    <2>1. at = [i \in 0 .. numblocks |-> at[i]]
      BY <1>7
    <2> QED BY <1>9, <2>1
  <1> QED BY <1>8, <1>10

(* The walk ends: a list without an end would pass more blocks than there  *)
(* are.                                                                    *)
LEMMA FreeListEnds ==
  ASSUME NEW m, NEW F, numblocks \in Nat \ {0}, Linked(m, F), F \subseteq 1 .. numblocks - 1,
         NEW at, at = FreeList(m)
  PROVE  at[numblocks] = 0
  <1> SUFFICES ASSUME at[numblocks] # 0 PROVE FALSE
    OBVIOUS
  <1>1. /\ at \in [0 .. numblocks -> F \cup {0}] /\ at[0] = NFREE(m, 0)
        /\ \A k \in 1 .. numblocks : at[k] = IF at[k - 1] = 0 THEN 0 ELSE NFREE(m, at[k - 1])
    BY FreeListProperties
  <1>2. \A k \in 0 .. numblocks : at[k] # 0
    <2> SUFFICES ASSUME NEW k \in 0 .. numblocks, at[k] = 0 PROVE FALSE
      OBVIOUS
    <2> DEFINE T == {i \in 0 .. numblocks : k + i <= numblocks => at[k + i] = 0}
    <2>1. 0 \in T
      OBVIOUS
    <2>2. ASSUME NEW i \in 0 .. numblocks - 1, i \in T PROVE i + 1 \in T
      <3>1. CASE k + (i + 1) <= numblocks
        <4>1. k + (i + 1) \in 1 .. numblocks /\ k + (i + 1) - 1 = k + i /\ at[k + i] = 0
          BY <2>2, <3>1
        <4>2. at[k + (i + 1)] = 0
          BY <1>1, <4>1
        <4> QED BY <4>2
      <3>2. CASE ~(k + (i + 1) <= numblocks)
        BY <3>2
      <3> QED BY <3>1, <3>2
    <2>3. \A i \in 0 .. numblocks : i \in T
      <3> HIDE DEF T
      <3> QED BY <2>1, <2>2, InductionUpTo
    <2>4. numblocks - k \in 0 .. numblocks /\ k + (numblocks - k) = numblocks
      OBVIOUS
    <2> QED BY <2>3, <2>4
  <1>3. \A k \in 0 .. numblocks : at[k] \in F
    BY <1>1, <1>2
  <1>4. \A b \in F \cup {0} : PFREE(m, NFREE(m, b)) = b
    BY DEF Linked
  <1>5. PFREE(m, at[0]) = 0
    BY <1>1, <1>4
  <1>6. ASSUME NEW k \in 1 .. numblocks PROVE PFREE(m, at[k]) = at[k - 1]
    <2>1. k - 1 \in 0 .. numblocks
      OBVIOUS
    <2>2. at[k] = NFREE(m, at[k - 1])
      BY <1>1, <1>2, <2>1
    <2> QED BY <1>3, <1>4, <2>1, <2>2
  <1> DEFINE Again == {i \in 0 .. numblocks : \E j \in 0 .. numblocks : j > i /\ at[j] = at[i]}
  <1>7. Again = {}
    <2> SUFFICES ASSUME Again # {} PROVE FALSE
      OBVIOUS
    <2>1. Again \subseteq Nat
      OBVIOUS
    <2>2. PICK i \in Again : \A j \in Again : i <= j
      <3> HIDE DEF Again
      <3> QED BY <2>1, LeastNatural
    <2>3. i \in 0 .. numblocks
      OBVIOUS
    <2>4. PICK j \in 0 .. numblocks : j > i /\ at[j] = at[i]
      OBVIOUS
    <2>5. j \in 1 .. numblocks /\ j - 1 \in 0 .. numblocks
      BY <2>3, <2>4
    <2>6. PFREE(m, at[j]) = at[j - 1] /\ at[j - 1] # 0
      BY <1>2, <1>6, <2>5
    <2>7. i # 0
      BY <1>5, <2>4, <2>6
    <2>8. i \in 1 .. numblocks /\ i - 1 \in 0 .. numblocks
      BY <2>3, <2>7
    <2>9. PFREE(m, at[i]) = at[i - 1]
      BY <1>6, <2>8
    <2>10. at[i - 1] = at[j - 1]
      BY <2>4, <2>6, <2>9
    <2>11. j - 1 > i - 1
      BY <2>3, <2>4
    <2>12. i - 1 \in Again
      BY <2>5, <2>8, <2>10, <2>11
    <2>13. i <= i - 1
      BY <2>2, <2>12
    <2> QED BY <2>3, <2>13
  <1>8. PICK x \in 0 .. numblocks, y \in 0 .. numblocks : x # y /\ at[x] = at[y]
    <2>1. at \in [0 .. numblocks -> 1 .. numblocks - 1]
      BY <1>1, <1>3
    <2>2. /\ IsFiniteSet(0 .. numblocks) /\ Cardinality(0 .. numblocks) = numblocks + 1
      BY FS_Interval
    <2>3. IsFiniteSet(1 .. numblocks - 1) /\ Cardinality(1 .. numblocks - 1) = numblocks - 1
      <3>1. /\ IsFiniteSet(1 .. numblocks - 1)
            /\ Cardinality(1 .. numblocks - 1) = IF 1 > numblocks - 1 THEN 0 ELSE (numblocks - 1) - 1 + 1
        BY FS_Interval
      <3> QED BY <3>1
    <2>4. Cardinality(1 .. numblocks - 1) < Cardinality(0 .. numblocks)
      BY <2>2, <2>3
    <2>5. PICK S, R : S = 0 .. numblocks /\ R = 1 .. numblocks - 1
      OBVIOUS
    <2>6. IsFiniteSet(S) /\ IsFiniteSet(R) /\ Cardinality(R) < Cardinality(S) /\ at \in [S -> R]
      BY <2>1, <2>2, <2>3, <2>4, <2>5
    <2>7. \E x, y \in S : x # y /\ at[x] = at[y]
      BY <2>6, FS_PigeonHole
    <2> QED BY <2>5, <2>7
  <1>9. CASE x < y
    <2>1. x \in Again
      BY <1>8, <1>9
    <2> QED BY <1>7, <2>1
  <1>10. CASE y < x
    <2>1. y \in Again
      BY <1>8, <1>10
    <2> QED BY <1>7, <2>1
  <1> QED BY <1>8, <1>9, <1>10

Listed(at) == {at[k] : k \in DOMAIN at} \ {0}

(* The walk passes every free block. *)
LEMMA FreeListCovers ==
  ASSUME NEW m, NEW F, numblocks \in Nat \ {0}, Linked(m, F), F \subseteq 1 .. numblocks - 1,
         NEW at, at = FreeList(m)
  PROVE  Listed(at) = F
  <1>1. /\ at \in [0 .. numblocks -> F \cup {0}] /\ at[0] = NFREE(m, 0)
        /\ \A k \in 1 .. numblocks : at[k] = IF at[k - 1] = 0 THEN 0 ELSE NFREE(m, at[k - 1])
    BY FreeListProperties
  <1>2. at[numblocks] = 0
    BY FreeListEnds
  <1> DEFINE Seen == {at[k] : k \in DOMAIN at} \ {0}
             S == F \ Seen
  <1>3. Seen \subseteq F
    BY <1>1
  <1>4. S = {}
    <2> SUFFICES ASSUME S # {} PROVE FALSE
      OBVIOUS
    <2>1. S \in SUBSET F
      OBVIOUS
    <2>2. PICK b \in S : PFREE(m, b) \notin S
      <3> HIDE DEF S
      <3> QED BY <2>1 DEF Linked
    <2>3. b \in F /\ PFREE(m, b) \in F \cup {0} /\ NFREE(m, PFREE(m, b)) = b /\ b # 0
      BY DEF Linked
    <2>4. CASE PFREE(m, b) = 0
      <3>1. at[0] = b /\ 0 \in DOMAIN at
        BY <1>1, <2>3, <2>4
      <3> QED BY <2>3, <3>1
    <2>5. CASE PFREE(m, b) # 0
      <3>1. PFREE(m, b) \in Seen
        BY <2>2, <2>3, <2>5
      <3>2. PICK k \in 0 .. numblocks : at[k] = PFREE(m, b)
        BY <1>1, <3>1
      <3>3. k + 1 \in 1 .. numblocks /\ k + 1 - 1 = k
        BY <1>2, <2>5, <3>2
      <3>4. at[k + 1] = b
        BY <1>1, <2>3, <2>5, <3>2, <3>3
      <3>5. k + 1 \in DOMAIN at
        BY <1>1, <3>3
      <3> QED BY <2>3, <3>4, <3>5
    <2> QED BY <2>4, <2>5
  <1> HIDE DEF Seen
  <1>5. Seen = F
    BY <1>3, <1>4
  <1> QED BY <1>5 DEF Seen, Listed

(* The walk along the headers passes exactly the blocks of C. *)
LEMMA ChainCovers ==
  ASSUME NEW C, NEW F, HeapShape(mem, numblocks, C, F)
  PROVE  Chain = C
  <1> DEFINE Rule(f) == [k \in 0 .. numblocks |-> IF k = 0 THEN 0 ELSE NBLOCK(mem, f[k - 1])]
             step == [b \in C |-> NBLOCK(mem, b)]
  <1>1. /\ numblocks \in Nat /\ numblocks >= 3 /\ C \subseteq 0 .. numblocks - 1
        /\ 0 \in C /\ numblocks - 1 \in C
    BY ShapeParts
  <1>2. NBLOCK(mem, numblocks - 1) = 0
    BY DEF HeapShape, Chained
  <1>3. ASSUME NEW b \in C, b # numblocks - 1
        PROVE  NBLOCK(mem, b) \in C /\ NBLOCK(mem, b) > b /\ \A c \in C : c <= b \/ c >= NBLOCK(mem, b)
    BY <1>3, ChainFacts
  <1>4. \A b \in C : NBLOCK(mem, b) \in C
    BY <1>1, <1>2, <1>3
  <1>5. step \in [C -> C]
    BY <1>4
  <1>6. PICK f \in [0 .. numblocks -> C] : f[0] = 0 /\ \A i \in 1 .. numblocks : f[i] = step[f[i - 1]]
    <2>1. PICK st, n : st = step /\ n = numblocks
      OBVIOUS
    <2>2. st \in [C -> C] /\ n \in Nat /\ 0 \in C
      BY <1>1, <1>5, <2>1
    <2> HIDE DEF step
    <2>3. \E f \in [0 .. n -> C] : Walk(f, 0, n, st)
      BY <2>2, WalkExists
    <2> QED BY <2>1, <2>3 DEF Walk
  <1>7. ASSUME NEW i \in 1 .. numblocks PROVE f[i] = NBLOCK(mem, f[i - 1])
    <2>1. i - 1 \in 0 .. numblocks
      BY <1>1
    <2> QED BY <1>6, <2>1
  <1>8. f = Rule(f)
    <2>1. ASSUME NEW i \in 0 .. numblocks PROVE f[i] = Rule(f)[i]
      BY <1>6, <1>7
    <2> QED BY <2>1
  <1>9. PICK at : at = CHOOSE g : g = Rule(g)
    OBVIOUS
  <1>10. at = Rule(at)
    <2> HIDE DEF Rule
    <2> QED BY <1>8, <1>9
  <1> DEFINE end == {k \in 0 .. numblocks : at[k] = numblocks - 1}
  <1>11. Chain = IF end = {} THEN {} ELSE {at[k] : k \in 0 .. Min(end)}
    BY <1>9 DEF Chain
  <1>12. at[0] = 0 /\ \A k \in 1 .. numblocks : at[k] = NBLOCK(mem, at[k - 1])
    <2>1. 0 \in 0 .. numblocks /\ \A k \in 1 .. numblocks : k \in 0 .. numblocks /\ k # 0
      BY <1>1
    <2>2. \A k \in 0 .. numblocks : at[k] = Rule(at)[k]
      BY <1>10
    <2> QED BY <2>1, <2>2
  <1> HIDE DEF Rule, step
  <1>13. \A k \in 0 .. numblocks : at[k] \in C
    <2> DEFINE T == {k \in 0 .. numblocks : at[k] \in C}
    <2>1. 0 \in T
      BY <1>1, <1>12
    <2>2. ASSUME NEW i \in 0 .. numblocks - 1, i \in T PROVE i + 1 \in T
      <3>1. i + 1 \in 1 .. numblocks /\ i + 1 \in 0 .. numblocks /\ i + 1 - 1 = i
        BY <1>1
      <3>2. at[i + 1] = NBLOCK(mem, at[i])
        BY <1>12, <3>1
      <3> QED BY <1>4, <2>2, <3>1, <3>2
    <2> HIDE DEF T
    <2>3. \A k \in 0 .. numblocks : k \in T
      BY <1>1, <2>1, <2>2, InductionUpTo
    <2> QED BY <2>3 DEF T
  <1>n. \A b \in C : b \in Nat /\ b < numblocks
    BY <1>1
  <1>14. end # {}
    <2> SUFFICES ASSUME end = {} PROVE FALSE
      OBVIOUS
    <2> DEFINE T == {k \in 0 .. numblocks : at[k] >= k}
    <2>1. 0 \in T
      BY <1>1, <1>12
    <2>2. ASSUME NEW i \in 0 .. numblocks - 1, i \in T PROVE i + 1 \in T
      <3>1. i + 1 \in 1 .. numblocks /\ i + 1 \in 0 .. numblocks /\ i + 1 - 1 = i /\ i \in 0 .. numblocks
        BY <1>1
      <3>2. at[i + 1] = NBLOCK(mem, at[i])
        BY <1>12, <3>1
      <3>3. at[i] \in C /\ at[i] # numblocks - 1
        BY <1>13, <3>1
      <3>4. NBLOCK(mem, at[i]) \in C /\ NBLOCK(mem, at[i]) > at[i]
        BY <1>3, <3>3
      <3>5. at[i] \in Nat /\ at[i + 1] \in Nat /\ at[i + 1] > at[i]
        <4>1. at[i] \in C /\ at[i + 1] \in C
          BY <3>2, <3>3, <3>4
        <4>2. at[i + 1] > at[i]
          BY <3>2, <3>4
        <4> QED BY <1>n, <4>1, <4>2
      <3>6. at[i] >= i
        BY <2>2
      <3> QED BY <3>1, <3>5, <3>6
    <2>3. \A k \in 0 .. numblocks : k \in T
      <3> HIDE DEF T
      <3> QED BY <1>1, <2>1, <2>2, InductionUpTo
    <2>4. numblocks \in 0 .. numblocks
      BY <1>1
    <2>5. at[numblocks] >= numblocks
      BY <2>3, <2>4
    <2>6. at[numblocks] \in Nat /\ at[numblocks] < numblocks
      BY <1>n, <1>13, <2>4
    <2> QED BY <1>1, <2>5, <2>6
  <1>15. PICK e \in end : \A k \in end : e <= k
    <2>1. end \subseteq Nat
      OBVIOUS
    <2> HIDE DEF end
    <2> QED BY <1>14, <2>1, LeastNatural
  <1>16. Min(end) = e
    <2>1. end \subseteq Nat
      OBVIOUS
    <2> HIDE DEF end
    <2>2. Min(end) \in end /\ \A k \in end : Min(end) <= k
      BY <1>15 DEF Min
    <2>3. Min(end) <= e /\ e <= Min(end) /\ e \in Nat /\ Min(end) \in Nat
      BY <1>15, <2>1, <2>2
    <2> QED BY <2>3
  <1>17. e \in 0 .. numblocks /\ at[e] = numblocks - 1
    OBVIOUS
  <1>18. Chain = {at[k] : k \in 0 .. e}
    <2> HIDE DEF end
    <2> QED BY <1>11, <1>14, <1>16
  <1>19. \A k \in 0 .. e : k \in 0 .. numblocks
    BY <1>1, <1>17
  <1>20. ASSUME NEW c \in C PROVE \E k \in 0 .. e : at[k] = c
    <2> DEFINE T == {k \in 0 .. e : at[k] <= c}
    <2>1. c \in 0 .. numblocks - 1
      BY <1>1
    <2>2. 0 \in T /\ T \subseteq 0 .. e /\ e \in Nat
      BY <1>12, <1>17, <2>1
    <2>3. PICK k \in T : \A j \in T : j <= k
      <3> HIDE DEF T
      <3> QED BY <2>2, GreatestNatural
    <2>4. k \in 0 .. e /\ at[k] <= c /\ at[k] \in C
      BY <1>13, <1>19
    <2>5. CASE k = e
      BY <1>1, <1>17, <2>1, <2>4, <2>5
    <2>6. CASE k # e
      <3>1. k + 1 \in 0 .. e /\ k + 1 \in 1 .. numblocks /\ k + 1 - 1 = k /\ k \in 0 .. numblocks
        BY <1>1, <1>17, <2>4, <2>6
      <3>2. at[k] # numblocks - 1
        <4>1. ~(e <= k)
          BY <1>17, <2>4, <2>6
        <4>2. k \notin end
          BY <1>15, <4>1
        <4> QED BY <3>1, <4>2
      <3>3. c <= at[k] \/ c >= NBLOCK(mem, at[k])
        BY <1>3, <2>4, <3>2
      <3>4. at[k + 1] = NBLOCK(mem, at[k]) /\ at[k + 1] \in C
        BY <1>12, <1>13, <1>19, <3>1
      <3>5. ~(k + 1 <= k)
        BY <3>1
      <3>6. k + 1 \notin T
        <4> HIDE DEF T
        <4> QED BY <2>3, <3>5
      <3>7. ~(at[k + 1] <= c)
        BY <3>1, <3>6
      <3>8. at[k] \in Nat /\ at[k + 1] \in Nat
        BY <1>n, <2>4, <3>4
      <3> QED BY <2>1, <2>4, <3>3, <3>4, <3>7, <3>8
    <2> QED BY <2>5, <2>6
  <1> QED BY <1>13, <1>18, <1>19, <1>20

-----------------------------------------------------------------------------
(* Block numbers fit in 15 bits. *)
Short(n) == n <= 32768

(* What the invariant says while there is a heap. *)
LEMMA HeapFacts ==
  ASSUME HeapIInv, numblocks # 0
  PROVE  /\ numblocks \in Nat /\ numblocks >= 3 /\ numblocks \in MinBlocks .. MaxBlocks /\ Short(numblocks)
         /\ DataKept
         /\ \E C, F \in SUBSET (0 .. numblocks - 1) :
              HeapShape(mem, numblocks, C, F) /\ Apart(mem, F) /\ Owned(C, F)
  <1>1. /\ numblocks \in MinBlocks .. MaxBlocks
        /\ \E C \in SUBSET (0 .. numblocks - 1) :
             \E F \in {{b \in C : IsFree(mem, b)}} :
                HeapShape(mem, numblocks, C, F) /\ Apart(mem, F) /\ Owned(C, F)
        /\ DataKept
    BY DEF HeapIInv
  <1>2. numblocks \in Nat /\ numblocks >= 3 /\ Short(numblocks)
    BY <1>1, MinBlocksAssumption, MaxBlocksAssumption DEF Short
  <1>3. PICK C \in SUBSET (0 .. numblocks - 1) : 
            \E F \in {{b \in C : IsFree(mem, b)}} :
                HeapShape(mem, numblocks, C, F) /\ Apart(mem, F) /\ Owned(C, F)
    BY <1>1
  <1>4. PICK F \in {{b \in C : IsFree(mem, b)}} :
                HeapShape(mem, numblocks, C, F) /\ Apart(mem, F) /\ Owned(C, F)
    BY <1>3
  <1>5. F \in SUBSET (0 .. numblocks - 1)
    OBVIOUS
  <1> QED BY <1>1, <1>2, <1>4, <1>5

(* The invariant, from its parts. *)
LEMMA HeapFrom ==
  ASSUME NEW C, NEW F, numblocks \in MinBlocks .. MaxBlocks,
         HeapShape(mem, numblocks, C, F), Apart(mem, F), Owned(C, F), DataKept
  PROVE  HeapIInv
  <1>1. C \in SUBSET (0 .. numblocks - 1) /\ F \subseteq C
    BY ShapeParts
  <1>2. F = {b \in C : IsFree(mem, b)}
    <2>1. \A b \in C : IsFree(mem, b) = (b \in F)
      BY MarkOf
    <2> QED BY <1>1, <2>1
  <1>3. \E G \in {{b \in C : IsFree(mem, b)}} :
           HeapShape(mem, numblocks, C, G) /\ Apart(mem, G) /\ Owned(C, G)
    BY <1>2
  <1> QED BY <1>1, <1>3 DEF HeapIInv

(* A data pointer names its block and is not null. *)
LEMMA BlockOfData ==
  ASSUME NEW b \in Nat
  PROVE  BlockOf(UMM_DATA(b)) = b /\ UMM_DATA(b) = 2 * b + 1 /\ UMM_DATA(b) # NULL
  BY DEF BlockOf, UMM_DATA, NULL

(* The invariant says of the blocks and the list what the runs check. *)
LEMMA WellFormedFromIInv ==
  ASSUME HeapIInv
  PROVE  HeapWellFormed
  <1> SUFFICES ASSUME numblocks # 0 PROVE HeapWellFormed
    BY DEF HeapWellFormed
  <1>1. PICK C, F \in SUBSET (0 .. numblocks - 1) :
           HeapShape(mem, numblocks, C, F) /\ Apart(mem, F) /\ Owned(C, F)
    BY HeapFacts
  <1>2. Chain = C
    BY <1>1, ChainCovers
  <1>3. /\ numblocks \in Nat /\ numblocks >= 3 /\ C \subseteq 0 .. numblocks - 1
        /\ F \subseteq C \ {0, numblocks - 1} /\ numblocks - 1 \in C /\ 0 \in C
    BY <1>1, ShapeParts
  <1>4. FreeBlocks = F
    <2>1. \A b \in C : IsFree(mem, b) = (b \in F)
      BY <1>1, MarkOf
    <2>2. F \subseteq C
      BY <1>3
    <2> QED BY <1>2, <2>1, <2>2 DEF FreeBlocks
  <1> DEFINE at == FreeList(mem)
             listed == {at[k] : k \in DOMAIN at} \ {0}
             Clients == {BlockOf(p) : p \in DOMAIN live}
  <1>5. listed = F
    <2>1. numblocks \in Nat \ {0} /\ Linked(mem, F) /\ F \subseteq 1 .. numblocks - 1
      BY <1>1, <1>3 DEF HeapShape
    <2>2. PICK a : a = FreeList(mem)
      OBVIOUS
    <2>3. Listed(a) = F
      BY <2>1, <2>2, FreeListCovers
    <2> QED BY <2>2, <2>3 DEF Listed
  <1>6. Clients = C \ (F \cup {0, numblocks - 1})
    <2> DEFINE U == C \ (F \cup {0, numblocks - 1})
    <2>1. DOMAIN live = {UMM_DATA(b) : b \in U}
      BY <1>1 DEF Owned
    <2>2. \A b \in U : BlockOf(UMM_DATA(b)) = b
      BY <1>3, BlockOfData
    <2> HIDE DEF U
    <2>3. Clients = U
      BY <2>1, <2>2
    <2> QED BY <2>3 DEF U
  <1>7. ASSUME NEW b \in C \ {numblocks - 1}
        PROVE  NBLOCK(mem, b) > b /\ PBLOCK(mem, NBLOCK(mem, b)) = b
    BY <1>1 DEF HeapShape, Chained
  <1>8. \A b \in F : NBLOCK(mem, b) \notin F
    BY <1>1 DEF Apart
  <1>9. \A b \in F \cup {0} : PFREE(mem, NFREE(mem, b)) = b
    BY <1>1 DEF HeapShape, Linked
  <1> HIDE DEF at, listed, Clients
  <1>10. C \ {0, numblocks - 1} = F \cup Clients /\ F \cap Clients = {}
    BY <1>3, <1>6
  <1>11. /\ numblocks - 1 \in Chain
         /\ \A b \in Chain \ {numblocks - 1} :
               NBLOCK(mem, b) > b /\ PBLOCK(mem, NBLOCK(mem, b)) = b
         /\ \A b \in FreeBlocks : NBLOCK(mem, b) \notin FreeBlocks
         /\ Chain \ {0, numblocks - 1} = FreeBlocks \cup Clients
         /\ FreeBlocks \cap Clients = {}
         /\ listed = FreeBlocks
         /\ \A b \in listed \cup {0} : PFREE(mem, NFREE(mem, b)) = b
    BY <1>2, <1>3, <1>4, <1>5, <1>7, <1>8, <1>9, <1>10
  <1> QED BY <1>11 DEF HeapWellFormed, listed, at, Clients

-----------------------------------------------------------------------------
(* The scan for a free block. *)

(* The earliest of the smallest. *)
LEMMA LexicalLeast ==
  ASSUME NEW T, T \subseteq Nat, T # {}, NEW g, \A k \in T : g[k] \in Nat
  PROVE  \E k \in T : \A j \in T : g[k] < g[j] \/ (g[k] = g[j] /\ k <= j)
  <1> DEFINE Values == {g[k] : k \in T}
  <1>1. PICK v \in Values : \A u \in Values : v <= u
    <2>1. Values \subseteq Nat /\ Values # {}
      OBVIOUS
    <2> HIDE DEF Values
    <2> QED BY <2>1, LeastNatural
  <1>2. v \in Nat /\ \A k \in T : v <= g[k]
    BY <1>1
  <1> DEFINE R == {k \in T : g[k] = v}
  <1>3. PICK k \in R : \A j \in R : k <= j
    <2>1. R \subseteq Nat /\ R # {}
      OBVIOUS
    <2> HIDE DEF R
    <2> QED BY <2>1, LeastNatural
  <1>4. ASSUME NEW j \in T PROVE g[k] < g[j] \/ (g[k] = g[j] /\ k <= j)
    <2>1. v <= g[j] /\ g[j] \in Nat /\ g[k] = v
      BY <1>2
    <2>2. g[j] = v => k <= j
      BY <1>3
    <2> QED BY <1>2, <2>1, <2>2
  <1> QED BY <1>4

(* A block found by the scan is free, large enough and no larger than any *)
(* other that is.                                                         *)
BestIn(m, F, c, blocks) ==
  /\ c \in F /\ SizeOf(m, c) >= blocks
  /\ \A b \in F : SizeOf(m, b) >= blocks => SizeOf(m, c) <= SizeOf(m, b)

(* The scan of umm_malloc finds a best fit, or every free block is too     *)
(* small.                                                                  *)
LEMMA BestBlockFound ==
  ASSUME NEW m, NEW C, NEW F, HeapShape(m, numblocks, C, F), Short(numblocks),
         NEW blocks \in Nat \ {0}, NEW found, found = BestBlock(m, blocks)
  PROVE  \/ BestIn(m, F, found.cf, blocks) /\ found.blockSize = SizeOf(m, found.cf)
         \/ found.blockSize < blocks /\ \A b \in F : SizeOf(m, b) < blocks
  <1>1. /\ numblocks \in Nat /\ numblocks >= 3 /\ C \subseteq 0 .. numblocks - 1
        /\ F \subseteq C \ {0, numblocks - 1}
    BY ShapeParts
  <1>2. ASSUME NEW b \in F PROVE SizeOf(m, b) \in Nat /\ SizeOf(m, b) >= 1 /\ SizeOf(m, b) < 32767
    <2>1. b \in C /\ b # numblocks - 1 /\ b \in 1 .. numblocks - 1
      BY <1>1
    <2>2. NBLOCK(m, b) \in 1 .. numblocks - 1 /\ NBLOCK(m, b) > b
      BY <2>1, ChainFacts
    <2>3. PICK x \in 1 .. numblocks - 1 : x = NBLOCK(m, b) /\ x > b
      BY <2>2
    <2>4. x - b \in Nat /\ x - b >= 1 /\ x - b < 32767
      BY <1>1, <2>1, <2>3 DEF Short
    <2> QED BY <2>3, <2>4 DEF SizeOf
  <1>3. PICK at : at = FreeList(m)
    OBVIOUS
  <1>4. at \in [0 .. numblocks -> F \cup {0}] /\ Listed(at) = F
    <2>1. numblocks \in Nat \ {0} /\ Linked(m, F) /\ F \subseteq 1 .. numblocks - 1 /\ 0 \notin F
      BY <1>1 DEF HeapShape
    <2>2. Listed(at) = F
      <3>1. numblocks \in Nat \ {0}
        BY <2>1
      <3>2. Linked(m, F)
        BY <2>1
      <3>3. F \subseteq 1 .. numblocks - 1
        BY <2>1
      <3> QED BY <1>3, <3>1, <3>2, <3>3, FreeListCovers
    <2>3. at \in [0 .. numblocks -> F \cup {0}]
      <3>1. numblocks \in Nat
        BY <1>1
      <3> QED BY <1>3, <2>1, <3>1, FreeListProperties
    <2> QED BY <2>2, <2>3
  <1> DEFINE seen == {k \in DOMAIN at : at[k] # 0}
             fit == {k \in seen : LargeEnough(SizeOf(m, at[k]), blocks)}
             Better(k, j) == \/ SizeOf(m, at[k]) < SizeOf(m, at[j])
                             \/ (SizeOf(m, at[k]) = SizeOf(m, at[j]) /\ k <= j)
             best == CHOOSE k \in fit : \A j \in fit : Better(k, j)
  <1>5. found = IF fit # {}
                THEN [cf |-> at[best], blockSize |-> SizeOf(m, at[best])]
                ELSE [cf |-> 0, blockSize |-> IF seen = {} THEN 0 ELSE SizeOf(m, at[Max(seen)])]
    BY <1>3 DEF BestBlock
  <1>6. \A k \in seen : k \in Nat /\ at[k] \in F
    BY <1>4
  <1>7. \A b \in F : \E k \in seen : at[k] = b
    BY <1>4 DEF Listed
  <1>8. \A k \in seen : k \in fit <=> SizeOf(m, at[k]) >= blocks
    <2> SUFFICES ASSUME NEW k \in seen PROVE k \in fit <=> SizeOf(m, at[k]) >= blocks
      OBVIOUS
    <2>0. at[k] \in F
      BY <1>6
    <2>1. SizeOf(m, at[k]) \in Nat /\ SizeOf(m, at[k]) < 32767
      BY <1>2, <2>0
    <2>2. LargeEnough(SizeOf(m, at[k]), blocks) <=> SizeOf(m, at[k]) >= blocks
      BY <2>1 DEF LargeEnough, BlocknoMax
    <2> QED BY <2>2
  <1>9. fit \subseteq seen
    OBVIOUS
  <1>10. CASE fit # {}
    <2>1. PICK g : g = [k \in fit |-> SizeOf(m, at[k])]
      <3> HIDE DEF fit
      <3> QED OBVIOUS
    <2>2. fit \subseteq Nat /\ \A k \in fit : g[k] \in Nat
      <3>1. \A k \in fit : at[k] \in F /\ k \in Nat
        BY <1>6, <1>9
      <3> HIDE DEF fit
      <3>2. \A k \in fit : SizeOf(m, at[k]) \in Nat
        BY <1>2, <3>1
      <3> QED BY <2>1, <3>1, <3>2
    <2>3. \E k \in fit : \A j \in fit : g[k] < g[j] \/ (g[k] = g[j] /\ k <= j)
      <3> HIDE DEF fit
      <3> QED BY <1>10, <2>2, LexicalLeast
    <2>4. \E k \in fit : \A j \in fit : Better(k, j)
      <3> HIDE DEF fit
      <3> QED BY <2>1, <2>3
    <2>5. best \in fit /\ \A j \in fit : Better(best, j)
      <3> HIDE DEF fit, Better
      <3> QED BY <2>4
    <2> HIDE DEF best, fit, seen
    <2>6. found.cf = at[best] /\ found.blockSize = SizeOf(m, at[best])
      BY <1>5, <1>10
    <2>7. at[best] \in F /\ SizeOf(m, at[best]) >= blocks
      BY <1>6, <1>8, <1>9, <2>5
    <2>8. ASSUME NEW b \in F, SizeOf(m, b) >= blocks PROVE SizeOf(m, at[best]) <= SizeOf(m, b)
      <3>1. PICK k \in seen : at[k] = b
        BY <1>7
      <3>2. k \in fit
        BY <1>8, <2>8, <3>1
      <3>3. Better(best, k)
        BY <2>5, <3>2
      <3>4. SizeOf(m, at[best]) \in Nat /\ SizeOf(m, b) \in Nat
        BY <1>2, <2>7
      <3> QED BY <3>1, <3>3, <3>4
    <2> QED BY <2>6, <2>7, <2>8 DEF BestIn
  <1>11. CASE fit = {}
    <2>1. \A b \in F : SizeOf(m, b) < blocks
      <3> SUFFICES ASSUME NEW b \in F, ~(SizeOf(m, b) < blocks) PROVE FALSE
        OBVIOUS
      <3>1. PICK k \in seen : at[k] = b
        BY <1>7
      <3>2. SizeOf(m, b) \in Nat
        BY <1>2
      <3>3. SizeOf(m, b) >= blocks
        BY <3>2
      <3> HIDE DEF fit
      <3> QED BY <1>8, <1>11, <3>1, <3>3
    <2>2. found.blockSize = IF seen = {} THEN 0 ELSE SizeOf(m, at[Max(seen)])
      <3> HIDE DEF fit, seen
      <3> QED BY <1>5, <1>11
    <2>3. CASE seen = {}
      BY <2>1, <2>2, <2>3
    <2>4. CASE seen # {}
      <3>1. \E x \in seen : \A y \in seen : y <= x
        <4>1. seen \subseteq 0 .. numblocks
          BY <1>4
        <4>2. PICK n : n = numblocks
          OBVIOUS
        <4>3. n \in Nat /\ seen \subseteq 0 .. n
          BY <1>1, <4>1, <4>2
        <4> HIDE DEF seen, fit
        <4>4. PICK S : S = seen
          OBVIOUS
        <4>5. S # {} /\ S \subseteq 0 .. n /\ n \in Nat
          BY <2>4, <4>3, <4>4
        <4>6. \E x \in S : \A y \in S : y <= x
          BY <4>5, GreatestNatural
        <4> QED BY <4>4, <4>6
      <3>2. \A x \in seen : x \in Nat
        BY <1>6
      <3> HIDE DEF seen
      <3>3. Max(seen) \in seen
        <4>1. \E x \in seen : \A y \in seen : x >= y
          BY <3>1, <3>2
        <4> QED BY <4>1 DEF Max
      <3>4. at[Max(seen)] \in F
        BY <1>6, <3>3
      <3> QED BY <2>1, <2>2, <2>4, <3>4
    <2> QED BY <2>3, <2>4
  <1> QED BY <1>10, <1>11

-----------------------------------------------------------------------------
(* The blocks of S keep their extent and their cells. *)
Same(m, w, S) ==
  \A b \in S : NBLOCK(w, b) = NBLOCK(m, b) /\ \A y \in DataOf(m, b) : w[y] = m[y]

(* The blocks that clients own. *)
Used(n, C, F) == C \ (F \cup {0, n - 1})

(* Nothing is written. *)
LEMMA SameRefl ==
  ASSUME NEW m, NEW S
  PROVE  Same(m, m, S)
  BY DEF Same

(* Two calls one after the other keep what each keeps. *)
LEMMA SameTrans ==
  ASSUME NEW a, NEW b, NEW c, NEW S, Same(a, b, S), Same(b, c, S)
  PROVE  Same(a, c, S)
  BY DEF Same, DataOf

(* Fewer blocks. *)
LEMMA SameSubset ==
  ASSUME NEW m, NEW w, NEW S, NEW T, Same(m, w, S), T \subseteq S
  PROVE  Same(m, w, T)
  BY DEF Same

(* Writes to links alone leave the clients' cells as they are. *)
LEMMA SameFromKept ==
  ASSUME NEW m, NEW n, NEW C, NEW F, HeapShape(m, n, C, F), NEW w,
         NEW c \in C \cup {0}, Kept(m, w, n, Links(C, F \cup {c})),
         NEW S, S \subseteq Used(n, C, F) \ {c}, \A b \in S : NBLOCK(w, b) = NBLOCK(m, b)
  PROVE  Same(m, w, S)
  <1> SUFFICES ASSUME NEW b \in S, NEW y \in DataOf(m, b) PROVE w[y] = m[y]
    BY DEF Same
  <1>1. b \in C /\ b \notin F \cup {0, n - 1} /\ b # c
    BY DEF Used
  <1>2. /\ y \in 0 .. 2 * n - 1
        /\ \A a \in C : a # b => y # 2 * a /\ y # 2 * a + 1 /\ (a # n - 1 => y \notin DataOf(m, a))
        /\ y \notin Links(C, F)
    BY <1>1, DataApart
  <1>3. c \in C
    BY ShapeParts
  <1>4. y # 2 * c + 1
    BY <1>1, <1>2, <1>3
  <1>5. y \notin Links(C, F \cup {c})
    BY <1>2, <1>4 DEF Links
  <1> QED BY <1>2, <1>5 DEF Kept

(* The block returned is a best fit; the rest of it stays free. *)
LEMMA Allotted ==
  ASSUME NEW m, NEW C, NEW F, HeapShape(m, numblocks, C, F), Apart(m, F), Short(numblocks),
         NEW blocks \in Nat \ {0}, NEW got, got = MallocBlocks(m, blocks)
  PROVE  \/ /\ got.ptr = NULL /\ got.mem = m
            /\ \A b \in F : SizeOf(m, b) < blocks
         \/ \E c \in F : \E D, G \in SUBSET (0 .. numblocks - 1) :
              /\ BestIn(m, F, c, blocks)
              /\ got.ptr = UMM_DATA(c)
              /\ HeapShape(got.mem, numblocks, D, G) /\ Apart(got.mem, G)
              /\ Used(numblocks, D, G) = Used(numblocks, C, F) \cup {c}
              /\ SizeOf(got.mem, c) = blocks
              /\ Same(m, got.mem, Used(numblocks, C, F))
  <1>1. PICK n : n = numblocks
    OBVIOUS
  <1>2. HeapShape(m, n, C, F)
    BY <1>1
  <1>3. /\ n \in Nat /\ n >= 3 /\ C \subseteq 0 .. n - 1 /\ F \subseteq C \ {0, n - 1}
        /\ 0 \in C
    BY <1>2, ShapeParts
  <1>4. PICK found : found = BestBlock(m, blocks)
    OBVIOUS
  <1>5. \/ BestIn(m, F, found.cf, blocks) /\ found.blockSize = SizeOf(m, found.cf)
        \/ found.blockSize < blocks /\ \A b \in F : SizeOf(m, b) < blocks
    BY <1>4, BestBlockFound
  <1>6. got = Allot(m, found, blocks)
    BY <1>4 DEF MallocBlocks
  <1>7. CASE found.blockSize < blocks /\ \A b \in F : SizeOf(m, b) < blocks
    <2>1. got = [mem |-> m, ptr |-> NULL]
      BY <1>6, <1>7 DEF Allot
    <2> QED BY <1>7, <2>1
  <1>8. CASE BestIn(m, F, found.cf, blocks) /\ found.blockSize = SizeOf(m, found.cf)
    <2>1. PICK c \in F : c = found.cf /\ SizeOf(m, c) >= blocks
      BY <1>8 DEF BestIn
    <2>2. c \in C /\ c # n - 1 /\ c # 0 /\ c \in 0 .. n - 1
      BY <1>3
    <2>3. NBLOCK(m, c) \in C /\ NBLOCK(m, c) \in 1 .. n - 1 /\ NBLOCK(m, c) > c
      BY <1>2, <2>2, ChainFacts
    <2>4. PICK x \in 1 .. n - 1 : x = NBLOCK(m, c) /\ x > c
      BY <2>3
    <2>5. SizeOf(m, c) = x - c /\ x - c >= blocks /\ ~(x - c < blocks) /\ NBLOCK(m, c) # 0
      BY <2>1, <2>2, <2>4 DEF SizeOf
    <2>6. PICK w : w = IF found.blockSize = blocks
                       THEN umm_disconnect_from_free_list(m, c)
                       ELSE Replace(umm_split_block(m, c, blocks, TRUE), c, c + blocks)
      OBVIOUS
    <2>7. got = [mem |-> w, ptr |-> UMM_DATA(c)]
      BY <1>6, <1>8, <2>1, <2>5, <2>6 DEF Allot
    <2>8. got.mem = w /\ got.ptr = UMM_DATA(c)
      BY <2>7
    <2>9. CASE x - c = blocks
      <3>1. w = umm_disconnect_from_free_list(m, c)
        BY <1>8, <2>1, <2>5, <2>6, <2>9
      <3>2. /\ HeapShape(w, n, C, F \ {c}) /\ Nexts(w, n) = Nexts(m, n)
            /\ Kept(m, w, n, Links(C, F))
        BY <1>2, <3>1, Disconnected
      <3>3. \A b \in C : NBLOCK(w, b) = NBLOCK(m, b)
        <4> SUFFICES ASSUME NEW b \in C PROVE NBLOCK(w, b) = NBLOCK(m, b)
          OBVIOUS
        <4>1. Nexts(w, n)[b] = NBLOCK(w, b)
          BY <3>2, NextsOf
        <4>2. Nexts(m, n)[b] = NBLOCK(m, b)
          BY <1>2, NextsOf
        <4> QED BY <3>2, <4>1, <4>2
      <3>4. Apart(w, F \ {c})
        <4>1. \A b \in F : NBLOCK(m, b) \notin F
          BY DEF Apart
        <4> QED BY <1>3, <3>3, <4>1 DEF Apart
      <3>5. Used(n, C, F \ {c}) = Used(n, C, F) \cup {c}
        BY <2>2 DEF Used
      <3>6. SizeOf(w, c) = blocks
        BY <2>2, <2>5, <2>9, <3>3 DEF SizeOf
      <3>7. Same(m, w, Used(n, C, F))
        <4>1. Kept(m, w, n, Links(C, F \cup {0}))
          BY <3>2 DEF Links
        <4>2. Used(n, C, F) \subseteq Used(n, C, F) \ {0}
          BY DEF Used
        <4>3. \A b \in Used(n, C, F) : NBLOCK(w, b) = NBLOCK(m, b)
          BY <3>3 DEF Used
        <4>4. 0 \in C \cup {0}
          OBVIOUS
        <4> QED BY <1>2, <4>1, <4>2, <4>3, <4>4, SameFromKept
      <3>8. C \in SUBSET (0 .. n - 1) /\ F \ {c} \in SUBSET (0 .. n - 1)
        BY <1>3
      <3> QED BY <1>1, <1>8, <2>1, <2>8, <3>2, <3>4, <3>5, <3>6, <3>7, <3>8
    <2>10. CASE x - c # blocks
      <3>1. w = Replace(umm_split_block(m, c, blocks, TRUE), c, c + blocks)
        BY <1>8, <2>1, <2>5, <2>6, <2>10
      <3>2. c + blocks < NBLOCK(m, c)
        BY <2>2, <2>4, <2>5, <2>10
      <3>3. PICK s : s = c + blocks
        OBVIOUS
      <3> DEFINE D == C \cup {s}
                 G == (F \ {c}) \cup {s}
      <3>4. HeapShape(w, n, D, G) /\ Kept(m, w, n, Links(D, F \cup {s})) /\ Halves(m, w, n, C, c, s)
        <4>1. c \in F
          OBVIOUS
        <4>2. s = c + blocks
          BY <3>3
        <4>3. w = Handed(m, c, blocks, s)
          BY <3>1, <3>3 DEF Handed
        <4>4. s < NBLOCK(m, c)
          BY <3>2, <3>3
        <4>5. blocks \in Nat \ {0}
          OBVIOUS
        <4> HIDE DEF D, G
        <4>7. HeapShape(w, n, C \cup {s}, (F \ {c}) \cup {s})
          BY <1>2, <4>1, <4>2, <4>3, <4>4, <4>5, CutFree
        <4>8. Halves(m, w, n, C, c, s)
          BY <1>2, <4>1, <4>2, <4>3, <4>4, <4>5, CutFree
        <4>9. Kept(m, w, n, Links(C \cup {s}, F \cup {s}))
          BY <1>2, <4>1, <4>2, <4>3, <4>4, <4>5, CutFree
        <4> QED BY <4>7, <4>8, <4>9 DEF D, G
      <3>5. s \in (0 .. n - 1) \ C
        BY <3>4 DEF Halves
      <3>6. ASSUME NEW b \in C, b # c PROVE NBLOCK(w, b) = NBLOCK(m, b)
        BY <3>4, <3>6 DEF Halves
      <3>7. NBLOCK(w, c) = s /\ NBLOCK(w, s) = NBLOCK(m, c)
        BY <3>4 DEF Halves
      <3>8. Apart(w, G)
        <4> SUFFICES ASSUME NEW b \in G PROVE NBLOCK(w, b) \notin G
          BY DEF Apart
        <4>1. CASE b = s
          <5>1. NBLOCK(m, c) \notin F
            BY DEF Apart
          <5>2. NBLOCK(m, c) # s
            BY <2>3, <3>5
          <5> QED BY <3>7, <4>1, <5>1, <5>2
        <4>2. CASE b # s
          <5>1. b \in F /\ b \in C /\ b # c /\ b # n - 1
            BY <1>3, <4>2
          <5>2. NBLOCK(w, b) = NBLOCK(m, b) /\ NBLOCK(m, b) \in C
            BY <1>2, <3>6, <5>1, ChainFacts
          <5>3. NBLOCK(m, b) \notin F
            BY <5>1 DEF Apart
          <5> QED BY <3>5, <5>2, <5>3
        <4> QED BY <4>1, <4>2
      <3>9. Used(n, D, G) = Used(n, C, F) \cup {c}
        <4>1. s \notin C
          BY <3>5
        <4> QED BY <2>2, <4>1 DEF Used
      <3>10. SizeOf(w, c) = blocks
        BY <2>2, <3>3, <3>7 DEF SizeOf
      <3>11. Same(m, w, Used(n, C, F))
        <4> SUFFICES ASSUME NEW b \in Used(n, C, F)
                     PROVE  NBLOCK(w, b) = NBLOCK(m, b) /\ \A y \in DataOf(m, b) : w[y] = m[y]
          BY DEF Same
        <4>1. b \in C /\ b # c /\ b \notin F \cup {0, n - 1}
          BY DEF Used
        <4>2. NBLOCK(w, b) = NBLOCK(m, b)
          BY <3>6, <4>1
        <4>3. ASSUME NEW y \in DataOf(m, b) PROVE w[y] = m[y]
          <5>1. /\ y \in 0 .. 2 * n - 1 /\ y \notin Links(C, F)
                /\ \A a \in C : a # b => y # 2 * a /\ y # 2 * a + 1 /\ (a # n - 1 => y \notin DataOf(m, a))
            BY <1>2, <4>1, DataApart
          <5>2. y \notin DataOf(m, c)
            BY <2>2, <4>1, <5>1
          <5>3. 2 * s \in DataOf(m, c) /\ 2 * s + 1 \in DataOf(m, c)
            <6>1. s \in Nat /\ c < s /\ s < x /\ c \in Nat
              BY <2>2, <2>4, <3>2, <3>3
            <6>2. 2 * s \in 2 * c + 1 .. 2 * x - 1 /\ 2 * s + 1 \in 2 * c + 1 .. 2 * x - 1
              BY <2>4, <6>1
            <6> QED BY <2>4, <6>2 DEF DataOf
          <5>4. y \notin Links(D, F \cup {s})
            <6>1. y # 2 * s /\ y # 2 * s + 1
              BY <5>2, <5>3
            <6> QED BY <5>1, <6>1 DEF Links
          <5> QED BY <3>4, <5>1, <5>4 DEF Kept
        <4> QED BY <4>2, <4>3
      <3>12. D \in SUBSET (0 .. n - 1) /\ G \in SUBSET (0 .. n - 1)
        BY <1>3, <3>5
      <3> HIDE DEF D, G
      <3> QED BY <1>1, <1>8, <2>1, <2>8, <3>4, <3>8, <3>9, <3>10, <3>11, <3>12
    <2> QED BY <2>9, <2>10
  <1> QED BY <1>5, <1>7, <1>8

-----------------------------------------------------------------------------
(* A heap in order, in which clients own the blocks of U. *)
Sane(m, n, U) ==
  \E C, F \in SUBSET (0 .. n - 1) :
     HeapShape(m, n, C, F) /\ Apart(m, F) /\ Used(n, C, F) = U

(* A heap in order, from its chain and its free blocks. *)
LEMMA SaneFrom ==
  ASSUME NEW m, NEW n, NEW U, NEW C, NEW F, HeapShape(m, n, C, F), Apart(m, F), Used(n, C, F) = U
  PROVE  Sane(m, n, U)
  <1>1. C \in SUBSET (0 .. n - 1) /\ F \in SUBSET (0 .. n - 1)
    BY ShapeParts
  <1> QED BY <1>1 DEF Sane

(* The blocks of the clients lie in the heap and do not overlap. *)
LEMMA SaneFacts ==
  ASSUME NEW m, NEW n, NEW U, Sane(m, n, U)
  PROVE  /\ n \in Nat /\ n >= 3 /\ m \in Memory(n) /\ U \subseteq 1 .. n - 2
         /\ \A b \in U : b \in Nat /\ b < NBLOCK(m, b) /\ NBLOCK(m, b) \in 1 .. n - 1
         /\ \A b \in U, c \in U : c <= b \/ c >= NBLOCK(m, b)
  <1>1. PICK C, F \in SUBSET (0 .. n - 1) : HeapShape(m, n, C, F) /\ Apart(m, F) /\ Used(n, C, F) = U
    BY DEF Sane
  <1>2. n \in Nat /\ n >= 3 /\ m \in Memory(n)
    BY <1>1, ShapeParts
  <1>3. \A b \in U : b \in C /\ b # n - 1 /\ b # 0
    BY <1>1 DEF Used
  <1>4. U \subseteq 1 .. n - 2
    <2> SUFFICES ASSUME NEW b \in U PROVE b \in 1 .. n - 2
      OBVIOUS
    <2>1. b \in C /\ C \subseteq 0 .. n - 1 /\ b # n - 1 /\ b # 0
      BY <1>3
    <2>2. b \in 0 .. n - 1
      BY <2>1
    <2> QED BY <1>2, <2>1, <2>2
  <1>5. ASSUME NEW b \in U
        PROVE  /\ b \in Nat /\ b < NBLOCK(m, b) /\ NBLOCK(m, b) \in 1 .. n - 1
               /\ \A c \in U : c <= b \/ c >= NBLOCK(m, b)
    <2>1. b \in C /\ b # n - 1
      BY <1>3
    <2>2. /\ NBLOCK(m, b) \in 1 .. n - 1 /\ NBLOCK(m, b) > b
          /\ \A c \in C : c <= b \/ c >= NBLOCK(m, b)
      BY <1>1, <2>1, ChainFacts
    <2>3. b \in Nat
      BY <1>4
    <2> QED BY <1>3, <2>2, <2>3
  <1> QED BY <1>2, <1>4, <1>5

(* A client that writes into the cells of its own block. *)
LEMMA SaneWrites ==
  ASSUME NEW m, NEW n, NEW U, Sane(m, n, U), NEW d \in U, NEW w \in Memory(n),
         \A y \in 0 .. 2 * n - 1 : y \notin DataOf(m, d) => w[y] = m[y]
  PROVE  /\ Sane(w, n, U) /\ Same(m, w, U \ {d})
         /\ \A b \in U : NBLOCK(w, b) = NBLOCK(m, b)
  <1>1. PICK C, F \in SUBSET (0 .. n - 1) : HeapShape(m, n, C, F) /\ Apart(m, F) /\ Used(n, C, F) = U
    BY DEF Sane
  <1>2. d \in C /\ d \notin F \cup {0, n - 1} /\ d # n - 1
    BY <1>1 DEF Used
  <1>3. n \in Nat /\ n >= 3 /\ F \subseteq C
    BY <1>1, ShapeParts
  <1>4. \A y \in Links(C, F) : w[y] = m[y]
    <2> SUFFICES ASSUME NEW y \in Links(C, F) PROVE w[y] = m[y]
      OBVIOUS
    <2>1. y \notin DataOf(m, d)
      BY <1>1, <1>2, DataApart
    <2>2. y \in 0 .. 2 * n - 1
      BY <1>3 DEF Links
    <2> QED BY <2>1, <2>2
  <1>5. HeapShape(w, n, C, F)
    BY <1>1, <1>4, SameLinks
  <1>6. \A b \in C : NBLOCK(w, b) = NBLOCK(m, b)
    BY <1>1, <1>4, SameLinks
  <1>7. Apart(w, F)
    <2>1. \A b \in F : NBLOCK(m, b) \notin F
      BY <1>1 DEF Apart
    <2> QED BY <1>3, <1>6, <2>1 DEF Apart
  <1>8. \A b \in U : b \in C /\ b \notin F \cup {0, n - 1}
    BY <1>1 DEF Used
  <1>9. Same(m, w, U \ {d})
    <2> SUFFICES ASSUME NEW b \in U \ {d}, NEW y \in DataOf(m, b) PROVE w[y] = m[y]
      BY <1>6, <1>8 DEF Same
    <2>1. b \in C /\ b \notin F \cup {0, n - 1}
      BY <1>8
    <2>2. /\ y \in 0 .. 2 * n - 1
          /\ \A c \in C : c # b => y # 2 * c /\ y # 2 * c + 1 /\ (c # n - 1 => y \notin DataOf(m, c))
      BY <1>1, <2>1, DataApart
    <2> QED BY <1>2, <2>2
  <1>10. Sane(w, n, U)
    BY <1>1, <1>5, <1>7, SaneFrom
  <1> QED BY <1>6, <1>8, <1>9, <1>10

(* umm_free takes c from its client and leaves the others alone. *)
LEMMA SaneFreed ==
  ASSUME NEW m, NEW n, NEW U, Sane(m, n, U), NEW c \in U, NEW w, w = FreeBlock(m, c)
  PROVE  Sane(w, n, U \ {c}) /\ Same(m, w, U \ {c})
  <1>1. PICK C, F \in SUBSET (0 .. n - 1) : HeapShape(m, n, C, F) /\ Apart(m, F) /\ Used(n, C, F) = U
    BY DEF Sane
  <1>2. c \in C /\ c \notin F /\ c # 0 /\ c # n - 1
    BY <1>1 DEF Used
  <1>3. c \in C
    BY <1>2
  <1>4. PICK D \in SUBSET (0 .. n - 1), G \in SUBSET (0 .. n - 1) :
           /\ HeapShape(w, n, D, G) /\ Apart(w, G) /\ D \ G = (C \ F) \ {c}
           /\ \A b \in D \ G : NBLOCK(w, b) = NBLOCK(m, b)
           /\ Kept(m, w, n, Links(C, F \cup {c}))
    BY <1>1, <1>2, <1>3, Freed
  <1>5. Used(n, D, G) = U \ {c}
    BY <1>1, <1>4 DEF Used
  <1>6. Sane(w, n, U \ {c})
    BY <1>4, <1>5, SaneFrom
  <1>7. \A b \in U \ {c} : NBLOCK(w, b) = NBLOCK(m, b)
    BY <1>1, <1>4 DEF Used
  <1>8. c \in C \cup {0} /\ U \ {c} \subseteq Used(n, C, F) \ {c}
    BY <1>1, <1>2
  <1>9. HeapShape(m, n, C, F) /\ Kept(m, w, n, Links(C, F \cup {c}))
    BY <1>1, <1>4
  <1>10. Same(m, w, U \ {c})
    BY <1>7, <1>8, <1>9, SameFromKept
  <1> QED BY <1>6, <1>10

(* A request is refused only if no free block is large enough. *)
AllotsTo(m, n, F, U, blocks, got) ==
  \/ /\ got.ptr = NULL /\ got.mem = m
     /\ \A b \in F : SizeOf(m, b) < blocks
  \/ \E c \in F :
        /\ BestIn(m, F, c, blocks)
        /\ got.ptr = UMM_DATA(c)
        /\ c \in Nat \ U
        /\ Sane(got.mem, n, U \cup {c})
        /\ SizeOf(got.mem, c) = blocks
        /\ Same(m, got.mem, U)

(* umm_malloc hands out a best fit or changes nothing. *)
LEMMA SaneAllotted ==
  ASSUME NEW m, NEW C, NEW F, HeapShape(m, numblocks, C, F), Apart(m, F),
         NEW U, U = Used(numblocks, C, F), Short(numblocks),
         NEW blocks \in Nat \ {0}, NEW got, got = MallocBlocks(m, blocks)
  PROVE  AllotsTo(m, numblocks, F, U, blocks, got)
  <1>1. \/ /\ got.ptr = NULL /\ got.mem = m
           /\ \A b \in F : SizeOf(m, b) < blocks
        \/ \E c \in F : \E D, G \in SUBSET (0 .. numblocks - 1) :
              /\ BestIn(m, F, c, blocks)
              /\ got.ptr = UMM_DATA(c)
              /\ HeapShape(got.mem, numblocks, D, G) /\ Apart(got.mem, G)
              /\ Used(numblocks, D, G) = Used(numblocks, C, F) \cup {c}
              /\ SizeOf(got.mem, c) = blocks
              /\ Same(m, got.mem, Used(numblocks, C, F))
    BY Allotted
  <1>2. CASE got.ptr = NULL /\ got.mem = m /\ \A b \in F : SizeOf(m, b) < blocks
    BY <1>2 DEF AllotsTo
  <1>3. CASE \E c \in F : \E D, G \in SUBSET (0 .. numblocks - 1) :
              /\ BestIn(m, F, c, blocks)
              /\ got.ptr = UMM_DATA(c)
              /\ HeapShape(got.mem, numblocks, D, G) /\ Apart(got.mem, G)
              /\ Used(numblocks, D, G) = Used(numblocks, C, F) \cup {c}
              /\ SizeOf(got.mem, c) = blocks
              /\ Same(m, got.mem, Used(numblocks, C, F))
    <2>1. PICK c \in F, D \in SUBSET (0 .. numblocks - 1), G \in SUBSET (0 .. numblocks - 1) :
              /\ BestIn(m, F, c, blocks)
              /\ got.ptr = UMM_DATA(c)
              /\ HeapShape(got.mem, numblocks, D, G) /\ Apart(got.mem, G)
              /\ Used(numblocks, D, G) = Used(numblocks, C, F) \cup {c}
              /\ SizeOf(got.mem, c) = blocks
              /\ Same(m, got.mem, Used(numblocks, C, F))
      BY <1>3
    <2>2. Used(numblocks, D, G) = U \cup {c}
      BY <2>1
    <2>3. Sane(got.mem, numblocks, U \cup {c})
      BY <2>1, <2>2, SaneFrom
    <2>4. c \in Nat \ U
      <3>1. F \subseteq 0 .. numblocks - 1
        BY ShapeParts
      <3> QED BY <3>1 DEF Used
    <2> QED BY <2>1, <2>3, <2>4 DEF AllotsTo
  <1> QED BY <1>1, <1>2, <1>3

-----------------------------------------------------------------------------
(* What clients keep in their blocks. *)

(* Every request reaches into some cell. *)
LEMMA CellsOfCounts ==
  ASSUME NEW size \in Nat \ {0}
  PROVE  CellsOf(size) \in Nat \ {0}
  <1>1. CASE size <= Body
    BY <1>1 DEF CellsOf
  <1>2. CASE ~(size <= Body)
    <2>1. PICK beyond \in Nat : beyond = size - Body - 1
      BY <1>2 DEF Body
    <2>2. beyond \div Block \in Nat
      BY <2>1 DEF Block, Header, Body
    <2>3. PICK q \in Nat : q = beyond \div Block
      BY <2>2
    <2>4. CellsOf(size) = 1 + 2 * q + (IF beyond % Block < Header THEN 1 ELSE 2)
      BY <1>2, <2>1, <2>3 DEF CellsOf
    <2>5. CellsOf(size) = 1 + 2 * q + 1 \/ CellsOf(size) = 1 + 2 * q + 2
      BY <2>4
    <2> QED BY <2>3, <2>5
  <1> QED BY <1>1, <1>2

(* A request gets blocks enough for every byte of it, if their number is   *)
(* not cut.                                                                *)
LEMMA BlocksSuffice ==
  ASSUME NEW size \in Nat \ {0}, Countable(size)
  PROVE  umm_blocks(size) \in Nat \ {0} /\ CellsOf(size) < 2 * umm_blocks(size)
  <1>1. CASE size <= Body
    <2>1. umm_blocks(size) = 1 % UShort
      BY <1>1 DEF umm_blocks
    <2>2. 1 % UShort = 1
      BY DEF UShort
    <2>3. CellsOf(size) = 1
      BY <1>1 DEF CellsOf
    <2> QED BY <2>1, <2>2, <2>3
  <1>2. CASE ~(size <= Body)
    <2>1. PICK beyond \in Nat : beyond = size - Body - 1
      BY <1>2 DEF Body
    <2>2. beyond \div Block \in Nat
      BY <2>1 DEF Block, Header, Body
    <2>3. PICK q \in Nat : q = beyond \div Block
      BY <2>2
    <2>4. CellsOf(size) = 1 + 2 * q + (IF beyond % Block < Header THEN 1 ELSE 2)
      BY <1>2, <2>1, <2>3 DEF CellsOf
    <2>5. CellsOf(size) = 1 + 2 * q + 1 \/ CellsOf(size) = 1 + 2 * q + 2
      BY <2>4
    <2>6. umm_blocks(size) = (2 + q) % UShort
      BY <1>2, <2>1, <2>3 DEF umm_blocks
    <2>7. 2 + q < UShort
      <3>1. size > Body
        BY <1>2 DEF Body
      <3>2. 2 + (size - Body - 1) \div Block < UShort
        BY <3>1 DEF Countable
      <3> QED BY <2>1, <2>3, <3>2
    <2>8. (2 + q) % UShort = 2 + q
      BY <2>3, <2>7 DEF UShort
    <2> QED BY <2>3, <2>5, <2>6, <2>8
  <1> QED BY <1>1, <1>2

(* Block b of m is large enough for the client's bytes and holds them. *)
HoldsAt(m, r, b) ==
  /\ r.size \in Nat \ {0} /\ r.tag \in Nat
  /\ CellsOf(r.size) < 2 * SizeOf(m, b)
  /\ \A k \in 0 .. CellsOf(r.size) - 1 : m[UMM_DATA(b) + k] = DataCell(r.tag, k)

Holds(m, l, U) ==
  /\ DOMAIN l = {UMM_DATA(b) : b \in U}
  /\ \A b \in U : HoldsAt(m, l[UMM_DATA(b)], b)

(* A block that is not written holds what it held. *)
LEMMA HoldsAtSame ==
  ASSUME NEW m, NEW w, NEW b \in Nat, NEW r, HoldsAt(m, r, b), NBLOCK(m, b) \in Nat,
         NBLOCK(w, b) = NBLOCK(m, b), \A y \in DataOf(m, b) : w[y] = m[y]
  PROVE  HoldsAt(w, r, b)
  <1>1. SizeOf(w, b) = SizeOf(m, b) /\ SizeOf(m, b) = NBLOCK(m, b) - b
    BY DEF SizeOf
  <1>2. PICK z : z = CellsOf(r.size)
    OBVIOUS
  <1>3. z \in Nat /\ z < 2 * (NBLOCK(m, b) - b)
    BY <1>1, <1>2, CellsOfCounts DEF HoldsAt
  <1>4. ASSUME NEW k \in 0 .. z - 1 PROVE w[UMM_DATA(b) + k] = DataCell(r.tag, k)
    <2>1. 2 * b + 1 + k \in 2 * b + 1 .. 2 * NBLOCK(m, b) - 1
      BY <1>3
    <2>2. UMM_DATA(b) + k \in DataOf(m, b)
      BY <2>1 DEF UMM_DATA, DataOf
    <2>3. m[UMM_DATA(b) + k] = DataCell(r.tag, k)
      BY <1>2 DEF HoldsAt
    <2> QED BY <2>2, <2>3
  <1> QED BY <1>1, <1>2, <1>4 DEF HoldsAt

(* What the calls of others leave in place. *)
LEMMA Carried ==
  ASSUME NEW m, NEW n, NEW U, Sane(m, n, U), NEW l, Holds(m, l, U),
         NEW w, NEW V, V \subseteq U, Same(m, w, V),
         NEW k, k = [p \in {UMM_DATA(b) : b \in V} |-> l[p]]
  PROVE  Holds(w, k, V)
  <1>1. DOMAIN k = {UMM_DATA(b) : b \in V}
    OBVIOUS
  <1>2. ASSUME NEW b \in V PROVE HoldsAt(w, k[UMM_DATA(b)], b)
    <2>1. b \in U /\ HoldsAt(m, l[UMM_DATA(b)], b)
      BY DEF Holds
    <2>2. b \in Nat /\ NBLOCK(m, b) \in Nat
      BY <2>1, SaneFacts
    <2>3. NBLOCK(w, b) = NBLOCK(m, b) /\ \A y \in DataOf(m, b) : w[y] = m[y]
      BY DEF Same
    <2>4. k[UMM_DATA(b)] = l[UMM_DATA(b)]
      OBVIOUS
    <2>5. HoldsAt(w, l[UMM_DATA(b)], b)
      BY <2>1, <2>2, <2>3, HoldsAtSame
    <2> QED BY <2>4, <2>5
  <1> QED BY <1>1, <1>2 DEF Holds

(* The cells of a request lie in the block that serves it. *)
LEMMA DataIn ==
  ASSUME NEW d \in Nat, NEW n \in Nat, NEW m, NBLOCK(m, d) \in 1 .. n - 1,
         NEW y \in Int, NEW cells \in Nat, cells < 2 * SizeOf(m, d),
         y >= UMM_DATA(d), y <= UMM_DATA(d) + cells - 1
  PROVE  y \in DataOf(m, d) /\ y \in 0 .. 2 * n - 1
  <1>1. PICK x \in 1 .. n - 1 : x = NBLOCK(m, d)
    OBVIOUS
  <1>2. SizeOf(m, d) = x - d /\ DataOf(m, d) = 2 * d + 1 .. 2 * x - 1 /\ UMM_DATA(d) = 2 * d + 1
    BY <1>1 DEF SizeOf, DataOf, UMM_DATA
  <1>3. cells < 2 * (x - d) /\ y >= 2 * d + 1 /\ y <= 2 * d + 1 + cells - 1
    BY <1>2
  <1> QED BY <1>2, <1>3

(* What clients write are cells. *)
LEMMA DataCellTyped ==
  ASSUME NEW tag \in Nat, NEW k \in Nat
  PROVE  DataCell(tag, k) \in Cell
  <1>1. MaxBlocks \in Nat
    BY MinBlocksAssumption, MaxBlocksAssumption
  <1> QED BY <1>1 DEF DataCell, Zero, Cell

(* The client writes the bytes of its block from cell `from' on. *)
GivenTo(w, z, n, U, h) ==
  Sane(z, n, U) /\ Holds(z, h, U) /\ \A b \in U : NBLOCK(z, b) = NBLOCK(w, b)

(* After the client has written, its block holds what it should. *)
LEMMA Given ==
  ASSUME NEW w, NEW n, NEW U, Sane(w, n, U), NEW d \in U, NEW l, Holds(w, l, U \ {d}),
         NEW size \in Nat \ {0}, NEW tag \in Nat, NEW from \in Nat,
         CellsOf(size) < 2 * SizeOf(w, d),
         \A k \in 0 .. from - 1 : k < CellsOf(size) => w[UMM_DATA(d) + k] = DataCell(tag, k),
         NEW z, z = Fill(w, UMM_DATA(d), from, size, tag),
         NEW h, h = Hold(l, UMM_DATA(d), size, tag)
  PROVE  GivenTo(w, z, n, U, h)
  <1>1. /\ n \in Nat /\ n >= 3 /\ w \in Memory(n) /\ d \in Nat /\ NBLOCK(w, d) \in 1 .. n - 1
    BY SaneFacts
  <1>2. PICK cells \in Nat : cells = CellsOf(size)
    BY CellsOfCounts
  <1>3. PICK ptr \in Nat : ptr = UMM_DATA(d)
    BY <1>1 DEF UMM_DATA
  <1>4. w \in [0 .. 2 * n - 1 -> Cell]
    BY <1>1 DEF Memory
  <1>5. z = [x \in 0 .. 2 * n - 1 |->
               IF x \in ptr + from .. ptr + cells - 1 THEN DataCell(tag, x - ptr) ELSE w[x]]
    <2>1. DOMAIN w = 0 .. 2 * n - 1
      BY <1>4
    <2> QED BY <1>2, <1>3, <2>1 DEF Fill
  <1>6. z \in Memory(n)
    <2>1. ASSUME NEW x \in 0 .. 2 * n - 1 PROVE z[x] \in Cell
      <3>1. CASE x \in ptr + from .. ptr + cells - 1
        <4>1. x - ptr \in Nat
          BY <3>1
        <4> QED BY <1>5, <3>1, <4>1, DataCellTyped
      <3>2. CASE x \notin ptr + from .. ptr + cells - 1
        BY <1>4, <1>5, <3>2
      <3> QED BY <3>1, <3>2
    <2> QED BY <1>5, <2>1 DEF Memory
  <1>7. \A y \in 0 .. 2 * n - 1 : y \notin DataOf(w, d) => z[y] = w[y]
    <2> SUFFICES ASSUME NEW y \in 0 .. 2 * n - 1, y \in ptr + from .. ptr + cells - 1
                 PROVE  y \in DataOf(w, d)
      BY <1>5
    <2>1. y >= UMM_DATA(d) /\ y <= UMM_DATA(d) + cells - 1 /\ y \in Int
      BY <1>3
    <2>2. cells < 2 * SizeOf(w, d)
      BY <1>2
    <2> QED BY <1>1, <2>1, <2>2, DataIn
  <1>8. Sane(z, n, U) /\ Same(w, z, U \ {d}) /\ \A b \in U : NBLOCK(z, b) = NBLOCK(w, b)
    <2>1. Sane(w, n, U) /\ d \in U
      OBVIOUS
    <2>2. Sane(z, n, U)
      BY <1>6, <1>7, <2>1, SaneWrites
    <2>3. Same(w, z, U \ {d})
      BY <1>6, <1>7, <2>1, SaneWrites
    <2>4. \A b \in U : NBLOCK(z, b) = NBLOCK(w, b)
      BY <1>6, <1>7, <2>1, <2>2, <2>3, SaneWrites
    <2> QED BY <2>2, <2>3, <2>4
  <1>9. h = Hold(l, ptr, size, tag)
    BY <1>3
  <1>10. DOMAIN l = {UMM_DATA(b) : b \in U \ {d}}
    BY DEF Holds
  <1>11. h = [p \in DOMAIN l \cup {ptr} |-> IF p = ptr THEN [size |-> size, tag |-> tag] ELSE l[p]]
    BY <1>9 DEF Hold
  <1>12. DOMAIN h = {UMM_DATA(b) : b \in U}
    BY <1>3, <1>10, <1>11
  <1>13. ASSUME NEW b \in U PROVE HoldsAt(z, h[UMM_DATA(b)], b)
    <2>0. b \in Nat /\ NBLOCK(w, b) \in Nat
      BY SaneFacts
    <2>1. CASE b = d
      <3>1. h[UMM_DATA(b)] = [size |-> size, tag |-> tag]
        BY <1>3, <1>11, <2>1
      <3>2. SizeOf(z, d) = SizeOf(w, d)
        BY <1>8 DEF SizeOf
      <3>3. ASSUME NEW k \in 0 .. cells - 1 PROVE z[ptr + k] = DataCell(tag, k)
        <4>1. /\ ptr + k >= UMM_DATA(d) /\ ptr + k <= UMM_DATA(d) + cells - 1 /\ ptr + k \in Int
              /\ ptr + k - ptr = k
          BY <1>3
        <4>2. cells < 2 * SizeOf(w, d)
          BY <1>2
        <4>3. ptr + k \in 0 .. 2 * n - 1
          BY <1>1, <4>1, <4>2, DataIn
        <4>4. CASE k < from
          <5>1. ptr + k \notin ptr + from .. ptr + cells - 1 /\ k \in 0 .. from - 1
            BY <4>4
          <5>2. z[ptr + k] = w[ptr + k]
            BY <1>5, <4>3, <5>1
          <5>3. k < CellsOf(size)
            BY <1>2
          <5> QED BY <1>3, <5>1, <5>2, <5>3
        <4>5. CASE ~(k < from)
          <5>1. ptr + k \in ptr + from .. ptr + cells - 1
            BY <4>5
          <5> QED BY <1>5, <4>1, <4>3, <5>1
        <4> QED BY <4>4, <4>5
      <3> QED BY <1>2, <1>3, <2>1, <3>1, <3>2, <3>3 DEF HoldsAt
    <2>2. CASE b # d
      <3>1. HoldsAt(w, l[UMM_DATA(b)], b)
        BY <2>2 DEF Holds
      <3>2. UMM_DATA(b) # ptr
        BY <1>1, <1>3, <2>0, <2>2 DEF UMM_DATA
      <3>3. h[UMM_DATA(b)] = l[UMM_DATA(b)]
        BY <1>10, <1>11, <2>2, <3>2
      <3>4. NBLOCK(z, b) = NBLOCK(w, b) /\ \A y \in DataOf(w, b) : z[y] = w[y]
        BY <1>8, <2>2 DEF Same
      <3>5. HoldsAt(z, l[UMM_DATA(b)], b)
        BY <2>0, <3>1, <3>4, HoldsAtSame
      <3> QED BY <3>3, <3>5
    <2> QED BY <2>1, <2>2
  <1>14. Holds(z, h, U)
    BY <1>12, <1>13 DEF Holds
  <1> QED BY <1>8, <1>14 DEF GivenTo

-----------------------------------------------------------------------------
(* What reallocation does to the blocks. *)

(* Cells written over cells leave a memory. *)
LEMMA MemoryWith ==
  ASSUME NEW n \in Nat, NEW m \in Memory(n), NEW T, NEW v, \A y \in T : v[y] \in Cell,
         NEW w, w = [x \in DOMAIN m |-> IF x \in T THEN v[x] ELSE m[x]]
  PROVE  /\ w \in Memory(n)
         /\ \A y \in 0 .. 2 * n - 1 : w[y] = IF y \in T THEN v[y] ELSE m[y]
  <1>1. DOMAIN m = 0 .. 2 * n - 1 /\ \A y \in 0 .. 2 * n - 1 : m[y] \in Cell
    BY DEF Memory
  <1> QED BY <1>1 DEF Memory

(* The cells of a client's block. *)
LEMMA DataCells ==
  ASSUME NEW m, NEW n, NEW U, Sane(m, n, U), NEW b \in U, NEW k \in Nat, k < 2 * SizeOf(m, b) - 1
  PROVE  UMM_DATA(b) + k \in DataOf(m, b) /\ UMM_DATA(b) + k \in 0 .. 2 * n - 1
  <1>1. b \in Nat /\ n \in Nat /\ NBLOCK(m, b) \in 1 .. n - 1 /\ b < NBLOCK(m, b)
    BY SaneFacts
  <1>2. PICK cells \in Nat : cells = 2 * SizeOf(m, b) - 1
    BY <1>1 DEF SizeOf
  <1>3. PICK y \in Int : y = UMM_DATA(b) + k
    BY <1>1 DEF UMM_DATA
  <1>4. y >= UMM_DATA(b) /\ y <= UMM_DATA(b) + cells - 1
    BY <1>1, <1>2, <1>3 DEF UMM_DATA
  <1>5. cells < 2 * SizeOf(m, b)
    BY <1>1, <1>2 DEF SizeOf
  <1>6. y \in DataOf(m, b)
    BY <1>1, <1>4, <1>5, DataIn
  <1>7. y \in 0 .. 2 * n - 1
    BY <1>1, <1>4, <1>5, DataIn
  <1> QED BY <1>3, <1>6, <1>7

(* A client that scrubs its block before it gives it back. *)
LEMMA Scrubbed ==
  ASSUME NEW m, NEW n, NEW U, Sane(m, n, U), NEW d \in U,
         NEW w, w = Scrub(m, UMM_DATA(d), 2 * SizeOf(m, d) - 1)
  PROVE  Sane(w, n, U) /\ Same(m, w, U \ {d})
  <1>1. n \in Nat /\ m \in Memory(n) /\ d \in Nat /\ NBLOCK(m, d) \in 1 .. n - 1 /\ d < NBLOCK(m, d)
    BY SaneFacts
  <1>2. PICK T : T = UMM_DATA(d) .. UMM_DATA(d) + (2 * SizeOf(m, d) - 1) - 1
    OBVIOUS
  <1>3. T = DataOf(m, d)
    BY <1>1, <1>2 DEF UMM_DATA, SizeOf, DataOf
  <1>4. PICK v : v = [y \in T |-> DataCell(1, 0)]
    OBVIOUS
  <1>5. DataCell(1, 0) \in Cell
    BY DataCellTyped
  <1>6. \A y \in T : v[y] \in Cell
    BY <1>4, <1>5
  <1>7. w = [x \in DOMAIN m |-> IF x \in T THEN v[x] ELSE m[x]]
    BY <1>2, <1>4 DEF Scrub
  <1>8. w \in Memory(n)
    BY <1>1, <1>6, <1>7, MemoryWith
  <1>9. \A y \in 0 .. 2 * n - 1 : w[y] = IF y \in T THEN v[y] ELSE m[y]
    BY <1>1, <1>6, <1>7, MemoryWith
  <1>10. \A y \in 0 .. 2 * n - 1 : y \notin DataOf(m, d) => w[y] = m[y]
    BY <1>3, <1>9
  <1>11. Sane(w, n, U)
    BY <1>8, <1>10, SaneWrites
  <1>12. Same(m, w, U \ {d})
    BY <1>8, <1>10, SaneWrites
  <1> QED BY <1>11, <1>12

(* Cells move into block d from an address of the same memory. *)
Copied(m, w, d, a, cells) ==
  \A k \in 0 .. cells - 1 : w[UMM_DATA(d) + k] = m[a + k]

(* memmove or memcpy into a block of one's own. *)
LEMMA Moved ==
  ASSUME NEW m, NEW n, NEW U, Sane(m, n, U), NEW d \in U,
         NEW cells \in Nat, cells < 2 * SizeOf(m, d),
         NEW a \in Nat, a + cells <= 2 * n,
         NEW w, w = Move(m, UMM_DATA(d), a, cells)
  PROVE  /\ Sane(w, n, U) /\ Same(m, w, U \ {d})
         /\ \A b \in U : NBLOCK(w, b) = NBLOCK(m, b)
         /\ Copied(m, w, d, a, cells)
  <1>1. n \in Nat /\ m \in Memory(n) /\ d \in Nat /\ NBLOCK(m, d) \in 1 .. n - 1
    BY SaneFacts
  <1>2. PICK ptr \in Nat : ptr = UMM_DATA(d)
    BY <1>1 DEF UMM_DATA
  <1>3. PICK T : T = ptr .. ptr + cells - 1
    OBVIOUS
  <1>4. PICK v : v = [y \in T |-> m[a + (y - ptr)]]
    OBVIOUS
  <1>5. \A y \in T : v[y] \in Cell
    <2> SUFFICES ASSUME NEW y \in T PROVE v[y] \in Cell
      OBVIOUS
    <2>1. a + (y - ptr) \in 0 .. 2 * n - 1
      BY <1>1, <1>3
    <2> QED BY <1>1, <1>4, <2>1 DEF Memory
  <1>6. w = [x \in DOMAIN m |-> IF x \in T THEN v[x] ELSE m[x]]
    BY <1>2, <1>3, <1>4 DEF Move
  <1>7. w \in Memory(n)
    BY <1>1, <1>5, <1>6, MemoryWith
  <1>8. \A y \in 0 .. 2 * n - 1 : w[y] = IF y \in T THEN v[y] ELSE m[y]
    BY <1>1, <1>5, <1>6, MemoryWith
  <1>9. ASSUME NEW y \in T PROVE y \in DataOf(m, d) /\ y \in 0 .. 2 * n - 1
    <2>1. y >= UMM_DATA(d) /\ y <= UMM_DATA(d) + cells - 1 /\ y \in Int
      BY <1>2, <1>3
    <2>2. y \in DataOf(m, d)
      BY <1>1, <2>1, DataIn
    <2>3. y \in 0 .. 2 * n - 1
      BY <1>1, <2>1, DataIn
    <2> QED BY <2>2, <2>3
  <1>10. \A y \in 0 .. 2 * n - 1 : y \notin DataOf(m, d) => w[y] = m[y]
    BY <1>8, <1>9
  <1>11. Sane(w, n, U)
    BY <1>7, <1>10, SaneWrites
  <1>12. Same(m, w, U \ {d})
    BY <1>7, <1>10, SaneWrites
  <1>13. \A b \in U : NBLOCK(w, b) = NBLOCK(m, b)
    <2>1. Same(m, w, U \ {d}) /\ \A b \in U : NBLOCK(w, b) = NBLOCK(m, b)
      BY <1>7, <1>10, <1>11, <1>12, SaneWrites
    <2> QED BY <2>1
  <1>14. ASSUME NEW k \in 0 .. cells - 1 PROVE w[UMM_DATA(d) + k] = m[a + k]
    <2>1. ptr + k \in T /\ a + (ptr + k - ptr) = a + k
      BY <1>3
    <2>2. w[ptr + k] = v[ptr + k]
      BY <1>8, <1>9, <2>1
    <2>3. v[ptr + k] = m[a + (ptr + k - ptr)]
      BY <1>4, <2>1
    <2> QED BY <1>2, <2>1, <2>2, <2>3
  <1> QED BY <1>11, <1>12, <1>13, <1>14 DEF Copied

(* The tail of block d is split off and freed. *)
Trims(m, w, n, V, d, k) ==
  /\ Sane(w, n, V) /\ Same(m, w, V \ {d}) /\ SizeOf(w, d) = k
  /\ \A y \in 2 * d + 1 .. 2 * (d + k) - 1 : w[y] = m[y]

(* The tail that umm_realloc gives back. *)
LEMMA Trimmed ==
  ASSUME NEW m, NEW n, NEW V, Sane(m, n, V), NEW d \in V,
         NEW k \in Nat \ {0}, k < SizeOf(m, d),
         NEW w, w = FreeBlock(umm_split_block(m, d, k, FALSE), d + k)
  PROVE  Trims(m, w, n, V, d, k)
  <1>1. PICK C, F \in SUBSET (0 .. n - 1) : HeapShape(m, n, C, F) /\ Apart(m, F) /\ Used(n, C, F) = V
    BY DEF Sane
  <1>2. d \in C /\ d \notin F /\ d # 0 /\ d # n - 1 /\ d \in Nat
    <2>1. d \in Nat
      BY SaneFacts
    <2> QED BY <1>1, <2>1 DEF Used
  <1>3. NBLOCK(m, d) \in 1 .. n - 1 /\ n \in Nat
    BY SaneFacts
  <1>4. PICK s \in Nat : s = d + k
    BY <1>2
  <1>5. s < NBLOCK(m, d) /\ d < s
    BY <1>2, <1>3, <1>4 DEF SizeOf
  <1>6. PICK v : v = Split(m, d, k)
    OBVIOUS
  <1>7. HeapShape(v, n, C \cup {s}, F) /\ Halves(m, v, n, C, d, s) /\ Kept(m, v, n, Links(C \cup {s}, F))
    <2>1. HeapShape(m, n, C, F) /\ d \in C
      BY <1>1, <1>2
    <2>2. k \in Nat \ {0}
      OBVIOUS
    <2>3. HeapShape(v, n, C \cup {s}, F)
      BY <1>2, <1>4, <1>5, <1>6, <2>1, <2>2, Cut
    <2>4. Halves(m, v, n, C, d, s)
      BY <1>2, <1>4, <1>5, <1>6, <2>1, <2>2, Cut
    <2>5. Kept(m, v, n, Links(C \cup {s}, F))
      BY <1>2, <1>4, <1>5, <1>6, <2>1, <2>2, Cut
    <2> QED BY <2>3, <2>4, <2>5
  <1>8. s \in 0 .. n - 1 /\ s \notin C /\ NBLOCK(v, d) = s /\ \A b \in C \ {d} : NBLOCK(v, b) = NBLOCK(m, b)
    BY <1>7 DEF Halves
  <1>9. F \subseteq C /\ 0 \in C /\ n - 1 \in C
    BY <1>1, ShapeParts
  <1>10. Apart(v, F)
    <2>1. \A b \in F : NBLOCK(m, b) \notin F
      BY <1>1 DEF Apart
    <2> QED BY <1>2, <1>8, <1>9, <2>1 DEF Apart
  <1>11. Used(n, C \cup {s}, F) = V \cup {s} /\ s \notin V
    BY <1>1, <1>8, <1>9 DEF Used
  <1>12. Sane(v, n, V \cup {s})
    BY <1>7, <1>10, <1>11, SaneFrom
  <1>13. w = FreeBlock(v, s)
    BY <1>4, <1>6 DEF Split
  <1>14. Sane(w, n, V) /\ Same(v, w, V)
    <2>1. (V \cup {s}) \ {s} = V /\ s \in V \cup {s}
      BY <1>11
    <2>2. Sane(w, n, (V \cup {s}) \ {s}) /\ Same(v, w, (V \cup {s}) \ {s})
      BY <1>12, <1>13, <2>1, SaneFreed
    <2> QED BY <2>1, <2>2
  <1>15. ASSUME NEW b \in V, NEW y \in DataOf(v, b) PROVE v[y] = m[y] /\ y \in 0 .. 2 * n - 1
    <2>1. b \in C \cup {s} /\ b \notin F \cup {0, n - 1}
      BY <1>1 DEF Used
    <2>2. y \in 0 .. 2 * n - 1 /\ y \notin Links(C \cup {s}, F)
      BY <1>7, <2>1, DataApart
    <2> QED BY <1>7, <2>2 DEF Kept
  <1>16. Same(m, v, V \ {d})
    <2>1. \A b \in V \ {d} : NBLOCK(v, b) = NBLOCK(m, b)
      BY <1>1, <1>8 DEF Used
    <2>2. \A b \in V \ {d} : DataOf(v, b) = DataOf(m, b)
      BY <2>1 DEF DataOf
    <2> QED BY <1>15, <2>1, <2>2 DEF Same
  <1>17. Same(m, w, V \ {d})
    <2>1. Same(v, w, V \ {d})
      BY <1>14 DEF Same
    <2> QED BY <1>16, <2>1, SameTrans
  <1>18. SizeOf(w, d) = k
    <2>1. NBLOCK(w, d) = s
      BY <1>8, <1>14 DEF Same
    <2>2. s - d = k
      BY <1>2, <1>4
    <2> QED BY <2>1, <2>2 DEF SizeOf
  <1>19. ASSUME NEW y \in 2 * d + 1 .. 2 * (d + k) - 1 PROVE w[y] = m[y]
    <2>1. y \in DataOf(v, d)
      BY <1>4, <1>8 DEF DataOf
    <2>2. w[y] = v[y]
      BY <1>14, <2>1 DEF Same
    <2> QED BY <1>15, <2>1, <2>2
  <1> QED BY <1>14, <1>17, <1>18, <1>19 DEF Trims

(* Block c, moved with its first cells to d, has `size' blocks there. *)
Resized(m, w, n, U, c, d, size, cells) ==
  /\ d \in Nat /\ d \notin U \ {c}
  /\ Sane(w, n, (U \ {c}) \cup {d})
  /\ Same(m, w, U \ {c})
  /\ SizeOf(w, d) = size
  /\ \A k \in Nat : (k < cells /\ k < 2 * size - 1) => w[UMM_DATA(d) + k] = m[UMM_DATA(c) + k]

(* c and its cells go down to the free block before it. *)
LEMMA MovedDown ==
  ASSUME NEW m, NEW n, NEW C, NEW F, HeapShape(m, n, C, F), Apart(m, F),
         NEW U, U = Used(n, C, F), NEW c \in U, NEW p \in F, p = PBLOCK(m, c),
         NEW cells \in Nat, cells < 2 * SizeOf(m, c), NEW len,
         NEW g, g = MoveDown(m, c, cells, len)
  PROVE  /\ g.c = p /\ g.n = len
         /\ Resized(m, g.mem, n, U, c, p, NBLOCK(m, c) - p, cells)
  <1>1. /\ n \in Nat /\ n >= 3 /\ C \subseteq 0 .. n - 1 /\ F \subseteq C \ {0, n - 1}
        /\ m \in Memory(n)
    BY ShapeParts
  <1>2. c \in C /\ c \notin F \cup {0, n - 1} /\ c # 0 /\ c # n - 1 /\ c \notin F
    BY DEF Used
  <1>3. p \in C /\ NBLOCK(m, p) = c /\ p < c /\ p # 0 /\ p \in Nat /\ c \in Nat /\ p # n - 1
    <2>1. p \in C \ {n - 1} /\ NBLOCK(m, p) = c /\ p < c
      BY <1>2, Before
    <2> QED BY <1>1, <1>2, <2>1
  <1>4. c # 1
    BY <1>3
  <1>5. PICK x \in 1 .. n - 1 : x = NBLOCK(m, c) /\ x > c /\ x \in C
    BY <1>2, ChainFacts
  <1>6. PICK v : v = umm_disconnect_from_free_list(m, p)
    OBVIOUS
  <1>7. HeapShape(v, n, C, F \ {p}) /\ Nexts(v, n) = Nexts(m, n) /\ Prevs(v, n) = Prevs(m, n)
        /\ Kept(m, v, n, Links(C, F))
    BY <1>6, Disconnected
  <1>8. p = PBLOCK(v, c)
    <2>1. c \in 0 .. n - 1
      BY <1>1, <1>2
    <2>2. Prevs(v, n)[c] = PBLOCK(v, c) /\ Prevs(m, n)[c] = PBLOCK(m, c)
      BY <2>1 DEF Prevs
    <2> QED BY <1>7, <2>2
  <1>9. PICK w : w = umm_assimilate_down(v, c, FALSE)
    OBVIOUS
  <1>10. /\ HeapShape(w, n, C \ {c}, F \ {p})
         /\ Nexts(w, n) = [Nexts(v, n) EXCEPT ![p] = NBLOCK(v, c)]
         /\ Kept(v, w, n, Links(C, F \ {p}))
    <2>1. PICK f \in BOOLEAN : f = FALSE
      OBVIOUS
    <2>2. f <=> p \in F \ {p}
      BY <2>1
    <2>3. w = umm_assimilate_down(v, c, f)
      BY <1>9, <2>1
    <2>4. HeapShape(v, n, C, F \ {p}) /\ c \in C
      BY <1>2, <1>7
    <2>5. c \notin F \ {p}
      BY <1>2
    <2>6. PICK H : H = F \ {p}
      OBVIOUS
    <2>7. HeapShape(v, n, C, H) /\ c \in C
      BY <2>4, <2>6
    <2>8. c \notin H /\ c # 0 /\ c # n - 1
      BY <1>2, <2>5, <2>6
    <2>9. f <=> p \in H
      BY <2>2, <2>6
    <2>10. HeapShape(w, n, C \ {c}, H)
      BY <1>4, <1>8, <2>3, <2>7, <2>8, <2>9, TookDown
    <2>11. Kept(v, w, n, Links(C, H))
      BY <1>4, <1>8, <2>3, <2>7, <2>8, <2>9, <2>10, TookDown
    <2>12. TakenIn(v, w, n, p, c)
      BY <1>4, <1>8, <2>3, <2>7, <2>8, <2>9, <2>10, <2>11, TookDown
    <2> QED BY <2>6, <2>10, <2>11, <2>12 DEF TakenIn
  <1>11. Nexts(w, n) = [Nexts(m, n) EXCEPT ![p] = x]
    <2>1. c \in 0 .. n - 1
      BY <1>1, <1>2
    <2>2. Nexts(v, n)[c] = NBLOCK(v, c) /\ Nexts(m, n)[c] = NBLOCK(m, c)
      BY <2>1 DEF Nexts
    <2> QED BY <1>5, <1>7, <1>10, <2>2
  <1>12. NBLOCK(w, p) = x
    <2>1. p \in 0 .. n - 1
      BY <1>1, <1>3
    <2>2. Nexts(w, n)[p] = NBLOCK(w, p)
      BY <2>1 DEF Nexts
    <2>3. Nexts(w, n)[p] = x
      BY <1>11, <2>1 DEF Nexts
    <2> QED BY <2>2, <2>3
  <1>13. ASSUME NEW b \in C, b # p PROVE NBLOCK(w, b) = NBLOCK(m, b)
    <2>1. b \in 0 .. n - 1
      BY <1>1
    <2>2. Nexts(w, n)[b] = NBLOCK(w, b) /\ Nexts(m, n)[b] = NBLOCK(m, b)
      BY <2>1 DEF Nexts
    <2>3. Nexts(w, n)[b] = Nexts(m, n)[b]
      BY <1>11, <1>13, <2>1 DEF Nexts
    <2> QED BY <2>2, <2>3
  <1>14. Apart(w, F \ {p})
    <2> SUFFICES ASSUME NEW b \in F \ {p} PROVE NBLOCK(w, b) \notin F
      BY DEF Apart
    <2>1. b \in C /\ b # p /\ b \in F
      BY <1>1
    <2>2. NBLOCK(m, b) \notin F
      BY <2>1 DEF Apart
    <2> QED BY <1>13, <2>1, <2>2
  <1>15. Used(n, C \ {c}, F \ {p}) = (U \ {c}) \cup {p} /\ p \notin U
    BY <1>3 DEF Used
  <1>16. Sane(w, n, (U \ {c}) \cup {p})
    BY <1>10, <1>14, <1>15, SaneFrom
  <1>17. ASSUME NEW b \in U, NEW y \in DataOf(m, b) PROVE w[y] = m[y] /\ y \in 0 .. 2 * n - 1
    <2>1. b \in C /\ b \notin F \cup {0, n - 1}
      BY DEF Used
    <2>2. y \in 0 .. 2 * n - 1 /\ y \notin Links(C, F)
      BY <2>1, DataApart
    <2>3. y \notin Links(C, F \ {p})
      BY <2>2 DEF Links
    <2> QED BY <1>7, <1>10, <2>2, <2>3 DEF Kept
  <1>18. Same(m, w, U \ {c})
    <2>1. \A b \in U : b \in C /\ b # p
      BY <1>15 DEF Used
    <2> QED BY <1>13, <1>17, <2>1 DEF Same
  <1>19. PICK z : z = Move(w, UMM_DATA(p), UMM_DATA(c), cells)
    OBVIOUS
  <1>20. g = [mem |-> z, c |-> p, n |-> len]
    BY <1>6, <1>9, <1>19 DEF MoveDown
  <1>21. PICK a \in Nat : a = UMM_DATA(c) /\ a = 2 * c + 1
    BY <1>3 DEF UMM_DATA
  <1>22. cells < 2 * (x - c) /\ SizeOf(w, p) = x - p
    BY <1>5, <1>12 DEF SizeOf
  <1>23. a + cells <= 2 * n /\ cells < 2 * SizeOf(w, p)
    BY <1>1, <1>3, <1>5, <1>21, <1>22
  <1>24. PICK V : V = (U \ {c}) \cup {p}
    OBVIOUS
  <1>25. z = Move(w, UMM_DATA(p), a, cells)
    BY <1>19, <1>21
  <1>26. Sane(z, n, V) /\ Same(w, z, V \ {p})
    <2>1. Sane(w, n, V)
      BY <1>16, <1>24
    <2>2. p \in V
      BY <1>24
    <2>3. Sane(z, n, V)
      BY <1>23, <1>25, <2>1, <2>2, Moved
    <2>4. Same(w, z, V \ {p})
      BY <1>23, <1>25, <2>1, <2>2, Moved
    <2> QED BY <2>3, <2>4
  <1>27. NBLOCK(z, p) = NBLOCK(w, p)
    <2>1. Sane(w, n, V) /\ p \in V
      BY <1>16, <1>24
    <2>2. \A b \in V : NBLOCK(z, b) = NBLOCK(w, b)
      BY <1>23, <1>25, <1>26, <2>1, Moved
    <2> QED BY <2>1, <2>2
  <1>28. Sane(z, n, (U \ {c}) \cup {p})
    BY <1>24, <1>26
  <1>29. \A k \in 0 .. cells - 1 : z[UMM_DATA(p) + k] = w[a + k]
    <2>1. Sane(w, n, V) /\ p \in V
      BY <1>16, <1>24
    <2>2. Copied(w, z, p, a, cells)
      BY <1>23, <1>25, <1>26, <2>1, Moved
    <2> QED BY <2>2 DEF Copied
  <1>30. Same(m, z, U \ {c})
    <2>1. V \ {p} = U \ {c}
      BY <1>15, <1>24
    <2> QED BY <1>18, <1>26, <2>1, SameTrans
  <1>31. SizeOf(z, p) = NBLOCK(m, c) - p
    BY <1>5, <1>12, <1>27 DEF SizeOf
  <1>32. ASSUME NEW k \in Nat, k < cells
         PROVE  z[UMM_DATA(p) + k] = m[UMM_DATA(c) + k]
    <2>1. k \in 0 .. cells - 1
      BY <1>32
    <2>2. a + k \in 2 * c + 1 .. 2 * x - 1
      BY <1>3, <1>21, <1>22, <2>1
    <2>3. a + k \in DataOf(m, c)
      BY <1>5, <2>2 DEF DataOf
    <2>4. w[a + k] = m[a + k]
      BY <1>17, <2>3
    <2> QED BY <1>21, <1>29, <2>1, <2>4
  <1>33. Resized(m, z, n, U, c, p, NBLOCK(m, c) - p, cells)
    BY <1>3, <1>15, <1>28, <1>30, <1>31, <1>32 DEF Resized
  <1> QED BY <1>20, <1>33

(* c takes in the free block that follows it. *)
LEMMA TakenUp ==
  ASSUME NEW m, NEW n, NEW C, NEW F, HeapShape(m, n, C, F), Apart(m, F),
         NEW U, U = Used(n, C, F), NEW c \in U, NEW x, x = NBLOCK(m, c),
         NEW D, D = C \ ({x} \cap F), NEW G, G = F \ {x},
         NEW cells \in Nat, cells < 2 * SizeOf(m, c),
         NEW w, w = umm_assimilate_up(m, c)
  PROVE  /\ HeapShape(w, n, D, G) /\ Apart(w, G) /\ Used(n, D, G) = U
         /\ Resized(m, w, n, U, c, c, IF x \in F THEN NBLOCK(m, x) - c ELSE x - c, cells)
         /\ NBLOCK(w, c) = (IF x \in F THEN NBLOCK(m, x) ELSE x)
         /\ \A b \in D \ {c} : NBLOCK(w, b) = NBLOCK(m, b)
  <1>1. /\ n \in Nat /\ n >= 3 /\ C \subseteq 0 .. n - 1 /\ F \subseteq C \ {0, n - 1}
    BY ShapeParts
  <1>2. c \in C /\ c \notin F \cup {0, n - 1} /\ c # 0 /\ c # n - 1 /\ c \notin F /\ c \in Nat
    BY <1>1 DEF Used
  <1>3. c \in C
    BY <1>2
  <1>4. /\ HeapShape(w, n, D, G) /\ Apart(w, G) /\ c \in D /\ x \in C
        /\ NBLOCK(w, c) = IF x \in F THEN NBLOCK(m, x) ELSE x
        /\ NBLOCK(w, c) \notin G
        /\ \A b \in D \ {c} : NBLOCK(w, b) = NBLOCK(m, b)
        /\ Kept(m, w, n, Links(C, F))
    BY <1>2, <1>3, Up
  <1>5. Used(n, D, G) = U
    BY <1>1 DEF Used
  <1>6. Sane(w, n, U)
    BY <1>4, <1>5, SaneFrom
  <1>7. ASSUME NEW b \in U, NEW y \in DataOf(m, b) PROVE w[y] = m[y]
    <2>1. b \in C /\ b \notin F \cup {0, n - 1}
      BY DEF Used
    <2>2. y \in 0 .. 2 * n - 1 /\ y \notin Links(C, F)
      BY <2>1, DataApart
    <2> QED BY <1>4, <2>2 DEF Kept
  <1>8. Same(m, w, U \ {c})
    <2>1. \A b \in U : b \in D
      BY <1>5 DEF Used
    <2> QED BY <1>4, <1>7, <2>1 DEF Same
  <1>9. SizeOf(w, c) = IF x \in F THEN NBLOCK(m, x) - c ELSE x - c
    BY <1>4 DEF SizeOf
  <1>10. Sane(m, n, U)
    BY SaneFrom
  <1>11. ASSUME NEW k \in Nat, k < cells
         PROVE  w[UMM_DATA(c) + k] = m[UMM_DATA(c) + k]
    <2>1. NBLOCK(m, c) \in Nat
      BY <1>10, SaneFacts
    <2>2. k < 2 * SizeOf(m, c) - 1
      BY <1>2, <1>11, <2>1 DEF SizeOf
    <2> QED BY <1>7, <1>10, <2>2, DataCells
  <1>12. (U \ {c}) \cup {c} = U /\ c \notin U \ {c}
    OBVIOUS
  <1>13. Resized(m, w, n, U, c, c, IF x \in F THEN NBLOCK(m, x) - c ELSE x - c, cells)
    BY <1>2, <1>6, <1>8, <1>9, <1>11, <1>12 DEF Resized
  <1> QED BY <1>4, <1>5, <1>13

(* A second resizing of the block resized before. *)
LEMMA ResizedTrans ==
  ASSUME NEW m, NEW v, NEW w, NEW n, NEW U, NEW c, NEW d, NEW s, NEW size,
         NEW cells \in Nat, s \in Nat, cells < 2 * s,
         Resized(m, v, n, U, c, c, s, cells), Resized(v, w, n, U, c, d, size, cells)
  PROVE  Resized(m, w, n, U, c, d, size, cells)
  <1>1. Same(m, v, U \ {c}) /\ Same(v, w, U \ {c})
    BY DEF Resized
  <1>2. Same(m, w, U \ {c})
    BY <1>1, SameTrans
  <1>3. ASSUME NEW k \in Nat, k < cells, k < 2 * size - 1
        PROVE  w[UMM_DATA(d) + k] = m[UMM_DATA(c) + k]
    <2>1. k < 2 * s - 1
      BY <1>3
    <2>2. v[UMM_DATA(c) + k] = m[UMM_DATA(c) + k]
      BY <1>3, <2>1 DEF Resized
    <2>3. w[UMM_DATA(d) + k] = v[UMM_DATA(c) + k]
      BY <1>3 DEF Resized
    <2> QED BY <2>2, <2>3
  <1>4. d \in Nat /\ d \notin U \ {c} /\ Sane(w, n, (U \ {c}) \cup {d}) /\ SizeOf(w, d) = size
    BY DEF Resized
  <1> QED BY <1>2, <1>3, <1>4 DEF Resized

GrowsTo(m, c, blocks, cur, next, prev, g) ==
  /\ cur >= blocks => g = [mem |-> m, c |-> c, n |-> cur]
  /\ cur < blocks /\ cur + next >= blocks =>
       g = [mem |-> umm_assimilate_up(m, c), c |-> c, n |-> cur + next]
  /\ cur + next < blocks /\ prev + cur >= blocks =>
       g = MoveDown(m, c, 2 * cur - 1, prev + cur)
  /\ cur + next < blocks /\ prev + cur < blocks =>
       g = MoveDown(umm_assimilate_up(m, c), c, 2 * cur - 1, prev + cur + next)

(* The four ways umm_realloc makes a block larger in place. *)
LEMMA GrowCases ==
  ASSUME NEW m, NEW c, NEW blocks \in Nat, NEW cur \in Nat, NEW next \in Nat, NEW prev \in Nat
  PROVE  GrowsTo(m, c, blocks, cur, next, prev, Grow(m, c, blocks, cur, next, prev))
  <1> SUFFICES ASSUME NEW g, g = Grow(m, c, blocks, cur, next, prev)
               PROVE  GrowsTo(m, c, blocks, cur, next, prev, g)
    OBVIOUS
  <1>1. CASE cur >= blocks
    <2>1. ~(cur < blocks) /\ ~(cur + next < blocks)
      BY <1>1
    <2> QED BY <1>1, <2>1 DEF Grow, GrowsTo
  <1>2. CASE cur < blocks /\ cur + next >= blocks
    <2>1. ~(cur >= blocks) /\ ~(cur + next < blocks)
      BY <1>2
    <2> QED BY <1>2, <2>1 DEF Grow, GrowsTo
  <1>3. CASE cur + next < blocks /\ prev + cur >= blocks
    <2>1. ~(cur >= blocks) /\ ~(cur + next >= blocks) /\ ~(prev + cur < blocks)
      BY <1>3
    <2> QED BY <1>3, <2>1 DEF Grow, GrowsTo
  <1>4. CASE cur + next < blocks /\ prev + cur < blocks
    <2>1. ~(cur >= blocks) /\ ~(cur + next >= blocks) /\ ~(prev + cur >= blocks)
      BY <1>4
    <2> QED BY <1>4, <2>1 DEF Grow, GrowsTo
  <1>5. cur < blocks \/ cur >= blocks
    OBVIOUS
  <1>6. cur + next < blocks \/ cur + next >= blocks
    OBVIOUS
  <1>7. prev + cur < blocks \/ prev + cur >= blocks
    OBVIOUS
  <1>8. cur >= blocks => cur + next >= blocks
    OBVIOUS
  <1> QED BY <1>1, <1>2, <1>3, <1>4, <1>5, <1>6, <1>7, <1>8 DEF GrowsTo

(* The blocks beside c are taken in until it is large enough. *)
LEMMA Grown ==
  ASSUME NEW m, NEW n, NEW U, Sane(m, n, U), NEW c \in U, NEW blocks \in Nat \ {0},
         NEW cur, cur = SizeOf(m, c),
         NEW next, next = IF IsFree(m, NBLOCK(m, c)) THEN SizeOf(m, NBLOCK(m, c)) ELSE 0,
         NEW prev, prev = IF IsFree(m, PBLOCK(m, c)) THEN c - PBLOCK(m, c) ELSE 0,
         ~(prev + cur + next < blocks),
         NEW g, g = Grow(m, c, blocks, cur, next, prev)
  PROVE  g.n \in Nat /\ g.n >= blocks /\ Resized(m, g.mem, n, U, c, g.c, g.n, 2 * cur - 1)
  <1>1. PICK C, F \in SUBSET (0 .. n - 1) : HeapShape(m, n, C, F) /\ Apart(m, F) /\ U = Used(n, C, F)
    BY DEF Sane
  <1>2. /\ n \in Nat /\ n >= 3 /\ C \subseteq 0 .. n - 1 /\ F \subseteq C \ {0, n - 1}
    BY <1>1, ShapeParts
  <1>3. c \in C /\ c \notin F \cup {0, n - 1} /\ c # 0 /\ c # n - 1 /\ c \notin F
    BY <1>1 DEF Used
  <1>4. c \in Nat
    BY SaneFacts
  <1>5. PICK x \in Nat : x = NBLOCK(m, c) /\ x > c /\ x \in C
    BY <1>1, <1>3, ChainFacts
  <1>6. PICK p \in Nat : p = PBLOCK(m, c) /\ p \in C /\ p < c /\ NBLOCK(m, p) = c
    <2>1. PBLOCK(m, c) \in C \ {n - 1} /\ NBLOCK(m, PBLOCK(m, c)) = c /\ PBLOCK(m, c) < c
      BY <1>1, <1>3, Before
    <2>2. PICK q : q = PBLOCK(m, c)
      OBVIOUS
    <2>3. q \in 0 .. n - 1
      BY <1>2, <2>1, <2>2
    <2>4. q \in Nat
      BY <2>3
    <2> QED BY <2>1, <2>2, <2>4
  <1>7. IsFree(m, x) = (x \in F) /\ IsFree(m, p) = (p \in F)
    BY <1>1, <1>5, <1>6, MarkOf
  <1>8. cur \in Nat /\ cur = x - c /\ cur > 0
    BY <1>4, <1>5 DEF SizeOf
  <1>9. PICK cells \in Nat : cells = 2 * cur - 1
    BY <1>8
  <1>10. cells < 2 * SizeOf(m, c)
    BY <1>8, <1>9
  <1>11. next \in Nat /\ next = IF x \in F THEN NBLOCK(m, x) - x ELSE 0
    <2>1. CASE x \in F
      <3>1. next = NBLOCK(m, x) - x
        BY <1>5, <1>7, <2>1 DEF SizeOf
      <3>2. x # n - 1
        BY <1>2, <2>1
      <3>3. NBLOCK(m, x) \in 1 .. n - 1 /\ NBLOCK(m, x) > x
        BY <1>1, <1>5, <3>2, ChainFacts
      <3> QED BY <2>1, <3>1, <3>3
    <2>2. CASE x \notin F
      BY <1>5, <1>7, <2>2
    <2> QED BY <2>1, <2>2
  <1>12. prev \in Nat /\ prev = IF p \in F THEN c - p ELSE 0
    <2>1. CASE p \in F
      <3>1. prev = c - p
        BY <1>6, <1>7, <2>1
      <3> QED BY <1>4, <1>6, <2>1, <3>1
    <2>2. CASE p \notin F
      BY <1>6, <1>7, <2>2
    <2> QED BY <2>1, <2>2
  <1>23. blocks \in Nat /\ cur \in Nat /\ next \in Nat /\ prev \in Nat
    BY <1>8, <1>11, <1>12
  <1>24. /\ cur >= blocks => g = [mem |-> m, c |-> c, n |-> cur]
         /\ cur < blocks /\ cur + next >= blocks =>
              g = [mem |-> umm_assimilate_up(m, c), c |-> c, n |-> cur + next]
         /\ cur + next < blocks /\ prev + cur >= blocks =>
              g = MoveDown(m, c, 2 * cur - 1, prev + cur)
         /\ cur + next < blocks /\ prev + cur < blocks =>
              g = MoveDown(umm_assimilate_up(m, c), c, 2 * cur - 1, prev + cur + next)
    <2>1. GrowsTo(m, c, blocks, cur, next, prev, Grow(m, c, blocks, cur, next, prev))
      BY <1>23, GrowCases
    <2>2. GrowsTo(m, c, blocks, cur, next, prev, g)
      BY <2>1
    <2> QED BY <2>2 DEF GrowsTo
  <1>13. CASE cur >= blocks
    <2>1. g = [mem |-> m, c |-> c, n |-> cur]
      BY <1>13, <1>24
    <2>2. (U \ {c}) \cup {c} = U /\ c \notin U \ {c}
      OBVIOUS
    <2>3. Same(m, m, U \ {c})
      BY SameRefl
    <2>4. Resized(m, m, n, U, c, c, cur, cells)
      BY <1>4, <2>2, <2>3 DEF Resized
    <2> QED BY <1>8, <1>9, <1>13, <2>1, <2>4
  <1>21. PICK v : v = umm_assimilate_up(m, c)
    OBVIOUS
  <1>22. PICK D, G : D = C \ ({x} \cap F) /\ G = F \ {x}
    OBVIOUS
  <1>14. /\ HeapShape(v, n, D, G) /\ Apart(v, G) /\ Used(n, D, G) = U
         /\ Resized(m, v, n, U, c, c, IF x \in F THEN NBLOCK(m, x) - c ELSE x - c, cells)
         /\ NBLOCK(v, c) = (IF x \in F THEN NBLOCK(m, x) ELSE x)
         /\ \A b \in D \ {c} : NBLOCK(v, b) = NBLOCK(m, b)
    BY <1>1, <1>5, <1>10, <1>21, <1>22, TakenUp
  <1>15. (IF x \in F THEN NBLOCK(m, x) - c ELSE x - c) = cur + next
    <2>1. CASE x \in F
      <3>1. PICK y : y = NBLOCK(m, x)
        OBVIOUS
      <3>2. next = y - x
        BY <1>11, <2>1, <3>1
      <3>3. x # n - 1
        BY <1>2, <2>1
      <3>4. y \in 1 .. n - 1
        BY <1>1, <1>5, <3>1, <3>3, ChainFacts
      <3>5. y - c = cur + next
        BY <1>4, <1>8, <3>2, <3>4
      <3> QED BY <2>1, <3>1, <3>5
    <2>2. CASE x \notin F
      <3>1. next = 0
        BY <1>11, <2>2
      <3>2. x - c = cur + next
        BY <1>8, <3>1
      <3> QED BY <2>2, <3>2
    <2> QED BY <2>1, <2>2
  <1>16. Resized(m, v, n, U, c, c, cur + next, cells)
    <2> QED BY <1>14, <1>15
  <1>17. CASE cur < blocks /\ cur + next >= blocks
    <2>1. g = [mem |-> v, c |-> c, n |-> cur + next]
      BY <1>17, <1>21, <1>24
    <2> QED BY <1>8, <1>9, <1>11, <1>16, <1>17, <2>1
  <1>18. CASE cur + next < blocks /\ prev + cur >= blocks
    <2>1. g = MoveDown(m, c, cells, prev + cur)
      BY <1>9, <1>18, <1>24
    <2>2. p \in F
      BY <1>8, <1>11, <1>12, <1>18
    <2>3. prev + cur = NBLOCK(m, c) - p
      <3>1. prev = c - p
        BY <1>12, <2>2
      <3> QED BY <1>4, <1>5, <1>8, <3>1
    <2>4. g.c = p /\ g.n = prev + cur
      BY <1>1, <1>6, <1>10, <2>1, <2>2, MovedDown
    <2>5. Resized(m, g.mem, n, U, c, p, NBLOCK(m, c) - p, cells)
      BY <1>1, <1>6, <1>10, <2>1, <2>2, MovedDown
    <2>6. Resized(m, g.mem, n, U, c, g.c, g.n, cells)
      BY <2>3, <2>4, <2>5
    <2> QED BY <1>8, <1>9, <1>12, <1>18, <2>4, <2>6
  <1>19. CASE cur + next < blocks /\ prev + cur < blocks
    <2>1. g = MoveDown(v, c, cells, prev + cur + next)
      BY <1>9, <1>19, <1>21, <1>24
    <2>2. p \in F /\ p # x /\ p # c
      <3>1. prev > 0
        BY <1>8, <1>11, <1>12, <1>19
      <3> QED BY <1>4, <1>5, <1>6, <1>12, <3>1
    <2>3. p \in D /\ p \in G /\ p # n - 1
      BY <1>2, <1>6, <1>22, <2>2
    <2>4. NBLOCK(v, p) = c
      BY <1>6, <1>14, <2>2, <2>3
    <2>5. p = PBLOCK(v, c)
      <3>1. PBLOCK(v, NBLOCK(v, p)) = p
        BY <1>14, <2>3 DEF HeapShape, Chained
      <3> QED BY <2>4, <3>1
    <2>6. SizeOf(v, c) = cur + next
      BY <1>16 DEF Resized
    <2>7. cells < 2 * SizeOf(v, c)
      BY <1>8, <1>9, <1>11, <2>6
    <2>8. NBLOCK(v, c) - p = prev + cur + next
      <3>1. prev = c - p
        BY <1>12, <2>2
      <3>2. PICK y : y = NBLOCK(v, c)
        OBVIOUS
      <3>3. y - c = cur + next
        BY <2>6, <3>2 DEF SizeOf
      <3>4. y \in Nat
        <4>1. c \in U /\ Sane(v, n, U)
          BY <1>14, SaneFrom
        <4> QED BY <3>2, <4>1, SaneFacts
      <3> QED BY <1>4, <1>8, <1>11, <3>1, <3>2, <3>3, <3>4
    <2>9. g.c = p /\ g.n = prev + cur + next
      BY <1>14, <2>1, <2>3, <2>5, <2>7, MovedDown
    <2>10. Resized(v, g.mem, n, U, c, p, NBLOCK(v, c) - p, cells)
      BY <1>14, <2>1, <2>3, <2>5, <2>7, MovedDown
    <2>11. Resized(v, g.mem, n, U, c, g.c, g.n, cells)
      BY <2>8, <2>9, <2>10
    <2>12. cur + next \in Nat /\ cells < 2 * (cur + next)
      BY <1>8, <1>9, <1>11
    <2>13. Resized(m, g.mem, n, U, c, g.c, g.n, cells)
      BY <1>16, <2>11, <2>12, ResizedTrans
    <2>14. g.n \in Nat /\ g.n >= blocks
      BY <1>8, <1>11, <1>12, <2>9
    <2> QED BY <1>9, <2>13, <2>14
  <1>20. \/ cur >= blocks
         \/ cur < blocks /\ cur + next >= blocks
         \/ cur + next < blocks /\ prev + cur >= blocks
         \/ cur + next < blocks /\ prev + cur < blocks
    BY <1>8, <1>11, <1>12
  <1> QED BY <1>13, <1>17, <1>18, <1>19, <1>20

(* A block grown too large is cut to the size asked for. *)
LEMMA TrimmedTo ==
  ASSUME NEW m, NEW n, NEW U, NEW c, NEW blocks \in Nat \ {0}, NEW cells \in Nat,
         NEW g, g.n \in Nat, g.n >= blocks, Resized(m, g.mem, n, U, c, g.c, g.n, cells),
         NEW r, r = Trim(g, blocks)
  PROVE  r.ptr = UMM_DATA(g.c) /\ Resized(m, r.mem, n, U, c, g.c, blocks, cells)
  <1>1. PICK d \in Nat, len \in Nat : d = g.c /\ len = g.n
    BY DEF Resized
  <1>7. PICK v : v = g.mem
    OBVIOUS
  <1>2. /\ d \notin U \ {c} /\ Sane(v, n, (U \ {c}) \cup {d})
        /\ Same(m, v, U \ {c}) /\ SizeOf(v, d) = len
        /\ \A k \in Nat : (k < cells /\ k < 2 * len - 1) => v[UMM_DATA(d) + k] = m[UMM_DATA(c) + k]
    BY <1>1, <1>7 DEF Resized
  <1>3. len >= blocks
    BY <1>1
  <1>4. r.ptr = UMM_DATA(d)
    BY <1>1 DEF Trim
  <1>5. CASE len > blocks
    <2>1. PICK w : w = FreeBlock(umm_split_block(v, d, blocks, FALSE), d + blocks)
      OBVIOUS
    <2>2. r.mem = w
      BY <1>1, <1>5, <1>7, <2>1 DEF Trim
    <2>3. PICK V : V = (U \ {c}) \cup {d}
      OBVIOUS
    <2>4. Sane(v, n, V) /\ d \in V
      BY <1>2, <2>3
    <2>5. blocks < SizeOf(v, d)
      BY <1>2, <1>5
    <2>6. Sane(w, n, V) /\ Same(v, w, V \ {d}) /\ SizeOf(w, d) = blocks
      <3>1. blocks \in Nat \ {0}
        OBVIOUS
      <3>2. Trims(v, w, n, V, d, blocks)
        BY <2>1, <2>4, <2>5, <3>1, Trimmed
      <3> QED BY <3>2 DEF Trims
    <2>7. \A y \in 2 * d + 1 .. 2 * (d + blocks) - 1 : w[y] = v[y]
      <3>1. blocks \in Nat \ {0}
        OBVIOUS
      <3>2. Trims(v, w, n, V, d, blocks)
        BY <2>1, <2>4, <2>5, <3>1, Trimmed
      <3> QED BY <3>2 DEF Trims
    <2>8. Same(m, w, U \ {c})
      <3>1. V \ {d} = U \ {c}
        BY <1>2, <2>3
      <3> QED BY <1>2, <2>6, <3>1, SameTrans
    <2>9. ASSUME NEW k \in Nat, k < cells, k < 2 * blocks - 1
          PROVE  w[UMM_DATA(d) + k] = m[UMM_DATA(c) + k]
      <3>1. k < 2 * len - 1
        BY <1>5, <2>9
      <3>2. v[UMM_DATA(d) + k] = m[UMM_DATA(c) + k]
        BY <1>2, <2>9, <3>1
      <3>3. UMM_DATA(d) + k \in 2 * d + 1 .. 2 * (d + blocks) - 1
        BY <2>9 DEF UMM_DATA
      <3> QED BY <2>7, <3>2, <3>3
    <2>10. Resized(m, w, n, U, c, d, blocks, cells)
      BY <1>2, <2>3, <2>6, <2>8, <2>9 DEF Resized
    <2> QED BY <1>1, <1>4, <2>2, <2>10
  <1>6. CASE len = blocks
    <2>1. ~(g.n > blocks)
      BY <1>1, <1>6
    <2>2. r.mem = v
      BY <1>7, <2>1 DEF Trim
    <2> QED BY <1>1, <1>4, <1>6, <1>7, <2>2
  <1> QED BY <1>3, <1>5, <1>6

(* Without room beside it, the block is copied elsewhere. *)
ResizesTo(m, n, F, U, c, blocks, r) ==
  \/ /\ r.ptr = NULL /\ r.mem = m
     /\ \A b \in F : SizeOf(m, b) < blocks
  \/ \E d \in Nat :
        /\ r.ptr = UMM_DATA(d)
        /\ Resized(m, r.mem, n, U, c, d, blocks, 2 * SizeOf(m, c) - 1)

(* umm_realloc by allocation, copy and release. *)
LEMMA MovedElsewhere ==
  ASSUME NEW m, NEW C, NEW F, HeapShape(m, numblocks, C, F), Apart(m, F),
         NEW U, U = Used(numblocks, C, F), Short(numblocks),
         NEW c \in U, NEW blocks \in Nat \ {0}, SizeOf(m, c) < blocks,
         NEW r, r = MoveTo(MallocBlocks(m, blocks), UMM_DATA(c), 2 * SizeOf(m, c) - 1)
  PROVE  ResizesTo(m, numblocks, F, U, c, blocks, r)
  <1>1. PICK n : n = numblocks
    OBVIOUS
  <1>2. PICK got : got = MallocBlocks(m, blocks)
    OBVIOUS
  <1>3. AllotsTo(m, n, F, U, blocks, got)
    BY <1>1, <1>2, SaneAllotted
  <1>4. r = MoveTo(got, UMM_DATA(c), 2 * SizeOf(m, c) - 1)
    BY <1>2
  <1>5. CASE got.ptr = NULL /\ got.mem = m /\ \A b \in F : SizeOf(m, b) < blocks
    <2>1. r = got
      BY <1>4, <1>5 DEF MoveTo
    <2> QED BY <1>5, <2>1 DEF ResizesTo
  <1>6. CASE \E d \in F :
        /\ BestIn(m, F, d, blocks)
        /\ got.ptr = UMM_DATA(d)
        /\ d \in Nat \ U
        /\ Sane(got.mem, n, U \cup {d})
        /\ SizeOf(got.mem, d) = blocks
        /\ Same(m, got.mem, U)
    <2>1. PICK d \in Nat : /\ got.ptr = UMM_DATA(d) /\ d \notin U
                           /\ Sane(got.mem, n, U \cup {d})
                           /\ SizeOf(got.mem, d) = blocks
                           /\ Same(m, got.mem, U)
      BY <1>6
    <2>2. PICK v, V : v = got.mem /\ V = U \cup {d}
      OBVIOUS
    <2>3. Sane(v, n, V) /\ d \in V /\ c \in V /\ Same(m, v, U) /\ SizeOf(v, d) = blocks /\ c # d
      BY <2>1, <2>2
    <2>4. Sane(m, n, U)
      BY <1>1, SaneFrom
    <2>5. c \in Nat /\ NBLOCK(m, c) \in 1 .. n - 1 /\ NBLOCK(m, c) > c /\ n \in Nat
      BY <2>4, SaneFacts
    <2>6. PICK x \in 1 .. n - 1 : x = NBLOCK(m, c) /\ x > c
      BY <2>5
    <2>7. SizeOf(m, c) = x - c
      BY <2>6 DEF SizeOf
    <2>8. PICK cells \in Nat : cells = 2 * SizeOf(m, c) - 1
      BY <2>5, <2>6, <2>7
    <2>9. PICK a \in Nat : a = UMM_DATA(c) /\ a = 2 * c + 1
      BY <2>5 DEF UMM_DATA
    <2>10. a + cells <= 2 * n
      BY <2>5, <2>6, <2>7, <2>8, <2>9
    <2>11. cells < 2 * SizeOf(v, d)
      BY <2>3, <2>5, <2>6, <2>7, <2>8
    <2>12. PICK w : w = Move(v, UMM_DATA(d), a, cells)
      OBVIOUS
    <2>13. Sane(w, n, V) /\ Same(v, w, V \ {d})
      <3>1. Sane(w, n, V)
        BY <2>3, <2>10, <2>11, <2>12, Moved
      <3>2. Same(v, w, V \ {d})
        BY <2>3, <2>10, <2>11, <2>12, Moved
      <3> QED BY <3>1, <3>2
    <2>14. \A b \in V : NBLOCK(w, b) = NBLOCK(v, b)
      BY <2>3, <2>10, <2>11, <2>12, <2>13, Moved
    <2>15. Copied(v, w, d, a, cells)
      BY <2>3, <2>10, <2>11, <2>12, <2>13, Moved
    <2>16. PICK z : z = FreeBlock(w, c)
      OBVIOUS
    <2>17. Sane(z, n, V \ {c}) /\ Same(w, z, V \ {c})
      BY <2>3, <2>13, <2>16, SaneFreed
    <2>18. V \ {c} = (U \ {c}) \cup {d} /\ V \ {d} = U /\ d \notin U \ {c}
      BY <2>1, <2>2, <2>3
    <2>19. got.ptr # NULL
      BY <2>1 DEF UMM_DATA, NULL
    <2>20. BlockOf(UMM_DATA(c)) = c
      BY <2>5, BlockOfData
    <2>21. r = [got EXCEPT !.mem = CopyAndFree(@, got.ptr, UMM_DATA(c), 2 * SizeOf(m, c) - 1)]
      BY <1>4, <2>19 DEF MoveTo
    <2>22. got = [mem |-> got.mem, ptr |-> got.ptr]
      BY <1>2 DEF MallocBlocks, Allot
    <2>23. r.ptr = UMM_DATA(d)
      BY <2>1, <2>21, <2>22
    <2>24. r.mem = z
      <3>1. r.mem = CopyAndFree(v, got.ptr, UMM_DATA(c), 2 * SizeOf(m, c) - 1)
        BY <2>2, <2>21, <2>22
      <3>2. CopyAndFree(v, got.ptr, UMM_DATA(c), 2 * SizeOf(m, c) - 1) = FreeBlock(w, c)
        BY <2>1, <2>8, <2>9, <2>12, <2>20 DEF CopyAndFree
      <3> QED BY <2>16, <3>1, <3>2
    <2>25. Same(m, z, U \ {c})
      <3>1. Same(m, v, U \ {c})
        BY <2>3, SameSubset
      <3>2. Same(v, w, U \ {c})
        BY <2>13, <2>18 DEF Same
      <3>3. Same(w, z, U \ {c})
        BY <2>17, <2>18 DEF Same
      <3>4. Same(m, w, U \ {c})
        BY <3>1, <3>2, SameTrans
      <3> QED BY <3>3, <3>4, SameTrans
    <2>26. SizeOf(z, d) = blocks
      <3>1. NBLOCK(z, d) = NBLOCK(w, d)
        BY <2>17, <2>18 DEF Same
      <3>2. NBLOCK(w, d) = NBLOCK(v, d)
        BY <2>3, <2>14
      <3> QED BY <2>3, <3>1, <3>2 DEF SizeOf
    <2>27. ASSUME NEW k \in Nat, k < cells
           PROVE  z[UMM_DATA(d) + k] = m[UMM_DATA(c) + k]
      <3>1. w[UMM_DATA(d) + k] = v[a + k]
        BY <2>15, <2>27 DEF Copied
      <3>2. k < 2 * SizeOf(w, d) - 1
        <4>1. SizeOf(w, d) = blocks
          BY <2>3, <2>14 DEF SizeOf
        <4> QED BY <2>5, <2>6, <2>7, <2>8, <2>27, <4>1
      <3>3. UMM_DATA(d) + k \in DataOf(w, d)
        BY <2>3, <2>13, <3>2, DataCells
      <3>4. z[UMM_DATA(d) + k] = w[UMM_DATA(d) + k]
        BY <2>17, <2>18, <3>3 DEF Same
      <3>5. k < 2 * SizeOf(m, c) - 1
        BY <2>8, <2>27
      <3>6. UMM_DATA(c) + k \in DataOf(m, c)
        BY <2>4, <3>5, DataCells
      <3>7. v[UMM_DATA(c) + k] = m[UMM_DATA(c) + k]
        BY <2>3, <3>6 DEF Same
      <3> QED BY <2>9, <3>1, <3>4, <3>7
    <2>28. Resized(m, z, n, U, c, d, blocks, cells)
      BY <2>17, <2>18, <2>25, <2>26, <2>27 DEF Resized
    <2> QED BY <1>1, <2>8, <2>23, <2>24, <2>28 DEF ResizesTo
  <1> QED BY <1>3, <1>5, <1>6 DEF AllotsTo

(* The blocks that c and the free ones beside it have. *)
Around(m, c) ==
  (IF IsFree(m, PBLOCK(m, c)) THEN c - PBLOCK(m, c) ELSE 0) + SizeOf(m, c)
    + (IF IsFree(m, NBLOCK(m, c)) THEN SizeOf(m, NBLOCK(m, c)) ELSE 0)

(* The sizes of a block and its free neighbours. *)
LEMMA BesideCounted ==
  ASSUME NEW m, NEW n, NEW U, Sane(m, n, U), NEW c \in U
  PROVE  /\ SizeOf(m, c) \in Nat \ {0}
         /\ (IF IsFree(m, NBLOCK(m, c)) THEN SizeOf(m, NBLOCK(m, c)) ELSE 0) \in Nat
         /\ (IF IsFree(m, PBLOCK(m, c)) THEN c - PBLOCK(m, c) ELSE 0) \in Nat
  <1>1. PICK C, F \in SUBSET (0 .. n - 1) : HeapShape(m, n, C, F) /\ Apart(m, F) /\ U = Used(n, C, F)
    BY DEF Sane
  <1>2. /\ n \in Nat /\ n >= 3 /\ C \subseteq 0 .. n - 1 /\ F \subseteq C \ {0, n - 1}
    BY <1>1, ShapeParts
  <1>3. c \in C /\ c # 0 /\ c # n - 1 /\ c \in Nat
    BY <1>1, <1>2 DEF Used
  <1>4. PICK x \in Nat : x = NBLOCK(m, c) /\ x > c /\ x \in C
    BY <1>1, <1>3, ChainFacts
  <1>5. PICK p : p = PBLOCK(m, c)
    OBVIOUS
  <1>6. p \in C \ {n - 1} /\ p < c
    BY <1>1, <1>3, <1>5, Before
  <1>7. p \in 0 .. n - 1
    BY <1>2, <1>6
  <1>8. c - p \in Nat
    BY <1>3, <1>6, <1>7
  <1>9. SizeOf(m, c) \in Nat \ {0}
    BY <1>3, <1>4 DEF SizeOf
  <1>11. IsFree(m, x) = (x \in F)
    BY <1>1, <1>4, MarkOf
  <1>10. IsFree(m, x) => SizeOf(m, x) \in Nat
    <2> SUFFICES ASSUME IsFree(m, x) PROVE SizeOf(m, x) \in Nat
      OBVIOUS
    <2>1. x \in F
      BY <1>11
    <2>2. x # n - 1
      BY <1>2, <2>1
    <2>3. PICK y \in Nat : y = NBLOCK(m, x) /\ y > x
      BY <1>1, <1>4, <2>2, ChainFacts
    <2> QED BY <2>3 DEF SizeOf
  <1> QED BY <1>4, <1>5, <1>8, <1>9, <1>10

Reallocates(m, n, F, U, c, blocks, r) ==
  \/ /\ r.ptr = NULL /\ r.mem = m
     /\ \A b \in F : SizeOf(m, b) < blocks
     /\ Around(m, c) < blocks
  \/ \E d \in Nat :
        /\ r.ptr = UMM_DATA(d)
        /\ Resized(m, r.mem, n, U, c, d, blocks, 2 * SizeOf(m, c) - 1)

(* umm_realloc: the block has the size asked for and the cells it had, or  *)
(* nothing changes and neither a free block nor the room around c would    *)
(* do.                                                                     *)
LEMMA Reallocated ==
  ASSUME NEW m, NEW C, NEW F, HeapShape(m, numblocks, C, F), Apart(m, F),
         NEW U, U = Used(numblocks, C, F), Short(numblocks),
         NEW c \in U, NEW blocks \in Nat \ {0},
         NEW r, r = ReallocBlocks(m, UMM_DATA(c), blocks)
  PROVE  Reallocates(m, numblocks, F, U, c, blocks, r)
  <1>1. PICK n : n = numblocks
    OBVIOUS
  <1>2. Sane(m, n, U)
    BY <1>1, SaneFrom
  <1>3. c \in Nat /\ BlockOf(UMM_DATA(c)) = c
    BY <1>2, SaneFacts, BlockOfData
  <1>4. PICK cur, next, prev :
           /\ cur = SizeOf(m, c)
           /\ next = IF IsFree(m, NBLOCK(m, c)) THEN SizeOf(m, NBLOCK(m, c)) ELSE 0
           /\ prev = IF IsFree(m, PBLOCK(m, c)) THEN c - PBLOCK(m, c) ELSE 0
    OBVIOUS
  <1>5. cur \in Nat \ {0} /\ next \in Nat /\ prev \in Nat
    BY <1>2, <1>4, BesideCounted
  <1>6. Around(m, c) = prev + cur + next
    BY <1>4 DEF Around
  <1>7. r = IF prev + cur + next < blocks
            THEN MoveTo(MallocBlocks(m, blocks), UMM_DATA(c), 2 * cur - 1)
            ELSE Trim(Grow(m, c, blocks, cur, next, prev), blocks)
    BY <1>3, <1>4 DEF ReallocBlocks
  <1>8. CASE prev + cur + next < blocks
    <2>1. r = MoveTo(MallocBlocks(m, blocks), UMM_DATA(c), 2 * SizeOf(m, c) - 1)
      BY <1>4, <1>7, <1>8
    <2>2. SizeOf(m, c) < blocks
      BY <1>4, <1>5, <1>8
    <2>3. c \in U /\ blocks \in Nat \ {0}
      OBVIOUS
    <2>4. ResizesTo(m, numblocks, F, U, c, blocks, r)
      BY <2>1, <2>2, <2>3, MovedElsewhere
    <2> QED BY <1>6, <1>8, <2>4 DEF ResizesTo, Reallocates
  <1>9. CASE ~(prev + cur + next < blocks)
    <2>1. PICK g : g = Grow(m, c, blocks, cur, next, prev)
      OBVIOUS
    <2>2. c \in U /\ blocks \in Nat \ {0}
      OBVIOUS
    <2>3. g.n \in Nat /\ g.n >= blocks /\ Resized(m, g.mem, n, U, c, g.c, g.n, 2 * cur - 1)
      BY <1>2, <1>4, <1>9, <2>1, <2>2, Grown
    <2>4. r = Trim(g, blocks)
      BY <1>7, <1>9, <2>1
    <2>5. PICK cells \in Nat : cells = 2 * cur - 1
      BY <1>5
    <2>6. Resized(m, g.mem, n, U, c, g.c, g.n, cells)
      BY <2>3, <2>5
    <2>9. r.ptr = UMM_DATA(g.c)
      BY <2>4 DEF Trim
    <2>10. g.n \in Nat /\ g.n >= blocks
      BY <2>3
    <2>11. Resized(m, r.mem, n, U, c, g.c, blocks, cells)
      BY <2>2, <2>4, <2>6, <2>10, TrimmedTo
    <2>7. r.ptr = UMM_DATA(g.c) /\ Resized(m, r.mem, n, U, c, g.c, blocks, cells)
      BY <2>9, <2>11
    <2>8. g.c \in Nat
      BY <2>7 DEF Resized
    <2> QED BY <1>1, <1>4, <2>5, <2>7, <2>8 DEF Reallocates
  <1> QED BY <1>8, <1>9

-----------------------------------------------------------------------------
(* The heap and the clients' data, apart from the variables that hold them. *)
InOrder(m, n, l) ==
  \/ n = 0 /\ l = None
  \/ /\ n \in MinBlocks .. MaxBlocks
     /\ \E U \in SUBSET (0 .. n - 1) : Sane(m, n, U) /\ Holds(m, l, U)

(* A heap in order with its clients' data. *)
LEMMA InOrderFrom ==
  ASSUME NEW m, NEW n, NEW l, NEW U, n \in MinBlocks .. MaxBlocks, Sane(m, n, U), Holds(m, l, U)
  PROVE  InOrder(m, n, l)
  <1>1. U \subseteq 0 .. n - 1
    BY SaneFacts
  <1> QED BY <1>1 DEF InOrder

(* What order says while there is a heap. *)
LEMMA InOrderParts ==
  ASSUME NEW m, NEW n, NEW l, InOrder(m, n, l), n # 0
  PROVE  /\ n \in MinBlocks .. MaxBlocks /\ Short(n)
         /\ \E U \in SUBSET (0 .. n - 1) : Sane(m, n, U) /\ Holds(m, l, U)
  <1>1. n \in MinBlocks .. MaxBlocks
    BY DEF InOrder
  <1>2. Short(n)
    BY <1>1, MinBlocksAssumption, MaxBlocksAssumption DEF Short
  <1> QED BY <1>1, <1>2 DEF InOrder

(* Order implies HeapIInv. *)
LEMMA IInvFromOrder ==
  ASSUME InOrder(mem, numblocks, live)
  PROVE  HeapIInv
  <1>1. CASE numblocks = 0 /\ live = None
    BY <1>1 DEF HeapIInv
  <1>2. CASE /\ numblocks \in MinBlocks .. MaxBlocks
             /\ \E U \in SUBSET (0 .. numblocks - 1) : Sane(mem, numblocks, U) /\ Holds(mem, live, U)
    <2>1. PICK U \in SUBSET (0 .. numblocks - 1) : Sane(mem, numblocks, U) /\ Holds(mem, live, U)
      BY <1>2
    <2>2. PICK C, F \in SUBSET (0 .. numblocks - 1) :
             HeapShape(mem, numblocks, C, F) /\ Apart(mem, F) /\ Used(numblocks, C, F) = U
      BY <2>1 DEF Sane
    <2>3. DOMAIN live = {UMM_DATA(b) : b \in U}
      BY <2>1 DEF Holds
    <2>4. ASSUME NEW p \in DOMAIN live
          PROVE  /\ live[p].size \in Nat \ {0} /\ live[p].tag \in Nat
                 /\ CellsOf(live[p].size) < 2 * SizeOf(mem, BlockOf(p))
                 /\ \A k \in 0 .. CellsOf(live[p].size) - 1 : mem[p + k] = DataCell(live[p].tag, k)
      <3>1. PICK b \in U : p = UMM_DATA(b)
        BY <2>3
      <3>2. b \in Nat
        BY <2>1, SaneFacts
      <3>3. BlockOf(p) = b
        BY <3>1, <3>2, BlockOfData
      <3>4. HoldsAt(mem, live[p], b)
        BY <2>1, <3>1 DEF Holds
      <3> QED BY <3>1, <3>3, <3>4 DEF HoldsAt
    <2>5. Owned(C, F)
      <3>1. U = C \ (F \cup {0, numblocks - 1})
        BY <2>2 DEF Used
      <3> QED BY <2>3, <2>4, <3>1 DEF Owned
    <2>6. DataKept
      BY <2>4 DEF DataKept
    <2> QED BY <1>2, <2>2, <2>5, <2>6, HeapFrom
  <1> QED BY <1>1, <1>2 DEF InOrder

(* A free bit that agrees with membership equals it. *)
LEMMA MarkAgrees ==
  ASSUME NEW f, NEW b, NEW F, (f = FALSE /\ b \notin F) \/ (f = TRUE /\ b \in F)
  PROVE  f = (b \in F)
  <1>1. CASE f = FALSE /\ b \notin F
    <2>1. (b \in F) = FALSE
      BY <1>1
    <2>2. f = FALSE
      BY <1>1
    <2> QED BY <2>1, <2>2
  <1>2. CASE f = TRUE /\ b \in F
    <2>1. (b \in F) = TRUE
      BY <1>2
    <2>2. f = TRUE
      BY <1>2
    <2> QED BY <2>1, <2>2
  <1> QED BY <1>1, <1>2

(* The heap that umm_init_x lays out. *)
LEMMA Fresh ==
  ASSUME NEW n \in Nat, n >= 3, NEW m,
         m = [x \in 0 .. 2 * n - 1 |->
                CASE x = 0 -> [next |-> 1, prev |-> 0, free |-> FALSE]
                  [] x = 1 -> [next |-> 1, prev |-> 1, free |-> FALSE]
                  [] x = 2 -> [next |-> n - 1, prev |-> 0, free |-> TRUE]
                  [] x = 2 * (n - 1) -> [next |-> 0, prev |-> 1, free |-> FALSE]
                  [] OTHER -> Zero]
  PROVE  Sane(m, n, {})
  <1> DEFINE At(x) ==
         CASE x = 0 -> [next |-> 1, prev |-> 0, free |-> FALSE]
           [] x = 1 -> [next |-> 1, prev |-> 1, free |-> FALSE]
           [] x = 2 -> [next |-> n - 1, prev |-> 0, free |-> TRUE]
           [] x = 2 * (n - 1) -> [next |-> 0, prev |-> 1, free |-> FALSE]
           [] OTHER -> Zero
  <1>1. PICK e \in Nat : e = n - 1 /\ e > 1
    OBVIOUS
  <1>2. 0 \in 0 .. 2 * n - 1 /\ 1 \in 0 .. 2 * n - 1 /\ 2 \in 0 .. 2 * n - 1 /\ 3 \in 0 .. 2 * n - 1
        /\ 2 * e \in 0 .. 2 * n - 1
    BY <1>1
  <1>3. m[0] = [next |-> 1, prev |-> 0, free |-> FALSE]
    BY <1>2
  <1>4. m[1] = [next |-> 1, prev |-> 1, free |-> FALSE]
    BY <1>2
  <1>5. m[2] = [next |-> e, prev |-> 0, free |-> TRUE]
    BY <1>1, <1>2
  <1>6. m[3] = Zero
    <2>1. 3 # 2 * (n - 1)
      OBVIOUS
    <2> QED BY <1>2, <2>1
  <1>7. m[2 * e] = [next |-> 0, prev |-> 1, free |-> FALSE]
    <2>1. 2 * e # 0 /\ 2 * e # 1 /\ 2 * e # 2 /\ 2 * e = 2 * (n - 1)
      BY <1>1
    <2> QED BY <1>2, <2>1
  <1>8. m \in Memory(n)
    <2>1. ASSUME NEW x \in 0 .. 2 * n - 1 PROVE m[x] \in Cell
      <3>1. m[x] \in {[next |-> 1, prev |-> 0, free |-> FALSE],
                      [next |-> 1, prev |-> 1, free |-> FALSE],
                      [next |-> n - 1, prev |-> 0, free |-> TRUE],
                      [next |-> 0, prev |-> 1, free |-> FALSE], Zero}
        OBVIOUS
      <3>2. n - 1 \in Nat
        OBVIOUS
      <3> QED BY <3>1, <3>2 DEF Cell, Zero
    <2> QED BY <2>1 DEF Memory
  <1> HIDE DEF At
  <1>9. /\ NBLOCK(m, 0) = 1 /\ PBLOCK(m, 0) = 0 /\ IsFree(m, 0) = FALSE
        /\ NFREE(m, 0) = 1 /\ PFREE(m, 0) = 1
        /\ NBLOCK(m, 1) = e /\ PBLOCK(m, 1) = 0 /\ IsFree(m, 1) = TRUE
        /\ NFREE(m, 1) = 0 /\ PFREE(m, 1) = 0
        /\ NBLOCK(m, e) = 0 /\ PBLOCK(m, e) = 1 /\ IsFree(m, e) = FALSE
    <2>1. 2 * 0 = 0 /\ 2 * 0 + 1 = 1 /\ 2 * 1 = 2 /\ 2 * 1 + 1 = 3
      OBVIOUS
    <2>2. NBLOCK(m, 0) = 1 /\ PBLOCK(m, 0) = 0 /\ IsFree(m, 0) = FALSE
      BY <1>3, <2>1 DEF NBLOCK, PBLOCK, IsFree
    <2>3. NFREE(m, 0) = 1 /\ PFREE(m, 0) = 1
      BY <1>4, <2>1 DEF NFREE, PFREE
    <2>4. NBLOCK(m, 1) = e /\ PBLOCK(m, 1) = 0 /\ IsFree(m, 1) = TRUE
      BY <1>5, <2>1 DEF NBLOCK, PBLOCK, IsFree
    <2>5. NFREE(m, 1) = 0 /\ PFREE(m, 1) = 0
      BY <1>6, <2>1 DEF NFREE, PFREE, Zero
    <2>6. NBLOCK(m, e) = 0 /\ PBLOCK(m, e) = 1 /\ IsFree(m, e) = FALSE
      BY <1>7 DEF NBLOCK, PBLOCK, IsFree
    <2> QED BY <2>2, <2>3, <2>4, <2>5, <2>6
  <1>10. PICK C, F : C = {0, 1, e} /\ F = {1}
    OBVIOUS
  <1>11. Chained(m, n, C)
    <2>1. C \subseteq 0 .. n - 1 /\ 0 \in C /\ 1 \in C /\ n - 1 \in C /\ C \ {n - 1} = {0, 1}
      BY <1>1, <1>10
    <2>2. NBLOCK(m, n - 1) = 0
      BY <1>1, <1>9
    <2>3. \A c \in C : (c <= 0 \/ c >= 1) /\ (c <= 1 \/ c >= e)
      BY <1>1, <1>10
    <2>4. ASSUME NEW b \in {0, 1}
          PROVE  /\ NBLOCK(m, b) \in C /\ NBLOCK(m, b) > b
                 /\ PBLOCK(m, NBLOCK(m, b)) = b
                 /\ \A c \in C : c <= b \/ c >= NBLOCK(m, b)
      <3>1. CASE b = 0
        BY <1>9, <1>10, <2>3, <3>1
      <3>2. CASE b = 1
        BY <1>1, <1>9, <1>10, <2>3, <3>2
      <3> QED BY <3>1, <3>2
    <2> QED BY <2>1, <2>2, <2>4 DEF Chained
  <1>12. Marked(m, n, C, F)
    <2>1. F \subseteq C \ {0, n - 1}
      BY <1>1, <1>10
    <2>2. 0 \notin F /\ 1 \in F /\ e \notin F
      BY <1>1, <1>10
    <2>3. ASSUME NEW b \in C PROVE IsFree(m, b) = (b \in F)
      <3>1. (IsFree(m, b) = FALSE /\ b \notin F) \/ (IsFree(m, b) = TRUE /\ b \in F)
        <4>1. CASE b = 0
          BY <1>9, <2>2, <4>1
        <4>2. CASE b = 1
          BY <1>9, <2>2, <4>2
        <4>3. CASE b = e
          BY <1>9, <2>2, <4>3
        <4> QED BY <1>10, <4>1, <4>2, <4>3
      <3> QED BY <3>1, MarkAgrees
    <2> QED BY <2>1, <2>3 DEF Marked
  <1>13. Linked(m, F)
    <2>1. F \cup {0} = {0, 1}
      BY <1>10
    <2>2. ASSUME NEW b \in {0, 1}
          PROVE  /\ NFREE(m, b) \in {0, 1} /\ PFREE(m, b) \in {0, 1}
                 /\ PFREE(m, NFREE(m, b)) = b /\ NFREE(m, PFREE(m, b)) = b
      BY <1>9
    <2>3. ASSUME NEW S \in SUBSET F, S # {} PROVE \E b \in S : PFREE(m, b) \notin S
      <3>1. S = {1}
        BY <1>10, <2>3
      <3> QED BY <1>9, <3>1
    <2> QED BY <2>1, <2>2, <2>3 DEF Linked
  <1>14. Apart(m, F)
    BY <1>1, <1>9, <1>10 DEF Apart
  <1>15. HeapShape(m, n, C, F)
    BY <1>8, <1>11, <1>12, <1>13 DEF HeapShape
  <1>16. Used(n, C, F) = {}
    BY <1>1, <1>10 DEF Used
  <1> QED BY <1>14, <1>15, <1>16, SaneFrom

-----------------------------------------------------------------------------
(* The calls, on any memory and any set of allocations. *)
MallocResult(m, n, F, U, l, z, k, blocks, ptr) ==
  \/ /\ ptr = NULL /\ z = m /\ k = l
     /\ \A b \in F : SizeOf(m, b) < blocks
  \/ \E c \in F :
       /\ BestIn(m, F, c, blocks)
       /\ ptr = UMM_DATA(c) /\ c \in Nat \ U
       /\ Sane(z, n, U \cup {c}) /\ Holds(z, k, U \cup {c})
       /\ SizeOf(z, c) = blocks
       /\ \A b \in U : NBLOCK(z, b) = NBLOCK(m, b)

ReallocResult(m, n, F, U, l, c, z, k, blocks, ptr) ==
  \/ /\ ptr = NULL /\ z = m /\ k = l
     /\ \A b \in F : SizeOf(m, b) < blocks
     /\ Around(m, c) < blocks
  \/ \E d \in Nat :
       /\ ptr = UMM_DATA(d) /\ d \notin U \ {c}
       /\ Sane(z, n, (U \ {c}) \cup {d}) /\ Holds(z, k, (U \ {c}) \cup {d})
       /\ SizeOf(z, d) = blocks
       /\ \A b \in U \ {c} : NBLOCK(z, b) = NBLOCK(m, b)

FreeResult(m, n, U, c, z, k) ==
  /\ Sane(z, n, U \ {c}) /\ Holds(z, k, U \ {c})
  /\ \A b \in U \ {c} : NBLOCK(z, b) = NBLOCK(m, b)

(* umm_malloc and the client that fills its block. *)
LEMMA MallocDone ==
  ASSUME NEW m, NEW C, NEW F, HeapShape(m, numblocks, C, F), Apart(m, F),
         NEW U, U = Used(numblocks, C, F), Short(numblocks), NEW l, Holds(m, l, U),
         NEW size \in Nat \ {0}, Countable(size), NEW tag \in Nat,
         NEW got, got = MallocBlocks(m, umm_blocks(size)),
         NEW z, z = (IF got.ptr = NULL THEN got.mem ELSE Fill(got.mem, got.ptr, 0, size, tag)),
         NEW k, k = (IF got.ptr = NULL THEN l ELSE Hold(l, got.ptr, size, tag))
  PROVE  MallocResult(m, numblocks, F, U, l, z, k, umm_blocks(size), got.ptr)
  <1>1. PICK n, blocks : n = numblocks /\ blocks = umm_blocks(size)
    OBVIOUS
  <1>2. blocks \in Nat \ {0} /\ CellsOf(size) < 2 * blocks
    BY <1>1, BlocksSuffice
  <1>3. AllotsTo(m, n, F, U, blocks, got)
    BY <1>1, <1>2, SaneAllotted
  <1>4. CASE got.ptr = NULL /\ got.mem = m /\ \A b \in F : SizeOf(m, b) < blocks
    BY <1>1, <1>4 DEF MallocResult
  <1>5. CASE \E c \in F :
        /\ BestIn(m, F, c, blocks)
        /\ got.ptr = UMM_DATA(c)
        /\ c \in Nat \ U
        /\ Sane(got.mem, n, U \cup {c})
        /\ SizeOf(got.mem, c) = blocks
        /\ Same(m, got.mem, U)
    <2>1. PICK c \in F : /\ BestIn(m, F, c, blocks)
                         /\ got.ptr = UMM_DATA(c)
                         /\ c \in Nat \ U
                         /\ Sane(got.mem, n, U \cup {c})
                         /\ SizeOf(got.mem, c) = blocks
                         /\ Same(m, got.mem, U)
      BY <1>5
    <2>2. got.ptr # NULL
      BY <2>1, BlockOfData
    <2>3. PICK w, V : w = got.mem /\ V = U \cup {c}
      OBVIOUS
    <2>4. z = Fill(w, UMM_DATA(c), 0, size, tag) /\ k = Hold(l, UMM_DATA(c), size, tag)
      BY <2>1, <2>2, <2>3
    <2>5. Sane(w, n, V) /\ c \in V /\ Same(m, w, U) /\ V \ {c} = U /\ SizeOf(w, c) = blocks
      BY <2>1, <2>3
    <2>6. Holds(w, l, U)
      <3>1. \A b \in U : HoldsAt(m, l[UMM_DATA(b)], b)
        BY DEF Holds
      <3>2. Sane(m, n, U)
        BY <1>1, SaneFrom
      <3>3. ASSUME NEW b \in U PROVE HoldsAt(w, l[UMM_DATA(b)], b)
        <4>1. b \in Nat /\ NBLOCK(m, b) \in Nat
          BY <3>2, SaneFacts
        <4>2. NBLOCK(w, b) = NBLOCK(m, b) /\ \A y \in DataOf(m, b) : w[y] = m[y]
          BY <2>5 DEF Same
        <4> QED BY <3>1, <4>1, <4>2, HoldsAtSame
      <3> QED BY <3>3 DEF Holds
    <2>7. Holds(w, l, V \ {c})
      BY <2>5, <2>6
    <2>8. CellsOf(size) < 2 * SizeOf(w, c)
      BY <1>2, <2>5
    <2>9. \A i \in 0 .. 0 - 1 : i < CellsOf(size) => w[UMM_DATA(c) + i] = DataCell(tag, i)
      OBVIOUS
    <2>10. size \in Nat \ {0} /\ tag \in Nat /\ 0 \in Nat
      OBVIOUS
    <2>11. GivenTo(w, z, n, V, k)
      BY <2>4, <2>5, <2>7, <2>8, <2>9, <2>10, Given
    <2>12. Sane(z, n, V) /\ Holds(z, k, V) /\ \A b \in V : NBLOCK(z, b) = NBLOCK(w, b)
      BY <2>11 DEF GivenTo
    <2>13. \A b \in U : NBLOCK(z, b) = NBLOCK(m, b)
      BY <2>3, <2>5, <2>12 DEF Same
    <2>14. SizeOf(z, c) = blocks
      BY <2>5, <2>12 DEF SizeOf
    <2> QED BY <1>1, <2>1, <2>3, <2>12, <2>13, <2>14 DEF MallocResult
  <1> QED BY <1>3, <1>4, <1>5 DEF AllotsTo

(* The client that scrubs its block, and umm_free. *)
LEMMA FreeDone ==
  ASSUME NEW m, NEW n, NEW U, Sane(m, n, U), NEW l, Holds(m, l, U), NEW c \in U,
         NEW z, z = FreeBlock(Scrub(m, UMM_DATA(c), 2 * SizeOf(m, c) - 1), c),
         NEW k, k = [p \in DOMAIN l \ {UMM_DATA(c)} |-> l[p]]
  PROVE  FreeResult(m, n, U, c, z, k)
  <1>1. PICK w : w = Scrub(m, UMM_DATA(c), 2 * SizeOf(m, c) - 1)
    OBVIOUS
  <1>2. Sane(w, n, U) /\ Same(m, w, U \ {c})
    BY <1>1, Scrubbed
  <1>3. Sane(z, n, U \ {c}) /\ Same(w, z, U \ {c})
    BY <1>1, <1>2, SaneFreed
  <1>4. Same(m, z, U \ {c})
    BY <1>2, <1>3, SameTrans
  <1>5. DOMAIN l \ {UMM_DATA(c)} = {UMM_DATA(b) : b \in U \ {c}}
    <2>1. DOMAIN l = {UMM_DATA(b) : b \in U}
      BY DEF Holds
    <2>2. \A b \in U : UMM_DATA(b) = UMM_DATA(c) => b = c
      <3>1. \A b \in U : b \in Nat
        BY SaneFacts
      <3> QED BY <3>1 DEF UMM_DATA
    <2> QED BY <2>1, <2>2
  <1>6. k = [p \in {UMM_DATA(b) : b \in U \ {c}} |-> l[p]]
    BY <1>5
  <1>7. Holds(z, k, U \ {c})
    BY <1>4, <1>6, Carried
  <1> QED BY <1>3, <1>4, <1>7 DEF FreeResult, Same

(* umm_realloc and the client that fills the rest of its block. *)
LEMMA ReallocDone ==
  ASSUME NEW m, NEW C, NEW F, HeapShape(m, numblocks, C, F), Apart(m, F),
         NEW U, U = Used(numblocks, C, F), Short(numblocks), NEW l, Holds(m, l, U),
         NEW c \in U, NEW ptr, ptr = UMM_DATA(c),
         NEW size \in Nat \ {0}, Countable(size),
         NEW got, got = ReallocBlocks(m, ptr, umm_blocks(size)),
         NEW z, z = (IF got.ptr = NULL THEN got.mem
                     ELSE Fill(got.mem, got.ptr, CellsOf(l[ptr].size), size, l[ptr].tag)),
         NEW k, k = (IF got.ptr = NULL THEN l
                     ELSE Hold([p \in DOMAIN l \ {ptr} |-> l[p]], got.ptr, size, l[ptr].tag))
  PROVE  ReallocResult(m, numblocks, F, U, l, c, z, k, umm_blocks(size), got.ptr)
  <1>1. PICK n, blocks : n = numblocks /\ blocks = umm_blocks(size)
    OBVIOUS
  <1>2. blocks \in Nat \ {0} /\ CellsOf(size) < 2 * blocks
    BY <1>1, BlocksSuffice
  <1>3. Reallocates(m, n, F, U, c, blocks, got)
    BY <1>1, <1>2, Reallocated
  <1>4. CASE got.ptr = NULL /\ got.mem = m /\ (\A b \in F : SizeOf(m, b) < blocks) /\ Around(m, c) < blocks
    BY <1>1, <1>4 DEF ReallocResult
  <1>5. CASE \E d \in Nat :
        /\ got.ptr = UMM_DATA(d)
        /\ Resized(m, got.mem, n, U, c, d, blocks, 2 * SizeOf(m, c) - 1)
    <2>1. PICK d \in Nat : /\ got.ptr = UMM_DATA(d)
                           /\ Resized(m, got.mem, n, U, c, d, blocks, 2 * SizeOf(m, c) - 1)
      BY <1>5
    <2>2. got.ptr # NULL
      BY <2>1, BlockOfData
    <2>3. PICK w, V : w = got.mem /\ V = (U \ {c}) \cup {d}
      OBVIOUS
    <2>4. PICK r, from : r = l[ptr] /\ from = CellsOf(l[ptr].size)
      OBVIOUS
    <2>5. HoldsAt(m, r, c)
      BY <2>4 DEF Holds
    <2>6. r.tag \in Nat /\ from \in Nat /\ from < 2 * SizeOf(m, c) /\ from = CellsOf(r.size)
          /\ \A i \in 0 .. from - 1 : m[UMM_DATA(c) + i] = DataCell(r.tag, i)
      BY <2>4, <2>5, CellsOfCounts DEF HoldsAt
    <2>7. Sane(m, n, U)
      BY <1>1, SaneFrom
    <2>8. DOMAIN l \ {ptr} = {UMM_DATA(b) : b \in U \ {c}}
      <3>1. DOMAIN l = {UMM_DATA(b) : b \in U}
        BY DEF Holds
      <3>2. \A b \in U : UMM_DATA(b) = UMM_DATA(c) => b = c
        <4>1. \A b \in U : b \in Nat
          BY <2>7, SaneFacts
        <4> QED BY <4>1 DEF UMM_DATA
      <3> QED BY <3>1, <3>2
    <2>9. PICK l0 : l0 = [p \in DOMAIN l \ {ptr} |-> l[p]]
      OBVIOUS
    <2>10. l0 = [p \in {UMM_DATA(b) : b \in U \ {c}} |-> l[p]]
      BY <2>8, <2>9
    <2>11. /\ d \notin U \ {c} /\ Sane(w, n, V) /\ Same(m, w, U \ {c}) /\ SizeOf(w, d) = blocks
           /\ \A i \in Nat : (i < 2 * SizeOf(m, c) - 1 /\ i < 2 * blocks - 1)
                               => w[UMM_DATA(d) + i] = m[UMM_DATA(c) + i]
      BY <2>1, <2>3 DEF Resized
    <2>12. V \ {d} = U \ {c} /\ d \in V
      BY <2>3, <2>11
    <2>13. Holds(w, l0, V \ {d})
      <3>1. Holds(w, l0, U \ {c})
        <4>1. U \ {c} \subseteq U
          OBVIOUS
        <4> QED BY <2>7, <2>10, <2>11, <4>1, Carried
      <3> QED BY <2>12, <3>1
    <2>14. CellsOf(size) < 2 * SizeOf(w, d)
      BY <1>2, <2>11
    <2>15. ASSUME NEW i \in 0 .. from - 1, i < CellsOf(size)
           PROVE  w[UMM_DATA(d) + i] = DataCell(r.tag, i)
      <3>1. CellsOf(size) \in Nat
        BY CellsOfCounts
      <3>2. i \in Nat /\ i < 2 * blocks - 1
        BY <1>2, <2>6, <2>15, <3>1
      <3>3. i < 2 * SizeOf(m, c) - 1
        <4>1. SizeOf(m, c) \in Nat
          BY <2>7, BesideCounted
        <4> QED BY <2>6, <4>1
      <3> QED BY <2>6, <2>11, <3>2, <3>3
    <2>16. z = Fill(w, UMM_DATA(d), from, size, r.tag) /\ k = Hold(l0, UMM_DATA(d), size, r.tag)
      BY <2>1, <2>2, <2>3, <2>4, <2>9
    <2>17. size \in Nat \ {0}
      OBVIOUS
    <2>18. PICK tag \in Nat : tag = r.tag
      BY <2>6
    <2>19. GivenTo(w, z, n, V, k)
      <3>1. z = Fill(w, UMM_DATA(d), from, size, tag) /\ k = Hold(l0, UMM_DATA(d), size, tag)
        BY <2>16, <2>18
      <3>2. \A i \in 0 .. from - 1 : i < CellsOf(size) => w[UMM_DATA(d) + i] = DataCell(tag, i)
        BY <2>15, <2>18
      <3>3. Sane(w, n, V)
        BY <2>11
      <3>4. from \in Nat /\ d \in V
        BY <2>6, <2>12
      <3> QED BY <2>13, <2>14, <2>17, <3>1, <3>2, <3>3, <3>4, Given
    <2>20. Sane(z, n, V) /\ Holds(z, k, V) /\ \A b \in V : NBLOCK(z, b) = NBLOCK(w, b)
      BY <2>19 DEF GivenTo
    <2>21. \A b \in U \ {c} : NBLOCK(z, b) = NBLOCK(m, b)
      BY <2>3, <2>11, <2>20 DEF Same
    <2>22. SizeOf(z, d) = blocks
      BY <2>11, <2>12, <2>20 DEF SizeOf
    <2> QED BY <1>1, <2>1, <2>3, <2>11, <2>20, <2>21, <2>22 DEF ReallocResult
  <1> QED BY <1>3, <1>4, <1>5 DEF Reallocates

-----------------------------------------------------------------------------
(* The calls, as actions. *)
Standing(C, F, U) ==
  /\ HeapShape(mem, numblocks, C, F) /\ Apart(mem, F) /\ U = Used(numblocks, C, F)
  /\ Holds(mem, live, U) /\ Short(numblocks)

(* A heap in order has a chain, free blocks and clients. *)
LEMMA Stands ==
  ASSUME InOrder(mem, numblocks, live), numblocks # 0
  PROVE  \E C, F, U : Standing(C, F, U)
  <1>1. Short(numblocks) /\ \E U \in SUBSET (0 .. numblocks - 1) : Sane(mem, numblocks, U) /\ Holds(mem, live, U)
    BY InOrderParts
  <1>2. PICK U : Sane(mem, numblocks, U) /\ Holds(mem, live, U)
    BY <1>1
  <1>3. PICK C, F \in SUBSET (0 .. numblocks - 1) :
           HeapShape(mem, numblocks, C, F) /\ Apart(mem, F) /\ Used(numblocks, C, F) = U
    BY <1>2 DEF Sane
  <1> QED BY <1>1, <1>2, <1>3 DEF Standing

(* What the clients' pointers are. *)
LEMMA StandingSane ==
  ASSUME NEW C, NEW F, NEW U, Standing(C, F, U)
  PROVE  /\ Sane(mem, numblocks, U) /\ Holds(mem, live, U)
         /\ \A b \in U : b \in Nat /\ UMM_DATA(b) \in DOMAIN live
         /\ \A p \in DOMAIN live : \E b \in U : p = UMM_DATA(b)
  <1>1. Sane(mem, numblocks, U) /\ Holds(mem, live, U)
    BY SaneFrom DEF Standing
  <1>2. \A b \in U : b \in Nat
    BY <1>1, SaneFacts
  <1>3. DOMAIN live = {UMM_DATA(b) : b \in U}
    BY <1>1 DEF Holds
  <1> QED BY <1>1, <1>2, <1>3

(* Min is the least element. *)
LEMMA LeastIn ==
  ASSUME NEW T, T \subseteq Nat, T # {}
  PROVE  Min(T) \in T /\ \A y \in T : Min(T) <= y
  BY LeastNatural DEF Min

(* A client that may ask for more has a tag left. *)
LEMMA TagLeft ==
  ASSUME NEW C, NEW F, NEW U, Standing(C, F, U), Cardinality(DOMAIN live) < MaxLive
  PROVE  NewTag \in Nat
  <1>1. Sane(mem, numblocks, U) /\ DOMAIN live = {UMM_DATA(b) : b \in U}
    BY StandingSane DEF Holds
  <1>2. numblocks \in Nat /\ U \subseteq 1 .. numblocks - 2
    BY <1>1, SaneFacts
  <1>3. PICK D : \E n \in Nat : D = DOMAIN live /\ n = 2 * numblocks
    BY <1>2
  <1>n. PICK n \in Nat : D = DOMAIN live /\ n = 2 * numblocks
    BY <1>3
  <1>4. D \subseteq 0 .. n
    <2>1. ASSUME NEW b \in U PROVE UMM_DATA(b) \in 0 .. n
      <3>1. b \in 1 .. numblocks - 2
        BY <1>2
      <3> QED BY <1>2, <1>n, <3>1 DEF UMM_DATA
    <2> QED BY <1>1, <1>n, <2>1
  <1>5. IsFiniteSet(D)
    <2>1. IsFiniteSet(0 .. n)
      BY FS_Interval
    <2> QED BY <1>4, <2>1, FS_Subset
  <1>6. Cardinality(D) \in Nat /\ MaxLive \in Nat
    BY <1>5, FS_CardinalityType, MaxLiveAssumption
  <1>7. PICK T : T = {live[p].tag : p \in D}
    OBVIOUS
  <1>8. IsFiniteSet(T) /\ Cardinality(T) <= Cardinality(D)
    <2>1. PICK f : f = [p \in D |-> live[p].tag]
      OBVIOUS
    <2>2. f \in Surjection(D, T)
      BY <1>7, <2>1 DEF Surjection
    <2> QED BY <1>5, <2>2, FS_Surjection
  <1>9. PICK m \in Nat : m = MaxLive + 1 /\ Cardinality(D) < m
    BY <1>n, <1>6
  <1>10. ~(1 .. m \subseteq T)
    <2> SUFFICES ASSUME 1 .. m \subseteq T PROVE FALSE
      OBVIOUS
    <2>1. Cardinality(1 .. m) = m
      <3>1. Cardinality(1 .. m) = IF 1 > m THEN 0 ELSE m - 1 + 1
        BY FS_Interval
      <3> QED BY <3>1, <1>6, <1>9
    <2>2. Cardinality(1 .. m) <= Cardinality(T)
      BY <1>8, FS_Subset
    <2>3. Cardinality(T) \in Nat
      BY <1>8, FS_CardinalityType
    <2> QED BY <1>6, <1>8, <1>9, <2>1, <2>2, <2>3
  <1>11. (1 .. m) \ T # {} /\ (1 .. m) \ T \subseteq Nat
    BY <1>10
  <1>12. NewTag = Min((1 .. m) \ T)
    BY <1>n, <1>7, <1>9 DEF NewTag
  <1>13. Min((1 .. m) \ T) \in (1 .. m) \ T
    BY <1>11, LeastIn
  <1> QED BY <1>12, <1>13

(* What a call comes to. *)
Idles ==
  /\ out'.op \in {"null", "raise"} /\ UNCHANGED <<mem, numblocks, live>>

Begins ==
  /\ out' = Outcome("init", 0, NULL, NULL) /\ numblocks' \in MinBlocks .. MaxBlocks
  /\ Sane(mem', numblocks', {}) /\ live' = None

Allots(F, U) ==
  \E blocks \in Nat \ {0} : \E ptr :
     /\ out' = Outcome("malloc", blocks, NULL, ptr)
     /\ MallocResult(mem, numblocks, F, U, live, mem', live', blocks, ptr)

Frees(U) ==
  \E c \in U :
     /\ out' = Outcome("free", 0, UMM_DATA(c), NULL)
     /\ FreeResult(mem, numblocks, U, c, mem', live')

Resizes(F, U) ==
  \E c \in U : \E blocks \in Nat \ {0} : \E ptr :
     /\ out' = Outcome("realloc", blocks, UMM_DATA(c), ptr)
     /\ ReallocResult(mem, numblocks, F, U, live, c, mem', live', blocks, ptr)

Serves ==
  /\ numblocks' = numblocks /\ numblocks \in MinBlocks .. MaxBlocks
  /\ \E C, F, U : Standing(C, F, U) /\ (Allots(F, U) \/ Frees(U) \/ Resizes(F, U))

(* umm_init_x lays out a heap or raises an exception. *)
LEMMA InitDoes ==
  ASSUME NEW size \in Nat, umm_init_x(size)
  PROVE  Idles \/ Begins
  <1>1. PICK h : h = HeapBytes(size)
    OBVIOUS
  <1>2. CASE h < MinBlocks * Block
    <2>1. out' = Outcome("raise", 0, NULL, NULL) /\ UNCHANGED <<mem, numblocks, live>>
      BY <1>1, <1>2 DEF umm_init_x
    <2> QED BY <2>1 DEF Idles, Outcome
  <1>3. CASE ~(h < MinBlocks * Block)
    <2>1. PICK n : n = h \div Block
      OBVIOUS
    <2>2. /\ numblocks' = n
          /\ mem' = [x \in 0 .. 2 * n - 1 |->
                       CASE x = 0 -> [next |-> 1, prev |-> 0, free |-> FALSE]
                         [] x = 1 -> [next |-> 1, prev |-> 1, free |-> FALSE]
                         [] x = 2 -> [next |-> n - 1, prev |-> 0, free |-> TRUE]
                         [] x = 2 * (n - 1) -> [next |-> 0, prev |-> 1, free |-> FALSE]
                         [] OTHER -> Zero]
          /\ live' = None
          /\ out' = Outcome("init", 0, NULL, NULL)
      BY <1>1, <1>3, <2>1 DEF umm_init_x
    <2>3. h \in Nat /\ h <= MaxBlocks * Block
      <3>1. PICK a \in Nat : a = (size \div 8) * 8
        OBVIOUS
      <3>2. PICK b \in Nat : b = MaxBlocks * Block
        BY MinBlocksAssumption, MaxBlocksAssumption DEF Block, Header, Body
      <3>3. h = Min({a, b})
        BY <1>1, <3>1, <3>2 DEF HeapBytes
      <3>4. {a, b} \subseteq Nat /\ {a, b} # {}
        OBVIOUS
      <3>5. Min({a, b}) \in {a, b} /\ \A y \in {a, b} : Min({a, b}) <= y
        BY <3>4, LeastIn
      <3> QED BY <3>2, <3>3, <3>5
    <2>4. n \in MinBlocks .. MaxBlocks
      <3>1. MinBlocks \in Nat /\ MaxBlocks \in Nat
        BY MinBlocksAssumption, MaxBlocksAssumption
      <3>2. n = h \div 24 /\ h <= MaxBlocks * 24 /\ ~(h < MinBlocks * 24)
        BY <1>3, <2>1, <2>3 DEF Block, Header, Body
      <3> QED BY <2>3, <3>1, <3>2
    <2>5. n \in Nat /\ n >= 3
      BY <2>4, MinBlocksAssumption
    <2>6. PICK m : m = mem'
      OBVIOUS
    <2>7. Sane(m, n, {})
      BY <2>2, <2>5, <2>6, Fresh
    <2> QED BY <2>2, <2>4, <2>6, <2>7 DEF Begins
  <1> QED BY <1>2, <1>3

(* umm_malloc as an action. *)
LEMMA MallocDoes ==
  ASSUME NEW C, NEW F, NEW U, Standing(C, F, U), numblocks \in MinBlocks .. MaxBlocks,
         NEW size \in Nat \ {0}, Countable(size), NEW tag \in Nat, Malloc(size, tag)
  PROVE  Serves
  <1>1. PICK got : /\ got = MallocBlocks(mem, umm_blocks(size))
                   /\ mem' = (IF got.ptr = NULL THEN got.mem ELSE Fill(got.mem, got.ptr, 0, size, tag))
                   /\ live' = (IF got.ptr = NULL THEN live ELSE Hold(live, got.ptr, size, tag))
                   /\ out' = Outcome("malloc", umm_blocks(size), NULL, got.ptr)
    BY DEF Malloc
  <1>2. numblocks' = numblocks
    BY DEF Malloc
  <1>3. PICK m, l, z, k : m = mem /\ l = live /\ z = mem' /\ k = live'
    OBVIOUS
  <1>4. /\ HeapShape(m, numblocks, C, F) /\ Apart(m, F) /\ U = Used(numblocks, C, F)
        /\ Holds(m, l, U) /\ Short(numblocks)
    BY <1>3 DEF Standing
  <1>5. /\ got = MallocBlocks(m, umm_blocks(size))
        /\ z = (IF got.ptr = NULL THEN got.mem ELSE Fill(got.mem, got.ptr, 0, size, tag))
        /\ k = (IF got.ptr = NULL THEN l ELSE Hold(l, got.ptr, size, tag))
    BY <1>1, <1>3
  <1>6. MallocResult(m, numblocks, F, U, l, z, k, umm_blocks(size), got.ptr)
    BY <1>4, <1>5, MallocDone
  <1>7. MallocResult(mem, numblocks, F, U, live, mem', live', umm_blocks(size), got.ptr)
    BY <1>3, <1>6
  <1>8. umm_blocks(size) \in Nat \ {0}
    BY BlocksSuffice
  <1>9. Allots(F, U)
    BY <1>1, <1>7, <1>8 DEF Allots
  <1> QED BY <1>2, <1>9 DEF Serves

(* umm_free as an action. *)
LEMMA FreeDoes ==
  ASSUME NEW C, NEW F, NEW U, Standing(C, F, U), numblocks \in MinBlocks .. MaxBlocks,
         NEW ptr \in DOMAIN live, umm_free(ptr)
  PROVE  Serves
  <1>1. PICK c \in U : ptr = UMM_DATA(c)
    BY StandingSane
  <1>2. c \in Nat /\ Sane(mem, numblocks, U) /\ Holds(mem, live, U)
    BY StandingSane
  <1>3. ptr # NULL /\ BlockOf(ptr) = c
    BY <1>1, <1>2, BlockOfData
  <1>4. /\ mem' = FreeBlock(Scrub(mem, ptr, 2 * SizeOf(mem, c) - 1), c)
        /\ live' = [p \in DOMAIN live \ {ptr} |-> live[p]]
        /\ out' = Outcome("free", 0, ptr, NULL)
        /\ numblocks' = numblocks
    BY <1>3 DEF umm_free, Keep
  <1>5. PICK m, l, z, k : m = mem /\ l = live /\ z = mem' /\ k = live'
    OBVIOUS
  <1>6. /\ Sane(m, numblocks, U) /\ Holds(m, l, U)
        /\ z = FreeBlock(Scrub(m, UMM_DATA(c), 2 * SizeOf(m, c) - 1), c)
        /\ k = [p \in DOMAIN l \ {UMM_DATA(c)} |-> l[p]]
    BY <1>1, <1>2, <1>4, <1>5
  <1>7. FreeResult(m, numblocks, U, c, z, k)
    BY <1>6, FreeDone
  <1>8. FreeResult(mem, numblocks, U, c, mem', live')
    BY <1>5, <1>7
  <1>9. Frees(U)
    BY <1>1, <1>4, <1>8 DEF Frees
  <1> QED BY <1>4, <1>9 DEF Serves

(* umm_realloc as an action. *)
LEMMA ReallocDoes ==
  ASSUME NEW C, NEW F, NEW U, Standing(C, F, U), numblocks \in MinBlocks .. MaxBlocks,
         NEW size \in Nat \ {0}, Countable(size), NEW ptr \in DOMAIN live, umm_realloc(ptr, size)
  PROVE  Serves
  <1>1. PICK c \in U : ptr = UMM_DATA(c)
    BY StandingSane
  <1>2. c \in Nat
    BY StandingSane
  <1>3. ptr # NULL
    BY <1>1, <1>2, BlockOfData
  <1>4. PICK got :
           /\ got = ReallocBlocks(mem, ptr, umm_blocks(size))
           /\ mem' = (IF got.ptr = NULL THEN got.mem
                      ELSE Fill(got.mem, got.ptr, CellsOf(live[ptr].size), size, live[ptr].tag))
           /\ live' = (IF got.ptr = NULL THEN live
                       ELSE Hold([p \in DOMAIN live \ {ptr} |-> live[p]], got.ptr, size, live[ptr].tag))
           /\ out' = Outcome("realloc", umm_blocks(size), ptr, got.ptr)
    BY <1>3 DEF umm_realloc, Keep
  <1>5. numblocks' = numblocks
    BY <1>3 DEF umm_realloc
  <1>6. PICK m, l, z, k : m = mem /\ l = live /\ z = mem' /\ k = live'
    OBVIOUS
  <1>7. /\ HeapShape(m, numblocks, C, F) /\ Apart(m, F) /\ U = Used(numblocks, C, F)
        /\ Holds(m, l, U) /\ Short(numblocks)
    BY <1>6 DEF Standing
  <1>8. /\ got = ReallocBlocks(m, ptr, umm_blocks(size))
        /\ z = (IF got.ptr = NULL THEN got.mem
                ELSE Fill(got.mem, got.ptr, CellsOf(l[ptr].size), size, l[ptr].tag))
        /\ k = (IF got.ptr = NULL THEN l
                ELSE Hold([p \in DOMAIN l \ {ptr} |-> l[p]], got.ptr, size, l[ptr].tag))
    BY <1>4, <1>6
  <1>9. ReallocResult(m, numblocks, F, U, l, c, z, k, umm_blocks(size), got.ptr)
    BY <1>1, <1>7, <1>8, ReallocDone
  <1>10. ReallocResult(mem, numblocks, F, U, live, c, mem', live', umm_blocks(size), got.ptr)
    BY <1>6, <1>9
  <1>11. umm_blocks(size) \in Nat \ {0}
    BY BlocksSuffice
  <1>12. Resizes(F, U)
    BY <1>1, <1>4, <1>10, <1>11 DEF Resizes
  <1> QED BY <1>5, <1>12 DEF Serves

(* Without a heap a request asks for one, of no bytes. *)
LEMMA CallDoes ==
  ASSUME InOrder(mem, numblocks, live), NEW size \in Nat, Countable(size), NEW tag,
         numblocks # 0 /\ Cardinality(DOMAIN live) < MaxLive => tag \in Nat, Call(size, tag)
  PROVE  Idles \/ Begins \/ Serves
  <1>1. CASE numblocks = 0
    <2>1. umm_init_x(0) /\ 0 \in Nat
      BY <1>1 DEF Call
    <2> QED BY <2>1, InitDoes
  <1>2. CASE numblocks # 0 /\ size = 0
    <2>1. Void
      BY <1>2 DEF Call
    <2> QED BY <2>1 DEF Void, Outcome, Idles
  <1>3. CASE numblocks # 0 /\ size # 0
    <2>1. Malloc(size, tag)
      BY <1>3 DEF Call
    <2>2. PICK C, F, U : Standing(C, F, U)
      BY <1>3, Stands
    <2>3. numblocks \in MinBlocks .. MaxBlocks
      BY <1>3, InOrderParts
    <2>4. size \in Nat \ {0} /\ tag \in Nat
      BY <1>3, <2>1 DEF Malloc
    <2> QED BY <2>1, <2>2, <2>3, <2>4, MallocDoes
  <1> QED BY <1>1, <1>2, <1>3

(* The tag of a new allocation. *)
LEMMA NewTagNatural ==
  ASSUME InOrder(mem, numblocks, live), numblocks # 0, Cardinality(DOMAIN live) < MaxLive
  PROVE  NewTag \in Nat
  BY Stands, TagLeft

(* umm_malloc, with or without a heap. *)
LEMMA MallocCalled ==
  ASSUME ModestRequests, InOrder(mem, numblocks, live), NEW size \in Sizes, umm_malloc(size)
  PROVE  Idles \/ Begins \/ Serves
  <1>1. size \in Nat /\ Countable(size)
    BY SizesAssumption DEF ModestRequests
  <1>2. Call(size, NewTag)
    BY DEF umm_malloc
  <1> QED BY <1>1, <1>2, NewTagNatural, CallDoes

(* umm_free, of a block or of the null pointer. *)
LEMMA FreeCalled ==
  ASSUME InOrder(mem, numblocks, live), NEW ptr \in DOMAIN live \cup {NULL}, umm_free(ptr)
  PROVE  Idles \/ Begins \/ Serves
  <1>1. CASE ptr = NULL
    <2>1. Void
      BY <1>1 DEF umm_free
    <2> QED BY <2>1 DEF Void, Outcome, Idles
  <1>2. CASE ptr # NULL
    <2>1. ptr \in DOMAIN live /\ numblocks # 0
      BY <1>2, MinBlocksAssumption DEF InOrder, None
    <2>2. PICK C, F, U : Standing(C, F, U)
      BY <2>1, Stands
    <2>3. numblocks \in MinBlocks .. MaxBlocks
      BY <2>1, InOrderParts
    <2> QED BY <2>1, <2>2, <2>3, FreeDoes
  <1> QED BY <1>1, <1>2

(* Every step is one of these. *)
LEMMA NextDoes ==
  ASSUME ModestRequests, InOrder(mem, numblocks, live), Next
  PROVE  Idles \/ Begins \/ Serves
  <1>1. CASE \E size \in HeapSizes : umm_init_x(size)
    BY <1>1, SizesAssumption, InitDoes
  <1>2. CASE \E size \in Sizes : umm_malloc(size)
    BY <1>2, MallocCalled
  <1>3. CASE \E num \in {2}, size \in Sizes : umm_calloc(num, size)
    <2>1. PICK size \in Sizes : Call(2 * size, 0)
      BY <1>3 DEF umm_calloc
    <2>2. PICK z : z = 2 * size
      OBVIOUS
    <2>3. z \in Nat /\ Countable(z)
      BY <2>2, SizesAssumption DEF ModestRequests
    <2>4. Call(z, 0)
      BY <2>1, <2>2
    <2> QED BY <2>3, <2>4, CallDoes
  <1>4. CASE \E ptr \in DOMAIN live \cup {NULL} : umm_free(ptr)
    BY <1>4, FreeCalled
  <1>5. CASE \E ptr \in DOMAIN live \cup {NULL}, size \in Sizes : umm_realloc(ptr, size)
    <2>1. PICK ptr \in DOMAIN live \cup {NULL}, size \in Sizes : umm_realloc(ptr, size)
      BY <1>5
    <2>2. size \in Nat /\ Countable(size)
      BY SizesAssumption DEF ModestRequests
    <2>3. CASE ptr = NULL
      <3>1. umm_malloc(size)
        BY <2>1, <2>3 DEF umm_realloc
      <3> QED BY <3>1, MallocCalled
    <2>4. CASE ptr # NULL /\ size = 0
      <3>1. umm_free(ptr)
        BY <2>1, <2>4 DEF umm_realloc
      <3> QED BY <3>1, FreeCalled
    <2>5. CASE ptr # NULL /\ size # 0
      <3>1. ptr \in DOMAIN live /\ numblocks # 0
        BY <2>5, MinBlocksAssumption DEF InOrder, None
      <3>2. PICK C, F, U : Standing(C, F, U)
        BY <3>1, Stands
      <3>3. numblocks \in MinBlocks .. MaxBlocks
        BY <3>1, InOrderParts
      <3>4. size \in Nat \ {0}
        BY <2>2, <2>5
      <3> QED BY <2>1, <2>2, <3>1, <3>2, <3>3, <3>4, ReallocDoes
    <2> QED BY <2>3, <2>4, <2>5
  <1> QED BY <1>1, <1>2, <1>3, <1>4, <1>5 DEF Next

(* None of them breaks the order. *)
LEMMA OrderKept ==
  ASSUME InOrder(mem, numblocks, live), Idles \/ Begins \/ Serves
  PROVE  InOrder(mem', numblocks', live')
  <1>1. CASE Idles
    <2>1. mem' = mem /\ numblocks' = numblocks /\ live' = live
      BY <1>1 DEF Idles
    <2> QED BY <2>1
  <1>2. CASE Begins
    <2>1. Sane(mem', numblocks', {}) /\ live' = None /\ numblocks' \in MinBlocks .. MaxBlocks
      BY <1>2 DEF Begins
    <2>2. Holds(mem', live', {})
      BY <2>1 DEF Holds, None
    <2> QED BY <2>1, <2>2, InOrderFrom
  <1>3. CASE Serves
    <2>1. numblocks' = numblocks /\ numblocks \in MinBlocks .. MaxBlocks
      BY <1>3 DEF Serves
    <2>2. PICK C, F, U : Standing(C, F, U) /\ (Allots(F, U) \/ Frees(U) \/ Resizes(F, U))
      BY <1>3 DEF Serves
    <2>3. Sane(mem, numblocks, U) /\ Holds(mem, live, U)
      BY <2>2, StandingSane
    <2>4. \E V : Sane(mem', numblocks, V) /\ Holds(mem', live', V)
      <3>1. CASE Allots(F, U)
        <4>1. PICK blocks, ptr : MallocResult(mem, numblocks, F, U, live, mem', live', blocks, ptr)
          BY <3>1 DEF Allots
        <4> QED BY <2>3, <4>1 DEF MallocResult
      <3>2. CASE Frees(U)
        BY <3>2 DEF Frees, FreeResult
      <3>3. CASE Resizes(F, U)
        <4>1. PICK c, blocks, ptr : ReallocResult(mem, numblocks, F, U, live, c, mem', live', blocks, ptr)
          BY <3>3 DEF Resizes
        <4> QED BY <2>3, <4>1 DEF ReallocResult
      <3> QED BY <2>2, <3>1, <3>2, <3>3
    <2> QED BY <2>1, <2>4, InOrderFrom
  <1> QED BY <1>1, <1>2, <1>3

-----------------------------------------------------------------------------
(* The heap stays in order through any sequence of umm_init_x, umm_malloc, *)
(* umm_calloc, umm_free and umm_realloc, as long as no request is so large *)
(* that its number of blocks is cut to 16 bits.                            *)
LEMMA Ordered == ModestRequests /\ Spec => []InOrder(mem, numblocks, live)
  <1> DEFINE I == InOrder(mem, numblocks, live)
  <1> SUFFICES ASSUME ModestRequests PROVE Spec => []I
    OBVIOUS
  <1>1. Init => I
    BY DEF Init, InOrder
  <1>2. I /\ [Next]_vars => I'
    <2> SUFFICES ASSUME I, [Next]_vars PROVE InOrder(mem', numblocks', live')
      BY DEF InOrder
    <2>1. CASE Next
      BY <2>1, NextDoes, OrderKept
    <2>2. CASE UNCHANGED vars
      <3>1. mem' = mem /\ numblocks' = numblocks /\ live' = live
        BY <2>2 DEF vars
      <3> QED BY <3>1
    <2> QED BY <2>1, <2>2
  <1> HIDE DEF I
  <1> QED BY <1>1, <1>2, PTL DEF Spec

(* The invariant holds in every state: headers that lead from the first    *)
(* block to the last and back, a free list that is one ring over exactly   *)
(* the free blocks, no two of them side by side, and clients whose blocks  *)
(* are large enough and hold their data.                                   *)
THEOREM HeapInvariant == ModestRequests /\ Spec => []HeapIInv
  BY Ordered, IInvFromOrder, PTL

(* No call loses a block, leaves two free blocks side by side or breaks the *)
(* free list of umm_malloc.c.                                              *)
THEOREM WellFormed == ModestRequests /\ Spec => []HeapWellFormed
  BY HeapInvariant, WellFormedFromIInv, PTL

(* What a client put into its block stays there until it gives the block   *)
(* back, through the moves of umm_realloc too.                             *)
THEOREM DataSafe == ModestRequests /\ Spec => []DataKept
  <1>1. HeapIInv => DataKept
    <2>1. CASE numblocks = 0 /\ live = None
      BY <2>1 DEF DataKept, None
    <2> QED BY <2>1 DEF HeapIInv
  <1> QED BY <1>1, HeapInvariant, PTL

-----------------------------------------------------------------------------
(* The abstract heap.  Its free runs are what the blocks of a set S cover. *)
Covers(m, S, x) == \E b \in S : b <= x /\ x < NBLOCK(m, b)

(* Every cell number between the first and the last block lies in a block. *)
LEMMA Tiled ==
  ASSUME NEW m, NEW n, NEW C, NEW F, HeapShape(m, n, C, F), NEW x \in 1 .. n - 2
  PROVE  \E b \in C \ {0, n - 1} : b <= x /\ x < NBLOCK(m, b)
  <1>1. n \in Nat /\ n >= 3 /\ C \subseteq 0 .. n - 1 /\ 1 \in C /\ n - 1 \in C
    BY ShapeParts
  <1> DEFINE T == {c \in C : c <= x}
  <1>2. PICK b \in T : \A c \in T : c <= b
    <2>0. 1 <= x /\ 1 \in T
      BY <1>1
    <2>1. T \subseteq C
      OBVIOUS
    <2> HIDE DEF T
    <2>2. T \subseteq 0 .. n - 1 /\ T # {} /\ n - 1 \in Nat
      BY <1>1, <2>0, <2>1
    <2> QED BY <2>2, GreatestNatural
  <1>3. b \in C /\ b <= x /\ b # n - 1 /\ b >= 1
    BY <1>1, <1>2
  <1>4. NBLOCK(m, b) \in C /\ NBLOCK(m, b) \in 1 .. n - 1 /\ NBLOCK(m, b) > b
    BY <1>3, ChainFacts
  <1>5. NBLOCK(m, b) \notin T
    BY <1>1, <1>2, <1>3, <1>4
  <1> QED BY <1>1, <1>3, <1>4, <1>5

(* No two blocks overlap. *)
LEMMA Alone ==
  ASSUME NEW m, NEW n, NEW C, NEW F, HeapShape(m, n, C, F), NEW b \in C \ {n - 1}, NEW d \in C \ {n - 1},
         NEW x \in Int, b <= x, x < NBLOCK(m, b), d <= x, x < NBLOCK(m, d)
  PROVE  b = d
  <1>1. b \in 0 .. n - 1 /\ n \in Nat /\ NBLOCK(m, b) \in 1 .. n - 1 /\ (d <= b \/ d >= NBLOCK(m, b))
    BY ChainFacts
  <1>2. d \in 0 .. n - 1 /\ NBLOCK(m, d) \in 1 .. n - 1 /\ (b <= d \/ b >= NBLOCK(m, d))
    BY ChainFacts
  <1>3. PICK y, z \in Int : y = NBLOCK(m, b) /\ z = NBLOCK(m, d)
    BY <1>1, <1>2
  <1>4. b \in Int /\ d \in Int /\ (d <= b \/ d >= y) /\ (b <= d \/ b >= z) /\ x < y /\ x < z
    BY <1>1, <1>2, <1>3
  <1> QED BY <1>4

(* What allocations of V leave open is what the other blocks cover. *)
LEMMA OpenCells ==
  ASSUME NEW m, NEW C, NEW F, HeapShape(m, numblocks, C, F), NEW U, U = Used(numblocks, C, F),
         NEW V, V \subseteq U, NEW o, o = [b \in V |-> SizeOf(m, b)], NEW x \in Int
  PROVE  x \in (1 .. numblocks - 1 - 1) \ Heap!Taken(o) <=> Covers(m, F \cup (U \ V), x)
  <1>1. PICK n \in Nat : n = numblocks /\ n >= 3
    BY ShapeParts
  <1>2. /\ HeapShape(m, n, C, F) /\ U = C \ (F \cup {0, n - 1}) /\ F \subseteq C \ {0, n - 1}
        /\ C \subseteq 0 .. n - 1
    BY <1>1, ShapeParts DEF Used
  <1>3. ASSUME NEW b \in V
        PROVE  /\ b \in C \ {n - 1} /\ b \in Nat /\ NBLOCK(m, b) \in Nat
               /\ (x \in b .. b + o[b] - 1 <=> b <= x /\ x < NBLOCK(m, b))
    <2>1. b \in C \ {n - 1}
      BY <1>2
    <2>2. PICK y \in Nat : y = NBLOCK(m, b)
      BY <1>2, <2>1, ChainFacts
    <2>3. b \in Nat
      BY <1>2, <2>1
    <2>4. o[b] = y - b
      BY <2>2 DEF SizeOf
    <2> QED BY <2>1, <2>2, <2>3, <2>4
  <1>4. x \in Heap!Taken(o) <=> \E b \in V : x \in b .. b + o[b] - 1
    <2>1. DOMAIN o = V
      OBVIOUS
    <2> QED BY <2>1 DEF Heap!Taken
  <1>5. ASSUME x \in 1 .. n - 2, x \notin Heap!Taken(o)
        PROVE  Covers(m, F \cup (U \ V), x)
    <2>1. PICK b \in C \ {0, n - 1} : b <= x /\ x < NBLOCK(m, b)
      BY <1>2, <1>5, Tiled
    <2>2. b \notin V
      BY <1>3, <1>4, <1>5, <2>1
    <2>3. b \in F \cup (U \ V)
      BY <1>2, <2>2
    <2> QED BY <2>1, <2>3 DEF Covers
  <1>6. ASSUME NEW b \in F \cup (U \ V), b <= x, x < NBLOCK(m, b)
        PROVE  x \in 1 .. n - 2 /\ x \notin Heap!Taken(o)
    <2>1. b \in C \ {0, n - 1} /\ b \in C \ {n - 1}
      BY <1>2
    <2>2. NBLOCK(m, b) \in 1 .. n - 1 /\ b \in 0 .. n - 1 /\ b # 0
      BY <1>2, <2>1, ChainFacts
    <2>3. x \in 1 .. n - 2
      <3>1. PICK y \in 1 .. n - 1 : y = NBLOCK(m, b)
        BY <2>2
      <3> QED BY <1>1, <1>6, <2>2, <3>1
    <2>4. ASSUME NEW d \in V, d <= x, x < NBLOCK(m, d) PROVE FALSE
      <3>1. d \in C \ {n - 1}
        BY <1>3
      <3>2. HeapShape(m, n, C, F) /\ b <= x /\ x < NBLOCK(m, b)
        BY <1>2, <1>6
      <3>3. b = d
        BY <2>1, <2>4, <3>1, <3>2, Alone
      <3> QED BY <1>2, <3>3
    <2> QED BY <1>3, <1>4, <2>3, <2>4
  <1>7. 1 .. numblocks - 1 - 1 = 1 .. n - 2
    BY <1>1
  <1>8. Covers(m, F \cup (U \ V), x) => x \in 1 .. n - 2 /\ x \notin Heap!Taken(o)
    BY <1>6 DEF Covers
  <1> QED BY <1>5, <1>7, <1>8

(* A run fits where such blocks cover it. *)
LEMMA FitsCovered ==
  ASSUME NEW m, NEW C, NEW F, HeapShape(m, numblocks, C, F), NEW U, U = Used(numblocks, C, F),
         NEW V, V \subseteq U, NEW o, o = [b \in V |-> SizeOf(m, b)], NEW s \in Int, NEW k \in Int
  PROVE  Heap!Fits(o, s, k) <=> \A x \in s .. s + k - 1 : Covers(m, F \cup (U \ V), x)
  <1>1. \A x \in s .. s + k - 1 : x \in Int
    OBVIOUS
  <1>2. ASSUME NEW x \in s .. s + k - 1
        PROVE  x \in (1 .. numblocks - 1 - 1) \ Heap!Taken(o) <=> Covers(m, F \cup (U \ V), x)
    BY <1>1, OpenCells
  <1> QED BY <1>2 DEF Heap!Fits

(* A block of F and the two cells beside it. *)
LEMMA FreeRun ==
  ASSUME NEW m, NEW n, NEW C, NEW F, HeapShape(m, n, C, F), Apart(m, F), NEW b \in F
  PROVE  /\ b \in 1 .. n - 2 /\ NBLOCK(m, b) \in 2 .. n - 1 /\ SizeOf(m, b) \in 1 .. n - 1
         /\ SizeOf(m, b) = NBLOCK(m, b) - b /\ b < NBLOCK(m, b)
         /\ \A x \in b .. NBLOCK(m, b) - 1 : Covers(m, F, x)
         /\ ~Covers(m, F, NBLOCK(m, b)) /\ ~Covers(m, F, b - 1)
  <1>1. n \in Nat /\ n >= 3 /\ F \subseteq C \ {0, n - 1} /\ C \subseteq 0 .. n - 1 /\ 0 \in C /\ 1 \in C
    BY ShapeParts
  <1>2. b \in C /\ b # 0 /\ b # n - 1 /\ b \in 1 .. n - 2
    BY <1>1
  <1>3. PICK e \in 1 .. n - 1 : e = NBLOCK(m, b) /\ e > b /\ e \in C
    BY <1>2, ChainFacts
  <1>4. \A x \in b .. e - 1 : Covers(m, F, x)
    BY <1>2, <1>3 DEF Covers
  <1>5. e \notin F
    BY <1>3 DEF Apart
  <1>6. ~Covers(m, F, e)
    <2> SUFFICES ASSUME NEW d \in F, d <= e, e < NBLOCK(m, d) PROVE FALSE
      BY DEF Covers
    <2>1. d \in C \ {n - 1} /\ d \in C /\ d # n - 1 /\ d \in Nat
      BY <1>1
    <2>2. e <= d \/ e >= NBLOCK(m, d)
      BY <1>3, <2>1, ChainFacts
    <2>3. NBLOCK(m, d) \in 1 .. n - 1
      BY <2>1, ChainFacts
    <2>4. e = d
      BY <1>3, <2>1, <2>2, <2>3
    <2> QED BY <1>5, <2>4
  <1>7. ~Covers(m, F, b - 1)
    <2> SUFFICES ASSUME NEW d \in F, d <= b - 1, b - 1 < NBLOCK(m, d) PROVE FALSE
      BY DEF Covers
    <2>1. d \in C /\ d # n - 1 /\ d \in Nat
      BY <1>1
    <2>2. b <= d \/ b >= NBLOCK(m, d)
      BY <1>2, <2>1, ChainFacts
    <2>3. PICK y \in 1 .. n - 1 : y = NBLOCK(m, d)
      BY <2>1, ChainFacts
    <2>4. b = y
      BY <1>2, <2>1, <2>2, <2>3
    <2> QED BY <2>3, <2>4 DEF Apart
  <1>8. SizeOf(m, b) = e - b
    BY <1>3 DEF SizeOf
  <1>9. e - b \in 1 .. n - 1 /\ e \in 2 .. n - 1
    BY <1>1, <1>2, <1>3
  <1> QED BY <1>2, <1>3, <1>4, <1>6, <1>7, <1>8, <1>9

(* With every allocation counted, a run fits inside the free blocks. *)
LEMMA FitsFree ==
  ASSUME NEW m, NEW C, NEW F, HeapShape(m, numblocks, C, F), NEW U, U = Used(numblocks, C, F),
         NEW o, o = [b \in U |-> SizeOf(m, b)], NEW s \in Int, NEW k \in Int
  PROVE  Heap!Fits(o, s, k) <=> \A x \in s .. s + k - 1 : Covers(m, F, x)
  <1>1. PICK R : R = F \cup (U \ U)
    OBVIOUS
  <1>2. R = F
    BY <1>1
  <1>3. U \subseteq U
    OBVIOUS
  <1>4. Heap!Fits(o, s, k) <=> \A x \in s .. s + k - 1 : Covers(m, R, x)
    BY <1>1, <1>3, FitsCovered
  <1> QED BY <1>2, <1>4

(* A free block is a gap of the abstract heap. *)
LEMMA FreeIsGap ==
  ASSUME NEW m, NEW C, NEW F, HeapShape(m, numblocks, C, F), Apart(m, F), NEW U, U = Used(numblocks, C, F),
         NEW o, o = [b \in U |-> SizeOf(m, b)], NEW b \in F
  PROVE  <<b, SizeOf(m, b)>> \in Heap!Gaps(o)
  <1>1. PICK n \in Nat : n = numblocks
    BY ShapeParts
  <1>2. PICK e, k \in Int : e = NBLOCK(m, b) /\ k = SizeOf(m, b)
    BY <1>1, FreeRun
  <1>3. /\ b \in 1 .. n - 2 /\ e \in 2 .. n - 1 /\ k \in 1 .. n - 1 /\ k = e - b
        /\ \A x \in b .. e - 1 : Covers(m, F, x)
        /\ ~Covers(m, F, e) /\ ~Covers(m, F, b - 1)
    BY <1>1, <1>2, FreeRun
  <1>4. Heap!Fits(o, b, k)
    <2>1. b + k - 1 = e - 1 /\ b \in Int
      BY <1>3
    <2> QED BY <1>3, <2>1, FitsFree
  <1>5. ~Heap!Fits(o, b, k + 1)
    <2>1. e \in b .. b + (k + 1) - 1 /\ b \in Int /\ k + 1 \in Int
      BY <1>3
    <2> QED BY <1>3, <2>1, FitsFree
  <1>6. ~Heap!Fits(o, b - 1, k + 1)
    <2>1. b - 1 \in b - 1 .. b - 1 + (k + 1) - 1 /\ b - 1 \in Int /\ k + 1 \in Int
      BY <1>3
    <2> QED BY <1>3, <2>1, FitsFree
  <1>7. <<b, k>> \in (1 .. numblocks - 1 - 1) \X (1 .. numblocks - 1)
    BY <1>1, <1>3
  <1> QED BY <1>2, <1>4, <1>5, <1>6, <1>7 DEF Heap!Gaps

(* A gap of the abstract heap is a free block. *)
LEMMA GapIsFree ==
  ASSUME NEW m, NEW C, NEW F, HeapShape(m, numblocks, C, F), Apart(m, F), NEW U, U = Used(numblocks, C, F),
         NEW o, o = [b \in U |-> SizeOf(m, b)], NEW g \in Heap!Gaps(o)
  PROVE  g[1] \in F /\ g[2] = SizeOf(m, g[1])
  <1>1. PICK s, k : s = g[1] /\ k = g[2]
    OBVIOUS
  <1>2. /\ s \in 1 .. numblocks - 1 - 1 /\ k \in 1 .. numblocks - 1
        /\ Heap!Fits(o, s, k) /\ ~Heap!Fits(o, s, k + 1) /\ ~Heap!Fits(o, s - 1, k + 1)
    BY <1>1 DEF Heap!Gaps
  <1>3. s \in Int /\ k \in Int /\ s - 1 \in Int /\ k + 1 \in Int /\ k >= 1
    BY <1>2
  <1>4. \A x \in s .. s + k - 1 : Covers(m, F, x)
    BY <1>2, <1>3, FitsFree
  <1>5. PICK b \in F : b <= s /\ s < NBLOCK(m, b)
    <2>1. s \in s .. s + k - 1
      BY <1>3
    <2> QED BY <1>4, <2>1 DEF Covers
  <1>6. PICK e \in Int : /\ e = NBLOCK(m, b) /\ b \in Int /\ b < e /\ SizeOf(m, b) = e - b
                         /\ \A x \in b .. e - 1 : Covers(m, F, x)
                         /\ ~Covers(m, F, e)
    <2>1. NBLOCK(m, b) \in Int /\ b \in Int
      BY FreeRun
    <2> QED BY <2>1, FreeRun
  <1>7. s = b
    <2> SUFFICES ASSUME b < s PROVE FALSE
      BY <1>3, <1>5, <1>6
    <2>1. Covers(m, F, s - 1)
      <3>1. s - 1 \in b .. e - 1
        BY <1>3, <1>5, <1>6
      <3> QED BY <1>6, <3>1
    <2>2. ASSUME NEW x \in s - 1 .. s - 1 + (k + 1) - 1 PROVE Covers(m, F, x)
      <3>1. x = s - 1 \/ x \in s .. s + k - 1
        BY <1>3
      <3> QED BY <1>4, <2>1, <3>1
    <2> QED BY <1>2, <1>3, <2>2, FitsFree
  <1>8. ~(k < e - b)
    <2> SUFFICES ASSUME k < e - b PROVE FALSE
      OBVIOUS
    <2>1. ASSUME NEW x \in s .. s + (k + 1) - 1 PROVE Covers(m, F, x)
      <3>1. x \in b .. e - 1
        BY <1>3, <1>6, <1>7
      <3> QED BY <1>6, <3>1
    <2> QED BY <1>2, <1>3, <2>1, FitsFree
  <1>9. ~(k > e - b)
    <2> SUFFICES ASSUME k > e - b PROVE FALSE
      OBVIOUS
    <2>1. e \in s .. s + k - 1
      BY <1>3, <1>6, <1>7
    <2> QED BY <1>4, <1>6, <2>1
  <1>10. k = e - b
    BY <1>3, <1>6, <1>8, <1>9
  <1> QED BY <1>1, <1>6, <1>7, <1>10

(* The best fits of the abstract heap are those of the free list. *)
LEMMA BestFitFree ==
  ASSUME NEW m, NEW C, NEW F, HeapShape(m, numblocks, C, F), Apart(m, F), NEW U, U = Used(numblocks, C, F),
         NEW o, o = [b \in U |-> SizeOf(m, b)], NEW blocks, NEW x
  PROVE  x \in Heap!BestFit(o, blocks) <=> BestIn(m, F, x, blocks)
  <1>1. PICK T : T = Heap!Gaps(o)
    OBVIOUS
  <1>2. \A g \in T : g[1] \in F /\ g[2] = SizeOf(m, g[1])
    BY <1>1, GapIsFree
  <1>3. \A b \in F : <<b, SizeOf(m, b)>> \in T
    BY <1>1, FreeIsGap
  <1>4. x \in Heap!BestFit(o, blocks)
          <=> \E g \in T : g[2] >= blocks /\ (\A e \in T : e[2] >= blocks => g[2] <= e[2]) /\ x = g[1]
    BY <1>1 DEF Heap!BestFit
  <1>5. ASSUME NEW g \in T, g[2] >= blocks, \A e \in T : e[2] >= blocks => g[2] <= e[2], x = g[1]
        PROVE  BestIn(m, F, x, blocks)
    <2>1. x \in F /\ SizeOf(m, x) = g[2]
      BY <1>2, <1>5
    <2>2. ASSUME NEW b \in F, SizeOf(m, b) >= blocks PROVE SizeOf(m, x) <= SizeOf(m, b)
      <3>1. PICK e \in T : e = <<b, SizeOf(m, b)>>
        BY <1>3
      <3>2. e[2] = SizeOf(m, b)
        BY <3>1
      <3> QED BY <1>5, <2>1, <2>2, <3>2
    <2> QED BY <1>5, <2>1, <2>2 DEF BestIn
  <1>6. ASSUME BestIn(m, F, x, blocks)
        PROVE  \E g \in T : g[2] >= blocks /\ (\A e \in T : e[2] >= blocks => g[2] <= e[2]) /\ x = g[1]
    <2>1. PICK g \in T : g = <<x, SizeOf(m, x)>>
      BY <1>3, <1>6 DEF BestIn
    <2>2. g[1] = x /\ g[2] = SizeOf(m, x) /\ g[2] >= blocks
      BY <1>6, <2>1 DEF BestIn
    <2>3. ASSUME NEW e \in T, e[2] >= blocks PROVE g[2] <= e[2]
      BY <1>2, <1>6, <2>2, <2>3 DEF BestIn
    <2> QED BY <2>2, <2>3
  <1> QED BY <1>4, <1>5, <1>6

(* A request that neither a free block nor those around c can serve fits   *)
(* nowhere, even without the allocation at c.                              *)
LEMMA NoRoomAround ==
  ASSUME NEW m, NEW C, NEW F, HeapShape(m, numblocks, C, F), Apart(m, F), NEW U, U = Used(numblocks, C, F),
         NEW c \in U, NEW blocks \in Nat \ {0}, \A b \in F : SizeOf(m, b) < blocks, Around(m, c) < blocks,
         NEW o, o = [b \in U \ {c} |-> SizeOf(m, b)], NEW s \in Int, NEW k \in Int, k >= blocks
  PROVE  ~Heap!Fits(o, s, k)
  <1>1. PICK n \in Nat : n = numblocks /\ n >= 3
    BY ShapeParts
  <1>2. /\ HeapShape(m, n, C, F) /\ U = C \ (F \cup {0, n - 1}) /\ F \subseteq C \ {0, n - 1}
        /\ C \subseteq 0 .. n - 1
    BY <1>1, ShapeParts DEF Used
  <1>3. PICK R : R = F \cup {c}
    OBVIOUS
  <1>4. Heap!Fits(o, s, k) <=> \A x \in s .. s + k - 1 : Covers(m, R, x)
    <2>1. U \ {c} \subseteq U /\ F \cup (U \ (U \ {c})) = R
      BY <1>3
    <2> QED BY <2>1, FitsCovered
  <1> SUFFICES ASSUME \A x \in s .. s + k - 1 : Covers(m, R, x) PROVE FALSE
    BY <1>4
  <1>5. c \in C \ {n - 1} /\ c \in C /\ c # 0 /\ c # n - 1 /\ c \notin F /\ c \in Nat
    BY <1>2
  <1>6. R \subseteq C \ {0, n - 1}
    BY <1>2, <1>3, <1>5
  \* A run that begins in front of an uncovered cell ends there.
  <1>7. ASSUME NEW h \in Int, s < h, ~Covers(m, R, h) PROVE k <= h - s
    <2> SUFFICES ASSUME k > h - s PROVE FALSE
      OBVIOUS
    <2>1. h \in s .. s + k - 1
      BY <1>7
    <2> QED BY <1>7, <2>1
  <1>8. ASSUME NEW h \in C, h \notin R PROVE ~Covers(m, R, h)
    <2> SUFFICES ASSUME NEW d \in R, d <= h, h < NBLOCK(m, d) PROVE FALSE
      BY DEF Covers
    <2>1. d \in C /\ d # n - 1 /\ d \in Nat /\ h \in Nat
      BY <1>2, <1>6
    <2>2. h <= d \/ h >= NBLOCK(m, d)
      BY <1>2, <2>1, ChainFacts
    <2>3. NBLOCK(m, d) \in 1 .. n - 1
      BY <1>2, <2>1, ChainFacts
    <2>4. h = d
      BY <2>1, <2>2, <2>3
    <2> QED BY <1>8, <2>4
  <1>9. \A b \in R : /\ NBLOCK(m, b) \in C /\ NBLOCK(m, b) \in Nat /\ NBLOCK(m, b) > b /\ b \in Nat
                     /\ b \in C /\ b # n - 1 /\ b # 0
    <2> SUFFICES ASSUME NEW b \in R
                 PROVE  /\ NBLOCK(m, b) \in C /\ NBLOCK(m, b) \in Nat /\ NBLOCK(m, b) > b /\ b \in Nat
                        /\ b \in C /\ b # n - 1 /\ b # 0
      OBVIOUS
    <2>1. b \in C /\ b # n - 1 /\ b # 0 /\ b \in Nat
      BY <1>2, <1>6
    <2>2. NBLOCK(m, b) \in C /\ NBLOCK(m, b) \in 1 .. n - 1 /\ NBLOCK(m, b) > b
      BY <1>2, <2>1, ChainFacts
    <2> QED BY <2>1, <2>2
  <1>10. PICK e \in Nat : e = NBLOCK(m, c) /\ e > c /\ e \in C
    BY <1>3, <1>9
  <1>11. IsFree(m, e) = (e \in F)
    BY <1>2, <1>10, MarkOf
  \* The end of what c and a free block behind it cover.
  <1>12. PICK h \in Nat :
            /\ h \in C /\ h \notin R /\ h > c /\ h >= e
            /\ h - c = SizeOf(m, c) + (IF IsFree(m, e) THEN SizeOf(m, e) ELSE 0)
    <2>1. SizeOf(m, c) = e - c
      BY <1>10 DEF SizeOf
    <2>2. CASE e \in F
      <3>1. PICK h \in Nat : h = NBLOCK(m, e) /\ h > e /\ h \in C
        BY <1>3, <1>9, <2>2
      <3>2. h \notin F
        BY <2>2, <3>1 DEF Apart
      <3>3. h \notin R /\ h > c
        BY <1>3, <1>5, <1>10, <3>1, <3>2
      <3>4. SizeOf(m, e) = h - e
        BY <3>1 DEF SizeOf
      <3>5. IsFree(m, e)
        BY <1>11, <2>2
      <3>6. h - c = SizeOf(m, c) + SizeOf(m, e)
        BY <1>5, <1>10, <2>1, <3>1, <3>4
      <3> QED BY <3>1, <3>3, <3>5, <3>6
    <2>3. CASE e \notin F
      <3>1. e \notin R
        BY <1>3, <1>5, <1>10, <2>3
      <3>2. ~IsFree(m, e)
        BY <1>11, <2>3
      <3>3. e - c = SizeOf(m, c) + 0
        BY <1>5, <1>10, <2>1
      <3> QED BY <1>10, <3>1, <3>2, <3>3
    <2> QED BY <2>2, <2>3
  <1>13. PICK p : p = PBLOCK(m, c)
    OBVIOUS
  <1>14. p \in C /\ p # n - 1 /\ NBLOCK(m, p) = c /\ p < c /\ p \in Nat
    <2>1. p \in C \ {n - 1} /\ NBLOCK(m, p) = c /\ p < c
      BY <1>2, <1>5, <1>13, Before
    <2> QED BY <1>2, <2>1
  <1>15. IsFree(m, p) = (p \in F)
    BY <1>2, <1>14, MarkOf
  <1>16. Around(m, c) = (IF IsFree(m, p) THEN c - p ELSE 0) + (h - c)
    <2>1. PICK x, y, z : /\ x = (IF IsFree(m, p) THEN c - p ELSE 0) /\ y = SizeOf(m, c)
                         /\ z = IF IsFree(m, e) THEN SizeOf(m, e) ELSE 0
      OBVIOUS
    <2>2. Sane(m, n, U)
      BY <1>1, SaneFrom
    <2>3. x \in Nat /\ y \in Nat /\ z \in Nat
      BY <1>10, <1>13, <2>1, <2>2, BesideCounted
    <2>4. Around(m, c) = x + y + z
      BY <1>10, <1>13, <2>1 DEF Around
    <2>5. h - c = y + z
      BY <1>12, <2>1
    <2> QED BY <2>1, <2>3, <2>4, <2>5
  <1>17. PICK b \in R : b <= s /\ s < NBLOCK(m, b)
    <2>1. s \in s .. s + k - 1
      OBVIOUS
    <2> QED BY <2>1 DEF Covers
  <1>18. CASE b = c
    <2>0. ~Covers(m, R, h)
      BY <1>8, <1>12
    <2>1. s < h
      BY <1>10, <1>12, <1>17, <1>18
    <2>2. k <= h - s
      BY <1>7, <1>12, <2>0, <2>1
    <2>3. h - c <= Around(m, c)
      <3>1. CASE IsFree(m, p)
        BY <1>5, <1>12, <1>14, <1>16, <3>1
      <3>2. CASE ~IsFree(m, p)
        BY <1>5, <1>12, <1>16, <3>2
      <3> QED BY <3>1, <3>2
    <2> QED BY <1>5, <1>12, <1>14, <1>16, <1>17, <1>18, <2>2, <2>3
  <1>19. CASE b # c /\ NBLOCK(m, b) = c
    <2>1. b = p
      <3>1. b \in C \ {n - 1} /\ p \in C \ {n - 1} /\ c - 1 \in Int
        BY <1>5, <1>9, <1>14
      <3>2. b <= c - 1 /\ c - 1 < NBLOCK(m, b) /\ p <= c - 1 /\ c - 1 < NBLOCK(m, p)
        BY <1>5, <1>9, <1>14, <1>19
      <3> QED BY <1>2, <3>1, <3>2, Alone
    <2>2. b \in F
      BY <1>3, <1>19
    <2>3. IsFree(m, p)
      BY <1>15, <2>1, <2>2
    <2>4. Around(m, c) = h - p
      <3>1. Around(m, c) = (c - p) + (h - c)
        BY <1>16, <2>3
      <3> QED BY <1>5, <1>12, <1>14, <3>1
    <2>5. s < h /\ ~Covers(m, R, h)
      BY <1>5, <1>8, <1>12, <1>17, <1>19
    <2>6. k <= h - s
      BY <1>7, <1>12, <2>5
    <2> QED BY <1>12, <1>14, <1>17, <2>1, <2>4, <2>6
  <1>20. CASE b # c /\ NBLOCK(m, b) # c
    <2>1. b \in F
      BY <1>3, <1>20
    <2>2. PICK y \in Nat : y = NBLOCK(m, b) /\ y \in C
      BY <1>9
    <2>3. y \notin R
      BY <1>3, <1>20, <2>1, <2>2 DEF Apart
    <2>4. k <= y - s
      BY <1>7, <1>8, <1>17, <2>2, <2>3
    <2>5. SizeOf(m, b) = y - b
      BY <2>2 DEF SizeOf
    <2> QED BY <1>9, <1>17, <2>1, <2>2, <2>4, <2>5
  <1> QED BY <1>18, <1>19, <1>20

(* What the clients own, as the abstract heap sees it. *)
Own(m, l) == [b \in {BlockOf(p) : p \in DOMAIN l} |-> SizeOf(m, b)]

(* The allocations, by block. *)
LEMMA OwnIs ==
  ASSUME NEW m, NEW n, NEW U, Sane(m, n, U), NEW l, Holds(m, l, U)
  PROVE  Own(m, l) = [b \in U |-> SizeOf(m, b)]
  <1>1. \A b \in U : BlockOf(UMM_DATA(b)) = b
    BY SaneFacts, BlockOfData
  <1>2. DOMAIN l = {UMM_DATA(b) : b \in U}
    BY DEF Holds
  <1>3. {BlockOf(p) : p \in DOMAIN l} = U
    BY <1>1, <1>2
  <1> QED BY <1>3 DEF Own

Adds(m, V, z, d) ==
  [b \in V \cup {d} |-> SizeOf(z, b)] = Heap!With([b \in V |-> SizeOf(m, b)], d, SizeOf(z, d))
Drops(o, c, w) == w = Heap!Without(o, c)

(* An allocation more. *)
LEMMA WithIs ==
  ASSUME NEW m, NEW z, NEW V, NEW d, d \notin V, \A b \in V : NBLOCK(z, b) = NBLOCK(m, b)
  PROVE  Adds(m, V, z, d)
  <1>1. PICK o, k : o = [b \in V |-> SizeOf(m, b)] /\ k = SizeOf(z, d)
    OBVIOUS
  <1>2. DOMAIN o \cup {d} = V \cup {d}
    BY <1>1
  <1>3. \A b \in V : SizeOf(z, b) = SizeOf(m, b)
    BY DEF SizeOf
  <1>4. \A b \in V \cup {d} : SizeOf(z, b) = IF b = d THEN k ELSE o[b]
    BY <1>1, <1>3
  <1>5. [b \in V \cup {d} |-> SizeOf(z, b)] = Heap!With(o, d, k)
    BY <1>2, <1>4 DEF Heap!With
  <1> QED BY <1>1, <1>5 DEF Adds

(* An allocation less. *)
LEMMA WithoutIs ==
  ASSUME NEW m, NEW z, NEW U, NEW c, \A b \in U \ {c} : NBLOCK(z, b) = NBLOCK(m, b),
         NEW o, o = [b \in U |-> SizeOf(m, b)], NEW w, w = [b \in U \ {c} |-> SizeOf(z, b)]
  PROVE  Drops(o, c, w)
  <1>1. \A b \in U \ {c} : SizeOf(z, b) = SizeOf(m, b)
    BY DEF SizeOf
  <1> QED BY <1>1 DEF Drops, Heap!Without

(* umm_malloc and umm_calloc allocate. *)
LEMMA AllocateStep ==
  ASSUME NEW C, NEW F, NEW U, Standing(C, F, U), Allots(F, U), numblocks' = numblocks
  PROVE  Heap!HeapNext
  <1>0. PICK blocks \in Nat \ {0} : \E ptr :
           /\ out' = Outcome("malloc", blocks, NULL, ptr)
           /\ MallocResult(mem, numblocks, F, U, live, mem', live', blocks, ptr)
    BY DEF Allots
  <1>1. PICK ptr :
           /\ out' = Outcome("malloc", blocks, NULL, ptr)
           /\ MallocResult(mem, numblocks, F, U, live, mem', live', blocks, ptr)
    BY <1>0
  <1>2. out'.op = "malloc" /\ out'.blocks = blocks /\ out'.ret = BlockOf(ptr)
    BY <1>1 DEF Outcome
  <1>3. PICK m, l, z, k : m = mem /\ l = live /\ z = mem' /\ k = live'
    OBVIOUS
  <1>4. PICK o, w : o = [b \in U |-> SizeOf(m, b)] /\ w = Own(z, k)
    OBVIOUS
  <1>5. Own(mem, live) = o
    BY <1>3, <1>4, StandingSane, OwnIs
  <1>6. Own(mem', live') = w
    BY <1>3, <1>4
  <1>7. HeapShape(m, numblocks, C, F) /\ Apart(m, F) /\ U = Used(numblocks, C, F)
    BY <1>3 DEF Standing
  <1>8. \/ out'.ret \in Heap!BestFit(o, blocks) /\ w = Heap!With(o, out'.ret, blocks)
        \/ Heap!BestFit(o, blocks) = {} /\ out'.ret = NULL /\ w = o
    <2>1. CASE ptr = NULL /\ mem' = mem /\ live' = live /\ \A b \in F : SizeOf(mem, b) < blocks
      <3>1. out'.ret = NULL
        BY <1>2, <2>1 DEF BlockOf, NULL
      <3>2. w = o
        BY <1>5, <1>6, <2>1
      <3>3. \A b \in F : ~(SizeOf(m, b) >= blocks)
        <4>1. \A b \in F : SizeOf(m, b) \in Int /\ SizeOf(m, b) < blocks
          BY <1>3, <1>7, <2>1, FreeRun
        <4> QED BY <4>1
      <3>4. ASSUME NEW x \in Heap!BestFit(o, blocks) PROVE FALSE
        <4>1. BestIn(m, F, x, blocks)
          BY <1>4, <1>7, BestFitFree
        <4> QED BY <3>3, <4>1 DEF BestIn
      <3> QED BY <3>1, <3>2, <3>4
    <2>2. CASE \E c \in F :
             /\ BestIn(mem, F, c, blocks)
             /\ ptr = UMM_DATA(c) /\ c \in Nat \ U
             /\ Sane(mem', numblocks, U \cup {c}) /\ Holds(mem', live', U \cup {c})
             /\ SizeOf(mem', c) = blocks
             /\ \A b \in U : NBLOCK(mem', b) = NBLOCK(mem, b)
      <3>1. PICK c \in F :
             /\ BestIn(m, F, c, blocks)
             /\ ptr = UMM_DATA(c) /\ c \in Nat \ U
             /\ Sane(z, numblocks, U \cup {c}) /\ Holds(z, k, U \cup {c})
             /\ SizeOf(z, c) = blocks
             /\ \A b \in U : NBLOCK(z, b) = NBLOCK(m, b)
        BY <1>3, <2>2
      <3>2. out'.ret = c
        BY <1>2, <3>1, BlockOfData
      <3>3. c \in Heap!BestFit(o, blocks)
        BY <1>4, <1>7, <3>1, BestFitFree
      <3>4. w = [b \in U \cup {c} |-> SizeOf(z, b)]
        BY <1>4, <3>1, OwnIs
      <3>5. Adds(m, U, z, c)
        BY <3>1, WithIs
      <3>6. w = Heap!With(o, c, blocks)
        BY <1>4, <3>1, <3>4, <3>5 DEF Adds
      <3> QED BY <3>2, <3>3, <3>6
    <2> QED BY <1>1, <2>1, <2>2 DEF MallocResult
  <1>9. Heap!Allocate(blocks)
    BY <1>2, <1>5, <1>6, <1>8 DEF Heap!Allocate, Own
  <1> QED BY <1>2, <1>9 DEF Heap!HeapNext

(* umm_free releases. *)
LEMMA ReleaseStep ==
  ASSUME NEW C, NEW F, NEW U, Standing(C, F, U), Frees(U), numblocks' = numblocks
  PROVE  Heap!HeapNext
  <1>1. PICK c \in U :
           /\ out' = Outcome("free", 0, UMM_DATA(c), NULL)
           /\ FreeResult(mem, numblocks, U, c, mem', live')
    BY DEF Frees
  <1>2. out'.op = "free" /\ out'.old = c
    <2>1. c \in Nat
      BY StandingSane
    <2> QED BY <1>1, <2>1, BlockOfData DEF Outcome
  <1>3. PICK m, l, z, k : m = mem /\ l = live /\ z = mem' /\ k = live'
    OBVIOUS
  <1>4. PICK o, w : o = [b \in U |-> SizeOf(m, b)] /\ w = Own(z, k)
    OBVIOUS
  <1>5. Own(mem, live) = o
    BY <1>3, <1>4, StandingSane, OwnIs
  <1>6. Own(mem', live') = w
    BY <1>3, <1>4
  <1>7. /\ Sane(z, numblocks, U \ {c}) /\ Holds(z, k, U \ {c})
        /\ \A b \in U \ {c} : NBLOCK(z, b) = NBLOCK(m, b)
    BY <1>1, <1>3 DEF FreeResult
  <1>8. w = [b \in U \ {c} |-> SizeOf(z, b)]
    BY <1>4, <1>7, OwnIs
  <1>9. Drops(o, c, w)
    BY <1>4, <1>7, <1>8, WithoutIs
  <1>10. Heap!Release
    BY <1>2, <1>5, <1>6, <1>9 DEF Drops, Heap!Release, Own
  <1> QED BY <1>10 DEF Heap!HeapNext

(* umm_realloc resizes. *)
LEMMA ResizeStep ==
  ASSUME NEW C, NEW F, NEW U, Standing(C, F, U), Resizes(F, U), numblocks' = numblocks
  PROVE  Heap!HeapNext
  <1>0. PICK c \in U, blocks \in Nat \ {0} : \E ptr :
           /\ out' = Outcome("realloc", blocks, UMM_DATA(c), ptr)
           /\ ReallocResult(mem, numblocks, F, U, live, c, mem', live', blocks, ptr)
    BY DEF Resizes
  <1>1. PICK ptr :
           /\ out' = Outcome("realloc", blocks, UMM_DATA(c), ptr)
           /\ ReallocResult(mem, numblocks, F, U, live, c, mem', live', blocks, ptr)
    BY <1>0
  <1>2. out'.op = "realloc" /\ out'.blocks = blocks /\ out'.ret = BlockOf(ptr) /\ out'.old = c
    <2>1. c \in Nat
      BY StandingSane
    <2> QED BY <1>1, <2>1, BlockOfData DEF Outcome
  <1>3. PICK m, l, z, k : m = mem /\ l = live /\ z = mem' /\ k = live'
    OBVIOUS
  <1>4. PICK o, w : o = [b \in U |-> SizeOf(m, b)] /\ w = Own(z, k)
    OBVIOUS
  <1>5. Own(mem, live) = o
    BY <1>3, <1>4, StandingSane, OwnIs
  <1>6. Own(mem', live') = w
    BY <1>3, <1>4
  <1>7. HeapShape(m, numblocks, C, F) /\ Apart(m, F) /\ U = Used(numblocks, C, F)
    BY <1>3 DEF Standing
  <1>9. PICK v : v = [b \in U \ {c} |-> SizeOf(m, b)]
    OBVIOUS
  <1>8. Drops(o, c, v)
    <2>1. \A b \in U \ {c} : NBLOCK(m, b) = NBLOCK(m, b)
      OBVIOUS
    <2> QED BY <1>4, <1>9, <2>1, WithoutIs
  <1>10. \/ out'.ret # NULL /\ Heap!Fits(v, out'.ret, blocks) /\ w = Heap!With(v, out'.ret, blocks)
         \/ out'.ret = NULL /\ Heap!BestFit(v, blocks) = {} /\ w = o
    <2>1. CASE /\ ptr = NULL /\ mem' = mem /\ live' = live
               /\ \A b \in F : SizeOf(mem, b) < blocks
               /\ Around(mem, c) < blocks
      <3>1. out'.ret = NULL
        BY <1>2, <2>1 DEF BlockOf, NULL
      <3>2. w = o
        BY <1>5, <1>6, <2>1
      <3>3. (\A b \in F : SizeOf(m, b) < blocks) /\ Around(m, c) < blocks
        BY <1>3, <2>1
      <3>4. ASSUME NEW x \in Heap!BestFit(v, blocks) PROVE FALSE
        <4>1. PICK g \in Heap!Gaps(v) : g[2] >= blocks
          BY <3>4 DEF Heap!BestFit
        <4>2. PICK s, j : s = g[1] /\ j = g[2]
          OBVIOUS
        <4>3. s \in 1 .. numblocks - 1 - 1 /\ j \in 1 .. numblocks - 1 /\ Heap!Fits(v, s, j)
          BY <4>2 DEF Heap!Gaps
        <4>4. s \in Int /\ j \in Int /\ j >= blocks
          BY <4>1, <4>2, <4>3
        <4> QED BY <1>7, <1>9, <3>3, <4>3, <4>4, NoRoomAround
      <3> QED BY <3>1, <3>2, <3>4
    <2>2. CASE \E d \in Nat :
             /\ ptr = UMM_DATA(d) /\ d \notin U \ {c}
             /\ Sane(mem', numblocks, (U \ {c}) \cup {d}) /\ Holds(mem', live', (U \ {c}) \cup {d})
             /\ SizeOf(mem', d) = blocks
             /\ \A b \in U \ {c} : NBLOCK(mem', b) = NBLOCK(mem, b)
      <3>1. PICK d \in Nat :
             /\ ptr = UMM_DATA(d) /\ d \notin U \ {c}
             /\ Sane(z, numblocks, (U \ {c}) \cup {d}) /\ Holds(z, k, (U \ {c}) \cup {d})
             /\ SizeOf(z, d) = blocks
             /\ \A b \in U \ {c} : NBLOCK(z, b) = NBLOCK(m, b)
        BY <1>3, <2>2
      <3>2. PICK V, W : V = U \ {c} /\ W = V \cup {d}
        OBVIOUS
      <3>3. Sane(z, numblocks, W) /\ Holds(z, k, W) /\ \A b \in V : NBLOCK(z, b) = NBLOCK(m, b)
        BY <3>1, <3>2
      <3>4. out'.ret = d
        BY <1>2, <3>1, BlockOfData
      <3>5. w = [b \in W |-> SizeOf(z, b)]
        BY <1>4, <3>3, OwnIs
      <3>6. w = Heap!With(v, d, blocks)
        <4>1. d \notin V /\ SizeOf(z, d) = blocks /\ v = [b \in V |-> SizeOf(m, b)]
          BY <1>9, <3>1, <3>2
        <4>2. Adds(m, V, z, d)
          BY <3>3, <4>1, WithIs
        <4> QED BY <3>2, <3>5, <4>1, <4>2 DEF Adds
      <3>7. /\ d \in W /\ numblocks \in Nat /\ d \in 1 .. numblocks - 2
            /\ d < NBLOCK(z, d) /\ NBLOCK(z, d) \in 1 .. numblocks - 1
        BY <3>2, <3>3, SaneFacts
      <3>8. PICK e \in Nat : e = NBLOCK(z, d) /\ e = d + blocks
        <4>1. PICK e \in Nat : e = NBLOCK(z, d)
          BY <3>7
        <4>2. e - d = blocks
          BY <3>1, <4>1 DEF SizeOf
        <4> QED BY <4>1, <4>2
      <3>9. ASSUME NEW x \in d .. d + blocks - 1
            PROVE  x \in (1 .. numblocks - 1 - 1) \ Heap!Taken(v)
        <4>1. x \in 1 .. numblocks - 1 - 1
          BY <3>7, <3>8
        <4>2. ASSUME NEW b \in V, x \in b .. b + v[b] - 1 PROVE FALSE
          <5>1. b \in W /\ d \in W /\ b # d
            BY <3>1, <3>2
          <5>2. b \in Nat /\ NBLOCK(z, b) \in 1 .. numblocks - 1 /\ (b <= d \/ b >= e)
            BY <3>3, <3>8, <5>1, SaneFacts
          <5>3. d <= b \/ d >= NBLOCK(z, b)
            BY <3>3, <5>1, SaneFacts
          <5>4. PICK y \in Nat : y = NBLOCK(z, b)
            BY <5>2
          <5>5. v[b] = y - b
            BY <1>9, <3>2, <3>3, <5>4 DEF SizeOf
          <5> QED BY <3>8, <4>2, <5>1, <5>2, <5>3, <5>4, <5>5
        <4>3. DOMAIN v = V
          BY <1>9, <3>2
        <4>4. x \notin Heap!Taken(v)
          BY <4>2, <4>3 DEF Heap!Taken
        <4> QED BY <4>1, <4>4
      <3>10. Heap!Fits(v, d, blocks)
        BY <3>9 DEF Heap!Fits
      <3>11. d # NULL
        BY <3>7 DEF NULL
      <3> QED BY <3>4, <3>6, <3>10, <3>11
    <2> QED BY <1>1, <2>1, <2>2 DEF ReallocResult
  <1>11. Heap!Resize(blocks)
    BY <1>2, <1>5, <1>6, <1>8, <1>10 DEF Drops, Heap!Resize, Own
  <1> QED BY <1>2, <1>11 DEF Heap!HeapNext

(* Every step is a step of the abstract heap. *)
LEMMA HeapStep ==
  ASSUME Idles \/ Begins \/ Serves
  PROVE  Heap!HeapNext
  <1>1. CASE Idles
    <2>1. mem' = mem /\ numblocks' = numblocks /\ live' = live /\ out'.op \in {"null", "raise"}
      BY <1>1 DEF Idles
    <2> QED BY <2>1 DEF Heap!HeapNext, Heap!Nothing
  <1>2. CASE Begins
    <2>1. live' = None /\ numblocks' \in MinBlocks .. MaxBlocks /\ out'.op = "init"
      BY <1>2 DEF Begins, Outcome
    <2>2. Own(mem', live') = [x \in {} |-> 0]
      <3>1. {BlockOf(p) : p \in DOMAIN live'} = {}
        BY <2>1 DEF None
      <3> QED BY <3>1 DEF Own
    <2>3. numblocks' - 1 \in Int
      BY <2>1
    <2> QED BY <2>1, <2>2, <2>3 DEF Own, Heap!HeapNext, Heap!Start
  <1>3. CASE Serves
    <2>1. PICK C, F, U : Standing(C, F, U) /\ (Allots(F, U) \/ Frees(U) \/ Resizes(F, U))
      BY <1>3 DEF Serves
    <2>2. numblocks' = numblocks
      BY <1>3 DEF Serves
    <2> QED BY <2>1, <2>2, AllocateStep, ReleaseStep, ResizeStep
  <1> QED BY <1>1, <1>2, <1>3

(* Every call does what the abstract heap does: umm_malloc hands out the   *)
(* start of a smallest run of free blocks that is long enough and fails    *)
(* only when there is none; umm_realloc fails only when its own block and  *)
(* the free ones beside it would not do either; umm_free gives back        *)
(* exactly the blocks of the allocation.                                   *)
THEOREM Refinement == ModestRequests /\ Spec => ImplementsHeap
  <1> SUFFICES ASSUME ModestRequests PROVE Spec => ImplementsHeap
    OBVIOUS
  <1>1. Init => Heap!HeapInit
    <2> SUFFICES ASSUME Init PROVE Heap!HeapInit
      OBVIOUS
    <2>1. live = None /\ numblocks = 0 /\ out.op = "none"
      BY DEF Init, Outcome
    <2>2. Own(mem, live) = [x \in {} |-> 0]
      <3>1. {BlockOf(p) : p \in DOMAIN live} = {}
        BY <2>1 DEF None
      <3> QED BY <3>1 DEF Own
    <2> QED BY <2>1, <2>2 DEF Own, Heap!HeapInit
  <1>2. InOrder(mem, numblocks, live) /\ [Next]_vars => [Heap!HeapNext]_Heap!heapVars
    <2> SUFFICES ASSUME InOrder(mem, numblocks, live), [Next]_vars
                 PROVE  [Heap!HeapNext]_Heap!heapVars
      OBVIOUS
    <2>1. CASE Next
      <3>1. Heap!HeapNext
        BY <2>1, NextDoes, HeapStep
      <3> QED BY <3>1
    <2>2. CASE UNCHANGED vars
      <3>1. mem' = mem /\ numblocks' = numblocks /\ live' = live /\ out' = out
        BY <2>2 DEF vars
      <3> QED BY <3>1 DEF Heap!heapVars
    <2> QED BY <2>1, <2>2
  <1>3. Spec => []InOrder(mem, numblocks, live)
    BY Ordered
  <1> QED BY <1>1, <1>2, <1>3, PTL DEF Spec, ImplementsHeap, Heap!HeapSpec
=============================================================================
