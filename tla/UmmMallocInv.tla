---------------------------- MODULE UmmMallocInv ----------------------------
(***************************************************************************)
(* What umm_malloc.c must keep true of its heap and of its clients' data.  *)
(***************************************************************************)
EXTENDS UmmMalloc

\* The headers met when following NBLOCK from block 0 to the end.
Chain ==
    LET at[k \in 0 .. numblocks] ==
            IF k = 0 THEN 0 ELSE NBLOCK(mem, at[k - 1])
        end == {k \in 0 .. numblocks : at[k] = numblocks - 1}
    IN  IF end = {} THEN {} ELSE {at[k] : k \in 0 .. Min(end)}

FreeBlocks == {b \in Chain : IsFree(mem, b)}

\* Freeing and reallocating merge and split blocks (umm_assimilate_up,
\* umm_assimilate_down, umm_split_block) without ever losing one: the blocks
\* chain upwards from the first to the last and back, every block between is
\* either a client's or marked free, no two free blocks lie side by side, and
\* the free list links exactly the free blocks in both directions.
HeapWellFormed ==
    numblocks # 0 =>
    LET at == FreeList(mem)
        listed == {at[k] : k \in DOMAIN at} \ {0}
    IN  /\ numblocks - 1 \in Chain
        /\ \A b \in Chain \ {numblocks - 1} :
              /\ NBLOCK(mem, b) > b
              /\ PBLOCK(mem, NBLOCK(mem, b)) = b
        /\ \A b \in FreeBlocks : NBLOCK(mem, b) \notin FreeBlocks
        /\ Chain \ {0, numblocks - 1} = FreeBlocks \cup {BlockOf(p) : p \in DOMAIN live}
        /\ FreeBlocks \cap {BlockOf(p) : p \in DOMAIN live} = {}
        /\ listed = FreeBlocks
        /\ \A b \in listed \cup {0} : PFREE(mem, NFREE(mem, b)) = b

\* A client finds in its memory what it put there, up to the smaller of the
\* old and the new size after a reallocation, whatever the other clients do:
\* no call writes a link or a header inside an allocation, and memmove into
\* the preceding free block carries everything along.
DataKept ==
    \A p \in DOMAIN live :
        \A k \in 0 .. CellsOf(live[p].size) - 1 :
            mem[p + k] = DataCell(live[p].tag, k)

Heap == INSTANCE UmmHeap WITH
    FirstBlock <- 1,
    owned <- [b \in {BlockOf(p) : p \in DOMAIN live} |-> SizeOf(mem, b)],
    last <- numblocks - 1,
    outcome <- out

\* Every call does what the abstract heap does: the block returned is the
\* best fit and overlaps no other, a request is refused only when no run of
\* free blocks is long enough, a reallocation only when its own block and
\* the free blocks around it would not do either, and nothing is lost.
ImplementsHeap == Heap!HeapSpec

-----------------------------------------------------------------------------
(***************************************************************************)
(* Inductive invariant.  C are the blocks that a header describes, F those *)
(* of them that are free; n is the number of blocks of the memory m.       *)
(***************************************************************************)
Cell == [next : Nat, prev : Nat, free : BOOLEAN]
Memory(n) == [0 .. 2 * n - 1 -> Cell]

\* Requests whose number of blocks is not cut by the unsigned short.
Countable(size) == size > Body => 2 + (size - Body - 1) \div Block < UShort
ModestRequests == \A size \in Sizes : Countable(size) /\ Countable(2 * size)

\* The headers lead from the first block to the last and back.
Chained(m, n, C) ==
    /\ C \subseteq 0 .. n - 1 /\ 0 \in C /\ 1 \in C /\ n - 1 \in C
    /\ NBLOCK(m, n - 1) = 0
    /\ \A b \in C \ {n - 1} :
         /\ NBLOCK(m, b) \in C /\ NBLOCK(m, b) > b
         /\ PBLOCK(m, NBLOCK(m, b)) = b
         /\ \A c \in C : c <= b \/ c >= NBLOCK(m, b)

Marked(m, n, C, F) ==
    /\ F \subseteq C \ {0, n - 1}
    /\ \A b \in C : IsFree(m, b) = (b \in F)

\* The free list links the blocks of F in a ring with block 0; every set of
\* free blocks is entered from outside, so there is no other ring.
Linked(m, F) ==
    /\ \A b \in F \cup {0} :
         /\ NFREE(m, b) \in F \cup {0} /\ PFREE(m, b) \in F \cup {0}
         /\ PFREE(m, NFREE(m, b)) = b /\ NFREE(m, PFREE(m, b)) = b
    /\ \A S \in SUBSET F : S # {} => \E b \in S : PFREE(m, b) \notin S

\* No two free blocks lie side by side.
Apart(m, F) == \A b \in F : NBLOCK(m, b) \notin F

HeapShape(m, n, C, F) ==
    /\ n \in Nat /\ n >= 3 /\ m \in Memory(n)
    /\ Chained(m, n, C) /\ Marked(m, n, C, F) /\ Linked(m, F)

\* The other blocks are the clients', large enough and with their data.
Owned(C, F) ==
    /\ DOMAIN live = {UMM_DATA(b) : b \in C \ (F \cup {0, numblocks - 1})}
    /\ \A p \in DOMAIN live :
         /\ live[p].size \in Nat \ {0} /\ live[p].tag \in Nat
         /\ CellsOf(live[p].size) < 2 * SizeOf(mem, BlockOf(p))

HeapIInv ==
    \/ numblocks = 0 /\ live = None
    \/ /\ numblocks \in MinBlocks .. MaxBlocks
       /\ \E C \in SUBSET (0 .. numblocks - 1) :
            \E F \in {{b \in C : IsFree(mem, b)}} :
               HeapShape(mem, numblocks, C, F) /\ Apart(mem, F) /\ Owned(C, F)
       /\ DataKept
=============================================================================
