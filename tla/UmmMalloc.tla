----------------------------- MODULE UmmMalloc -----------------------------
(***************************************************************************)
(* umm_malloc.c: the heap that the vendored detectors use inside a frame-  *)
(* buffer region.  The heap is an array of 24-byte blocks: an 8-byte       *)
(* header (next and previous block, free bit) and a 16-byte body, which    *)
(* holds the free-list links while the block is free and data otherwise.   *)
(*                                                                         *)
(* Memory is a function over cells: cell 2b is the header of block b and   *)
(* cell 2b+1 its body.  An allocation of n blocks at c owns the cells      *)
(* 2c+1 .. 2(c+n)-1, so client data covers the free links of c and the     *)
(* headers of the blocks inside; every read of a wrong link is a read of   *)
(* what a client wrote.                                                    *)
(***************************************************************************)
EXTENDS Integers, FiniteSetsExt

CONSTANTS
    HeapSizes,    \* bytes umm_init_x may be offered (fb_avail())
    MinBlocks,    \* 128 in the code
    MaxBlocks,    \* 32768 in the code
    Sizes,        \* byte sizes the clients ask for
    MaxLive       \* bound: allocations a client holds at once

ASSUME MinBlocksAssumption == MinBlocks \in Nat /\ MinBlocks >= 3
ASSUME MaxBlocksAssumption == MaxBlocks \in MinBlocks .. 32768
ASSUME MaxLiveAssumption == MaxLive \in Nat
ASSUME SizesAssumption == Sizes \subseteq Nat /\ HeapSizes \subseteq Nat

VARIABLES
    mem,       \* cell -> [next, prev, free]
    numblocks, \* umm_numblocks, 0 while umm_heap is NULL
    live,      \* the clients' allocations: pointer -> [size, tag]
    out        \* the last call and its result

vars == <<mem, numblocks, live, out>>

-----------------------------------------------------------------------------
(* Blocks, cells and pointers *)

NULL == 0
Header == 8
Body == 16
Block == Header + Body
UShort == 65536
BlocknoMax == 32767       \* UMM_BLOCKNO_MASK, also the initial bestSize

UMM_DATA(b) == 2 * b + 1
BlockOf(ptr) == ptr \div 2

NBLOCK(m, b) == m[2 * b].next
PBLOCK(m, b) == m[2 * b].prev
IsFree(m, b) == m[2 * b].free
NFREE(m, b) == m[2 * b + 1].next
PFREE(m, b) == m[2 * b + 1].prev

SetNBlock(m, b, n, f) == [m EXCEPT ![2 * b].next = n, ![2 * b].free = f]
SetPBlock(m, b, p) == [m EXCEPT ![2 * b].prev = p]
SetNFree(m, b, n) == [m EXCEPT ![2 * b + 1].next = n]
SetPFree(m, b, p) == [m EXCEPT ![2 * b + 1].prev = p]

Zero == [next |-> 0, prev |-> 0, free |-> FALSE]

\* What a client keeps in the k-th cell of its allocation: zeros (tag 0)
\* or a pattern of its own, no value of which is a block number.
DataCell(tag, k) ==
    IF tag = 0 THEN Zero
    ELSE [next |-> MaxBlocks + tag, prev |-> MaxBlocks + k, free |-> FALSE]

\* What clients leave behind: they scrub memory they give back, so that a
\* stale value, if ever used as a link, is no block number.
Scrub(m, ptr, n) == [x \in DOMAIN m |-> IF x \in ptr .. ptr + n - 1 THEN DataCell(1, 0) ELSE m[x]]

\* The cells that the first `size' bytes of an allocation reach into.
CellsOf(size) ==
    IF size <= Body THEN 1
    ELSE LET beyond == size - Body - 1
         IN  1 + 2 * (beyond \div Block)
               + (IF beyond % Block < Header THEN 1 ELSE 2)

Fill(m, ptr, from, size, tag) ==
    [x \in DOMAIN m |->
        IF x \in ptr + from .. ptr + CellsOf(size) - 1
        THEN DataCell(tag, x - ptr) ELSE m[x]]

\* memmove and memcpy of whole cells, source read before it is overwritten.
Move(m, to, from, n) ==
    [x \in DOMAIN m |-> IF x \in to .. to + n - 1 THEN m[from + (x - to)] ELSE m[x]]

-----------------------------------------------------------------------------
(* The helpers of umm_malloc.c, as functions from memory to memory *)

\* unsigned short: the count of an over-large request wraps.
umm_blocks(size) ==
    (IF size <= Body THEN 1 ELSE 2 + (size - Body - 1) \div Block) % UShort

umm_split_block(m, c, blocks, freemask) ==
    LET next == NBLOCK(m, c)
        m1 == SetPBlock(SetNBlock(m, c + blocks, next, freemask), c + blocks, c)
        m2 == SetPBlock(m1, NBLOCK(m1, c), c + blocks)
    IN  SetNBlock(m2, c, c + blocks, FALSE)

umm_disconnect_from_free_list(m, c) ==
    LET m1 == SetNFree(m, PFREE(m, c), NFREE(m, c))
        m2 == SetPFree(m1, NFREE(m1, c), PFREE(m1, c))
    IN  SetNBlock(m2, c, NBLOCK(m2, c), FALSE)

\* c takes in the block that follows it.
TakeIn(m, c) ==
    LET m1 == SetPBlock(m, NBLOCK(m, NBLOCK(m, c)), c)
    IN  SetNBlock(m1, c, NBLOCK(m1, NBLOCK(m1, c)), FALSE)

umm_assimilate_up(m, c) ==
    IF IsFree(m, NBLOCK(m, c))
    THEN TakeIn(umm_disconnect_from_free_list(m, NBLOCK(m, c)), c) ELSE m

(* Mutant: the block that follows still points back at c. *)
umm_assimilate_down_NoBack(m, c, freemask) ==
    SetNBlock(m, PBLOCK(m, c), NBLOCK(m, c), freemask)

\* Returns PBLOCK(c), which callers read from the memory they passed in.
umm_assimilate_down(m, c, freemask) ==
    LET m1 == SetNBlock(m, PBLOCK(m, c), NBLOCK(m, c), freemask)
    IN  SetPBlock(m1, NBLOCK(m1, c), PBLOCK(m1, c))

\* c becomes the first of the free list.
AddToFreeList(m, c) ==
    LET m1 == SetPFree(m, NFREE(m, 0), c)
        m2 == SetNFree(m1, c, NFREE(m1, 0))
        m3 == SetNFree(SetPFree(m2, c, 0), 0, c)
    IN  SetNBlock(m3, c, NBLOCK(m3, c), TRUE)

\* c joins the free block before it, or else the free list.
JoinOrAdd(m, c) ==
    IF IsFree(m, PBLOCK(m, c)) THEN umm_assimilate_down(m, c, TRUE) ELSE AddToFreeList(m, c)

FreeBlock(m, c) == JoinOrAdd(umm_assimilate_up(m, c), c)

\* The free list as the scan of umm_malloc walks it.
FreeList(m) ==
    LET at[k \in 0 .. numblocks] ==
            IF k = 0 THEN NFREE(m, 0)
            ELSE IF at[k - 1] = 0 THEN 0 ELSE NFREE(m, at[k - 1])
    IN  at

SizeOf(m, b) == NBLOCK(m, b) - b

(* Mutant: an exact fit is passed over. *)
LargeEnough_Strict(blockSize, blocks) == blockSize > blocks /\ blockSize < BlocknoMax

LargeEnough(blockSize, blocks) == blockSize >= blocks /\ blockSize < BlocknoMax

\* The scan: the first of the smallest blocks that fit; with none, cf ends
\* as 0 and blockSize as the size of the last block looked at.
BestBlock(m, blocks) ==
    LET at == FreeList(m)
        seen == {k \in DOMAIN at : at[k] # 0}
        fit == {k \in seen : LargeEnough(SizeOf(m, at[k]), blocks)}
        best == CHOOSE k \in fit : \A j \in fit :
                    \/ SizeOf(m, at[k]) < SizeOf(m, at[j])
                    \/ SizeOf(m, at[k]) = SizeOf(m, at[j]) /\ k <= j
    IN  IF fit # {}
        THEN [cf |-> at[best], blockSize |-> SizeOf(m, at[best])]
        ELSE [cf |-> 0,
              blockSize |-> IF seen = {} THEN 0 ELSE SizeOf(m, at[Max(seen)])]

\* The first blocks of cf are handed out; the rest, from r on, takes its
\* place in the free list.
Replace(m, cf, r) ==
    LET m1 == SetPFree(SetNFree(m, PFREE(m, cf), r), r, PFREE(m, cf))
    IN  SetNFree(SetPFree(m1, NFREE(m1, cf), r), r, NFREE(m1, cf))

Allot(m, found, blocks) ==
    IF NBLOCK(m, found.cf) = 0 \/ found.blockSize < blocks
    THEN [mem |-> m, ptr |-> NULL]
    ELSE [mem |-> IF found.blockSize = blocks
                  THEN umm_disconnect_from_free_list(m, found.cf)
                  ELSE Replace(umm_split_block(m, found.cf, blocks, TRUE), found.cf, found.cf + blocks),
          ptr |-> UMM_DATA(found.cf)]

\* umm_malloc for a request other than zero: the new memory and the pointer.
MallocBlocks(m, blocks) == Allot(m, BestBlock(m, blocks), blocks)

(* Mutant: the old block is freed before its data are copied. *)
CopyAndFree_Swapped(m, to, old, n) == Move(FreeBlock(m, BlockOf(old)), to, old, n)

CopyAndFree(m, to, old, n) == FreeBlock(Move(m, to, old, n), BlockOf(old))

\* The allocation of block c with the free block before it taken in, to
\* which its cells move.
MoveDown(m, c, cells, n) ==
    LET d == PBLOCK(m, c)
    IN  [mem |-> Move(umm_assimilate_down(umm_disconnect_from_free_list(m, d), c, FALSE),
                      UMM_DATA(d), UMM_DATA(c), cells),
         c |-> d, n |-> n]

\* The neighbours block c takes in to reach the size asked for.
Grow(m, c, blocks, cur, next, prev) ==
    CASE cur >= blocks -> [mem |-> m, c |-> c, n |-> cur]
      [] cur < blocks /\ cur + next >= blocks ->
           [mem |-> umm_assimilate_up(m, c), c |-> c, n |-> cur + next]
      [] cur + next < blocks /\ prev + cur >= blocks ->
           MoveDown(m, c, 2 * cur - 1, prev + cur)
      [] OTHER -> MoveDown(umm_assimilate_up(m, c), c, 2 * cur - 1, prev + cur + next)

\* The tail that is too much is given back.
Trim(g, blocks) ==
    [mem |-> IF g.n > blocks
             THEN FreeBlock(umm_split_block(g.mem, g.c, blocks, FALSE), g.c + blocks) ELSE g.mem,
     ptr |-> UMM_DATA(g.c)]

\* The data go to a block somewhere else, if there is one.
MoveTo(fresh, old, cells) ==
    IF fresh.ptr = NULL THEN fresh
    ELSE [fresh EXCEPT !.mem = CopyAndFree(@, fresh.ptr, old, cells)]

\* umm_realloc to a size other than zero.
ReallocBlocks(m, old, blocks) ==
    LET c == BlockOf(old)
        cur == SizeOf(m, c)
        next == IF IsFree(m, NBLOCK(m, c)) THEN SizeOf(m, NBLOCK(m, c)) ELSE 0
        prev == IF IsFree(m, PBLOCK(m, c)) THEN c - PBLOCK(m, c) ELSE 0
    IN  IF prev + cur + next < blocks
        THEN MoveTo(MallocBlocks(m, blocks), old, 2 * cur - 1)
        ELSE Trim(Grow(m, c, blocks, cur, next, prev), blocks)

-----------------------------------------------------------------------------
(* The calls.  After each the client fills what it was given. *)

None == [x \in {} |-> Zero]
Outcome(op, blocks, old, ret) ==
    [op |-> op, blocks |-> blocks, old |-> BlockOf(old), ret |-> BlockOf(ret)]

NewTag == Min((1 .. MaxLive + 1) \ {live[p].tag : p \in DOMAIN live})
Keep(ptrs) == [p \in ptrs |-> live[p]]
Hold(l, ptr, size, tag) ==
    [p \in DOMAIN l \cup {ptr} |-> IF p = ptr THEN [size |-> size, tag |-> tag] ELSE l[p]]

HeapBytes(size) == Min({(size \div 8) * 8, MaxBlocks * Block})

\* The whole region becomes one free block between block 0 and the last.
umm_init_x(size) ==
    LET n == HeapBytes(size) \div Block
    IN  IF HeapBytes(size) < MinBlocks * Block      \* fb_alloc_fail
        THEN out' = Outcome("raise", 0, NULL, NULL) /\ UNCHANGED <<mem, numblocks, live>>
        ELSE /\ numblocks' = n
             /\ mem' = [x \in 0 .. 2 * n - 1 |->
                          CASE x = 0 -> [next |-> 1, prev |-> 0, free |-> FALSE]
                            [] x = 1 -> [next |-> 1, prev |-> 1, free |-> FALSE]
                            [] x = 2 -> [next |-> n - 1, prev |-> 0, free |-> TRUE]
                            [] x = 2 * (n - 1) -> [next |-> 0, prev |-> 1, free |-> FALSE]
                            [] OTHER -> Zero]
             /\ live' = None
             /\ out' = Outcome("init", 0, NULL, NULL)

Void == out' = Outcome("null", 0, NULL, NULL) /\ UNCHANGED <<mem, numblocks, live>>

\* `tag' is what the client keeps there; a failed call changes nothing.
Malloc(size, tag) ==
    /\ Cardinality(DOMAIN live) < MaxLive
    /\ \E got \in {MallocBlocks(mem, umm_blocks(size))} :
         /\ mem' = IF got.ptr = NULL THEN got.mem ELSE Fill(got.mem, got.ptr, 0, size, tag)
         /\ live' = IF got.ptr = NULL THEN live ELSE Hold(live, got.ptr, size, tag)
         /\ out' = Outcome("malloc", umm_blocks(size), NULL, got.ptr)
    /\ UNCHANGED numblocks

\* Without a heap umm_init asks for one of 0 bytes, which is refused.
Call(size, tag) ==
    \/ numblocks = 0 /\ umm_init_x(0)
    \/ numblocks # 0 /\ size = 0 /\ Void
    \/ numblocks # 0 /\ size # 0 /\ Malloc(size, tag)

umm_malloc(size) == Call(size, NewTag)

\* The memory is cleared; this client leaves the zeros there.
umm_calloc(num, item_size) == Call(num * item_size, 0)

umm_free(ptr) ==
    \/ ptr = NULL /\ Void
    \/ /\ ptr # NULL
       /\ LET c == BlockOf(ptr)
          IN  mem' = FreeBlock(Scrub(mem, ptr, 2 * SizeOf(mem, c) - 1), c)
       /\ live' = Keep(DOMAIN live \ {ptr})
       /\ out' = Outcome("free", 0, ptr, NULL)
       /\ UNCHANGED numblocks

umm_realloc(ptr, size) ==
    \/ ptr = NULL /\ umm_malloc(size)
    \/ ptr # NULL /\ size = 0 /\ umm_free(ptr)
    \/ /\ ptr # NULL /\ size # 0
       /\ \E got \in {ReallocBlocks(mem, ptr, umm_blocks(size))} :
            /\ mem' = IF got.ptr = NULL THEN got.mem
                      ELSE Fill(got.mem, got.ptr, CellsOf(live[ptr].size), size, live[ptr].tag)
            /\ live' = IF got.ptr = NULL THEN live
                       ELSE Hold(Keep(DOMAIN live \ {ptr}), got.ptr, size, live[ptr].tag)
            /\ out' = Outcome("realloc", umm_blocks(size), ptr, got.ptr)
       /\ UNCHANGED numblocks

Init ==
    /\ mem = None /\ live = None
    /\ numblocks = 0
    /\ out = Outcome("none", 0, NULL, NULL)

Next ==
    \/ \E size \in HeapSizes : umm_init_x(size)
    \/ \E size \in Sizes : umm_malloc(size)
    \/ \E num \in {2}, size \in Sizes : umm_calloc(num, size)
    \/ \E ptr \in DOMAIN live \cup {NULL} : umm_free(ptr)
    \/ \E ptr \in DOMAIN live \cup {NULL}, size \in Sizes : umm_realloc(ptr, size)

Spec == Init /\ [][Next]_vars
=============================================================================
