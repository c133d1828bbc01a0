------------------------------ MODULE UmmHeap ------------------------------
(***************************************************************************)
(* What the users of umm_malloc (apriltag, zbar, dmtx, lsd) rely on: a     *)
(* heap of blocks in which an allocation is a run of blocks of its own.    *)
(* A request is refused only when no run of unallocated blocks is long     *)
(* enough, whatever was allocated and freed before; a reallocation is      *)
(* refused only when even giving up the old block would not make room.     *)
(* How the blocks are chained, split and merged is not visible here.       *)
(***************************************************************************)
EXTENDS Integers, FiniteSetsExt

CONSTANTS NULL,        \* the null pointer
          FirstBlock   \* block 0 heads the free list and is never handed out

VARIABLES
    owned,     \* block number of an allocation -> its length in blocks
    last,      \* the last block, which ends the chain and is never handed out
    outcome    \* the last call: operation, blocks asked for, block returned

heapVars == <<owned, last, outcome>>

Taken(o) == UNION {b .. b + o[b] - 1 : b \in DOMAIN o}

Fits(o, b, n) == (b .. b + n - 1) \subseteq (FirstBlock .. last - 1) \ Taken(o)

\* The unallocated runs that cannot be extended, as <<first block, length>>.
Gaps(o) ==
    {g \in (FirstBlock .. last - 1) \X (1 .. last) :
        /\ Fits(o, g[1], g[2])
        /\ ~Fits(o, g[1], g[2] + 1)
        /\ ~Fits(o, g[1] - 1, g[2] + 1)}

\* A smallest run that is long enough, taken from its start (UMM_BEST_FIT).
BestFit(o, n) ==
    {g[1] : g \in {f \in Gaps(o) : f[2] >= n
                      /\ \A e \in Gaps(o) : e[2] >= n => f[2] <= e[2]}}

Without(o, b) == [x \in DOMAIN o \ {b} |-> o[x]]
With(o, b, n) == [x \in DOMAIN o \cup {b} |-> IF x = b THEN n ELSE o[x]]

Allocate(n) ==
    /\ outcome'.op = "malloc" /\ outcome'.blocks = n
    /\ \/ /\ outcome'.ret \in BestFit(owned, n)
          /\ owned' = With(owned, outcome'.ret, n)
       \/ /\ BestFit(owned, n) = {} /\ outcome'.ret = NULL
          /\ UNCHANGED owned
    /\ UNCHANGED last

Release ==
    /\ outcome'.op = "free"
    /\ owned' = Without(owned, outcome'.old)
    /\ UNCHANGED last

Resize(n) ==
    /\ outcome'.op = "realloc" /\ outcome'.blocks = n
    /\ LET others == Without(owned, outcome'.old)
       IN  \/ /\ outcome'.ret # NULL
              /\ Fits(others, outcome'.ret, n)
              /\ owned' = With(others, outcome'.ret, n)
           \/ /\ outcome'.ret = NULL
              /\ BestFit(others, n) = {}
              /\ UNCHANGED owned
    /\ UNCHANGED last

\* A new heap, or none when the region is too small.
Start ==
    /\ outcome'.op = "init"
    /\ owned' = [x \in {} |-> 0]
    /\ last' \in Int

Nothing == outcome'.op \in {"null", "raise"} /\ UNCHANGED <<owned, last>>

HeapInit == owned = [x \in {} |-> 0] /\ last \in Int /\ outcome.op = "none"

HeapNext ==
    \/ \E n \in {outcome'.blocks} : Allocate(n) \/ Resize(n)
    \/ Release
    \/ Start
    \/ Nothing

HeapSpec == HeapInit /\ [][HeapNext]_heapVars
=============================================================================
