---------------------------- MODULE FbAllocInv -----------------------------
(***************************************************************************)
(* Properties of the frame-buffer stack, and its inductive invariant.      *)
(***************************************************************************)
EXTENDS FbAlloc

(* What the running operation holds. *)
Live == leaked + 1 .. Len(blocks)

(* Where the block before i begins: popping block i must lead there. *)
Floor(i) == IF i = 1 THEN Top ELSE blocks[i - 1].at

(* The headers in memory describe the stack: from the pointer on, each     *)
(* header leads exactly to the block pushed before it.  fb_free and        *)
(* fb_alloc_free_till_mark follow nothing else.                            *)
HeadersTile ==
  /\ pointer = Floor(Len(blocks) + 1)
  /\ \A i \in Live : /\ mem[blocks[i].at] = blocks[i].len
                     /\ blocks[i].at + blocks[i].len = Floor(i)

(* fb_alloc_mark's claim: a header that holds the size of a header is a    *)
(* mark and nothing else is, so fb_alloc_free_till_mark stops at marks.    *)
MarksUnambiguous ==
  \A i \in Live : mem[blocks[i].at] = Word <=> blocks[i].kind = "mark"

(* What an operation holds lies above the pixels of the main frame ("the   *)
(* free SRAM area located after the framebuffer").                         *)
RegionsOffFrame == \A i \in Live : blocks[i].at >= image_size(frame)

(* An operation that runs to its end gives back exactly what it took: the  *)
(* pointer is again where fb_alloc_mark found it.                          *)
OperationsBalance ==
  [][pc = "till" /\ pc' = "idle" => /\ pointer' = Floor(leaked + 1)
                                    /\ Len(blocks') = leaked]_vars

(* The pointer has reached a block that an exception left behind and whose *)
(* header lies under the pixels of a frame installed since.                *)
HeaderOverwritten ==
  Live = {} /\ pointer < Top /\ mem[pointer] = 0

(* fb_alloc_free_till_mark ends, over whatever exceptions left behind.  So *)
(* does fb_free_all, unless a frame grew over a header left behind, which  *)
(* no line of fb_alloc.c or of its callers prevents.                       *)
LoopsEnd ==
  /\ pc = "till" ~> pc # "till"
  /\ pc = "all" ~> pc # "all" \/ HeaderOverwritten

(* What fb_avail reports can be had: fb_alloc of it, rounded down to words *)
(* as umm_init_x does, does not fail.  Stated while a header still fits:   *)
(* with less than that left fb_avail goes wrong as fb_alloc_all does.      *)
AvailCanBeHad ==
  pc = "run" /\ Temp >= 0 /\ fb_avail # 0 =>
    pointer - RoundUp(RoundDown(fb_avail)) - Word >= MAIN_FB_PIXELS

(* "size is always 4/8/12/etc. so the value below must be 8 or more."      *)
HeadersAtLeastWord ==
  \A i \in Live : mem[blocks[i].at] >= Word

-----------------------------------------------------------------------------
(***************************************************************************)
(* The inductive invariant, for clients that do not come to fb_alloc_all   *)
(* when less than a header is left.                                        *)
(***************************************************************************)
(* Every block is a whole number of words and lies below the older ones.   *)
OrderInv ==
  /\ \A i \in 1 .. Len(blocks) : blocks[i].at \in Headers
  /\ \A i, j \in 1 .. Len(blocks) : i < j => blocks[j].at < blocks[i].at
  /\ pointer = Floor(Len(blocks) + 1)

(* The blocks of the running operation are described by their headers and  *)
(* lie above what fb_buffer_size takes for the frame.                      *)
LiveInv ==
  \A i \in Live :
    /\ mem[blocks[i].at] = blocks[i].len
    /\ blocks[i].at + blocks[i].len = Floor(i)
    /\ blocks[i].len >= Word
    /\ blocks[i].len = Word <=> blocks[i].kind = "mark"
    /\ blocks[i].at >= MAIN_FB_PIXELS

(* An operation begins with its mark and holds nothing when it is over.    *)
PhaseInv ==
  /\ leaked <= Len(blocks)
  /\ pc = "idle" => leaked = Len(blocks)
  /\ pc \in {"run", "till"} =>
       leaked < Len(blocks) /\ blocks[leaked + 1].kind = "mark"

(* Also a block left behind reaches up to the block before it, and its     *)
(* header is intact or overwritten by pixels.                              *)
StackedInv ==
  \A i \in 1 .. Len(blocks) :
    /\ blocks[i].at + blocks[i].len = Floor(i)
    /\ mem[blocks[i].at] \in {0, blocks[i].len}

IInv == TypeOK /\ OrderInv /\ LiveInv /\ StackedInv /\ PhaseInv
=============================================================================
