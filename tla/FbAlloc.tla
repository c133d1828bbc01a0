------------------------------ MODULE FbAlloc -------------------------------
(***************************************************************************)
(* The frame-buffer stack allocator, omv/fb_alloc.c.  The g_framebuffer    *)
(* array holds the pixels of the main frame at its low end; the image      *)
(* operations take scratch memory from its high end, _fballoc, downwards.  *)
(* Every region is preceded by a header with the size of region and        *)
(* header; a header that holds only its own size is a mark.  The client is *)
(* a MicroPython image operation (py_image.c): it sets a mark, allocates   *)
(* and frees, and either pops everything down to its mark or is aborted by *)
(* an exception, which leaves its regions behind.                          *)
(*                                                                         *)
(* Addresses are byte offsets into g_framebuffer.                          *)
(***************************************************************************)
EXTENDS Integers, Sequences

CONSTANTS
  Top,        \* _fballoc: the size of g_framebuffer in bytes
  Wrap,       \* 2^64, the range of size_t and of pointers
  Frames,     \* the main frames in use: [w, h, bpp]
  Sizes,      \* bytes the operations ask fb_alloc for
  Api,        \* what the clients do besides: "all", "free_all", "raise", "exhausted"
  MaxBlocks   \* bound: regions and marks on the stack

Word == 8     \* sizeof(uint64_t)

ASSUME FbAllocAssumption ==
  /\ Top \in Nat /\ Top % Word = 0
  /\ Wrap \in Nat /\ Wrap > Top
  /\ Frames \subseteq [w : Nat, h : Nat, bpp : Nat]
  /\ Sizes \subseteq Nat
  /\ Api \subseteq {"all", "free_all", "raise", "exhausted"}
  /\ MaxBlocks \in Nat

VARIABLES
  pointer,  \* the stack pointer
  mem,      \* the header words of g_framebuffer; 0 stands for data
  frame,    \* MAIN_FB: the frame whose pixels lie at offset 0
  blocks,   \* history: what the operations hold, oldest first
  leaked,   \* history: how many of the blocks an exception left behind
  pc        \* "idle", "run" (inside an operation), "till", "all" (freeing)

vars == <<pointer, mem, frame, blocks, leaked, pc>>

Headers == {a \in 0 .. Top - 1 : a % Word = 0}

Blocks == [at : Nat, len : Nat, kind : {"mark", "data", "rest"}]

TypeOK ==
  /\ pointer \in Nat
  /\ mem \in [Headers -> Nat]
  /\ frame \in Frames
  /\ blocks \in Seq(Blocks)
  /\ leaked \in Nat
  /\ pc \in {"idle", "run", "till", "all"}

-----------------------------------------------------------------------------
(***************************************************************************)
(* Sizes of images.  bpp is 0 for a binary image, 1 for grayscale, 2 for   *)
(* RGB565, 3 for Bayer, and the number of bytes for a JPEG.                *)
(***************************************************************************)
BinaryLineLen(f) == (f.w + 31) \div 32        \* in uint32_t

(* Mutant: RGB565 pixels are counted, not their bytes. *)
fb_buffer_size_Pixels(f) ==
  IF f.bpp \in 0 .. 3 THEN f.w * f.h ELSE f.bpp

fb_buffer_size(f) ==
  CASE f.bpp = 0 -> BinaryLineLen(f) * f.h
    [] f.bpp = 1 -> f.w * f.h
    [] f.bpp = 2 -> f.w * f.h * 2
    [] f.bpp = 3 -> f.w * f.h
    [] OTHER -> f.bpp

image_size(f) ==
  CASE f.bpp = 0 -> BinaryLineLen(f) * 4 * f.h
    [] f.bpp = 1 -> f.w * f.h
    [] f.bpp = 2 -> f.w * 2 * f.h
    [] f.bpp = 3 -> f.w * f.h
    [] OTHER -> f.bpp

MAIN_FB_PIXELS == fb_buffer_size(frame)

-----------------------------------------------------------------------------
Unsigned(x) == IF x < 0 THEN x + Wrap ELSE x

RoundUp(n) == ((n + Word - 1) \div Word) * Word
RoundDown(n) == (n \div Word) * Word

(* Mutant: the client is handed the address of the header. *)
Write_OverHeader(new, header) ==
  [a \in Headers |-> IF a >= new /\ a < pointer THEN 0 ELSE mem[a]]

(* The header goes to new; the client writes its data behind it. *)
Write(new, header) ==
  [a \in Headers |-> CASE a = new -> header
                       [] a # new /\ a > new /\ a < pointer -> 0
                       [] OTHER -> mem[a]]

(* Bytes left above the frame once a header is paid for, as an int64_t. *)
Temp == pointer - MAIN_FB_PIXELS - Word

(* Mutant: the header is forgotten. *)
fb_avail_NoHeader == IF Unsigned(Temp) < Word THEN 0 ELSE Unsigned(Temp) + Word

(* Temp is compared with sizeof(uint64_t) as an unsigned number. *)
fb_avail == IF Unsigned(Temp) < Word THEN 0 ELSE Unsigned(Temp)

Init ==
  /\ pointer = Top
  /\ mem = [a \in Headers |-> 0]
  /\ frame \in Frames
  /\ blocks = <<>>
  /\ leaked = 0
  /\ pc = "idle"

Push(new, header, b) ==
  /\ mem' = Write(new, header)
  /\ pointer' = new
  /\ blocks' = Append(blocks, b)

(***************************************************************************)
(* nlr_raise out of an operation: nobody frees what it holds.              *)
(***************************************************************************)
Abort ==
  /\ pc' = "idle"
  /\ leaked' = Len(blocks)
  /\ UNCHANGED <<pointer, mem, frame, blocks>>

(* Mutant: fb_alloc_mark does not look where the frame ends. *)
fb_alloc_mark_Unchecked ==
  /\ pc \in {"idle", "run"}
  /\ Len(blocks) < MaxBlocks
  /\ LET new == pointer - Word
     IN  Push(new, Word, [at |-> new, len |-> Word, kind |-> "mark"])
  /\ pc' = "run"
  /\ UNCHANGED <<frame, leaked>>

fb_alloc_mark ==
  /\ pc \in {"idle", "run"}
  /\ Len(blocks) < MaxBlocks
  /\ LET new == pointer - Word
     IN  \/ /\ new < MAIN_FB_PIXELS
            /\ Abort
         \/ /\ new >= MAIN_FB_PIXELS
            /\ Push(new, Word, [at |-> new, len |-> Word, kind |-> "mark"])
            /\ pc' = "run"
            /\ UNCHANGED <<frame, leaked>>

(* Mutants: the header does not count itself; a size of 0 is served. *)
fb_alloc_BareHeader(size) ==
  /\ pc = "run"
  /\ Len(blocks) < MaxBlocks
  /\ size # 0
  /\ LET new == pointer - RoundUp(size) - Word
     IN  /\ new >= MAIN_FB_PIXELS
         /\ Push(new, RoundUp(size),
                 [at |-> new, len |-> RoundUp(size) + Word, kind |-> "data"])
  /\ UNCHANGED <<frame, leaked, pc>>

fb_alloc_Zero(size) ==
  /\ pc = "run"
  /\ Len(blocks) < MaxBlocks
  /\ LET new == pointer - RoundUp(size) - Word
     IN  /\ new >= MAIN_FB_PIXELS
         /\ Push(new, RoundUp(size) + Word,
                 [at |-> new, len |-> RoundUp(size) + Word, kind |-> "data"])
  /\ UNCHANGED <<frame, leaked, pc>>

fb_alloc(size) ==
  /\ pc = "run"
  /\ Len(blocks) < MaxBlocks
  /\ size # 0
  /\ LET new == pointer - RoundUp(size) - Word
     IN  \/ /\ new < MAIN_FB_PIXELS
            /\ Abort
         \/ /\ new >= MAIN_FB_PIXELS
            /\ Push(new, RoundUp(size) + Word,
                    [at |-> new, len |-> RoundUp(size) + Word, kind |-> "data"])
            /\ UNCHANGED <<frame, leaked, pc>>

(***************************************************************************)
(* fb_alloc_all hands out what is left.  The new pointer and the header    *)
(* are computed modulo 2^64; the client is told the unreduced size.  No    *)
(* operation asks for the rest while it already holds it.                  *)
(***************************************************************************)
(* Less than a header is left, and clients come all the same. *)
HeaderFits == "exhausted" \in Api \/ Temp >= 0

HoldsRest == \E i \in leaked + 1 .. Len(blocks) : blocks[i].kind = "rest"

fb_alloc_all ==
  /\ "all" \in Api
  /\ pc = "run"
  /\ Len(blocks) < MaxBlocks
  /\ ~HoldsRest
  /\ Unsigned(Temp) >= Word
  /\ LET size == RoundDown(Unsigned(Temp))
         new  == IF pointer - size < 0 THEN pointer - size + Wrap - Word
                                       ELSE pointer - size - Word
     IN  Push(new, (size + Word) % Wrap,
              [at |-> new, len |-> size + Word, kind |-> "rest"])
  /\ UNCHANGED <<frame, leaked, pc>>

(***************************************************************************)
(* Popping: the header under the pointer says how far.                     *)
(***************************************************************************)
Pop ==
  /\ pointer' = pointer + mem[pointer]
  /\ blocks' = SubSeq(blocks, 1, Len(blocks) - 1)
  /\ UNCHANGED <<mem, frame>>

(* An operation frees the region it allocated last. *)
fb_free ==
  /\ pc = "run"
  /\ blocks[Len(blocks)].kind # "mark"
  /\ pointer < Top
  /\ Pop
  /\ UNCHANGED <<leaked, pc>>

fb_alloc_free_till_mark ==
  /\ pc = "run"
  /\ pc' = "till"
  /\ UNCHANGED <<pointer, mem, frame, blocks, leaked>>

(* Mutant: the loop ends after the first block, mark or not. *)
PopTillMark_One ==
  /\ pc = "till"
  /\ pointer < Top
  /\ Pop
  /\ pc' = "idle"
  /\ UNCHANGED leaked

(* One round of its loop; the first mark ends it, and the operation too    *)
(* when the mark is the one it started with.                               *)
PopTillMark ==
  /\ pc = "till"
  /\ pointer < Top
  /\ Pop
  /\ pc' = CASE mem[pointer] # Word -> "till"
             [] mem[pointer] = Word /\ Len(blocks) - 1 > leaked -> "run"
             [] OTHER -> "idle"
  /\ UNCHANGED leaked

(***************************************************************************)
(* fb_free_all (neural network and selective search, at their end): the    *)
(* blocks of the operation and then those that exceptions left behind, in  *)
(* one loop that follows the headers as they are in memory.                *)
(***************************************************************************)
fb_free_all ==
  /\ "free_all" \in Api
  /\ pc = "run"
  /\ pc' = "all"
  /\ UNCHANGED <<pointer, mem, frame, blocks, leaked>>

(* One round of its loop, and its end.  Over a header that a grown frame   *)
(* overwrote it takes pixels for a size.  Black ones keep it where it is   *)
(* for ever; what others would do is not followed, the model stays too.    *)
PopAll ==
  /\ pc = "all"
  /\ \/ /\ pointer < Top /\ mem[pointer] # 0
        /\ Pop
        /\ leaked' = IF leaked < Len(blocks) THEN leaked ELSE Len(blocks) - 1
        /\ UNCHANGED pc
     \/ pointer < Top /\ mem[pointer] = 0 /\ UNCHANGED vars
     \/ pointer >= Top /\ pc' = "idle" /\ UNCHANGED <<pointer, mem, frame, blocks, leaked>>

(* Any exception raised inside an operation (PY_ASSERT_..., file errors). *)
Raise ==
  /\ "raise" \in Api
  /\ pc = "run"
  /\ Abort

(***************************************************************************)
(* Between operations a snapshot, a load or a copy installs another main   *)
(* frame and writes its pixels.                                            *)
(***************************************************************************)
SetFrame(f) ==
  /\ pc = "idle"
  /\ frame' = f
  /\ mem' = [a \in Headers |-> IF a < image_size(f) THEN 0 ELSE mem[a]]
  /\ UNCHANGED <<pointer, blocks, leaked, pc>>

(* fb_alloc_init0, at boot: main.c forgets everything on the stack. *)
fb_alloc_init0 ==
  /\ pc = "idle"
  /\ pointer' = Top
  /\ blocks' = <<>>
  /\ leaked' = 0
  /\ UNCHANGED <<mem, frame, pc>>

Next ==
  \/ fb_alloc_mark
  \/ \E n \in Sizes : fb_alloc(n)
  \/ HeaderFits /\ fb_alloc_all
  \/ fb_free
  \/ fb_alloc_free_till_mark \/ PopTillMark
  \/ fb_free_all \/ PopAll
  \/ Raise
  \/ \E f \in Frames : SetFrame(f)
  \/ fb_alloc_init0

Spec == Init /\ [][Next]_vars

(* The loops run to their end: they are straight-line code of one core. *)
FairSpec == Spec /\ WF_vars(PopTillMark) /\ WF_vars(PopAll)
=============================================================================
