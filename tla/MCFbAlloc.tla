----------------------------- MODULE MCFbAlloc ------------------------------
(***************************************************************************)
(* Instances of FbAlloc: a g_framebuffer of a few words, with frames whose *)
(* sizes are and are not a multiple of the word.                           *)
(***************************************************************************)
EXTENDS FbAllocInv

Gray(w, h) == [w |-> w, h |-> h, bpp |-> 1]

\* 0, 13, 24 and 56 bytes of pixels: none, unaligned, RGB565, nearly full
MixedFrames == {Gray(0, 0), Gray(13, 1), [w |-> 3, h |-> 4, bpp |-> 2],
                [w |-> 7, h |-> 8, bpp |-> 3]}
=============================================================================
