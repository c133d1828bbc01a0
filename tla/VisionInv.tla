------------------------------ MODULE VisionInv ------------------------------
(* What must hold of the camera, the display and the face detector. *)
EXTENDS Vision, FiniteSets

(***************************************************************************)
(* dvp_lcd_show draws a buffer only once the camera has filled it since    *)
(* the last init: g_ram_mux, flipped by the display, and the address the   *)
(* camera interrupt derives from it stay in step, wherever in dvp_lcd_show *)
(* the interrupt comes.                                                    *)
(***************************************************************************)
DrawsFilledBuffer == show = "draw" => Drawn \in filled

(***************************************************************************)
(* The accelerator gets every layer of an image once and in order, and     *)
(* none before the image: layers pushed by the DMA interrupt and by the    *)
(* accelerator's interrupt never mix with those of the next image.         *)
(***************************************************************************)
LayersInOrder ==
    LET pushed == computed \o kpu.fifo
    IN  /\ pushed = Layers(1, Len(pushed))
        /\ kpu.fifo # <<>> => kpu.image = image
        /\ buf_status = 2 => computed = Layers(1, ai_param_layer)

\* Boxes kept of class k when the network saw scene s: no two of them
\* overlap, and each one dropped overlaps one as probable that was kept.
Keeps(kept, s, k) ==
    LET found == {b \in Boxes : s[b][k] > Threshold}
    IN  /\ kept \subseteq found
        /\ \A a, b \in kept : a # b => <<a, b>> \notin Overlap
        /\ \A b \in found \ kept :
              \E a \in kept : <<a, b>> \in Overlap /\ s[a][k] >= s[b][k]

\* Objects that are a right answer for scene s.
Detects(objects, s) ==
    \E kept \in [Classes -> SUBSET Boxes] :
        /\ \A k \in Classes : Keeps(kept[k], s, k)
        /\ LET some == {b \in Boxes : \E k \in Classes : b \in kept[k]}
           IN  /\ Len(objects) = IF Cardinality(some) < MaxObjects THEN Cardinality(some) ELSE MaxObjects
               /\ \A i \in 1 .. Len(objects) :
                    LET b == objects[i].box
                        c == objects[i].class
                    IN  /\ b \in some
                        /\ Cardinality({a \in some : a < b}) = i - 1
                        /\ b \in kept[c]
                        /\ \A k \in Classes : b \in kept[k] =>
                              s[b][c] > s[b][k] \/ (s[b][c] = s[b][k] /\ c <= k)

(***************************************************************************)
(* The objects machine_ai_process_image draws are those of the image of    *)
(* the call before (of uninitialised memory at first): the result it reads *)
(* is complete and not yet being overwritten, and non-maximum suppression  *)
(* keeps of each class a set of boxes without overlaps that leaves nothing *)
(* out.  That they are the previous image's follows from what buf_status 1 *)
(* stands for; CalculationAwaited is what the comments take it for.        *)
(***************************************************************************)
LabelsOfPreviousImage ==
    step \in {"second", "output"} => Detects(object_info, before)

(***************************************************************************)
(* machine_ai_process_image, "wait ai cal completed", and ai_dma_irq,      *)
(* "wait ai cal completed flag": when the loop on buf_status 1 is over and *)
(* the result is evaluated, the accelerator has computed every layer of    *)
(* the image.                                                              *)
(***************************************************************************)
CalculationAwaited ==
    step = "second" => computed = Layers(1, ai_param_layer)

(***************************************************************************)
(* dvp_lcd_show, which waits for a flag inside its interrupt, returns      *)
(* unless the camera's interrupt has been switched off.                    *)
(***************************************************************************)
ShowEnds == [](show # "idle" => <>(show = "idle" \/ "DVP" \notin enabled))

(***************************************************************************)
(* machine_ai_process_image returns, unless its interrupt was taken away   *)
(* by lcd_init, the display loop hangs on a camera that is off, or layers  *)
(* of a network larger than the fifo were lost: ai_irq, called at once on  *)
(* a stale status, finds the first layers still there.                     *)
(***************************************************************************)
LayersLost ==
    /\ ai_param_layer > FifoLayers
    /\ buf_status = 1 /\ kpu.masked
    /\ Len(computed) + Len(kpu.fifo) \in FirstLayers + 1 .. ai_param_layer - 1

ProcessEnds ==
    [](step # "idle" =>
         <>(\/ step = "idle"
            \/ LayersLost
            \/ "AI_DMA" \notin enabled
            \/ InParts /\ "AI" \notin enabled
            \/ show # "idle" /\ "DVP" \notin enabled))

-----------------------------------------------------------------------------
(***************************************************************************)
(* Inductive invariant of the camera and its display loop.                 *)
(***************************************************************************)
Both == {0, 1}

CameraTypeOK ==
    /\ dvp \in [clock : BOOLEAN, start : BOOLEAN, finish : BOOLEAN, busy : BOOLEAN, rgb_addr : Both]
    /\ g_dvp_finish_flag \in Both
    /\ g_ram_mux \in Both
    /\ show \in {"idle", "wait", "seen", "flip", "draw"}
    /\ starting \in BOOLEAN

\* dvp_lcd_show has a frame to take, or has taken one and not yet flipped.
FrameTaken == g_dvp_finish_flag # 0 \/ show \in {"seen", "flip"}

\* The buffer dvp_lcd_show will draw is g_ram_mux before it flips.
ToDraw ==
    /\ FrameTaken => g_ram_mux \in filled
    /\ show = "draw" => 1 - g_ram_mux \in filled
    /\ show = "flip" /\ g_dvp_finish_flag # 0 => Both \subseteq filled
    /\ dvp.finish => dvp.rgb_addr \in filled

\* The camera fills g_ram_mux, unless that buffer has been filled; with a
\* frame to take it fills the other one, unless both have been.
ToFill ==
    /\ dvp.rgb_addr = g_ram_mux \/ g_ram_mux \in filled
    /\ FrameTaken => dvp.rgb_addr = 1 - g_ram_mux \/ Both \subseteq filled

\* dvp_init has reset the interface and keeps its interrupts off.
ResetWhileStarting ==
    /\ "DVP" \notin enabled
    /\ ~dvp.busy /\ ~dvp.finish /\ dvp.rgb_addr = 0

CameraIInv ==
    /\ CameraTypeOK
    /\ ToDraw
    /\ IF starting THEN ResetWhileStarting ELSE ToFill

-----------------------------------------------------------------------------
(***************************************************************************)
(* Inductive invariant of machine_ai_process_image, the two interrupts and *)
(* the devices behind them.                                                *)
(***************************************************************************)
Pictures == Images \cup Scenes \cup {NoScene}

PipeTypeOK ==
    /\ ai_param_layer \in Nat
    /\ kpu \in [image : Pictures, fifo : Seq(Nat), masked : BOOLEAN, raw : BOOLEAN,
                result : Seq(Pictures)]
    /\ computed \in Seq(Nat)
    /\ ai_buf \in Pictures /\ image \in Pictures /\ before \in Pictures /\ input_data \in Pictures

\* Nothing has been pushed and the interrupt for the rest is masked.
Empty == kpu.fifo = <<>> /\ kpu.masked /\ kpu.result = <<>>

\* All layers of the image have been computed, and none is left.
Finished == kpu.fifo = <<>> /\ kpu.masked /\ computed = Layers(1, ai_param_layer)

\* The first layers have been pushed, or all the fifo took; the result is
\* there once the last has been computed.
Fed ==
    /\ kpu.image = image
    /\ Len(kpu.fifo) <= FifoLayers
    /\ \E m \in 0 .. ai_param_layer :
          /\ computed \o kpu.fifo = Layers(1, m)
          /\ ~kpu.masked => InParts /\ m = FirstLayers
    /\ kpu.result \in {<<>>, <<image>>}
    /\ kpu.result # <<>> => Finished

\* machine_ai_process_image is not running.
Resting ==
    /\ step = "idle" /\ dma = "none" /\ ~dma_intstatus /\ Empty /\ input_data = image
    /\ \/ buf_status = 0 /\ computed = <<>>
       \/ buf_status \in {0, 2} /\ computed = Layers(1, ai_param_layer)

\* The image is on its way to the accelerator, or there.
Sending ==
    /\ step = "started" /\ buf_status = 0 /\ Empty /\ computed = <<>> /\ input_data = before
    /\ \/ dma = "input" /\ ~dma_intstatus /\ ai_buf = image
       \/ dma = "none" /\ dma_intstatus /\ kpu.image = image

\* The accelerator computes; at the end the caller waits for its result.
Computing ==
    /\ ~dma_intstatus /\ buf_status = 1 /\ Fed /\ input_data = before
    /\ \/ step \in {"started", "second"} /\ dma = "none"
       \/ step = "output" /\ dma = "output"

\* The result has arrived, and its interrupt may have been handled.
Arrived ==
    /\ step = "output" /\ dma = "none" /\ Finished /\ Empty /\ input_data = image
    /\ \/ dma_intstatus /\ buf_status = 1
       \/ ~dma_intstatus /\ buf_status = 2

\* The caller has the objects of the image before.
Labelled ==
    /\ ai_param_layer # 0 => image \in Images \cup Scenes
    /\ step # "idle" => ai_param_layer # 0 /\ before \in Images \cup Scenes
    /\ step \in {"second", "output"} => object_info \in Answers[before]

PipeIInv ==
    /\ PipeTypeOK
    /\ Resting \/ Sending \/ Computing \/ Arrived
    /\ Labelled
==============================================================================
