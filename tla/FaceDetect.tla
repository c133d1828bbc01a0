----------------------------- MODULE FaceDetect -----------------------------
(***************************************************************************)
(* Face detection (machine_face_detect.c, board-drivers/face_detect.c).    *)
(* One DMA channel carries an image to the accelerator and later its       *)
(* result back; the channel's interrupt feeds the accelerator the layers   *)
(* of the network and counts buf_status up, which the caller polls.        *)
(* Networks of more than FirstLayers + 1 layers are fed in two parts, the  *)
(* second by the accelerator's own interrupt.  The caller works on the     *)
(* previous result while the accelerator computes.                         *)
(*                                                                         *)
(* An image is the scene the network sees in it.  imge_buf_convert unpacks *)
(* pixels and is left out, as is the layout of the layers' registers.      *)
(***************************************************************************)
EXTENDS RegionLayer, Camera

CONSTANTS
    FirstLayers,  \* 12
    FifoLayers,   \* layers the fifo of the accelerator holds
    LayerCounts,  \* numbers of layers of the models on the flash
    Images,       \* scenes the program takes pictures of
    Scenes        \* what the memory of the result may hold when it is new

ASSUME FaceDetectAssumption ==
    /\ FirstLayers \in Nat /\ LayerCounts \subseteq Nat \ {0}
    \* ai_cal_start pushes up to this many at once into an empty fifo
    /\ FifoLayers \in Nat /\ FirstLayers + 1 <= FifoLayers
    /\ Images \cup Scenes \subseteq [Boxes -> [Classes -> Nat]]

VARIABLES
    ai_param_layer,  \* ai_param.layer; 0 before a successful init
    step,            \* where machine_ai_process_image is
    buf_status,
    ai_buf,          \* the converted image
    dma,             \* the transfer in progress: "none", "input" or "output"
    dma_intstatus,   \* TRUE when a transfer has completed
    kpu,             \* the accelerator: [image, fifo, masked, raw, result]
    input_data,      \* region_param->input_data
    object_info,
    image,           \* history: the image of the current or last call
    before,          \* history: what was in its place one call earlier
    computed         \* history: the layers computed for the image

aiVars == <<ai_param_layer, step, buf_status, ai_buf, dma, dma_intstatus, kpu, input_data, object_info, image, before, computed>>
pipeVars == <<ai_buf, dma, dma_intstatus, kpu, input_data, object_info, image, before, computed>>

\* What region_layer_cal_first and _second and region_layer_detect_object
\* may find in each of the scenes.
Answers ==
    [s \in Images \cup Scenes |->
        IF OutputFits
        THEN {region_layer_detect_object(p) : p \in do_nms_sort(get_region_boxes(s))}
        ELSE AnyObjects]

NoScene == [b \in Boxes |-> [k \in Classes |-> 0]]

AiInit ==
    /\ ai_param_layer = 0
    /\ step = "idle"
    /\ buf_status = 0
    /\ ai_buf = NoScene
    /\ dma = "none"
    /\ dma_intstatus = FALSE
    /\ kpu = [image |-> NoScene, fifo |-> <<>>, masked |-> TRUE, raw |-> FALSE, result |-> <<>>]
    /\ input_data = NoScene
    /\ object_info = <<>>
    /\ image = NoScene
    /\ before = NoScene
    /\ computed = <<>>

Layers(i, j) == [n \in 1 .. j - i + 1 |-> i + n - 1]
InParts == ai_param_layer > FirstLayers + 1

\* Layers i to j written to cfg_fifo.  What the accelerator does with a write
\* to a full fifo is not in the repository: it is taken to drop it.
LastTaken(i, j) ==
    LET room == FifoLayers - Len(kpu.fifo)
    IN  IF j - i + 1 <= room THEN j ELSE i - 1 + room
Push(i, j) == kpu.fifo \o Layers(i, LastTaken(i, j))

-----------------------------------------------------------------------------
(* The hardware: DMA channel and accelerator. *)

InputDone ==
    /\ dma = "input" /\ ~dma_intstatus
    /\ kpu' = [kpu EXCEPT !.image = ai_buf]
    /\ dma' = "none"
    /\ dma_intstatus' = TRUE
    /\ UNCHANGED <<ai_param_layer, step, buf_status, ai_buf, input_data, object_info, image, before, computed>>

\* The accelerator executes a layer; the last one makes the result
\* available.
ExecuteLayer ==
    /\ kpu.fifo # <<>>
    /\ computed' = Append(computed, Head(kpu.fifo))
    /\ kpu' = [kpu EXCEPT !.fifo = Tail(kpu.fifo),
                          !.result = IF Head(kpu.fifo) = ai_param_layer THEN <<kpu.image>> ELSE @]
    /\ UNCHANGED <<ai_param_layer, step, buf_status, ai_buf, dma, dma_intstatus, input_data, object_info, image, before>>

\* The fifo is found almost empty.  fifo_threshold 0x10 is, by the fields of
\* kpu.h, an empty threshold of 1: at most one layer is left.  The status
\* stays until it is cleared, whatever is pushed meanwhile.
AlmostEmpty ==
    /\ Len(kpu.fifo) <= 1 /\ ~kpu.raw
    /\ kpu' = [kpu EXCEPT !.raw = TRUE]
    /\ UNCHANGED <<ai_param_layer, step, buf_status, ai_buf, dma, dma_intstatus, input_data, object_info, image, before, computed>>

OutputDone ==
    /\ dma = "output" /\ ~dma_intstatus
    /\ kpu.result # <<>>
    /\ input_data' = kpu.result[1]
    /\ kpu' = [kpu EXCEPT !.result = <<>>]
    /\ dma' = "none"
    /\ dma_intstatus' = TRUE
    /\ UNCHANGED <<ai_param_layer, step, buf_status, ai_buf, object_info, image, before, computed>>

-----------------------------------------------------------------------------
(* The interrupts, both of the lowest priority. *)

(* Mutant: the interrupt that asks for the remaining layers stays masked. *)
ai_cal_start_Masked ==
    [kpu EXCEPT !.fifo = Push(1, IF InParts THEN FirstLayers ELSE ai_param_layer)]

\* ai_cal_start: the accelerator with the first layers in its fifo.  The
\* interrupt for the rest is unmasked without clearing its status, which may
\* be left from the time the fifo was empty.
ai_cal_start ==
    IF InParts
    THEN [kpu EXCEPT !.fifo = Push(1, FirstLayers), !.masked = FALSE]
    ELSE [kpu EXCEPT !.fifo = Push(1, ai_param_layer)]

ai_dma_irq ==
    /\ dma_intstatus /\ Preempts("AI_DMA")
    /\ IF buf_status = 0 THEN kpu' = ai_cal_start /\ buf_status' = 1
       ELSE /\ buf_status' = IF buf_status = 1 THEN 2 ELSE buf_status
            /\ UNCHANGED kpu
    /\ dma_intstatus' = FALSE
    /\ UNCHANGED <<ai_param_layer, step, ai_buf, dma, input_data, object_info, image, before, computed>>

(* Mutant: the interrupt is not masked again. *)
ai_irq_Unmasked ==
    /\ kpu.raw /\ ~kpu.masked /\ Preempts("AI")
    /\ kpu' = [kpu EXCEPT !.raw = FALSE,
                          !.fifo = Push(FirstLayers + 1, ai_param_layer)]
    /\ UNCHANGED <<ai_param_layer, step, buf_status, ai_buf, dma, dma_intstatus, input_data, object_info, image, before, computed>>

ai_irq ==
    /\ kpu.raw /\ ~kpu.masked /\ Preempts("AI")
    /\ kpu' = [kpu EXCEPT !.masked = TRUE, !.raw = FALSE,
                          !.fifo = Push(FirstLayers + 1, ai_param_layer)]
    /\ UNCHANGED <<ai_param_layer, step, buf_status, ai_buf, dma, dma_intstatus, input_data, object_info, image, before, computed>>

-----------------------------------------------------------------------------
(* Calls of the program. *)

\* machine_ai_init_helper.  ai_init reads the model from the flash, and
\* leaves the one it had when it finds none there; the new result buffer is
\* not initialised.
machine_ai_init ==
    /\ step = "idle"
    /\ \/ /\ \E n \in LayerCounts, s \in Scenes :
                /\ ai_param_layer' = n
                /\ input_data' = s
                /\ image' = s /\ before' = NoScene /\ computed' = <<>>
                /\ enabled' = enabled \cup {"AI_DMA"} \cup IF n > FirstLayers + 1 THEN {"AI"} ELSE {}
          /\ kpu' = [kpu EXCEPT !.masked = TRUE, !.raw = FALSE]
          /\ dma_intstatus' = FALSE
       \/ UNCHANGED <<ai_param_layer, input_data, image, before, computed, enabled, kpu, dma_intstatus>>
    /\ buf_status' = 0
    /\ object_info' = <<>>
    /\ UNCHANGED <<step, ai_buf, dma>>

machine_ai_process_image(im) ==
    /\ step = "idle"
    /\ buf_status' = 0
    /\ ai_buf' = im
    /\ dma' = "input"                                      \* ai_data_input
    /\ step' = "started"
    /\ image' = im /\ before' = image /\ computed' = <<>>
    /\ UNCHANGED <<ai_param_layer, dma_intstatus, kpu, input_data, object_info>>

\* while(1 != self->buf_status), then ai_cal_first and ai_cal_second.  1 says
\* that the image has arrived and the layers are in the fifo, not that they
\* are computed: both work on the previous result.
ai_cal ==
    /\ step = "started" /\ buf_status = 1
    /\ object_info' \in Answers[input_data]
    /\ step' = "second"
    /\ UNCHANGED <<ai_param_layer, buf_status, ai_buf, dma, dma_intstatus, kpu, input_data, image, before, computed>>

ai_data_output ==
    /\ step = "second"
    /\ dma' = "output"
    /\ step' = "output"
    /\ UNCHANGED <<ai_param_layer, buf_status, ai_buf, dma_intstatus, kpu, input_data, object_info, image, before, computed>>

\* while(2 != self->buf_status); then the objects are drawn into the image,
\* which changes nothing here.
ai_draw_label ==
    /\ step = "output" /\ buf_status = 2
    /\ step' = "idle"
    /\ UNCHANGED <<ai_param_layer, buf_status, pipeVars>>
=============================================================================
