------------------------------- MODULE Vision -------------------------------
(***************************************************************************)
(* Camera, display and face detection on one core: the program calls one   *)
(* after the other, their interrupts come in between and, by priority,     *)
(* over each other.  Interrupt handlers that nothing can interrupt are     *)
(* single steps.                                                           *)
(***************************************************************************)
EXTENDS FaceDetect

vars == <<camVars, enabled, aiVars>>

Init == CamInit /\ AiInit /\ enabled = {}

Hardware ==
    \/ (FrameStart \/ FrameFinish) /\ UNCHANGED <<enabled, aiVars>>
    \/ (InputDone \/ ExecuteLayer \/ AlmostEmpty \/ OutputDone)
       /\ UNCHANGED <<camVars, enabled>>

Interrupt ==
    \/ (on_irq_dvp \/ ShowEnter) /\ UNCHANGED aiVars
    \/ (ai_dma_irq \/ ai_irq) /\ UNCHANGED <<camVars, enabled>>

Show == dvp_lcd_show /\ UNCHANGED aiVars

\* The program runs when no interrupt handler does.
CameraCalls ==
    /\ Level = 0 /\ step = "idle"
    /\ \/ machine_ov5640_init \/ CameraStart \/ machine_ov5640_lcdshow
       \/ machine_ov5640_disable \/ lcd_init
    /\ UNCHANGED aiVars

\* A first init that fails only prints a line; machine_ai_process_image does
\* not look whether there is a network.  Programs that call it all the same
\* are left out.
Initialised == ai_param_layer # 0

AiCalls ==
    /\ Level = 0 /\ ~starting
    /\ \/ machine_ai_init /\ UNCHANGED camVars
       \/ /\ Initialised
          /\ \E im \in Images : machine_ai_process_image(im)
          /\ UNCHANGED <<camVars, enabled>>

Processing ==
    /\ Level = 0
    /\ ai_cal \/ ai_data_output \/ ai_draw_label
    /\ UNCHANGED <<camVars, enabled>>

Next == Hardware \/ Interrupt \/ Show \/ CameraCalls \/ AiCalls \/ Processing

Spec == Init /\ [][Next]_vars

\* Devices finish what they began, the sensor keeps producing frames, an
\* interrupt that may be taken is taken, and a handler runs on.  The program
\* gets on whenever it is back again and again between interrupts; whether
\* it calls anything is its own affair.
FairSpec ==
    /\ Spec
    /\ WF_vars(FrameStart /\ UNCHANGED <<enabled, aiVars>>)
    /\ WF_vars(FrameFinish /\ UNCHANGED <<enabled, aiVars>>)
    /\ WF_vars((InputDone \/ ExecuteLayer \/ AlmostEmpty \/ OutputDone)
               /\ UNCHANGED <<camVars, enabled>>)
    /\ WF_vars(on_irq_dvp /\ UNCHANGED aiVars)
    /\ SF_vars((ai_dma_irq \/ ai_irq) /\ UNCHANGED <<camVars, enabled>>)
    /\ WF_vars(Show)
    /\ SF_vars(Processing)
=============================================================================
