------------------------------- MODULE Camera -------------------------------
(***************************************************************************)
(* The camera and its display loop (machine_ov5640.c): the camera writes   *)
(* frames into two buffers in turn, its interrupt at the end of a frame    *)
(* picks the buffer of the next one and starts a timer, and the timer's    *)
(* handler, dvp_lcd_show, draws the frame.  The camera interrupt has the   *)
(* higher priority and interrupts dvp_lcd_show between any two of its      *)
(* steps; dvp_lcd_show waits, inside its interrupt, for a flag the other   *)
(* one sets.                                                               *)
(***************************************************************************)
EXTENDS Integers

VARIABLES
    dvp,                \* the camera interface: [clock, start, finish, busy, rgb_addr]
    g_dvp_finish_flag,
    g_ram_mux,
    timer,              \* TRUE when channel 0 of timer 0 is enabled
    callback,           \* TRUE when on_irq_dvp_callbck_func is dvp_show_start
    lcd_init_flag,
    show,               \* where dvp_lcd_show is; "idle" when it does not run
    starting,           \* TRUE while machine_ov5640_init_helper runs
    enabled,            \* the interrupts enabled in the PLIC
    filled              \* history: the buffers filled since the last init

camVars == <<dvp, g_dvp_finish_flag, g_ram_mux, timer, callback, lcd_init_flag, show, starting, filled>>

CamInit ==
    /\ dvp = [clock |-> FALSE, start |-> FALSE, finish |-> FALSE, busy |-> FALSE, rgb_addr |-> 0]
    /\ g_dvp_finish_flag = 0
    /\ g_ram_mux = 0
    /\ timer = FALSE
    /\ callback = FALSE
    /\ lcd_init_flag = FALSE
    /\ show = "idle"
    /\ starting = FALSE
    /\ filled = {}

\* The calls of plic_set_priority.
Priority(irq) == IF irq = "DVP" THEN 2 ELSE 1

\* The priority the core runs at: that of dvp_lcd_show, or of no interrupt.
Level == IF show = "idle" THEN 0 ELSE Priority("TIMER")

Preempts(irq) == irq \in enabled /\ Priority(irq) > Level

-----------------------------------------------------------------------------
(* The sensor and the interface (dvp.c). *)

FrameStart ==
    /\ dvp.clock /\ ~dvp.busy /\ ~dvp.start
    /\ dvp' = [dvp EXCEPT !.start = TRUE]
    /\ UNCHANGED <<g_dvp_finish_flag, g_ram_mux, timer, callback, lcd_init_flag, show, starting, filled>>

FrameFinish ==
    /\ dvp.clock /\ dvp.busy
    /\ dvp' = [dvp EXCEPT !.busy = FALSE, !.finish = TRUE]
    /\ filled' = filled \cup {dvp.rgb_addr}
    /\ UNCHANGED <<g_dvp_finish_flag, g_ram_mux, timer, callback, lcd_init_flag, show, starting>>

-----------------------------------------------------------------------------
(* The interrupts. *)

(* Mutant: the next frame goes to the buffer the display draws next. *)
NextBuffer_Shown == IF g_ram_mux = 1 THEN 1 ELSE 0

\* The buffer on_irq_dvp gives to the camera.
NextBuffer == IF g_ram_mux = 1 THEN 0 ELSE 1

\* End of a frame first: a frame that starts at the same time waits for the
\* next interrupt.
on_irq_dvp ==
    /\ Preempts("DVP")
    /\ dvp.start \/ dvp.finish
    /\ IF dvp.finish
       THEN /\ dvp' = [dvp EXCEPT !.finish = FALSE, !.rgb_addr = NextBuffer]
            /\ g_dvp_finish_flag' = 1
            /\ IF callback /\ lcd_init_flag
               THEN timer' = TRUE /\ enabled' = enabled \cup {"TIMER"}    \* dvp_show_start
               ELSE UNCHANGED <<timer, enabled>>
       ELSE /\ dvp' = [dvp EXCEPT !.start = FALSE, !.busy = TRUE]         \* dvp_start_convert
            /\ UNCHANGED <<g_dvp_finish_flag, timer, enabled>>
    /\ UNCHANGED <<g_ram_mux, callback, lcd_init_flag, show, starting, filled>>

\* dvp_lcd_show, called by timer_isr when the timer has expired.
ShowEnter ==
    /\ timer /\ show = "idle" /\ Preempts("TIMER")
    /\ timer' = FALSE
    /\ show' = "wait"
    /\ UNCHANGED <<dvp, g_dvp_finish_flag, g_ram_mux, callback, lcd_init_flag, starting, enabled, filled>>

(* Mutant: waits for the flag to be clear. *)
ShowWait_Inverted ==
    /\ show = "wait"
    /\ g_dvp_finish_flag = 0
    /\ show' = "seen"
    /\ UNCHANGED <<dvp, g_dvp_finish_flag, g_ram_mux, timer, callback, lcd_init_flag, starting, enabled, filled>>

ShowWait ==
    /\ show = "wait"
    /\ g_dvp_finish_flag # 0
    /\ show' = "seen"
    /\ UNCHANGED <<dvp, g_dvp_finish_flag, g_ram_mux, timer, callback, lcd_init_flag, starting, enabled, filled>>

ShowTake ==
    /\ show = "seen"
    /\ g_dvp_finish_flag' = 0
    /\ show' = "flip"
    /\ UNCHANGED <<dvp, g_ram_mux, timer, callback, lcd_init_flag, starting, enabled, filled>>

ShowFlip ==
    /\ show = "flip"
    /\ g_ram_mux' = 1 - g_ram_mux
    /\ show' = "draw"
    /\ UNCHANGED <<dvp, g_dvp_finish_flag, timer, callback, lcd_init_flag, starting, enabled, filled>>

\* The buffer lcd_draw_picture reads.
Drawn == IF g_ram_mux = 1 THEN 0 ELSE 1

ShowReturn ==
    /\ show = "draw"
    /\ show' = "idle"
    /\ UNCHANGED <<dvp, g_dvp_finish_flag, g_ram_mux, timer, callback, lcd_init_flag, starting, enabled, filled>>

dvp_lcd_show == ShowWait \/ ShowTake \/ ShowFlip \/ ShowReturn

-----------------------------------------------------------------------------
(* Calls of the program. *)

\* dvp_init resets the interface, and its interrupts with it, and then waits
\* 800 ms for the sensor.
machine_ov5640_init ==
    /\ ~starting
    /\ starting' = TRUE
    /\ dvp' = [clock |-> TRUE, start |-> FALSE, finish |-> FALSE, busy |-> FALSE, rgb_addr |-> 0]
    /\ enabled' = enabled \ {"DVP"}
    /\ UNCHANGED <<g_dvp_finish_flag, g_ram_mux, timer, callback, lcd_init_flag, show, filled>>

\* The rest of it.  800 ms are enough for a timer of 100 ns.
CameraStart ==
    /\ starting /\ ~(timer /\ Preempts("TIMER"))
    /\ starting' = FALSE
    /\ g_ram_mux' = 0
    /\ g_dvp_finish_flag' = 0
    /\ dvp' = [dvp EXCEPT !.start = FALSE, !.finish = FALSE]
    /\ enabled' = enabled \cup {"DVP"}
    /\ filled' = {}
    /\ UNCHANGED <<timer, callback, lcd_init_flag, show>>

machine_ov5640_lcdshow ==
    /\ ~starting
    /\ callback' = TRUE
    /\ UNCHANGED <<dvp, g_dvp_finish_flag, g_ram_mux, timer, lcd_init_flag, show, starting, enabled, filled>>

machine_ov5640_disable ==
    /\ ~starting
    /\ dvp' = [dvp EXCEPT !.clock = FALSE]
    /\ enabled' = enabled \ {"DVP"}
    /\ UNCHANGED <<g_dvp_finish_flag, g_ram_mux, timer, callback, lcd_init_flag, show, starting, filled>>

\* machine_init_helper of the display: its plic_init disables every
\* interrupt the core has enabled.
lcd_init ==
    /\ ~starting
    /\ enabled' = {}
    /\ lcd_init_flag' = TRUE
    /\ UNCHANGED <<dvp, g_dvp_finish_flag, g_ram_mux, timer, callback, show, starting, filled>>
=============================================================================
