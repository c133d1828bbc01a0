-------------------------------- MODULE Timer --------------------------------
(***************************************************************************)
(* Interrupt dispatch of one timer device (drivers/timer.c).  Four         *)
(* channels share two interrupt lines, 0 and 1 line "A", 2 and 3 line "B"; *)
(* a handler looks at the status of the whole device, serves every channel *)
(* it finds and clears each one by its own eoi register.  Timers expire    *)
(* while a handler runs.                                                   *)
(*                                                                         *)
(* Both lines have the same priority, as every caller in the repository    *)
(* sets it, so one handler runs at a time.                                 *)
(***************************************************************************)
EXTENDS Integers, FiniteSets

CONSTANTS
  Channels,   \* the channels in use, among 0 .. 3
  Keep,       \* channels whose callback is registered first and for good
  Allow       \* what clients may do besides: "overrun", "mixed" (see below)

ASSUME TimerAssumption ==
  /\ Channels \subseteq 0 .. 3
  /\ Keep \subseteq Channels
  /\ Allow \subseteq {"overrun", "mixed"}

VARIABLES
  running,    \* channels enabled, with their interrupt unmasked
  raw,        \* channels whose interrupt status bit is set
  callback,   \* channels with a callback in timer_instance
  single,     \* channels with single_shot set in timer_instance
  line,       \* what plic_instance calls for each line: "null", "new" or "old"
  enabled,    \* lines enabled in the PLIC
  latched,    \* lines pending in the PLIC
  tick,       \* channels with a function in time_irq
  pc,         \* "idle", or the step of the running handler
  serving,    \* the line whose handler runs
  snap,       \* channel_int_stat: the channels still to serve
  due         \* history: channels that expired and were not delivered since

vars == <<running, raw, callback, single, line, enabled, latched, tick, pc, serving, snap, due>>

Lines == {"A", "B"}

\* get_timer_irqn_by_device_and_channel
LineOf(i) == IF i < 2 THEN "A" ELSE "B"

Lowest(S) == CHOOSE i \in S : \A j \in S : i <= j
Status == raw \cap running
Asserted(stat) == {LineOf(i) : i \in stat}

-----------------------------------------------------------------------------
(* The device. *)

\* Unless "overrun" is allowed, a channel does not expire again between the
\* handler's look at the status and its read of the eoi register.
Expire(i) ==
  /\ i \in running
  /\ "overrun" \in Allow \/ (i \notin snap /\ pc # "isr")
  /\ raw' = raw \cup {i}
  /\ due' = due \cup {i}
  /\ latched' = latched \cup {LineOf(i)}
  /\ UNCHANGED <<running, callback, single, line, enabled, tick, pc, serving, snap>>

-----------------------------------------------------------------------------
(* Driver calls, made outside the handlers.  Unless "mixed" is allowed, a   *)
(* device that serves a client of the older interface (timer_set_irq) has   *)
(* no other channel in use, as with the display timer of machine_ov5640.c.  *)

OldAlone(i) == "mixed" \in Allow \/ (callback = {} /\ tick \cup running \subseteq {i})
NoOld(i) == "mixed" \in Allow \/ tick \subseteq {i}

\* timer_set_enable; a channel that is switched off drops its interrupt.
timer_set_enable(i, on) ==
  /\ pc = "idle"
  /\ NoOld(i)
  /\ running' = IF on = "on" THEN running \cup {i} ELSE running \ {i}
  /\ raw' = IF on = "on" THEN raw ELSE raw \ {i}
  /\ due' = IF on = "on" THEN due ELSE due \ {i}
  /\ UNCHANGED <<callback, single, line, enabled, latched, tick, pc, serving, snap>>

timer_irq_register_NoLine(i, is_single_shot) ==
  /\ pc = "idle"
  /\ tick = {} \/ "mixed" \in Allow
  /\ callback' = callback \cup {i}
  /\ single' = IF is_single_shot = "yes" THEN single \cup {i} ELSE single \ {i}
  /\ UNCHANGED <<running, raw, line, enabled, latched, tick, pc, serving, snap, due>>

timer_irq_register(i, is_single_shot) ==
  /\ pc = "idle"
  /\ tick = {} \/ "mixed" \in Allow
  /\ callback' = callback \cup {i}
  /\ single' = IF is_single_shot = "yes" THEN single \cup {i} ELSE single \ {i}
  /\ line' = [line EXCEPT ![LineOf(i)] = "new"]
  /\ enabled' = enabled \cup {LineOf(i)}
  /\ UNCHANGED <<running, raw, latched, tick, pc, serving, snap, due>>

\* The line is given up when either pair of channels has no callback left;
\* plic_irq_unregister clears the PLIC's callback and leaves the line enabled.
GiveUp_Always(left) == TRUE
GiveUp(left) == left \cap {0, 1} = {} \/ left \cap {2, 3} = {}

timer_irq_unregister(i) ==
  /\ pc = "idle"
  /\ i \notin Keep
  /\ Keep \subseteq callback
  /\ callback' = callback \ {i}
  /\ single' = single \ {i}
  /\ line' = IF GiveUp(callback') THEN [line EXCEPT ![LineOf(i)] = "null"] ELSE line
  /\ UNCHANGED <<running, raw, enabled, latched, tick, pc, serving, snap, due>>

\* timer_set_irq: the older interface, with its own table and handler.
timer_set_irq(i) ==
  /\ pc = "idle"
  /\ OldAlone(i)
  /\ tick' = tick \cup {i}
  /\ line' = [line EXCEPT ![LineOf(i)] = "old"]
  /\ enabled' = enabled \cup {LineOf(i)}
  /\ UNCHANGED <<running, raw, callback, single, latched, pc, serving, snap, due>>

-----------------------------------------------------------------------------
(* timer_interrupt_handler *)

\* The line's completion: a level still asserted is latched again.
Complete(stat) ==
  /\ latched' = (latched \ {serving}) \cup Asserted(stat)
  /\ pc' = "idle"

Snapshot(l) ==
  /\ pc = "idle"
  /\ l \in latched \cap enabled
  /\ line[l] = "new"
  /\ serving' = l
  /\ snap' = Status
  /\ pc' = "scan"
  /\ UNCHANGED <<running, raw, callback, single, line, enabled, latched, tick, due>>

\* The next channel found pending: its callback, if it has one.
Deliver ==
  /\ pc = "scan"
  /\ snap # {}
  /\ due' = due \ {Lowest(snap)}
  /\ pc' = "eoi"
  /\ UNCHANGED <<running, raw, callback, single, line, enabled, latched, tick, serving, snap>>

\* A single shot timer is switched off; then the channel's eoi is read.
Eoi_Device ==
  /\ pc = "eoi"
  /\ running' = running \ ({Lowest(snap)} \cap single \cap callback)
  /\ raw' = {}
  /\ snap' = snap \ {Lowest(snap)}
  /\ pc' = "scan"
  /\ UNCHANGED <<callback, single, line, enabled, latched, tick, serving, due>>

Eoi_Missing ==
  /\ pc = "eoi"
  /\ running' = running \ ({Lowest(snap)} \cap single \cap callback)
  /\ raw' = raw
  /\ snap' = snap \ {Lowest(snap)}
  /\ pc' = "scan"
  /\ UNCHANGED <<callback, single, line, enabled, latched, tick, serving, due>>

Eoi ==
  /\ pc = "eoi"
  /\ running' = running \ ({Lowest(snap)} \cap single \cap callback)
  /\ raw' = raw \ {Lowest(snap)}
  /\ snap' = snap \ {Lowest(snap)}
  /\ pc' = "scan"
  /\ UNCHANGED <<callback, single, line, enabled, latched, tick, serving, due>>

Return ==
  /\ pc = "scan"
  /\ snap = {}
  /\ Complete(Status)
  /\ UNCHANGED <<running, raw, callback, single, line, enabled, tick, serving, snap, due>>

\* handle_irq_m_ext on an enabled line without callback: claim and complete.
ClaimNothing(l) ==
  /\ pc = "idle"
  /\ l \in latched \cap enabled
  /\ line[l] = "null"
  /\ latched' = (latched \ {l}) \cup Asserted(Status)
  /\ UNCHANGED <<running, raw, callback, single, line, enabled, tick, pc, serving, snap, due>>

-----------------------------------------------------------------------------
(* timer_isr, the handler behind timer_set_irq: it serves the lowest        *)
(* pending channel only and then reads the eoi of the whole device.         *)

IsrDeliver(l) ==
  /\ pc = "idle"
  /\ l \in latched \cap enabled
  /\ line[l] = "old"
  /\ serving' = l
  /\ snap' = IF Status = {} THEN {} ELSE {Lowest(Status)}
  /\ due' = due \ snap'
  /\ pc' = "isr"
  /\ UNCHANGED <<running, raw, callback, single, line, enabled, latched, tick>>

IsrEoi ==
  /\ pc = "isr"
  /\ raw' = {}
  /\ snap' = {}
  /\ Complete({})
  /\ UNCHANGED <<running, callback, single, line, enabled, tick, serving, due>>

-----------------------------------------------------------------------------
\* After timer_init.
Init ==
  /\ running = {}
  /\ raw = {}
  /\ callback = {}
  /\ single = {}
  /\ line = [l \in Lines |-> "null"]
  /\ enabled = {}
  /\ latched = {}
  /\ tick = {}
  /\ pc = "idle"
  /\ serving = "A"
  /\ snap = {}
  /\ due = {}

Handler ==
  \/ \E l \in Lines : Snapshot(l) \/ ClaimNothing(l) \/ IsrDeliver(l)
  \/ Deliver \/ Eoi \/ Return \/ IsrEoi

Next ==
  \/ Handler
  \/ \E i \in Channels :
       \/ Expire(i)
       \/ \E on \in {"on", "off"} : timer_set_enable(i, on)
       \/ \E is_single_shot \in {"yes", "no"} : timer_irq_register(i, is_single_shot)
       \/ timer_irq_unregister(i)
       \/ timer_set_irq(i)

Spec == Init /\ [][Next]_vars

\* A pending interrupt is taken and handlers run to their end.
FairSpec == Spec /\ \A l \in Lines : SF_vars(Snapshot(l)) /\ SF_vars(IsrDeliver(l))
                 /\ WF_vars(Deliver \/ Eoi \/ Return \/ IsrEoi)
=============================================================================
