----------------------------- MODULE Interrupts -----------------------------
(***************************************************************************)
(* Interrupt handling of the K210 BSP: the three trap handlers             *)
(* handle_irq_m_ext (drivers/plic.c), handle_irq_m_timer and               *)
(* handle_irq_m_soft (drivers/clint.c), the driver calls that configure    *)
(* them, and the platform interrupt controller (PLIC) behind them.         *)
(*                                                                         *)
(* Each handler runs its callback with interrupts enabled again, so        *)
(* handlers nest.  What keeps the nesting finite and in order are three    *)
(* registers the handlers save and restore by hand: the PLIC threshold,    *)
(* the mie mask, and the global enable bit.  The model keeps one stack of  *)
(* handler frames per core; a frame is between two of the handler's        *)
(* accesses to shared registers.                                           *)
(***************************************************************************)
EXTENDS Integers, Sequences, FiniteSets

CONSTANTS
  Cores,        \* the two harts, each with its own handlers and stack
  Sources,      \* PLIC interrupt numbers in use, positive
  MaxPriority,  \* the PLIC's highest priority
  Shared,       \* "yes" if a source may be enabled on two cores
  BaseApi,      \* driver calls each core makes outside handlers
  CallbackApi,  \* driver calls made inside callbacks
  MaxDepth      \* bound on the stack of handler frames

ASSUME InterruptsAssumption ==
  /\ Sources \subseteq Nat \ {0}
  /\ MaxPriority \in Nat \ {0}
  /\ Shared \in {"yes", "no"}
  /\ MaxDepth \in Nat \ {0}

VARIABLES
  enable,     \* PLIC: the sources each core has enabled
  priority,   \* PLIC: priority of each source
  threshold,  \* PLIC: priority threshold of each core
  pending,    \* PLIC: sources with the pending bit set
  held,       \* PLIC: sources whose gateway waits for a completion
  mie,        \* the "timer" and "soft" bits of each core's mie register
  mtip,       \* cores whose mtimecmp has been reached
  msip,       \* cores with a software interrupt pending
  single,     \* cores whose timer is single shot
  stack,      \* handler frames of each core, innermost last
  asked       \* history: the mie bits software last asked for on each core

plic == <<enable, priority, threshold, pending, held>>
clint == <<mtip, msip, single>>
vars == <<plic, mie, clint, stack, asked>>

Bit == {"timer", "soft"}

-----------------------------------------------------------------------------
(* The PLIC. *)

\* The gateway of a source forwards a request unless an earlier one is still
\* waiting for its completion.
Raise(s) ==
  /\ s \notin pending \cup held
  /\ pending' = pending \cup {s}
  /\ UNCHANGED <<enable, priority, threshold, held, mie, clint, stack, asked>>

\* The external interrupt line of core c.
Meip(c) == \E s \in pending \cap enable[c] : priority[s] > threshold[c]

Claimable(c) == {s \in pending \cap enable[c] : priority[s] > 0}

\* A claim returns the highest priority pending source, the lowest number
\* among equals, or zero if there is none (any more).
Claim(c) ==
  IF Claimable(c) = {} THEN 0
  ELSE CHOOSE s \in Claimable(c) : \A t \in Claimable(c) :
         priority[t] < priority[s] \/ (priority[t] = priority[s] /\ s <= t)

-----------------------------------------------------------------------------
(* Frames. *)

Frame(kind) == [kind |-> kind, phase |-> "entry", src |-> 0, threshold |-> 0, mie |-> {}]
Depth(c) == Len(stack[c])
Top(c) == stack[c][Depth(c)]
Push(c, f) == stack' = [stack EXCEPT ![c] = Append(@, f)]
Pop(c) == stack' = [stack EXCEPT ![c] = SubSeq(@, 1, Len(@) - 1)]
SetTop(c, f) == stack' = [stack EXCEPT ![c][Depth(c)] = f]

Phase(c) == IF Depth(c) = 0 THEN "base" ELSE Top(c).phase
In(c, kind, phase) == Depth(c) > 0 /\ Top(c).kind = kind /\ Top(c).phase = phase

\* mstatus.MIE: set outside handlers and, inside, from set_csr to clear_csr.
GlobalEnable(c) == Phase(c) \in {"base", "ack", "body", "leave"}

\* The trap taken when several interrupts are pending: external, then
\* software, then timer.
Trap(c) ==
  /\ GlobalEnable(c)
  /\ Depth(c) < MaxDepth
  /\ \/ /\ Meip(c)
        /\ Push(c, Frame("ext"))
     \/ /\ ~ Meip(c)
        /\ c \in msip /\ "soft" \in mie[c]
        /\ Push(c, Frame("soft"))
     \/ /\ ~ Meip(c) /\ ~ (c \in msip /\ "soft" \in mie[c])
        /\ c \in mtip /\ "timer" \in mie[c]
        /\ Push(c, Frame("timer"))
  /\ UNCHANGED <<plic, mie, clint, asked>>

-----------------------------------------------------------------------------
(* handle_irq_m_ext *)

\* The handler looks at MEIP again: it may have gone since the trap.
ExtCheck(c) ==
  /\ In(c, "ext", "entry")
  /\ IF Meip(c) THEN SetTop(c, [Top(c) EXCEPT !.phase = "claim"]) ELSE Pop(c)
  /\ UNCHANGED <<plic, mie, clint, asked>>

\* Claim, save the threshold and mie, raise the threshold to the priority of
\* the claimed number, mask timer and software interrupts, and let go.
ThresholdFor_None(n) == 0
ThresholdFor(n) == IF n = 0 THEN 0 ELSE priority[n]

ExtClaim(c) ==
  /\ In(c, "ext", "claim")
  /\ LET n == Claim(c) IN
       /\ pending' = pending \ {n}
       /\ held' = held \cup ({n} \ {0})
       /\ threshold' = [threshold EXCEPT ![c] = ThresholdFor(n)]
       /\ SetTop(c, [Top(c) EXCEPT !.phase = "body", !.src = n,
                                   !.threshold = threshold[c], !.mie = mie[c]])
  /\ mie' = [mie EXCEPT ![c] = {}]
  /\ UNCHANGED <<enable, priority, clint, asked>>

\* The callback has returned; complete the claimed number.  The PLIC ignores
\* the completion of a source the core has not enabled.
ExtComplete_Skipped(c) ==
  /\ In(c, "ext", "body")
  /\ SetTop(c, [Top(c) EXCEPT !.phase = "leave"])
  /\ UNCHANGED <<plic, mie, clint, asked>>

ExtComplete(c) ==
  /\ In(c, "ext", "body")
  /\ held' = held \ ({Top(c).src} \cap enable[c])
  /\ SetTop(c, [Top(c) EXCEPT !.phase = "leave"])
  /\ UNCHANGED <<enable, priority, threshold, pending, mie, clint, asked>>

\* Interrupts off, mie and threshold back to what they were, return.
ExtLeave_ThresholdKept(c) ==
  /\ In(c, "ext", "leave")
  /\ mie' = [mie EXCEPT ![c] = Top(c).mie]
  /\ Pop(c)
  /\ UNCHANGED <<plic, clint, asked>>

ExtLeave(c) ==
  /\ In(c, "ext", "leave")
  /\ mie' = [mie EXCEPT ![c] = Top(c).mie]
  /\ threshold' = [threshold EXCEPT ![c] = Top(c).threshold]
  /\ Pop(c)
  /\ UNCHANGED <<enable, priority, pending, held, clint, asked>>

-----------------------------------------------------------------------------
(* handle_irq_m_timer *)

TimerEnter_NotMasked(c) ==
  /\ In(c, "timer", "entry")
  /\ SetTop(c, [Top(c) EXCEPT !.phase = "body", !.mie = mie[c]])
  /\ UNCHANGED <<plic, mie, clint, asked>>

TimerEnter(c) ==
  /\ In(c, "timer", "entry")
  /\ SetTop(c, [Top(c) EXCEPT !.phase = "body", !.mie = mie[c]])
  /\ mie' = [mie EXCEPT ![c] = {}]
  /\ UNCHANGED <<plic, clint, asked>>

\* Restore mie; a periodic timer moves mtimecmp on, which may or may not lie
\* in the future, a single shot is masked.
TimerLeave(c) ==
  /\ In(c, "timer", "body")
  /\ IF c \in single
     THEN /\ mie' = [mie EXCEPT ![c] = Top(c).mie \ {"timer"}]
          /\ asked' = [asked EXCEPT ![c] = @ \ {"timer"}]
          /\ UNCHANGED mtip
     ELSE /\ mie' = [mie EXCEPT ![c] = Top(c).mie]
          /\ mtip' \in {mtip, mtip \ {c}}
          /\ UNCHANGED asked
  /\ Pop(c)
  /\ UNCHANGED <<plic, msip, single>>

-----------------------------------------------------------------------------
(* handle_irq_m_soft *)

SoftEnter(c) ==
  /\ In(c, "soft", "entry")
  /\ mie' = [mie EXCEPT ![c] = @ \ {"soft"}]
  /\ SetTop(c, [Top(c) EXCEPT !.phase = "ack"])
  /\ UNCHANGED <<plic, clint, asked>>

SoftAck(c) ==
  /\ In(c, "soft", "ack")
  /\ msip' = msip \ {c}
  /\ SetTop(c, [Top(c) EXCEPT !.phase = "body"])
  /\ UNCHANGED <<plic, mie, mtip, single, asked>>

SoftLeave_AckLate(c) ==
  /\ In(c, "soft", "body")
  /\ mie' = [mie EXCEPT ![c] = @ \cup {"soft"}]
  /\ msip' = msip \ {c}
  /\ Pop(c)
  /\ UNCHANGED <<plic, mtip, single, asked>>

SoftLeave(c) ==
  /\ In(c, "soft", "body")
  /\ mie' = [mie EXCEPT ![c] = @ \cup {"soft"}]
  /\ Pop(c)
  /\ UNCHANGED <<plic, clint, asked>>

-----------------------------------------------------------------------------
(* Driver calls, made by the code a core runs outside handlers and, where   *)
(* CallbackApi says so, by a callback.                                      *)

Calls(c, name) ==
  \/ Phase(c) = "base" /\ name \in BaseApi[c]
  \/ Phase(c) = "body" /\ name \in CallbackApi

Mine(c, s) == Shared = "yes" \/ \A d \in Cores \ {c} : s \notin enable[d]

plic_irq_enable(c, s) ==
  /\ Calls(c, "irq_enable")
  /\ Mine(c, s)
  /\ enable' = [enable EXCEPT ![c] = @ \cup {s}]
  /\ UNCHANGED <<priority, threshold, pending, held, mie, clint, stack, asked>>

plic_irq_disable(c, s) ==
  /\ Calls(c, "irq_disable")
  /\ enable' = [enable EXCEPT ![c] = @ \ {s}]
  /\ UNCHANGED <<priority, threshold, pending, held, mie, clint, stack, asked>>

plic_set_priority(c, s, p) ==
  /\ Calls(c, "set_priority")
  /\ Mine(c, s)
  /\ priority' = [priority EXCEPT ![s] = p]
  /\ UNCHANGED <<enable, threshold, pending, held, mie, clint, stack, asked>>

clint_timer_start(c, single_shot) ==
  /\ Calls(c, "timer_start")
  /\ single' = IF single_shot = "yes" THEN single \cup {c} ELSE single \ {c}
  /\ mtip' = mtip \ {c}
  /\ mie' = [mie EXCEPT ![c] = @ \cup {"timer"}]
  /\ asked' = [asked EXCEPT ![c] = @ \cup {"timer"}]
  /\ UNCHANGED <<plic, msip, stack>>

clint_timer_stop(c) ==
  /\ Calls(c, "timer_stop")
  /\ mie' = [mie EXCEPT ![c] = @ \ {"timer"}]
  /\ asked' = [asked EXCEPT ![c] = @ \ {"timer"}]
  /\ UNCHANGED <<plic, clint, stack>>

clint_ipi_enable(c) ==
  /\ Calls(c, "ipi_enable")
  /\ mie' = [mie EXCEPT ![c] = @ \cup {"soft"}]
  /\ asked' = [asked EXCEPT ![c] = @ \cup {"soft"}]
  /\ UNCHANGED <<plic, clint, stack>>

clint_ipi_disable(c) ==
  /\ Calls(c, "ipi_disable")
  /\ mie' = [mie EXCEPT ![c] = @ \ {"soft"}]
  /\ asked' = [asked EXCEPT ![c] = @ \ {"soft"}]
  /\ UNCHANGED <<plic, clint, stack>>

clint_ipi_send(c, d) ==
  /\ Calls(c, "ipi_send")
  /\ msip' = msip \cup {d}
  /\ UNCHANGED <<plic, mie, mtip, single, stack, asked>>

\* mtime reaches mtimecmp.
TimerDue(c) ==
  /\ c \notin mtip
  /\ "timer" \in asked[c]
  /\ mtip' = mtip \cup {c}
  /\ UNCHANGED <<plic, mie, msip, single, stack, asked>>

-----------------------------------------------------------------------------
\* After plic_init, clint_timer_init and clint_ipi_init on every core.
Init ==
  /\ enable = [c \in Cores |-> {}]
  /\ priority = [s \in Sources |-> 0]
  /\ threshold = [c \in Cores |-> 0]
  /\ pending = {}
  /\ held = {}
  /\ mie = [c \in Cores |-> {}]
  /\ mtip = {}
  /\ msip = {}
  /\ single = {}
  /\ stack = [c \in Cores |-> <<>>]
  /\ asked = [c \in Cores |-> {}]

Handler(c) ==
  \/ Trap(c)
  \/ ExtCheck(c) \/ ExtClaim(c) \/ ExtComplete(c) \/ ExtLeave(c)
  \/ TimerEnter(c) \/ TimerLeave(c)
  \/ SoftEnter(c) \/ SoftAck(c) \/ SoftLeave(c)

Call(c) ==
  \/ \E s \in Sources : \/ plic_irq_enable(c, s)
                        \/ plic_irq_disable(c, s)
                        \/ \E p \in 0 .. MaxPriority : plic_set_priority(c, s, p)
  \/ \E single_shot \in {"yes", "no"} : clint_timer_start(c, single_shot)
  \/ clint_timer_stop(c) \/ clint_ipi_enable(c) \/ clint_ipi_disable(c)
  \/ \E d \in Cores : clint_ipi_send(c, d)

Next ==
  \/ \E s \in Sources : Raise(s)
  \/ \E c \in Cores : Handler(c) \/ Call(c) \/ TimerDue(c)

Spec == Init /\ [][Next]_vars

\* Handlers run on and callbacks return.
FairSpec == Spec /\ \A c \in Cores : WF_vars(Handler(c))
=============================================================================
