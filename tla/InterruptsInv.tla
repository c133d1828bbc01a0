--------------------------- MODULE InterruptsInv ---------------------------
(***************************************************************************)
(* What the handlers must keep up while they nest.                         *)
(***************************************************************************)
EXTENDS Interrupts

\* Frames of handle_irq_m_ext that have claimed.
Serving(f) == f.kind = "ext" /\ f.phase \in {"body", "leave"}

\* The priority a serving frame raised the threshold to: what the next
\* serving frame above it saved, or the register if it is the innermost.
Level(c, i) ==
  LET above == {j \in i + 1 .. Depth(c) : Serving(stack[c][j])} IN
    IF above = {} THEN threshold[c]
    ELSE stack[c][CHOOSE j \in above : \A k \in above : j <= k].threshold

\* A callback is only interrupted by external interrupts of strictly higher
\* priority: every serving frame found the threshold lower than it left it.
NestingByPriority ==
  \A c \in Cores : \A i \in 1 .. Depth(c) :
    Serving(stack[c][i]) => stack[c][i].threshold < Level(c, i)

\* Nested handlers are few, whatever the devices do: one external interrupt
\* per priority level, one timer and one software interrupt.  This is what
\* bounds the stack the 64-register trap frames are pushed on.
StackBounded == \A c \in Cores : Depth(c) <= MaxPriority + 2

\* Outside handlers a core is back at threshold zero and has exactly the timer
\* and software interrupts enabled that were last asked for: no save and
\* restore of a nested handler undoes another's.
RegistersRestored ==
  \A c \in Cores : Depth(c) = 0 => threshold[c] = 0 /\ mie[c] = asked[c]

\* A source whose gateway is closed is being served by some core, so its
\* completion is still to come; and no two frames serve the same source.
GatewayReopens ==
  \A s \in held :
    \E c \in Cores : \E i \in 1 .. Depth(c) :
      /\ stack[c][i].kind = "ext" /\ stack[c][i].phase = "body" /\ stack[c][i].src = s
      /\ \A d \in Cores : \A j \in 1 .. Depth(d) :
           stack[d][j].kind = "ext" /\ stack[d][j].phase = "body" /\ stack[d][j].src = s
             => d = c /\ j = i

\* A software interrupt is acknowledged before its callback starts, so one
\* sent while the callback runs is delivered again: the pending bit goes only
\* in a step that starts the callback.
IpiNotLost ==
  [][\A c \in Cores : c \in msip /\ c \notin msip' => In(c, "soft", "body")']_vars

\* The source that wins every arbitration is claimed, unless its core
\* reconfigures it: no chain of other handlers starves it.
First == CHOOSE s \in Sources : \A t \in Sources : s <= t

Foremost(c) == First \in pending \cap enable[c] /\ priority[First] = MaxPriority

HighestServed == \A c \in Cores : Foremost(c) ~> ~ Foremost(c)

-----------------------------------------------------------------------------
(***************************************************************************)
(* The inductive invariant, for sources that are enabled on one core only  *)
(* and callbacks that make no driver call but clint_ipi_send.              *)
(***************************************************************************)
Frames == [kind : {"ext", "timer", "soft"},
           phase : {"entry", "claim", "ack", "body", "leave"},
           src : Sources \cup {0}, threshold : Nat, mie : SUBSET Bit]

InterruptsTypeOK ==
  /\ enable \in [Cores -> SUBSET Sources]
  /\ priority \in [Sources -> 0 .. MaxPriority]
  /\ threshold \in [Cores -> Nat]
  /\ pending \subseteq Sources
  /\ held \subseteq Sources
  /\ mie \in [Cores -> SUBSET Bit]
  /\ asked \in [Cores -> SUBSET Bit]
  /\ stack \in [Cores -> Seq(Frames)]

\* The frames st of a core, bottom to top, when a are the bits asked for: a
\* software interrupt, then a timer interrupt, then external ones; only the
\* innermost runs with interrupts off.
Running(f) == f.phase \in {"ack", "body", "leave"}

Shape(st, a) ==
  \A i \in 1 .. Len(st) :
    /\ st[i].kind = "ext" => st[i].phase # "ack"
    /\ st[i].kind = "timer" => st[i].phase \in {"entry", "body"}
    /\ st[i].kind = "soft" => st[i].phase \in {"entry", "ack", "body"}
    /\ i < Len(st) => Running(st[i])
    /\ st[i].kind = "soft" => i = 1 /\ "soft" \in a
    /\ st[i].kind = "timer" => \A j \in 1 .. i - 1 : st[j].kind = "soft"

\* What mie holds under frame i: all that was asked for at the bottom, all
\* but "soft" above a software interrupt, nothing above the other two.
MieUnder(st, a, i) ==
  IF i = 1 THEN a ELSE IF st[i - 1].kind = "soft" THEN a \ {"soft"} ELSE {}

\* The saved masks, and the register m.
MieInv(st, a, m) ==
  /\ \A i \in 1 .. Len(st) :
       st[i].kind # "soft" /\ Running(st[i]) => st[i].mie = MieUnder(st, a, i)
  /\ m = MieUnder(st, a, IF Len(st) > 0 /\ ~Running(st[Len(st)])
                         THEN Len(st) ELSE Len(st) + 1)

\* The threshold above frame i, when the register is th.
Above(st, th, i) ==
  IF i < Len(st) /\ Serving(st[i + 1]) THEN st[i + 1].threshold ELSE th

\* Serving frames raise the threshold strictly, from zero, so that the
\* position of a frame is bounded by the priority it serves.
LevelInv(st, th) ==
  /\ \A i \in 1 .. Len(st) : Serving(st[i]) =>
       /\ st[i].threshold < Above(st, th, i)
       /\ i <= Above(st, th, i) + 2
       /\ i = 1 \/ st[i - 1].kind # "ext" => st[i].threshold = 0
  /\ (\A i \in 1 .. Len(st) : ~Serving(st[i])) => th = 0
  /\ th <= MaxPriority

Local(st, a, m, th) == Shape(st, a) /\ MieInv(st, a, m) /\ LevelInv(st, th)

LocalInv(c) == Local(stack[c], asked[c], mie[c], threshold[c])

\* A trap is not spurious: nothing takes the request away before the claim.
MeipInv(c) ==
  Depth(c) > 0 /\ Top(c).kind = "ext" /\ ~Running(Top(c)) => Meip(c)

EnabledOnce == \A c, d \in Cores : c # d => enable[c] \cap enable[d] = {}

\* A gateway is closed exactly while one frame runs the callback of its source.
InBody(f) == f.kind = "ext" /\ f.phase = "body"

GateInv ==
  /\ pending \cap held = {}
  /\ \A s \in held : \E c \in Cores : \E i \in 1 .. Depth(c) :
       InBody(stack[c][i]) /\ stack[c][i].src = s
  /\ \A c \in Cores : \A i \in 1 .. Depth(c) :
       InBody(stack[c][i]) => stack[c][i].src \in held \cap enable[c]
  /\ \A c, d \in Cores : \A i \in 1 .. Depth(c) : \A j \in 1 .. Depth(d) :
       /\ InBody(stack[c][i]) /\ InBody(stack[d][j])
       /\ stack[c][i].src = stack[d][j].src
       => c = d /\ i = j

InterruptsIInv ==
  /\ InterruptsTypeOK
  /\ \A c \in Cores : LocalInv(c) /\ MeipInv(c)
  /\ EnabledOnce
  /\ GateInv
=============================================================================
