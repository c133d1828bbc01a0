------------------------------ MODULE TimerInv ------------------------------
(***************************************************************************)
(* No tick of a registered channel is dropped, and none is made up.        *)
(***************************************************************************)
EXTENDS Timer

\* "Don't read timer[device]->eoi here, or you will lost some interrupt": a
\* tick that has not been delivered still has its interrupt pending, whichever
\* other channels were served in the meantime.
TickKept == due \subseteq raw

\* A callback runs once per expiry: the handler never delivers a channel that
\* has not expired since its last delivery.
NoMadeUpTick == [][Deliver => Lowest(snap) \in due]_vars

\* "Combine 0 and 1 to A interrupt, 2 and 3 to B interrupt": a channel with a
\* callback keeps the line it shares, whoever unregisters.
RegisteredReachable == \A i \in callback : line[LineOf(i)] = "new"

\* "Combine 0 and 1 to A interrupt, 2 and 3 to B interrupt": of two registered
\* channels on a line, one that is unregistered leaves the line to the other.
LineSurvives ==
  [][\A i, j \in callback :
       /\ i # j
       /\ LineOf(i) = LineOf(j)
       /\ callback' = callback \ {i}
       => line'[LineOf(j)] = line[LineOf(j)]]_vars

\* A tick of a channel with a callback, of either interface, is delivered,
\* unless the channel is switched off or its callback taken away first.
Awaited(i) == i \in due /\ i \in callback \cup tick

TickDelivered == \A i \in Channels : Awaited(i) ~> ~ Awaited(i)

-----------------------------------------------------------------------------
(***************************************************************************)
(* The inductive invariant of clients that stay within Allow = {}.         *)
(***************************************************************************)
TimerTypeOK ==
  /\ raw \subseteq Channels
  /\ running \subseteq Channels
  /\ callback \subseteq Channels
  /\ tick \subseteq Channels
  /\ line \in [Lines -> {"null", "new", "old"}]

\* The two interfaces are not mixed, and a client of the older one is alone.
Unmixed ==
  /\ callback = {} \/ tick = {}
  /\ tick # {} => running \subseteq tick
  /\ \A i, j \in tick : i = j
  /\ \A l \in Lines : line[l] = "old" => tick # {}

\* The status bits and the expiries not delivered yet differ only while the
\* handler is between a channel's callback and its eoi.
StatusInv ==
  /\ raw \subseteq running
  /\ pc = "idle" => due = raw /\ snap = {}
  /\ pc = "scan" => due = raw /\ snap \subseteq raw
  /\ pc = "eoi"  => snap # {} /\ snap \subseteq raw /\ due = raw \ {Lowest(snap)}
  /\ pc = "isr"  => due = {}
  /\ pc \in {"idle", "scan", "eoi", "isr"}

TimerIInv == TimerTypeOK /\ Unmixed /\ StatusInv

\* A channel that may be unregistered while its pair is in use has a channel
\* of the other pair registered for good: the pairs then never run empty.
KeepCoversPairs ==
  \A i, j \in Channels :
    i # j /\ LineOf(i) = LineOf(j) /\ i \notin Keep
      => \E k \in Keep : LineOf(k) # LineOf(i)
=============================================================================
