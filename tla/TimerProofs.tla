---------------------------- MODULE TimerProofs ----------------------------
(***************************************************************************)
(* Proofs about the interrupt dispatch of drivers/timer.c, for any use of  *)
(* the four channels in which a channel does not expire twice before its   *)
(* eoi is read and the two interfaces are not mixed (Allow = {}).          *)
(***************************************************************************)
EXTENDS TimerInv, TLAPS

\* The lowest channel of a nonempty status word is one of its channels.
LEMMA LowestIn ==
  ASSUME NEW S, S \subseteq Channels, S # {}
  PROVE  Lowest(S) \in S /\ \A j \in S : Lowest(S) <= j
  <1>1. S \subseteq 0 .. 3
    BY TimerAssumption
  <1>2. \E i \in S : \A j \in S : i <= j
    <2>1. CASE 0 \in S
      BY <1>1, <2>1
    <2>2. CASE 0 \notin S /\ 1 \in S
      BY <1>1, <2>2
    <2>3. CASE 0 \notin S /\ 1 \notin S /\ 2 \in S
      BY <1>1, <2>3
    <2>4. CASE 0 \notin S /\ 1 \notin S /\ 2 \notin S
      <3>1. PICK i \in S : TRUE
        OBVIOUS
      <3>2. \A j \in S : j = 3
        BY <1>1, <2>4
      <3> QED BY <3>1, <3>2
    <2> QED BY <2>1, <2>2, <2>3, <2>4
  <1> QED BY <1>2 DEF Lowest

LEMMA InitTimer == Init => TimerIInv
  BY DEF Init, TimerIInv, TimerTypeOK, Unmixed, StatusInv

\* The driver calls keep the invariant: they are made outside the handlers.
LEMMA CallTimer ==
  ASSUME TimerIInv, Allow = {}, NEW i \in Channels,
         \/ \E on \in {"on", "off"} : timer_set_enable(i, on)
         \/ \E s \in {"yes", "no"} : timer_irq_register(i, s)
         \/ timer_irq_unregister(i)
         \/ timer_set_irq(i)
  PROVE  TimerIInv'
  <1> USE DEF TimerIInv
  <1>0. LineOf(i) \in Lines
    BY DEF LineOf, Lines
  <1>1. ASSUME NEW on \in {"on", "off"}, timer_set_enable(i, on) PROVE TimerIInv'
    <2> USE <1>1 DEF timer_set_enable
    <2>1. TimerTypeOK'
      BY DEF TimerTypeOK
    <2>2. Unmixed'
      BY DEF Unmixed, NoOld, TimerTypeOK
    <2>3. StatusInv'
      BY DEF StatusInv
    <2> QED BY <2>1, <2>2, <2>3
  <1>2. ASSUME NEW s \in {"yes", "no"}, timer_irq_register(i, s) PROVE TimerIInv'
    <2> USE <1>0, <1>2 DEF timer_irq_register
    <2>1. TimerTypeOK'
      BY DEF TimerTypeOK
    <2>2. Unmixed'
      BY DEF Unmixed, TimerTypeOK
    <2>3. StatusInv'
      BY DEF StatusInv
    <2> QED BY <2>1, <2>2, <2>3
  <1>3. ASSUME timer_irq_unregister(i) PROVE TimerIInv'
    <2> USE <1>0, <1>3 DEF timer_irq_unregister
    <2>1. TimerTypeOK'
      BY DEF TimerTypeOK
    <2>2. Unmixed'
      BY DEF Unmixed, TimerTypeOK
    <2>3. StatusInv'
      BY DEF StatusInv
    <2> QED BY <2>1, <2>2, <2>3
  <1>4. ASSUME timer_set_irq(i) PROVE TimerIInv'
    <2> USE <1>0, <1>4 DEF timer_set_irq
    <2>1. TimerTypeOK'
      BY DEF TimerTypeOK
    <2>2. Unmixed'
      BY DEF Unmixed, OldAlone, TimerTypeOK
    <2>3. StatusInv'
      BY DEF StatusInv
    <2> QED BY <2>1, <2>2, <2>3
  <1> QED BY <1>1, <1>2, <1>3, <1>4

\* So do the device and the steps of the two handlers.
LEMMA HandlerTimer ==
  ASSUME TimerIInv, Allow = {}, Handler \/ \E i \in Channels : Expire(i)
  PROVE  TimerIInv'
  <1> USE DEF TimerIInv
  <1>1. ASSUME NEW i \in Channels, Expire(i) PROVE TimerIInv'
    <2> USE <1>1 DEF Expire
    <2>1. TimerTypeOK' /\ Unmixed'
      BY DEF TimerTypeOK, Unmixed
    <2>2. StatusInv'
      <3>1. pc = "eoi" => Lowest(snap) \in snap
        BY LowestIn DEF StatusInv, TimerTypeOK
      <3> QED BY <3>1 DEF StatusInv
    <2> QED BY <2>1, <2>2
  <1>2. ASSUME NEW l \in Lines, Snapshot(l) PROVE TimerIInv'
    BY <1>2 DEF Snapshot, Status, TimerTypeOK, Unmixed, StatusInv
  <1>3. ASSUME NEW l \in Lines, ClaimNothing(l) PROVE TimerIInv'
    BY <1>3 DEF ClaimNothing, TimerTypeOK, Unmixed, StatusInv
  <1>4. ASSUME NEW l \in Lines, IsrDeliver(l) PROVE TimerIInv'
    <2> USE <1>4 DEF IsrDeliver
    <2>1. TimerTypeOK' /\ Unmixed'
      BY DEF TimerTypeOK, Unmixed
    <2>2. Status = raw /\ due = raw
      BY DEF Status, StatusInv
    <2>3. \A i, j \in raw : i = j
      BY DEF Unmixed, StatusInv
    <2>4. raw # {} => Lowest(raw) \in raw
      BY LowestIn DEF TimerTypeOK
    <2>5. due' = {}
      BY <2>2, <2>3, <2>4
    <2> QED BY <2>1, <2>5 DEF StatusInv
  <1>5. ASSUME Deliver PROVE TimerIInv'
    BY <1>5 DEF Deliver, TimerTypeOK, Unmixed, StatusInv
  <1>6. ASSUME Eoi PROVE TimerIInv'
    <2> USE <1>6 DEF Eoi
    <2>1. TimerTypeOK' /\ Unmixed'
      BY DEF TimerTypeOK, Unmixed
    <2> QED BY <2>1 DEF StatusInv
  <1>7. ASSUME Return PROVE TimerIInv'
    BY <1>7 DEF Return, Complete, TimerTypeOK, Unmixed, StatusInv
  <1>8. ASSUME IsrEoi PROVE TimerIInv'
    BY <1>8 DEF IsrEoi, Complete, TimerTypeOK, Unmixed, StatusInv
  <1> QED BY <1>1, <1>2, <1>3, <1>4, <1>5, <1>6, <1>7, <1>8 DEF Handler

LEMMA TimerInvariance == Allow = {} /\ Spec => []TimerIInv
  <1> SUFFICES ASSUME Allow = {} PROVE Spec => []TimerIInv
    OBVIOUS
  <1>1. Init => TimerIInv
    BY InitTimer
  <1>2. TimerIInv /\ [Next]_vars => TimerIInv'
    <2> SUFFICES ASSUME TimerIInv, [Next]_vars PROVE TimerIInv'
      OBVIOUS
    <2>1. CASE Next
      BY <2>1, CallTimer, HandlerTimer DEF Next
    <2>2. CASE UNCHANGED vars
      BY <2>2 DEF TimerIInv, TimerTypeOK, Unmixed, StatusInv, vars
    <2> QED BY <2>1, <2>2
  <1> QED BY <1>1, <1>2, PTL DEF Spec

(***************************************************************************)
(* Whatever the channels in use, no tick is lost: an expiry that was not   *)
(* delivered keeps its interrupt status bit, through every handler.        *)
(***************************************************************************)
THEOREM TicksAreKept == Allow = {} /\ Spec => []TickKept
  <1>1. TimerIInv => TickKept
    BY DEF TimerIInv, StatusInv, TickKept
  <1> QED BY <1>1, TimerInvariance, PTL

(***************************************************************************)
(* No tick is made up: the handler calls back only for a channel that has  *)
(* expired since its last delivery.                                        *)
(***************************************************************************)
THEOREM TicksAreReal == Allow = {} /\ Spec => NoMadeUpTick
  <1>1. TimerIInv /\ Deliver => Lowest(snap) \in due
    BY LowestIn DEF TimerIInv, StatusInv, TimerTypeOK, Deliver
  <1> QED BY <1>1, TimerInvariance, PTL DEF Spec, NoMadeUpTick

(***************************************************************************)
(* A registered callback keeps the line its channel shares, provided that  *)
(* a channel of the other pair stays registered: the test that gives the   *)
(* line up looks at both pairs.                                            *)
(***************************************************************************)
THEOREM CallbacksReachable ==
  Allow = {} /\ KeepCoversPairs /\ Spec => []RegisteredReachable
  <1> SUFFICES ASSUME Allow = {}, KeepCoversPairs PROVE Spec => []RegisteredReachable
    OBVIOUS
  <1>0. \A i \in Channels : LineOf(i) \in Lines
    BY DEF LineOf, Lines
  <1>1. Init => RegisteredReachable
    BY DEF Init, RegisteredReachable
  <1>2. TimerIInv /\ RegisteredReachable /\ [Next]_vars => RegisteredReachable'
    <2> SUFFICES ASSUME TimerIInv, RegisteredReachable, [Next]_vars
                 PROVE  RegisteredReachable'
      OBVIOUS
    <2> USE <1>0 DEF RegisteredReachable, TimerIInv, TimerTypeOK
    <2>1. ASSUME NEW i \in Channels, NEW s \in {"yes", "no"}, timer_irq_register(i, s)
          PROVE  RegisteredReachable'
      BY <2>1 DEF timer_irq_register
    <2>2. ASSUME NEW i \in Channels, timer_irq_unregister(i)
          PROVE  RegisteredReachable'
      <3> SUFFICES ASSUME NEW j \in callback' PROVE line'[LineOf(j)] = "new"
        OBVIOUS
      <3>1. j \in callback /\ j # i /\ line[LineOf(j)] = "new" /\ j \in Channels
        BY <2>2 DEF timer_irq_unregister
      <3>2. CASE LineOf(j) # LineOf(i)
        BY <2>2, <3>1, <3>2 DEF timer_irq_unregister
      <3>3. CASE LineOf(j) = LineOf(i)
        <4>1. PICK k \in Keep : LineOf(k) # LineOf(i)
          BY <2>2, <3>1, <3>3 DEF KeepCoversPairs, timer_irq_unregister
        <4>2. k \in callback' /\ k \in Channels
          BY <2>2, <4>1, TimerAssumption DEF timer_irq_unregister
        <4>3. j \in 0 .. 3 /\ k \in 0 .. 3
          BY <3>1, <4>2, TimerAssumption
        <4>4. ~GiveUp(callback')
          BY <3>3, <4>1, <4>2, <4>3 DEF GiveUp, LineOf
        <4> QED BY <2>2, <3>1, <4>4 DEF timer_irq_unregister
      <3> QED BY <3>2, <3>3
    <2>3. ASSUME NEW i \in Channels, timer_set_irq(i)
          PROVE  RegisteredReachable'
      BY <2>3 DEF timer_set_irq, OldAlone
    <2>4. ASSUME UNCHANGED <<callback, line>> PROVE RegisteredReachable'
      BY <2>4
    <2>5. CASE Handler
      BY <2>4, <2>5 DEF Handler, Snapshot, ClaimNothing, IsrDeliver, Deliver, Eoi,
                        Return, IsrEoi
    <2>6. ASSUME NEW i \in Channels,
                 Expire(i) \/ \E on \in {"on", "off"} : timer_set_enable(i, on)
          PROVE  RegisteredReachable'
      BY <2>4, <2>6 DEF Expire, timer_set_enable
    <2>7. CASE UNCHANGED vars
      BY <2>4, <2>7 DEF vars
    <2> QED BY <2>1, <2>2, <2>3, <2>5, <2>6, <2>7 DEF Next
  <1> QED BY <1>1, <1>2, TimerInvariance, PTL DEF Spec
=============================================================================
