-------------------------- MODULE InterruptsProofs --------------------------
(***************************************************************************)
(* Proofs about the trap handlers of drivers/plic.c and drivers/clint.c    *)
(* for any number of cores, sources and priorities.                        *)
(***************************************************************************)
EXTENDS InterruptsInv, SequenceTheorems, WellFoundedInduction, TLAPS

-----------------------------------------------------------------------------
(* A nonempty set of natural numbers has a least element. *)
LEMMA LeastNatural ==
  ASSUME NEW T, T \subseteq Nat, T # {}
  PROVE  \E x \in T : \A y \in T : x <= y
  <1>1. PICK R : R = OpToRel(<, Nat)
    OBVIOUS
  <1>2. IsWellFoundedOn(R, Nat)
    BY <1>1, NatLessThanWellFounded
  <1>3. PICK x \in T : \A y \in T : ~ (<<y, x>> \in R)
    BY <1>2, WFMin
  <1>4. ASSUME NEW y \in T PROVE x <= y
    <2>1. ~ (<<y, x>> \in OpToRel(<, Nat))
      BY <1>1, <1>3
    <2>2. ~ (y < x)
      BY <2>1 DEF OpToRel
    <2> QED BY <2>2
  <1> QED BY <1>4

(* A nonempty, bounded set of natural numbers has a greatest element. *)
LEMMA GreatestNatural ==
  ASSUME NEW T, NEW m \in Nat, T \subseteq 0 .. m, T # {}
  PROVE  \E x \in T : \A y \in T : y <= x
  <1>1. PICK x \in {m - y : y \in T} : \A z \in {m - y : y \in T} : x <= z
    <2>1. \A y \in T : m - y \in Nat
      OBVIOUS
    <2>2. PICK y \in T : TRUE
      OBVIOUS
    <2>3. {m - z : z \in T} \subseteq Nat
      BY <2>1
    <2>4. m - y \in {m - z : z \in T}
      BY <2>2
    <2> QED BY <2>3, <2>4, LeastNatural
  <1>2. PICK y \in T : x = m - y
    BY <1>1
  <1>3. \A z \in T : m - y <= m - z
    BY <1>1, <1>2
  <1> QED BY <1>3

(* All elements of a sequence but the last. *)
LEMMA PopSequence ==
  ASSUME NEW S, NEW s \in Seq(S), Len(s) > 0
  PROVE  /\ SubSeq(s, 1, Len(s) - 1) \in Seq(S)
         /\ Len(SubSeq(s, 1, Len(s) - 1)) = Len(s) - 1
         /\ \A i \in 1 .. Len(s) - 1 : SubSeq(s, 1, Len(s) - 1)[i] = s[i]
  <1>1. PICK m \in Nat : m = Len(s) - 1
    BY LenProperties
  <1>2. \A i \in 1 .. m : s[i] \in S
    BY <1>1, ElementOfSeq, LenProperties
  <1>3. /\ SubSeq(s, 1, m) \in Seq(S)
        /\ Len(SubSeq(s, 1, m)) = IF 1 <= m THEN m - 1 + 1 ELSE 0
        /\ \A i \in 1 .. m - 1 + 1 : SubSeq(s, 1, m)[i] = s[1 + i - 1]
    BY <1>2, SubSeqProperties
  <1>4. (IF 1 <= m THEN m - 1 + 1 ELSE 0) = m
    OBVIOUS
  <1>5. ASSUME NEW i \in 1 .. m PROVE SubSeq(s, 1, m)[i] = s[i]
    <2>1. i \in 1 .. m - 1 + 1 /\ 1 + i - 1 = i
      OBVIOUS
    <2>2. SubSeq(s, 1, m)[i] = s[1 + i - 1]
      BY <1>3, <2>1, Zenon
    <2> QED BY <2>1, <2>2, Zenon
  <1>6. Len(SubSeq(s, 1, m)) = m
    BY <1>3, SMT
  <1> QED BY <1>1, <1>3, <1>5, <1>6, Zenon

-----------------------------------------------------------------------------
(* The stack of handler frames. *)

\* A new frame goes on top and leaves the others as they were.
LEMMA PushFacts ==
  ASSUME InterruptsTypeOK, NEW c \in Cores, NEW f \in Frames, Push(c, f)
  PROVE  /\ stack' \in [Cores -> Seq(Frames)]
         /\ Depth(c)' = Depth(c) + 1
         /\ Depth(c) \in Nat
         /\ stack'[c][Depth(c) + 1] = f
         /\ \A i \in 1 .. Depth(c) : stack'[c][i] = stack[c][i] /\ stack[c][i] \in Frames
         /\ \A d \in Cores \ {c} : stack'[d] = stack[d]
  BY DEF InterruptsTypeOK, Push, Depth

\* The top frame goes and leaves the others as they were.
LEMMA PopFacts ==
  ASSUME InterruptsTypeOK, NEW c \in Cores, Depth(c) > 0, Pop(c)
  PROVE  /\ stack' \in [Cores -> Seq(Frames)]
         /\ Depth(c)' = Depth(c) - 1
         /\ Depth(c) \in Nat
         /\ \A i \in 1 .. Depth(c) : stack[c][i] \in Frames
         /\ \A i \in 1 .. Depth(c) - 1 : stack'[c][i] = stack[c][i]
         /\ \A d \in Cores \ {c} : stack'[d] = stack[d]
  <1>1. stack \in [Cores -> Seq(Frames)] /\ stack[c] \in Seq(Frames) /\ Len(stack[c]) > 0
    BY DEF InterruptsTypeOK, Depth
  <1>2. /\ SubSeq(stack[c], 1, Len(stack[c]) - 1) \in Seq(Frames)
        /\ Len(SubSeq(stack[c], 1, Len(stack[c]) - 1)) = Len(stack[c]) - 1
        /\ \A i \in 1 .. Len(stack[c]) - 1 :
             SubSeq(stack[c], 1, Len(stack[c]) - 1)[i] = stack[c][i]
    BY <1>1, PopSequence
  <1>3. /\ stack'[c] = SubSeq(stack[c], 1, Len(stack[c]) - 1)
        /\ \A d \in Cores \ {c} : stack'[d] = stack[d]
        /\ stack' \in [Cores -> Seq(Frames)]
    BY <1>1, <1>2 DEF Pop
  <1> QED BY <1>1, <1>2, <1>3 DEF Depth

\* The top frame changes and leaves the others as they were.
LEMMA SetTopFacts ==
  ASSUME InterruptsTypeOK, NEW c \in Cores, NEW f \in Frames, Depth(c) > 0, SetTop(c, f)
  PROVE  /\ stack' \in [Cores -> Seq(Frames)]
         /\ Depth(c)' = Depth(c)
         /\ Depth(c) \in Nat
         /\ stack'[c][Depth(c)] = f
         /\ \A i \in 1 .. Depth(c) : stack[c][i] \in Frames
         /\ \A i \in 1 .. Depth(c) - 1 : stack'[c][i] = stack[c][i]
         /\ \A d \in Cores \ {c} : stack'[d] = stack[d]
  BY DEF InterruptsTypeOK, SetTop, Depth

-----------------------------------------------------------------------------
(* What a step leaves alone. *)

\* A request that made a core trap stays as long as its source stays pending
\* and enabled with the same priority.
LEMMA MeipFrame ==
  ASSUME NEW d \in Cores, MeipInv(d),
         stack'[d] = stack[d], threshold'[d] = threshold[d],
         Depth(d) > 0 => \A s \in enable[d] : /\ s \in enable'[d]
                                              /\ s \in pending => s \in pending'
                                              /\ priority'[s] = priority[s]
  PROVE  MeipInv(d)'
  BY DEF MeipInv, Meip, Depth, Top, Running

BodyAt(c, i) == i \in 1 .. Depth(c) /\ InBody(stack[c][i])

\* The gateways are as they were if the frames that run a callback are.
LEMMA GateFrame ==
  ASSUME GateInv, held' = held, pending' \cap held = {},
         \A d \in Cores : Depth(d) > 0 => enable'[d] = enable[d],
         \A d \in Cores : \A i \in Nat :
           /\ BodyAt(d, i)' <=> BodyAt(d, i)
           /\ BodyAt(d, i) => stack'[d][i].src = stack[d][i].src,
         \A d \in Cores : Depth(d) \in Nat /\ Depth(d)' \in Nat
  PROVE  GateInv'
  <1>1. pending' \cap held' = {}
    OBVIOUS
  <1>2. \A s \in held' : \E c \in Cores : \E i \in 1 .. Depth(c)' :
          InBody(stack[c][i])' /\ stack'[c][i].src = s
    <2> SUFFICES ASSUME NEW s \in held
                 PROVE  \E c \in Cores : \E i \in 1 .. Depth(c)' :
                          InBody(stack[c][i])' /\ stack'[c][i].src = s
      OBVIOUS
    <2>0. PICK c \in Cores :
            \E i \in 1 .. Depth(c) : InBody(stack[c][i]) /\ stack[c][i].src = s
      BY DEF GateInv
    <2>1. PICK i \in 1 .. Depth(c) : InBody(stack[c][i]) /\ stack[c][i].src = s
      BY <2>0
    <2>2. i \in Nat /\ BodyAt(c, i)
      BY <2>1 DEF BodyAt
    <2>3. BodyAt(c, i)' /\ stack'[c][i].src = s
      BY <2>1, <2>2
    <2> QED BY <2>3 DEF BodyAt
  <1>3. ASSUME NEW c \in Cores, NEW i \in 1 .. Depth(c)', InBody(stack[c][i])'
        PROVE  stack'[c][i].src \in held' \cap enable'[c]
    <2>1. i \in Nat /\ BodyAt(c, i)'
      BY <1>3 DEF BodyAt
    <2>2. i \in 1 .. Depth(c) /\ InBody(stack[c][i]) /\ stack'[c][i].src = stack[c][i].src
      BY <2>1 DEF BodyAt
    <2>3. stack[c][i].src \in held \cap enable[c] /\ Depth(c) > 0
      BY <2>2 DEF GateInv
    <2> QED BY <2>2, <2>3
  <1>4. ASSUME NEW c \in Cores, NEW d \in Cores,
               NEW i \in 1 .. Depth(c)', NEW j \in 1 .. Depth(d)',
               InBody(stack[c][i])', InBody(stack[d][j])',
               stack'[c][i].src = stack'[d][j].src
        PROVE  c = d /\ i = j
    <2>1. i \in Nat /\ j \in Nat /\ BodyAt(c, i)' /\ BodyAt(d, j)'
      BY <1>4 DEF BodyAt
    <2>2. /\ i \in 1 .. Depth(c) /\ InBody(stack[c][i]) /\ stack'[c][i].src = stack[c][i].src
          /\ j \in 1 .. Depth(d) /\ InBody(stack[d][j]) /\ stack'[d][j].src = stack[d][j].src
      BY <2>1 DEF BodyAt
    <2>3. stack[c][i].src = stack[d][j].src
      BY <1>4, <2>2
    <2> QED BY <2>2, <2>3 DEF GateInv
  <1> QED BY <1>1, <1>2, <1>3, <1>4 DEF GateInv

-----------------------------------------------------------------------------
(* The claim. *)

\* A claim finds the source that wins the arbitration: there is one.
LEMMA ClaimWins ==
  ASSUME InterruptsTypeOK, NEW c \in Cores, Claimable(c) # {}
  PROVE  /\ Claim(c) \in Claimable(c)
         /\ \A t \in Claimable(c) : priority[t] <= priority[Claim(c)]
  <1> USE InterruptsAssumption
  <1> DEFINE K == Claimable(c)
             P == {priority[t] : t \in K}
  <1>1. K \subseteq Sources /\ K \subseteq Nat
    BY DEF Claimable, InterruptsTypeOK
  <1>2. \A t \in K : priority[t] \in 0 .. MaxPriority
    BY <1>1 DEF InterruptsTypeOK
  <1> HIDE DEF K
  <1>3. PICK p \in P : \A q \in P : q <= p
    <2>1. P \subseteq 0 .. MaxPriority
      BY <1>2
    <2>2. P # {}
      BY DEF K
    <2> QED BY <2>1, <2>2, GreatestNatural
  <1>4. PICK u \in {t \in K : priority[t] = p} : \A t \in {t \in K : priority[t] = p} : u <= t
    <2>1. {t \in K : priority[t] = p} \subseteq Nat /\ {t \in K : priority[t] = p} # {}
      BY <1>1, <1>3
    <2> QED BY <2>1, LeastNatural
  <1>5. ASSUME NEW t \in K
        PROVE  priority[t] < priority[u] \/ (priority[t] = priority[u] /\ u <= t)
    BY <1>1, <1>2, <1>3, <1>4
  <1>6. /\ Claim(c) \in K
        /\ \A t \in K : priority[t] < priority[Claim(c)]
                        \/ (priority[t] = priority[Claim(c)] /\ Claim(c) <= t)
    BY <1>4, <1>5 DEF Claim, K
  <1> QED BY <1>2, <1>6 DEF K

\* While the external interrupt line of a core is up, a claim returns a source
\* of the core, and one whose priority is above the core's threshold.
LEMMA ClaimFacts ==
  ASSUME InterruptsTypeOK, NEW c \in Cores, Meip(c)
  PROVE  /\ Claim(c) \in pending \cap enable[c]
         /\ Claim(c) \in Sources /\ Claim(c) # 0
         /\ priority[Claim(c)] \in 0 .. MaxPriority
         /\ priority[Claim(c)] > threshold[c]
  <1> USE InterruptsAssumption
  <1>1. PICK s \in pending \cap enable[c] : priority[s] > threshold[c]
    BY DEF Meip
  <1>2. s \in Claimable(c)
    BY <1>1 DEF Claimable, InterruptsTypeOK
  <1>3. Claim(c) \in Claimable(c) /\ priority[s] <= priority[Claim(c)]
    BY <1>2, ClaimWins
  <1>4. Claim(c) \in pending \cap enable[c] /\ Claim(c) \in Sources /\ Claim(c) # 0
    BY <1>3 DEF Claimable, InterruptsTypeOK
  <1>5. /\ priority[Claim(c)] \in 0 .. MaxPriority /\ priority[s] \in 0 .. MaxPriority
        /\ threshold[c] \in Nat
    BY <1>1, <1>4 DEF InterruptsTypeOK
  <1>6. priority[Claim(c)] > threshold[c]
    BY <1>1, <1>3, <1>5
  <1> QED BY <1>4, <1>5, <1>6

-----------------------------------------------------------------------------
(* The local invariant, one operation on the stack at a time. *)

\* Pushing a frame on a stack whose top runs with interrupts on.
LEMMA PushLocal ==
  ASSUME NEW st, NEW t, NEW n \in Nat, NEW a, NEW m, NEW th \in Nat,
         Len(st) = n, Len(t) = n + 1,
         \A i \in 1 .. n : t[i] = st[i] /\ st[i] \in Frames,
         t[n + 1] \in Frames, t[n + 1].phase = "entry",
         Local(st, a, m, th),
         n = 0 \/ Running(st[n]),
         t[n + 1].kind # "ext" => t[n + 1].kind \in m
  PROVE  Local(t, a, m, th)
  <1>2. t[n + 1].kind \in {"ext", "timer", "soft"}
    BY DEF Frames
  <1>3. Shape(st, a) /\ MieInv(st, a, m) /\ LevelInv(st, th)
    BY DEF Local
  <1>4. m = MieUnder(st, a, n + 1)
    BY <1>2, <1>3 DEF MieInv
  <1>5. t[n + 1].kind = "soft" => n = 0 /\ "soft" \in a
    BY <1>4 DEF MieUnder
  <1>6. t[n + 1].kind = "timer" => n = 0 \/ (n = 1 /\ st[1].kind = "soft")
    BY <1>2, <1>3, <1>4 DEF MieUnder, Shape
  <1>7. Shape(t, a)
    <2> SUFFICES ASSUME NEW i \in 1 .. n + 1
                 PROVE  /\ t[i].kind = "ext" => t[i].phase # "ack"
                        /\ t[i].kind = "timer" => t[i].phase \in {"entry", "body"}
                        /\ t[i].kind = "soft" => t[i].phase \in {"entry", "ack", "body"}
                        /\ i < n + 1 => Running(t[i])
                        /\ t[i].kind = "soft" => i = 1 /\ "soft" \in a
                        /\ t[i].kind = "timer" => \A j \in 1 .. i - 1 : t[j].kind = "soft"
      BY <1>2 DEF Shape
    <2>1. CASE i = n + 1
      <3>1. t[i].kind = "timer" => \A j \in 1 .. i - 1 : t[j].kind = "soft"
        BY <1>6, <2>1
      <3>2. t[i].kind = "soft" => i = 1 /\ "soft" \in a
        BY <1>5, <2>1
      <3> QED BY <1>2, <2>1, <3>1, <3>2
    <2>2. CASE i \in 1 .. n
      BY <1>2, <1>3, <2>2 DEF Shape
    <2> QED BY <2>1, <2>2
  <1>8. MieInv(t, a, m)
    <2>1. \A i \in 1 .. n + 1 : MieUnder(t, a, i) = MieUnder(st, a, i)
      BY <1>2 DEF MieUnder
    <2>2. \A i \in 1 .. n : st[i].kind # "soft" /\ Running(st[i]) => st[i].mie = MieUnder(st, a, i)
      BY <1>3 DEF MieInv
    <2>3. ~Running(t[n + 1])
      BY <1>2 DEF Running
    <2> QED BY <1>2, <1>4, <2>1, <2>2, <2>3 DEF MieInv
  <1>9. LevelInv(t, th)
    <2>1. ~Serving(t[n + 1])
      BY <1>2 DEF Serving
    <2>2. \A i \in 1 .. n : Above(t, th, i) = Above(st, th, i)
      BY <1>2, <2>1 DEF Above
    <2>3. \A i \in 1 .. n : Serving(st[i]) =>
            /\ st[i].threshold < Above(st, th, i)
            /\ i <= Above(st, th, i) + 2
            /\ i = 1 \/ st[i - 1].kind # "ext" => st[i].threshold = 0
      BY <1>3 DEF LevelInv
    <2>4. ASSUME NEW i \in 1 .. n + 1, Serving(t[i])
          PROVE  /\ t[i].threshold < Above(t, th, i)
                 /\ i <= Above(t, th, i) + 2
                 /\ i = 1 \/ t[i - 1].kind # "ext" => t[i].threshold = 0
      BY <1>2, <2>1, <2>2, <2>3, <2>4
    <2>5. (\A i \in 1 .. n + 1 : ~Serving(t[i])) => th = 0
      BY <1>2, <1>3 DEF LevelInv
    <2>6. th <= MaxPriority
      BY <1>3 DEF LevelInv
    <2> QED BY <1>2, <2>4, <2>5, <2>6 DEF LevelInv
  <1> QED BY <1>7, <1>8, <1>9 DEF Local

\* The top frame moves on to another of its handler's phases.
LEMMA TopShape ==
  ASSUME NEW st, NEW t, NEW n \in Nat, NEW a,
         n > 0, Len(st) = n, Len(t) = n,
         \A i \in 1 .. n - 1 : t[i] = st[i],
         t[n].kind = st[n].kind,
         t[n].kind = "ext" => t[n].phase # "ack",
         t[n].kind = "timer" => t[n].phase \in {"entry", "body"},
         t[n].kind = "soft" => t[n].phase \in {"entry", "ack", "body"},
         Shape(st, a)
  PROVE  Shape(t, a)
  <1> SUFFICES ASSUME NEW i \in 1 .. n
               PROVE  /\ t[i].kind = "ext" => t[i].phase # "ack"
                      /\ t[i].kind = "timer" => t[i].phase \in {"entry", "body"}
                      /\ t[i].kind = "soft" => t[i].phase \in {"entry", "ack", "body"}
                      /\ i < n => Running(t[i])
                      /\ t[i].kind = "soft" => i = 1 /\ "soft" \in a
                      /\ t[i].kind = "timer" => \A j \in 1 .. i - 1 : t[j].kind = "soft"
    BY DEF Shape
  <1>1. CASE i = n
    BY <1>1 DEF Shape
  <1>2. CASE i \in 1 .. n - 1
    BY <1>2 DEF Shape
  <1> QED BY <1>1, <1>2

\* The mask, when the top frame's handler saves it and masks, or leaves it.
LEMMA TopMie ==
  ASSUME NEW st, NEW t, NEW n \in Nat, NEW a, NEW m, NEW m2,
         n > 0, Len(st) = n, Len(t) = n,
         \A i \in 1 .. n - 1 : t[i] = st[i],
         t[n].kind = st[n].kind,
         Shape(st, a), MieInv(st, a, m),
         \/ (Running(t[n]) <=> Running(st[n])) /\ t[n].mie = st[n].mie /\ m2 = m
         \/ /\ ~Running(st[n]) /\ Running(t[n])
            /\ st[n].kind # "soft" => t[n].mie = m /\ m2 = {}
            /\ st[n].kind = "soft" => m2 = m \ {"soft"}
  PROVE  MieInv(t, a, m2)
  <1>1. \A i \in 1 .. n + 1 : MieUnder(t, a, i) = MieUnder(st, a, i)
    BY DEF MieUnder
  <1>2. \A i \in 1 .. n : st[i].kind # "soft" /\ Running(st[i]) => st[i].mie = MieUnder(st, a, i)
    BY DEF MieInv
  <1>3. CASE (Running(t[n]) <=> Running(st[n])) /\ t[n].mie = st[n].mie /\ m2 = m
    <2>1. m = MieUnder(st, a, IF ~Running(st[n]) THEN n ELSE n + 1)
      BY DEF MieInv
    <2>2. m2 = MieUnder(t, a, IF ~Running(t[n]) THEN n ELSE n + 1)
      BY <1>1, <1>3, <2>1
    <2>3. \A i \in 1 .. n : t[i].kind # "soft" /\ Running(t[i]) => t[i].mie = MieUnder(t, a, i)
      BY <1>1, <1>2, <1>3
    <2> QED BY <2>2, <2>3 DEF MieInv
  <1>4. CASE /\ ~Running(st[n]) /\ Running(t[n])
             /\ st[n].kind # "soft" => t[n].mie = m /\ m2 = {}
             /\ st[n].kind = "soft" => m2 = m \ {"soft"}
    <2>1. m = MieUnder(st, a, n)
      BY <1>4 DEF MieInv
    <2>2. m2 = MieUnder(t, a, n + 1)
      <3>1. CASE st[n].kind = "soft"
        <4>1. n = 1
          BY <3>1 DEF Shape
        <4> QED BY <1>4, <2>1, <3>1, <4>1 DEF MieUnder
      <3>2. CASE st[n].kind # "soft"
        BY <1>4, <3>2 DEF MieUnder
      <3> QED BY <3>1, <3>2
    <2>3. \A i \in 1 .. n : t[i].kind # "soft" /\ Running(t[i]) => t[i].mie = MieUnder(t, a, i)
      BY <1>1, <1>2, <1>4, <2>1
    <2> QED BY <1>4, <2>2, <2>3 DEF MieInv
  <1> QED BY <1>3, <1>4

\* The frame under an external one is external and serving, or among the two
\* lowest; and below a frame that is not external nothing serves.
LEMMA Under ==
  ASSUME NEW st, NEW n \in Nat, NEW a, n > 1, Len(st) = n,
         \A i \in 1 .. n : st[i] \in Frames, Shape(st, a)
  PROVE  /\ st[n - 1].kind = "ext" => Serving(st[n - 1])
         /\ st[n - 1].kind # "ext" => n <= 3 /\ \A j \in 1 .. n - 1 : ~Serving(st[j])
  <1>1. n - 1 \in 1 .. n /\ Running(st[n - 1])
    BY DEF Shape
  <1>2. st[n - 1].kind = "ext" => Serving(st[n - 1])
    BY <1>1 DEF Shape, Serving, Running
  <1>3. CASE st[n - 1].kind = "soft"
    <2>1. n = 2
      BY <1>1, <1>3 DEF Shape
    <2> QED BY <1>3, <2>1 DEF Serving
  <1>4. CASE st[n - 1].kind = "timer"
    <2>1. \A j \in 1 .. n - 2 : st[j].kind = "soft"
      BY <1>1, <1>4 DEF Shape
    <2>2. \A j \in 1 .. n - 2 : j = 1
      BY <2>1 DEF Shape
    <2>3. n <= 3
      <3>1. n > 3 => 2 \in 1 .. n - 2
        OBVIOUS
      <3> QED BY <2>2, <3>1
    <2>4. \A j \in 1 .. n - 1 : ~Serving(st[j])
      BY <1>4, <2>1 DEF Serving
    <2> QED BY <1>4, <2>3, <2>4
  <1>5. st[n - 1].kind \in {"ext", "timer", "soft"}
    BY <1>1 DEF Frames
  <1> QED BY <1>2, <1>3, <1>4, <1>5

\* Above a serving frame only the top can be one that does not serve.
LEMMA NextServes ==
  ASSUME NEW st, NEW n \in Nat, NEW a, Len(st) = n,
         \A i \in 1 .. n : st[i] \in Frames, Shape(st, a),
         NEW i \in 1 .. n, i + 1 < n, Serving(st[i])
  PROVE  Serving(st[i + 1])
  <1>1. i + 1 \in 1 .. n /\ i \in 1 .. (i + 1) - 1
    OBVIOUS
  <1>2. st[i + 1].kind # "soft"
    BY <1>1 DEF Shape
  <1>3. st[i + 1].kind # "timer"
    BY <1>1 DEF Shape, Serving
  <1>4. st[i + 1].kind = "ext"
    BY <1>1, <1>2, <1>3 DEF Frames
  <1>5. Running(st[i + 1]) /\ st[i + 1].phase # "ack"
    BY <1>1, <1>4 DEF Shape
  <1> QED BY <1>4, <1>5 DEF Serving, Running

\* The threshold, when the top frame claims, or leaves it alone.
LEMMA TopLevel ==
  ASSUME NEW st, NEW t, NEW n \in Nat, NEW a, NEW th \in Nat, NEW th2 \in Nat,
         n > 0, Len(st) = n, Len(t) = n,
         \A i \in 1 .. n : st[i] \in Frames,
         \A i \in 1 .. n - 1 : t[i] = st[i],
         Shape(st, a), LevelInv(st, th),
         \/ (Serving(t[n]) <=> Serving(st[n])) /\ t[n].threshold = st[n].threshold /\ th2 = th
         \/ /\ ~Serving(st[n]) /\ Serving(t[n])
            /\ t[n].threshold = th /\ th < th2 /\ th2 <= MaxPriority
  PROVE  LevelInv(t, th2)
  <1> USE InterruptsAssumption
  <1>1. \A i \in 1 .. n : Serving(st[i]) =>
          /\ st[i].threshold < Above(st, th, i)
          /\ i <= Above(st, th, i) + 2
          /\ i = 1 \/ st[i - 1].kind # "ext" => st[i].threshold = 0
    BY DEF LevelInv
  <1>2. ((\A i \in 1 .. n : ~Serving(st[i])) => th = 0) /\ th <= MaxPriority
    BY DEF LevelInv
  <1>3. \A i \in 1 .. n - 1 : Serving(st[i]) => Above(t, th2, i) = Above(st, th, i)
    <2> SUFFICES ASSUME NEW i \in 1 .. n - 1, Serving(st[i])
                 PROVE  Above(t, th2, i) = Above(st, th, i)
      OBVIOUS
    <2>1. CASE i = n - 1
      BY <2>1 DEF Above
    <2>2. CASE i # n - 1
      <3>1. i + 1 \in 1 .. n - 1 /\ i < Len(st) /\ i < Len(t)
        BY <2>2
      <3>2. t[i + 1] = st[i + 1] /\ Serving(st[i + 1])
        BY <3>1, NextServes
      <3> QED BY <3>1, <3>2 DEF Above
    <2> QED BY <2>1, <2>2
  <1>4. ASSUME NEW i \in 1 .. n - 1, Serving(t[i])
        PROVE  /\ t[i].threshold < Above(t, th2, i)
               /\ i <= Above(t, th2, i) + 2
               /\ i = 1 \/ t[i - 1].kind # "ext" => t[i].threshold = 0
    BY <1>1, <1>3, <1>4
  <1>5. Above(t, th2, n) = th2 /\ Above(st, th, n) = th
    BY DEF Above
  <1>6. CASE (Serving(t[n]) <=> Serving(st[n])) /\ t[n].threshold = st[n].threshold /\ th2 = th
    <2>1. ASSUME Serving(t[n])
          PROVE  /\ t[n].threshold < Above(t, th2, n)
                 /\ n <= Above(t, th2, n) + 2
                 /\ n = 1 \/ t[n - 1].kind # "ext" => t[n].threshold = 0
      BY <1>1, <1>5, <1>6, <2>1
    <2>2. (\A i \in 1 .. n : ~Serving(t[i])) => th2 = 0
      BY <1>2, <1>6
    <2> QED BY <1>2, <1>4, <1>6, <2>1, <2>2 DEF LevelInv
  <1>7. CASE /\ ~Serving(st[n]) /\ Serving(t[n])
             /\ t[n].threshold = th /\ th < th2 /\ th2 <= MaxPriority
    <2>1. t[n].threshold < Above(t, th2, n)
      BY <1>5, <1>7
    <2>2. n <= th2 + 2 /\ (n = 1 \/ t[n - 1].kind # "ext" => th = 0)
      <3>1. CASE n = 1
        BY <1>2, <1>7, <3>1
      <3>2. CASE n > 1 /\ st[n - 1].kind = "ext"
        <4>1. Serving(st[n - 1]) /\ n - 1 \in 1 .. n - 1
          BY <3>2, Under
        <4>2. Above(st, th, n - 1) = th
          BY <1>7, <3>2 DEF Above
        <4> QED BY <1>1, <1>7, <3>2, <4>1, <4>2
      <3>3. CASE n > 1 /\ st[n - 1].kind # "ext"
        <4>1. n <= 3 /\ \A j \in 1 .. n - 1 : ~Serving(st[j])
          BY <3>3, Under
        <4>2. th = 0
          BY <1>2, <1>7, <4>1
        <4> QED BY <1>7, <4>1, <4>2
      <3> QED BY <3>1, <3>2, <3>3
    <2> QED BY <1>4, <1>5, <1>7, <2>1, <2>2 DEF LevelInv
  <1> QED BY <1>6, <1>7

\* The top frame goes; single-shot timers take "timer" out of what is asked.
LEMMA PopShape ==
  ASSUME NEW st, NEW t, NEW n \in Nat, NEW a, NEW a2,
         n > 0, Len(st) = n, Len(t) = n - 1,
         \A i \in 1 .. n - 1 : t[i] = st[i],
         "soft" \in a => "soft" \in a2,
         Shape(st, a)
  PROVE  Shape(t, a2)
  BY DEF Shape

\* The mask the handler leaves behind.
LEMMA PopMie ==
  ASSUME NEW st, NEW t, NEW n \in Nat, NEW a, NEW a2, NEW m, NEW m2,
         n > 0, Len(st) = n, Len(t) = n - 1,
         \A i \in 1 .. n : st[i] \in Frames,
         \A i \in 1 .. n - 1 : t[i] = st[i],
         Shape(st, a), MieInv(st, a, m), Running(st[n]),
         st[n].kind = "ext" => m2 = st[n].mie /\ a2 = a,
         st[n].kind = "soft" => m2 = m \cup {"soft"} /\ a2 = a,
         st[n].kind = "timer" => \/ m2 = st[n].mie /\ a2 = a
                                 \/ m2 = st[n].mie \ {"timer"} /\ a2 = a \ {"timer"}
  PROVE  MieInv(t, a2, m2)
  <1>1. \A i \in 1 .. n : st[i].kind # "soft" /\ Running(st[i]) => st[i].mie = MieUnder(st, a, i)
    BY DEF MieInv
  <1>2. m = MieUnder(st, a, n + 1)
    BY DEF MieInv
  <1>3. n - 1 > 0 => Running(t[n - 1])
    BY DEF Shape
  <1>4. \A i \in 1 .. n : \A b : MieUnder(t, b, i) = MieUnder(st, b, i)
    BY DEF MieUnder
  <1>5. CASE st[n].kind = "ext"
    <2>1. m2 = MieUnder(t, a, n)
      BY <1>1, <1>4, <1>5
    <2> QED BY <1>1, <1>3, <1>4, <1>5, <2>1 DEF MieInv
  <1>6. CASE st[n].kind = "soft"
    <2>1. n = 1 /\ "soft" \in a
      BY <1>6 DEF Shape
    <2>2. m2 = a
      <3>1. m = MieUnder(st, a, 2) /\ st[2 - 1].kind = "soft"
        BY <1>2, <1>6, <2>1
      <3>2. m = a \ {"soft"}
        BY <3>1 DEF MieUnder
      <3> QED BY <1>6, <2>1, <3>2
    <2> QED BY <1>6, <2>1, <2>2 DEF MieInv, MieUnder
  <1>7. CASE st[n].kind = "timer"
    <2>1. \A i \in 1 .. n - 1 : st[i].kind = "soft"
      BY <1>7 DEF Shape
    <2>2. st[n].mie = IF n = 1 THEN a ELSE a \ {"soft"}
      <3>1. st[n].mie = MieUnder(st, a, n)
        BY <1>1, <1>7
      <3>2. n # 1 => st[n - 1].kind = "soft"
        BY <2>1
      <3> QED BY <3>1, <3>2 DEF MieUnder
    <2>3. MieUnder(t, a2, n) = IF n = 1 THEN a2 ELSE a2 \ {"soft"}
      BY <2>1 DEF MieUnder
    <2>4. m2 = MieUnder(t, a2, n)
      BY <1>7, <2>2, <2>3
    <2> QED BY <1>3, <2>1, <2>4 DEF MieInv
  <1>8. st[n].kind \in {"ext", "timer", "soft"}
    BY DEF Frames
  <1> QED BY <1>5, <1>6, <1>7, <1>8

\* The threshold the handler leaves behind.
LEMMA PopLevel ==
  ASSUME NEW st, NEW t, NEW n \in Nat, NEW a, NEW th \in Nat, NEW th2 \in Nat,
         n > 0, Len(st) = n, Len(t) = n - 1,
         \A i \in 1 .. n : st[i] \in Frames,
         \A i \in 1 .. n - 1 : t[i] = st[i],
         Shape(st, a), LevelInv(st, th),
         th2 = IF Serving(st[n]) THEN st[n].threshold ELSE th
  PROVE  LevelInv(t, th2)
  <1> USE InterruptsAssumption
  <1>1. \A i \in 1 .. n : Serving(st[i]) =>
          /\ st[i].threshold < Above(st, th, i)
          /\ i <= Above(st, th, i) + 2
          /\ i = 1 \/ st[i - 1].kind # "ext" => st[i].threshold = 0
    BY DEF LevelInv
  <1>2. ((\A i \in 1 .. n : ~Serving(st[i])) => th = 0) /\ th <= MaxPriority
    BY DEF LevelInv
  <1>3. \A i \in 1 .. n - 1 : Serving(st[i]) => Above(t, th2, i) = Above(st, th, i)
    <2> SUFFICES ASSUME NEW i \in 1 .. n - 1, Serving(st[i])
                 PROVE  Above(t, th2, i) = Above(st, th, i)
      OBVIOUS
    <2>1. CASE i = n - 1
      BY <2>1 DEF Above
    <2>2. CASE i # n - 1
      <3>1. i + 1 \in 1 .. n - 1 /\ i < Len(st) /\ i < Len(t)
        BY <2>2
      <3>2. t[i + 1] = st[i + 1] /\ Serving(st[i + 1])
        BY <3>1, NextServes
      <3> QED BY <3>1, <3>2 DEF Above
    <2> QED BY <2>1, <2>2
  <1>4. ASSUME NEW i \in 1 .. n - 1, Serving(t[i])
        PROVE  /\ t[i].threshold < Above(t, th2, i)
               /\ i <= Above(t, th2, i) + 2
               /\ i = 1 \/ t[i - 1].kind # "ext" => t[i].threshold = 0
    BY <1>1, <1>3, <1>4
  <1>5. th2 <= MaxPriority
    <2>1. Above(st, th, n) = th
      BY DEF Above
    <2> QED BY <1>1, <1>2, <2>1
  <1>6. ASSUME \A i \in 1 .. n - 1 : ~Serving(t[i]) PROVE th2 = 0
    <2>1. CASE ~Serving(st[n])
      BY <1>2, <1>6, <2>1
    <2>2. CASE Serving(st[n])
      <3>1. n > 1 => st[n - 1].kind # "ext"
        BY <1>6, Under
      <3> QED BY <1>1, <2>2, <3>1
    <2> QED BY <2>1, <2>2
  <1> QED BY <1>4, <1>5, <1>6 DEF LevelInv

-----------------------------------------------------------------------------
(* The steps of the handlers. *)

\* A step of core c that claims and completes nothing: what is left to show
\* concerns the stack and the registers of c.
LEMMA HandlerFrame ==
  ASSUME InterruptsIInv, NEW c \in Cores,
         UNCHANGED <<enable, priority, pending, held>>,
         stack' \in [Cores -> Seq(Frames)], threshold' \in [Cores -> Nat],
         mie' \in [Cores -> SUBSET Bit], asked' \in [Cores -> SUBSET Bit],
         \A d \in Cores \ {c} : /\ stack'[d] = stack[d] /\ asked'[d] = asked[d]
                                /\ mie'[d] = mie[d] /\ threshold'[d] = threshold[d],
         LocalInv(c)', MeipInv(c)',
         \A i \in Nat : /\ BodyAt(c, i)' <=> BodyAt(c, i)
                        /\ BodyAt(c, i) => stack'[c][i].src = stack[c][i].src
  PROVE  InterruptsIInv'
  <1>1. InterruptsTypeOK'
    BY DEF InterruptsIInv, InterruptsTypeOK
  <1>2. ASSUME NEW d \in Cores PROVE LocalInv(d)' /\ MeipInv(d)'
    <2>1. CASE d = c
      BY <2>1
    <2>2. CASE d # c
      <3>1. LocalInv(d)'
        BY <2>2 DEF InterruptsIInv, LocalInv
      <3>2. MeipInv(d)'
        BY <2>2, MeipFrame DEF InterruptsIInv
      <3> QED BY <3>1, <3>2
    <2> QED BY <2>1, <2>2
  <1>3. EnabledOnce'
    BY DEF InterruptsIInv, EnabledOnce
  <1>4. GateInv'
    <2>1. ASSUME NEW d \in Cores, NEW i \in Nat
          PROVE  /\ BodyAt(d, i)' <=> BodyAt(d, i)
                 /\ BodyAt(d, i) => stack'[d][i].src = stack[d][i].src
      <3>1. CASE d = c
        BY <3>1
      <3>2. CASE d # c
        BY <3>2 DEF BodyAt, Depth, InBody
      <3> QED BY <3>1, <3>2
    <2>2. \A d \in Cores : Depth(d) \in Nat /\ Depth(d)' \in Nat
      BY DEF Depth, InterruptsIInv, InterruptsTypeOK
    <2>3. GateInv /\ held' = held /\ pending' \cap held = {} /\ enable' = enable
      BY DEF InterruptsIInv, GateInv
    <2> QED BY <2>1, <2>2, <2>3, GateFrame
  <1> QED BY <1>1, <1>2, <1>3, <1>4 DEF InterruptsIInv

\* A trap pushes a frame: a software interrupt only at the bottom, a timer
\* interrupt at the bottom or above a software interrupt.
LEMMA TrapKeeps ==
  ASSUME InterruptsIInv, NEW c \in Cores, Trap(c)
  PROVE  InterruptsIInv'
  <1>0. UNCHANGED <<enable, priority, threshold, pending, held, mie, asked>>
    BY DEF Trap, plic
  <1>1. PICK kind \in {"ext", "timer", "soft"} :
          /\ Push(c, Frame(kind))
          /\ kind = "ext" => Meip(c)
          /\ kind # "ext" => kind \in mie[c]
    BY Zenon DEF Trap
  <1>2. Frame(kind) \in Frames /\ Frame(kind).kind = kind /\ Frame(kind).phase = "entry"
    BY DEF Frame, Frames
  <1>3. InterruptsTypeOK /\ LocalInv(c)
    BY DEF InterruptsIInv
  <1>4. PICK n \in Nat : n = Depth(c)
    BY <1>3 DEF Depth, InterruptsTypeOK
  <1>5. /\ stack' \in [Cores -> Seq(Frames)]
        /\ Len(stack[c]) = n /\ Len(stack'[c]) = n + 1
        /\ stack'[c][n + 1] = Frame(kind)
        /\ \A i \in 1 .. n : stack'[c][i] = stack[c][i] /\ stack[c][i] \in Frames
        /\ \A d \in Cores \ {c} : stack'[d] = stack[d]
    BY <1>1, <1>2, <1>3, <1>4, PushFacts DEF Depth
  <1>6. n = 0 \/ Running(stack[c][n])
    <2>1. Phase(c) \in {"base", "ack", "body", "leave"}
      BY DEF Trap, GlobalEnable
    <2>2. n # 0 => Phase(c) = stack[c][n].phase /\ stack[c][n].phase # "base"
      BY <1>4, <1>5 DEF Phase, Top, Frames
    <2> QED BY <2>1, <2>2 DEF Running
  <1>7. LocalInv(c)'
    <2>1. Local(stack[c], asked[c], mie[c], threshold[c]) /\ threshold[c] \in Nat
      BY <1>3 DEF LocalInv, InterruptsTypeOK
    <2>2. Local(stack'[c], asked[c], mie[c], threshold[c])
      BY <1>1, <1>2, <1>5, <1>6, <2>1, PushLocal
    <2> QED BY <1>0, <2>2 DEF LocalInv
  <1>8. MeipInv(c)'
    BY <1>0, <1>1, <1>2, <1>5 DEF MeipInv, Meip, Top, Depth
  <1>9. \A i \in Nat : /\ BodyAt(c, i)' <=> BodyAt(c, i)
                       /\ BodyAt(c, i) => stack'[c][i].src = stack[c][i].src
    BY <1>2, <1>5 DEF BodyAt, InBody, Depth
  <1>10. /\ threshold' \in [Cores -> Nat] /\ mie' \in [Cores -> SUBSET Bit]
         /\ asked' \in [Cores -> SUBSET Bit]
    BY <1>0, <1>3 DEF InterruptsTypeOK
  <1> QED BY <1>0, <1>5, <1>7, <1>8, <1>9, <1>10, HandlerFrame

\* The facts every step of a handler starts from.
LEMMA InFacts ==
  ASSUME InterruptsIInv, NEW c \in Cores, NEW kind, NEW phase, In(c, kind, phase)
  PROVE  /\ InterruptsTypeOK /\ Depth(c) > 0 /\ Depth(c) \in Nat
         /\ Top(c) \in Frames /\ Top(c).kind = kind /\ Top(c).phase = phase
         /\ \A i \in 1 .. Depth(c) : stack[c][i] \in Frames
         /\ Shape(stack[c], asked[c]) /\ MieInv(stack[c], asked[c], mie[c])
         /\ LevelInv(stack[c], threshold[c])
         /\ threshold[c] \in Nat /\ mie[c] \subseteq Bit /\ asked[c] \subseteq Bit
  <1>1. InterruptsTypeOK /\ Local(stack[c], asked[c], mie[c], threshold[c])
    BY DEF InterruptsIInv, LocalInv
  <1>2. Depth(c) > 0 /\ Top(c).kind = kind /\ Top(c).phase = phase
    BY DEF In
  <1>3. stack[c] \in Seq(Frames) /\ Depth(c) \in Nat
    BY <1>1 DEF InterruptsTypeOK, Depth
  <1>4. \A i \in 1 .. Depth(c) : stack[c][i] \in Frames
    BY <1>3 DEF Depth
  <1>5. Top(c) \in Frames
    BY <1>2, <1>3, <1>4 DEF Top
  <1> QED BY <1>1, <1>2, <1>3, <1>4, <1>5 DEF Local, InterruptsTypeOK

\* A handler step that changes the top frame to f.
LEMMA SetTopStep ==
  ASSUME InterruptsIInv, NEW c \in Cores, NEW f \in Frames,
         Depth(c) > 0, SetTop(c, f), f.kind = Top(c).kind,
         f.kind = "ext" => f.phase # "ack",
         f.kind = "timer" => f.phase \in {"entry", "body"},
         f.kind = "soft" => f.phase \in {"entry", "ack", "body"},
         asked' = asked, threshold'[c] \in Nat,
         \/ (Running(f) <=> Running(Top(c))) /\ f.mie = Top(c).mie /\ mie'[c] = mie[c]
         \/ /\ ~Running(Top(c)) /\ Running(f)
            /\ Top(c).kind # "soft" => f.mie = mie[c] /\ mie'[c] = {}
            /\ Top(c).kind = "soft" => mie'[c] = mie[c] \ {"soft"},
         \/ /\ Serving(f) <=> Serving(Top(c))
            /\ f.threshold = Top(c).threshold /\ threshold'[c] = threshold[c]
         \/ /\ ~Serving(Top(c)) /\ Serving(f) /\ f.threshold = threshold[c]
            /\ threshold[c] < threshold'[c] /\ threshold'[c] <= MaxPriority
  PROVE  /\ LocalInv(c)'
         /\ stack' \in [Cores -> Seq(Frames)]
         /\ Depth(c)' = Depth(c) /\ Depth(c) \in Nat
         /\ stack'[c][Depth(c)] = f
         /\ \A i \in 1 .. Depth(c) - 1 : stack'[c][i] = stack[c][i]
         /\ \A d \in Cores \ {c} : stack'[d] = stack[d]
  <1>1. InterruptsTypeOK /\ Local(stack[c], asked[c], mie[c], threshold[c])
        /\ threshold[c] \in Nat
    BY DEF InterruptsIInv, LocalInv, InterruptsTypeOK
  <1>2. /\ stack' \in [Cores -> Seq(Frames)]
        /\ Depth(c)' = Depth(c) /\ Depth(c) \in Nat
        /\ stack'[c][Depth(c)] = f
        /\ \A i \in 1 .. Depth(c) : stack[c][i] \in Frames
        /\ \A i \in 1 .. Depth(c) - 1 : stack'[c][i] = stack[c][i]
        /\ \A d \in Cores \ {c} : stack'[d] = stack[d]
    BY <1>1, SetTopFacts
  <1>3. PICK st, t, n, a, m, m2, th, th2 :
          /\ st = stack[c] /\ t = stack'[c] /\ n = Depth(c) /\ a = asked[c]
          /\ m = mie[c] /\ m2 = mie'[c] /\ th = threshold[c] /\ th2 = threshold'[c]
    OBVIOUS
  <1>4. /\ n \in Nat /\ n > 0 /\ Len(st) = n /\ Len(t) = n /\ th \in Nat /\ th2 \in Nat
        /\ t[n] = f /\ Top(c) = st[n]
        /\ \A i \in 1 .. n : st[i] \in Frames
        /\ \A i \in 1 .. n - 1 : t[i] = st[i]
    BY <1>1, <1>2, <1>3 DEF Depth, Top
  <1>5. Shape(st, a) /\ MieInv(st, a, m) /\ LevelInv(st, th)
    BY <1>1, <1>3 DEF Local
  <1>6. Shape(t, a)
    BY <1>4, <1>5, TopShape
  <1>7. MieInv(t, a, m2)
    <2>1. \/ (Running(t[n]) <=> Running(st[n])) /\ t[n].mie = st[n].mie /\ m2 = m
          \/ /\ ~Running(st[n]) /\ Running(t[n])
             /\ st[n].kind # "soft" => t[n].mie = m /\ m2 = {}
             /\ st[n].kind = "soft" => m2 = m \ {"soft"}
      BY <1>3, <1>4
    <2> QED BY <1>4, <1>5, <2>1, TopMie
  <1>8. LevelInv(t, th2)
    <2>1. \/ (Serving(t[n]) <=> Serving(st[n])) /\ t[n].threshold = st[n].threshold /\ th2 = th
          \/ /\ ~Serving(st[n]) /\ Serving(t[n])
             /\ t[n].threshold = th /\ th < th2 /\ th2 <= MaxPriority
      BY <1>3, <1>4
    <2> QED BY <1>4, <1>5, <2>1, TopLevel
  <1>9. LocalInv(c)'
    BY <1>3, <1>6, <1>7, <1>8 DEF LocalInv, Local
  <1> QED BY <1>2, <1>9

\* A handler step that returns, dropping its frame.
LEMMA PopStep ==
  ASSUME InterruptsIInv, NEW c \in Cores,
         Depth(c) > 0, Pop(c), Running(Top(c)), threshold'[c] \in Nat,
         Top(c).kind = "ext" => mie'[c] = Top(c).mie /\ asked'[c] = asked[c],
         Top(c).kind = "soft" => mie'[c] = mie[c] \cup {"soft"} /\ asked'[c] = asked[c],
         Top(c).kind = "timer" =>
           \/ mie'[c] = Top(c).mie /\ asked'[c] = asked[c]
           \/ mie'[c] = Top(c).mie \ {"timer"} /\ asked'[c] = asked[c] \ {"timer"},
         threshold'[c] = IF Serving(Top(c)) THEN Top(c).threshold ELSE threshold[c]
  PROVE  /\ LocalInv(c)' /\ MeipInv(c)'
         /\ stack' \in [Cores -> Seq(Frames)]
         /\ Depth(c)' = Depth(c) - 1 /\ Depth(c) \in Nat
         /\ \A i \in 1 .. Depth(c) - 1 : stack'[c][i] = stack[c][i]
         /\ \A d \in Cores \ {c} : stack'[d] = stack[d]
  <1>1. InterruptsTypeOK /\ Local(stack[c], asked[c], mie[c], threshold[c])
        /\ threshold[c] \in Nat
    BY DEF InterruptsIInv, LocalInv, InterruptsTypeOK
  <1>2. /\ stack' \in [Cores -> Seq(Frames)]
        /\ Depth(c)' = Depth(c) - 1 /\ Depth(c) \in Nat
        /\ \A i \in 1 .. Depth(c) : stack[c][i] \in Frames
        /\ \A i \in 1 .. Depth(c) - 1 : stack'[c][i] = stack[c][i]
        /\ \A d \in Cores \ {c} : stack'[d] = stack[d]
    BY <1>1, PopFacts
  <1>3. PICK st, t, n, a, a2, m, m2, th, th2 :
          /\ st = stack[c] /\ t = stack'[c] /\ n = Depth(c) /\ a = asked[c] /\ a2 = asked'[c]
          /\ m = mie[c] /\ m2 = mie'[c] /\ th = threshold[c] /\ th2 = threshold'[c]
    OBVIOUS
  <1>4. /\ n \in Nat /\ n > 0 /\ Len(st) = n /\ Len(t) = n - 1 /\ th \in Nat /\ th2 \in Nat
        /\ Top(c) = st[n]
        /\ \A i \in 1 .. n : st[i] \in Frames
        /\ \A i \in 1 .. n - 1 : t[i] = st[i]
    BY <1>1, <1>2, <1>3 DEF Depth, Top
  <1>5. Shape(st, a) /\ MieInv(st, a, m) /\ LevelInv(st, th)
    BY <1>1, <1>3 DEF Local
  <1>6. /\ st[n].kind = "ext" => m2 = st[n].mie /\ a2 = a
        /\ st[n].kind = "soft" => m2 = m \cup {"soft"} /\ a2 = a
        /\ st[n].kind = "timer" => \/ m2 = st[n].mie /\ a2 = a
                                   \/ m2 = st[n].mie \ {"timer"} /\ a2 = a \ {"timer"}
        /\ th2 = IF Serving(st[n]) THEN st[n].threshold ELSE th
        /\ Running(st[n]) /\ st[n].kind \in {"ext", "timer", "soft"}
    BY <1>3, <1>4 DEF Frames
  <1>7. Shape(t, a2)
    <2>1. "soft" \in a => "soft" \in a2
      BY <1>6
    <2> QED BY <1>4, <1>5, <2>1, PopShape
  <1>8. MieInv(t, a2, m2)
    BY <1>4, <1>5, <1>6, PopMie
  <1>9. LevelInv(t, th2)
    BY <1>4, <1>5, <1>6, PopLevel
  <1>10. LocalInv(c)'
    BY <1>3, <1>7, <1>8, <1>9 DEF LocalInv, Local
  <1>11. MeipInv(c)'
    <2>1. n - 1 > 0 => Running(t[n - 1])
      BY <1>4, <1>5 DEF Shape
    <2>2. Depth(c)' = n - 1 /\ Top(c)' = t[n - 1]
      BY <1>3, <1>4 DEF Depth, Top
    <2>3. Depth(c)' > 0 => Running(Top(c)')
      BY <2>1, <2>2
    <2> QED BY <2>3 DEF MeipInv, Running
  <1> QED BY <1>2, <1>10, <1>11

\* Steps on a top frame that runs no callback leave the running callbacks.
LEMMA SameBodies ==
  ASSUME NEW c \in Cores, Depth(c) \in Nat, Depth(c) > 0,
         ~InBody(Top(c)),
         \A i \in 1 .. Depth(c) - 1 : stack'[c][i] = stack[c][i],
         \/ Depth(c)' = Depth(c) /\ ~InBody(stack'[c][Depth(c)])
         \/ Depth(c)' = Depth(c) - 1
  PROVE  \A i \in Nat : /\ BodyAt(c, i)' <=> BodyAt(c, i)
                        /\ BodyAt(c, i) => stack'[c][i].src = stack[c][i].src
  <1> SUFFICES ASSUME NEW i \in Nat
               PROVE  /\ BodyAt(c, i)' <=> BodyAt(c, i)
                      /\ BodyAt(c, i) => stack'[c][i].src = stack[c][i].src
    OBVIOUS
  <1>0. BodyAt(c, i)' <=> i \in 1 .. Depth(c)' /\ InBody(stack'[c][i])
    BY DEF BodyAt, InBody
  <1>1. CASE i = Depth(c)
    <2>1. ~BodyAt(c, i)
      BY <1>1 DEF BodyAt, Top
    <2>2. ~BodyAt(c, i)'
      BY <1>0, <1>1
    <2> QED BY <2>1, <2>2
  <1>2. CASE i \in 1 .. Depth(c) - 1
    <2>1. i \in 1 .. Depth(c) /\ i \in 1 .. Depth(c)'
      BY <1>2
    <2> QED BY <1>0, <1>2, <2>1 DEF BodyAt
  <1>3. CASE i \notin 1 .. Depth(c)
    BY <1>0, <1>3 DEF BodyAt
  <1> QED BY <1>1, <1>2, <1>3

\* The second look at MEIP: it is still up, so the handler goes on to claim.
LEMMA ExtCheckKeeps ==
  ASSUME InterruptsIInv, NEW c \in Cores, ExtCheck(c)
  PROVE  InterruptsIInv'
  <1>0. UNCHANGED <<enable, priority, threshold, pending, held, mie, asked>>
    BY DEF ExtCheck, plic
  <1>1. /\ InterruptsTypeOK /\ Depth(c) > 0 /\ Depth(c) \in Nat
        /\ Top(c) \in Frames /\ Top(c).kind = "ext" /\ Top(c).phase = "entry"
        /\ threshold[c] \in Nat
    BY InFacts DEF ExtCheck
  <1>2. Meip(c)
    BY <1>1 DEF InterruptsIInv, MeipInv, Running
  <1>3. PICK f : f = [Top(c) EXCEPT !.phase = "claim"]
    OBVIOUS
  <1>4. /\ f \in Frames /\ f.kind = "ext" /\ f.phase = "claim" /\ f.mie = Top(c).mie
        /\ f.threshold = Top(c).threshold
    BY <1>1, <1>3 DEF Frames
  <1>5. SetTop(c, f)
    BY <1>2, <1>3 DEF ExtCheck
  <1>6. /\ ~Running(f) /\ ~Running(Top(c)) /\ ~Serving(f) /\ ~Serving(Top(c))
        /\ ~InBody(f) /\ ~InBody(Top(c))
    BY <1>1, <1>4 DEF Running, Serving, InBody
  <1>7. /\ LocalInv(c)'
        /\ stack' \in [Cores -> Seq(Frames)]
        /\ Depth(c)' = Depth(c)
        /\ stack'[c][Depth(c)] = f
        /\ \A i \in 1 .. Depth(c) - 1 : stack'[c][i] = stack[c][i]
        /\ \A d \in Cores \ {c} : stack'[d] = stack[d]
    BY <1>0, <1>1, <1>4, <1>5, <1>6, SetTopStep
  <1>8. MeipInv(c)'
    BY <1>0, <1>2 DEF MeipInv, Meip
  <1>9. \A i \in Nat : /\ BodyAt(c, i)' <=> BodyAt(c, i)
                       /\ BodyAt(c, i) => stack'[c][i].src = stack[c][i].src
    BY <1>1, <1>6, <1>7, SameBodies
  <1>10. /\ threshold' \in [Cores -> Nat] /\ mie' \in [Cores -> SUBSET Bit]
         /\ asked' \in [Cores -> SUBSET Bit]
    BY <1>0, <1>1 DEF InterruptsTypeOK
  <1> QED BY <1>0, <1>7, <1>8, <1>9, <1>10, HandlerFrame

\* The end of handle_irq_m_ext.
LEMMA ExtLeaveKeeps ==
  ASSUME InterruptsIInv, NEW c \in Cores, ExtLeave(c)
  PROVE  InterruptsIInv'
  <1>0. UNCHANGED <<enable, priority, pending, held, asked>>
    BY DEF ExtLeave
  <1>1. /\ InterruptsTypeOK /\ Depth(c) > 0 /\ Depth(c) \in Nat
        /\ Top(c) \in Frames /\ Top(c).kind = "ext" /\ Top(c).phase = "leave"
    BY InFacts DEF ExtLeave
  <1>2. Top(c).threshold \in Nat /\ Top(c).mie \subseteq Bit
    BY <1>1 DEF Frames
  <1>3. /\ threshold' \in [Cores -> Nat] /\ mie' \in [Cores -> SUBSET Bit]
        /\ threshold'[c] = Top(c).threshold /\ mie'[c] = Top(c).mie
        /\ \A d \in Cores \ {c} : mie'[d] = mie[d] /\ threshold'[d] = threshold[d]
    BY <1>1, <1>2 DEF ExtLeave, InterruptsTypeOK
  <1>4. Running(Top(c)) /\ Serving(Top(c)) /\ ~InBody(Top(c))
    BY <1>1 DEF Running, Serving, InBody
  <1>5. Pop(c) /\ threshold'[c] \in Nat
    BY <1>2, <1>3 DEF ExtLeave
  <1>6. /\ LocalInv(c)' /\ MeipInv(c)'
        /\ stack' \in [Cores -> Seq(Frames)]
        /\ Depth(c)' = Depth(c) - 1
        /\ \A i \in 1 .. Depth(c) - 1 : stack'[c][i] = stack[c][i]
        /\ \A d \in Cores \ {c} : stack'[d] = stack[d]
    BY <1>0, <1>1, <1>3, <1>4, <1>5, PopStep
  <1>7. \A i \in Nat : /\ BodyAt(c, i)' <=> BodyAt(c, i)
                       /\ BodyAt(c, i) => stack'[c][i].src = stack[c][i].src
    BY <1>1, <1>4, <1>6, SameBodies
  <1>8. asked' \in [Cores -> SUBSET Bit]
    BY <1>0, <1>1 DEF InterruptsTypeOK
  <1> QED BY <1>0, <1>3, <1>6, <1>7, <1>8, HandlerFrame

\* The beginning and the end of handle_irq_m_timer.
LEMMA TimerEnterKeeps ==
  ASSUME InterruptsIInv, NEW c \in Cores, TimerEnter(c)
  PROVE  InterruptsIInv'
  <1>0. UNCHANGED <<enable, priority, threshold, pending, held, asked>>
    BY DEF TimerEnter, plic
  <1>1. /\ InterruptsTypeOK /\ Depth(c) > 0 /\ Depth(c) \in Nat
        /\ Top(c) \in Frames /\ Top(c).kind = "timer" /\ Top(c).phase = "entry"
        /\ threshold[c] \in Nat /\ mie[c] \subseteq Bit
    BY InFacts DEF TimerEnter
  <1>2. PICK f : f = [Top(c) EXCEPT !.phase = "body", !.mie = mie[c]]
    OBVIOUS
  <1>3. /\ f \in Frames /\ f.kind = "timer" /\ f.phase = "body" /\ f.mie = mie[c]
        /\ f.threshold = Top(c).threshold
    BY <1>1, <1>2 DEF Frames
  <1>4. /\ mie' \in [Cores -> SUBSET Bit] /\ mie'[c] = {}
        /\ \A d \in Cores \ {c} : mie'[d] = mie[d]
    BY <1>1 DEF TimerEnter, InterruptsTypeOK
  <1>5. /\ Running(f) /\ ~Running(Top(c)) /\ ~Serving(f) /\ ~Serving(Top(c))
        /\ ~InBody(f) /\ ~InBody(Top(c))
    BY <1>1, <1>3 DEF Running, Serving, InBody
  <1>6. SetTop(c, f)
    BY <1>2 DEF TimerEnter
  <1>7. /\ LocalInv(c)'
        /\ stack' \in [Cores -> Seq(Frames)]
        /\ Depth(c)' = Depth(c)
        /\ stack'[c][Depth(c)] = f
        /\ \A i \in 1 .. Depth(c) - 1 : stack'[c][i] = stack[c][i]
        /\ \A d \in Cores \ {c} : stack'[d] = stack[d]
    BY <1>0, <1>1, <1>3, <1>4, <1>5, <1>6, SetTopStep
  <1>8. MeipInv(c)'
    BY <1>3, <1>7 DEF MeipInv, Top
  <1>9. \A i \in Nat : /\ BodyAt(c, i)' <=> BodyAt(c, i)
                       /\ BodyAt(c, i) => stack'[c][i].src = stack[c][i].src
    BY <1>1, <1>5, <1>7, SameBodies
  <1>10. threshold' \in [Cores -> Nat] /\ asked' \in [Cores -> SUBSET Bit]
    BY <1>0, <1>1 DEF InterruptsTypeOK
  <1> QED BY <1>0, <1>4, <1>7, <1>8, <1>9, <1>10, HandlerFrame

LEMMA TimerLeaveKeeps ==
  ASSUME InterruptsIInv, NEW c \in Cores, TimerLeave(c)
  PROVE  InterruptsIInv'
  <1>0. UNCHANGED <<enable, priority, threshold, pending, held>>
    BY DEF TimerLeave, plic
  <1>1. /\ InterruptsTypeOK /\ Depth(c) > 0 /\ Depth(c) \in Nat
        /\ Top(c) \in Frames /\ Top(c).kind = "timer" /\ Top(c).phase = "body"
        /\ threshold[c] \in Nat
    BY InFacts DEF TimerLeave
  <1>2. Top(c).mie \subseteq Bit
    BY <1>1 DEF Frames
  <1>3. /\ mie' \in [Cores -> SUBSET Bit] /\ asked' \in [Cores -> SUBSET Bit]
        /\ \A d \in Cores \ {c} : mie'[d] = mie[d] /\ asked'[d] = asked[d]
        /\ \/ mie'[c] = Top(c).mie /\ asked'[c] = asked[c]
           \/ mie'[c] = Top(c).mie \ {"timer"} /\ asked'[c] = asked[c] \ {"timer"}
    <2>1. CASE c \in single
      <3>1. /\ mie' = [mie EXCEPT ![c] = Top(c).mie \ {"timer"}]
            /\ asked' = [asked EXCEPT ![c] = asked[c] \ {"timer"}]
        BY <2>1 DEF TimerLeave
      <3>2. Top(c).mie \ {"timer"} \in SUBSET Bit /\ asked[c] \ {"timer"} \in SUBSET Bit
        BY <1>1, <1>2 DEF InterruptsTypeOK
      <3>3. mie \in [Cores -> SUBSET Bit] /\ asked \in [Cores -> SUBSET Bit]
        BY <1>1 DEF InterruptsTypeOK
      <3> QED BY <3>1, <3>2, <3>3
    <2>2. CASE c \notin single
      BY <1>1, <1>2, <2>2 DEF TimerLeave, InterruptsTypeOK
    <2> QED BY <2>1, <2>2
  <1>4. Running(Top(c)) /\ ~Serving(Top(c)) /\ ~InBody(Top(c))
    BY <1>1 DEF Running, Serving, InBody
  <1>5. Pop(c)
    BY DEF TimerLeave
  <1>6. /\ LocalInv(c)' /\ MeipInv(c)'
        /\ stack' \in [Cores -> Seq(Frames)]
        /\ Depth(c)' = Depth(c) - 1
        /\ \A i \in 1 .. Depth(c) - 1 : stack'[c][i] = stack[c][i]
        /\ \A d \in Cores \ {c} : stack'[d] = stack[d]
    BY <1>0, <1>1, <1>3, <1>4, <1>5, PopStep
  <1>7. \A i \in Nat : /\ BodyAt(c, i)' <=> BodyAt(c, i)
                       /\ BodyAt(c, i) => stack'[c][i].src = stack[c][i].src
    BY <1>1, <1>4, <1>6, SameBodies
  <1>8. threshold' \in [Cores -> Nat]
    BY <1>0, <1>1 DEF InterruptsTypeOK
  <1> QED BY <1>0, <1>3, <1>6, <1>7, <1>8, HandlerFrame

\* The three steps of handle_irq_m_soft.
LEMMA SoftEnterKeeps ==
  ASSUME InterruptsIInv, NEW c \in Cores, SoftEnter(c)
  PROVE  InterruptsIInv'
  <1>0. UNCHANGED <<enable, priority, threshold, pending, held, asked>>
    BY DEF SoftEnter, plic
  <1>1. /\ InterruptsTypeOK /\ Depth(c) > 0 /\ Depth(c) \in Nat
        /\ Top(c) \in Frames /\ Top(c).kind = "soft" /\ Top(c).phase = "entry"
        /\ threshold[c] \in Nat /\ mie[c] \subseteq Bit
    BY InFacts DEF SoftEnter
  <1>2. PICK f : f = [Top(c) EXCEPT !.phase = "ack"]
    OBVIOUS
  <1>3. /\ f \in Frames /\ f.kind = "soft" /\ f.phase = "ack" /\ f.mie = Top(c).mie
        /\ f.threshold = Top(c).threshold
    BY <1>1, <1>2 DEF Frames
  <1>4. /\ mie' \in [Cores -> SUBSET Bit] /\ mie'[c] = mie[c] \ {"soft"}
        /\ \A d \in Cores \ {c} : mie'[d] = mie[d]
    BY <1>1 DEF SoftEnter, InterruptsTypeOK
  <1>5. /\ Running(f) /\ ~Running(Top(c)) /\ ~Serving(f) /\ ~Serving(Top(c))
        /\ ~InBody(f) /\ ~InBody(Top(c))
    BY <1>1, <1>3 DEF Running, Serving, InBody
  <1>6. SetTop(c, f)
    BY <1>2 DEF SoftEnter
  <1>7. /\ LocalInv(c)'
        /\ stack' \in [Cores -> Seq(Frames)]
        /\ Depth(c)' = Depth(c)
        /\ stack'[c][Depth(c)] = f
        /\ \A i \in 1 .. Depth(c) - 1 : stack'[c][i] = stack[c][i]
        /\ \A d \in Cores \ {c} : stack'[d] = stack[d]
    BY <1>0, <1>1, <1>3, <1>4, <1>5, <1>6, SetTopStep
  <1>8. MeipInv(c)'
    BY <1>3, <1>7 DEF MeipInv, Top
  <1>9. \A i \in Nat : /\ BodyAt(c, i)' <=> BodyAt(c, i)
                       /\ BodyAt(c, i) => stack'[c][i].src = stack[c][i].src
    BY <1>1, <1>5, <1>7, SameBodies
  <1>10. threshold' \in [Cores -> Nat] /\ asked' \in [Cores -> SUBSET Bit]
    BY <1>0, <1>1 DEF InterruptsTypeOK
  <1> QED BY <1>0, <1>4, <1>7, <1>8, <1>9, <1>10, HandlerFrame

LEMMA SoftAckKeeps ==
  ASSUME InterruptsIInv, NEW c \in Cores, SoftAck(c)
  PROVE  InterruptsIInv'
  <1>0. UNCHANGED <<enable, priority, threshold, pending, held, mie, asked>>
    BY DEF SoftAck, plic
  <1>1. /\ InterruptsTypeOK /\ Depth(c) > 0 /\ Depth(c) \in Nat
        /\ Top(c) \in Frames /\ Top(c).kind = "soft" /\ Top(c).phase = "ack"
        /\ threshold[c] \in Nat
    BY InFacts DEF SoftAck
  <1>2. PICK f : f = [Top(c) EXCEPT !.phase = "body"]
    OBVIOUS
  <1>3. /\ f \in Frames /\ f.kind = "soft" /\ f.phase = "body" /\ f.mie = Top(c).mie
        /\ f.threshold = Top(c).threshold
    BY <1>1, <1>2 DEF Frames
  <1>4. /\ Running(f) /\ Running(Top(c)) /\ ~Serving(f) /\ ~Serving(Top(c))
        /\ ~InBody(f) /\ ~InBody(Top(c))
    BY <1>1, <1>3 DEF Running, Serving, InBody
  <1>5. SetTop(c, f)
    BY <1>2 DEF SoftAck
  <1>6. /\ LocalInv(c)'
        /\ stack' \in [Cores -> Seq(Frames)]
        /\ Depth(c)' = Depth(c)
        /\ stack'[c][Depth(c)] = f
        /\ \A i \in 1 .. Depth(c) - 1 : stack'[c][i] = stack[c][i]
        /\ \A d \in Cores \ {c} : stack'[d] = stack[d]
    BY <1>0, <1>1, <1>3, <1>4, <1>5, SetTopStep
  <1>7. MeipInv(c)'
    BY <1>3, <1>6 DEF MeipInv, Top
  <1>8. \A i \in Nat : /\ BodyAt(c, i)' <=> BodyAt(c, i)
                       /\ BodyAt(c, i) => stack'[c][i].src = stack[c][i].src
    BY <1>1, <1>4, <1>6, SameBodies
  <1>9. /\ threshold' \in [Cores -> Nat] /\ mie' \in [Cores -> SUBSET Bit]
        /\ asked' \in [Cores -> SUBSET Bit]
    BY <1>0, <1>1 DEF InterruptsTypeOK
  <1> QED BY <1>0, <1>6, <1>7, <1>8, <1>9, HandlerFrame

LEMMA SoftLeaveKeeps ==
  ASSUME InterruptsIInv, NEW c \in Cores, SoftLeave(c)
  PROVE  InterruptsIInv'
  <1>0. UNCHANGED <<enable, priority, threshold, pending, held, asked>>
    BY DEF SoftLeave, plic
  <1>1. /\ InterruptsTypeOK /\ Depth(c) > 0 /\ Depth(c) \in Nat
        /\ Top(c) \in Frames /\ Top(c).kind = "soft" /\ Top(c).phase = "body"
        /\ threshold[c] \in Nat /\ mie[c] \subseteq Bit
    BY InFacts DEF SoftLeave
  <1>2. /\ mie' \in [Cores -> SUBSET Bit] /\ mie'[c] = mie[c] \cup {"soft"}
        /\ \A d \in Cores \ {c} : mie'[d] = mie[d]
    <2>1. mie[c] \cup {"soft"} \in SUBSET Bit
      BY <1>1 DEF Bit
    <2> QED BY <1>1, <2>1 DEF SoftLeave, InterruptsTypeOK
  <1>3. Running(Top(c)) /\ ~Serving(Top(c)) /\ ~InBody(Top(c))
    BY <1>1 DEF Running, Serving, InBody
  <1>4. Pop(c)
    BY DEF SoftLeave
  <1>5. /\ LocalInv(c)' /\ MeipInv(c)'
        /\ stack' \in [Cores -> Seq(Frames)]
        /\ Depth(c)' = Depth(c) - 1
        /\ \A i \in 1 .. Depth(c) - 1 : stack'[c][i] = stack[c][i]
        /\ \A d \in Cores \ {c} : stack'[d] = stack[d]
    BY <1>0, <1>1, <1>2, <1>3, <1>4, PopStep
  <1>6. \A i \in Nat : /\ BodyAt(c, i)' <=> BodyAt(c, i)
                       /\ BodyAt(c, i) => stack'[c][i].src = stack[c][i].src
    BY <1>1, <1>3, <1>5, SameBodies
  <1>7. threshold' \in [Cores -> Nat] /\ asked' \in [Cores -> SUBSET Bit]
    BY <1>0, <1>1 DEF InterruptsTypeOK
  <1> QED BY <1>0, <1>2, <1>5, <1>6, <1>7, HandlerFrame

\* The claim: the source was pending on this core alone, so no other frame
\* serves it and no other core loses it.
LEMMA ExtClaimKeeps ==
  ASSUME InterruptsIInv, NEW c \in Cores, ExtClaim(c)
  PROVE  InterruptsIInv'
  <1>1. /\ InterruptsTypeOK /\ Depth(c) > 0 /\ Depth(c) \in Nat
        /\ Top(c) \in Frames /\ Top(c).kind = "ext" /\ Top(c).phase = "claim"
        /\ threshold[c] \in Nat /\ mie[c] \subseteq Bit
    BY InFacts DEF ExtClaim
  <1>2. Meip(c)
    BY <1>1 DEF InterruptsIInv, MeipInv, Running
  <1>3. PICK s : s = Claim(c)
    OBVIOUS
  <1>4. /\ s \in pending \cap enable[c] /\ s \in Sources /\ s # 0
        /\ priority[s] \in 0 .. MaxPriority /\ priority[s] > threshold[c]
    BY <1>1, <1>2, <1>3, ClaimFacts
  <1>5. PICK f : f = [Top(c) EXCEPT !.phase = "body", !.src = s,
                                    !.threshold = threshold[c], !.mie = mie[c]]
    OBVIOUS
  <1>6. /\ f \in Frames /\ f.kind = "ext" /\ f.phase = "body" /\ f.mie = mie[c]
        /\ f.threshold = threshold[c] /\ f.src = s
    BY <1>1, <1>4, <1>5 DEF Frames
  <1>7. /\ pending' = pending \ {s} /\ held' = held \cup {s}
        /\ threshold' = [threshold EXCEPT ![c] = priority[s]]
        /\ SetTop(c, f) /\ mie' = [mie EXCEPT ![c] = {}]
        /\ UNCHANGED <<enable, priority, asked>>
    BY <1>3, <1>4, <1>5 DEF ExtClaim, ThresholdFor
  <1>8. /\ threshold' \in [Cores -> Nat] /\ threshold'[c] = priority[s]
        /\ mie' \in [Cores -> SUBSET Bit] /\ mie'[c] = {}
        /\ \A d \in Cores \ {c} : mie'[d] = mie[d] /\ threshold'[d] = threshold[d]
    BY <1>1, <1>4, <1>7 DEF InterruptsTypeOK
  <1>9. Running(f) /\ ~Running(Top(c)) /\ Serving(f) /\ ~Serving(Top(c))
    BY <1>1, <1>6 DEF Running, Serving
  <1>10. /\ LocalInv(c)'
         /\ stack' \in [Cores -> Seq(Frames)]
         /\ Depth(c)' = Depth(c)
         /\ stack'[c][Depth(c)] = f
         /\ \A i \in 1 .. Depth(c) - 1 : stack'[c][i] = stack[c][i]
         /\ \A d \in Cores \ {c} : stack'[d] = stack[d]
    <2>1. threshold'[c] \in Nat /\ threshold[c] < threshold'[c] /\ threshold'[c] <= MaxPriority
      BY <1>1, <1>4, <1>8, InterruptsAssumption
    <2> QED BY <1>1, <1>6, <1>7, <1>8, <1>9, <2>1, SetTopStep
  <1>11. InterruptsTypeOK'
    BY <1>1, <1>4, <1>7, <1>8, <1>10 DEF InterruptsTypeOK
  <1>12. ASSUME NEW d \in Cores PROVE LocalInv(d)' /\ MeipInv(d)'
    <2>1. CASE d = c
      <3>1. MeipInv(c)'
        BY <1>9, <1>10 DEF MeipInv, Top, Running
      <3> QED BY <1>10, <2>1, <3>1
    <2>2. CASE d # c
      <3>1. LocalInv(d)'
        BY <1>7, <1>8, <1>10, <2>2 DEF InterruptsIInv, LocalInv
      <3>2. s \notin enable[d]
        BY <1>4, <2>2 DEF InterruptsIInv, EnabledOnce
      <3>3. \A x \in enable[d] : /\ x \in enable'[d]
                                 /\ x \in pending => x \in pending'
                                 /\ priority'[x] = priority[x]
        BY <1>7, <3>2
      <3>4. MeipInv(d)'
        BY <1>8, <1>10, <2>2, <3>3, MeipFrame DEF InterruptsIInv
      <3> QED BY <3>1, <3>4
    <2> QED BY <2>1, <2>2
  <1>13. EnabledOnce'
    BY <1>7 DEF InterruptsIInv, EnabledOnce
  <1>14. GateInv'
    <2>0. GateInv /\ \A d \in Cores : Depth(d) \in Nat
      BY <1>1 DEF InterruptsIInv, InterruptsTypeOK, Depth
    <2>1. ASSUME NEW d \in Cores, NEW i \in 1 .. Depth(d)', ~(d = c /\ i = Depth(c))
          PROVE  i \in 1 .. Depth(d) /\ stack'[d][i] = stack[d][i]
      <3>1. CASE d = c
        BY <1>1, <1>10, <2>1, <3>1
      <3>2. CASE d # c
        BY <1>10, <3>2 DEF Depth
      <3> QED BY <3>1, <3>2
    <2>2. ASSUME NEW d \in Cores, NEW i \in 1 .. Depth(d), InBody(stack[d][i])
          PROVE  i \in 1 .. Depth(d)' /\ stack'[d][i] = stack[d][i]
      <3>1. CASE d = c
        <4>1. i # Depth(c)
          BY <1>1, <2>2, <3>1 DEF InBody, Top
        <4> QED BY <1>1, <1>10, <3>1, <4>1
      <3>2. CASE d # c
        BY <1>10, <3>2 DEF Depth
      <3> QED BY <3>1, <3>2
    <2>3. pending' \cap held' = {}
      BY <1>7, <2>0 DEF GateInv
    <2>4. ASSUME NEW x \in held'
          PROVE  \E d \in Cores : \E i \in 1 .. Depth(d)' :
                   InBody(stack'[d][i]) /\ stack'[d][i].src = x
      <3>1. CASE x = s
        BY <1>1, <1>6, <1>10, <3>1 DEF InBody
      <3>2. CASE x # s
        <4>1. x \in held
          BY <1>7, <3>2
        <4>2. PICK d \in Cores : \E i \in 1 .. Depth(d) :
                InBody(stack[d][i]) /\ stack[d][i].src = x
          BY <2>0, <4>1 DEF GateInv
        <4>3. PICK i \in 1 .. Depth(d) : InBody(stack[d][i]) /\ stack[d][i].src = x
          BY <4>2
        <4> QED BY <2>2, <4>3
      <3> QED BY <3>1, <3>2
    <2>5. ASSUME NEW d \in Cores, NEW i \in 1 .. Depth(d)', InBody(stack'[d][i])
          PROVE  stack'[d][i].src \in held' \cap enable'[d]
      <3>1. CASE d = c /\ i = Depth(c)
        BY <1>4, <1>6, <1>7, <1>10, <3>1
      <3>2. CASE ~(d = c /\ i = Depth(c))
        BY <1>7, <2>0, <2>1, <2>5, <3>2 DEF GateInv
      <3> QED BY <3>1, <3>2
    <2>6. ASSUME NEW d \in Cores, NEW i \in 1 .. Depth(d)', InBody(stack'[d][i]),
                 stack'[d][i].src = s
          PROVE  d = c /\ i = Depth(c)
      <3>1. ASSUME ~(d = c /\ i = Depth(c)) PROVE FALSE
        <4>1. stack[d][i].src \in held /\ stack[d][i].src = s
          BY <2>0, <2>1, <2>6, <3>1 DEF GateInv
        <4> QED BY <1>4, <2>0, <4>1 DEF GateInv
      <3> QED BY <3>1
    <2>7. ASSUME NEW d \in Cores, NEW e \in Cores,
                 NEW i \in 1 .. Depth(d)', NEW j \in 1 .. Depth(e)',
                 InBody(stack'[d][i]), InBody(stack'[e][j]),
                 stack'[d][i].src = stack'[e][j].src
          PROVE  d = e /\ i = j
      <3>1. CASE stack'[d][i].src = s
        BY <2>6, <2>7, <3>1
      <3>2. CASE stack'[d][i].src # s
        <4>1. ~(d = c /\ i = Depth(c)) /\ ~(e = c /\ j = Depth(c))
          BY <1>6, <1>10, <2>7, <3>2
        <4>2. /\ i \in 1 .. Depth(d) /\ stack'[d][i] = stack[d][i]
              /\ j \in 1 .. Depth(e) /\ stack'[e][j] = stack[e][j]
          BY <2>1, <4>1
        <4> QED BY <2>0, <2>7, <4>2 DEF GateInv
      <3> QED BY <3>1, <3>2
    <2> QED BY <2>3, <2>4, <2>5, <2>7 DEF GateInv, InBody
  <1> QED BY <1>11, <1>12, <1>13, <1>14 DEF InterruptsIInv

\* The completion: the core still has the source enabled, so the PLIC takes it
\* and the gateway opens as the only frame that served it moves on.
LEMMA ExtCompleteKeeps ==
  ASSUME InterruptsIInv, NEW c \in Cores, ExtComplete(c)
  PROVE  InterruptsIInv'
  <1>1. /\ InterruptsTypeOK /\ Depth(c) > 0 /\ Depth(c) \in Nat
        /\ Top(c) \in Frames /\ Top(c).kind = "ext" /\ Top(c).phase = "body"
        /\ threshold[c] \in Nat
    BY InFacts DEF ExtComplete
  <1>2. PICK n, s : n = Depth(c) /\ s = Top(c).src
    OBVIOUS
  <1>3. /\ n \in Nat /\ n \in 1 .. Depth(c) /\ stack[c][n] = Top(c)
        /\ InBody(stack[c][n]) /\ stack[c][n].src = s
    BY <1>1, <1>2 DEF Top, InBody
  <1>4. GateInv /\ \A d \in Cores : Depth(d) \in Nat
    BY <1>1 DEF InterruptsIInv, InterruptsTypeOK, Depth
  <1>5. s \in held \cap enable[c]
    BY <1>3, <1>4 DEF GateInv
  <1>6. PICK f : f = [Top(c) EXCEPT !.phase = "leave"]
    OBVIOUS
  <1>7. /\ f \in Frames /\ f.kind = "ext" /\ f.phase = "leave" /\ f.mie = Top(c).mie
        /\ f.threshold = Top(c).threshold
    BY <1>1, <1>6 DEF Frames
  <1>8. /\ held' = held \ {s} /\ SetTop(c, f)
        /\ UNCHANGED <<enable, priority, threshold, pending, mie, asked>>
    BY <1>2, <1>5, <1>6 DEF ExtComplete
  <1>9. Running(f) /\ Running(Top(c)) /\ Serving(f) /\ Serving(Top(c)) /\ ~InBody(f)
    BY <1>1, <1>7 DEF Running, Serving, InBody
  <1>10. /\ LocalInv(c)'
         /\ stack' \in [Cores -> Seq(Frames)]
         /\ Depth(c)' = n
         /\ stack'[c][n] = f
         /\ \A i \in 1 .. n - 1 : stack'[c][i] = stack[c][i]
         /\ \A d \in Cores \ {c} : stack'[d] = stack[d]
    BY <1>1, <1>2, <1>7, <1>8, <1>9, SetTopStep
  <1>11. InterruptsTypeOK'
    BY <1>1, <1>8, <1>10 DEF InterruptsTypeOK
  <1>12. ASSUME NEW d \in Cores PROVE LocalInv(d)' /\ MeipInv(d)'
    <2>1. CASE d = c
      <3>1. MeipInv(c)'
        BY <1>9, <1>10 DEF MeipInv, Top, Running
      <3> QED BY <1>10, <2>1, <3>1
    <2>2. CASE d # c
      <3>1. LocalInv(d)'
        BY <1>8, <1>10, <2>2 DEF InterruptsIInv, LocalInv
      <3>2. MeipInv(d)'
        BY <1>8, <1>10, <2>2, MeipFrame DEF InterruptsIInv
      <3> QED BY <3>1, <3>2
    <2> QED BY <2>1, <2>2
  <1>13. EnabledOnce'
    BY <1>8 DEF InterruptsIInv, EnabledOnce
  <1>14. GateInv'
    <2>1. ASSUME NEW d \in Cores, NEW i \in 1 .. Depth(d)', InBody(stack'[d][i])
          PROVE  /\ i \in 1 .. Depth(d) /\ stack'[d][i] = stack[d][i]
                 /\ ~(d = c /\ i = n)
      <3>1. CASE d = c
        <4>1. i # n
          BY <1>9, <1>10, <2>1, <3>1
        <4> QED BY <1>2, <1>3, <1>10, <3>1, <4>1
      <3>2. CASE d # c
        BY <1>10, <3>2 DEF Depth
      <3> QED BY <3>1, <3>2
    <2>2. ASSUME NEW d \in Cores, NEW i \in 1 .. Depth(d), ~(d = c /\ i = n)
          PROVE  i \in 1 .. Depth(d)' /\ stack'[d][i] = stack[d][i]
      <3>1. CASE d = c
        BY <1>2, <1>3, <1>10, <2>2, <3>1
      <3>2. CASE d # c
        BY <1>10, <3>2 DEF Depth
      <3> QED BY <3>1, <3>2
    <2>3. pending' \cap held' = {}
      BY <1>4, <1>8 DEF GateInv
    <2>4. ASSUME NEW x \in held'
          PROVE  \E d \in Cores : \E i \in 1 .. Depth(d)' :
                   InBody(stack'[d][i]) /\ stack'[d][i].src = x
      <3>1. x \in held /\ x # s
        BY <1>8
      <3>2. PICK d \in Cores : \E i \in 1 .. Depth(d) :
              InBody(stack[d][i]) /\ stack[d][i].src = x
        BY <1>4, <3>1 DEF GateInv
      <3>3. PICK i \in 1 .. Depth(d) : InBody(stack[d][i]) /\ stack[d][i].src = x
        BY <3>2
      <3>4. ~(d = c /\ i = n)
        BY <1>3, <3>1, <3>3
      <3> QED BY <2>2, <3>3, <3>4
    <2>5. ASSUME NEW d \in Cores, NEW i \in 1 .. Depth(d)', InBody(stack'[d][i])
          PROVE  stack'[d][i].src \in held' \cap enable'[d]
      <3>1. /\ i \in 1 .. Depth(d) /\ stack'[d][i] = stack[d][i]
            /\ ~(d = c /\ i = n)
        BY <2>1, <2>5
      <3>2. stack[d][i].src \in held \cap enable[d]
        BY <1>4, <2>5, <3>1 DEF GateInv
      <3>3. stack[d][i].src # s
        BY <1>3, <1>4, <2>5, <3>1 DEF GateInv
      <3> QED BY <1>8, <3>1, <3>2, <3>3
    <2>6. ASSUME NEW d \in Cores, NEW e \in Cores,
                 NEW i \in 1 .. Depth(d)', NEW j \in 1 .. Depth(e)',
                 InBody(stack'[d][i]), InBody(stack'[e][j]),
                 stack'[d][i].src = stack'[e][j].src
          PROVE  d = e /\ i = j
      <3>1. /\ i \in 1 .. Depth(d) /\ stack'[d][i] = stack[d][i]
            /\ j \in 1 .. Depth(e) /\ stack'[e][j] = stack[e][j]
        BY <2>1, <2>6
      <3> QED BY <1>4, <2>6, <3>1 DEF GateInv
    <2> QED BY <2>3, <2>4, <2>5, <2>6 DEF GateInv, InBody
  <1> QED BY <1>11, <1>12, <1>13, <1>14 DEF InterruptsIInv

-----------------------------------------------------------------------------
(* Driver calls and the environment. *)

\* Steps that leave the stacks and the PLIC alone.
LEMMA OutsideFrame ==
  ASSUME InterruptsIInv,
         UNCHANGED <<enable, priority, threshold, held, mie, asked, stack>>,
         pending \subseteq pending', pending' \subseteq Sources, pending' \cap held = {}
  PROVE  InterruptsIInv'
  <1>1. InterruptsTypeOK'
    BY DEF InterruptsIInv, InterruptsTypeOK
  <1>2. ASSUME NEW d \in Cores PROVE LocalInv(d)' /\ MeipInv(d)'
    <2>1. LocalInv(d)'
      BY DEF InterruptsIInv, LocalInv
    <2>2. MeipInv(d)'
      BY MeipFrame DEF InterruptsIInv
    <2> QED BY <2>1, <2>2
  <1>3. EnabledOnce'
    BY DEF InterruptsIInv, EnabledOnce
  <1>4. GateInv'
    <2>1. \A d \in Cores : Depth(d) \in Nat /\ Depth(d)' \in Nat
      BY DEF Depth, InterruptsIInv, InterruptsTypeOK
    <2>2. \A d \in Cores : \A i \in Nat :
            /\ BodyAt(d, i)' <=> BodyAt(d, i)
            /\ BodyAt(d, i) => stack'[d][i].src = stack[d][i].src
      BY DEF BodyAt, Depth, InBody
    <2> QED BY <2>1, <2>2, GateFrame DEF InterruptsIInv
  <1> QED BY <1>1, <1>2, <1>3, <1>4 DEF InterruptsIInv

\* A driver call of a core that runs no handler: it may change the core's own
\* enables, mask and wishes, and the priority of sources no other core uses.
LEMMA BaseFrame ==
  ASSUME InterruptsIInv, NEW c \in Cores, Depth(c) = 0,
         UNCHANGED <<threshold, pending, held, stack>>,
         enable' \in [Cores -> SUBSET Sources], priority' \in [Sources -> 0 .. MaxPriority],
         mie' \in [Cores -> SUBSET Bit], asked' \in [Cores -> SUBSET Bit],
         mie'[c] = asked'[c], EnabledOnce',
         \A d \in Cores \ {c} :
           /\ enable'[d] = enable[d] /\ mie'[d] = mie[d] /\ asked'[d] = asked[d]
           /\ \A s \in enable[d] : priority'[s] = priority[s]
  PROVE  InterruptsIInv'
  <1>1. InterruptsTypeOK'
    BY DEF InterruptsIInv, InterruptsTypeOK
  <1>2. ASSUME NEW d \in Cores PROVE LocalInv(d)' /\ MeipInv(d)'
    <2>1. CASE d = c
      <3>1. LevelInv(stack[c], threshold[c]) /\ Len(stack[c]) = 0
        BY DEF InterruptsIInv, LocalInv, Local, Depth
      <3>2. Shape(stack[c], asked'[c])
        BY <3>1 DEF Shape
      <3>3. MieInv(stack[c], asked'[c], mie'[c])
        BY <3>1 DEF MieInv, MieUnder
      <3>4. LocalInv(c)'
        BY <3>1, <3>2, <3>3 DEF LocalInv, Local
      <3>5. MeipInv(c)'
        BY DEF MeipInv, Depth
      <3> QED BY <2>1, <3>4, <3>5
    <2>2. CASE d # c
      <3>1. LocalInv(d)'
        BY <2>2 DEF InterruptsIInv, LocalInv
      <3>2. MeipInv(d)'
        BY <2>2, MeipFrame DEF InterruptsIInv
      <3> QED BY <3>1, <3>2
    <2> QED BY <2>1, <2>2
  <1>3. GateInv'
    <2>1. \A d \in Cores : Depth(d) \in Nat /\ Depth(d)' \in Nat
      BY DEF Depth, InterruptsIInv, InterruptsTypeOK
    <2>2. \A d \in Cores : \A i \in Nat :
            /\ BodyAt(d, i)' <=> BodyAt(d, i)
            /\ BodyAt(d, i) => stack'[d][i].src = stack[d][i].src
      BY DEF BodyAt, Depth, InBody
    <2>3. \A d \in Cores : Depth(d) > 0 => enable'[d] = enable[d]
      BY <2>1
    <2>4. pending' \cap held = {}
      BY DEF InterruptsIInv, GateInv
    <2> QED BY <2>1, <2>2, <2>3, <2>4, GateFrame DEF InterruptsIInv
  <1> QED BY <1>1, <1>2, <1>3 DEF InterruptsIInv

\* Calls a callback does not make find the core outside handlers, with the
\* interrupts enabled that it asked for.
LEMMA CalledFromBase ==
  ASSUME CallbackApi \subseteq {"ipi_send"}, InterruptsIInv, NEW c \in Cores,
         NEW name, name # "ipi_send", Calls(c, name)
  PROVE  Depth(c) = 0 /\ mie[c] = asked[c] /\ mie[c] \subseteq Bit
  <1>1. InterruptsTypeOK /\ Local(stack[c], asked[c], mie[c], threshold[c])
    BY DEF InterruptsIInv, LocalInv
  <1>2. Depth(c) = 0
    <2>1. Phase(c) = "base"
      BY DEF Calls
    <2>2. Depth(c) \in Nat /\ (Depth(c) > 0 => Top(c) \in Frames)
      BY <1>1 DEF InterruptsTypeOK, Depth, Top
    <2>3. Depth(c) > 0 => Top(c).phase # "base"
      BY <2>2 DEF Frames
    <2> QED BY <2>1, <2>2, <2>3 DEF Phase
  <1>3. mie[c] = asked[c]
    BY <1>1, <1>2 DEF Local, MieInv, MieUnder, Depth
  <1> QED BY <1>1, <1>2, <1>3 DEF InterruptsTypeOK

\* The driver calls of drivers/plic.c and drivers/clint.c that configure.
LEMMA PlicCallsKeep ==
  ASSUME Shared = "no", CallbackApi \subseteq {"ipi_send"},
         InterruptsIInv, NEW c \in Cores, NEW s \in Sources, NEW p \in 0 .. MaxPriority,
         plic_irq_enable(c, s) \/ plic_irq_disable(c, s) \/ plic_set_priority(c, s, p)
  PROVE  InterruptsIInv'
  <1>1. /\ UNCHANGED <<threshold, pending, held, mie, asked, stack>>
        /\ \E name \in {"irq_enable", "irq_disable", "set_priority"} : Calls(c, name)
    BY DEF plic_irq_enable, plic_irq_disable, plic_set_priority
  <1>2. Depth(c) = 0 /\ mie[c] = asked[c]
    BY <1>1, CalledFromBase
  <1>3. InterruptsTypeOK /\ EnabledOnce
    BY DEF InterruptsIInv
  <1>4. mie' \in [Cores -> SUBSET Bit] /\ asked' \in [Cores -> SUBSET Bit]
    BY <1>1, <1>3 DEF InterruptsTypeOK
  <1>5. /\ enable' \in [Cores -> SUBSET Sources]
        /\ priority' \in [Sources -> 0 .. MaxPriority]
        /\ EnabledOnce'
        /\ \A d \in Cores \ {c} : /\ enable'[d] = enable[d]
                                  /\ \A x \in enable[d] : priority'[x] = priority[x]
    <2>1. CASE plic_irq_enable(c, s)
      <3>1. /\ enable' \in [Cores -> SUBSET Sources] /\ priority' = priority
            /\ enable'[c] = enable[c] \cup {s}
            /\ \A d \in Cores \ {c} : enable'[d] = enable[d] /\ s \notin enable[d]
        BY <1>3, <2>1 DEF plic_irq_enable, Mine, InterruptsTypeOK
      <3>2. EnabledOnce'
        BY <1>3, <3>1 DEF EnabledOnce
      <3> QED BY <1>3, <3>1, <3>2 DEF InterruptsTypeOK
    <2>2. CASE plic_irq_disable(c, s)
      <3>1. /\ enable' \in [Cores -> SUBSET Sources] /\ priority' = priority
            /\ enable'[c] = enable[c] \ {s}
            /\ \A d \in Cores \ {c} : enable'[d] = enable[d]
        BY <1>3, <2>2 DEF plic_irq_disable, InterruptsTypeOK
      <3>2. EnabledOnce'
        BY <1>3, <3>1 DEF EnabledOnce
      <3> QED BY <1>3, <3>1, <3>2 DEF InterruptsTypeOK
    <2>3. CASE plic_set_priority(c, s, p)
      <3>1. /\ enable' = enable /\ priority' = [priority EXCEPT ![s] = p]
            /\ \A d \in Cores \ {c} : s \notin enable[d]
        BY <2>3 DEF plic_set_priority, Mine
      <3>2. priority' \in [Sources -> 0 .. MaxPriority]
        BY <1>3, <3>1 DEF InterruptsTypeOK
      <3>3. ASSUME NEW d \in Cores \ {c}, NEW x \in enable[d] PROVE priority'[x] = priority[x]
        <4>1. x # s /\ x \in Sources
          BY <1>3, <3>1, <3>3 DEF InterruptsTypeOK
        <4> QED BY <1>3, <3>1, <4>1 DEF InterruptsTypeOK
      <3>4. EnabledOnce'
        BY <1>3, <3>1 DEF EnabledOnce
      <3> QED BY <1>3, <3>1, <3>2, <3>3, <3>4 DEF InterruptsTypeOK
    <2> QED BY <2>1, <2>2, <2>3
  <1>6. mie'[c] = asked'[c] /\ \A d \in Cores \ {c} : mie'[d] = mie[d] /\ asked'[d] = asked[d]
    BY <1>1, <1>2
  <1> QED BY <1>1, <1>2, <1>4, <1>5, <1>6, BaseFrame

LEMMA ClintCallsKeep ==
  ASSUME CallbackApi \subseteq {"ipi_send"}, InterruptsIInv, NEW c \in Cores,
         NEW single_shot,
         \/ clint_timer_start(c, single_shot) \/ clint_timer_stop(c)
         \/ clint_ipi_enable(c) \/ clint_ipi_disable(c)
  PROVE  InterruptsIInv'
  <1>1. /\ UNCHANGED <<enable, priority, threshold, pending, held, stack>>
        /\ \E name \in {"timer_start", "timer_stop", "ipi_enable", "ipi_disable"} : Calls(c, name)
    BY DEF clint_timer_start, clint_timer_stop, clint_ipi_enable, clint_ipi_disable, plic
  <1>2. Depth(c) = 0 /\ mie[c] = asked[c] /\ mie[c] \subseteq Bit
    BY <1>1, CalledFromBase
  <1>3. InterruptsTypeOK /\ EnabledOnce
    BY DEF InterruptsIInv
  <1>4. PICK m \in SUBSET Bit : mie' = [mie EXCEPT ![c] = m] /\ asked' = [asked EXCEPT ![c] = m]
    <2>1. /\ mie[c] \cup {"timer"} \in SUBSET Bit /\ mie[c] \cup {"soft"} \in SUBSET Bit
          /\ mie[c] \ {"timer"} \in SUBSET Bit /\ mie[c] \ {"soft"} \in SUBSET Bit
      BY <1>2 DEF Bit
    <2>2. CASE clint_timer_start(c, single_shot)
      BY <1>2, <2>1, <2>2 DEF clint_timer_start
    <2>3. CASE clint_timer_stop(c)
      BY <1>2, <2>1, <2>3 DEF clint_timer_stop
    <2>4. CASE clint_ipi_enable(c)
      BY <1>2, <2>1, <2>4 DEF clint_ipi_enable
    <2>5. CASE clint_ipi_disable(c)
      BY <1>2, <2>1, <2>5 DEF clint_ipi_disable
    <2> QED BY <2>2, <2>3, <2>4, <2>5
  <1>5. /\ mie' \in [Cores -> SUBSET Bit] /\ asked' \in [Cores -> SUBSET Bit]
        /\ mie'[c] = asked'[c]
        /\ \A d \in Cores \ {c} : mie'[d] = mie[d] /\ asked'[d] = asked[d]
    BY <1>3, <1>4 DEF InterruptsTypeOK
  <1>6. /\ EnabledOnce' /\ enable' \in [Cores -> SUBSET Sources]
        /\ priority' \in [Sources -> 0 .. MaxPriority]
    BY <1>1, <1>3 DEF EnabledOnce, InterruptsTypeOK
  <1> QED BY <1>1, <1>2, <1>5, <1>6, BaseFrame

\* The devices, mtime, and the steps of the software interrupt's sender.
LEMMA OutsideKeeps ==
  ASSUME InterruptsIInv,
         \/ \E s \in Sources : Raise(s)
         \/ \E c, d \in Cores : clint_ipi_send(c, d)
         \/ \E c \in Cores : TimerDue(c)
         \/ UNCHANGED vars
  PROVE  InterruptsIInv'
  <1>1. pending \subseteq Sources /\ pending \cap held = {}
    BY DEF InterruptsIInv, InterruptsTypeOK, GateInv
  <1>2. CASE \E s \in Sources : Raise(s)
    BY <1>1, <1>2, OutsideFrame DEF Raise
  <1>3. CASE \/ \E c, d \in Cores : clint_ipi_send(c, d)
             \/ \E c \in Cores : TimerDue(c)
             \/ UNCHANGED vars
    <2>1. UNCHANGED <<enable, priority, threshold, pending, held, mie, asked, stack>>
      BY <1>3 DEF clint_ipi_send, TimerDue, vars, plic
    <2> QED BY <1>1, <2>1, OutsideFrame
  <1> QED BY <1>2, <1>3

-----------------------------------------------------------------------------
(* The invariant. *)

LEMMA InitInterrupts ==
  ASSUME Init
  PROVE  InterruptsIInv
  <1> USE InterruptsAssumption DEF Init
  <1>1. InterruptsTypeOK
    BY DEF InterruptsTypeOK
  <1>2. ASSUME NEW c \in Cores PROVE LocalInv(c) /\ MeipInv(c)
    <2>1. stack[c] = <<>> /\ asked[c] = {} /\ mie[c] = {} /\ threshold[c] = 0
      OBVIOUS
    <2>2. Shape(<<>>, {}) /\ MieInv(<<>>, {}, {}) /\ LevelInv(<<>>, 0)
      BY DEF Shape, MieInv, MieUnder, LevelInv
    <2> QED BY <2>1, <2>2 DEF LocalInv, Local, MeipInv, Depth
  <1>3. EnabledOnce /\ GateInv
    BY DEF EnabledOnce, GateInv, Depth
  <1> QED BY <1>1, <1>2, <1>3 DEF InterruptsIInv

LEMMA StepInterrupts ==
  ASSUME Shared = "no", CallbackApi \subseteq {"ipi_send"},
         InterruptsIInv, [Next]_vars
  PROVE  InterruptsIInv'
  <1>1. ASSUME NEW c \in Cores, Handler(c) PROVE InterruptsIInv'
    BY <1>1, TrapKeeps, ExtCheckKeeps, ExtClaimKeeps, ExtCompleteKeeps, ExtLeaveKeeps,
       TimerEnterKeeps, TimerLeaveKeeps, SoftEnterKeeps, SoftAckKeeps, SoftLeaveKeeps
       DEF Handler
  <1>2. ASSUME NEW c \in Cores, Call(c) PROVE InterruptsIInv'
    <2>0. 0 \in 0 .. MaxPriority
      BY InterruptsAssumption
    <2>1. CASE \E s \in Sources : \/ plic_irq_enable(c, s)
                                  \/ plic_irq_disable(c, s)
                                  \/ \E p \in 0 .. MaxPriority : plic_set_priority(c, s, p)
      BY <2>0, <2>1, PlicCallsKeep
    <2>2. CASE \/ \E single_shot \in {"yes", "no"} : clint_timer_start(c, single_shot)
               \/ clint_timer_stop(c) \/ clint_ipi_enable(c) \/ clint_ipi_disable(c)
      BY <2>2, ClintCallsKeep
    <2>3. CASE \E d \in Cores : clint_ipi_send(c, d)
      BY <2>3, OutsideKeeps
    <2> QED BY <1>2, <2>1, <2>2, <2>3 DEF Call
  <1> QED BY <1>1, <1>2, OutsideKeeps DEF Next

LEMMA InterruptsInvariance ==
  Shared = "no" /\ CallbackApi \subseteq {"ipi_send"} /\ Spec => []InterruptsIInv
  <1> SUFFICES ASSUME Shared = "no", CallbackApi \subseteq {"ipi_send"}
               PROVE  Spec => []InterruptsIInv
    OBVIOUS
  <1>1. InterruptsIInv /\ [Next]_vars => InterruptsIInv'
    BY StepInterrupts
  <1>2. Init => InterruptsIInv
    BY InitInterrupts
  <1> QED BY <1>1, <1>2, PTL DEF Spec

-----------------------------------------------------------------------------
(* The properties. *)

(***************************************************************************)
(* However handlers nest, each restores what it saved at the right moment: *)
(* outside handlers the threshold is zero and mie is what was asked for.   *)
(***************************************************************************)
THEOREM RegistersAreRestored ==
  Shared = "no" /\ CallbackApi \subseteq {"ipi_send"} /\ Spec => []RegistersRestored
  <1>1. InterruptsIInv => RegistersRestored
    <2> SUFFICES ASSUME InterruptsIInv, NEW c \in Cores, Depth(c) = 0
                 PROVE  threshold[c] = 0 /\ mie[c] = asked[c]
      BY DEF RegistersRestored
    <2>1. /\ MieInv(stack[c], asked[c], mie[c]) /\ LevelInv(stack[c], threshold[c])
          /\ Len(stack[c]) = 0
      BY DEF InterruptsIInv, LocalInv, Local, Depth
    <2>2. mie[c] = asked[c]
      BY <2>1 DEF MieInv, MieUnder
    <2>3. threshold[c] = 0
      BY <2>1 DEF LevelInv
    <2> QED BY <2>2, <2>3
  <1> QED BY <1>1, InterruptsInvariance, PTL

(***************************************************************************)
(* A source whose gateway is closed is being served by exactly one frame   *)
(* of one core, whose completion the PLIC will take.                       *)
(***************************************************************************)
THEOREM GatewaysReopen ==
  Shared = "no" /\ CallbackApi \subseteq {"ipi_send"} /\ Spec => []GatewayReopens
  <1>1. InterruptsIInv => GatewayReopens
    <2> SUFFICES ASSUME InterruptsIInv, NEW s \in held
                 PROVE  \E c \in Cores : \E i \in 1 .. Depth(c) :
                          /\ InBody(stack[c][i]) /\ stack[c][i].src = s
                          /\ \A d \in Cores : \A j \in 1 .. Depth(d) :
                               InBody(stack[d][j]) /\ stack[d][j].src = s => d = c /\ j = i
      BY DEF GatewayReopens, InBody
    <2>1. GateInv
      BY DEF InterruptsIInv
    <2>2. PICK c \in Cores : \E i \in 1 .. Depth(c) :
            InBody(stack[c][i]) /\ stack[c][i].src = s
      BY <2>1 DEF GateInv
    <2>3. PICK i \in 1 .. Depth(c) : InBody(stack[c][i]) /\ stack[c][i].src = s
      BY <2>2
    <2>4. \A d \in Cores : \A j \in 1 .. Depth(d) :
            InBody(stack[d][j]) /\ stack[d][j].src = s => d = c /\ j = i
      BY <2>1, <2>3 DEF GateInv
    <2> QED BY <2>3, <2>4
  <1> QED BY <1>1, InterruptsInvariance, PTL

(***************************************************************************)
(* The threshold works as a priority ceiling: a callback is interrupted by *)
(* external interrupts of strictly higher priority only.                   *)
(***************************************************************************)
THEOREM NestsByPriority ==
  Shared = "no" /\ CallbackApi \subseteq {"ipi_send"} /\ Spec => []NestingByPriority
  <1>1. InterruptsIInv => NestingByPriority
    <2> SUFFICES ASSUME InterruptsIInv, NEW c \in Cores, NEW i \in 1 .. Depth(c),
                        Serving(stack[c][i])
                 PROVE  stack[c][i].threshold < Level(c, i)
      BY DEF NestingByPriority
    <2>1. PICK st, n, th : st = stack[c] /\ n = Depth(c) /\ th = threshold[c]
      OBVIOUS
    <2>2. /\ n \in Nat /\ Len(st) = n /\ i \in 1 .. n
          /\ \A j \in 1 .. n : st[j] \in Frames
          /\ Shape(st, asked[c]) /\ LevelInv(st, th)
      BY <2>1 DEF InterruptsIInv, InterruptsTypeOK, LocalInv, Local, Depth
    <2>3. st[i].threshold < Above(st, th, i)
      BY <2>1, <2>2 DEF LevelInv
    <2>4. Level(c, i) = Above(st, th, i)
      <3> DEFINE above == {j \in i + 1 .. n : Serving(st[j])}
      <3>1. Level(c, i) = IF above = {} THEN th
                          ELSE st[CHOOSE j \in above : \A k \in above : j <= k].threshold
        BY <2>1 DEF Level
      <3>2. CASE i + 1 \in above
        <4>1. \A k \in above : i + 1 <= k
          BY <2>2
        <4>2. \A j \in above : (\A k \in above : j <= k) => j = i + 1
          BY <2>2, <3>2
        <4>3. (CHOOSE j \in above : \A k \in above : j <= k) = i + 1
          BY <3>2, <4>1, <4>2
        <4>4. i < n /\ Serving(st[i + 1])
          BY <2>2, <3>2
        <4> QED BY <2>2, <3>1, <3>2, <4>3, <4>4 DEF Above
      <3>3. CASE i + 1 \notin above
        <4>1. i + 1 >= n
          BY <2>1, <2>2, <3>3, NextServes
        <4>2. above = {}
          BY <2>2, <3>3, <4>1
        <4>3. ~(i < n /\ Serving(st[i + 1]))
          BY <2>2, <3>3
        <4> QED BY <2>2, <3>1, <4>2, <4>3 DEF Above
      <3> QED BY <3>2, <3>3
    <2> QED BY <2>1, <2>3, <2>4
  <1> QED BY <1>1, InterruptsInvariance, PTL

(***************************************************************************)
(* The trap frames on a core's stack are never more than one for every     *)
(* priority, one for the timer and one for software interrupts.            *)
(***************************************************************************)
THEOREM StackIsBounded ==
  Shared = "no" /\ CallbackApi \subseteq {"ipi_send"} /\ Spec => []StackBounded
  <1>1. InterruptsIInv => StackBounded
    <2> USE InterruptsAssumption
    <2> SUFFICES ASSUME InterruptsIInv, NEW c \in Cores
                 PROVE  Depth(c) <= MaxPriority + 2
      BY DEF StackBounded
    <2>1. PICK st, n, th : st = stack[c] /\ n = Depth(c) /\ th = threshold[c]
      OBVIOUS
    <2>2. /\ n \in Nat /\ th \in Nat /\ Len(st) = n
          /\ \A j \in 1 .. n : st[j] \in Frames
          /\ Shape(st, asked[c]) /\ LevelInv(st, th)
      BY <2>1 DEF InterruptsIInv, InterruptsTypeOK, LocalInv, Local, Depth
    <2> SUFFICES ASSUME n > 2 PROVE n <= MaxPriority + 2
      BY <2>1, <2>2
    <2>3. /\ n \in 1 .. n /\ n - 1 \in 1 .. n /\ 2 \in 1 .. n - 1
          /\ st[n].kind \in {"ext", "timer", "soft"}
          /\ st[n].phase \in {"entry", "claim", "ack", "body", "leave"}
      BY <2>2 DEF Frames
    <2>4. st[n].kind # "soft"
      BY <2>2, <2>3 DEF Shape
    <2>5. st[n].kind # "timer"
      <3>1. st[n].kind = "timer" => st[2].kind = "soft"
        BY <2>2, <2>3 DEF Shape
      <3>2. st[2].kind # "soft"
        BY <2>2, <2>3 DEF Shape
      <3> QED BY <3>1, <3>2
    <2>6. CASE Serving(st[n])
      <3>1. n <= Above(st, th, n) + 2 /\ th <= MaxPriority
        BY <2>2, <2>3, <2>6 DEF LevelInv
      <3>2. Above(st, th, n) = th
        BY <2>2 DEF Above
      <3> QED BY <2>2, <3>1, <3>2
    <2>7. CASE ~Serving(st[n])
      <3>1. st[n].kind = "ext" /\ st[n].phase # "ack"
        BY <2>2, <2>3, <2>4, <2>5 DEF Shape
      <3>2. ~Running(st[n])
        BY <2>3, <2>7, <3>1 DEF Serving, Running
      <3>3. Meip(c)
        BY <2>1, <2>2, <3>1, <3>2 DEF InterruptsIInv, MeipInv, Top
      <3>4. th < MaxPriority
        <4>1. PICK s \in pending \cap enable[c] : priority[s] > th
          BY <2>1, <3>3 DEF Meip
        <4>2. priority[s] \in 0 .. MaxPriority
          BY <4>1 DEF InterruptsIInv, InterruptsTypeOK
        <4> QED BY <2>2, <4>1, <4>2
      <3>5. CASE st[n - 1].kind = "ext"
        <4>1. Serving(st[n - 1])
          BY <2>2, <3>5, Under
        <4>2. n - 1 <= Above(st, th, n - 1) + 2
          BY <2>2, <2>3, <4>1 DEF LevelInv
        <4>3. Above(st, th, n - 1) = th
          BY <2>2, <2>7 DEF Above
        <4> QED BY <2>2, <3>4, <4>2, <4>3
      <3>6. CASE st[n - 1].kind # "ext"
        <4>1. n <= 3
          BY <2>2, <3>6, Under
        <4> QED BY <2>2, <4>1
      <3> QED BY <3>5, <3>6
    <2> QED BY <2>6, <2>7
  <1> QED BY <1>1, InterruptsInvariance, PTL

-----------------------------------------------------------------------------
(* What holds whatever the callbacks call and whoever shares a source. *)

\* A handler's frame is a frame, and so is any of its later phases.
LEMMA TopTyped ==
  ASSUME InterruptsTypeOK, NEW c \in Cores, Depth(c) > 0
  PROVE  Top(c) \in Frames /\ Depth(c) \in Nat
  BY DEF InterruptsTypeOK, Top, Depth

LEMMA HandlerTyped ==
  ASSUME InterruptsTypeOK, NEW c \in Cores, Handler(c)
  PROVE  InterruptsTypeOK'
  <1> USE DEF plic
  <1>1. CASE Trap(c)
    <2>1. PICK kind \in {"ext", "timer", "soft"} : Push(c, Frame(kind))
      BY <1>1, Zenon DEF Trap
    <2>2. Frame(kind) \in Frames
      BY DEF Frame, Frames
    <2>3. stack' \in [Cores -> Seq(Frames)]
      BY <2>1, <2>2, PushFacts
    <2> QED BY <1>1, <2>3 DEF InterruptsTypeOK, Trap
  <1>2. CASE ExtCheck(c)
    <2>1. Depth(c) > 0 /\ Top(c) \in Frames
      BY <1>2, TopTyped DEF ExtCheck, In
    <2>2. [Top(c) EXCEPT !.phase = "claim"] \in Frames
      BY <2>1 DEF Frames
    <2>3. stack' \in [Cores -> Seq(Frames)]
      BY <1>2, <2>1, <2>2, SetTopFacts, PopFacts DEF ExtCheck
    <2> QED BY <1>2, <2>3 DEF InterruptsTypeOK, ExtCheck
  <1>3. CASE ExtClaim(c)
    <2>1. Depth(c) > 0 /\ Top(c) \in Frames
      BY <1>3, TopTyped DEF ExtClaim, In
    <2>2. PICK n : n = Claim(c)
      OBVIOUS
    <2>3. n \in Sources \cup {0}
      <3>1. CASE Claimable(c) = {}
        BY <2>2, <3>1 DEF Claim
      <3>2. CASE Claimable(c) # {}
        BY <2>2, <3>2, ClaimWins DEF Claimable, InterruptsTypeOK
      <3> QED BY <3>1, <3>2
    <2>4. ThresholdFor(n) \in Nat
      BY <2>3, InterruptsAssumption DEF ThresholdFor, InterruptsTypeOK
    <2>5. [Top(c) EXCEPT !.phase = "body", !.src = n,
                         !.threshold = threshold[c], !.mie = mie[c]] \in Frames
      BY <2>1, <2>3 DEF Frames, InterruptsTypeOK
    <2>6. /\ pending' = pending \ {n} /\ held' = held \cup ({n} \ {0})
          /\ threshold' = [threshold EXCEPT ![c] = ThresholdFor(n)]
          /\ SetTop(c, [Top(c) EXCEPT !.phase = "body", !.src = n,
                                      !.threshold = threshold[c], !.mie = mie[c]])
      BY <1>3, <2>2 DEF ExtClaim
    <2>7. stack' \in [Cores -> Seq(Frames)]
      BY <2>1, <2>5, <2>6, SetTopFacts
    <2>8. pending' \subseteq Sources /\ held' \subseteq Sources /\ threshold' \in [Cores -> Nat]
      BY <2>3, <2>4, <2>6 DEF InterruptsTypeOK
    <2> QED BY <1>3, <2>7, <2>8 DEF InterruptsTypeOK, ExtClaim
  <1>4. CASE ExtComplete(c)
    <2>1. Depth(c) > 0 /\ Top(c) \in Frames
      BY <1>4, TopTyped DEF ExtComplete, In
    <2>2. [Top(c) EXCEPT !.phase = "leave"] \in Frames
      BY <2>1 DEF Frames
    <2>3. stack' \in [Cores -> Seq(Frames)]
      BY <1>4, <2>1, <2>2, SetTopFacts DEF ExtComplete
    <2> QED BY <1>4, <2>3 DEF InterruptsTypeOK, ExtComplete
  <1>5. CASE ExtLeave(c)
    <2>1. Depth(c) > 0 /\ Top(c) \in Frames
      BY <1>5, TopTyped DEF ExtLeave, In
    <2>2. Top(c).mie \in SUBSET Bit /\ Top(c).threshold \in Nat
      BY <2>1 DEF Frames
    <2>3. stack' \in [Cores -> Seq(Frames)]
      BY <1>5, <2>1, PopFacts DEF ExtLeave
    <2> QED BY <1>5, <2>2, <2>3 DEF InterruptsTypeOK, ExtLeave
  <1>6. CASE TimerEnter(c)
    <2>1. Depth(c) > 0 /\ Top(c) \in Frames
      BY <1>6, TopTyped DEF TimerEnter, In
    <2>2. [Top(c) EXCEPT !.phase = "body", !.mie = mie[c]] \in Frames
      BY <2>1 DEF Frames, InterruptsTypeOK
    <2>3. stack' \in [Cores -> Seq(Frames)]
      BY <1>6, <2>1, <2>2, SetTopFacts DEF TimerEnter
    <2> QED BY <1>6, <2>3 DEF InterruptsTypeOK, TimerEnter
  <1>7. CASE TimerLeave(c)
    <2>1. Depth(c) > 0 /\ Top(c) \in Frames
      BY <1>7, TopTyped DEF TimerLeave, In
    <2>2. Top(c).mie \in SUBSET Bit /\ Top(c).mie \ {"timer"} \in SUBSET Bit
      BY <2>1 DEF Frames
    <2>3. stack' \in [Cores -> Seq(Frames)]
      BY <1>7, <2>1, PopFacts DEF TimerLeave
    <2>4. mie' \in [Cores -> SUBSET Bit]
      BY <1>7, <2>2 DEF InterruptsTypeOK, TimerLeave
    <2>5. asked' \in [Cores -> SUBSET Bit]
      BY <1>7 DEF InterruptsTypeOK, TimerLeave
    <2> QED BY <1>7, <2>3, <2>4, <2>5 DEF InterruptsTypeOK, TimerLeave
  <1>8. CASE SoftEnter(c)
    <2>1. Depth(c) > 0 /\ Top(c) \in Frames
      BY <1>8, TopTyped DEF SoftEnter, In
    <2>2. [Top(c) EXCEPT !.phase = "ack"] \in Frames
      BY <2>1 DEF Frames
    <2>3. stack' \in [Cores -> Seq(Frames)]
      BY <1>8, <2>1, <2>2, SetTopFacts DEF SoftEnter
    <2> QED BY <1>8, <2>3 DEF InterruptsTypeOK, SoftEnter
  <1>9. CASE SoftAck(c)
    <2>1. Depth(c) > 0 /\ Top(c) \in Frames
      BY <1>9, TopTyped DEF SoftAck, In
    <2>2. [Top(c) EXCEPT !.phase = "body"] \in Frames
      BY <2>1 DEF Frames
    <2>3. stack' \in [Cores -> Seq(Frames)]
      BY <1>9, <2>1, <2>2, SetTopFacts DEF SoftAck
    <2> QED BY <1>9, <2>3 DEF InterruptsTypeOK, SoftAck
  <1>10. CASE SoftLeave(c)
    <2>1. Depth(c) > 0
      BY <1>10 DEF SoftLeave, In
    <2>2. stack' \in [Cores -> Seq(Frames)]
      BY <1>10, <2>1, PopFacts DEF SoftLeave
    <2>3. mie[c] \cup {"soft"} \in SUBSET Bit
      BY DEF InterruptsTypeOK, Bit
    <2> QED BY <1>10, <2>2, <2>3 DEF InterruptsTypeOK, SoftLeave
  <1> QED BY <1>1, <1>2, <1>3, <1>4, <1>5, <1>6, <1>7, <1>8, <1>9, <1>10 DEF Handler

LEMMA CallTyped ==
  ASSUME InterruptsTypeOK, NEW c \in Cores, Call(c)
  PROVE  InterruptsTypeOK'
  <1> USE DEF plic
  <1>0. \A b \in Bit : mie[c] \cup {b} \in SUBSET Bit /\ asked[c] \cup {b} \in SUBSET Bit
    BY DEF InterruptsTypeOK
  <1>1. ASSUME NEW s \in Sources, plic_irq_enable(c, s) PROVE InterruptsTypeOK'
    BY <1>1 DEF InterruptsTypeOK, plic_irq_enable
  <1>2. ASSUME NEW s \in Sources, plic_irq_disable(c, s) PROVE InterruptsTypeOK'
    BY <1>2 DEF InterruptsTypeOK, plic_irq_disable
  <1>3. ASSUME NEW s \in Sources, NEW p \in 0 .. MaxPriority, plic_set_priority(c, s, p)
        PROVE  InterruptsTypeOK'
    BY <1>3 DEF InterruptsTypeOK, plic_set_priority
  <1>4. ASSUME NEW m \in SUBSET Bit, NEW a \in SUBSET Bit,
               mie' = [mie EXCEPT ![c] = m], asked' = [asked EXCEPT ![c] = a],
               UNCHANGED <<plic, stack>>
        PROVE  InterruptsTypeOK'
    BY <1>4 DEF InterruptsTypeOK
  <1>5. ASSUME NEW v \in {"yes", "no"}, clint_timer_start(c, v) PROVE InterruptsTypeOK'
    BY <1>0, <1>4, <1>5 DEF clint_timer_start, Bit
  <1>6. CASE clint_ipi_enable(c)
    BY <1>0, <1>4, <1>6 DEF clint_ipi_enable, Bit
  <1>7. CASE clint_timer_stop(c) \/ clint_ipi_disable(c)
    <2>1. \A b \in Bit : mie[c] \ {b} \in SUBSET Bit /\ asked[c] \ {b} \in SUBSET Bit
      BY DEF InterruptsTypeOK
    <2>2. PICK b \in Bit : /\ mie' = [mie EXCEPT ![c] = mie[c] \ {b}]
                           /\ asked' = [asked EXCEPT ![c] = asked[c] \ {b}]
                           /\ UNCHANGED <<plic, stack>>
      BY <1>7, Zenon DEF clint_timer_stop, clint_ipi_disable, Bit
    <2> QED BY <1>4, <2>1, <2>2
  <1>8. ASSUME NEW d \in Cores, clint_ipi_send(c, d) PROVE InterruptsTypeOK'
    BY <1>8 DEF InterruptsTypeOK, clint_ipi_send
  <1> QED BY <1>1, <1>2, <1>3, <1>5, <1>6, <1>7, <1>8 DEF Call

(***************************************************************************)
(* The registers and frames keep their types even with callbacks that      *)
(* reconfigure interrupts and sources enabled on two cores: in particular  *)
(* a claim that comes back empty leaves a proper frame and threshold.      *)
(***************************************************************************)
THEOREM InterruptsTyped == Spec => []InterruptsTypeOK
  <1>1. Init => InterruptsTypeOK
    BY InterruptsAssumption DEF Init, InterruptsTypeOK
  <1>2. InterruptsTypeOK /\ [Next]_vars => InterruptsTypeOK'
    <2> SUFFICES ASSUME InterruptsTypeOK, [Next]_vars PROVE InterruptsTypeOK'
      OBVIOUS
    <2>1. ASSUME NEW s \in Sources, Raise(s) PROVE InterruptsTypeOK'
      BY <2>1 DEF InterruptsTypeOK, Raise
    <2>2. ASSUME NEW c \in Cores, TimerDue(c) PROVE InterruptsTypeOK'
      BY <2>2 DEF InterruptsTypeOK, TimerDue, plic
    <2>3. CASE UNCHANGED vars
      BY <2>3 DEF InterruptsTypeOK, vars, plic
    <2> QED BY <2>1, <2>2, <2>3, HandlerTyped, CallTyped DEF Next
  <1> QED BY <1>1, <1>2, PTL DEF Spec

(***************************************************************************)
(* No software interrupt is lost: a pending one goes away only in the step *)
(* that starts its callback, on every core and whatever else happens.      *)
(***************************************************************************)
THEOREM IpisAreNotLost == Spec => IpiNotLost
  <1>1. InterruptsTypeOK /\ [Next]_vars
          => [\A c \in Cores : c \in msip /\ c \notin msip' => In(c, "soft", "body")']_vars
    <2> SUFFICES ASSUME InterruptsTypeOK, [Next]_vars, NEW c \in Cores,
                        c \in msip, c \notin msip'
                 PROVE  In(c, "soft", "body")'
      OBVIOUS
    <2>1. PICK d \in Cores : SoftAck(d)
      <3>1. ASSUME NEW s \in Sources, Raise(s) PROVE FALSE
        BY <3>1 DEF Raise, clint
      <3>2. ASSUME NEW d \in Cores, TimerDue(d) PROVE FALSE
        BY <3>2 DEF TimerDue
      <3>3. ASSUME NEW d \in Cores, Call(d) PROVE FALSE
        BY <3>3 DEF Call, plic_irq_enable, plic_irq_disable, plic_set_priority,
             clint_timer_start, clint_timer_stop, clint_ipi_enable, clint_ipi_disable,
             clint_ipi_send, clint
      <3>4. ASSUME NEW d \in Cores, Handler(d), ~SoftAck(d) PROVE FALSE
        <4>1. CASE Trap(d)
          BY <4>1 DEF Trap, clint
        <4>2. CASE ExtCheck(d)
          BY <4>2 DEF ExtCheck, clint
        <4>3. CASE ExtClaim(d) \/ ExtComplete(d) \/ ExtLeave(d)
          BY <4>3 DEF ExtClaim, ExtComplete, ExtLeave, clint
        <4>4. CASE TimerEnter(d) \/ TimerLeave(d) \/ SoftEnter(d) \/ SoftLeave(d)
          BY <4>4 DEF TimerEnter, TimerLeave, SoftEnter, SoftLeave, clint
        <4> QED BY <3>4, <4>1, <4>2, <4>3, <4>4 DEF Handler
      <3>5. ~UNCHANGED vars
        BY DEF vars, clint
      <3> QED BY <3>1, <3>2, <3>3, <3>4, <3>5 DEF Next
    <2>2. d = c
      BY <2>1 DEF SoftAck
    <2>3. Depth(c) > 0 /\ Top(c) \in Frames /\ Top(c).kind = "soft"
      BY <2>1, <2>2, TopTyped DEF SoftAck, In
    <2>4. PICK f : f = [Top(c) EXCEPT !.phase = "body"]
      OBVIOUS
    <2>5. f \in Frames /\ f.kind = "soft" /\ f.phase = "body"
      BY <2>3, <2>4 DEF Frames
    <2>6. SetTop(c, f)
      BY <2>1, <2>2, <2>4 DEF SoftAck
    <2>7. Depth(c)' = Depth(c) /\ stack'[c][Depth(c)] = f
      BY <2>3, <2>5, <2>6, SetTopFacts
    <2> QED BY <2>3, <2>5, <2>7 DEF In, Top
  <1> QED BY <1>1, InterruptsTyped, PTL DEF Spec, IpiNotLost
=============================================================================
