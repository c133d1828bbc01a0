--------------------------- MODULE FbAllocProofs ----------------------------
(***************************************************************************)
(* Proofs about the frame-buffer stack for every size of g_framebuffer,    *)
(* every set of frames and requests, and any sequence of operations and    *)
(* exceptions in which fb_alloc_all is called while a header still fits.   *)
(***************************************************************************)
EXTENDS FbAllocInv, SequenceTheorems, TLAPS

-----------------------------------------------------------------------------
(* All elements of a sequence but the last. *)
LEMMA PopSequence ==
  ASSUME NEW S, NEW s \in Seq(S), Len(s) > 0
  PROVE  /\ SubSeq(s, 1, Len(s) - 1) \in Seq(S)
         /\ Len(SubSeq(s, 1, Len(s) - 1)) = Len(s) - 1
         /\ \A i \in 1 .. Len(s) - 1 : SubSeq(s, 1, Len(s) - 1)[i] = s[i]
  <1>1. PICK m \in Nat : m = Len(s) - 1
    BY LenProperties
  <1>2. \A i \in 1 .. m : s[i] \in S
    BY <1>1, ElementOfSeq, LenProperties
  <1>3. /\ SubSeq(s, 1, m) \in Seq(S)
        /\ Len(SubSeq(s, 1, m)) = IF 1 <= m THEN m - 1 + 1 ELSE 0
        /\ \A i \in 1 .. m - 1 + 1 : SubSeq(s, 1, m)[i] = s[1 + i - 1]
    BY <1>2, SubSeqProperties
  <1>4. (IF 1 <= m THEN m - 1 + 1 ELSE 0) = m
    OBVIOUS
  <1>5. ASSUME NEW i \in 1 .. m PROVE SubSeq(s, 1, m)[i] = s[i]
    <2>1. i \in 1 .. m - 1 + 1 /\ 1 + i - 1 = i
      OBVIOUS
    <2>2. SubSeq(s, 1, m)[i] = s[1 + i - 1]
      BY <1>3, <2>1, Zenon
    <2> QED BY <2>1, <2>2, Zenon
  <1>6. Len(SubSeq(s, 1, m)) = m
    BY <1>3, SMT
  <1> QED BY <1>1, <1>3, <1>5, <1>6, Zenon

-----------------------------------------------------------------------------

LEMMA NatProduct == ASSUME NEW a \in Nat, NEW b \in Nat PROVE a * b \in Nat
  OBVIOUS

(* The size of a frame is a natural number. *)
LEMMA BufferSizeNat == ASSUME NEW f \in Frames PROVE fb_buffer_size(f) \in Nat
  <1>1. f.w \in Nat /\ f.h \in Nat /\ f.bpp \in Nat
    BY FbAllocAssumption
  <1>2. BinaryLineLen(f) \in Nat
    BY <1>1 DEF BinaryLineLen
  <1>3. BinaryLineLen(f) * f.h \in Nat /\ f.w * f.h \in Nat
    BY <1>1, <1>2, NatProduct
  <1> QED BY <1>1, <1>3 DEF fb_buffer_size

(* RoundUp yields a positive whole number of words for a positive size. *)
LEMMA RoundUpWords ==
  ASSUME NEW n \in Nat, n # 0
  PROVE  RoundUp(n) \in Nat /\ RoundUp(n) >= Word /\ RoundUp(n) % Word = 0
  BY DEF RoundUp, Word

LEMMA InitIInv == Init => IInv
  <1> SUFFICES ASSUME Init PROVE IInv
    OBVIOUS
  <1>1. blocks \in Seq(Blocks) /\ Len(blocks) = 0
    BY EmptySeq DEF Init
  <1>2. TypeOK
    BY <1>1, FbAllocAssumption DEF Init, TypeOK
  <1>3. OrderInv /\ LiveInv /\ StackedInv /\ PhaseInv
    BY <1>1 DEF Init, OrderInv, LiveInv, StackedInv, PhaseInv, Floor, Live
  <1> QED BY <1>2, <1>3 DEF IInv

(***************************************************************************)
(* Pushing a block that reaches from new up to the pointer.                *)
(***************************************************************************)
LEMMA PushKeeps ==
  ASSUME IInv, NEW new \in Int, NEW kind \in {"mark", "data", "rest"},
         new >= MAIN_FB_PIXELS, new % Word = 0, new + Word <= pointer,
         new + Word = pointer <=> kind = "mark",
         Push(new, pointer - new, [at |-> new, len |-> pointer - new, kind |-> kind]),
         UNCHANGED <<frame, leaked>>
  PROVE  /\ blocks' \in Seq(Blocks) /\ mem' \in [Headers -> Nat] /\ pointer' \in Nat
         /\ Len(blocks') = Len(blocks) + 1
         /\ \A i \in 1 .. Len(blocks) : blocks'[i] = blocks[i]
         /\ blocks'[Len(blocks) + 1].kind = kind
         /\ OrderInv' /\ LiveInv' /\ StackedInv'
  <1> DEFINE b == [at |-> new, len |-> pointer - new, kind |-> kind]
             n == Len(blocks)
  <1>1. /\ blocks \in Seq(Blocks) /\ n \in Nat /\ pointer \in Nat
        /\ mem \in [Headers -> Nat] /\ leaked \in Nat /\ leaked <= n
        /\ \A i \in 1 .. n : blocks[i] \in Blocks
    BY ElementOfSeq DEF IInv, TypeOK, PhaseInv
  <1>2. pointer <= Top /\ \A i \in 1 .. n : pointer <= blocks[i].at
    <2>1. CASE n = 0
      BY <1>1, <2>1, FbAllocAssumption DEF IInv, OrderInv, Floor
    <2>2. CASE n > 0
      <3>1. pointer = blocks[n].at /\ blocks[n].at \in Headers
        BY <1>1, <2>2 DEF IInv, OrderInv, Floor
      <3>2. \A i \in 1 .. n : blocks[i].at \in Int /\ (i < n => blocks[n].at < blocks[i].at)
        BY <1>1, <2>2 DEF IInv, OrderInv, Blocks
      <3>3. pointer <= Top
        BY <1>1, <3>1, FbAllocAssumption DEF Headers
      <3>4. ASSUME NEW i \in 1 .. n PROVE pointer <= blocks[i].at
        <4>1. CASE i = n
          BY <1>1, <3>1, <4>1
        <4>2. CASE i < n
          BY <1>1, <2>2, <3>1, <3>2, <4>2
        <4> QED BY <1>1, <4>1, <4>2
      <3> QED BY <3>3, <3>4
    <2> QED BY <1>1, <2>1, <2>2
  <1>3. new \in Headers
    <2>1. MAIN_FB_PIXELS \in Nat
      BY BufferSizeNat DEF MAIN_FB_PIXELS, IInv, TypeOK
    <2>2. new >= 0 /\ new < Top
      BY <2>1, <1>1, <1>2, FbAllocAssumption DEF Word
    <2> QED BY <2>2, FbAllocAssumption DEF Headers
  <1>4. b \in Blocks
    <2>1. new \in Nat /\ pointer - new \in Nat
      BY <1>1, <1>3 DEF Headers, Word
    <2> QED BY <2>1 DEF Blocks
  <1>5. /\ blocks' \in Seq(Blocks)
        /\ Len(blocks') = n + 1
        /\ \A i \in 1 .. n : blocks'[i] = blocks[i]
        /\ blocks'[n + 1] = b
    BY <1>1, <1>4, AppendProperties DEF Push
  <1>6. /\ mem' \in [Headers -> Nat]
        /\ mem'[new] = pointer - new
        /\ \A a \in Headers : a >= pointer => mem'[a] = mem[a]
    BY <1>1, <1>3 DEF Push, Write, Headers, Word
  <1>7. pointer' = new
    BY DEF Push
  <1>8. OrderInv'
    <2>1. ASSUME NEW i \in 1 .. n + 1 PROVE blocks'[i].at \in Headers
      BY <1>1, <1>3, <1>5, <2>1 DEF IInv, OrderInv
    <2>2. ASSUME NEW i \in 1 .. n + 1, NEW j \in 1 .. n + 1, i < j
          PROVE  blocks'[j].at < blocks'[i].at
      <3>1. CASE j = n + 1
        <4>1. i \in 1 .. n /\ blocks'[i] = blocks[i] /\ blocks'[j].at = new
          <5>1. i \in 1 .. n
            BY <1>1, <2>2, <3>1
          <5>2. blocks'[j] = b
            BY <1>5, <3>1
          <5> QED BY <1>5, <5>1, <5>2
        <4>2. blocks[i].at \in Int /\ pointer <= blocks[i].at
          BY <1>1, <1>2, <4>1 DEF Blocks
        <4> QED BY <1>1, <4>1, <4>2 DEF Word
      <3>2. CASE j # n + 1
        <4>1. i \in 1 .. n /\ j \in 1 .. n
          BY <1>1, <2>2, <3>2
        <4> QED BY <1>5, <2>2, <4>1 DEF IInv, OrderInv
      <3> QED BY <3>1, <3>2
    <2>3. (pointer = Floor(Len(blocks) + 1))'
      BY <1>1, <1>5, <1>7 DEF Floor
    <2> QED BY <1>1, <1>5, <2>1, <2>2, <2>3 DEF OrderInv
  <1>9. LiveInv'
    <2> SUFFICES ASSUME NEW i \in Live'
                 PROVE  /\ mem'[blocks'[i].at] = blocks'[i].len
                        /\ blocks'[i].at + blocks'[i].len = Floor(i)'
                        /\ blocks'[i].len >= Word
                        /\ blocks'[i].len = Word <=> blocks'[i].kind = "mark"
                        /\ blocks'[i].at >= MAIN_FB_PIXELS'
      BY DEF LiveInv
    <2>1. MAIN_FB_PIXELS' = MAIN_FB_PIXELS /\ leaked' = leaked
      BY DEF MAIN_FB_PIXELS
    <2>2. i \in leaked + 1 .. n + 1
      BY <1>5, <2>1 DEF Live
    <2>3. CASE i = n + 1
      <3>1. blocks'[i].at = new /\ blocks'[i].len = pointer - new /\ blocks'[i].kind = kind
        BY <1>5, <2>3
      <3>2. Floor(i)' = pointer
        BY <1>1, <1>5, <2>3 DEF IInv, OrderInv, Floor
      <3> QED BY <1>1, <1>6, <2>1, <3>1, <3>2 DEF Word
    <2>4. CASE i # n + 1
      <3>1. i \in Live /\ i \in 1 .. n
        BY <1>1, <2>2, <2>4 DEF Live
      <3>2. blocks'[i] = blocks[i] /\ Floor(i)' = Floor(i)
        BY <1>1, <1>5, <3>1 DEF Floor
      <3>3. mem'[blocks[i].at] = mem[blocks[i].at]
        BY <1>2, <1>6, <3>1 DEF IInv, OrderInv
      <3> QED BY <2>1, <3>1, <3>2, <3>3 DEF IInv, LiveInv
    <2> QED BY <2>3, <2>4
  <1>10. StackedInv'
    <2> SUFFICES ASSUME NEW i \in 1 .. n + 1
                 PROVE  /\ blocks'[i].at + blocks'[i].len = Floor(i)'
                        /\ mem'[blocks'[i].at] \in {0, blocks'[i].len}
      BY <1>5 DEF StackedInv
    <2>1. CASE i = n + 1
      <3>1. blocks'[i].at = new /\ blocks'[i].len = pointer - new
        BY <1>5, <2>1
      <3>2. Floor(i)' = pointer
        BY <1>1, <1>5, <2>1 DEF IInv, OrderInv, Floor
      <3> QED BY <1>1, <1>6, <3>1, <3>2
    <2>2. CASE i # n + 1
      <3>1. i \in 1 .. n
        BY <1>1, <2>2
      <3>2. blocks'[i] = blocks[i] /\ Floor(i)' = Floor(i)
        BY <1>1, <1>5, <3>1 DEF Floor
      <3>3. mem'[blocks[i].at] = mem[blocks[i].at]
        BY <1>2, <1>6, <3>1 DEF IInv, OrderInv
      <3> QED BY <3>1, <3>2, <3>3 DEF IInv, StackedInv
    <2> QED BY <2>1, <2>2
  <1> QED BY <1>5, <1>6, <1>7, <1>8, <1>9, <1>10, <1>3 DEF Headers

(***************************************************************************)
(* Popping a block whose header is intact leads to the block below it; the *)
(* blocks left behind can only become fewer.                               *)
(***************************************************************************)
LEMMA PopKeeps ==
  ASSUME IInv, Len(blocks) > 0, mem[pointer] = blocks[Len(blocks)].len, Pop,
         leaked' = IF leaked < Len(blocks) THEN leaked ELSE Len(blocks) - 1
  PROVE  /\ blocks' \in Seq(Blocks) /\ pointer' \in Nat
         /\ Len(blocks') = Len(blocks) - 1
         /\ \A i \in 1 .. Len(blocks) - 1 : blocks'[i] = blocks[i]
         /\ OrderInv' /\ LiveInv' /\ StackedInv'
  <1> DEFINE n == Len(blocks)
  <1>1. /\ blocks \in Seq(Blocks) /\ n \in Nat /\ n > 0 /\ leaked \in Nat
        /\ pointer \in Nat /\ mem \in [Headers -> Nat]
        /\ \A i \in 1 .. n : blocks[i] \in Blocks
    BY ElementOfSeq DEF IInv, TypeOK
  <1>2. /\ SubSeq(blocks, 1, n - 1) \in Seq(Blocks)
        /\ Len(SubSeq(blocks, 1, n - 1)) = n - 1
        /\ \A i \in 1 .. n - 1 : SubSeq(blocks, 1, n - 1)[i] = blocks[i]
    BY <1>1, PopSequence
  <1>3. /\ blocks' \in Seq(Blocks) /\ Len(blocks') = n - 1
        /\ \A i \in 1 .. n - 1 : blocks'[i] = blocks[i]
    BY <1>2 DEF Pop
  <1>4. pointer = blocks[n].at /\ pointer' = Floor(n)
    <2>1. n \in 1 .. n
      BY <1>1
    <2>2. pointer = blocks[n].at
      BY <1>1 DEF IInv, OrderInv, Floor
    <2>3. blocks[n].at + blocks[n].len = Floor(n)
      BY <2>1 DEF IInv, StackedInv
    <2> QED BY <2>2, <2>3 DEF Pop
  <1>5. OrderInv'
    <2>1. \A i \in 1 .. n - 1 : blocks'[i].at \in Headers
      BY <1>1, <1>3 DEF IInv, OrderInv
    <2>2. ASSUME NEW i \in 1 .. n - 1, NEW j \in 1 .. n - 1, i < j
          PROVE  blocks'[j].at < blocks'[i].at
      <3>1. i \in 1 .. n /\ j \in 1 .. n
        BY <1>1
      <3> QED BY <1>3, <2>2, <3>1 DEF IInv, OrderInv
    <2>3. (pointer = Floor(Len(blocks) + 1))'
      BY <1>1, <1>3, <1>4 DEF Floor
    <2> QED BY <1>3, <2>1, <2>2, <2>3 DEF OrderInv
  <1>6. LiveInv'
    <2> SUFFICES ASSUME NEW i \in Live'
                 PROVE  /\ mem'[blocks'[i].at] = blocks'[i].len
                        /\ blocks'[i].at + blocks'[i].len = Floor(i)'
                        /\ blocks'[i].len >= Word
                        /\ blocks'[i].len = Word <=> blocks'[i].kind = "mark"
                        /\ blocks'[i].at >= MAIN_FB_PIXELS'
      BY DEF LiveInv
    <2>1. i \in Live /\ i \in 1 .. n - 1
      <3>1. i \in leaked' + 1 .. n - 1
        BY <1>3 DEF Live
      <3>2. leaked' = leaked \/ leaked' = n - 1
        OBVIOUS
      <3> QED BY <1>1, <3>1, <3>2 DEF Live
    <2>2. blocks'[i] = blocks[i] /\ Floor(i)' = Floor(i) /\ mem' = mem
          /\ MAIN_FB_PIXELS' = MAIN_FB_PIXELS
      BY <1>1, <1>3, <2>1 DEF Floor, Pop, MAIN_FB_PIXELS
    <2> QED BY <2>1, <2>2 DEF IInv, LiveInv
  <1>7. pointer' \in Nat
    <2> HIDE DEF n
    <2>1. CASE n = 1
      BY <1>4, <2>1, FbAllocAssumption DEF Floor
    <2>2. CASE n # 1
      <3>0. n \in Nat /\ n > 1
        BY <1>1, <2>2
      <3>1. n - 1 \in 1 .. n
        BY <3>0
      <3>2. Floor(n) = blocks[n - 1].at
        BY <2>2 DEF Floor
      <3>3. blocks[n - 1] \in Blocks
        BY <1>1, <3>1, Zenon
      <3> QED BY <1>4, <3>2, <3>3 DEF Blocks
    <2> QED BY <2>1, <2>2
  <1>8. StackedInv'
    <2> SUFFICES ASSUME NEW i \in 1 .. n - 1
                 PROVE  /\ blocks'[i].at + blocks'[i].len = Floor(i)'
                        /\ mem'[blocks'[i].at] \in {0, blocks'[i].len}
      BY <1>3 DEF StackedInv
    <2>1. blocks'[i] = blocks[i] /\ Floor(i)' = Floor(i) /\ mem' = mem /\ i \in 1 .. n
      BY <1>1, <1>3 DEF Floor, Pop
    <2> QED BY <2>1 DEF IInv, StackedInv
  <1> QED BY <1>3, <1>5, <1>6, <1>7, <1>8

(* The block a running operation pushed last has its header under the      *)
(* pointer.                                                                *)
LEMMA LiveOnTop ==
  ASSUME IInv, leaked < Len(blocks)
  PROVE  /\ Len(blocks) > 0 /\ Len(blocks) \in Live
         /\ pointer = blocks[Len(blocks)].at
         /\ mem[pointer] = blocks[Len(blocks)].len
  <1>1. leaked \in Nat /\ Len(blocks) \in Nat
    BY LenProperties DEF IInv, TypeOK
  <1>2. Len(blocks) > 0 /\ Len(blocks) \in Live
    BY <1>1 DEF Live
  <1>3. pointer = blocks[Len(blocks)].at
    BY <1>1, <1>2 DEF IInv, OrderInv, Floor
  <1> QED BY <1>2, <1>3 DEF IInv, LiveInv

(* Leaving an operation: nothing is live any more. *)
LEMMA AbortKeeps == ASSUME IInv, Abort PROVE IInv'
  <1>1. Len(blocks) \in Nat /\ TypeOK'
    BY LenProperties DEF IInv, TypeOK, Abort
  <1>2. OrderInv' /\ StackedInv'
    BY DEF IInv, OrderInv, StackedInv, Abort, Floor
  <1>3. LiveInv' /\ PhaseInv'
    BY <1>1 DEF Abort, LiveInv, Live, PhaseInv
  <1> QED BY <1>1, <1>2, <1>3 DEF IInv

LEMMA MarkKeeps == ASSUME IInv, fb_alloc_mark PROVE IInv'
  <1> DEFINE new == pointer - Word
  <1>1. CASE Abort
    BY <1>1, AbortKeeps
  <1>2. CASE /\ new >= MAIN_FB_PIXELS
             /\ Push(new, Word, [at |-> new, len |-> Word, kind |-> "mark"])
             /\ pc' = "run"
             /\ UNCHANGED <<frame, leaked>>
    <2>1. pointer \in Nat /\ pointer % Word = 0
      <3>1. blocks \in Seq(Blocks) /\ Len(blocks) \in Nat /\ pointer \in Nat
        BY DEF IInv, TypeOK
      <3> QED BY <3>1, FbAllocAssumption DEF IInv, OrderInv, Floor, Headers
    <2>2. new \in Int /\ new % Word = 0 /\ new + Word = pointer /\ pointer - new = Word
      BY <2>1 DEF Word
    <2>3. Push(new, pointer - new, [at |-> new, len |-> pointer - new, kind |-> "mark"])
      BY <1>2, <2>2
    <2>4. /\ blocks' \in Seq(Blocks) /\ mem' \in [Headers -> Nat] /\ pointer' \in Nat
          /\ Len(blocks') = Len(blocks) + 1
          /\ \A i \in 1 .. Len(blocks) : blocks'[i] = blocks[i]
          /\ blocks'[Len(blocks) + 1].kind = "mark"
          /\ OrderInv' /\ LiveInv' /\ StackedInv'
      <3>1. new + Word <= pointer
        BY <2>1, <2>2
      <3> QED BY <1>2, <2>2, <2>3, <3>1, PushKeeps
    <2>5. TypeOK'
      BY <1>2, <2>4 DEF IInv, TypeOK
    <2>6. PhaseInv'
      <3>1. Len(blocks) \in Nat /\ leaked \in Nat /\ leaked <= Len(blocks)
        BY LenProperties DEF IInv, TypeOK, PhaseInv
      <3>2. CASE pc = "idle"
        BY <1>2, <2>4, <3>1, <3>2 DEF IInv, PhaseInv
      <3>3. CASE pc = "run"
        BY <1>2, <2>4, <3>1, <3>3 DEF IInv, PhaseInv
      <3> QED BY <3>2, <3>3 DEF fb_alloc_mark
    <2> QED BY <2>4, <2>5, <2>6 DEF IInv
  <1> QED BY <1>1, <1>2 DEF fb_alloc_mark

LEMMA AllocKeeps == ASSUME IInv, NEW size \in Sizes, fb_alloc(size) PROVE IInv'
  <1> DEFINE new == pointer - RoundUp(size) - Word
  <1>1. CASE Abort
    BY <1>1, AbortKeeps
  <1>2. CASE /\ new >= MAIN_FB_PIXELS
             /\ Push(new, RoundUp(size) + Word,
                     [at |-> new, len |-> RoundUp(size) + Word, kind |-> "data"])
             /\ UNCHANGED <<frame, leaked, pc>>
    <2>1. pointer \in Nat /\ pointer % Word = 0
      <3>1. blocks \in Seq(Blocks) /\ Len(blocks) \in Nat /\ pointer \in Nat
        BY DEF IInv, TypeOK
      <3> QED BY <3>1, FbAllocAssumption DEF IInv, OrderInv, Floor, Headers
    <2>2. RoundUp(size) \in Nat /\ RoundUp(size) >= Word /\ RoundUp(size) % Word = 0
      BY RoundUpWords, FbAllocAssumption DEF fb_alloc
    <2>3. /\ new \in Int /\ new % Word = 0 /\ new + Word < pointer
          /\ pointer - new = RoundUp(size) + Word
      BY <2>1, <2>2 DEF Word
    <2>4. Push(new, pointer - new, [at |-> new, len |-> pointer - new, kind |-> "data"])
      BY <1>2, <2>3
    <2>5. /\ blocks' \in Seq(Blocks) /\ mem' \in [Headers -> Nat] /\ pointer' \in Nat
          /\ Len(blocks') = Len(blocks) + 1
          /\ \A i \in 1 .. Len(blocks) : blocks'[i] = blocks[i]
          /\ OrderInv' /\ LiveInv' /\ StackedInv'
      <3>1. new + Word <= pointer /\ ~(new + Word = pointer)
        BY <2>1, <2>3 DEF Word
      <3> QED BY <1>2, <2>3, <2>4, <3>1, PushKeeps
    <2>6. TypeOK'
      BY <1>2, <2>5 DEF IInv, TypeOK
    <2>7. PhaseInv'
      <3>1. Len(blocks) \in Nat /\ leaked \in Nat
        BY LenProperties DEF IInv, TypeOK
      <3> QED BY <1>2, <2>5, <3>1 DEF IInv, PhaseInv, fb_alloc
    <2> QED BY <2>5, <2>6, <2>7 DEF IInv
  <1> QED BY <1>1, <1>2 DEF fb_alloc

(* RoundDown yields a positive whole number of words from a word upwards. *)
LEMMA RoundDownWords ==
  ASSUME NEW n \in Nat, n >= Word
  PROVE  /\ RoundDown(n) \in Nat /\ RoundDown(n) >= Word /\ RoundDown(n) <= n
         /\ RoundDown(n) % Word = 0
  BY DEF RoundDown, Word

(* What is left, as long as a header fits: nothing wraps. *)
LEMMA AllKeeps == ASSUME IInv, fb_alloc_all, Temp >= 0 PROVE IInv'
  <1> DEFINE size == RoundDown(Temp)
             new == pointer - size - Word
  <1>1. pointer \in Nat /\ pointer % Word = 0 /\ pointer <= Top
    <2>1. blocks \in Seq(Blocks) /\ Len(blocks) \in Nat /\ pointer \in Nat
      BY DEF IInv, TypeOK
    <2>2. pointer = Top \/ pointer \in Headers
      BY <2>1 DEF IInv, OrderInv, Floor
    <2> QED BY <2>1, <2>2, FbAllocAssumption DEF Headers
  <1>2. MAIN_FB_PIXELS \in Nat
    BY BufferSizeNat DEF MAIN_FB_PIXELS, IInv, TypeOK
  <1>3. Temp \in Nat /\ Temp = pointer - MAIN_FB_PIXELS - Word
    BY <1>1, <1>2 DEF Temp, Word
  <1>4. Unsigned(Temp) = Temp /\ Temp >= Word
    BY <1>3 DEF Unsigned, fb_alloc_all
  <1>5. size \in Nat /\ size >= Word /\ size <= Temp /\ size % Word = 0
    BY <1>3, <1>4, RoundDownWords
  <1> HIDE DEF size
  <1>6. /\ new \in Int /\ new % Word = 0 /\ new >= MAIN_FB_PIXELS
        /\ new + Word <= pointer /\ new + Word # pointer
        /\ pointer - new = size + Word /\ pointer - size >= 0
    BY <1>1, <1>2, <1>3, <1>5 DEF Word
  <1>7. (size + Word) % Wrap = size + Word
    BY <1>1, <1>2, <1>3, <1>5, FbAllocAssumption DEF Word
  <1>8. Push(new, pointer - new, [at |-> new, len |-> pointer - new, kind |-> "rest"])
    <2>1. Push(IF pointer - size < 0 THEN pointer - size + Wrap - Word ELSE new,
               (size + Word) % Wrap,
               [at |-> IF pointer - size < 0 THEN pointer - size + Wrap - Word ELSE new,
                len |-> size + Word, kind |-> "rest"])
      BY <1>4, Zenon DEF fb_alloc_all, size
    <2>2. (IF pointer - size < 0 THEN pointer - size + Wrap - Word ELSE new) = new
      BY <1>1, <1>5, <1>6
    <2> QED BY <1>6, <1>7, <2>1, <2>2
  <1>9. UNCHANGED <<frame, leaked, pc>> /\ pc = "run"
    BY DEF fb_alloc_all
  <1>10. /\ blocks' \in Seq(Blocks) /\ mem' \in [Headers -> Nat] /\ pointer' \in Nat
         /\ Len(blocks') = Len(blocks) + 1
         /\ \A i \in 1 .. Len(blocks) : blocks'[i] = blocks[i]
         /\ OrderInv' /\ LiveInv' /\ StackedInv'
    BY <1>6, <1>8, <1>9, PushKeeps
  <1>11. TypeOK'
    BY <1>9, <1>10 DEF IInv, TypeOK
  <1>12. PhaseInv'
    <2>1. Len(blocks) \in Nat /\ leaked \in Nat
      BY LenProperties DEF IInv, TypeOK
    <2> QED BY <1>9, <1>10, <2>1 DEF IInv, PhaseInv
  <1> QED BY <1>10, <1>11, <1>12 DEF IInv

LEMMA FreeKeeps == ASSUME IInv, fb_free PROVE IInv'
  <1>1. /\ Len(blocks) \in Nat /\ leaked \in Nat
        /\ leaked + 1 < Len(blocks) /\ blocks[leaked + 1].kind = "mark"
    BY LenProperties DEF IInv, TypeOK, PhaseInv, fb_free
  <1>2. /\ blocks' \in Seq(Blocks) /\ pointer' \in Nat
        /\ Len(blocks') = Len(blocks) - 1
        /\ \A i \in 1 .. Len(blocks) - 1 : blocks'[i] = blocks[i]
        /\ OrderInv' /\ LiveInv' /\ StackedInv'
    <2>1. mem[pointer] = blocks[Len(blocks)].len /\ Len(blocks) > 0
      BY <1>1, LiveOnTop
    <2> QED BY <1>1, <2>1, PopKeeps DEF fb_free
  <1>3. TypeOK'
    BY <1>2 DEF IInv, TypeOK, fb_free, Pop
  <1>4. PhaseInv'
    BY <1>1, <1>2 DEF PhaseInv, fb_free
  <1> QED BY <1>2, <1>3, <1>4 DEF IInv

(* The loop of fb_alloc_free_till_mark cannot pass the operation's mark. *)
LEMMA PopTillMarkKeeps == ASSUME IInv, PopTillMark PROVE IInv'
  <1> DEFINE n == Len(blocks)
  <1>1. /\ n \in Nat /\ leaked \in Nat
        /\ leaked < n /\ blocks[leaked + 1].kind = "mark"
    BY LenProperties DEF IInv, TypeOK, PhaseInv, PopTillMark
  <1>2. n > 0 /\ n \in Live /\ mem[pointer] = blocks[n].len
    BY <1>1, LiveOnTop
  <1>3. /\ blocks' \in Seq(Blocks) /\ pointer' \in Nat
        /\ Len(blocks') = n - 1
        /\ \A i \in 1 .. n - 1 : blocks'[i] = blocks[i]
        /\ OrderInv' /\ LiveInv' /\ StackedInv'
    BY <1>1, <1>2, PopKeeps DEF PopTillMark
  <1>4. TypeOK'
    BY <1>3 DEF IInv, TypeOK, PopTillMark, Pop
  <1>5. mem[pointer] = Word <=> blocks[n].kind = "mark"
    BY <1>2 DEF IInv, LiveInv
  <1>6. PhaseInv'
    <2>1. leaked' = leaked
      BY DEF PopTillMark
    <2>2. CASE mem[pointer] # Word
      <3>1. leaked + 1 < n
        BY <1>1, <1>5, <2>2
      <3>2. pc' = "till"
        BY <2>2 DEF PopTillMark
      <3> QED BY <1>1, <1>3, <2>1, <3>1, <3>2 DEF PhaseInv
    <2>3. CASE mem[pointer] = Word /\ n - 1 > leaked
      <3>1. pc' = "run"
        BY <2>3 DEF PopTillMark
      <3> QED BY <1>1, <1>3, <2>1, <2>3, <3>1 DEF PhaseInv
    <2>4. CASE mem[pointer] = Word /\ ~(n - 1 > leaked)
      <3>1. pc' = "idle"
        BY <2>4 DEF PopTillMark
      <3> QED BY <1>1, <1>3, <2>1, <2>4, <3>1 DEF PhaseInv
    <2> QED BY <2>2, <2>3, <2>4
  <1> QED BY <1>3, <1>4, <1>6 DEF IInv

(* The loop of fb_free_all pops the operation's blocks and then, while     *)
(* their headers are intact, the blocks exceptions left behind.            *)
LEMMA PopAllKeeps == ASSUME IInv, PopAll PROVE IInv'
  <1> DEFINE n == Len(blocks)
  <1>1. n \in Nat /\ leaked \in Nat /\ leaked <= n /\ pointer \in Nat /\ pc = "all"
    BY LenProperties DEF IInv, TypeOK, PhaseInv, PopAll
  <1>2. CASE /\ pointer < Top /\ mem[pointer] # 0
             /\ Pop
             /\ leaked' = IF leaked < n THEN leaked ELSE n - 1
             /\ UNCHANGED pc
    <2>1. n > 0
      BY <1>1, <1>2, FbAllocAssumption DEF IInv, OrderInv, Floor
    <2>2. mem[pointer] = blocks[n].len
      <3>1. pointer = blocks[n].at /\ n \in 1 .. n
        BY <1>1, <2>1 DEF IInv, OrderInv, Floor
      <3> QED BY <1>2, <3>1 DEF IInv, StackedInv
    <2>3. /\ blocks' \in Seq(Blocks) /\ pointer' \in Nat
          /\ Len(blocks') = n - 1
          /\ OrderInv' /\ LiveInv' /\ StackedInv'
      BY <1>2, <2>1, <2>2, PopKeeps
    <2>4. leaked' \in Nat /\ leaked' <= n - 1
      BY <1>1, <1>2, <2>1
    <2>5. TypeOK'
      BY <1>2, <2>3, <2>4 DEF IInv, TypeOK, Pop
    <2>6. PhaseInv'
      BY <1>1, <1>2, <2>3, <2>4 DEF PhaseInv
    <2> QED BY <2>3, <2>5, <2>6 DEF IInv
  <1>3. CASE pointer < Top /\ mem[pointer] = 0 /\ UNCHANGED vars
    BY <1>3 DEF vars, IInv, TypeOK, OrderInv, LiveInv, StackedInv, PhaseInv, Live, Floor, MAIN_FB_PIXELS
  <1>4. CASE pointer >= Top /\ pc' = "idle" /\ UNCHANGED <<pointer, mem, frame, blocks, leaked>>
    <2>1. n = 0
      <3>1. SUFFICES ASSUME n > 0 PROVE FALSE
        BY <1>1
      <3>2. pointer \in Headers
        BY <1>1, <3>1 DEF IInv, OrderInv, Floor
      <3> QED BY <1>1, <1>4, <3>2, FbAllocAssumption DEF Headers
    <2>2. TypeOK' /\ PhaseInv'
      BY <1>1, <1>4, <2>1 DEF IInv, TypeOK, PhaseInv
    <2>3. OrderInv' /\ LiveInv' /\ StackedInv'
      BY <1>4 DEF IInv, OrderInv, LiveInv, StackedInv, Live, Floor, MAIN_FB_PIXELS
    <2> QED BY <2>2, <2>3 DEF IInv
  <1> QED BY <1>2, <1>3, <1>4 DEF PopAll

(* Control steps: the stack stays as it is. *)
LEMMA StartFreeKeeps ==
  ASSUME IInv, fb_alloc_free_till_mark \/ fb_free_all PROVE IInv'
  <1>1. OrderInv' /\ LiveInv' /\ StackedInv'
    BY DEF IInv, OrderInv, LiveInv, StackedInv, Live, Floor, MAIN_FB_PIXELS, fb_alloc_free_till_mark, fb_free_all
  <1>2. TypeOK' /\ PhaseInv'
    BY DEF IInv, TypeOK, PhaseInv, fb_alloc_free_till_mark, fb_free_all
  <1> QED BY <1>1, <1>2 DEF IInv

(* A new frame may overwrite what an exception left behind, nothing live. *)
LEMMA SetFrameKeeps == ASSUME IInv, NEW f \in Frames, SetFrame(f) PROVE IInv'
  <1>1. Len(blocks) \in Nat /\ leaked = Len(blocks)
    BY LenProperties DEF IInv, TypeOK, PhaseInv, SetFrame
  <1>2. TypeOK'
    BY DEF IInv, TypeOK, SetFrame
  <1>3. OrderInv' /\ PhaseInv'
    BY DEF IInv, OrderInv, PhaseInv, Floor, SetFrame
  <1>4. LiveInv'
    BY <1>1 DEF LiveInv, Live, SetFrame
  <1>5. StackedInv'
    <2> SUFFICES ASSUME NEW i \in 1 .. Len(blocks)
                 PROVE  /\ blocks[i].at + blocks[i].len = Floor(i)
                        /\ mem'[blocks[i].at] \in {0, blocks[i].len}
      BY DEF StackedInv, Floor, SetFrame
    <2>1. blocks[i].at \in Headers
      BY DEF IInv, OrderInv
    <2>2. mem'[blocks[i].at] \in {0, mem[blocks[i].at]}
      BY <2>1 DEF SetFrame
    <2> QED BY <2>2 DEF IInv, StackedInv
  <1> QED BY <1>2, <1>3, <1>4, <1>5 DEF IInv

LEMMA Init0Keeps == ASSUME IInv, fb_alloc_init0 PROVE IInv'
  <1>1. blocks' \in Seq(Blocks) /\ Len(blocks') = 0
    BY EmptySeq DEF fb_alloc_init0
  <1> QED BY <1>1, FbAllocAssumption DEF IInv, TypeOK, OrderInv, LiveInv, StackedInv, PhaseInv, Live, Floor, fb_alloc_init0

LEMMA Invariance == "exhausted" \notin Api /\ Spec => []IInv
  <1> SUFFICES ASSUME "exhausted" \notin Api PROVE Spec => []IInv
    OBVIOUS
  <1>1. Init => IInv
    BY InitIInv
  <1>2. IInv /\ [Next]_vars => IInv'
    <2> SUFFICES ASSUME IInv, [Next]_vars PROVE IInv'
      OBVIOUS
    <2>1. CASE fb_alloc_mark
      BY <2>1, MarkKeeps
    <2>2. CASE \E n \in Sizes : fb_alloc(n)
      BY <2>2, AllocKeeps
    <2>3. CASE HeaderFits /\ fb_alloc_all
      BY <2>3, AllKeeps DEF HeaderFits
    <2>4. CASE fb_free
      BY <2>4, FreeKeeps
    <2>5. CASE fb_alloc_free_till_mark \/ fb_free_all
      BY <2>5, StartFreeKeeps
    <2>6. CASE PopTillMark
      BY <2>6, PopTillMarkKeeps
    <2>7. CASE PopAll
      BY <2>7, PopAllKeeps
    <2>8. CASE Raise
      BY <2>8, AbortKeeps DEF Raise
    <2>9. CASE \E f \in Frames : SetFrame(f)
      BY <2>9, SetFrameKeeps
    <2>10. CASE fb_alloc_init0
      BY <2>10, Init0Keeps
    <2>11. CASE UNCHANGED vars
      BY <2>11 DEF vars, IInv, TypeOK, OrderInv, LiveInv, StackedInv, PhaseInv, Live, Floor, MAIN_FB_PIXELS
    <2> QED BY <2>1, <2>2, <2>3, <2>4, <2>5, <2>6, <2>7, <2>8, <2>9, <2>10, <2>11 DEF Next
  <1> QED BY <1>1, <1>2, PTL DEF Spec

(***************************************************************************)
(* Type correctness of the allocator's state.                              *)
(***************************************************************************)
THEOREM TypeCorrect == "exhausted" \notin Api /\ Spec => []TypeOK
  BY Invariance, PTL DEF IInv

(***************************************************************************)
(* The headers fb_free and fb_alloc_free_till_mark follow always describe  *)
(* the blocks of the running operation, whatever exceptions left behind    *)
(* and whatever frames overwrote.                                          *)
(***************************************************************************)
THEOREM Tiling == "exhausted" \notin Api /\ Spec => []HeadersTile
  <1>1. IInv => HeadersTile
    BY DEF IInv, OrderInv, LiveInv, HeadersTile
  <1> QED BY <1>1, Invariance, PTL

(***************************************************************************)
(* A header that holds 8 is a mark and nothing else is.                    *)
(***************************************************************************)
THEOREM Marks == "exhausted" \notin Api /\ Spec => []MarksUnambiguous
  <1>1. IInv => MarksUnambiguous
    BY DEF IInv, LiveInv, MarksUnambiguous
  <1> QED BY <1>1, Invariance, PTL

(***************************************************************************)
(* Unless the main frame is a binary image, nothing an operation holds     *)
(* overlaps the pixels of the frame.                                       *)
(***************************************************************************)
THEOREM OffFrame ==
  /\ "exhausted" \notin Api
  /\ \A f \in Frames : f.bpp # 0
  /\ Spec
  => []RegionsOffFrame
  <1> SUFFICES ASSUME "exhausted" \notin Api, \A f \in Frames : f.bpp # 0
               PROVE  Spec => []RegionsOffFrame
    OBVIOUS
  <1>1. ASSUME NEW f \in Frames PROVE image_size(f) = fb_buffer_size(f)
    <2>1. f.w \in Nat /\ f.h \in Nat /\ f.bpp # 0
      BY FbAllocAssumption
    <2>2. f.w * 2 * f.h = f.w * f.h * 2
      BY <2>1
    <2> QED BY <2>1, <2>2 DEF image_size, fb_buffer_size
  <1>2. IInv => RegionsOffFrame
    BY <1>1 DEF IInv, TypeOK, LiveInv, RegionsOffFrame, MAIN_FB_PIXELS
  <1> QED BY <1>2, Invariance, PTL

(***************************************************************************)
(* A client that asks fb_alloc for what fb_avail reports gets it.          *)
(***************************************************************************)
THEOREM Avail == "exhausted" \notin Api /\ Spec => []AvailCanBeHad
  <1>1. ASSUME IInv, Temp >= 0, fb_avail # 0
        PROVE  pointer - RoundUp(RoundDown(fb_avail)) - Word >= MAIN_FB_PIXELS
    <2>1. pointer \in Nat /\ MAIN_FB_PIXELS \in Nat
      BY <1>1, BufferSizeNat DEF MAIN_FB_PIXELS, IInv, TypeOK
    <2>2. Temp \in Nat /\ Temp = pointer - MAIN_FB_PIXELS - Word
      BY <1>1, <2>1 DEF Temp, Word
    <2>3. fb_avail = Temp /\ Temp >= Word
      BY <1>1, <2>2 DEF fb_avail, Unsigned, Word
    <2>4. /\ RoundDown(Temp) \in Nat /\ RoundDown(Temp) <= Temp
          /\ RoundDown(Temp) % Word = 0
      BY <2>2, <2>3, RoundDownWords
    <2>5. RoundUp(RoundDown(Temp)) = RoundDown(Temp)
      BY <2>4 DEF RoundUp, Word
    <2> QED BY <2>1, <2>2, <2>3, <2>4, <2>5 DEF Word
  <1>2. IInv => AvailCanBeHad
    BY <1>1 DEF AvailCanBeHad
  <1> QED BY <1>2, Invariance, PTL

(***************************************************************************)
(* An operation that pops down to its mark leaves the stack exactly as it  *)
(* found it.                                                               *)
(***************************************************************************)
THEOREM Balance == "exhausted" \notin Api /\ Spec => OperationsBalance
  <1> DEFINE A == pc = "till" /\ pc' = "idle" => /\ pointer' = Floor(leaked + 1)
                                                /\ Len(blocks') = leaked
  <1>1. IInv /\ [Next]_vars => [A]_vars
    <2> SUFFICES ASSUME IInv, Next, pc = "till", pc' = "idle"
                 PROVE  pointer' = Floor(leaked + 1) /\ Len(blocks') = leaked
      OBVIOUS
    <2>1. PopTillMark
      BY DEF Next, fb_alloc_mark, fb_alloc, fb_alloc_all, HeaderFits, fb_free, PopTillMark,
         fb_alloc_free_till_mark, fb_free_all, PopAll, Raise, SetFrame, fb_alloc_init0
    <2>2. /\ Len(blocks) \in Nat /\ leaked \in Nat
          /\ leaked < Len(blocks) /\ ~(Len(blocks) - 1 > leaked)
      BY <2>1, LenProperties DEF IInv, TypeOK, PhaseInv, PopTillMark
    <2>3. Len(blocks') = Len(blocks) - 1 /\ mem[pointer] = blocks[Len(blocks)].len
      <3>1. mem[pointer] = blocks[Len(blocks)].len /\ Len(blocks) > 0
        BY <2>1, <2>2, LiveOnTop
      <3> QED BY <2>1, <2>2, <3>1, PopKeeps DEF PopTillMark
    <2>4. leaked + 1 = Len(blocks)
      BY <2>2
    <2>5. /\ pointer = blocks[leaked + 1].at
          /\ blocks[leaked + 1].at + blocks[leaked + 1].len = Floor(leaked + 1)
      <3>1. Len(blocks) \in Live
        BY <2>2 DEF Live
      <3>2. pointer = blocks[Len(blocks)].at
        BY <2>2 DEF IInv, OrderInv, Floor
      <3> QED BY <2>4, <3>1, <3>2 DEF IInv, LiveInv
    <2> QED BY <2>1, <2>2, <2>3, <2>4, <2>5 DEF PopTillMark, Pop
  <1>2. Spec /\ []IInv => [][A]_vars
    BY <1>1, PTL DEF Spec
  <1> QED BY <1>2, Invariance, PTL DEF OperationsBalance
=============================================================================
