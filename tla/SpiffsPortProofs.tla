-------------------------- MODULE SpiffsPortProofs --------------------------
(***************************************************************************)
(* Proofs about the flash driver and the SPIFFS port for callers that poll *)
(* w25qxx_is_busy before a call: for any geometry of the chip, any writes  *)
(* and any set of entry points.                                            *)
(***************************************************************************)
EXTENDS SpiffsPortInv, SequenceTheorems, TLAPS

-----------------------------------------------------------------------------
(* Quotient and remainder of natural numbers. *)
LEMMA Remainders ==
  ASSUME NEW a \in Nat, NEW n \in Nat \ {0}
  PROVE  /\ a % n \in 0 .. n - 1
         /\ a \div n \in Nat
         /\ a = n * (a \div n) + (a % n)
  OBVIOUS

(* Multiples of n lie at least n apart. *)
LEMMA ProductsInOrder ==
  ASSUME NEW n \in Nat \ {0}, NEW i \in Int, NEW j \in Int, i < j
  PROVE  n * i + n <= n * j
  OBVIOUS

-----------------------------------------------------------------------------
(* Arithmetic of addresses.                                                *)

LEMMA MultipleHasNoRemainder ==
  ASSUME NEW k \in Nat, NEW n \in Nat \ {0}
  PROVE  (n * k) % n = 0
  <1>0. PICK a \in Nat : a = n * k
    OBVIOUS
  <1>1. PICK q \in Nat, r \in 0 .. n - 1 : q = a \div n /\ r = a % n
    BY Remainders
  <1>2. a = n * q + r
    BY <1>1, Remainders
  <1>3. CASE k = q
    BY <1>0, <1>1, <1>2, <1>3
  <1>4. CASE k < q
    BY <1>0, <1>2, <1>4, ProductsInOrder
  <1>5. CASE q < k
    BY <1>0, <1>2, <1>5, ProductsInOrder
  <1> QED BY <1>3, <1>4, <1>5

LEMMA Aligning ==
  ASSUME NEW a \in Nat, NEW n \in Nat \ {0}
  PROVE  /\ AlignDown(a, n) \in Nat
         /\ AlignDown(a, n) <= a /\ a < AlignDown(a, n) + n
         /\ a % n = a - AlignDown(a, n)
  <1>1. PICK q \in Nat, r \in 0 .. n - 1 : q = a \div n /\ r = a % n
    BY Remainders
  <1>2. a = n * q + r /\ n * q \in Nat
    BY <1>1, Remainders
  <1>3. AlignDown(a, n) = a - r
    BY <1>1 DEF AlignDown
  <1> QED BY <1>1, <1>2, <1>3

LEMMA AligningMultiple ==
  ASSUME NEW k \in Nat, NEW n \in Nat \ {0}
  PROVE  AlignDown(n * k, n) = n * k
  <1>1. n * k \in Nat /\ (n * k) % n = 0
    BY MultipleHasNoRemainder
  <1> QED BY <1>1 DEF AlignDown

(* The aligned piece of size n around an address below n * m ends at n * m *)
(* or before.                                                              *)
LEMMA AlignedFits ==
  ASSUME NEW a \in Nat, NEW n \in Nat \ {0}, NEW m \in Nat, a < n * m
  PROVE  AlignDown(a, n) + n <= n * m
  <1>1. PICK q \in Nat, r \in 0 .. n - 1 : q = a \div n /\ r = a % n
    BY Remainders
  <1>2. a = n * q + r
    BY <1>1, Remainders
  <1>3. AlignDown(a, n) = n * q
    BY <1>1, <1>2 DEF AlignDown
  <1>4. q < m
    <2>1. SUFFICES ASSUME m <= q PROVE FALSE
      OBVIOUS
    <2>2. n * m <= n * q
      BY <2>1, ProductsInOrder
    <2> QED BY <1>2, <2>2
  <1> QED BY <1>3, <1>4, ProductsInOrder

LEMMA Sizes ==
  /\ SectorSize \in Nat \ {0} /\ HalfSize \in Nat \ {0} /\ BlockSize \in Nat \ {0}
  /\ Size \in Nat \ {0}
  /\ \E m \in Nat : Size = SectorSize * m
  <1> USE W25qxxAssumption
  <1>0. \A i, j \in Nat \ {0} : i * j \in Nat \ {0}
    OBVIOUS
  <1>1. SectorSize \in Nat \ {0}
    BY <1>0 DEF SectorSize
  <1>2. HalfSize \in Nat \ {0}
    BY <1>0, <1>1 DEF HalfSize
  <1>3. BlockSize \in Nat \ {0}
    BY <1>0, <1>2 DEF BlockSize
  <1>4. Size \in Nat \ {0}
    BY <1>0, <1>3 DEF Size
  <1>5. Size = SectorSize * (HalfSectors * 2 * Blocks)
    <2>1. \A i, j, k \in Nat : (2 * (i * j)) * k = i * (j * 2 * k)
      OBVIOUS
    <2> QED BY <1>1, <2>1 DEF Size, BlockSize, HalfSize
  <1>6. HalfSectors * 2 * Blocks \in Nat
    OBVIOUS
  <1> QED BY <1>1, <1>2, <1>3, <1>4, <1>5, <1>6

LEMMA SectorFits ==
  ASSUME NEW a \in Nat, a < Size
  PROVE  AlignDown(a, SectorSize) + SectorSize <= Size
  <1>1. PICK m \in Nat : Size = SectorSize * m
    BY Sizes
  <1>2. SectorSize \in Nat \ {0}
    BY Sizes
  <1> QED BY <1>1, <1>2, AlignedFits

(* Bytes that do not cross the end of a page go where they are sent.       *)
LEMMA WithinPage ==
  ASSUME NEW a \in Nat, NEW d \in Seq(Byte), (a % PageSize) + Len(d) <= PageSize
  PROVE  ProgramBytes(a, d) = [c \in Extent(a, Len(d)) |-> d[c - a + 1]]
  <1> USE W25qxxAssumption
  <1>1. PICK r \in 0 .. PageSize - 1 : r = a % PageSize
    BY Remainders
  <1>2. Len(d) \in Nat /\ r + Len(d) <= PageSize
    BY <1>1, LenProperties
  <1>3. ASSUME NEW i \in 1 .. Len(d) PROVE PageCell(a, i) = a + i - 1
    <2>1. r + i - 1 \in 0 .. PageSize - 1
      BY <1>2
    <2>2. \A x \in 0 .. PageSize - 1 : x % PageSize = x
      OBVIOUS
    <2>3. (r + i - 1) % PageSize = r + i - 1
      BY <2>1, <2>2
    <2>4. PageCell(a, i) = (a - r) + (r + i - 1)
      BY <1>1, <2>3 DEF PageCell, AlignDown
    <2> QED BY <2>4
  <1>4. \A c \in Extent(a, Len(d)) : c - a + 1 \in 1 .. Len(d) /\ c \in Int
    BY <1>2 DEF Extent
  <1>5. {PageCell(a, i) : i \in 1 .. Len(d)} = Extent(a, Len(d))
    <2>1. ASSUME NEW i \in 1 .. Len(d) PROVE PageCell(a, i) \in Extent(a, Len(d))
      <3>1. a + i - 1 \in Extent(a, Len(d))
        BY <1>2 DEF Extent
      <3> QED BY <1>3, <3>1
    <2>2. ASSUME NEW c \in Extent(a, Len(d)) PROVE \E i \in 1 .. Len(d) : c = PageCell(a, i)
      <3>1. c - a + 1 \in 1 .. Len(d) /\ c \in Int
        BY <1>4
      <3>2. PageCell(a, c - a + 1) = a + (c - a + 1) - 1
        BY <1>3, <3>1
      <3>3. c = PageCell(a, c - a + 1)
        BY <3>1, <3>2
      <3> QED BY <3>1, <3>3
    <2> QED BY <2>1, <2>2
  <1>6. ASSUME NEW c \in Extent(a, Len(d))
        PROVE  (CHOOSE i \in 1 .. Len(d) : PageCell(a, i) = c) = c - a + 1
    <2>1. c - a + 1 \in 1 .. Len(d) /\ c \in Int
      BY <1>4
    <2>2. \A i \in 1 .. Len(d) : PageCell(a, i) = c => i = c - a + 1
      BY <1>2, <1>3, <2>1
    <2>3. PageCell(a, c - a + 1) = c
      BY <1>2, <1>3, <2>1
    <2> QED BY <2>1, <2>2, <2>3
  <1>7. PICK D : D = {PageCell(a, i) : i \in 1 .. Len(d)}
    OBVIOUS
  <1>8. ProgramBytes(a, d) = [c \in D |-> d[CHOOSE i \in 1 .. Len(d) : PageCell(a, i) = c]]
    BY <1>7, Zenon DEF ProgramBytes
  <1>9. D = Extent(a, Len(d))
    BY <1>5, <1>7, Zenon
  <1>10. PICK f : f = [c \in Extent(a, Len(d)) |-> CHOOSE i \in 1 .. Len(d) : PageCell(a, i) = c]
    OBVIOUS
  <1>11. ProgramBytes(a, d) = [c \in Extent(a, Len(d)) |-> d[f[c]]]
    BY <1>8, <1>9, <1>10, Zenon
  <1>12. \A c \in Extent(a, Len(d)) : f[c] = c - a + 1
    BY <1>6, <1>10, Zenon
  <1> QED BY <1>11, <1>12

-----------------------------------------------------------------------------
(* The chip.                                                               *)

LEMMA DoneNow ==
  /\ op = None => Done(op) = mem
  /\ \A S : op = EraseOp(S) => Done(op) = [c \in Cells |-> IF c \in S THEN Bits ELSE mem[c]]
  /\ \A b : op = ProgramOp(b) => Done(op) = [c \in Cells |-> IF c \in DOMAIN b THEN mem[c] \cap b[c] ELSE mem[c]]
  /\ \A x : op = StatusOp(x) => Done(op) = mem
  <1>1. op = None => Done(op) = mem
    BY DEF Done, None
  <1>2. ASSUME NEW S, op = EraseOp(S)
        PROVE  Done(op) = [c \in Cells |-> IF c \in S THEN Bits ELSE mem[c]]
    <2>1. op.kind = "erase" /\ op.cells = S
      BY <1>2 DEF EraseOp
    <2> QED BY <2>1 DEF Done
  <1>3. ASSUME NEW b, op = ProgramOp(b)
        PROVE  Done(op) = [c \in Cells |-> IF c \in DOMAIN b THEN mem[c] \cap b[c] ELSE mem[c]]
    <2>1. op.kind = "program" /\ op.bytes = b
      BY <1>3 DEF ProgramOp
    <2> QED BY <2>1 DEF Done
  <1>4. ASSUME NEW x, op = StatusOp(x) PROVE Done(op) = mem
    <2>1. op.kind = "status"
      BY <1>4 DEF StatusOp
    <2> QED BY <2>1 DEF Done
  <1> QED BY <1>1, <1>2, <1>3, <1>4, Zenon

LEMMA DoneNext ==
  /\ op' = None => Done(op)' = mem'
  /\ \A S : op' = EraseOp(S) => Done(op)' = [c \in Cells |-> IF c \in S THEN Bits ELSE mem'[c]]
  /\ \A b : op' = ProgramOp(b) => Done(op)' = [c \in Cells |-> IF c \in DOMAIN b THEN mem'[c] \cap b[c] ELSE mem'[c]]
  /\ \A x : op' = StatusOp(x) => Done(op)' = mem'
  <1>1. op' = None => Done(op)' = mem'
    BY DEF Done, None
  <1>2. ASSUME NEW S, op' = EraseOp(S)
        PROVE  Done(op)' = [c \in Cells |-> IF c \in S THEN Bits ELSE mem'[c]]
    <2>1. op'.kind = "erase" /\ op'.cells = S
      BY <1>2 DEF EraseOp
    <2> QED BY <2>1 DEF Done
  <1>3. ASSUME NEW b, op' = ProgramOp(b)
        PROVE  Done(op)' = [c \in Cells |-> IF c \in DOMAIN b THEN mem'[c] \cap b[c] ELSE mem'[c]]
    <2>1. op'.kind = "program" /\ op'.bytes = b
      BY <1>3 DEF ProgramOp
    <2> QED BY <2>1 DEF Done
  <1>4. ASSUME NEW x, op' = StatusOp(x) PROVE Done(op)' = mem'
    <2>1. op'.kind = "status"
      BY <1>4 DEF StatusOp
    <2> QED BY <2>1 DEF Done
  <1> QED BY <1>1, <1>2, <1>3, <1>4, Zenon

LEMMA Accepting ==
  ASSUME QuadTaken, op = None, NEW o
  PROVE  Accepted(o) = o
  BY DEF QuadTaken, Accepted, None

(* A caller that polls finds the array as the callers want it.             *)
LEMMA AtRest ==
  ASSUME FlashIInv, Polls = "always", Idle
  PROVE  op = None /\ mem = want /\ pc = "idle"
  <1>1. op = None /\ pc = "idle"
    BY DEF Idle
  <1>2. Between
    BY <1>1 DEF FlashIInv, WriteInv, DirectInv
  <1> QED BY <1>1, <1>2, DoneNow DEF Between

-----------------------------------------------------------------------------
(* Calls that start when the driver is idle.                               *)

LEMMA Starting == PInit => FlashIInv
  <1> SUFFICES ASSUME PInit PROVE FlashIInv
    OBVIOUS
  <1> USE DEF PInit, Init
  <1>1. FlashTypeOK
    BY W25qxxAssumption DEF FlashTypeOK, IsOp, Byte
  <1>2. StageOK
    BY DEF StageOK
  <1>3. QuadTaken /\ OthersKept
    BY DEF QuadTaken, OthersKept, None
  <1>4. Between
    BY DoneNow DEF Between
  <1> QED BY <1>1, <1>2, <1>3, <1>4 DEF FlashIInv

LEMMA EraseKeeps ==
  ASSUME FlashIInv, Polls = "always", NEW S, Erase(S, S), StageOK'
  PROVE  FlashIInv'
  <1>1. op = None /\ mem = want /\ pc = "idle"
    BY AtRest DEF Erase
  <1>2. mem \in [Cells -> Byte] /\ QuadTaken /\ FlashTypeOK
    BY DEF FlashIInv, FlashTypeOK
  <1>3. op' = EraseOp(S)
    BY <1>1, <1>2, Accepting DEF Erase
  <1>4. op'.kind = "erase" /\ op'.cells = S
    BY <1>3 DEF EraseOp
  <1>5. /\ mem' = mem /\ qe' = qe /\ mode' = mode /\ pc' = pc
        /\ want' = [c \in Cells |-> IF c \in S THEN Bits ELSE want[c]]
        /\ call' = S /\ swept' = {}
    BY DEF Erase
  <1>6. FlashTypeOK'
    <2>1. want' \in [Cells -> Byte]
      BY <1>1, <1>2, <1>5 DEF Byte
    <2>2. IsOp(op')
      BY <1>3, <1>4 DEF IsOp
    <2> QED BY <1>2, <1>5, <2>1, <2>2 DEF FlashTypeOK
  <1>7. QuadTaken'
    BY <1>1, <1>2, <1>4, <1>5 DEF QuadTaken, None
  <1>8. OthersKept'
    BY <1>1, <1>4, <1>5 DEF OthersKept
  <1>9. Between'
    <2>1. Done(op)' = [c \in Cells |-> IF c \in S THEN Bits ELSE mem'[c]]
      BY <1>3, DoneNext
    <2> QED BY <1>1, <1>5, <2>1 DEF Between
  <1> QED BY <1>6, <1>7, <1>8, <1>9 DEF FlashIInv

LEMMA SetQuadKeeps ==
  ASSUME FlashIInv, Polls = "always", NEW bit \in {"on", "off"}, NEW m \in {"standard", "quad"},
         m = "quad" => bit = "on", SetQuad(bit, m), StageOK'
  PROVE  FlashIInv'
  <1>1. op = None /\ mem = want /\ pc = "idle"
    BY AtRest DEF SetQuad
  <1>2. QuadTaken /\ FlashTypeOK
    BY DEF FlashIInv
  <1>3. /\ op' = IF qe = bit THEN None ELSE StatusOp(bit)
        /\ mode' = m /\ mem' = mem /\ qe' = qe /\ pc' = pc /\ want' = want
    BY <1>1, <1>2, Accepting DEF SetQuad, history
  <1>4. op'.kind = IF qe = bit THEN "none" ELSE "status"
    BY <1>3 DEF None, StatusOp
  <1>5. qe # bit => op'.bit = bit
    BY <1>3 DEF StatusOp
  <1>6. FlashTypeOK'
    <2>1. IsOp(op')
      BY <1>3, <1>4, <1>5 DEF IsOp
    <2> QED BY <1>2, <1>3, <2>1 DEF FlashTypeOK
  <1>7. QuadTaken'
    BY <1>3, <1>4, <1>5 DEF QuadTaken
  <1>8. OthersKept'
    BY <1>1, <1>3, <1>4 DEF OthersKept
  <1>9. Between'
    BY <1>1, <1>3, DoneNext DEF Between
  <1> QED BY <1>6, <1>7, <1>8, <1>9 DEF FlashIInv

(* The chip has room for the bytes to write.                               *)
Fits(w) ==
  /\ w.addr \in Nat /\ w.data \in Seq(Byte) /\ Len(w.data) > 0
  /\ w.addr + Len(w.data) <= Size

LEMMA CallersFit == \A w \in Writes : Fits(w)
  <1> SUFFICES ASSUME NEW w \in Writes PROVE Fits(w)
    OBVIOUS
  <1>1. w.addr \in Cells /\ w.data \in Seq(Byte) /\ w.data # <<>> /\ w.addr + Len(w.data) <= Size
    BY W25qxxAssumption
  <1>2. w.addr \in Nat
    BY <1>1, Sizes DEF Cells
  <1>3. Len(w.data) > 0
    BY <1>1, EmptySeq, LenProperties
  <1> QED BY <1>1, <1>2, <1>3 DEF Fits

LEMMA OverlayTyped ==
  ASSUME want \in [Cells -> Byte], NEW w, Fits(w), NEW c \in Extent(w.addr, Len(w.data))
  PROVE  w.data[c - w.addr + 1] \in Byte
  <1>1. PICK n \in Nat, a \in Nat : n = Len(w.data) /\ a = w.addr
    BY LenProperties DEF Fits
  <1>2. c - a + 1 \in 1 .. n
    BY <1>1 DEF Extent
  <1> QED BY <1>1, <1>2, ElementOfSeq DEF Fits

LEMMA WriteStarts ==
  ASSUME FlashIInv, Polls = "always", NEW w, Fits(w), Enter("sector", w, Replace), StageOK'
  PROVE  FlashIInv'
  <1>1. op = None /\ mem = want /\ pc = "idle"
    BY AtRest DEF Enter
  <1>2. FlashTypeOK /\ QuadTaken
    BY DEF FlashIInv
  <1>3. /\ pc' = "sector" /\ addr' = w.addr /\ data' = w.data
        /\ want' = [c \in Cells |-> IF c \in Extent(w.addr, Len(w.data))
                                    THEN w.data[c - w.addr + 1] ELSE want[c]]
        /\ call' = Extent(w.addr, Len(w.data)) /\ swept' = {}
        /\ mem' = mem /\ qe' = qe /\ op' = op /\ mode' = mode
    BY DEF Enter, Overlay, Replace, chip
  <1>4. FlashTypeOK'
    <2>1. want' \in [Cells -> Byte]
      BY <1>2, <1>3, OverlayTyped DEF FlashTypeOK
    <2> QED BY <1>2, <1>3, <2>1 DEF FlashTypeOK
  <1>5. QuadTaken' /\ op'.kind = "none"
    BY <1>1, <1>2, <1>3 DEF QuadTaken, None
  <1>6. OthersKept'
    BY <1>1, <1>3, <1>5 DEF OthersKept
  <1>7. Rest' = Extent(w.addr, Len(w.data))
    BY <1>3 DEF Rest
  <1>8. During'
    BY <1>3, <1>5, <1>7 DEF During, Fits
  <1>9. ASSUME NEW i \in 1 .. Len(data') PROVE data'[i] = want'[addr' + i - 1]
    <2>1. PICK n \in Nat, a \in Nat : n = Len(w.data) /\ a = w.addr
      BY LenProperties DEF Fits
    <2>2. a + n <= Size /\ i \in 1 .. n
      BY <1>3, <2>1 DEF Fits
    <2>3. a + i - 1 \in Extent(a, n) /\ a + i - 1 \in Cells /\ a + i - 1 - a + 1 = i
      BY <2>2, Sizes DEF Extent, Cells
    <2> QED BY <1>3, <2>1, <2>3
  <1>10. ASSUME NEW c \in Cells, c \notin Rest' PROVE mem'[c] = want'[c]
    BY <1>1, <1>3, <1>7, <1>10
  <1>11. Writing'
    BY <1>8, <1>9, <1>10 DEF Writing
  <1>12. Here' \subseteq Cells
    <2>1. w.addr \in Nat /\ w.addr < Size
      BY Sizes, LenProperties DEF Fits
    <2>2. PICK b \in Nat : b = AlignDown(w.addr, SectorSize) /\ b + SectorSize <= Size
      BY <2>1, Sizes, Aligning, SectorFits
    <2>3. Here' = Extent(b, SectorSize)
      BY <1>3, <2>2 DEF Here, sector_addr
    <2> QED BY <2>2, <2>3, Sizes DEF Extent, Cells
  <1>13. WriteInv'
    BY <1>1, <1>3, <1>10, <1>12 DEF WriteInv
  <1> QED BY <1>4, <1>5, <1>6, <1>11, <1>13 DEF FlashIInv

LEMMA PullTyped ==
  ASSUME want \in [Cells -> Byte], NEW w, Fits(w)
  PROVE  [c \in Cells |-> IF c \in Extent(w.addr, Len(w.data))
                          THEN want[c] \cap w.data[c - w.addr + 1] ELSE want[c]] \in [Cells -> Byte]
  BY DEF Byte

LEMMA DirectStarts ==
  ASSUME FlashIInv, Polls = "always", NEW w, Fits(w), Enter("direct", w, Pull), StageOK'
  PROVE  FlashIInv'
  <1>1. op = None /\ mem = want /\ pc = "idle"
    BY AtRest DEF Enter
  <1>2. FlashTypeOK /\ QuadTaken
    BY DEF FlashIInv
  <1>3. /\ pc' = "direct" /\ addr' = w.addr /\ data' = w.data
        /\ want' = [c \in Cells |-> IF c \in Extent(w.addr, Len(w.data))
                                    THEN want[c] \cap w.data[c - w.addr + 1] ELSE want[c]]
        /\ call' = Extent(w.addr, Len(w.data)) /\ swept' = {}
        /\ mem' = mem /\ qe' = qe /\ op' = op /\ mode' = mode
    BY DEF Enter, Overlay, Pull, chip
  <1>4. FlashTypeOK'
    BY <1>2, <1>3, PullTyped DEF FlashTypeOK
  <1>5. QuadTaken' /\ op'.kind = "none"
    BY <1>1, <1>2, <1>3 DEF QuadTaken, None
  <1>6. OthersKept'
    BY <1>1, <1>3, <1>5 DEF OthersKept
  <1>7. Rest' = Extent(w.addr, Len(w.data))
    BY <1>3 DEF Rest
  <1>8. During'
    BY <1>3, <1>5, <1>7 DEF During, Fits
  <1>9. Directing(0)'
    <2> SUFFICES ASSUME NEW c \in Cells
                 PROVE  want'[c] = IF c \in Rest' /\ c >= addr' + 0
                                   THEN mem'[c] \cap data'[c - addr' + 1] ELSE mem'[c]
      BY DEF Directing
    <2>1. c \in Rest' => c >= addr' + 0
      <3>1. PICK n \in Nat, a \in Nat : n = Len(w.data) /\ a = w.addr
        BY LenProperties DEF Fits
      <3> QED BY <1>3, <1>7, <3>1 DEF Extent
    <2> QED BY <1>1, <1>3, <1>7, <2>1
  <1>10. DirectInv'
    BY <1>1, <1>3, <1>9 DEF DirectInv
  <1> QED BY <1>4, <1>5, <1>6, <1>8, <1>10 DEF FlashIInv

LEMMA PageStarts ==
  ASSUME FlashIInv, Polls = "always", NEW w, Fits(w), w25qxx_page_program_fun(w), StageOK'
  PROVE  FlashIInv'
  <1>1. op = None /\ mem = want /\ pc = "idle"
    BY AtRest DEF w25qxx_page_program_fun
  <1>2. FlashTypeOK /\ QuadTaken
    BY DEF FlashIInv
  <1>3. /\ want' = [c \in Cells |-> IF c \in Extent(w.addr, Len(w.data))
                                    THEN want[c] \cap w.data[c - w.addr + 1] ELSE want[c]]
        /\ call' = Extent(w.addr, Len(w.data)) /\ swept' = {}
        /\ mem' = mem /\ qe' = qe /\ mode' = mode /\ pc' = pc
    BY DEF w25qxx_page_program_fun, Overlay, Pull
  <1>4. PICK b : b = [c \in Extent(w.addr, Len(w.data)) |-> w.data[c - w.addr + 1]]
    OBVIOUS
  <1>5. op' = ProgramOp(b)
    <2>1. op' = ProgramOp(ProgramBytes(w.addr, w.data))
      BY <1>1, <1>2, Accepting DEF w25qxx_page_program_fun
    <2>2. (w.addr % PageSize) + Len(w.data) <= PageSize
      BY DEF w25qxx_page_program_fun
    <2>3. ProgramBytes(w.addr, w.data) = b
      BY <1>4, <2>2, WithinPage DEF Fits
    <2> QED BY <2>1, <2>3
  <1>6. op'.kind = "program" /\ op'.bytes = b
    BY <1>5 DEF ProgramOp
  <1>7. FlashTypeOK'
    <2>1. IsOp(op')
      BY <1>5, <1>6 DEF IsOp
    <2>2. want' \in [Cells -> Byte]
      BY <1>2, <1>3, PullTyped DEF FlashTypeOK
    <2> QED BY <1>2, <1>3, <2>1, <2>2 DEF FlashTypeOK
  <1>8. QuadTaken'
    BY <1>1, <1>2, <1>3, <1>6 DEF QuadTaken, None
  <1>9. DOMAIN b = call'
    BY <1>3, <1>4
  <1>10. OthersKept'
    BY <1>1, <1>3, <1>6, <1>9 DEF OthersKept
  <1>11. Between'
    <2>1. Done(op)' = [c \in Cells |-> IF c \in DOMAIN b THEN mem'[c] \cap b[c] ELSE mem'[c]]
      BY <1>5, DoneNext
    <2>2. \A c \in call' : b[c] = w.data[c - w.addr + 1]
      BY <1>3, <1>4
    <2>3. Done(op)' = want'
      BY <1>1, <1>3, <1>9, <2>1, <2>2
    <2> QED BY <1>1, <1>3, <2>3 DEF Between
  <1> QED BY <1>7, <1>8, <1>10, <1>11 DEF FlashIInv

LEMMA PowerLossKeeps ==
  ASSUME FlashIInv, PowerLoss, StageOK'
  PROVE  FlashIInv'
  <1>1. /\ mem' \in Torn(op) /\ op' = None /\ mode' = "standard" /\ pc' = "idle"
        /\ want' = mem' /\ qe' = qe
    BY DEF PowerLoss
  <1>2. mem' \in [Cells -> Byte]
    BY <1>1 DEF Torn
  <1>3. FlashTypeOK'
    BY <1>1, <1>2 DEF FlashIInv, FlashTypeOK, IsOp
  <1>4. QuadTaken' /\ OthersKept'
    BY <1>1 DEF QuadTaken, OthersKept, None
  <1>5. Between'
    BY <1>1, DoneNext DEF Between
  <1> QED BY <1>3, <1>4, <1>5 DEF FlashIInv

-----------------------------------------------------------------------------
(* The loops of w25qxx_write_data and w25qxx_write_data_direct.            *)

(* The bytes of one round: they lie in one sector or page, and unless they *)
(* are the last ones they reach its end.                                   *)
LEMMA OneRound ==
  ASSUME During, NEW k \in Nat \ {0}
  PROVE  /\ WriteLen(k) \in 1 .. Len(data)
         /\ AlignDown(addr, k) \in Nat /\ AlignDown(addr, k) <= addr
         /\ addr + WriteLen(k) <= AlignDown(addr, k) + k
         /\ WriteLen(k) < Len(data) => addr + WriteLen(k) = AlignDown(addr, k) + k
         /\ (addr % k) + WriteLen(k) <= k
  <1>1. addr \in Nat /\ Len(data) \in Nat /\ Len(data) > 0
    BY LenProperties DEF During
  <1>2. PICK b \in Nat : b = AlignDown(addr, k) /\ b <= addr /\ addr < b + k /\ addr % k = addr - b
    BY <1>1, Aligning
  <1>3. WriteLen(k) = IF Len(data) < k - (addr - b) THEN Len(data) ELSE k - (addr - b)
    BY <1>2 DEF WriteLen
  <1>4. PICK n : n = WriteLen(k)
    OBVIOUS
  <1>5. /\ n \in 1 .. Len(data)
        /\ addr + n <= b + k
        /\ n < Len(data) => addr + n = b + k
        /\ (addr - b) + n <= k
    <2>0. b <= addr /\ addr < b + k
      BY <1>2
    <2>1. CASE Len(data) < k - (addr - b)
      <3>1. n = Len(data)
        BY <1>3, <1>4, <2>1
      <3> QED BY <1>1, <2>0, <2>1, <3>1
    <2>2. CASE ~ (Len(data) < k - (addr - b))
      <3>1. n = k - (addr - b)
        BY <1>3, <1>4, <2>2
      <3>2. n \in Nat /\ n > 0 /\ n <= Len(data) /\ addr + n = b + k /\ (addr - b) + n = k
        BY <1>1, <2>0, <2>2, <3>1
      <3> QED BY <1>1, <3>2
    <2> QED BY <2>1, <2>2
  <1> QED BY <1>2, <1>4, <1>5, Zenon

LEMMA SectorBounds ==
  ASSUME During
  PROVE  /\ sector_addr \in Nat /\ sector_addr <= addr /\ sector_addr + SectorSize <= Size
         /\ addr < sector_addr + SectorSize
         /\ Here \subseteq Cells /\ Rest \subseteq Cells
         /\ \A c \in Cells : c \in Here <=> sector_addr <= c /\ c < sector_addr + SectorSize
         /\ \A c \in Cells : c \in Rest <=> addr <= c /\ c < addr + Len(data)
  <1>1. addr \in Nat /\ Len(data) \in Nat /\ Len(data) > 0 /\ addr + Len(data) <= Size
    BY LenProperties DEF During
  <1>2. PICK b \in Nat : b = sector_addr /\ b <= addr /\ b + SectorSize <= Size /\ addr < b + SectorSize
    <2>1. addr < Size /\ SectorSize \in Nat \ {0}
      BY <1>1, Sizes
    <2> QED BY <1>1, <2>1, Aligning, SectorFits DEF sector_addr
  <1>3. Here = Extent(b, SectorSize)
    BY <1>2 DEF Here
  <1>4. Here \subseteq Cells /\ Rest \subseteq Cells
    BY <1>1, <1>2, <1>3, Sizes DEF Extent, Cells, Rest
  <1>5. \A c \in Cells : c \in Here <=> b <= c /\ c < b + SectorSize
    BY <1>2, <1>3, Sizes DEF Extent, Cells
  <1>6. \A c \in Cells : c \in Rest <=> addr <= c /\ c < addr + Len(data)
    BY <1>1, Sizes DEF Extent, Cells, Rest
  <1> QED BY <1>2, <1>4, <1>5, <1>6

LEMMA ReadSectorKeeps ==
  ASSUME FlashIInv, ReadSector, StageOK'
  PROVE  FlashIInv'
  <1>1. pc = "sector"
    BY DEF ReadSector
  <1>2. FlashTypeOK /\ QuadTaken /\ OthersKept /\ Writing /\ WriteInv
    BY <1>1 DEF FlashIInv, Between, DirectInv
  <1>3. op = None /\ swept = {} /\ \A c \in Here \ Rest : mem[c] = want[c]
    BY <1>1, <1>2 DEF WriteInv
  <1>4. /\ During /\ \A i \in 1 .. Len(data) : data[i] = want[addr + i - 1]
        /\ \A c \in Cells \ (Rest \cup Here) : mem[c] = want[c]
    BY <1>2 DEF Writing
  <1>5. PICK n \in Nat : n = WriteLen(SectorSize) /\ n \in 1 .. Len(data)
    <2>1. SectorSize \in Nat \ {0}
      BY Sizes
    <2>2. WriteLen(SectorSize) \in 1 .. Len(data)
      BY <1>4, <2>1, OneRound
    <2>3. Len(data) \in Nat
      BY <1>4, LenProperties DEF During
    <2> QED BY <2>2, <2>3
  <1>6. addr + n <= sector_addr + SectorSize
        /\ (n < Len(data) => addr + n = sector_addr + SectorSize)
    BY <1>4, <1>5, Sizes, OneRound DEF sector_addr
  <1>7. PICK seen \in Seen(mode, Here) :
           buf' = Merge(seen) /\ pc' = IF EraseNeeded(seen) THEN "erase" ELSE "program"
    BY DEF ReadSector, Here
  <1>8. seen = [c \in Here |-> mem[c]]
    BY <1>2, <1>3 DEF Seen, QuadTaken, None
  <1>9. /\ mem' = mem /\ qe' = qe /\ op' = op /\ mode' = mode /\ addr' = addr /\ data' = data
        /\ want' = want /\ call' = call /\ swept' = swept /\ page' = 0
    BY DEF ReadSector, chip, history
  <1>10. FlashTypeOK' /\ QuadTaken' /\ OthersKept'
    BY <1>2, <1>9 DEF FlashTypeOK, QuadTaken, OthersKept
  <1>11. Rest' = Rest /\ Here' = Here /\ sector_addr' = sector_addr
    BY <1>9 DEF Rest, Here, sector_addr
  <1>12. Writing'
    BY <1>2, <1>9, <1>11 DEF Writing, During
  <1>13. addr \in Nat /\ Len(data) \in Nat
    BY <1>4, LenProperties DEF During
  <1>14. /\ Here \subseteq Cells /\ sector_addr \in Nat
         /\ \A c \in Cells : c \in Here <=> sector_addr <= c /\ c < sector_addr + SectorSize
         /\ \A c \in Cells : c \in Rest <=> addr <= c /\ c < addr + Len(data)
    BY <1>4, SectorBounds
  <1>15. \A c \in Here : c \in Int
    BY <1>14, Sizes DEF Cells
  <1>16. \A c \in Here : c \in Extent(addr, n) <=> addr <= c /\ c < addr + n
    BY <1>13, <1>15 DEF Extent
  <1>17. ASSUME NEW c \in Here PROVE c \in Extent(addr, n) <=> c \in Rest
    BY <1>5, <1>6, <1>13, <1>14, <1>15, <1>16, Sizes
  <1>18. ASSUME NEW c \in Here, c \in Extent(addr, n) PROVE data[c - addr + 1] = want[c]
    <2>1. c - addr + 1 \in 1 .. Len(data) /\ addr + (c - addr + 1) - 1 = c
      BY <1>5, <1>13, <1>15, <1>16, <1>18
    <2> QED BY <1>4, <2>1
  <1>19. Merged'
    <2> SUFFICES ASSUME NEW c \in Here PROVE buf'[c] = want[c]
      BY <1>9, <1>11 DEF Merged
    <2>1. buf'[c] = IF c \in Extent(addr, n) THEN data[c - addr + 1] ELSE mem[c]
      BY <1>5, <1>7, <1>8 DEF Merge
    <2> QED BY <1>3, <1>17, <1>18, <2>1
  <1>20. CASE EraseNeeded(seen)
    <2>1. PICK i \in 1 .. n : data[i] # data[i] \cap seen[addr + i - 1]
      BY <1>5, <1>20 DEF EraseNeeded
    <2>2. PICK c : c = addr + i - 1
      OBVIOUS
    <2>3. c \in Cells /\ c \in Here /\ c \in Rest /\ i \in 1 .. Len(data)
      <3>1. c \in Int /\ sector_addr <= c /\ c < sector_addr + SectorSize
        BY <1>4, <1>5, <1>6, <1>13, <1>14, <2>2, SectorBounds, Sizes
      <3>2. c \in Cells
        BY <1>4, <1>14, <3>1, SectorBounds, Sizes DEF Cells
      <3> QED BY <1>5, <1>13, <1>14, <2>2, <3>1, <3>2
    <2>4. data[i] = want[c] /\ seen[c] = mem[c] /\ c \in call
      BY <1>4, <1>8, <2>2, <2>3 DEF During
    <2>5. ~ (want[c] \subseteq mem[c])
      BY <2>1, <2>2, <2>4
    <2>6. WriteInv'
      BY <1>3, <1>7, <1>9, <1>11, <1>19, <1>20, <2>3, <2>4, <2>5 DEF WriteInv
    <2> QED BY <1>10, <1>12, <2>6 DEF FlashIInv
  <1>21. CASE ~ EraseNeeded(seen)
    <2>1. ASSUME NEW c \in Here PROVE want[c] \subseteq mem[c]
      <3>1. CASE c \in Rest
        <4>1. c \in Extent(addr, n)
          BY <1>17, <3>1
        <4>2. PICK i \in 1 .. n : i = c - addr + 1 /\ addr + i - 1 = c
          BY <1>13, <1>15, <1>16, <4>1
        <4>3. data[i] = data[i] \cap seen[addr + i - 1]
          BY <1>5, <1>21 DEF EraseNeeded
        <4>4. data[i] = want[c] /\ seen[c] = mem[c]
          BY <1>8, <1>18, <4>1, <4>2
        <4> QED BY <4>2, <4>3, <4>4
      <3>2. CASE c \notin Rest
        BY <1>3, <3>2
      <3> QED BY <3>1, <3>2
    <2>2. PageAddr' = sector_addr
      BY <1>9, <1>11, <1>14, W25qxxAssumption DEF PageAddr
    <2>3. ProgrammedTo(PageAddr)'
      <3> SUFFICES ASSUME NEW c \in Here
                   PROVE  IF c < sector_addr THEN mem[c] = want[c] ELSE want[c] \subseteq mem[c]
        BY <1>9, <1>11, <2>2 DEF ProgrammedTo
      <3> QED BY <1>14, <1>15, <2>1
    <2>4. page' \in 0 .. SectorPages - 1
      BY <1>9, W25qxxAssumption
    <2>5. WriteInv'
      BY <1>3, <1>7, <1>9, <1>19, <1>21, <2>3, <2>4 DEF WriteInv
    <2> QED BY <1>10, <1>12, <2>5 DEF FlashIInv
  <1> QED BY <1>20, <1>21

LEMMA EraseSectorKeeps ==
  ASSUME FlashIInv, EraseSector, StageOK'
  PROVE  FlashIInv'
  <1>1. pc = "erase"
    BY DEF EraseSector
  <1>2. FlashTypeOK /\ QuadTaken /\ OthersKept /\ Writing /\ WriteInv
    BY <1>1 DEF FlashIInv, Between, DirectInv
  <1>3. op = None /\ Merged /\ page = 0
    BY <1>1, <1>2 DEF WriteInv
  <1>4. op' = EraseOp(Here)
    BY <1>2, <1>3, Accepting DEF EraseSector, Here
  <1>5. op'.kind = "erase" /\ op'.cells = Here
    BY <1>4 DEF EraseOp
  <1>6. /\ swept' = Here /\ pc' = "erase_busy" /\ mem' = mem /\ qe' = qe /\ mode' = mode
        /\ addr' = addr /\ data' = data /\ buf' = buf /\ page' = page /\ want' = want /\ call' = call
    BY DEF EraseSector, Here, loop
  <1>7. Rest' = Rest /\ Here' = Here
    BY <1>6 DEF Rest, Here, sector_addr
  <1>8. FlashTypeOK'
    <2>1. IsOp(op')
      BY <1>4, <1>5 DEF IsOp
    <2> QED BY <1>2, <1>6, <2>1 DEF FlashTypeOK
  <1>9. QuadTaken'
    BY <1>2, <1>3, <1>5, <1>6 DEF QuadTaken, None
  <1>10. OthersKept'
    <2> SUFFICES ASSUME NEW c \in Cells, c \notin call, c \notin Here
                 PROVE  mem[c] = want[c]
      BY <1>5, <1>6 DEF OthersKept
    <2>1. c \notin Rest
      BY <1>2 DEF Writing, During
    <2> QED BY <1>2, <2>1 DEF Writing
  <1>11. Writing'
    BY <1>2, <1>5, <1>6, <1>7 DEF Writing, During
  <1>12. WriteInv'
    BY <1>3, <1>4, <1>6, <1>7 DEF WriteInv, Merged
  <1> QED BY <1>8, <1>9, <1>10, <1>11, <1>12 DEF FlashIInv

LEMMA PollEraseKeeps ==
  ASSUME FlashIInv, PollErase, StageOK'
  PROVE  FlashIInv'
  <1>1. pc = "erase_busy" /\ op = None
    BY DEF PollErase
  <1>2. FlashTypeOK /\ QuadTaken /\ OthersKept /\ Writing /\ WriteInv
    BY <1>1 DEF FlashIInv, Between, DirectInv
  <1>3. Merged /\ page = 0 /\ \A c \in Here : mem[c] = Bits
    BY <1>1, <1>2 DEF WriteInv, None, EraseOp
  <1>4. /\ pc' = "program" /\ mem' = mem /\ qe' = qe /\ op' = op /\ mode' = mode
        /\ addr' = addr /\ data' = data /\ buf' = buf /\ page' = page
        /\ want' = want /\ call' = call /\ swept' = swept
    BY DEF PollErase, chip, loop, history
  <1>5. Rest' = Rest /\ Here' = Here /\ sector_addr' = sector_addr
    BY <1>4 DEF Rest, Here, sector_addr
  <1>6. FlashTypeOK' /\ QuadTaken' /\ OthersKept'
    BY <1>2, <1>4 DEF FlashTypeOK, QuadTaken, OthersKept
  <1>7. Writing'
    BY <1>2, <1>4, <1>5 DEF Writing, During
  <1>8. During
    BY <1>2 DEF Writing
  <1>9. /\ sector_addr \in Nat /\ Here \subseteq Cells
        /\ \A c \in Here : sector_addr <= c /\ c \in Int
    BY <1>8, SectorBounds, Sizes DEF Cells
  <1>10. PageAddr' = sector_addr
    BY <1>3, <1>4, <1>5, <1>9, W25qxxAssumption DEF PageAddr
  <1>11. ProgrammedTo(PageAddr)'
    <2> SUFFICES ASSUME NEW c \in Here
                 PROVE  ~ (c < sector_addr) /\ want[c] \subseteq mem[c]
      BY <1>4, <1>5, <1>10 DEF ProgrammedTo
    <2>1. want[c] \subseteq Bits
      BY <1>2, <1>9 DEF FlashTypeOK, Byte
    <2> QED BY <1>3, <1>9, <2>1
  <1>12. page' \in 0 .. SectorPages - 1
    BY <1>3, <1>4, W25qxxAssumption
  <1>13. WriteInv'
    BY <1>1, <1>3, <1>4, <1>5, <1>11, <1>12 DEF WriteInv, Merged
  <1> QED BY <1>6, <1>7, <1>13 DEF FlashIInv

(* The pages of a sector.                                                  *)
LEMMA PageBounds ==
  ASSUME During, page \in 0 .. SectorPages - 1
  PROVE  /\ PageAddr \in Nat /\ sector_addr <= PageAddr
         /\ PageAddr + PageSize <= sector_addr + SectorSize
         /\ page = SectorPages - 1 => PageAddr + PageSize = sector_addr + SectorSize
         /\ sector_addr + (page + 1) * PageSize = PageAddr + PageSize
  <1> USE W25qxxAssumption
  <1>1. PICK b \in Nat : b = sector_addr
    BY SectorBounds
  <1>2. PageAddr = b + PageSize * page /\ SectorSize = PageSize * SectorPages
    BY <1>1 DEF PageAddr, SectorSize
  <1>3. PageSize * page + PageSize <= PageSize * SectorPages
    BY ProductsInOrder
  <1>4. (page + 1) * PageSize = PageSize * page + PageSize /\ PageSize * page \in Nat
    OBVIOUS
  <1>5. page = SectorPages - 1 => PageSize * page + PageSize = PageSize * SectorPages
    OBVIOUS
  <1>6. PageSize * SectorPages \in Nat
    OBVIOUS
  <1> QED BY <1>1, <1>2, <1>3, <1>4, <1>5, <1>6

LEMMA ProgramPageKeeps ==
  ASSUME FlashIInv, ProgramPage, StageOK'
  PROVE  FlashIInv'
  <1>1. pc = "program"
    BY DEF ProgramPage
  <1>2. FlashTypeOK /\ QuadTaken /\ OthersKept /\ Writing /\ WriteInv
    BY <1>1 DEF FlashIInv, Between, DirectInv
  <1>3. op = None /\ Merged /\ page \in 0 .. SectorPages - 1 /\ ProgrammedTo(PageAddr)
    BY <1>1, <1>2 DEF WriteInv
  <1>4. PICK b : b = [c \in Extent(PageAddr, PageSize) |-> buf[c]]
    OBVIOUS
  <1>5. op' = ProgramOp(b)
    BY <1>2, <1>3, <1>4, Accepting DEF ProgramPage
  <1>6. op'.kind = "program" /\ op'.bytes = b /\ DOMAIN b = Extent(PageAddr, PageSize)
    BY <1>4, <1>5 DEF ProgramOp
  <1>7. /\ pc' = "page_busy" /\ mem' = mem /\ qe' = qe /\ mode' = mode
        /\ addr' = addr /\ data' = data /\ buf' = buf /\ page' = page
        /\ want' = want /\ call' = call /\ swept' = swept
    BY DEF ProgramPage, loop, history
  <1>8. Rest' = Rest /\ Here' = Here /\ sector_addr' = sector_addr /\ PageAddr' = PageAddr
    BY <1>7 DEF Rest, Here, sector_addr, PageAddr
  <1>9. Extent(PageAddr, PageSize) \subseteq Here
    <2>1. During
      BY <1>2 DEF Writing
    <2>2. PICK p \in Nat, s \in Nat : p = PageAddr /\ s = sector_addr
      BY <1>3, <2>1, PageBounds, SectorBounds
    <2>3. s <= p /\ p + PageSize <= s + SectorSize
      BY <1>3, <2>1, <2>2, PageBounds
    <2>4. Extent(p, PageSize) \subseteq Extent(s, SectorSize)
      BY <2>3, Sizes, W25qxxAssumption DEF Extent
    <2> QED BY <2>2, <2>4 DEF Here
  <1>10. FlashTypeOK'
    <2>1. IsOp(op')
      BY <1>5, <1>6 DEF IsOp
    <2> QED BY <1>2, <1>7, <2>1 DEF FlashTypeOK
  <1>11. QuadTaken'
    BY <1>2, <1>3, <1>6, <1>7 DEF QuadTaken, None
  <1>12. OthersKept'
    <2>1. \A c \in DOMAIN b : b[c] = want[c]
      BY <1>3, <1>4, <1>6, <1>9 DEF Merged
    <2> QED BY <1>2, <1>6, <1>7, <2>1 DEF OthersKept
  <1>13. Writing'
    BY <1>2, <1>6, <1>7, <1>8 DEF Writing, During
  <1>14. ProgrammedTo(PageAddr)' /\ Merged'
    BY <1>3, <1>7, <1>8 DEF ProgrammedTo, Merged
  <1>15. op' = ProgramOp([c \in Extent(PageAddr', PageSize) |-> buf'[c]])
    BY <1>4, <1>5, <1>7, <1>8
  <1>16. WriteInv'
    BY <1>3, <1>7, <1>14, <1>15 DEF WriteInv
  <1> QED BY <1>10, <1>11, <1>12, <1>13, <1>16 DEF FlashIInv

(* The buffer after the bytes of a round.                                  *)
LEMMA Dropping ==
  ASSUME NEW d \in Seq(Byte), NEW n \in Nat, n < Len(d)
  PROVE  /\ SubSeq(d, n + 1, Len(d)) \in Seq(Byte)
         /\ Len(SubSeq(d, n + 1, Len(d))) = Len(d) - n
         /\ \A i \in 1 .. Len(d) - n : SubSeq(d, n + 1, Len(d))[i] = d[n + i]
  <1>1. PICK l \in Nat : l = Len(d)
    BY LenProperties
  <1>2. \A i \in n + 1 .. l : d[i] \in Byte
    <2>1. \A i \in n + 1 .. l : i \in 1 .. Len(d)
      BY <1>1
    <2> QED BY <2>1, ElementOfSeq
  <1>3. /\ SubSeq(d, n + 1, l) \in Seq(Byte)
        /\ Len(SubSeq(d, n + 1, l)) = IF n + 1 <= l THEN l - (n + 1) + 1 ELSE 0
        /\ \A i \in 1 .. l - (n + 1) + 1 : SubSeq(d, n + 1, l)[i] = d[(n + 1) + i - 1]
    BY <1>1, <1>2, SubSeqProperties
  <1>4. (IF n + 1 <= l THEN l - (n + 1) + 1 ELSE 0) = l - n /\ l - (n + 1) + 1 = l - n
    BY <1>1
  <1>5. \A i \in 1 .. l - n : (n + 1) + i - 1 = n + i
    BY <1>1
  <1>6. Len(SubSeq(d, n + 1, l)) = l - n
    BY <1>3, <1>4, Zenon
  <1>7. \A i \in 1 .. l - n : SubSeq(d, n + 1, l)[i] = d[n + i]
    BY <1>3, <1>4, <1>5, Zenon
  <1> QED BY <1>1, <1>3, <1>6, <1>7, Zenon

(* The rest after a round that does not write the last byte.               *)
LEMMA Advancing ==
  ASSUME During, NEW n \in 1 .. Len(data), n < Len(data),
         addr' = addr + n, data' = SubSeq(data, n + 1, Len(data)), call' = call, op' = None
  PROVE  /\ During'
         /\ \A c \in Cells : c \in Rest' <=> c \in Rest /\ c >= addr + n
         /\ Len(data') = Len(data) - n
         /\ \A i \in 1 .. Len(data') : data'[i] = data[n + i]
  <1>1. addr \in Nat /\ Len(data) \in Nat /\ data \in Seq(Byte) /\ addr + Len(data) <= Size
    BY LenProperties DEF During
  <1>2. /\ data' \in Seq(Byte) /\ Len(data') = Len(data) - n
        /\ \A i \in 1 .. Len(data) - n : data'[i] = data[n + i]
    BY <1>1, Dropping
  <1>0. PICK l \in Nat, a \in Nat : l = Len(data) /\ a = addr /\ n \in Nat /\ n > 0 /\ n < l
    BY <1>1
  <1>3. /\ addr' \in Nat /\ Len(data') > 0 /\ addr' + Len(data') = addr + Len(data)
    <2>1. addr' = a + n /\ Len(data') = l - n
      BY <1>0, <1>2
    <2>2. a + n \in Nat /\ l - n > 0 /\ (a + n) + (l - n) = a + l
      BY <1>0
    <2> QED BY <1>0, <2>1, <2>2
  <1>4. Rest' = Extent(a + n, l - n) /\ Rest = Extent(a, l)
    BY <1>0, <1>2 DEF Rest
  <1>5. \A c \in Int : c \in Rest' <=> c \in Rest /\ c >= addr + n
    <2>1. \A c \in Int : c \in Extent(a + n, l - n) <=> c \in Extent(a, l) /\ c >= a + n
      BY <1>0 DEF Extent
    <2> QED BY <1>0, <1>4, <2>1
  <1>6. \A c \in Rest' : c \in Int
    BY <1>0, <1>4 DEF Extent
  <1>7. During'
    BY <1>1, <1>2, <1>3, <1>5, <1>6 DEF During, None
  <1>8. \A c \in Cells : c \in Int
    BY Sizes DEF Cells
  <1> QED BY <1>2, <1>5, <1>7, <1>8

LEMMA PollPageKeeps ==
  ASSUME FlashIInv, PollPage, StageOK'
  PROVE  FlashIInv'
  <1>1. pc = "page_busy" /\ op = None
    BY DEF PollPage
  <1>2. FlashTypeOK /\ QuadTaken /\ OthersKept /\ Writing /\ WriteInv
    BY <1>1 DEF FlashIInv, Between, DirectInv
  <1>3. Merged /\ page \in 0 .. SectorPages - 1 /\ ProgrammedTo(PageAddr + PageSize)
    BY <1>1, <1>2 DEF WriteInv, None, ProgramOp
  <1>4. During
    BY <1>2 DEF Writing
  <1>5. /\ mem' = mem /\ qe' = qe /\ op' = op /\ mode' = mode /\ want' = want /\ call' = call
    BY DEF PollPage, chip
  <1>6. FlashTypeOK' /\ QuadTaken'
    BY <1>2, <1>5 DEF FlashTypeOK, QuadTaken
  <1>7. CASE NextPage
    <2>1. /\ page' = page + 1 /\ pc' = "program" /\ addr' = addr /\ data' = data /\ buf' = buf
          /\ swept' = swept
      BY <1>7 DEF PollPage
    <2>2. Rest' = Rest /\ Here' = Here /\ sector_addr' = sector_addr
      BY <2>1 DEF Rest, Here, sector_addr
    <2>3. PageAddr' = PageAddr + PageSize
      <3>1. PageAddr' = sector_addr + (page + 1) * PageSize
        BY <2>1, <2>2 DEF PageAddr
      <3> QED BY <1>3, <1>4, <3>1, PageBounds
    <2>4. page' \in 0 .. SectorPages - 1
      BY <1>3, <1>7, <2>1, W25qxxAssumption DEF NextPage
    <2>5. Writing' /\ Merged' /\ OthersKept'
      BY <1>2, <1>3, <1>5, <2>1, <2>2 DEF Writing, During, Merged, OthersKept
    <2>6. ProgrammedTo(PageAddr)'
      BY <1>3, <1>5, <2>2, <2>3 DEF ProgrammedTo
    <2>7. WriteInv'
      BY <1>1, <1>5, <2>1, <2>4, <2>5, <2>6 DEF WriteInv
    <2> QED BY <1>6, <2>5, <2>7 DEF FlashIInv
  <1>8. CASE ~ NextPage
    <2>1. page = SectorPages - 1
      BY <1>3, <1>8, W25qxxAssumption DEF NextPage
    <2>2. PICK s \in Nat : /\ s = sector_addr /\ s <= addr
                           /\ \A c \in Cells : c \in Here <=> s <= c /\ c < s + SectorSize
                           /\ \A c \in Cells : c \in Rest <=> addr <= c /\ c < addr + Len(data)
                           /\ Here \subseteq Cells /\ Rest \subseteq Cells
      BY <1>4, SectorBounds
    <2>3. PageAddr + PageSize = s + SectorSize
      BY <1>3, <1>4, <2>1, <2>2, PageBounds
    <2>4. \A c \in Cells : c \in Int
      BY Sizes DEF Cells
    <2>5. \A c \in Here : mem[c] = want[c]
      BY <1>3, <2>2, <2>3 DEF ProgrammedTo
    <2>6. \A c \in Cells : c \notin Rest => mem[c] = want[c]
      BY <1>2, <2>5 DEF Writing
    <2>7. PICK n \in 1 .. Len(data) : n = WriteLen(SectorSize)
      BY <1>4, Sizes, OneRound
    <2>8. addr + n <= s + SectorSize /\ (n < Len(data) => addr + n = s + SectorSize)
      BY <1>4, <2>2, <2>7, Sizes, OneRound DEF sector_addr
    <2>9. addr \in Nat /\ Len(data) \in Nat
      BY <1>4, LenProperties DEF During
    <2>10. \A c \in Cells : c \in Rest /\ c < addr + n => mem[c] = want[c]
      BY <2>2, <2>4, <2>5, <2>8, <2>9, Sizes
    <2>11. swept' = {} /\ Advance(n, "sector")
      BY <1>8, <2>7 DEF PollPage
    <2>12. OthersKept'
      <3>1. \A c \in Cells : c \notin call => mem[c] = want[c]
        BY <1>4, <2>6 DEF During
      <3> QED BY <1>1, <1>5, <2>11, <3>1 DEF OthersKept, None
    <2>13. CASE n < Len(data)
      <3>1. /\ addr' = addr + n /\ data' = SubSeq(data, n + 1, Len(data)) /\ pc' = "sector"
        BY <2>11, <2>13 DEF Advance
      <3>2. /\ During'
            /\ \A c \in Cells : c \in Rest' <=> c \in Rest /\ c >= addr + n
            /\ Len(data') = Len(data) - n
            /\ \A i \in 1 .. Len(data') : data'[i] = data[n + i]
        BY <1>1, <1>4, <1>5, <2>13, <3>1, Advancing
      <3>3. \A c \in Cells : c \notin Rest' => mem'[c] = want'[c]
        BY <1>5, <2>4, <2>6, <2>9, <2>10, <3>2
      <3>4. ASSUME NEW i \in 1 .. Len(data') PROVE data'[i] = want'[addr' + i - 1]
        <4>1. n + i \in 1 .. Len(data) /\ addr + (n + i) - 1 = addr' + i - 1
          BY <2>9, <3>1, <3>2
        <4>2. data[n + i] = want[addr + (n + i) - 1]
          BY <1>2, <4>1 DEF Writing
        <4> QED BY <1>5, <3>2, <4>1, <4>2
      <3>5. Writing'
        BY <3>2, <3>3, <3>4 DEF Writing
      <3>6. ASSUME During' PROVE Here' \subseteq Cells
        <4>1. addr' \in Nat /\ Len(data') \in Nat /\ Len(data') > 0 /\ addr' + Len(data') <= Size
          BY <3>6, LenProperties DEF During
        <4>2. addr' < Size
          BY <4>1, Sizes
        <4>3. PICK b \in Nat : b = AlignDown(addr', SectorSize) /\ b + SectorSize <= Size
          BY <4>1, <4>2, Sizes, Aligning, SectorFits
        <4>4. Here' = Extent(b, SectorSize)
          BY <4>3 DEF Here, sector_addr
        <4> QED BY <4>3, <4>4, Sizes DEF Extent, Cells
      <3>7. \A c \in (Here \ Rest)' : mem'[c] = want'[c]
        BY <3>2, <3>3, <3>6
      <3>8. WriteInv'
        BY <1>1, <1>5, <2>11, <3>1, <3>7 DEF WriteInv
      <3> QED BY <1>6, <2>12, <3>5, <3>8 DEF FlashIInv
    <2>14. CASE ~ (n < Len(data))
      <3>1. pc' = "idle"
        BY <2>11, <2>14 DEF Advance
      <3>2. n = Len(data)
        BY <2>9, <2>14
      <3>3. \A c \in Cells : mem[c] = want[c]
        BY <2>2, <2>6, <2>10, <3>2
      <3>4. mem' = want'
        BY <1>2, <1>5, <3>3 DEF FlashTypeOK
      <3>5. Between'
        BY <1>1, <1>5, <3>1, <3>4, DoneNext DEF Between
      <3> QED BY <1>6, <2>12, <3>5 DEF FlashIInv
    <2> QED BY <2>13, <2>14
  <1> QED BY <1>7, <1>8

LEMMA DirectProgramKeeps ==
  ASSUME FlashIInv, DirectProgram, StageOK'
  PROVE  FlashIInv'
  <1>1. pc = "direct"
    BY DEF DirectProgram
  <1>2. FlashTypeOK /\ QuadTaken /\ OthersKept /\ During /\ DirectInv
    BY <1>1 DEF FlashIInv, Between, WriteInv
  <1>3. op = None /\ Directing(0)
    BY <1>1, <1>2 DEF DirectInv
  <1>4. PICK a \in Nat, l \in Nat : a = addr /\ l = Len(data) /\ data \in Seq(Byte)
    BY <1>2, LenProperties DEF During
  <1>5. PICK n \in Nat : n = DirectLen /\ n \in 1 .. l /\ (a % PageSize) + n <= PageSize
    <2>1. PageSize \in Nat \ {0}
      BY W25qxxAssumption
    <2>2. DirectLen \in 1 .. l /\ (a % PageSize) + DirectLen <= PageSize
      BY <1>2, <1>4, <2>1, OneRound DEF DirectLen
    <2> QED BY <2>2
  <1>6. PICK d : d = SubSeq(data, 1, n)
    OBVIOUS
  <1>7. d \in Seq(Byte) /\ Len(d) = n /\ \A i \in 1 .. n : d[i] = data[i]
    <2>1. \A i \in 1 .. n : data[i] \in Byte
      BY <1>4, <1>5, ElementOfSeq
    <2>2. /\ d \in Seq(Byte)
          /\ Len(d) = IF 1 <= n THEN n - 1 + 1 ELSE 0
          /\ \A i \in 1 .. n - 1 + 1 : d[i] = data[1 + i - 1]
      BY <1>6, <2>1, SubSeqProperties
    <2>3. (IF 1 <= n THEN n - 1 + 1 ELSE 0) = n /\ n - 1 + 1 = n /\ \A i \in 1 .. n : 1 + i - 1 = i
      BY <1>5
    <2>4. Len(d) = n
      BY <2>2, <2>3, Zenon
    <2>5. \A i \in 1 .. n : d[i] = data[i]
      BY <2>2, <2>3, Zenon
    <2> QED BY <2>2, <2>4, <2>5
  <1>8. PICK b : b = [c \in Extent(a, n) |-> data[c - a + 1]]
    OBVIOUS
  <1>9. op' = ProgramOp(b)
    <2>1. op' = ProgramOp(ProgramBytes(a, d))
      BY <1>2, <1>3, <1>4, <1>5, <1>6, Accepting DEF DirectProgram
    <2>2. ProgramBytes(a, d) = [c \in Extent(a, n) |-> d[c - a + 1]]
      BY <1>5, <1>7, WithinPage
    <2>3. \A c \in Extent(a, n) : c - a + 1 \in 1 .. n
      BY DEF Extent
    <2>4. \A c \in Extent(a, n) : d[c - a + 1] = data[c - a + 1]
      BY <1>7, <2>3
    <2>5. ProgramBytes(a, d) = b
      BY <1>8, <2>2, <2>4
    <2> QED BY <2>1, <2>5
  <1>10. op'.kind = "program" /\ op'.bytes = b /\ DOMAIN b = Extent(a, n)
    BY <1>8, <1>9 DEF ProgramOp
  <1>11. /\ pc' = "direct_busy" /\ mem' = mem /\ qe' = qe /\ mode' = mode
         /\ addr' = addr /\ data' = data /\ want' = want /\ call' = call /\ swept' = swept
    BY DEF DirectProgram, loop, history
  <1>12. Rest' = Rest /\ DirectLen' = DirectLen
    BY <1>11 DEF Rest, DirectLen, WriteLen
  <1>13. FlashTypeOK'
    <2>1. IsOp(op')
      BY <1>9, <1>10 DEF IsOp
    <2> QED BY <1>2, <1>11, <2>1 DEF FlashTypeOK
  <1>14. QuadTaken'
    BY <1>2, <1>3, <1>10, <1>11 DEF QuadTaken, None
  <1>15. Extent(a, n) \subseteq call
    <2>1. Extent(a, n) \subseteq Extent(a, l)
      BY <1>5 DEF Extent
    <2> QED BY <1>2, <1>4, <2>1 DEF During, Rest
  <1>16. OthersKept'
    BY <1>2, <1>10, <1>11, <1>15 DEF OthersKept
  <1>17. During' /\ Directing(0)'
    BY <1>2, <1>3, <1>10, <1>11, <1>12 DEF During, Directing
  <1>18. op' = ProgramOp([c \in Extent(addr', DirectLen') |-> data'[c - addr' + 1]])
    BY <1>4, <1>5, <1>8, <1>9, <1>11, <1>12
  <1>19. DirectInv'
    BY <1>11, <1>17, <1>18 DEF DirectInv
  <1> QED BY <1>13, <1>14, <1>16, <1>17, <1>19 DEF FlashIInv

LEMMA DirectPollKeeps ==
  ASSUME FlashIInv, DirectPoll, StageOK'
  PROVE  FlashIInv'
  <1>1. pc = "direct_busy" /\ op = None
    BY DEF DirectPoll
  <1>2. FlashTypeOK /\ QuadTaken /\ OthersKept /\ During /\ DirectInv
    BY <1>1 DEF FlashIInv, Between, WriteInv
  <1>3. Directing(DirectLen)
    BY <1>1, <1>2 DEF DirectInv, None, ProgramOp
  <1>4. PICK a \in Nat, l \in Nat : a = addr /\ l = Len(data)
    BY <1>2, LenProperties DEF During
  <1>5. PICK n \in Nat : n = DirectLen /\ n \in 1 .. l
    BY <1>2, <1>4, OneRound, W25qxxAssumption DEF DirectLen
  <1>6. /\ mem' = mem /\ qe' = qe /\ op' = op /\ mode' = mode
        /\ want' = want /\ call' = call /\ swept' = swept
    BY DEF DirectPoll, chip, history
  <1>7. FlashTypeOK' /\ QuadTaken' /\ OthersKept'
    BY <1>2, <1>6 DEF FlashTypeOK, QuadTaken, OthersKept
  <1>8. Advance(n, "direct")
    BY <1>5 DEF DirectPoll
  <1>9. \A c \in Cells : c \in Int
    BY Sizes DEF Cells
  <1>10. ASSUME NEW c \in Cells
         PROVE  /\ c \in Rest /\ c >= a + n => want[c] = mem[c] \cap data[c - a + 1]
                /\ ~ (c \in Rest /\ c >= a + n) => want[c] = mem[c]
    BY <1>3, <1>4, <1>5 DEF Directing
  <1>11. CASE n < l
    <2>1. addr' = a + n /\ data' = SubSeq(data, n + 1, Len(data)) /\ pc' = "direct"
      BY <1>4, <1>8, <1>11 DEF Advance
    <2>2. /\ During'
          /\ \A c \in Cells : c \in Rest' <=> c \in Rest /\ c >= a + n
          /\ Len(data') = l - n
          /\ \A i \in 1 .. Len(data') : data'[i] = data[n + i]
      BY <1>1, <1>2, <1>4, <1>5, <1>6, <1>11, <2>1, Advancing
    <2>3. ASSUME NEW c \in Cells
          PROVE  want'[c] = IF c \in Rest' /\ c >= addr' + 0
                            THEN mem'[c] \cap data'[c - addr' + 1] ELSE mem'[c]
      <3>1. CASE c \in Rest /\ c >= a + n
        <4>1. c < a + l
          BY <1>2, <1>4, <3>1, SectorBounds
        <4>2. c - (a + n) + 1 \in 1 .. l - n /\ n + (c - (a + n) + 1) = c - a + 1
          BY <1>5, <1>9, <3>1, <4>1
        <4>3. data'[c - (a + n) + 1] = data[c - a + 1]
          BY <2>2, <4>2
        <4>4. c >= addr' + 0
          BY <1>9, <2>1, <3>1
        <4> QED BY <1>6, <1>10, <2>1, <2>2, <3>1, <4>3, <4>4
      <3>2. CASE ~ (c \in Rest /\ c >= a + n)
        BY <1>6, <1>10, <2>2, <3>2
      <3> QED BY <3>1, <3>2
    <2>4. Directing(0)'
      BY <2>3 DEF Directing
    <2>5. DirectInv'
      BY <1>1, <1>6, <2>1, <2>4 DEF DirectInv
    <2> QED BY <1>7, <2>2, <2>5 DEF FlashIInv
  <1>12. CASE ~ (n < l)
    <2>1. pc' = "idle" /\ n = l
      BY <1>4, <1>5, <1>8, <1>12 DEF Advance
    <2>2. \A c \in Cells : ~ (c \in Rest /\ c >= a + n)
      BY <1>2, <1>4, <1>9, <2>1, SectorBounds
    <2>3. mem' = want'
      BY <1>2, <1>6, <1>10, <2>2 DEF FlashTypeOK
    <2>4. Between'
      BY <1>1, <1>6, <2>1, <2>3, DoneNext DEF Between
    <2> QED BY <1>7, <2>4 DEF FlashIInv
  <1> QED BY <1>11, <1>12

-----------------------------------------------------------------------------
(* The chip finishes what it is doing.                                     *)
LEMMA ChipDoneKeeps ==
  ASSUME FlashIInv, ChipDone, StageOK'
  PROVE  FlashIInv'
  <1>1. /\ op # None /\ mem' = Done(op) /\ qe' = (IF op.kind = "status" THEN op.bit ELSE qe)
        /\ op' = None
        /\ mode' = mode /\ pc' = pc /\ addr' = addr /\ data' = data /\ buf' = buf /\ page' = page
        /\ want' = want /\ call' = call /\ swept' = swept
    BY DEF ChipDone, loop, history
  <1>2. FlashTypeOK /\ QuadTaken /\ OthersKept
    BY DEF FlashIInv
  <1>3. mem \in [Cells -> Byte] /\ want \in [Cells -> Byte] /\ IsOp(op)
    BY <1>2 DEF FlashTypeOK
  <1>4. \/ op.kind = "erase" /\ mem' = [c \in Cells |-> IF c \in op.cells THEN Bits ELSE mem[c]]
        \/ op.kind = "program" /\ mem' = [c \in Cells |-> IF c \in DOMAIN op.bytes
                                            THEN mem[c] \cap op.bytes[c] ELSE mem[c]]
        \/ op.kind = "status" /\ op.bit \in {"on", "off"} /\ mem' = mem
    <2>1. CASE op.kind = "erase" /\ op = EraseOp(op.cells)
      BY <1>1, <2>1, DoneNow
    <2>2. CASE op.kind = "program" /\ op = ProgramOp(op.bytes)
      BY <1>1, <2>2, DoneNow
    <2>3. CASE op.kind = "status" /\ op = StatusOp(op.bit) /\ op.bit \in {"on", "off"}
      BY <1>1, <2>3, DoneNow
    <2> QED BY <1>1, <1>3, <2>1, <2>2, <2>3 DEF IsOp
  <1>5. mem' \in [Cells -> Byte]
    BY <1>3, <1>4 DEF Byte
  <1>6. FlashTypeOK'
    BY <1>1, <1>2, <1>4, <1>5 DEF FlashTypeOK, IsOp
  <1>7. QuadTaken'
    BY <1>1, <1>2 DEF QuadTaken, None
  <1>8. OthersKept'
    <2> SUFFICES ASSUME NEW c \in Cells, c \notin call, c \notin swept
                 PROVE  mem'[c] = want[c]
      BY <1>1 DEF OthersKept, None
    <2>1. /\ mem[c] = want[c]
          /\ op.kind = "erase" => c \notin op.cells
          /\ op.kind = "program" /\ c \in DOMAIN op.bytes => want[c] \subseteq op.bytes[c]
      BY <1>2 DEF OthersKept
    <2> QED BY <1>4, <2>1
  <1>9. Rest' = Rest /\ Here' = Here /\ sector_addr' = sector_addr /\ PageAddr' = PageAddr
        /\ DirectLen' = DirectLen
    BY <1>1 DEF Rest, Here, sector_addr, PageAddr, DirectLen, WriteLen
  <1>10. CASE Between
    <2>1. Between'
      BY <1>1, <1>10, DoneNext DEF Between
    <2> QED BY <1>6, <1>7, <1>8, <2>1 DEF FlashIInv
  <1>11. CASE Writing /\ WriteInv
    <2>1. During
      BY <1>11 DEF Writing
    <2>2. During'
      BY <1>1, <1>9, <2>1 DEF During, None
    <2>3. Here \subseteq Cells
      BY <2>1, SectorBounds
    <2>4. CASE pc = "erase_busy"
      <3>1. op = EraseOp(Here) /\ Merged /\ page = 0 /\ swept = Here
        BY <1>1, <1>11, <2>4 DEF WriteInv
      <3>2. mem' = [c \in Cells |-> IF c \in Here THEN Bits ELSE mem[c]]
        BY <1>1, <3>1, DoneNow
      <3>3. Writing'
        BY <1>1, <1>9, <1>11, <2>2, <3>2 DEF Writing
      <3>4. \A c \in Here : mem'[c] = Bits
        BY <2>3, <3>2
      <3>5. WriteInv'
        BY <1>1, <1>9, <2>4, <3>1, <3>4 DEF WriteInv, Merged
      <3> QED BY <1>6, <1>7, <1>8, <3>3, <3>5 DEF FlashIInv
    <2>5. CASE pc = "page_busy"
      <3>1. PICK b : b = [c \in Extent(PageAddr, PageSize) |-> buf[c]]
        OBVIOUS
      <3>2. op = ProgramOp(b) /\ Merged /\ page \in 0 .. SectorPages - 1 /\ ProgrammedTo(PageAddr)
        BY <1>1, <1>11, <2>5, <3>1 DEF WriteInv
      <3>3. PICK p \in Nat, s \in Nat : /\ p = PageAddr /\ s = sector_addr
                                        /\ s <= p /\ p + PageSize <= s + SectorSize
        BY <2>1, <3>2, PageBounds, SectorBounds
      <3>4. DOMAIN b = Extent(p, PageSize)
        BY <3>1, <3>3
      <3>5. Extent(p, PageSize) \subseteq Here
        <4>1. Extent(p, PageSize) \subseteq Extent(s, SectorSize)
          BY <3>3, Sizes, W25qxxAssumption DEF Extent
        <4> QED BY <3>3, <4>1 DEF Here
      <3>6. \A c \in Extent(p, PageSize) : b[c] = want[c]
        BY <3>1, <3>2, <3>3, <3>5 DEF Merged
      <3>7. mem' = [c \in Cells |-> IF c \in DOMAIN b THEN mem[c] \cap b[c] ELSE mem[c]]
        BY <1>1, <3>2, DoneNow
      <3>8. \A c \in Here : c \in Int
        BY <2>3, Sizes DEF Cells
      <3>9. ASSUME NEW c \in Here
            PROVE  IF c < p + PageSize THEN mem'[c] = want[c] ELSE want[c] \subseteq mem'[c]
        <4>1. IF c < p THEN mem[c] = want[c] ELSE want[c] \subseteq mem[c]
          BY <3>2, <3>3 DEF ProgrammedTo
        <4>2. c \in Extent(p, PageSize) <=> p <= c /\ c < p + PageSize
          BY <3>8, W25qxxAssumption DEF Extent
        <4>3. CASE c \in Extent(p, PageSize)
          <5>1. mem'[c] = mem[c] \cap want[c]
            BY <2>3, <3>4, <3>6, <3>7, <4>3
          <5>2. want[c] \subseteq mem[c] /\ c < p + PageSize
            BY <3>8, <4>1, <4>2, <4>3
          <5> QED BY <5>1, <5>2
        <4>4. CASE c \notin Extent(p, PageSize)
          <5>1. mem'[c] = mem[c]
            BY <2>3, <3>4, <3>7, <4>4
          <5>2. CASE c < p
            BY <3>8, <4>1, <5>1, <5>2, W25qxxAssumption
          <5>3. CASE ~ (c < p)
            BY <3>8, <4>1, <4>2, <4>4, <5>1, <5>3, W25qxxAssumption
          <5> QED BY <5>2, <5>3
        <4> QED BY <4>3, <4>4
      <3>10. ProgrammedTo(PageAddr + PageSize)'
        BY <1>1, <1>9, <3>3, <3>9 DEF ProgrammedTo
      <3>11. \A c \in Cells \ Here : mem'[c] = mem[c]
        BY <3>4, <3>5, <3>7
      <3>12. Writing'
        BY <1>1, <1>9, <1>11, <2>2, <3>11 DEF Writing
      <3>13. WriteInv'
        BY <1>1, <1>9, <2>5, <3>2, <3>10 DEF WriteInv, Merged
      <3> QED BY <1>6, <1>7, <1>8, <3>12, <3>13 DEF FlashIInv
    <2> QED BY <1>1, <1>11, <2>4, <2>5 DEF WriteInv
  <1>12. CASE During /\ DirectInv
    <2>1. PICK a \in Nat, l \in Nat : a = addr /\ l = Len(data)
      BY <1>12, LenProperties DEF During
    <2>2. PICK n \in Nat : n = DirectLen /\ n \in 1 .. l
      BY <1>12, <2>1, OneRound, W25qxxAssumption DEF DirectLen
    <2>3. PICK b : b = [c \in Extent(a, n) |-> data[c - a + 1]]
      OBVIOUS
    <2>4. pc = "direct_busy" /\ op = ProgramOp(b) /\ Directing(0)
      BY <1>1, <1>12, <2>1, <2>2, <2>3 DEF DirectInv
    <2>5. mem' = [c \in Cells |-> IF c \in DOMAIN b THEN mem[c] \cap b[c] ELSE mem[c]]
      BY <1>1, <2>4, DoneNow
    <2>6. \A c \in Cells : c \in Int
      BY Sizes DEF Cells
    <2>7. \A c \in Cells : c \in Rest <=> a <= c /\ c < a + l
      BY <1>12, <2>1, SectorBounds
    <2>8. ASSUME NEW c \in Cells
          PROVE  want[c] = IF c \in Rest /\ c >= a + n THEN mem'[c] \cap data[c - a + 1] ELSE mem'[c]
      <3>1. /\ c \in Rest => want[c] = mem[c] \cap data[c - a + 1]
            /\ c \notin Rest => want[c] = mem[c]
        <4>1. c \in Rest => c >= a + 0
          BY <2>6, <2>7
        <4> QED BY <2>1, <2>4, <4>1 DEF Directing
      <3>2. c \in Extent(a, n) <=> a <= c /\ c < a + n
        BY <2>6 DEF Extent
      <3>3. CASE c \in Extent(a, n)
        <4>1. mem'[c] = mem[c] \cap data[c - a + 1]
          BY <2>3, <2>5, <3>3
        <4>2. c \in Rest /\ ~ (c >= a + n)
          BY <2>2, <2>6, <2>7, <3>2, <3>3
        <4> QED BY <3>1, <4>1, <4>2
      <3>4. CASE c \notin Extent(a, n)
        <4>1. mem'[c] = mem[c]
          BY <2>3, <2>5, <3>4
        <4>2. c \in Rest => c >= a + n
          BY <2>6, <2>7, <3>2, <3>4
        <4> QED BY <3>1, <4>1, <4>2
      <3> QED BY <3>3, <3>4
    <2>9. Directing(DirectLen)'
      BY <1>1, <1>9, <2>1, <2>2, <2>8 DEF Directing
    <2>10. During' /\ DirectInv'
      BY <1>1, <1>9, <1>12, <2>4, <2>9 DEF During, DirectInv, None
    <2> QED BY <1>6, <1>7, <1>8, <2>10 DEF FlashIInv
  <1> QED BY <1>10, <1>11, <1>12 DEF FlashIInv

-----------------------------------------------------------------------------
(* The SPIFFS port.                                                        *)

LEMMA LogicalBlocks ==
  ASSUME NEW bix \in 0 .. LogBlocks - 1
  PROVE  /\ Base(bix) \in Nat /\ Base(bix) + LogBlockSize <= Size
         /\ LogBlockSize \in Nat \ {0}
         /\ \A k \in Nat : /\ Base(bix) + k * HalfSize = HalfSize * (bix * LogErases + k)
                           /\ bix * LogErases + k \in Nat
  <1>1. HalfSize \in Nat \ {0} /\ LogErases \in Nat \ {0} /\ Size \in Nat
    BY Sizes, SpiffsAssumption
  <1>2. LogBlockSize \in Nat \ {0}
    BY <1>1 DEF LogBlockSize
  <1>3. PICK m \in Nat, r \in Nat : m = LogBlocks /\ Size = LogBlockSize * m + r
    BY <1>1, <1>2, Remainders DEF LogBlocks
  <1>4. bix \in Nat /\ bix < m
    BY <1>3
  <1>5. Base(bix) = LogBlockSize * bix
    BY <1>2, <1>4 DEF Base
  <1>6. LogBlockSize * bix + LogBlockSize <= LogBlockSize * m
    BY <1>2, <1>3, <1>4, ProductsInOrder
  <1>7. LogBlockSize * bix \in Nat /\ LogBlockSize * m \in Nat
    BY <1>2, <1>3, <1>4
  <1>8. Base(bix) + LogBlockSize <= Size
    BY <1>2, <1>3, <1>5, <1>6, <1>7
  <1>9. ASSUME NEW k \in Nat
        PROVE  /\ Base(bix) + k * HalfSize = HalfSize * (bix * LogErases + k)
               /\ bix * LogErases + k \in Nat
    <2>1. Base(bix) = bix * (LogErases * HalfSize)
      BY DEF Base, LogBlockSize
    <2>2. \A e, h, b \in Nat : b * (e * h) + k * h = h * (b * e + k) /\ b * e + k \in Nat
      OBVIOUS
    <2> QED BY <1>1, <1>4, <2>1, <2>2
  <1> QED BY <1>2, <1>5, <1>7, <1>8, <1>9

(* spiffs_erase_block asks for what w25qxx_32k_block_erase erases.         *)
LEMMA ErasesWhatItAsks ==
  ASSUME NEW bix \in 0 .. LogBlocks - 1, NEW k \in Nat,
         my_spi_erase(Base(bix) + k * HalfSize, HalfSize)
  PROVE  \E S : Erase(S, S)
  <1>1. PICK a : a = Base(bix) + k * HalfSize
    OBVIOUS
  <1>2. HalfSize \in Nat \ {0}
    BY Sizes
  <1>3. AlignDown(a, HalfSize) = a
    <2>1. PICK i \in Nat : a = HalfSize * i
      BY <1>1, LogicalBlocks
    <2> QED BY <1>2, <2>1, AligningMultiple
  <1>4. Erase(Aligned(a, HalfSize), Extent(a, HalfSize))
    BY <1>1 DEF my_spi_erase
  <1>5. Aligned(a, HalfSize) = Extent(a, HalfSize)
    BY <1>3 DEF Aligned
  <1> QED BY <1>4, <1>5, Zenon

(* The erase count and the magic lie in the block.                         *)
LEMMA MarksFit ==
  ASSUME NEW bix \in 0 .. LogBlocks - 1, NEW x \in 0 .. LogBlockSize - 1, NEW b \in Byte
  PROVE  Fits([addr |-> Base(bix) + x, data |-> <<b>>])
  <1>1. PICK a \in Nat, l \in Nat \ {0} : a = Base(bix) /\ l = LogBlockSize /\ a + l <= Size
    BY LogicalBlocks
  <1>2. a + x \in Nat /\ a + x + 1 <= Size
    BY <1>1, Sizes
  <1>3. <<b>> \in Seq(Byte) /\ Len(<<b>>) = 1
    OBVIOUS
  <1> QED BY <1>1, <1>2, <1>3 DEF Fits

LEMMA RawKeeps ==
  ASSUME FlashIInv, Polls = "always", StageOK', Programs \/ Erases \/ Modes
  PROVE  FlashIInv'
  <1>1. CASE Programs
    <2>1. PICK w \in Writes : w25qxx_write_data_direct(w) \/ w25qxx_page_program_fun(w)
      BY <1>1 DEF Programs
    <2>2. Fits(w)
      BY CallersFit
    <2>3. CASE w25qxx_write_data_direct(w)
      <3>1. Enter("direct", w, Pull)
        BY <2>3 DEF w25qxx_write_data_direct
      <3> QED BY <2>2, <3>1, DirectStarts
    <2>4. CASE w25qxx_page_program_fun(w)
      BY <2>2, <2>4, PageStarts
    <2> QED BY <2>1, <2>3, <2>4
  <1>2. CASE Erases
    <2>1. \E S : Erase(S, S)
      BY <1>2, Zenon DEF Erases, w25qxx_sector_erase, w25qxx_32k_block_erase,
                         w25qxx_64k_block_erase, w25qxx_chip_erase
    <2> QED BY <2>1, EraseKeeps
  <1>3. CASE Modes
    <2>1. SetQuad("on", "quad") \/ SetQuad("off", "standard")
      BY <1>3 DEF Modes, w25qxx_enable_quad_mode, w25qxx_disable_quad_mode
    <2> QED BY <2>1, SetQuadKeeps
  <1> QED BY <1>1, <1>2, <1>3

LEMMA DriverKeeps ==
  ASSUME FlashIInv, StageOK', ChipDone \/ Driver
  PROVE  FlashIInv'
  BY ChipDoneKeeps, ReadSectorKeeps, EraseSectorKeeps, PollEraseKeeps, ProgramPageKeeps,
     PollPageKeeps, DirectProgramKeeps, DirectPollKeeps DEF Driver

LEMMA StutterKeeps ==
  ASSUME FlashIInv, UNCHANGED svars
  PROVE  FlashIInv'
  <1>1. /\ mem' = mem /\ qe' = qe /\ op' = op /\ mode' = mode /\ pc' = pc
        /\ addr' = addr /\ data' = data /\ buf' = buf /\ page' = page
        /\ want' = want /\ call' = call /\ swept' = swept /\ erasing' = erasing /\ stage' = stage
    BY DEF svars, vars, chip, loop, history
  <1>2. /\ Rest' = Rest /\ Here' = Here /\ sector_addr' = sector_addr /\ PageAddr' = PageAddr
        /\ DirectLen' = DirectLen /\ Done(op)' = Done(op)
    BY <1>1 DEF Rest, Here, sector_addr, PageAddr, DirectLen, WriteLen, Done
  <1>3. FlashTypeOK' /\ StageOK' /\ QuadTaken' /\ OthersKept'
    BY <1>1 DEF FlashIInv, FlashTypeOK, StageOK, QuadTaken, OthersKept
  <1>4. (Between <=> Between') /\ (During <=> During')
    BY <1>1, <1>2 DEF Between, During
  <1>5. Writing <=> Writing'
    BY <1>1, <1>2, <1>4 DEF Writing
  <1>6. WriteInv <=> WriteInv'
    BY <1>1, <1>2 DEF WriteInv, Merged, ProgrammedTo
  <1>7. DirectInv <=> DirectInv'
    BY <1>1, <1>2 DEF DirectInv, Directing
  <1> QED BY <1>3, <1>4, <1>5, <1>6, <1>7 DEF FlashIInv

LEMMA StepKeeps ==
  ASSUME FlashIInv, Polls = "always", [PNext]_svars
  PROVE  FlashIInv'
  <1>0. StageOK /\ LogErases \in Nat \ {0}
    BY SpiffsAssumption DEF FlashIInv
  <1>1. CASE HalWrite
    <2>1. PICK w \in Writes : Enter("sector", w, Replace)
      BY <1>1 DEF HalWrite, my_spi_write, w25qxx_write_data
    <2>2. StageOK'
      BY <1>0, <1>1 DEF HalWrite, StageOK
    <2> QED BY <2>1, <2>2, CallersFit, WriteStarts
  <1>2. ASSUME NEW bix \in 0 .. LogBlocks - 1, spiffs_erase_block(bix) PROVE FlashIInv'
    <2>1. Base(bix) + 0 * HalfSize = Base(bix)
      BY LogicalBlocks, Sizes
    <2>2. \E S : Erase(S, S)
      BY <1>2, <2>1, ErasesWhatItAsks DEF spiffs_erase_block
    <2>3. StageOK'
      BY <1>0, <1>2 DEF spiffs_erase_block, StageOK
    <2> QED BY <2>2, <2>3, EraseKeeps
  <1>3. CASE EraseNext
    <2>1. erasing \in 0 .. LogBlocks - 1 /\ stage \in Nat /\ stage < LogErases
      BY <1>0, <1>3 DEF EraseNext, StageOK
    <2>2. \E S : Erase(S, S)
      BY <1>3, <2>1, ErasesWhatItAsks DEF EraseNext
    <2>3. StageOK'
      BY <1>0, <1>3, <2>1 DEF EraseNext, StageOK
    <2> QED BY <2>2, <2>3, EraseKeeps
  <1>4. CASE RegisterEraseCount
    <2>1. erasing \in 0 .. LogBlocks - 1 /\ stage = LogErases
      BY <1>0, <1>4 DEF RegisterEraseCount, StageOK
    <2>2. PICK w : w = [addr |-> Base(erasing) + CountAt, data |-> <<Count>>]
      OBVIOUS
    <2>3. Fits(w)
      BY <2>1, <2>2, MarksFit, SpiffsAssumption
    <2>4. Enter("sector", w, Replace)
      BY <1>4, <2>2 DEF RegisterEraseCount, my_spi_write, w25qxx_write_data
    <2>5. StageOK'
      BY <1>0, <1>4, <2>1 DEF RegisterEraseCount, StageOK
    <2> QED BY <2>3, <2>4, <2>5, WriteStarts
  <1>5. CASE WriteMagic
    <2>1. erasing \in 0 .. LogBlocks - 1
      BY <1>0, <1>5 DEF WriteMagic, StageOK
    <2>2. PICK w : w = [addr |-> Base(erasing) + MagicAt, data |-> <<Magic>>]
      OBVIOUS
    <2>3. Fits(w)
      BY <2>1, <2>2, MarksFit, SpiffsAssumption
    <2>4. Enter("sector", w, Replace)
      BY <1>5, <2>2 DEF WriteMagic, my_spi_write, w25qxx_write_data
    <2>5. StageOK'
      BY <1>5 DEF WriteMagic, StageOK
    <2> QED BY <2>3, <2>4, <2>5, WriteStarts
  <1>6. CASE (ChipDone \/ Driver) /\ UNCHANGED <<erasing, stage>>
    <2>1. StageOK'
      BY <1>0, <1>6 DEF StageOK
    <2> QED BY <1>6, <2>1, DriverKeeps
  <1>7. CASE Raw
    <2>1. StageOK'
      BY <1>0, <1>7 DEF Raw, StageOK
    <2> QED BY <1>7, <2>1, RawKeeps DEF Raw
  <1>8. CASE PowerLoss /\ erasing' = NoBlock /\ stage' = 0
    <2>1. StageOK'
      BY <1>8 DEF StageOK
    <2> QED BY <1>8, <2>1, PowerLossKeeps
  <1>9. CASE UNCHANGED svars
    BY <1>9, StutterKeeps
  <1> QED BY <1>1, <1>2, <1>3, <1>4, <1>5, <1>6, <1>7, <1>8, <1>9 DEF PNext

LEMMA FlashInvariance ==
  ASSUME Polls = "always"
  PROVE  PSpec => []FlashIInv
  <1>1. PInit => FlashIInv
    BY Starting
  <1>2. FlashIInv /\ [PNext]_svars => FlashIInv'
    BY StepKeeps
  <1> QED BY <1>1, <1>2, PTL DEF PSpec

-----------------------------------------------------------------------------
(***************************************************************************)
(* A caller that polls w25qxx_is_busy before its next call reads what the  *)
(* calls so far asked for, for any geometry, writes and entry points:      *)
(* w25qxx_write_data and the other calls leave the bytes they were given   *)
(* and no other byte changed, in either mode.                              *)
(***************************************************************************)
THEOREM ReadsBack == Polls = "always" /\ PSpec => []ReadBack
  <1> SUFFICES ASSUME Polls = "always" PROVE PSpec => []ReadBack
    OBVIOUS
  <1>1. FlashIInv => ReadBack
    <2> SUFFICES ASSUME FlashIInv, Idle PROVE \A seen \in Seen(mode, Cells) : seen = want
      BY DEF ReadBack
    <2>1. op = None /\ mem = want
      BY AtRest
    <2>2. mode = "quad" => qe = "on"
      BY <2>1 DEF FlashIInv, QuadTaken, None
    <2>3. Seen(mode, Cells) = {[c \in Cells |-> mem[c]]}
      BY <2>1, <2>2 DEF Seen
    <2>4. [c \in Cells |-> mem[c]] = mem
      BY DEF FlashIInv, FlashTypeOK
    <2> QED BY <2>1, <2>3, <2>4
  <1> QED BY <1>1, FlashInvariance, PTL

(***************************************************************************)
(* Losing power, at any point of any call and however far the chip got     *)
(* with its operation, costs at most the bytes the call was asked to       *)
(* change and the sector w25qxx_write_data is rewriting.                   *)
(***************************************************************************)
THEOREM PowerLossIsContained == Polls = "always" /\ PSpec => PowerLossContained
  <1> SUFFICES ASSUME Polls = "always" PROVE PSpec => PowerLossContained
    OBVIOUS
  <1>1. FlashIInv /\ [PNext]_svars =>
          [PowerLoss => \A c \in Cells \ (call \cup swept) : mem'[c] = want[c]]_svars
    <2> SUFFICES ASSUME FlashIInv, PowerLoss, NEW c \in Cells, c \notin call, c \notin swept
                 PROVE  mem'[c] = want[c]
      OBVIOUS
    <2>1. mem'[c] \in TornByte(op, c)
      BY DEF PowerLoss, Torn
    <2>2. /\ mem[c] = want[c]
          /\ op.kind = "erase" => c \notin op.cells
          /\ op.kind = "program" /\ c \in DOMAIN op.bytes => want[c] \subseteq op.bytes[c]
      BY DEF FlashIInv, OthersKept
    <2>3. CASE op.kind = "program" /\ c \in DOMAIN op.bytes
      <3>1. TornByte(op, c) = {b \in Byte : mem[c] \cap op.bytes[c] \subseteq b /\ b \subseteq mem[c]}
        BY <2>3 DEF TornByte
      <3>2. mem[c] \cap op.bytes[c] = want[c]
        BY <2>2, <2>3
      <3> QED BY <2>1, <2>2, <3>1, <3>2
    <2>4. CASE ~ (op.kind = "program" /\ c \in DOMAIN op.bytes)
      <3>1. TornByte(op, c) = {mem[c]}
        BY <2>2, <2>4 DEF TornByte
      <3> QED BY <2>1, <2>2, <3>1
    <2> QED BY <2>3, <2>4
  <1> QED BY <1>1, FlashInvariance, PTL DEF PSpec, PowerLossContained

(***************************************************************************)
(* w25qxx_write_data erases a sector only for a write that sets a bit of   *)
(* it.                                                                     *)
(***************************************************************************)
THEOREM ErasesSetBits == Polls = "always" /\ PSpec => ErasesOnlyToSetBits
  <1> SUFFICES ASSUME Polls = "always" PROVE PSpec => ErasesOnlyToSetBits
    OBVIOUS
  <1>1. FlashIInv /\ [PNext]_svars =>
          [EraseSector => \E c \in call \cap Extent(sector_addr, SectorSize) :
                            ~ (want[c] \subseteq mem[c])]_svars
    <2> SUFFICES ASSUME FlashIInv, EraseSector
                 PROVE  \E c \in call \cap Extent(sector_addr, SectorSize) : ~ (want[c] \subseteq mem[c])
      OBVIOUS
    <2>1. pc = "erase"
      BY DEF EraseSector
    <2>2. WriteInv
      BY <2>1 DEF FlashIInv, Between, DirectInv
    <2> QED BY <2>1, <2>2 DEF WriteInv, Here
  <1> QED BY <1>1, FlashInvariance, PTL DEF PSpec, ErasesOnlyToSetBits
=============================================================================
