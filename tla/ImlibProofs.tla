---------------------------- MODULE ImlibProofs ----------------------------
(***************************************************************************)
(* Proofs about the image functions that write over the image they read.   *)
(***************************************************************************)
EXTENDS ImlibInv, FiniteSetTheorems, SequenceTheorems, WellFoundedInduction, TLAPS

-----------------------------------------------------------------------------
(* A nonempty set of natural numbers has a least element. *)
LEMMA LeastNatural ==
  ASSUME NEW T, T \subseteq Nat, T # {}
  PROVE  \E x \in T : \A z \in T : x <= z
  <1>1. PICK R : R = OpToRel(<, Nat)
    OBVIOUS
  <1>2. IsWellFoundedOn(R, Nat)
    BY <1>1, NatLessThanWellFounded
  <1>3. PICK x \in T : \A z \in T : ~ (<<z, x>> \in R)
    BY <1>2, WFMin
  <1>4. ASSUME NEW z \in T PROVE x <= z
    <2>1. ~ (<<z, x>> \in OpToRel(<, Nat))
      BY <1>1, <1>3
    <2>2. ~ (z < x)
      BY <2>1 DEF OpToRel
    <2>3. x \in Nat /\ z \in Nat
      OBVIOUS
    <2> QED BY <2>2, <2>3
  <1> QED BY <1>4

(* A set of natural numbers that holds 0 and, with a number below n, the   *)
(* next one, holds all numbers up to n.                                    *)
LEMMA InductionUpTo ==
  ASSUME NEW T, NEW n \in Nat, 0 \in T,
         \A i \in 0 .. n - 1 : i \in T => i + 1 \in T
  PROVE  \A i \in 0 .. n : i \in T
  <1> SUFFICES ASSUME NEW x \in 0 .. n, x \notin T PROVE FALSE
    OBVIOUS
  <1> DEFINE Bad == {z \in 0 .. n : z \notin T}
  <1>1. Bad \subseteq Nat /\ Bad # {}
    OBVIOUS
  <1>2. PICK b \in Bad : \A z \in Bad : b <= z
    BY <1>1, LeastNatural
  <1>3. b \in 0 .. n /\ b # 0
    OBVIOUS
  <1>4. b - 1 \in 0 .. n - 1 /\ ~ (b <= b - 1) /\ b - 1 \in 0 .. n
    BY <1>3
  <1>5. b - 1 \in T
    BY <1>2, <1>4
  <1>6. b - 1 + 1 \in T
    BY <1>4, <1>5
  <1> QED BY <1>3, <1>6

(* Quotient and remainder of natural numbers. *)
LEMMA Remainders ==
  ASSUME NEW a \in Nat, NEW n \in Nat \ {0}
  PROVE  /\ a % n \in 0 .. n - 1
         /\ a \div n \in Nat
         /\ a = n * (a \div n) + (a % n)
  OBVIOUS

(* Multiples of n lie at least n apart. *)
LEMMA ProductsInOrder ==
  ASSUME NEW n \in Nat \ {0}, NEW i \in Int, NEW j \in Int, i < j
  PROVE  n * i + n <= n * j
  OBVIOUS

-----------------------------------------------------------------------------
(* Window filters. *)

(* Rows less than ksize + 1 apart have different places in the ring.       *)
LEMMA RingApart ==
  ASSUME NEW k \in Nat, NEW a \in Nat, NEW b \in Nat, a < b, b - a <= k
  PROVE  a % (k + 1) # b % (k + 1)
  <1>0. PICK n \in Nat \ {0} : n = k + 1
    OBVIOUS
  <1>1. PICK p \in Nat, q \in Nat, r \in 0 .. n - 1, s \in 0 .. n - 1 :
          p = a \div n /\ q = b \div n /\ r = a % n /\ s = b % n
    BY Remainders
  <1>2. a = n * p + r /\ b = n * q + s
    BY <1>1, Remainders
  <1>3. SUFFICES ASSUME r = s PROVE FALSE
    BY <1>0, <1>1
  <1>4. CASE p < q
    <2>1. n * p + n <= n * q
      BY <1>4, ProductsInOrder
    <2> QED BY <1>0, <1>2, <1>3, <2>1
  <1>5. CASE q < p
    <2>1. n * q + n <= n * p
      BY <1>5, ProductsInOrder
    <2> QED BY <1>0, <1>2, <1>3, <2>1
  <1>6. CASE p = q
    BY <1>2, <1>3, <1>6
  <1> QED BY <1>4, <1>5, <1>6

(* What the passes make of the image does not depend on how far they got. *)
LEMMA AfterFrame ==
  ASSUME UNCHANGED <<call, mask, orig>>
  PROVE  After' = After
  BY DEF After, Everywhere, Filtered, image_get_mask_pixel, Window, At, Height, Width, ksize

(* The image after each pass, defined by recursion. *)
LEMMA AfterProperties ==
  ASSUME Len(call.kernels) \in Nat
  PROVE  /\ After[0] = orig
         /\ \A n \in 1 .. Len(call.kernels) : After[n] = Everywhere(After[n - 1], call.kernels[n])
  <1> DEFINE N == Len(call.kernels)
  <1> DEFINE Body(f, m) ==
         [n \in 0 .. m |-> IF n = 0 THEN orig ELSE Everywhere(f[n - 1], call.kernels[n])]
  <1> DEFINE T == {m \in 0 .. N : \E f : f = Body(f, m)}
  <1>1. 0 \in T
    <2>1. PICK f : f = [n \in 0 .. 0 |-> orig]
      OBVIOUS
    <2>2. f = Body(f, 0)
      BY <2>1
    <2> QED BY <2>2
  <1>2. ASSUME NEW m \in 0 .. N - 1, m \in T PROVE m + 1 \in T
    <2>1. PICK f : f = Body(f, m)
      BY <1>2
    <2>2. PICK w : w = Everywhere(f[m], call.kernels[m + 1])
      OBVIOUS
    <2>3. PICK g : g = [n \in 0 .. m + 1 |-> IF n = m + 1 THEN w ELSE f[n]]
      OBVIOUS
    <2>4. \A n \in 0 .. m : g[n] = f[n]
      BY <2>3
    <2>5. ASSUME NEW n \in 0 .. m + 1
          PROVE  g[n] = IF n = 0 THEN orig ELSE Everywhere(g[n - 1], call.kernels[n])
      <3>1. CASE n = m + 1
        <4>1. g[n] = w /\ g[n - 1] = f[m] /\ n # 0 /\ n - 1 = m
          BY <2>3, <2>4, <3>1
        <4> QED BY <2>2, <3>1, <4>1
      <3>2. CASE n # m + 1 /\ n # 0
        <4>1. n \in 0 .. m /\ n - 1 \in 0 .. m
          BY <3>2
        <4>2. g[n] = f[n] /\ g[n - 1] = f[n - 1]
          BY <2>4, <4>1
        <4>3. f[n] = Everywhere(f[n - 1], call.kernels[n])
          BY <2>1, <3>2, <4>1
        <4> QED BY <3>2, <4>2, <4>3
      <3>3. CASE n = 0
        BY <2>1, <2>4, <3>3
      <3> QED BY <3>1, <3>2, <3>3
    <2>6. g = Body(g, m + 1)
      BY <2>3, <2>5
    <2>7. m + 1 \in 0 .. N
      OBVIOUS
    <2> QED BY <2>6, <2>7
  <1>3. N \in T
    <2> HIDE DEF T
    <2>1. \A i \in 0 .. N : i \in T
      BY <1>1, <1>2, InductionUpTo
    <2> QED BY <2>1
  <1>4. PICK f : f = Body(f, N)
    BY <1>3
  <1>5. After = Body(After, N)
    BY <1>4 DEF After
  <1> QED BY <1>5

(* A pass keeps the shape of the image. *)
Shaped(im) ==
  /\ DOMAIN im = DOMAIN orig
  /\ im = [r \in DOMAIN im |-> im[r]]
  /\ \A r \in DOMAIN orig : DOMAIN im[r] = DOMAIN orig[r]

LEMMA EverywhereProperties ==
  ASSUME NEW im, Shaped(im), NEW a
  PROVE  /\ Shaped(Everywhere(im, a))
         /\ \A r \in DOMAIN orig :
              Everywhere(im, a)[r] = [x \in DOMAIN orig[r] |-> Filtered(im, <<r, x>>, ksize, a)]
  BY DEF Shaped, Everywhere

LEMMA AfterShaped ==
  ASSUME Len(call.kernels) \in Nat, IsPicture(orig)
  PROVE  \A n \in 0 .. Len(call.kernels) : Shaped(After[n])
  <1> DEFINE T == {n \in 0 .. Len(call.kernels) : Shaped(After[n])}
  <1>1. 0 \in T
    <2>1. Shaped(orig)
      BY DEF Shaped, IsPicture, Pictures
    <2> QED BY <2>1, AfterProperties
  <1>2. ASSUME NEW n \in 0 .. Len(call.kernels) - 1, n \in T PROVE n + 1 \in T
    <2>1. n + 1 \in 1 .. Len(call.kernels) /\ n + 1 - 1 = n
      OBVIOUS
    <2>2. After[n + 1] = Everywhere(After[n], call.kernels[n + 1])
      BY <2>1, AfterProperties
    <2>3. Shaped(After[n + 1])
      BY <1>2, <2>2, EverywhereProperties
    <2> QED BY <2>1, <2>3
  <1>3. \A n \in 0 .. Len(call.kernels) : n \in T
    <2> HIDE DEF T
    <2> QED BY <1>1, <1>2, InductionUpTo
  <1> QED BY <1>3

(* Height and width of the image as numbers of rows and columns. *)
LEMMA PictureProperties ==
  ASSUME IsPicture(orig)
  PROVE  /\ Height(orig) \in Nat \ {0} /\ Width(orig) \in Nat \ {0}
         /\ DOMAIN orig = 0 .. Height(orig) - 1
         /\ 0 \in DOMAIN orig
         /\ \A r \in DOMAIN orig : DOMAIN orig[r] = 0 .. Width(orig) - 1
         /\ \A im : Shaped(im) => Height(im) = Height(orig) /\ Width(im) = Width(orig)
  <1>1. /\ Height(orig) \in Nat \ {0} /\ Width(orig) \in Nat \ {0}
        /\ orig \in [0 .. Height(orig) - 1 -> [0 .. Width(orig) - 1 -> 0 .. MaxPixel]]
    BY DEF IsPicture, Pictures
  <1>2. DOMAIN orig = 0 .. Height(orig) - 1 /\ 0 \in DOMAIN orig
    BY <1>1
  <1>3. \A r \in DOMAIN orig : DOMAIN orig[r] = 0 .. Width(orig) - 1
    BY <1>1, <1>2
  <1>4. \A im : Shaped(im) => Height(im) = Height(orig) /\ Width(im) = Width(orig)
    BY <1>2 DEF Shaped, Height, Width
  <1> QED BY <1>1, <1>2, <1>3, <1>4

(* A window sees only rows from ksize above its centre on. *)
LEMMA WindowSees ==
  ASSUME IsPicture(orig), NEW im, NEW om, Shaped(im), Shaped(om), NEW k \in Nat,
         NEW n \in DOMAIN orig, NEW x,
         \A r \in DOMAIN orig : r >= n - k => im[r] = om[r]
  PROVE  Window(im, <<n, x>>, k) = Window(om, <<n, x>>, k)
  <1>1. /\ Height(im) = Height(orig) /\ Width(im) = Width(orig)
        /\ Height(om) = Height(orig) /\ Width(om) = Width(orig)
    BY PictureProperties
  <1>2. PICK s \in Nat \ {0} : s = Side(k)
    BY DEF Side
  <1>3. PICK h \in Nat \ {0} : h = Height(orig) /\ DOMAIN orig = 0 .. h - 1
    BY PictureProperties
  <1>4. ASSUME NEW i \in 1 .. s * s
        PROVE  im[Clamp(n - k + ((i - 1) \div s), 0, h - 1)] = om[Clamp(n - k + ((i - 1) \div s), 0, h - 1)]
    <2>1. i - 1 \in Nat
      OBVIOUS
    <2>2. PICK q \in Nat : q = (i - 1) \div s
      BY <2>1, Remainders
    <2>3. n \in 0 .. h - 1
      BY <1>3
    <2>4. Clamp(n - k + q, 0, h - 1) \in 0 .. h - 1 /\ Clamp(n - k + q, 0, h - 1) >= n - k
      BY <2>3 DEF Clamp
    <2> QED BY <1>3, <2>2, <2>4
  <1>5. <<n, x>>[1] = n /\ <<n, x>>[2] = x
    OBVIOUS
  <1>6. Window(im, <<n, x>>, k) = [i \in 1 .. s * s |->
            im[Clamp(n - k + ((i - 1) \div s), 0, h - 1)]
              [Clamp(x - k + ((i - 1) % s), 0, Width(orig) - 1)]]
    BY <1>1, <1>2, <1>3, <1>5, Zenon DEF Window
  <1>7. Window(om, <<n, x>>, k) = [i \in 1 .. s * s |->
            om[Clamp(n - k + ((i - 1) \div s), 0, h - 1)]
              [Clamp(x - k + ((i - 1) % s), 0, Width(orig) - 1)]]
    BY <1>1, <1>2, <1>3, <1>5, Zenon DEF Window
  <1> QED BY <1>4, <1>6, <1>7, Zenon

(* The pass in progress and the kernel it applies. *)
LEMMA PassProperties ==
  ASSUME FilterCall, PassInv, passes # <<>>
  PROVE  /\ Len(call.kernels) \in Nat
         /\ Done \in 0 .. Len(call.kernels) - 1
         /\ Shaped(After[Done]) /\ Shaped(After[Done + 1])
         /\ \A r \in DOMAIN orig : After[Done + 1][r] =
              [x \in DOMAIN orig[r] |-> Filtered(After[Done], <<r, x>>, ksize, Head(passes))]
  <1>1. PICK S : S = Range(call.kernels)
    OBVIOUS
  <1>2. call.kernels \in Seq(S) /\ passes \in Seq(S)
    BY <1>1 DEF FilterCall
  <1>3. Len(call.kernels) \in Nat /\ Len(passes) \in Nat \ {0}
    BY <1>2, LenProperties, EmptySeq
  <1>4. Done \in 0 .. Len(call.kernels) - 1 /\ 1 \in 1 .. Len(passes)
    BY <1>3 DEF PassInv, Done
  <1>5. passes[1] = call.kernels[Done + 1]
    BY <1>4 DEF PassInv
  <1>6. Head(passes) = call.kernels[Done + 1]
    BY <1>2, <1>5 
  <1>7. Done \in 0 .. Len(call.kernels) /\ Done + 1 \in 1 .. Len(call.kernels) /\ Done + 1 - 1 = Done
    BY <1>3, <1>4
  <1>8. After[Done + 1] = Everywhere(After[Done], Head(passes))
    BY <1>3, <1>6, <1>7, AfterProperties
  <1>9. Shaped(After[Done])
    BY <1>3, <1>7, AfterShaped DEF FilterCall
  <1> QED BY <1>3, <1>4, <1>8, <1>9, EverywhereProperties

(* The row at y is computed from rows that have not been replaced. *)
LEMMA RowIsRight ==
  ASSUME FilterCall, PassInv, RowsInv, passes # <<>>, y \in DOMAIN orig
  PROVE  /\ Shaped(img)
         /\ [x \in DOMAIN img[y] |-> Filtered(img, <<y, x>>, ksize, Head(passes))] = After[Done + 1][y]
  <1>0. IsPicture(orig) /\ ksize \in Nat
    BY DEF FilterCall
  <1>1. Shaped(img)
    <2>1. \A r \in DOMAIN orig : DOMAIN After[Done][r] = DOMAIN orig[r] /\ DOMAIN After[Done + 1][r] = DOMAIN orig[r]
      BY PassProperties DEF Shaped
    <2> QED BY <2>1 DEF RowsInv, Shaped
  <1>2. y \in Nat
    BY <1>0, PictureProperties
  <1>3. ASSUME NEW r \in DOMAIN orig, r >= y - ksize PROVE img[r] = After[Done][r]
    <2>1. r \in Nat
      BY <1>0, PictureProperties
    <2>2. ~ (r < y - ksize)
      BY <1>0, <1>2, <1>3, <2>1
    <2> QED BY <2>2 DEF RowsInv
  <1>4. ASSUME NEW x \in DOMAIN orig[y]
        PROVE  Filtered(img, <<y, x>>, ksize, Head(passes))
                 = Filtered(After[Done], <<y, x>>, ksize, Head(passes))
    <2>1. Window(img, <<y, x>>, ksize) = Window(After[Done], <<y, x>>, ksize)
      BY <1>0, <1>1, <1>3, PassProperties, WindowSees
    <2>2. img[y] = After[Done][y]
      BY <1>0, <1>2, <1>3
    <2>3. At(img, <<y, x>>) = At(After[Done], <<y, x>>)
      BY <2>2 DEF At
    <2> QED BY <2>1, <2>3 DEF Filtered
  <1>5. DOMAIN img[y] = DOMAIN orig[y]
    BY <1>1 DEF Shaped
  <1> QED BY <1>1, <1>4, <1>5, PassProperties

LEMMA FilterCallKept ==
  ASSUME FilterCall, UNCHANGED <<call, orig, step>>, passes' \in Seq(Range(call.kernels))
  PROVE  FilterCall'
  <1>1. IsPicture(orig)' /\ Height(orig)' = Height(orig) /\ ksize' = ksize
    BY DEF FilterCall, IsPicture, Pictures, Height, Width, ksize
  <1>2. Range(call.kernels)' = Range(call.kernels)
    BY DEF Range
  <1> QED BY <1>1, <1>2 DEF FilterCall

(* A row goes into the ring; the one that leaves it was computed there. *)
LEMMA FilterRowKeeps ==
  ASSUME FilterCall, PassInv, RowsInv, RingInv, FilterRow
  PROVE  PassInv' /\ RowsInv' /\ RingInv'
  <1>0. IsPicture(orig) /\ ksize \in Nat
    BY DEF FilterCall
  <1>1. /\ passes # <<>>
        /\ UNCHANGED <<call, returned, mask, orig, passes>>
        /\ y' = y + 1
        /\ y < Height(img)
    BY DEF FilterRow
  <1>2. PICK h \in Nat \ {0} : h = Height(orig) /\ DOMAIN orig = 0 .. h - 1
    BY <1>0, PictureProperties
  <1>3. Height(img) = h
    BY <1>2 DEF RowsInv, Height
  <1>4. y \in 0 .. h - 1
    BY <1>1, <1>2, <1>3 DEF PassInv
  <1>5. PICK k \in Nat : k = ksize
    BY <1>0
  <1>6. Shaped(img)
        /\ [x \in DOMAIN img[y] |-> Filtered(img, <<y, x>>, ksize, Head(passes))] = After[Done + 1][y]
    BY <1>1, <1>2, <1>4, RowIsRight
  <1>7. /\ buf' = [buf EXCEPT ![y % (k + 1)] = After[Done + 1][y]]
        /\ img' = IF y >= k THEN [img EXCEPT ![y - k] = buf'[(y - k) % (k + 1)]] ELSE img
    <2>1. \A n : RingRow(n) = n % (k + 1)
      BY <1>5 DEF RingRow, brows
    <2>2. /\ buf' = [buf EXCEPT ![RingRow(y)] =
                       [x \in DOMAIN img[y] |-> Filtered(img, <<y, x>>, ksize, Head(passes))]]
          /\ img' = IF y >= ksize THEN [img EXCEPT ![y - ksize] = buf'[RingRow(y - ksize)]] ELSE img
      BY DEF FilterRow
    <2> HIDE DEF RingRow
    <2>3. buf' = [buf EXCEPT ![y % (k + 1)] = After[Done + 1][y]]
      BY <1>6, <2>1, <2>2, Zenon
    <2>4. img' = IF y >= k THEN [img EXCEPT ![y - k] = buf'[(y - k) % (k + 1)]] ELSE img
      <3>1. buf'[RingRow(y - k)] = buf'[(y - k) % (k + 1)]
        BY <2>1
      <3>2. img' = IF y >= k THEN [img EXCEPT ![y - k] = buf'[RingRow(y - k)]] ELSE img
        BY <1>5, <2>2
      <3> QED BY <3>1, <3>2
    <2> QED BY <2>3, <2>4
  <1>8. \A r \in Nat : r % (k + 1) \in 0 .. k
    OBVIOUS
  <1>9. buf'[y % (k + 1)] = After[Done + 1][y] /\ DOMAIN buf' = 0 .. k
    BY <1>4, <1>5, <1>7, <1>8 DEF RingInv
  <1>10. ASSUME NEW r \in 0 .. h - 1, r < y + 1, r >= y - k
         PROVE  buf'[r % (k + 1)] = After[Done + 1][r]
    <2>1. CASE r = y
      BY <1>9, <2>1
    <2>2. CASE r < y
      <3>1. r \in Nat /\ y \in Nat /\ y - r <= k
        BY <1>4, <1>10
      <3>2. r % (k + 1) # y % (k + 1)
        BY <2>2, <3>1, RingApart
      <3>3. buf'[r % (k + 1)] = buf[r % (k + 1)]
        BY <1>5, <1>7, <1>8, <3>1, <3>2 DEF RingInv
      <3>4. r >= y - k - 1
        BY <1>10, <3>1
      <3>5. buf[r % (k + 1)] = After[Done + 1][r]
        BY <1>2, <1>5, <2>2, <3>4 DEF RingInv, RingRow, brows
      <3> QED BY <3>3, <3>5
    <2> QED BY <1>4, <1>10, <2>1, <2>2
  <1>11. After' = After /\ Done' = Done /\ ksize' = k /\ Height(orig)' = h /\ (DOMAIN orig)' = 0 .. h - 1
    BY <1>1, <1>2, <1>5, AfterFrame DEF Done, ksize, Height
  <1>12. PassInv'
    <2>1. (y + 1) \in 0 .. h
      BY <1>4
    <2> QED BY <1>1, <1>2, <1>11, <2>1 DEF PassInv, Done
  <1>13. RowsInv'
    <2>1. DOMAIN img' = 0 .. h - 1 /\ img' = [r \in DOMAIN img' |-> img'[r]]
      <3>1. DOMAIN img = 0 .. h - 1 /\ img = [r \in DOMAIN img |-> img[r]]
        BY <1>2, <1>6 DEF Shaped
      <3>2. CASE y >= k
        <4>1. PICK v : img' = [img EXCEPT ![y - k] = v]
          BY <1>7, <3>2, Zenon
        <4> QED BY <3>1, <4>1
      <3>3. CASE ~ (y >= k)
        BY <1>7, <3>1, <3>3, Zenon
      <3> QED BY <3>2, <3>3
    <2>2. ASSUME NEW r \in 0 .. h - 1
          PROVE  img'[r] = After[IF r < y + 1 - k THEN Done + 1 ELSE Done][r]
      <3>1. img[r] = After[IF r < y - k THEN Done + 1 ELSE Done][r]
        BY <1>2, <1>5 DEF RowsInv
      <3>2. CASE r = y - k
        <4>1. y >= k /\ r < y + 1 - k /\ y - k \in 0 .. h - 1 /\ r < y + 1 /\ r >= y - k
          BY <1>4, <3>2
        <4>2. img'[r] = buf'[r % (k + 1)]
          BY <1>2, <1>6, <1>7, <3>2, <4>1 DEF Shaped
        <4>3. buf'[r % (k + 1)] = After[Done + 1][r]
          BY <1>10, <4>1
        <4> QED BY <4>1, <4>2, <4>3
      <3>3. CASE r # y - k
        <4>1. (r < y + 1 - k) <=> (r < y - k)
          BY <1>4, <3>3
        <4>2. img'[r] = img[r]
          BY <1>2, <1>4, <1>6, <1>7, <3>3 DEF Shaped
        <4> QED BY <3>1, <4>1, <4>2
      <3> QED BY <3>2, <3>3
    <2>3. y' - k = y + 1 - k
      BY <1>1, <1>4
    <2> QED BY <1>11, <2>1, <2>2, <2>3 DEF RowsInv
  <1>14. RingInv'
    <2>1. ASSUME NEW r \in 0 .. h - 1, r < y + 1, r >= y + 1 - k - 1
          PROVE  buf'[r % (k + 1)] = After[Done + 1][r]
      <3>1. r >= y - k
        BY <1>4, <2>1
      <3> QED BY <1>10, <2>1, <3>1
    <2> QED BY <1>1, <1>4, <1>9, <1>11, <2>1 DEF RingInv, RingRow, brows
  <1> QED BY <1>12, <1>13, <1>14

(* The last rows are copied from the ring, and the pass is over. *)
LEMMA CopyRemainingKeeps ==
  ASSUME FilterCall, PassInv, RowsInv, RingInv, CopyRemaining, step' = step
  PROVE  FilterCall' /\ PassInv' /\ RowsInv' /\ RingInv'
  <1>0. IsPicture(orig) /\ ksize \in Nat
    BY DEF FilterCall
  <1>1. /\ passes # <<>> /\ passes' = Tail(passes)
        /\ UNCHANGED <<call, returned, mask, orig, buf>>
        /\ y' = 0
        /\ y = Height(img)
    BY DEF CopyRemaining
  <1>2. PICK h \in Nat \ {0} : h = Height(orig) /\ DOMAIN orig = 0 .. h - 1
    BY <1>0, PictureProperties
  <1>3. y = h /\ Height(img) = h /\ DOMAIN img = 0 .. h - 1
    BY <1>1, <1>2 DEF RowsInv, Height
  <1>4. PICK k \in Nat : k = ksize /\ k <= h
    BY <1>2 DEF FilterCall
  <1>5. img' = [r \in 0 .. h - 1 |-> IF r >= h - k THEN buf[r % (k + 1)] ELSE img[r]]
    BY <1>3, <1>4 DEF CopyRemaining, RingRow, brows
  <1>6. ASSUME NEW r \in 0 .. h - 1 PROVE img'[r] = After[Done + 1][r]
    <2>1. CASE r >= h - k
      <3>1. r < y /\ r >= y - k - 1
        BY <1>3, <2>1
      <3>2. buf[r % (k + 1)] = After[Done + 1][r]
        BY <1>2, <1>4, <3>1 DEF RingInv, RingRow, brows
      <3> QED BY <1>5, <2>1, <3>2
    <2>2. CASE ~ (r >= h - k)
      <3>1. r < y - k
        BY <1>3, <2>2
      <3>2. img[r] = After[Done + 1][r]
        BY <1>2, <1>4, <3>1 DEF RowsInv
      <3> QED BY <1>5, <2>2, <3>2
    <2> QED BY <2>1, <2>2
  <1>7. PICK S : S = Range(call.kernels)
    OBVIOUS
  <1>8. passes \in Seq(S)
    BY <1>7 DEF FilterCall
  <1>9. /\ Tail(passes) \in Seq(S) /\ Len(passes) \in Nat \ {0}
        /\ Len(Tail(passes)) = Len(passes) - 1
        /\ \A i \in 1 .. Len(passes) - 1 : Tail(passes)[i] = passes[i + 1]
    BY <1>1, <1>8, HeadTailProperties, LenProperties, EmptySeq
  <1>10. Len(call.kernels) \in Nat /\ Done \in 0 .. Len(call.kernels) - 1
    BY <1>1, PassProperties
  <1>11. After' = After /\ Done' = Done + 1 /\ ksize' = k /\ Height(orig)' = h /\ (DOMAIN orig)' = 0 .. h - 1
    <2>1. Done' = Len(call.kernels) - (Len(passes) - 1)
      BY <1>1, <1>9 DEF Done
    <2>2. Done' = Done + 1
      BY <1>9, <1>10, <2>1 DEF Done
    <2> QED BY <1>1, <1>2, <1>4, <2>2, AfterFrame DEF ksize, Height
  <1>12. FilterCall'
    <2>1. passes' \in Seq(Range(call.kernels))
      BY <1>1, <1>7, <1>9
    <2> QED BY <1>1, <2>1, FilterCallKept
  <1>13. PassInv'
    <2>1. ASSUME NEW n \in 1 .. Len(passes) - 1
          PROVE  Tail(passes)[n] = call.kernels[Done + 1 + n]
      <3>1. n + 1 \in 1 .. Len(passes) /\ Done + (n + 1) = Done + 1 + n
        BY <1>9, <1>10
      <3>2. passes[n + 1] = call.kernels[Done + (n + 1)]
        BY <3>1 DEF PassInv
      <3> QED BY <1>9, <3>1, <3>2
    <2>2. Done + 1 \in 0 .. Len(call.kernels) /\ 0 \in 0 .. h
      BY <1>10
    <2> QED BY <1>1, <1>9, <1>11, <2>1, <2>2 DEF PassInv
  <1>14. RowsInv'
    <2>1. \A r \in 0 .. h - 1 : ~ (r < 0 - k)
      OBVIOUS
    <2> QED BY <1>1, <1>5, <1>6, <1>11, <2>1 DEF RowsInv
  <1>15. RingInv'
    <2>1. \A r \in 0 .. h - 1 : ~ (r < 0)
      OBVIOUS
    <2> QED BY <1>1, <1>4, <1>11, <2>1 DEF RingInv
  <1> QED BY <1>12, <1>13, <1>14, <1>15

(* When all passes are over the image is what they make of it. *)
LEMMA FilterReturnKeeps ==
  ASSUME FilterCall, PassInv, RowsInv, FilterReturn
  PROVE  FilterExact'
  <1>1. /\ passes = <<>> /\ UNCHANGED <<call, mask, orig>>
        /\ img' = IF call.hat THEN Difference(orig, img) ELSE img
    BY DEF FilterReturn
  <1>2. Len(call.kernels) \in Nat /\ Done = Len(call.kernels) /\ Len(call.kernels) \in 0 .. Len(call.kernels)
    <2>1. PICK S : call.kernels \in Seq(S)
      BY DEF FilterCall
    <2>2. Len(call.kernels) \in Nat
      BY <2>1, LenProperties
    <2> QED BY <1>1, <2>2 DEF Done
  <1>3. IsPicture(orig) /\ ksize \in Nat
    BY DEF FilterCall
  <1>4. PICK h \in Nat \ {0} : DOMAIN orig = 0 .. h - 1
    BY <1>3, PictureProperties
  <1>5. \A r \in 0 .. h - 1 : ~ (r < 0 - ksize)
    BY <1>3
  <1>6. \A r \in DOMAIN orig : img[r] = After[Done][r]
    BY <1>1, <1>4, <1>5 DEF RowsInv, PassInv
  <1>7. Shaped(After[Done])
    BY <1>2, <1>3, AfterShaped
  <1>8. img = After[Done]
    BY <1>6, <1>7 DEF Shaped, RowsInv
  <1>9. After' = After
    BY <1>1, AfterFrame
  <1>10. AfterPasses' = img
    BY <1>1, <1>2, <1>8, <1>9 DEF AfterPasses
  <1>11. Difference(orig, img) = Difference(orig, AfterPasses)'
    BY <1>1, <1>10 DEF Difference, image_get_mask_pixel
  <1> QED BY <1>1, <1>10, <1>11 DEF FilterExact

(* Another function's step is not possible during a filter. *)
LEMMA FilterNextKeeps ==
  ASSUME FilterIInv, [Next]_vars, call.fn = "filter"
  PROVE  FilterIInv'
  <1> USE DEF FilterIInv
  <1>1. FilterCall /\ step = "none"
    BY DEF FilterCall
  <1>2. CASE FilterNext /\ UNCHANGED <<lineVars, fillVars, blobVars>>
    <2>1. UNCHANGED <<call, orig, step>> /\ ~returned
      BY <1>2 DEF FilterNext, FilterRow, CopyRemaining, FilterReturn, fillVars, Running
    <2>2. PassInv /\ RowsInv /\ RingInv
      BY <2>1
    <2>3. CASE FilterRow
      <3>1. FilterCall'
        BY <1>1, <2>1, <2>3, FilterCallKept DEF FilterRow, FilterCall
      <3>2. ~returned'
        BY <2>1, <2>3 DEF FilterRow
      <3> QED BY <1>1, <2>2, <2>3, <3>1, <3>2, FilterRowKeeps
    <2>4. CASE CopyRemaining
      <3>1. ~returned'
        BY <2>1, <2>4 DEF CopyRemaining
      <3> QED BY <1>1, <2>1, <2>2, <2>4, <3>1, CopyRemainingKeeps
    <2>5. CASE FilterReturn
      <3>1. FilterCall'
        BY <1>1, <2>1, <2>5, FilterCallKept DEF FilterReturn, filterVars, FilterCall
      <3>2. returned'
        BY <2>5 DEF FilterReturn, Return
      <3> QED BY <1>1, <2>2, <2>5, <3>1, <3>2, FilterReturnKeeps
    <2> QED BY <1>2, <2>3, <2>4, <2>5 DEF FilterNext
  <1>3. CASE UNCHANGED vars
    <2>1. UNCHANGED <<call, mask, orig, img, returned, passes, y, buf, step>>
      BY <1>3 DEF vars, imageVars, filterVars, fillVars
    <2>2. FilterCall'
      BY <1>1, <2>1, FilterCallKept DEF FilterCall
    <2>3. After' = After
      BY <2>1, AfterFrame
    <2>4. Done' = Done /\ ksize' = ksize /\ Height(orig)' = Height(orig)
          /\ AfterPasses' = AfterPasses /\ Difference(orig, AfterPasses)' = Difference(orig, AfterPasses)
      BY <2>1, <2>3 DEF Done, ksize, Height, AfterPasses, Difference, image_get_mask_pixel
    <2>5. PassInv => PassInv'
      BY <2>1, <2>4 DEF PassInv
    <2>6. RowsInv => RowsInv'
      BY <2>1, <2>3, <2>4 DEF RowsInv
    <2>7. RingInv => RingInv'
      BY <2>1, <2>3, <2>4 DEF RingInv, RingRow, brows
    <2>8. FilterExact => FilterExact'
      BY <2>1, <2>4 DEF FilterExact
    <2> QED BY <2>1, <2>2, <2>5, <2>6, <2>7, <2>8
  <1>4. ~ LineNext
    BY DEF LineNext, OperateLine, LineReturn, Running
  <1>5. ~ FillNext
    BY <1>1 DEF FillNext, FillLine, FillRecurse, FillPop, imlib_flood_fill, FloodPaint,
                imlib_cartoon_filter, CartoonFill
  <1>6. ~ BlobsNext
    BY <1>1 DEF BlobsNext, SeekBlob, KeepBlob, MergeFirst, MergePass, BlobsReturn
  <1> QED BY <1>2, <1>3, <1>4, <1>5, <1>6 DEF Next

(* No step changes the function called. *)
LEMMA CallKept ==
  ASSUME [Next]_vars
  PROVE  call' = call /\ mask' = mask /\ orig' = orig
  <1> USE DEF imageVars
  <1>1. FilterNext => UNCHANGED <<call, mask, orig>>
    BY DEF FilterNext, FilterRow, CopyRemaining, FilterReturn
  <1>2. LineNext => UNCHANGED <<call, mask, orig>>
    BY DEF LineNext, OperateLine, LineReturn
  <1>3. FillNext => UNCHANGED <<call, mask, orig>>
    BY DEF FillNext, FillLine, FillRecurse, FillPop, imlib_flood_fill, FloodPaint,
           imlib_cartoon_filter, CartoonFill
  <1>4. BlobsNext => UNCHANGED <<call, mask, orig>>
    BY DEF BlobsNext, SeekBlob, KeepBlob, MergeFirst, MergePass, BlobsReturn
  <1> QED BY <1>1, <1>2, <1>3, <1>4 DEF Next, vars

LEMMA FilterBegins ==
  ASSUME TallEnough, Init
  PROVE  FilterIInv
  <1> SUFFICES ASSUME call.fn = "filter" PROVE FilterIInv
    BY DEF FilterIInv
  <1>1. orig = img /\ returned = FALSE
    BY DEF Init
  <1>2. PICK j \in FilterJobs :
            /\ img \in j.pictures
            /\ IF j.hat = "top" THEN imlib_top_hat(j.k, j.t)
               ELSE IF j.hat = "black" THEN imlib_black_hat(j.k, j.t)
               ELSE filter(j.kernels, j.k)
            /\ FillIdle
    BY JobsAssumption DEF Init, imlib_image_operation, BeginFlood, BeginCartoon, imlib_find_blobs, BeginFill
  <1>3. \E ks, hat : Begin(j.k, ks, hat) /\ ks \in Seq(Range(ks))
    <2>1. ASSUME NEW a, NEW b PROVE <<a, b>> \in Seq(Range(<<a, b>>))
      BY DEF Range
    <2>2. CASE j.hat = "top"
      BY <1>2, <2>1, <2>2 DEF imlib_top_hat, imlib_open
    <2>3. CASE j.hat = "black"
      BY <1>2, <2>1, <2>3 DEF imlib_black_hat, imlib_close
    <2>4. CASE j.hat \notin {"top", "black"}
      BY <1>2, <2>4, JobsAssumption DEF filter
    <2> QED BY <2>2, <2>3, <2>4
  <1>4. PICK ks, hat : Begin(j.k, ks, hat) /\ ks \in Seq(Range(ks))
    BY <1>3
  <1>5. /\ call.ksize = j.k /\ call.kernels = ks /\ passes = ks /\ y = 0
        /\ buf = [r \in 0 .. j.k |-> [x \in DOMAIN img[0] |-> 0]]
    BY <1>4 DEF Begin
  <1>6. IsPicture(orig) /\ j.k \in Nat /\ Height(orig) >= j.k
    BY <1>1, <1>2, JobsAssumption DEF TallEnough
  <1>7. FilterCall
    BY <1>2, <1>4, <1>5, <1>6 DEF FilterCall, FillIdle, ksize
  <1>8. PICK S : ks \in Seq(S)
    BY <1>4
  <1>9. Len(ks) \in Nat /\ Done = 0
    BY <1>5, <1>8, LenProperties DEF Done
  <1>10. PICK h \in Nat \ {0} : h = Height(orig) /\ DOMAIN orig = 0 .. h - 1
    BY <1>6, PictureProperties
  <1>11. PassInv
    BY <1>5, <1>9, <1>10 DEF PassInv
  <1>12. RowsInv
    <2>1. After[Done] = orig
      BY <1>5, <1>9, AfterProperties
    <2>2. orig = [r \in DOMAIN orig |-> orig[r]]
      BY <1>6 DEF IsPicture, Pictures
    <2>3. \A r \in 0 .. h - 1 : ~ (r < y - ksize)
      BY <1>5, <1>6 DEF ksize
    <2> QED BY <1>1, <1>10, <2>1, <2>2, <2>3 DEF RowsInv
  <1>13. RingInv
    <2>1. \A r \in 0 .. h - 1 : ~ (r < 0)
      OBVIOUS
    <2> QED BY <1>5, <1>10, <2>1 DEF RingInv, ksize
  <1> QED BY <1>1, <1>7, <1>11, <1>12, <1>13 DEF FilterIInv

(***************************************************************************)
(* For images of any size and at least as high as the window's radius, any *)
(* mask and any kernels, the window filters and the morphology functions   *)
(* give every pixel the value its kernel has on the image before the pass: *)
(* no window ever sees a row that was written back.                        *)
(***************************************************************************)
THEOREM FiltersAreExact == TallEnough /\ Spec => []FilterExact
  <1> SUFFICES ASSUME TallEnough PROVE Spec => []FilterExact
    OBVIOUS
  <1>1. Init => FilterIInv
    BY FilterBegins
  <1>2. FilterIInv /\ [Next]_vars => FilterIInv'
    <2> SUFFICES ASSUME FilterIInv, [Next]_vars PROVE FilterIInv'
      OBVIOUS
    <2>1. CASE call.fn = "filter"
      BY <2>1, FilterNextKeeps
    <2>2. CASE call.fn # "filter"
      BY <2>2, CallKept DEF FilterIInv
    <2> QED BY <2>1, <2>2
  <1>3. FilterIInv => FilterExact
    BY DEF FilterIInv, FilterExact
  <1> QED BY <1>1, <1>2, <1>3, PTL DEF Spec

-----------------------------------------------------------------------------
(* Line operations: the order in which the lines are taken. *)

LEMMA RemainderOf ==
  ASSUME NEW n \in Nat \ {0}, NEW q \in Nat, NEW r \in 0 .. n - 1, NEW a \in Nat, a = n * q + r
  PROVE  a % n = r
  <1>1. PICK p \in Nat, s \in 0 .. n - 1 : p = a \div n /\ s = a % n
    BY Remainders
  <1>2. a = n * p + s
    BY <1>1, Remainders
  <1>3. CASE p < q
    <2>1. n * p + n <= n * q
      BY <1>3, ProductsInOrder
    <2> QED BY <1>2, <2>1
  <1>4. CASE q < p
    <2>1. n * q + n <= n * p
      BY <1>4, ProductsInOrder
    <2> QED BY <1>2, <2>1
  <1>5. CASE p = q
    BY <1>1, <1>2, <1>5
  <1> QED BY <1>3, <1>4, <1>5

(* The next number has the next remainder and quotient, or remainder 0.    *)
LEMMA NextRemainder ==
  ASSUME NEW n \in Nat \ {0}, NEW a \in Nat, (a + 1) % n # 0
  PROVE  (a + 1) % n = (a % n) + 1
  <1>1. PICK q \in Nat, r \in 0 .. n - 1 : q = a \div n /\ r = a % n
    BY Remainders
  <1>2. a = n * q + r
    BY <1>1, Remainders
  <1>3. CASE r < n - 1
    <2>1. r + 1 \in 0 .. n - 1 /\ a + 1 = n * q + (r + 1) /\ a + 1 \in Nat
      BY <1>2, <1>3
    <2> QED BY <1>1, <2>1, RemainderOf
  <1>4. CASE r = n - 1
    <2>1. PICK c \in Nat, p \in Nat, z \in 0 .. n - 1 : c = a + 1 /\ p = q + 1 /\ z = 0
      OBVIOUS
    <2>2. c = n * p + z
      BY <1>2, <1>4, <2>1
    <2>3. c % n = z
      BY <2>2, RemainderOf
    <2> QED BY <2>1, <2>3
  <1> QED BY <1>3, <1>4

(* Windows of n lines taken from the last to the first, each in order: the *)
(* place in the file and the line found there determine each other.        *)
LEMMA BackwardPlace ==
  ASSUME NEW n \in Nat \ {0}, NEW m \in Nat, NEW q \in Nat, q < m, NEW r \in 0 .. n - 1,
         NEW h \in Nat, h = n * m, NEW a \in Nat, a = n * q + r
  PROVE  /\ h - (a - r) - n + r \in 0 .. h - 1
         /\ (h - (a - r) - n + r) % n = r
         /\ h - ((h - (a - r) - n + r) - r) - n + r = a
         /\ a - r + n <= h
  <1>1. PICK p \in Nat : p = n * q
    OBVIOUS
  <1>2. a = p + r
    BY <1>1
  <1>3. n * q + n <= n * m
    BY ProductsInOrder
  <1>4. p + n <= h
    BY <1>1, <1>3
  <1>5. PICK b \in Nat : b = h - p - n + r
    BY <1>4
  <1>6. h - (a - r) - n + r = b
    BY <1>2, <1>5
  <1>7. b \in 0 .. h - 1 /\ h - (b - r) - n + r = a /\ a - r + n <= h
    BY <1>2, <1>4, <1>5
  <1>8. PICK d \in Nat : d = m - 1 - q
    OBVIOUS
  <1>9. n * d = n * m - n - n * q
    BY <1>8
  <1>10. b = n * d + r
    BY <1>1, <1>5, <1>9
  <1>11. b % n = r
    BY <1>10, RemainderOf
  <1> QED BY <1>6, <1>7, <1>11

LEMMA BackwardWindows ==
  ASSUME NEW n \in Nat \ {0}, NEW h \in Nat, h % n = 0, NEW a \in 0 .. h - 1
  PROVE  \E b \in 0 .. h - 1 :
           /\ b = h - (a - (a % n)) - n + (a % n)
           /\ h - (b - (b % n)) - n + (b % n) = a
           /\ a - (a % n) + n <= h
  <1>0. a \in Nat
    OBVIOUS
  <1>1. PICK q \in Nat, r \in 0 .. n - 1 : q = a \div n /\ r = a % n
    BY <1>0, Remainders
  <1>2. a = n * q + r
    BY <1>0, <1>1, Remainders
  <1>3. PICK m \in Nat : m = h \div n
    BY Remainders
  <1>4. h = n * m
    BY <1>3, Remainders
  <1>5. q < m
    <2> SUFFICES ASSUME m <= q PROVE FALSE
      OBVIOUS
    <2>1. n * m <= n * q
      BY ProductsInOrder
    <2> QED BY <1>2, <1>4, <2>1
  <1>6. PICK b : b = h - (a - r) - n + r
    OBVIOUS
  <1>7. b \in 0 .. h - 1 /\ b % n = r /\ h - (b - r) - n + r = a /\ a - r + n <= h
    BY <1>0, <1>2, <1>4, <1>5, <1>6, BackwardPlace
  <1>8. h - (b - (b % n)) - n + (b % n) = a
    BY <1>7
  <1>9. b = h - (a - (a % n)) - n + (a % n) /\ a - (a % n) + n <= h
    BY <1>1, <1>6, <1>7
  <1> QED BY <1>7, <1>8, <1>9

(* Every line is written exactly once. *)
LEMMA TakenProperties ==
  ASSUME LineCall, NEW n \in DOMAIN orig
  PROVE  Taken(n) \in DOMAIN orig /\ Taken(Taken(n)) = n
  <1>1. PICK h \in Nat \ {0} : h = Height(orig) /\ DOMAIN orig = 0 .. h - 1
    BY PictureProperties DEF LineCall
  <1>2. CASE call.from = "file" /\ call.vflipped
    <2>1. PICK k \in Nat \ {0} : k = call.lines /\ h % k = 0
      BY <1>1, <1>2 DEF LineCall
    <2>2. \A m : Taken(m) = h - (m - (m % k)) - k + (m % k)
      BY <1>1, <1>2, <2>1 DEF Taken, WindowOf
    <2>3. PICK b \in 0 .. h - 1 :
             /\ b = h - (n - (n % k)) - k + (n % k)
             /\ h - (b - (b % k)) - k + (b % k) = n
      <3>1. n \in 0 .. h - 1 /\ h \in Nat /\ h % k = 0
        BY <1>1, <2>1
      <3>2. k \in Nat \ {0}
        OBVIOUS
      <3>3. \E b \in 0 .. h - 1 :
              /\ b = h - (n - (n % k)) - k + (n % k)
              /\ h - (b - (b % k)) - k + (b % k) = n
              /\ n - (n % k) + k <= h
        BY ONLY <3>1, <3>2, BackwardWindows
      <3> QED BY <3>3, Zenon
    <2> QED BY <1>1, <2>2, <2>3, Zenon
  <1>3. CASE ~ (call.from = "file" /\ call.vflipped)
    BY <1>3 DEF Taken
  <1> QED BY <1>2, <1>3

LEMMA TargetProperties ==
  ASSUME LineCall
  PROVE  /\ \A n \in DOMAIN orig : Target(n) \in DOMAIN orig
         /\ \A m, n \in DOMAIN orig : Target(m) = Target(n) => m = n
         /\ \A r \in DOMAIN orig : \E n \in DOMAIN orig : Target(n) = r
  <1>1. PICK h \in Nat \ {0} : h = Height(orig) /\ DOMAIN orig = 0 .. h - 1
    BY PictureProperties DEF LineCall
  <1>2. \A n \in 0 .. h - 1 : Taken(n) \in 0 .. h - 1 /\ Taken(Taken(n)) = n
    BY <1>1, TakenProperties
  <1>3. CASE call.op = "replace" /\ call.vflip
    <2>1. \A n : Target(n) = h - 1 - Taken(n)
      BY <1>1, <1>3 DEF Target
    <2>2. \A n \in 0 .. h - 1 : Target(n) \in 0 .. h - 1
      BY <1>2, <2>1
    <2>3. ASSUME NEW m \in 0 .. h - 1, NEW n \in 0 .. h - 1, Target(m) = Target(n) PROVE m = n
      <3>1. Taken(m) = Taken(n)
        BY <1>2, <2>1, <2>3
      <3> QED BY <1>2, <3>1
    <2>4. ASSUME NEW r \in 0 .. h - 1 PROVE \E n \in 0 .. h - 1 : Target(n) = r
      <3>1. h - 1 - r \in 0 .. h - 1
        OBVIOUS
      <3>2. Taken(h - 1 - r) \in 0 .. h - 1 /\ Target(Taken(h - 1 - r)) = h - 1 - (h - 1 - r)
        BY <1>2, <2>1, <3>1
      <3> QED BY <3>2
    <2> QED BY <1>1, <2>2, <2>3, <2>4
  <1>4. CASE ~ (call.op = "replace" /\ call.vflip)
    <2>1. \A n : Target(n) = Taken(n)
      BY <1>4 DEF Target
    <2> QED BY <1>1, <1>2, <2>1
  <1> QED BY <1>3, <1>4

-----------------------------------------------------------------------------
(* Line operations: what one line does. *)

LEMMA MinOfTwo ==
  ASSUME NEW a \in Int, NEW b \in Int
  PROVE  Min({a, b}) = IF a <= b THEN a ELSE b
  BY DEF Min

(* The source column of column x, and the line that is written from line n. *)
Column(x) == IF call.hmirror THEN Width(orig) - x - 1 ELSE x
Written(n) == IF call.vflip THEN Height(orig) - n - 1 ELSE n

(* That line when its pixels have been replaced by those of line o. *)
Replaced(n, o) ==
  [x \in DOMAIN orig[0] |->
     IF <<Written(n), Column(x)>> \in mask THEN o[Column(x)] ELSE orig[Written(n)][x]]

(* A line replaced from left to right gets its pixels from the source.     *)
LEMMA ReplaceLine ==
  ASSUME LineCall, NEW im, Shaped(im), NEW n \in DOMAIN orig, NEW o,
         im[Written(n)] = orig[Written(n)], NEW same \in BOOLEAN, same => o = im[n] /\ ~call.hmirror /\ ~call.vflip
  PROVE  imlib_replace_line_op(im, call, n, o, same) = [im EXCEPT ![Written(n)] = Replaced(n, o)]
  <1>1. PICK w \in Nat \ {0}, h \in Nat \ {0} :
          /\ w = Width(orig) /\ h = Height(orig) /\ DOMAIN orig = 0 .. h - 1
          /\ \A r \in DOMAIN orig : DOMAIN orig[r] = 0 .. w - 1
          /\ Height(im) = h /\ Width(im) = w
    BY PictureProperties DEF LineCall
  <1>2. PICK v \in DOMAIN orig : v = Written(n)
    BY <1>1 DEF Written
  <1>3. im[v] = orig[v] /\ orig[v] = [x \in 0 .. w - 1 |-> orig[v][x]]
    BY <1>1, <1>2 DEF LineCall, IsPicture, Pictures
  <1> DEFINE Pixel(f, i) ==
         IF i = 0 THEN im[v]
         ELSE IF <<v, Column(i - 1)>> \in mask
              THEN [f[i - 1] EXCEPT ![i - 1] =
                      (IF same /\ v = n THEN f[i - 1] ELSE o)[Column(i - 1)]]
              ELSE f[i - 1]
  <1> DEFINE Body(f) == [i \in 0 .. w |-> Pixel(f, i)]
  <1>4. PICK g : g = CHOOSE f : f = Body(f)
    OBVIOUS
  <1>5. imlib_replace_line_op(im, call, n, o, same) = [im EXCEPT ![v] = g[w]]
    BY ONLY <1>1, <1>2, <1>4 DEF imlib_replace_line_op, image_get_mask_pixel, Written, Column, Body, Pixel
  <1>6. PICK F : F = [i \in 0 .. w |-> [x \in 0 .. w - 1 |->
            IF x < i /\ <<v, Column(x)>> \in mask THEN o[Column(x)] ELSE orig[v][x]]]
    OBVIOUS
  <1>7. ASSUME NEW f, NEW i \in 1 .. w, f[i - 1] = F[i - 1] PROVE Pixel(f, i) = F[i]
    <2>1. i - 1 \in 0 .. w /\ i - 1 \in 0 .. w - 1 /\ i # 0 /\ i \in 0 .. w
      OBVIOUS
    <2>2. (IF same /\ v = n THEN f[i - 1] ELSE o)[Column(i - 1)] = o[Column(i - 1)]
      <3>1. CASE same
        <4>1. v = n /\ o = orig[v] /\ Column(i - 1) = i - 1
          BY <1>2, <1>3, <3>1 DEF Written, Column
        <4>2. F[i - 1][i - 1] = orig[v][i - 1]
          BY <1>6, <2>1
        <4> QED BY <1>7, <3>1, <4>1, <4>2
      <3>2. CASE ~same
        BY <3>2
      <3> QED BY <3>1, <3>2
    <2>3. CASE <<v, Column(i - 1)>> \in mask
      <3>1. Pixel(f, i) = [F[i - 1] EXCEPT ![i - 1] = o[Column(i - 1)]]
        BY <1>7, <2>1, <2>2, <2>3
      <3>2. ASSUME NEW x \in 0 .. w - 1
            PROVE  [F[i - 1] EXCEPT ![i - 1] = o[Column(i - 1)]][x] = F[i][x]
        <4>1. F[i][x] = IF x < i /\ <<v, Column(x)>> \in mask THEN o[Column(x)] ELSE orig[v][x]
          BY <1>6, <2>1
        <4>2. F[i - 1][x] = IF x < i - 1 /\ <<v, Column(x)>> \in mask THEN o[Column(x)] ELSE orig[v][x]
          BY <1>6, <2>1
        <4>3. DOMAIN F[i - 1] = 0 .. w - 1
          BY <1>6, <2>1
        <4>4. CASE x = i - 1
          BY <2>1, <2>3, <4>1, <4>3, <4>4
        <4>5. CASE x # i - 1
          <5>1. x < i <=> x < i - 1
            BY <4>5
          <5> QED BY <4>1, <4>2, <4>3, <4>5, <5>1
        <4> QED BY <4>4, <4>5
      <3>3. /\ DOMAIN F[i] = 0 .. w - 1 /\ F[i] = [x \in 0 .. w - 1 |-> F[i][x]]
            /\ DOMAIN F[i - 1] = 0 .. w - 1
        BY <1>6, <2>1
      <3> QED BY <3>1, <3>2, <3>3
    <2>4. CASE <<v, Column(i - 1)>> \notin mask
      <3>1. Pixel(f, i) = F[i - 1]
        BY <1>7, <2>1, <2>4
      <3>2. ASSUME NEW x \in 0 .. w - 1 PROVE F[i - 1][x] = F[i][x]
        <4>1. F[i][x] = IF x < i /\ <<v, Column(x)>> \in mask THEN o[Column(x)] ELSE orig[v][x]
          BY <1>6, <2>1
        <4>2. F[i - 1][x] = IF x < i - 1 /\ <<v, Column(x)>> \in mask THEN o[Column(x)] ELSE orig[v][x]
          BY <1>6, <2>1
        <4>3. x = i - 1 \/ (x < i <=> x < i - 1)
          OBVIOUS
        <4> QED BY <2>4, <4>1, <4>2, <4>3
      <3>3. F[i] = [x \in 0 .. w - 1 |-> F[i][x]] /\ F[i - 1] = [x \in 0 .. w - 1 |-> F[i - 1][x]]
        BY <1>6, <2>1
      <3> QED BY <3>1, <3>2, <3>3
    <2> QED BY <2>3, <2>4
  <1>8. Pixel(F, 0) = F[0] /\ im[v] = F[0]
    <2>1. F[0] = [x \in 0 .. w - 1 |-> orig[v][x]]
      BY <1>6
    <2> QED BY <1>3, <2>1
  <1>9. F = Body(F)
    <2> HIDE DEF Pixel
    <2>1. \A i \in 0 .. w : Pixel(F, i) = F[i]
      BY <1>7, <1>8
    <2>2. F = [i \in 0 .. w |-> F[i]]
      BY <1>6
    <2> QED BY <2>1, <2>2
  <1>10. g = Body(g)
    <2> HIDE DEF Body
    <2> QED BY <1>4, <1>9
  <1>11. g[w] = F[w]
    <2> DEFINE T == {i \in 0 .. w : g[i] = F[i]}
    <2>1. 0 \in T
      BY <1>8, <1>10
    <2>2. ASSUME NEW i \in 0 .. w - 1, i \in T PROVE i + 1 \in T
      <3> HIDE DEF Pixel
      <3>1. PICK m \in 1 .. w : m = i + 1 /\ m - 1 = i /\ m \in 0 .. w
        OBVIOUS
      <3>2. Pixel(g, m) = F[m]
        BY <1>7, <2>2, <3>1
      <3>3. g[m] = Pixel(g, m)
        BY <1>10, <3>1
      <3> QED BY <3>1, <3>2, <3>3
    <2> HIDE DEF T, Body
    <2>3. \A i \in 0 .. w : i \in T
      BY <2>1, <2>2, InductionUpTo
    <2> QED BY <2>3 DEF T
  <1>12. F[w] = [x \in 0 .. w - 1 |-> IF <<v, Column(x)>> \in mask THEN o[Column(x)] ELSE orig[v][x]]
    <2>1. \A x \in 0 .. w - 1 : x < w
      OBVIOUS
    <2> QED BY <1>6, <2>1
  <1>13. DOMAIN orig[0] = 0 .. w - 1
    BY <1>1
  <1>14. F[w] = Replaced(n, o)
    BY <1>2, <1>12, <1>13 DEF Replaced
  <1> QED BY <1>2, <1>5, <1>11, <1>14

(* One line combined with the line n of the second image. *)
LEMMA LineApplies ==
  ASSUME LineCall, NEW im, Shaped(im), NEW n \in DOMAIN orig, NEW o,
         NEW t \in DOMAIN orig,
         t = IF call.op = "replace" /\ call.vflip THEN Height(orig) - 1 - n ELSE n,
         im[t] = orig[t],
         \A x \in DOMAIN orig[0] : o[x] = Second[n][x],
         NEW same \in BOOLEAN, same => call.from = "same" /\ o = im[n]
  PROVE  ApplyLine(im, call, n, o, same) = [im EXCEPT ![t] = ResultLine(t)]
  <1>1. PICK w \in Nat \ {0}, h \in Nat \ {0} :
          /\ w = Width(orig) /\ h = Height(orig) /\ DOMAIN orig = 0 .. h - 1
          /\ \A r \in DOMAIN orig : DOMAIN orig[r] = 0 .. w - 1
          /\ DOMAIN orig[0] = 0 .. w - 1
    BY PictureProperties DEF LineCall
  <1>2. CASE call.op = "replace"
    <2>1. t = Written(n)
      BY <1>1, <1>2 DEF Written
    <2>2. ApplyLine(im, call, n, o, same) = [im EXCEPT ![t] = [x \in 0 .. w - 1 |->
             IF <<t, Column(x)>> \in mask THEN o[Column(x)] ELSE orig[t][x]]]
      <3>1. same => o = im[n] /\ ~call.hmirror /\ ~call.vflip
        BY <1>2 DEF LineCall
      <3>2. DOMAIN orig[0] = 0 .. w - 1
        BY <1>1
      <3>3. im[Written(n)] = orig[Written(n)]
        BY <2>1
      <3>4. imlib_replace_line_op(im, call, n, o, same) = [im EXCEPT ![t] = [x \in 0 .. w - 1 |->
             IF <<t, Column(x)>> \in mask THEN o[Column(x)] ELSE orig[t][x]]]
        <4>1. imlib_replace_line_op(im, call, n, o, same) = [im EXCEPT ![Written(n)] = Replaced(n, o)]
          BY <3>1, <3>3, ReplaceLine
        <4>2. Replaced(n, o) = [x \in 0 .. w - 1 |->
                 IF <<t, Column(x)>> \in mask THEN o[Column(x)] ELSE orig[t][x]]
          BY <2>1, <3>2 DEF Replaced
        <4> QED BY <2>1, <4>1, <4>2, Zenon
      <3> QED BY <1>2, <3>4 DEF ApplyLine
    <2>3. ASSUME NEW x \in 0 .. w - 1
          PROVE  /\ Column(x) \in 0 .. w - 1
                 /\ ResultPixel(<<t, x>>) = o[Column(x)]
                 /\ <<t, Column(x)>> \in mask <=> <<t, x>> \in mask
      <3>1. Column(x) \in 0 .. w - 1 /\ Column(x) = IF call.hmirror THEN w - 1 - x ELSE x
        BY <1>1 DEF Column
      <3>2. n = IF call.vflip THEN h - 1 - t ELSE t
        BY <1>1, <1>2
      <3>3. ResultPixel(<<t, x>>) = At(Second, <<n, Column(x)>>)
        BY <1>1, <1>2, <3>1, <3>2 DEF ResultPixel
      <3>4. At(Second, <<n, Column(x)>>) = o[Column(x)]
        BY <1>1, <3>1 DEF At
      <3>5. <<t, Column(x)>> \in mask <=> <<t, x>> \in mask
        <4>1. CASE call.hmirror
          <5>1. mask = (0 .. h - 1) \X (0 .. w - 1)
            BY <1>1, <1>2, <4>1 DEF LineCall, Pixels
          <5> QED BY <1>1, <3>1, <5>1
        <4>2. CASE ~call.hmirror
          BY <3>1, <4>2
        <4> QED BY <4>1, <4>2
      <3> QED BY <3>1, <3>3, <3>4, <3>5
    <2>4. ~Unary(call)
      BY <1>2 DEF Unary
    <2>5. ResultLine(t) = [x \in 0 .. w - 1 |->
             IF <<t, Column(x)>> \in mask THEN o[Column(x)] ELSE orig[t][x]]
      BY <1>1, <2>3, <2>4 DEF ResultLine
    <2> QED BY <2>2, <2>5
  <1>3. CASE call.op # "replace"
    <2>1. t = n
      BY <1>3
    <2>2. ApplyLine(im, call, n, o, same) = [im EXCEPT ![t] = [x \in 0 .. w - 1 |->
             IF Unary(call) \/ <<t, x>> \in mask THEN PixelOp(call, orig[t][x], o[x]) ELSE orig[t][x]]]
      <3>1. DOMAIN im[n] = 0 .. w - 1
        BY <1>1 DEF Shaped
      <3> QED BY <1>3, <2>1, <3>1 DEF ApplyLine, LineOp, image_get_mask_pixel
    <2>3. ASSUME NEW x \in 0 .. w - 1 PROVE ResultPixel(<<t, x>>) = PixelOp(call, orig[t][x], o[x])
      <3>1. o[x] = Second[t][x]
        BY <1>1, <2>1
      <3> QED BY <1>3, <3>1 DEF ResultPixel, At
    <2>4. ResultLine(t) = [x \in 0 .. w - 1 |->
             IF Unary(call) \/ <<t, x>> \in mask THEN PixelOp(call, orig[t][x], o[x]) ELSE orig[t][x]]
      BY <1>1, <2>3 DEF ResultLine
    <2> QED BY <2>2, <2>4
  <1> QED BY <1>2, <1>3

(* A stored line is read back as the line of the picture it stands for. *)
LEMMA StoredLine ==
  ASSUME LineCall, call.from = "file", NEW s \in DOMAIN orig
  PROVE  LET row == FileLine(call.other, s, call.vflipped, call.hflipped)
         IN  (IF call.hflipped THEN [x \in DOMAIN row |-> row[Width(call.other) - 1 - x]] ELSE row)
               = call.other[IF call.vflipped THEN Height(orig) - 1 - s ELSE s]
  <1>1. PICK w \in Nat \ {0}, h \in Nat \ {0} :
          /\ w = Width(orig) /\ h = Height(orig) /\ DOMAIN orig = 0 .. h - 1
          /\ DOMAIN orig[0] = 0 .. w - 1
    BY PictureProperties DEF LineCall
  <1>2. call.other \in [0 .. h - 1 -> [0 .. w - 1 -> 0 .. MaxPixel]]
    BY <1>1 DEF LineCall, Pictures
  <1>3. Height(call.other) = h /\ Width(call.other) = w
    <2>1. DOMAIN call.other = DOMAIN orig /\ DOMAIN call.other[0] = DOMAIN orig[0]
      BY <1>1, <1>2
    <2> QED BY <1>1, <2>1 DEF Height, Width
  <1>4. PICK q \in 0 .. h - 1 : q = IF call.vflipped THEN h - 1 - s ELSE s
    BY <1>1
  <1>5. PICK R \in [0 .. w - 1 -> 0 .. MaxPixel] : R = call.other[q]
    BY <1>2
  <1>6. FileLine(call.other, s, call.vflipped, call.hflipped)
          = IF call.hflipped THEN [x \in 0 .. w - 1 |-> R[w - 1 - x]] ELSE R
    BY <1>3, <1>4, <1>5 DEF FileLine
  <1>7. CASE call.hflipped
    <2>1. PICK row : row = [x \in 0 .. w - 1 |-> R[w - 1 - x]]
      OBVIOUS
    <2>2. \A x \in 0 .. w - 1 : row[w - 1 - x] = R[x]
      BY <2>1
    <2>3. [x \in DOMAIN row |-> row[w - 1 - x]] = R
      BY <2>1, <2>2
    <2> QED BY <1>1, <1>3, <1>4, <1>5, <1>6, <1>7, <2>1, <2>3
  <1>8. CASE ~call.hflipped
    BY <1>1, <1>4, <1>5, <1>6, <1>8
  <1> QED BY <1>7, <1>8

(* A window that is read has its lines where they will be looked for. *)
LEMMA WindowRead ==
  ASSUME LineCall, call.from = "file", NEW win, DOMAIN win = 0 .. call.lines - 1,
         NEW i \in DOMAIN orig, NEW c,
         c = IF call.lines <= Height(orig) - i THEN call.lines ELSE Height(orig) - i,
         NEW m \in DOMAIN orig, WindowOf(m) = i
  PROVE  bmp_read_pixels(win, call, i, c)[m % call.lines] = call.other[Taken(m)]
  <1>1. PICK h \in Nat \ {0} : h = Height(orig) /\ DOMAIN orig = 0 .. h - 1
    BY PictureProperties DEF LineCall
  <1>2. PICK k \in Nat \ {0} : k = call.lines
    BY DEF LineCall
  <1>3. m \in Nat /\ m < h /\ i \in Nat
    BY <1>1
  <1>4. PICK r \in 0 .. k - 1 : r = m % k
    BY <1>3, Remainders
  <1>5. m = i + r
    BY <1>2, <1>3, <1>4 DEF WindowOf
  <1>6. PICK d \in Nat : d = IF call.vflipped THEN k - 1 - r ELSE r
    <2>1. k - 1 - r \in Nat /\ r \in Nat
      BY ONLY k \in Nat \ {0}, r \in 0 .. k - 1
    <2> QED BY ONLY <2>1
  <1>7. /\ d < c
        /\ i + d \in 0 .. h - 1
        /\ Taken(m) = IF call.vflipped THEN h - 1 - (i + d) ELSE i + d
    <2>1. CASE call.vflipped
      <3>1. h % k = 0
        BY <1>1, <1>2, <2>1 DEF LineCall
      <3>2. m - (m % k) + k <= h
        <4>1. m \in 0 .. h - 1 /\ h \in Nat
          BY <1>3
        <4> QED BY ONLY <3>1, <4>1, k \in Nat \ {0}, BackwardWindows
      <3>3. i + k <= h
        BY <1>3, <1>4, <1>5, <3>2
      <3>4. c = k
        BY <1>1, <1>2, <1>3, <3>3
      <3>5. Taken(m) = h - i - k + r
        BY <1>1, <1>2, <1>4, <2>1 DEF Taken
      <3> QED BY <1>3, <1>5, <1>6, <2>1, <3>3, <3>4, <3>5
    <2>2. CASE ~call.vflipped
      <3>1. Taken(m) = m
        BY <2>2 DEF Taken
      <3> QED BY <1>1, <1>2, <1>3, <1>5, <1>6, <2>2, <3>1
    <2> QED BY <2>1, <2>2
  <1>8. bmp_read_pixels(win, call, i, c)[r] =
          LET row == FileLine(call.other, i + d, call.vflipped, call.hflipped)
          IN  IF call.hflipped THEN [x \in DOMAIN row |-> row[Width(call.other) - 1 - x]] ELSE row
    BY <1>2, <1>6, <1>7 DEF bmp_read_pixels
  <1>9. bmp_read_pixels(win, call, i, c)[r] =
          call.other[IF call.vflipped THEN Height(orig) - 1 - (i + d) ELSE i + d]
    BY <1>1, <1>7, <1>8, StoredLine
  <1> QED BY <1>1, <1>2, <1>4, <1>7, <1>9

(* The line about to be written is still as the caller passed it. *)
LEMMA LineUntouched ==
  ASSUME LineCall, LinesInv, line < Height(orig)
  PROVE  /\ Shaped(img) /\ Height(img) = Height(orig)
         /\ line \in DOMAIN orig
         /\ Taken(line) \in DOMAIN orig /\ Target(line) \in DOMAIN orig
         /\ img[Target(line)] = orig[Target(line)]
  <1>1. IsPicture(orig)
    BY DEF LineCall
  <1>2. PICK h \in Nat \ {0} : h = Height(orig) /\ DOMAIN orig = 0 .. h - 1
    BY <1>1, PictureProperties
  <1>3. \A r \in DOMAIN orig : DOMAIN ResultLine(r) = DOMAIN orig[r]
    BY DEF ResultLine
  <1>4. Shaped(img)
    BY <1>3 DEF LinesInv, Shaped
  <1>5. line \in DOMAIN orig /\ line \in 0 .. h
    BY <1>2 DEF LinesInv
  <1>6. Target(line) \in DOMAIN orig
    BY <1>5, TargetProperties
  <1>7. ASSUME NEW n \in 0 .. line - 1 PROVE Target(n) # Target(line)
    <2>1. n \in DOMAIN orig /\ n # line
      BY <1>2, <1>5
    <2> QED BY <1>5, <2>1, TargetProperties
  <1>8. img[Target(line)] = orig[Target(line)]
    BY <1>6, <1>7 DEF LinesInv
  <1> QED BY <1>1, <1>4, <1>5, <1>6, <1>8, PictureProperties, TakenProperties

(* One line, whichever the second image. *)
LEMMA TargetWritten ==
  ASSUME LineCall, LinesInv, line < Height(orig), NEW o, NEW same \in BOOLEAN,
         \A x \in DOMAIN orig[0] : o[x] = Second[Taken(line)][x],
         same => call.from = "same" /\ o = img[Taken(line)]
  PROVE  ApplyLine(img, call, Taken(line), o, same)
           = [img EXCEPT ![Target(line)] = ResultLine(Target(line))]
  <1>1. PICK n \in DOMAIN orig : n = Taken(line)
    BY LineUntouched
  <1>2. PICK t \in DOMAIN orig : t = Target(line)
    BY LineUntouched
  <1>3. t = IF call.op = "replace" /\ call.vflip THEN Height(orig) - 1 - n ELSE n
    BY <1>1, <1>2 DEF Target
  <1>4. Shaped(img) /\ img[t] = orig[t]
    BY <1>2, LineUntouched
  <1>5. ApplyLine(img, call, n, o, same) = [img EXCEPT ![t] = ResultLine(t)]
    BY <1>1, <1>3, <1>4, LineApplies
  <1> QED BY <1>1, <1>2, <1>5

LEMMA ImageLine ==
  ASSUME LineCall, LinesInv, line < Height(orig), call.from \in {"image", "same"}, FromImage
  PROVE  img' = [img EXCEPT ![Target(line)] = ResultLine(Target(line))]
  <1>1. Taken(line) = line
    BY DEF Taken
  <1>2. PICK same \in BOOLEAN : same = (call.from = "same")
    OBVIOUS
  <1>3. PICK o : o = IF call.from = "same" THEN img[line] ELSE call.other[line]
    OBVIOUS
  <1>4. img' = ApplyLine(img, call, line, o, same)
    BY <1>2, <1>3 DEF FromImage
  <1>5. o = Second[line]
    <2>1. CASE call.from = "same"
      <3>1. Target(line) = line
        <4>1. CASE call.op = "replace"
          BY <1>1, <2>1, <4>1 DEF Target, LineCall
        <4>2. CASE call.op # "replace"
          BY <1>1, <4>2 DEF Target
        <4> QED BY <4>1, <4>2
      <3>2. img[line] = orig[line]
        BY <3>1, LineUntouched
      <3> QED BY <1>3, <2>1, <3>2 DEF Second
    <2>2. CASE call.from = "image"
      BY <1>3, <2>2 DEF Second
    <2> QED BY <2>1, <2>2
  <1>6. same => call.from = "same" /\ o = img[line]
    BY <1>2, <1>3
  <1> QED BY <1>1, <1>4, <1>5, <1>6, TargetWritten

LEMMA ScalarLine ==
  ASSUME LineCall, LinesInv, line < Height(orig), call.from = "scalar", FromScalar
  PROVE  img' = [img EXCEPT ![Target(line)] = ResultLine(Target(line))]
  <1>1. Taken(line) = line /\ line \in DOMAIN orig
    BY LineUntouched DEF Taken
  <1>2. PICK same \in BOOLEAN : same = FALSE
    OBVIOUS
  <1>3. PICK o : o = [x \in DOMAIN img[0] |-> call.scalar]
    OBVIOUS
  <1>4. img' = ApplyLine(img, call, line, o, same)
    BY <1>2, <1>3 DEF FromScalar
  <1>5. DOMAIN img[0] = DOMAIN orig[0] /\ DOMAIN orig[line] = DOMAIN orig[0]
    BY <1>1, LineUntouched, PictureProperties DEF LineCall, Shaped
  <1>6. \A x \in DOMAIN orig[0] : o[x] = Second[line][x]
    BY <1>1, <1>3, <1>5 DEF Second
  <1> QED BY <1>1, <1>2, <1>4, <1>6, TargetWritten

(* A line of the file: the window has it, read now or with the lines before. *)
LEMMA WindowHolds ==
  ASSUME LineCall, LinesInv, WindowInv, line < Height(orig), call.from = "file", FromFile
  PROVE  /\ DOMAIN window' = 0 .. call.lines - 1
         /\ \A m \in DOMAIN orig :
              WindowOf(m) = WindowOf(line) => window'[m % call.lines] = call.other[Taken(m)]
  <1>1. PICK h \in Nat \ {0} : h = Height(orig) /\ DOMAIN orig = 0 .. h - 1 /\ Height(img) = h
    BY PictureProperties, LineUntouched DEF LineCall
  <1>2. PICK k \in Nat \ {0} : k = call.lines
    BY DEF LineCall
  <1>3. line \in 0 .. h - 1 /\ line \in Nat
    BY <1>1, LineUntouched
  <1>4. PICK j \in 0 .. k - 1 : j = line % k
    BY <1>3, Remainders
  <1>5. PICK i : i = WindowOf(line)
    OBVIOUS
  <1>6. i = line - j
    BY <1>2, <1>4, <1>5 DEF WindowOf
  <1>7. DOMAIN window = 0 .. k - 1
    BY <1>2 DEF WindowInv
  <1>8. CASE j = 0
    <2>1. i = line /\ i \in DOMAIN orig
      BY <1>1, <1>3, <1>6, <1>8
    <2>2. PICK c : c = IF k <= h - i THEN k ELSE h - i
      OBVIOUS
    <2>3. c = Min({k, h - i})
      BY <1>3, <2>1, <2>2, MinOfTwo
    <2>4. window' = bmp_read_pixels(window, call, i, c)
      BY <1>1, <1>2, <1>4, <1>6, <1>8, <2>3 DEF FromFile
    <2>5. DOMAIN window' = DOMAIN window
      BY <2>4 DEF bmp_read_pixels
    <2>6. ASSUME NEW m \in DOMAIN orig, WindowOf(m) = i
          PROVE  window'[m % call.lines] = call.other[Taken(m)]
      BY <1>1, <1>2, <1>7, <2>1, <2>2, <2>4, <2>6, WindowRead
    <2> QED BY <1>2, <1>5, <1>7, <2>5, <2>6
  <1>9. CASE j # 0
    <2>1. window' = window
      BY <1>2, <1>4, <1>9 DEF FromFile
    <2> QED BY <1>2, <1>4, <1>9, <2>1 DEF WindowInv
  <1> QED BY <1>8, <1>9

LEMMA FileLineRight ==
  ASSUME LineCall, LinesInv, WindowInv, line < Height(orig), call.from = "file", FromFile
  PROVE  img' = [img EXCEPT ![Target(line)] = ResultLine(Target(line))]
  <1>1. PICK h \in Nat \ {0} : h = Height(orig) /\ DOMAIN orig = 0 .. h - 1 /\ Height(img) = h
    BY PictureProperties, LineUntouched DEF LineCall
  <1>2. PICK k \in Nat \ {0} : k = call.lines
    BY DEF LineCall
  <1>3. line \in 0 .. h - 1 /\ line \in Nat
    BY <1>1, LineUntouched
  <1>4. PICK j \in 0 .. k - 1 : j = line % k
    BY <1>3, Remainders
  <1>5. PICK i \in Int : i = line - j
    BY <1>3
  <1>6. WindowOf(line) = i
    BY <1>2, <1>4, <1>5 DEF WindowOf
  <1>7. PICK o : o = window'[j]
    OBVIOUS
  <1>8. o = call.other[Taken(line)]
    BY <1>1, <1>2, <1>3, <1>4, <1>7, WindowHolds
  <1>9. PICK n : n = IF call.vflipped THEN h - i - Min({k, h - i}) + j ELSE i + j
    OBVIOUS
  <1>10. img' = ApplyLine(img, call, n, o, FALSE)
    BY <1>1, <1>2, <1>4, <1>5, <1>7, <1>9 DEF FromFile
  <1>11. n = Taken(line)
    <2>1. CASE call.vflipped
      <3>1. h % k = 0 /\ h \in Nat
        BY <1>1, <1>2, <2>1 DEF LineCall
      <3>2. line - (line % k) + k <= h
        BY ONLY <1>3, <3>1, k \in Nat \ {0}, BackwardWindows
      <3>3. k <= h - i
        BY <1>3, <1>4, <1>5, <3>2
      <3>4. Min({k, h - i}) = k
        BY <3>3, MinOfTwo
      <3>5. Taken(line) = h - i - k + j
        BY <1>1, <1>2, <1>4, <1>6, <2>1 DEF Taken
      <3> QED BY <1>9, <2>1, <3>4, <3>5
    <2>2. CASE ~call.vflipped
      BY <1>3, <1>5, <1>9, <2>2 DEF Taken
    <2> QED BY <2>1, <2>2
  <1>12. Second = call.other
    BY DEF Second
  <1>13. PICK same \in BOOLEAN : same = FALSE
    OBVIOUS
  <1>14. \A x \in DOMAIN orig[0] : o[x] = Second[Taken(line)][x]
    BY <1>8, <1>12
  <1>15. ApplyLine(img, call, Taken(line), o, same)
           = [img EXCEPT ![Target(line)] = ResultLine(Target(line))]
    BY <1>13, <1>14, TargetWritten
  <1> QED BY <1>10, <1>11, <1>13, <1>15

(* The rest of the window is still to come, or the next line reads one. *)
LEMMA WindowKept ==
  ASSUME LineCall, LinesInv, WindowInv, line < Height(orig), call.from = "file", FromFile,
         line' = line + 1, UNCHANGED <<call, orig>>
  PROVE  WindowInv'
  <1>1. PICK h \in Nat \ {0} : h = Height(orig) /\ DOMAIN orig = 0 .. h - 1
    BY PictureProperties DEF LineCall
  <1>2. PICK k \in Nat \ {0} : k = call.lines
    BY DEF LineCall
  <1>3. line \in Nat
    BY <1>1, LineUntouched
  <1>4. \A n : (WindowOf(n))' = WindowOf(n)
    BY DEF WindowOf
  <1>5. \A n : (Taken(n))' = Taken(n)
    BY <1>4 DEF Taken, Height
  <1>6. ASSUME (line + 1) % k # 0 PROVE WindowOf(line + 1) = WindowOf(line)
    <2>1. (line + 1) % k = (line % k) + 1
      BY <1>3, <1>6, NextRemainder
    <2>2. PICK j \in 0 .. k - 1 : j = line % k
      BY <1>3, Remainders
    <2> QED BY <1>2, <1>3, <2>1, <2>2 DEF WindowOf
  <1>7. WindowOf(line)' = WindowOf(line + 1)
    BY DEF WindowOf
  <1> QED BY <1>2, <1>4, <1>5, <1>6, <1>7, WindowHolds DEF WindowInv

(* What the call is asked to do does not change. *)
LEMMA LineFrame ==
  ASSUME UNCHANGED <<call, mask, orig>>
  PROVE  /\ \A n : WindowOf(n)' = WindowOf(n) /\ Taken(n)' = Taken(n) /\ Target(n)' = Target(n)
         /\ \A r : ResultLine(r)' = ResultLine(r)
         /\ step' = step => (LineCall <=> LineCall')
  <1>1. \A n : WindowOf(n)' = WindowOf(n)
    BY DEF WindowOf
  <1>2. \A n : Taken(n)' = Taken(n)
    BY <1>1 DEF Taken, Height
  <1>3. \A n : Target(n)' = Target(n)
    BY <1>2 DEF Target, Height
  <1>4. Second' = Second
    BY DEF Second
  <1>5. \A p : ResultPixel(p)' = ResultPixel(p)
    BY <1>4 DEF ResultPixel, Height, Width, At, PixelOp
  <1>6. \A r : ResultLine(r)' = ResultLine(r)
    BY <1>5 DEF ResultLine, Unary
  <1>7. step' = step => (LineCall <=> LineCall')
    BY DEF LineCall, IsPicture, Pixels, Height, Width, Pictures
  <1> QED BY <1>1, <1>2, <1>3, <1>6, <1>7

LEMMA OperateLineKeeps ==
  ASSUME LineCall, LinesInv, WindowInv, OperateLine
  PROVE  LinesInv' /\ WindowInv'
  <1>1. PICK h \in Nat \ {0} : h = Height(orig) /\ DOMAIN orig = 0 .. h - 1
    BY PictureProperties DEF LineCall
  <1>2. Shaped(img) /\ Height(img) = Height(orig)
    <2>1. \A r \in DOMAIN orig : DOMAIN ResultLine(r) = DOMAIN orig[r]
      BY DEF ResultLine
    <2>2. Shaped(img)
      BY <2>1 DEF LinesInv, Shaped
    <2> QED BY <2>2, PictureProperties DEF LineCall
  <1>3. line < Height(orig) /\ line' = line + 1 /\ UNCHANGED <<call, mask, orig>>
    BY <1>2 DEF OperateLine
  <1>4. img' = [img EXCEPT ![Target(line)] = ResultLine(Target(line))]
    <2>1. CASE call.from = "file" /\ FromFile
      BY <1>3, <2>1, FileLineRight
    <2>2. CASE call.from \in {"image", "same"} /\ FromImage
      BY <1>3, <2>2, ImageLine
    <2>3. CASE call.from = "scalar" /\ FromScalar
      BY <1>3, <2>3, ScalarLine
    <2> QED BY <2>1, <2>2, <2>3 DEF OperateLine
  <1>5. PICK t \in DOMAIN orig : t = Target(line)
    BY <1>3, LineUntouched
  <1>6. line \in 0 .. h - 1
    BY <1>1, <1>3, LineUntouched
  <1>7. ASSUME NEW r \in DOMAIN orig
        PROVE  img'[r] = IF \E n \in 0 .. line : Target(n) = r THEN ResultLine(r) ELSE orig[r]
    <2>1. CASE r = t
      <3>1. img'[r] = ResultLine(r)
        BY <1>2, <1>4, <1>5, <2>1 DEF Shaped
      <3>2. line \in 0 .. line
        BY <1>6
      <3> QED BY <1>5, <2>1, <3>1, <3>2
    <2>2. CASE r # t
      <3>1. img'[r] = img[r]
        BY <1>2, <1>4, <1>5, <2>2 DEF Shaped
      <3>2. (\E n \in 0 .. line : Target(n) = r) <=> (\E n \in 0 .. line - 1 : Target(n) = r)
        <4>1. \A n \in 0 .. line : n \in 0 .. line - 1 \/ n = line
          BY <1>6
        <4>2. \A n \in 0 .. line - 1 : n \in 0 .. line
          BY <1>6
        <4> QED BY <1>5, <2>2, <4>1, <4>2
      <3> QED BY <3>1, <3>2 DEF LinesInv
    <2> QED BY <2>1, <2>2
  <1>8. LinesInv'
    <2>1. line' \in 0 .. h /\ line' - 1 = line
      BY <1>3, <1>6
    <2>2. DOMAIN img' = DOMAIN orig /\ img' = [r \in DOMAIN img' |-> img'[r]]
      BY <1>2, <1>4 DEF Shaped
    <2>3. Height(orig)' = h
      BY <1>1, <1>3 DEF Height
    <2>4. \A n : Target(n)' = Target(n)
      BY <1>3, LineFrame
    <2>5. \A r : ResultLine(r)' = ResultLine(r)
      BY <1>3, LineFrame
    <2> QED BY <1>3, <1>7, <2>1, <2>2, <2>3, <2>4, <2>5 DEF LinesInv
  <1>9. WindowInv'
    <2>1. CASE call.from = "file"
      BY <1>3, <2>1, WindowKept DEF OperateLine
    <2>2. CASE call.from # "file"
      BY <1>3, <2>2 DEF WindowInv
    <2> QED BY <2>1, <2>2
  <1> QED BY <1>8, <1>9

LEMMA LineNextKeeps ==
  ASSUME LineIInv, [Next]_vars, call.fn = "line"
  PROVE  LineIInv'
  <1>1. LineCall /\ LinesInv /\ WindowInv /\ step = "none" /\ (returned => line = Height(orig))
    BY DEF LineIInv, LineCall
  <1>2. UNCHANGED <<call, mask, orig>>
    BY CallKept
  <1>3. CASE LineNext /\ UNCHANGED <<filterVars, fillVars, blobVars>>
    <2>1. LineCall'
      BY <1>1, <1>2, <1>3, LineFrame DEF fillVars
    <2>2. CASE OperateLine
      <3>1. ~returned'
        BY <2>2 DEF OperateLine, Running
      <3> QED BY <1>1, <2>1, <2>2, <3>1, OperateLineKeeps DEF LineIInv
    <2>3. CASE LineReturn
      <3>1. UNCHANGED <<img, line, window>> /\ line = Height(img)
        BY <2>3 DEF LineReturn, lineVars
      <3>2. LinesInv'
        BY <1>1, <1>2, <3>1, LineFrame DEF LinesInv, Height
      <3>3. WindowInv'
        BY <1>1, <1>2, <3>1, LineFrame DEF WindowInv
      <3>4. line' = Height(orig)'
        BY <1>1, <1>2, <3>1 DEF LinesInv, Height
      <3> QED BY <2>1, <3>2, <3>3, <3>4 DEF LineIInv
    <2> QED BY <1>3, <2>2, <2>3 DEF LineNext
  <1>4. CASE UNCHANGED vars
    <2>1. UNCHANGED <<img, line, window, step, returned>>
      BY <1>4 DEF vars, imageVars, lineVars, fillVars
    <2>2. LineCall'
      BY <1>1, <1>2, <2>1, LineFrame
    <2>3. LinesInv'
      BY <1>1, <1>2, <2>1, LineFrame DEF LinesInv, Height
    <2>4. WindowInv'
      BY <1>1, <1>2, <2>1, LineFrame DEF WindowInv
    <2> QED BY <1>1, <1>2, <2>1, <2>2, <2>3, <2>4 DEF LineIInv, Height
  <1>5. ~ FilterNext
    BY DEF FilterNext, FilterRow, CopyRemaining, FilterReturn, Running
  <1>6. ~ FillNext
    BY <1>1 DEF FillNext, FillLine, FillRecurse, FillPop, imlib_flood_fill, FloodPaint,
                imlib_cartoon_filter, CartoonFill
  <1>7. ~ BlobsNext
    BY <1>1 DEF BlobsNext, SeekBlob, KeepBlob, MergeFirst, MergePass, BlobsReturn
  <1> QED BY <1>3, <1>4, <1>5, <1>6, <1>7 DEF Next

LEMMA LineBegins ==
  ASSUME PlainSources, Init
  PROVE  LineIInv
  <1> SUFFICES ASSUME call.fn = "line" PROVE LineIInv
    BY DEF LineIInv
  <1>1. orig = img /\ returned = FALSE
    BY DEF Init
  <1>2. PICK j \in LineJobs :
            /\ img \in j.pictures
            /\ mask \in {Pixels(img)} \cup j.masks
            /\ imlib_image_operation(j.a)
            /\ FillIdle
    BY JobsAssumption DEF Init, BeginFlood, BeginCartoon, imlib_find_blobs, BeginFill, filter,
       imlib_top_hat, imlib_open, imlib_black_hat, imlib_close, Begin
  <1>3. call = j.a /\ line = 0
    BY <1>2 DEF imlib_image_operation
  <1>4. LineCall
    <2>1. IsPicture(orig)
      BY <1>1, <1>2, JobsAssumption
    <2>2. /\ call.from \in {"scalar", "same", "image", "file"}
          /\ call.from \in {"image", "file"} =>
               call.other \in Pictures(Width(orig), Height(orig), 0 .. MaxPixel)
          /\ call.from = "file" => call.lines \in Nat \ {0}
      BY <1>1, <1>2, <1>3, JobsAssumption
    <2>3. /\ call.from = "file" /\ call.vflipped => Height(orig) % call.lines = 0
          /\ call.op = "replace" /\ call.from = "same" => ~call.hmirror /\ ~call.vflip
      BY <1>1, <1>2, <1>3 DEF PlainSources
    <2>4. call.op = "replace" /\ call.hmirror => mask = Pixels(orig)
      BY <1>1, <1>2, <1>3 DEF PlainSources
    <2>5. step = "none"
      BY <1>2 DEF FillIdle
    <2> QED BY <2>1, <2>2, <2>3, <2>4, <2>5 DEF LineCall
  <1>5. PICK h \in Nat \ {0} : h = Height(orig) /\ DOMAIN orig = 0 .. h - 1
    BY <1>4, PictureProperties DEF LineCall
  <1>6. LinesInv
    <2>1. ~ \E n \in 0 .. line - 1 : TRUE
      BY <1>3
    <2>2. orig = [r \in DOMAIN orig |-> orig[r]]
      BY <1>4 DEF LineCall, IsPicture, Pictures
    <2> QED BY <1>1, <1>3, <1>5, <2>1, <2>2 DEF LinesInv
  <1>7. WindowInv
    <2> SUFFICES ASSUME call.from = "file" PROVE WindowInv
      BY DEF WindowInv
    <2>1. DOMAIN window = 0 .. call.lines - 1
      BY <1>2, <1>3 DEF imlib_image_operation
    <2>2. PICK k \in Nat \ {0} : k = call.lines
      BY <1>4 DEF LineCall
    <2>3. 0 % k = 0
      OBVIOUS
    <2> QED BY <1>3, <2>1, <2>2, <2>3 DEF WindowInv
  <1> QED BY <1>1, <1>4, <1>6, <1>7 DEF LineIInv

(* Every line has been written when the call returns. *)
LEMMA LinesAreWritten ==
  ASSUME LineIInv
  PROVE  LineOpsExact
  <1> SUFFICES ASSUME returned, call.fn = "line", NEW p \in Pixels(img)
      PROVE  At(img, p) = IF Unary(call) \/ p \in mask THEN ResultPixel(p) ELSE At(orig, p)
    BY DEF LineOpsExact
  <1>1. LineCall /\ LinesInv /\ line = Height(orig)
    BY DEF LineIInv
  <1>2. PICK w \in Nat \ {0}, h \in Nat \ {0} :
          /\ h = Height(orig) /\ DOMAIN orig = 0 .. h - 1
          /\ \A r \in DOMAIN orig : DOMAIN orig[r] = 0 .. w - 1
    BY <1>1, PictureProperties DEF LineCall
  <1>3. \A r \in DOMAIN orig : img[r] = ResultLine(r)
    BY <1>1, <1>2, TargetProperties DEF LinesInv
  <1>4. DOMAIN img = DOMAIN orig /\ DOMAIN img[0] = 0 .. w - 1
    <2>1. DOMAIN img = DOMAIN orig /\ 0 \in DOMAIN orig
      BY <1>1, <1>2 DEF LinesInv
    <2>2. DOMAIN ResultLine(0) = DOMAIN orig[0]
      BY DEF ResultLine
    <2> QED BY <1>2, <1>3, <2>1, <2>2
  <1>5. PICK r \in DOMAIN orig, x \in 0 .. w - 1 : p = <<r, x>>
    BY <1>4 DEF Pixels
  <1>6. img[r][x] = IF Unary(call) \/ <<r, x>> \in mask THEN ResultPixel(<<r, x>>) ELSE orig[r][x]
    BY <1>2, <1>3, <1>5 DEF ResultLine
  <1> QED BY <1>5, <1>6 DEF At

(***************************************************************************)
(* For images of any size, any mask and a second image that is a scalar,   *)
(* another image, the image itself or a file with windows of any number of *)
(* lines, every line is combined once, with the line of the second image   *)
(* it belongs to.  PlainSources excepts what the code takes from elsewhere:*)
(* a flipped file whose height its windows do not divide, a mirrored       *)
(* replace under a mask, and one whose source is the image itself.         *)
(***************************************************************************)
THEOREM LinesAreExact == PlainSources /\ Spec => []LineOpsExact
  <1> SUFFICES ASSUME PlainSources PROVE Spec => []LineOpsExact
    OBVIOUS
  <1>1. Init => LineIInv
    BY LineBegins
  <1>2. LineIInv /\ [Next]_vars => LineIInv'
    <2> SUFFICES ASSUME LineIInv, [Next]_vars PROVE LineIInv'
      OBVIOUS
    <2>1. CASE call.fn = "line"
      BY <2>1, LineNextKeeps
    <2>2. CASE call.fn # "line"
      BY <2>2, CallKept DEF LineIInv
    <2> QED BY <2>1, <2>2
  <1>3. LineIInv => LineOpsExact
    BY LinesAreWritten
  <1> QED BY <1>1, <1>2, <1>3, PTL DEF Spec
=============================================================================
