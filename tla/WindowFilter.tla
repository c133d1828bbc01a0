---------------------------- MODULE WindowFilter ----------------------------
(***************************************************************************)
(* filter.c and the morphology of binary.c: functions that replace every   *)
(* pixel by a value computed from the (2 ksize + 1)^2 window around it,    *)
(* in place.  Results go to a ring of ksize + 1 rows, and a row is copied  *)
(* to the image once no later window reaches it.                           *)
(***************************************************************************)
EXTENDS Image

VARIABLES
    passes,  \* the kernels still to be applied, in order
    y,       \* the row the loop is at
    buf      \* buf.data: the ring of rows

filterVars == <<passes, y, buf>>

ksize == call.ksize
brows == ksize + 1

-----------------------------------------------------------------------------
(* Kernels: w is the window, its pixels row by row; c its centre; a the    *)
(* arguments of the call.                                                  *)

Side(k) == 2 * k + 1

\* f(1) + .. + f(n), as the loops over the window accumulate it.
Accumulate(n, f(_)) ==
    LET total[i \in 0 .. n] == IF i = 0 THEN 0 ELSE total[i - 1] + f(i)
    IN  total[n]

Mean(w) == Round(Accumulate(Len(w), LAMBDA i : w[i]), Len(w))

\* data[int_percentile] of the sorted window
Median(w, a) ==
    LET int_percentile == Round(a.num * (Len(w) - 1), a.den)
    IN  Min({v \in 0 .. MaxPixel : Cardinality({i \in DOMAIN w : w[i] <= v}) > int_percentile})

\* The value whose count is the first to reach the largest count.
Mode(w) ==
    LET bins == {<<Cardinality({i \in 1 .. n : w[i] = w[n]}), n>> : n \in DOMAIN w}
        first == CHOOSE b \in bins : \A c \in bins : c[1] < b[1] \/ (c[1] = b[1] /\ c[2] >= b[2])
    IN  w[first[2]]

Midpoint(w, a) ==
    LET values == {w[i] : i \in DOMAIN w}
    IN  Round(Min(values) * (a.den - a.num) + Max(values) * a.num, a.den)

Morph(w, a) ==
    Clamp(Round(Accumulate(Len(w), LAMBDA i : a.krn[i] * w[i]) * a.num, a.den) + a.b, 0, MaxPixel)

\* gi_lut and gs_lut as tables of weights
Bilateral(w, c, a) ==
    LET weight(i) == a.gi[AbsDiff(c, w[i])] * a.gs[i]
        i_acc == Accumulate(Len(w), LAMBDA i : w[i] * weight(i))
        w_acc == Accumulate(Len(w), weight)
    IN  IF w_acc = 0 THEN 0 ELSE Min({Round(i_acc, w_acc), MaxPixel})

\* Of binary and grey images: COLOR_RGB565_TO_BINARY is left out.
ErodeDilate(w, c, a) ==
    LET acc == Cardinality({i \in DOMAIN w : ToBinary(w[i]) = 1}) - (1 - a.e_or_d)
    IN  CASE ToBinary(c) = a.e_or_d -> c
          [] ToBinary(c) = 1 /\ a.e_or_d = 0 -> IF acc < a.threshold THEN 0 ELSE c
          [] ToBinary(c) = 0 /\ a.e_or_d = 1 -> IF acc > a.threshold THEN MaxPixel ELSE c

\* The adaptive threshold that ends every kernel but those of binary.c, for
\* binary and grey images: of RGB565 pixels it compares COLOR_RGB565_TO_Y.
Adaptive(pixel, c, a) ==
    IF ~a.adaptive THEN pixel
    ELSE IF ((pixel - a.offset) < c) # a.invert THEN MaxPixel ELSE 0

Kernel(w, c, a) ==
    CASE a.kernel = "mean" -> Adaptive(Mean(w), c, a)
      [] a.kernel = "median" -> Adaptive(Median(w, a), c, a)
      [] a.kernel = "mode" -> Adaptive(Mode(w), c, a)
      [] a.kernel = "midpoint" -> Adaptive(Midpoint(w, a), c, a)
      [] a.kernel = "morph" -> Adaptive(Morph(w, a), c, a)
      [] a.kernel = "bilateral" -> Adaptive(Bilateral(w, c, a), c, a)
      [] a.kernel = "erode_dilate" -> ErodeDilate(w, c, a)

-----------------------------------------------------------------------------
(* The loop over the rows *)

\* The window of im around p, rows and columns clamped to the image.
Window(im, p, k) ==
    [n \in 1 .. Side(k) * Side(k) |->
        im[Clamp(p[1] - k + ((n - 1) \div Side(k)), 0, Height(im) - 1)]
          [Clamp(p[2] - k + ((n - 1) % Side(k)), 0, Width(im) - 1)]]

Filtered(im, p, k, a) ==
    IF image_get_mask_pixel(mask, p) THEN Kernel(Window(im, p, k), At(im, p), a) ELSE At(im, p)

(* Mutant: a ring of ksize rows. *)
RingRow_Short(n) == n % Max({ksize, 1})

RingRow(n) == n % brows

\* Row y is computed from the image as it is now, and the row that left
\* every window is transferred.
FilterRow ==
    /\ Running("filter") /\ passes # <<>> /\ y < Height(img)
    /\ buf' = [buf EXCEPT ![RingRow(y)] =
                 [x \in DOMAIN img[y] |-> Filtered(img, <<y, x>>, ksize, Head(passes))]]
    /\ img' = IF y >= ksize THEN [img EXCEPT ![y - ksize] = buf'[RingRow(y - ksize)]] ELSE img
    /\ y' = y + 1
    /\ UNCHANGED <<call, returned, mask, orig, passes>>

CopyRemaining ==
    /\ Running("filter") /\ passes # <<>> /\ y = Height(img)
    /\ img' = [r \in DOMAIN img |-> IF r >= Height(img) - ksize THEN buf[RingRow(r)] ELSE img[r]]
    /\ passes' = Tail(passes)
    /\ y' = 0
    /\ UNCHANGED <<call, returned, mask, orig, buf>>

\* The hats worked on a copy, which is subtracted from the caller's image.
Difference(im, other) ==
    [r \in DOMAIN im |-> [x \in DOMAIN im[r] |->
        IF image_get_mask_pixel(mask, <<r, x>>) THEN AbsDiff(im[r][x], other[r][x]) ELSE im[r][x]]]

FilterReturn ==
    /\ Running("filter") /\ passes = <<>>
    /\ img' = IF call.hat THEN Difference(orig, img) ELSE img
    /\ Return
    /\ UNCHANGED <<call, mask, orig, filterVars>>

-----------------------------------------------------------------------------
(* The calls *)

Begin(k, kernels, hat) ==
    /\ call = [fn |-> "filter", ksize |-> k, hat |-> hat, kernels |-> kernels]
    /\ passes = kernels
    /\ y = 0
    /\ buf = [r \in 0 .. k |-> [x \in DOMAIN img[0] |-> 0]]

imlib_erode(t) == [kernel |-> "erode_dilate", e_or_d |-> 0, threshold |-> t]
imlib_dilate(t) == [kernel |-> "erode_dilate", e_or_d |-> 1, threshold |-> t]

imlib_open(k, t) ==
    <<imlib_erode(Side(k) * Side(k) - 1 - t), imlib_dilate(t)>>

imlib_close(k, t) ==
    <<imlib_dilate(t), imlib_erode(Side(k) * Side(k) - 1 - t)>>

filter(kernels, k) == Begin(k, kernels, FALSE)
imlib_top_hat(k, t) == Begin(k, imlib_open(k, t), TRUE)
imlib_black_hat(k, t) == Begin(k, imlib_close(k, t), TRUE)

FilterIdle == passes = <<>> /\ y = 0 /\ buf = <<>>

FilterNext == FilterRow \/ CopyRemaining \/ FilterReturn
=============================================================================
