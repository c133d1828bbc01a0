------------------------------- MODULE Image -------------------------------
(***************************************************************************)
(* The images that the imlib_ functions work on in place, and the call in  *)
(* progress.  A pixel is one channel: a bit (MaxPixel = 1) or a grey       *)
(* value, or a field of RGB565 where the code treats the three fields      *)
(* alike and apart, as the kernels of filter.c and the pixel operations    *)
(* do.  Where it weighs them together (the threshold mode of filter.c,     *)
(* erode and dilate, the colour tests of fills and blobs) only binary and  *)
(* grey images are meant.  Real parameters are fractions, computed exactly *)
(* where the code uses single floats.                                      *)
(***************************************************************************)
EXTENDS Integers, Sequences, FiniteSetsExt

CONSTANTS
    MaxPixel,     \* COLOR_BINARY_MAX, COLOR_GRAYSCALE_MAX, COLOR_R5_MAX, ...
    InitPixels    \* the values the caller's images are made of

ASSUME PixelAssumption == MaxPixel \in Nat \ {0} /\ InitPixels \subseteq 0 .. MaxPixel

VARIABLES
    call,   \* the function called and its arguments
    returned,
    img,    \* the caller's image, rows of pixels
    mask,   \* the pixels image_get_mask_pixel lets through; all for no mask
    orig    \* the image as the caller passed it

imageVars == <<call, returned, img, mask, orig>>

Height(im) == Cardinality(DOMAIN im)
Width(im) == Cardinality(DOMAIN im[0])
Pixels(im) == (DOMAIN im) \X (DOMAIN im[0])
At(im, p) == im[p[1]][p[2]]

\* Every picture of w by h pixels of the given values.
Pictures(w, h, values) == [0 .. h - 1 -> [0 .. w - 1 -> values]]

\* The pixels of the grid whose mask pixel exists and is set.
image_get_mask_pixel(m, p) == p \in m

\* IM_DIV, IM_MIN of IM_MAX, fast_roundf, and the C cast of a fraction.
IM_DIV(a, b) == IF b = 0 THEN 0 ELSE a \div b
Clamp(v, lo, hi) == IF v < lo THEN lo ELSE IF v > hi THEN hi ELSE v
Round(a, b) == IF a >= 0 THEN (2 * a + b) \div (2 * b) ELSE -((b - 2 * a) \div (2 * b))
AbsDiff(a, b) == IF a < b THEN b - a ELSE a - b

\* COLOR_GRAYSCALE_TO_BINARY
ToBinary(v) == IF v > MaxPixel \div 2 THEN 1 ELSE 0

Running(fn) == call.fn = fn /\ ~returned
Return == returned' = TRUE
=============================================================================
