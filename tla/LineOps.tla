------------------------------ MODULE LineOps ------------------------------
(***************************************************************************)
(* mathop.c and the bit operations of binary.c: pixel operations of the    *)
(* image with a second one, which imlib_image_operation takes line by line *)
(* from a scalar, from another image (which may be the same one) or from   *)
(* a file, of which it holds a window of lines at a time.                  *)
(***************************************************************************)
EXTENDS Image

VARIABLES
    line,    \* lines of the image done
    window   \* temp.pixels: the lines of the file read last

lineVars == <<line, window>>

-----------------------------------------------------------------------------
(* Pixel operations: d the pixel of the image, o that of the other *)

\* Bits of a pixel, and the pixel with the bits for which f holds.
Bit(v, i) == (v \div 2^i) % 2 = 1
BitCount == CHOOSE n \in 1 .. 8 : 2^n > MaxPixel /\ 2^(n - 1) <= MaxPixel
FromBits(S) == MapThenSumSet(LAMBDA i : 2^i, S)
Bits == 0 .. BitCount - 1

imlib_invert(d) == FromBits({i \in Bits : ~Bit(d, i)})
imlib_b_and(d, o) == FromBits({i \in Bits : Bit(d, i) /\ Bit(o, i)})
imlib_b_nand(d, o) == FromBits({i \in Bits : Bit(d, i) /\ ~Bit(o, i)})
imlib_b_or(d, o) == FromBits({i \in Bits : Bit(d, i) \/ Bit(o, i)})
imlib_b_nor(d, o) == FromBits({i \in Bits : Bit(d, i) \/ ~Bit(o, i)})
imlib_b_xor(d, o) == FromBits({i \in Bits : Bit(d, i) # Bit(o, i)})
imlib_b_xnor(d, o) == FromBits({i \in Bits : Bit(d, i) = Bit(o, i)})

imlib_negate(d) == MaxPixel - d
imlib_add(d, o) == Min({d + o, MaxPixel})
imlib_sub(d, o, reverse) == Max({IF reverse THEN o - d ELSE d - o, 0})
imlib_min(d, o) == Min({d, o})
imlib_max(d, o) == Max({d, o})
imlib_difference(d, o) == AbsDiff(d, o)

\* The product of two fractions of MaxPixel, cut to an integer.
imlib_mul(d, o, invert) ==
    IF invert
    THEN (MaxPixel * MaxPixel - (MaxPixel - d) * (MaxPixel - o)) \div MaxPixel
    ELSE (d * o) \div MaxPixel

imlib_div(d, o, invert) ==
    Min({IF invert THEN IM_DIV(o * MaxPixel, d) ELSE IM_DIV(d * MaxPixel, o), MaxPixel})

imlib_blend(d, o, alpha) == (d * alpha.num + o * (alpha.den - alpha.num)) \div alpha.den

PixelOp(a, d, o) ==
    CASE a.op = "negate" -> imlib_negate(d)
      [] a.op = "invert" -> imlib_invert(d)
      [] a.op = "b_and" -> imlib_b_and(d, o)
      [] a.op = "b_nand" -> imlib_b_nand(d, o)
      [] a.op = "b_or" -> imlib_b_or(d, o)
      [] a.op = "b_nor" -> imlib_b_nor(d, o)
      [] a.op = "b_xor" -> imlib_b_xor(d, o)
      [] a.op = "b_xnor" -> imlib_b_xnor(d, o)
      [] a.op = "add" -> imlib_add(d, o)
      [] a.op = "sub" -> imlib_sub(d, o, a.flag)
      [] a.op = "mul" -> imlib_mul(d, o, a.flag)
      [] a.op = "div" -> imlib_div(d, o, a.flag)
      [] a.op = "min" -> imlib_min(d, o)
      [] a.op = "max" -> imlib_max(d, o)
      [] a.op = "difference" -> imlib_difference(d, o)
      [] a.op = "blend" -> imlib_blend(d, o, a.alpha)

\* negate and invert take neither a second image nor a mask.
Unary(a) == a.op \in {"negate", "invert"}

-----------------------------------------------------------------------------
(* One line of an operation: the image with line n done from the line o *)

LineOp(im, a, n, o) ==
    [im EXCEPT ![n] = [x \in DOMAIN im[n] |->
        IF Unary(a) \/ image_get_mask_pixel(mask, <<n, x>>)
        THEN PixelOp(a, im[n][x], o[x]) ELSE im[n][x]]]

\* The pixels of one line are replaced from left to right, so that a
\* mirrored line of the same image is read where it was just written.
imlib_replace_line_op(im, a, n, o, same) ==
    LET w == Width(im)
        v_line == IF a.vflip THEN Height(im) - n - 1 ELSE n
        h(i) == IF a.hmirror THEN w - i - 1 ELSE i
        shown(i) == image_get_mask_pixel(mask, <<v_line, h(i)>>)
        row[i \in 0 .. w] ==      \* the line after i pixels
            IF i = 0 THEN im[v_line]
            ELSE LET prev == row[i - 1]
                     from == IF same /\ v_line = n THEN prev ELSE o
                 IN  IF shown(i - 1) THEN [prev EXCEPT ![i - 1] = from[h(i - 1)]] ELSE prev
    IN  [im EXCEPT ![v_line] = row[w]]

ApplyLine(im, a, n, o, same) ==
    IF a.op = "replace" THEN imlib_replace_line_op(im, a, n, o, same) ELSE LineOp(im, a, n, o)

-----------------------------------------------------------------------------
(* The file: its lines in the order they are stored *)

\* The n-th line stored of the picture pic in a file that is flipped or not.
FileLine(pic, n, vflipped, hflipped) ==
    LET row == pic[IF vflipped THEN Height(pic) - 1 - n ELSE n]
    IN  IF hflipped THEN [x \in DOMAIN row |-> row[Width(pic) - 1 - x]] ELSE row

(* Mutant: the window is filled from its top whatever the file. *)
bmp_read_pixels_FromTop(win, a, from, n) ==
    [r \in DOMAIN win |->
        IF r < n
        THEN LET row == FileLine(a.other, from + r, a.vflipped, a.hflipped)
             IN  IF a.hflipped THEN [x \in DOMAIN row |-> row[Width(a.other) - 1 - x]] ELSE row
        ELSE win[r]]

\* The next n lines of the file, from line `from', into the window, which
\* a vertically flipped file fills from its bottom.
bmp_read_pixels(win, a, from, n) ==
    LET at(r) == IF a.vflipped THEN a.lines - 1 - r ELSE r
    IN  [r \in DOMAIN win |->
           IF at(r) < n
           THEN LET row == FileLine(a.other, from + at(r), a.vflipped, a.hflipped)
                IN  IF a.hflipped THEN [x \in DOMAIN row |-> row[Width(a.other) - 1 - x]] ELSE row
           ELSE win[r]]

-----------------------------------------------------------------------------
(* imlib_image_operation, a line at a time *)

\* A BMP file of the size and format of the image (IM_EQUAL, otherwise the
\* code raises before the first line); errors of the file system and PNM
\* files are left out.
FromFile ==
    LET a == call
        i == line - (line % a.lines)
        j == line % a.lines
        can_do == Min({a.lines, Height(img) - i})
        n == IF a.vflipped THEN Height(img) - i - can_do + j ELSE i + j
    IN  /\ window' = IF j = 0 THEN bmp_read_pixels(window, a, i, can_do) ELSE window
        /\ img' = ApplyLine(img, a, n, window'[j], FALSE)

FromImage ==
    /\ img' = ApplyLine(img, call, line, IF call.from = "same" THEN img[line] ELSE call.other[line],
                        call.from = "same")
    /\ UNCHANGED window

FromScalar ==
    /\ img' = ApplyLine(img, call, line, [x \in DOMAIN img[0] |-> call.scalar], FALSE)
    /\ UNCHANGED window

OperateLine ==
    /\ Running("line") /\ line < Height(img)
    /\ \/ call.from = "file" /\ FromFile
       \/ call.from \in {"image", "same"} /\ FromImage
       \/ call.from = "scalar" /\ FromScalar
    /\ line' = line + 1
    /\ UNCHANGED <<call, returned, mask, orig>>

LineReturn ==
    /\ Running("line") /\ line = Height(img)
    /\ Return
    /\ UNCHANGED <<call, img, mask, orig, lineVars>>

-----------------------------------------------------------------------------
(* The calls: a has the operation, its arguments and the second image *)

imlib_image_operation(a) ==
    /\ call = a
    /\ line = 0
    /\ IF a.from = "file"
       THEN window \in {[r \in 0 .. a.lines - 1 |-> [x \in DOMAIN img[0] |-> v]] : v \in InitPixels}
       ELSE window = <<>>

LineIdle == line = 0 /\ window = <<>>

LineNext == OperateLine \/ LineReturn
=============================================================================
