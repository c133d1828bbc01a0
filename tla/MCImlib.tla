------------------------------ MODULE MCImlib ------------------------------
(***************************************************************************)
(* Image functions on images of a few pixels of values 0 .. 3.             *)
(***************************************************************************)
EXTENDS ImlibInv

Checks(w, h) == {{p \in (0 .. h - 1) \X (0 .. w - 1) : (p[1] + p[2]) % 2 = 0}}
Grays(w, h) == Pictures(w, h, InitPixels)

-----------------------------------------------------------------------------
(* Window filters, ksize 0, 1 and 2, heights from ksize up *)

Plain == [adaptive |-> FALSE, offset |-> 0, invert |-> FALSE]
Adapt == [adaptive |-> TRUE, offset |-> 1, invert |-> FALSE]
AdaptInv == [adaptive |-> TRUE, offset |-> 0, invert |-> TRUE]

\* The heaviest weight in the middle of the window.
Weights(k) == [n \in 1 .. Side(k) * Side(k) |->
                 IF n <= k * Side(k) THEN 1 ELSE IF n <= (k + 1) * Side(k) THEN 2 ELSE 1]
Sharpen(k) == [n \in 1 .. Side(k) * Side(k) |->
                 IF n = 2 * k * (k + 1) + 1 THEN 3 ELSE IF n <= Side(k) THEN -1 ELSE 0]

Kernels(k) ==
    {<<Plain @@ [kernel |-> "mean"]>>, <<Adapt @@ [kernel |-> "mean"]>>,
     <<Plain @@ [kernel |-> "median", num |-> 1, den |-> 2]>>,
     <<AdaptInv @@ [kernel |-> "median", num |-> 1, den |-> 4]>>,
     <<Plain @@ [kernel |-> "mode"]>>,
     <<Plain @@ [kernel |-> "midpoint", num |-> 1, den |-> 2]>>,
     <<Plain @@ [kernel |-> "morph", krn |-> Sharpen(k), num |-> 1, den |-> 2, b |-> 1]>>,
     <<Plain @@ [kernel |-> "bilateral", gi |-> [d \in 0 .. MaxPixel |-> MaxPixel - d],
                 gs |-> Weights(k)]>>,
     <<imlib_erode(2)>>, <<imlib_dilate(1)>>,
     imlib_open(k, 0), imlib_close(k, 1)}

FilterJob(w, h, k, ks) ==
    [pictures |-> Grays(w, h), masks |-> Checks(w, h), k |-> k, kernels |-> ks, hat |-> "none"]
HatJob(w, h, k, t, hat) ==
    [pictures |-> Grays(w, h), masks |-> Checks(w, h), k |-> k, t |-> t, hat |-> hat]

MCFilterJobs ==
    {FilterJob(1, 4, 1, ks) : ks \in Kernels(1)}
    \cup {FilterJob(1, 4, 2, ks) : ks \in {<<Adapt @@ [kernel |-> "mean"]>>, imlib_open(2, 0)}}
    \cup {FilterJob(2, 2, 1, ks) : ks \in {<<Plain @@ [kernel |-> "mode"]>>, imlib_close(1, 1)}}
    \cup {FilterJob(2, 2, 0, <<Adapt @@ [kernel |-> "mean"]>>)}
    \cup {HatJob(2, 2, 1, 0, hat) : hat \in {"top", "black"}}

-----------------------------------------------------------------------------
(* Line operations on images of two pixels a line *)

Other(w, h) == [r \in 0 .. h - 1 |-> [x \in 0 .. w - 1 |-> (2 * r + x + 1) % (MaxPixel + 1)]]

Binary == {[op |-> o, flag |-> FALSE] : o \in {"b_and", "b_nand", "b_or", "b_nor", "b_xor", "b_xnor",
                                               "add", "min", "max", "difference"}}
          \cup {[op |-> o, flag |-> f] : o \in {"sub", "mul", "div"}, f \in BOOLEAN}
          \cup {[op |-> "blend", flag |-> FALSE, alpha |-> [num |-> 1, den |-> 4]]}
NoMirror == [fn |-> "line", hmirror |-> FALSE, vflip |-> FALSE]

LineJob(w, h, masks, a) == [pictures |-> Grays(w, h), masks |-> masks, a |-> a]

MCLineJobs ==
    {LineJob(2, 2, Checks(2, 2), b @@ NoMirror @@ [from |-> "image", other |-> Other(2, 2)]) : b \in Binary}
    \cup {LineJob(2, 2, Checks(2, 2), b @@ NoMirror @@ [from |-> "scalar", scalar |-> 2]) :
            b \in {b \in Binary : b.op \in {"add", "div"}}}
    \cup {LineJob(2, 2, Checks(2, 2), b @@ NoMirror @@ [from |-> "same"]) :
            b \in {b \in Binary : b.op \in {"sub", "b_xor"}}}
    \cup {LineJob(2, 2, {}, [op |-> o] @@ NoMirror @@ [from |-> "same"]) : o \in {"negate", "invert"}}
    \cup {LineJob(2, 2, IF m THEN {} ELSE Checks(2, 2),
                  [op |-> "replace", fn |-> "line", hmirror |-> m, vflip |-> v,
                   from |-> "image", other |-> Other(2, 2)]) : m, v \in BOOLEAN}
    \cup {LineJob(1, 4, Checks(1, 4),
                  b @@ NoMirror @@ [from |-> "file", other |-> Other(1, 4), lines |-> n,
                                    vflipped |-> v, hflipped |-> FALSE]) :
            b \in {[op |-> "add"], [op |-> "replace"]}, v \in BOOLEAN, n \in {2, 4}}
    \cup {LineJob(1, 3, {}, [op |-> "min"] @@ NoMirror @@
                  [from |-> "file", other |-> Other(1, 3), lines |-> 2,
                   vflipped |-> FALSE, hflipped |-> FALSE]),
          LineJob(2, 2, {}, [op |-> "difference"] @@ NoMirror @@
                  [from |-> "file", other |-> Other(2, 2), lines |-> 3,
                   vflipped |-> FALSE, hflipped |-> TRUE])}

-----------------------------------------------------------------------------
(* Fills with a stack of one line and with room for every pixel *)

Whole(w, h) == [x1 |-> 0, x2 |-> w - 1, y1 |-> 0, y2 |-> h - 1]

FloodCall(w, h, p, l) ==
    [fn |-> "flood_fill", area |-> Whole(w, h), seed |-> p, seed_threshold |-> 1,
     floating_threshold |-> 1, c |-> 1, invert |-> FALSE, clear_background |-> TRUE, lifo_len |-> l]

CartoonCall(w, h, l) ==
    [fn |-> "cartoon", area |-> Whole(w, h), seed_threshold |-> 2, floating_threshold |-> 1,
     lifo_len |-> l]

MCFillJobs ==
    {[pictures |-> Pictures(3, 3, {0, 2}), masks |-> Checks(3, 3),
      a |-> FloodCall(3, 3, <<0, 1>>, l)] : l \in {1, 9}}
    \cup {[pictures |-> Pictures(2, 3, {0, 1, 3}), masks |-> Checks(2, 3), a |->
            [FloodCall(2, 3, p, 6) EXCEPT !.seed_threshold = 2, !.invert = TRUE,
                                          !.clear_background = FALSE]] : p \in {<<1, 1>>, <<3, 0>>}}
    \cup {[pictures |-> Pictures(2, 3, {0, 1, 3}), masks |-> {}, a |-> CartoonCall(2, 3, l)] :
            l \in {1, 6}}

BlobCall(w, h, l) ==
    [fn |-> "find_blobs", area |-> Whole(w, h), invert |-> FALSE, x_stride |-> 1, y_stride |-> 1,
     area_threshold |-> 0, pixels_threshold |-> 1, merge |-> FALSE, margin |-> 0, lifo_len |-> l,
     thresholds |-> <<[lmin |-> 1, lmax |-> 3]>>]

TwoColours == <<[lmin |-> 3, lmax |-> 3], [lmin |-> 2, lmax |-> 3]>>

\* Three columns, the first and the last begun by blobs of their own.
Columns == {p \in Pictures(3, 4, {0, 2}) : p[0] = [x \in 0 .. 2 |-> IF x = 1 THEN 0 ELSE 2]}

MCBlobJobs ==
    {[pictures |-> Pictures(3, 3, {0, 2}), a |-> BlobCall(3, 3, 9)],
     [pictures |-> Columns, a |-> [BlobCall(3, 4, 12) EXCEPT !.merge = TRUE, !.margin = 1]],
     [pictures |-> Pictures(3, 2, {0, 2}), a |->
        [BlobCall(3, 2, 6) EXCEPT !.area.x1 = 1, !.invert = TRUE, !.y_stride = 2,
                                  !.area_threshold = 1]]}
    \cup {[pictures |-> Pictures(2, 3, {0, 2, 3}), a |->
            [BlobCall(2, 3, l) EXCEPT !.thresholds = TwoColours, !.x_stride = 2,
                                      !.pixels_threshold = 2]] : l \in {1, 6}}
=============================================================================
