------------------------------ MODULE ImlibInv ------------------------------
(***************************************************************************)
(* What the image functions promise, stated on the image as it was passed  *)
(* in, without rings, windows of lines, stacks or bitmaps.                 *)
(***************************************************************************)
EXTENDS Imlib

-----------------------------------------------------------------------------
(* Window filters *)

Everywhere(im, a) ==
    [r \in DOMAIN im |-> [x \in DOMAIN im[r] |-> Filtered(im, <<r, x>>, ksize, a)]]

\* The image after each pass.
After ==
    LET after[n \in 0 .. Len(call.kernels)] ==
            IF n = 0 THEN orig ELSE Everywhere(after[n - 1], call.kernels[n])
    IN  after

AfterPasses == After[Len(call.kernels)]

(***************************************************************************)
(* Every pixel a window filter leaves is the kernel of the window in the   *)
(* image before the pass: the ring of ksize + 1 rows through which filter.c*)
(* and binary.c write back never lets a window see a filtered row.         *)
(***************************************************************************)
FilterExact ==
    returned /\ call.fn = "filter" =>
        img = IF call.hat THEN Difference(orig, AfterPasses) ELSE AfterPasses

-----------------------------------------------------------------------------
(* Line operations *)

Second ==
    CASE call.from = "scalar" -> [r \in DOMAIN orig |-> [x \in DOMAIN orig[r] |-> call.scalar]]
      [] call.from = "same" -> orig
      [] call.from \in {"image", "file"} -> call.other

ResultPixel(p) ==
    LET q == <<IF call.vflip THEN Height(orig) - 1 - p[1] ELSE p[1],
               IF call.hmirror THEN Width(orig) - 1 - p[2] ELSE p[2]>>
    IN  IF call.op = "replace" THEN At(Second, q) ELSE PixelOp(call, At(orig, p), At(Second, p))

(***************************************************************************)
(* A line operation combines every pixel the mask shows with the pixel of  *)
(* the second image at the same place (for replace, mirrored as asked),    *)
(* whether that image is a scalar, another image, the image itself or a    *)
(* file read a window at a time, and leaves the others alone.              *)
(***************************************************************************)
LineOpsExact ==
    returned /\ call.fn = "line" =>
        \A p \in Pixels(img) :
            At(img, p) = IF Unary(call) \/ p \in mask THEN ResultPixel(p) ELSE At(orig, p)

-----------------------------------------------------------------------------
(* Fills *)

InArea == (area.y1 .. area.y2) \X (area.x1 .. area.x2)
Adjacent(p, q) == AbsDiff(p[1], q[1]) + AbsDiff(p[2], q[2]) = 1

\* What is reached from p in S through steps that R admits: as many
\* rounds of growth as S has pixels, each computed once.
Grown(g, S, R(_, _)) ==
    {s[2] : s \in {s \in g \X (g \cup S) : s[1] = s[2] \/ (Adjacent(s[1], s[2]) /\ R(s[1], s[2]))}}

Reached(S, p, R(_, _)) ==
    LET grown[n \in 0 .. Cardinality(S)] ==
            IF n = 0 THEN {p}
            ELSE CHOOSE G \in {Grown(g, S, R) : g \in {grown[n - 1]}} : TRUE
    IN  grown[Cardinality(S)]

\* The region of p in im, without the pixels to avoid.
Region(im, p, avoid) ==
    LET joined(o, q) == /\ COLOR_BOUND(At(im, q), At(im, p), call.seed_threshold)
                        /\ COLOR_BOUND(At(im, q), At(im, o), call.floating_threshold)
    IN  Reached(InArea \ avoid, p, joined)

AmpleLifo == call.lifo_len >= Cardinality(InArea)

FloodExact ==
    call.fn = "flood_fill" /\ step = "over" =>
        LET region == mask \cup Region(orig, call.seed, mask)
        IN  /\ mask \cup {call.seed} \subseteq out /\ out \subseteq region
            /\ AmpleLifo => out = region

\* The regions of im, each grown from its first pixel in scan order
\* outside the regions before it; the image with each at its mean.
RegionsIn(im) ==
    LET order == ScanOrder(Width(im), Height(im))
        found[n \in 0 .. Len(order)] ==
            IF n = 0 THEN {}
            ELSE UNION {IF order[n] \in UNION R THEN R
                        ELSE R \cup {Region(im, order[n], UNION R)} : R \in {found[n - 1]}}
    IN  found[Len(order)]

CartoonOf(im, regions) ==
    LET mean(R) == MapThenSumSet(LAMBDA q : At(im, q), R) \div Cardinality(R)
    IN  [r \in DOMAIN im |-> [x \in DOMAIN im[r] |->
            mean(CHOOSE R \in regions : <<r, x>> \in R)]]

CartoonExact ==
    returned /\ call.fn = "cartoon" =>
        /\ bitmaps["fill"] = Pixels(img) /\ bitmaps["mean"] = Pixels(img)
        /\ AmpleLifo => img = CartoonOf(orig, RegionsIn(orig))

(***************************************************************************)
(* A flood fill takes pixels of the connected region of its seed only and, *)
(* when the stack has room for the walk, all of them; a cartoon filter     *)
(* gives every region the mean it had in the image passed in, although it  *)
(* paints the image it is walking; every pixel it averages is painted and  *)
(* no other, whatever the room on the stack.                               *)
(***************************************************************************)
FillExact == FloodExact /\ CartoonExact

-----------------------------------------------------------------------------
(* Blobs *)

Component(S, p) == Reached(S, p, LAMBDA o, q : TRUE)

Seeds == {BlobScan[n] : n \in DOMAIN BlobScan}

\* The regions each threshold finds, those of earlier thresholds removed.
RegionsOf ==
    LET found[c \in 0 .. Len(call.thresholds)] ==
            IF c = 0 THEN {}
            ELSE LET free == (InArea \cap Matching(call.thresholds[c]))
                                \ UNION {r.pixels : r \in found[c - 1]}
                 IN  found[c - 1] \cup {[code |-> c, pixels |-> Component(free, s)] :
                                            s \in Seeds \cap free}
    IN  found[Len(call.thresholds)]

BlobOfRegion(r) ==
    LET ys == {p[1] : p \in r.pixels}
        xs == {p[2] : p \in r.pixels}
        n == Cardinality(r.pixels)
    IN  [x |-> Min(xs), y |-> Min(ys), w |-> Max(xs) - Min(xs), h |-> Max(ys) - Min(ys),
         pixels |-> n,
         cx |-> MapThenSumSet(LAMBDA p : p[2], r.pixels) \div n,
         cy |-> MapThenSumSet(LAMBDA p : p[1], r.pixels) \div n,
         code |-> {r.code}, count |-> 1]

LargeRegions == {r \in RegionsOf : LargeBlob(BlobOfRegion(r))}
Total(S, f(_)) == MapThenSumSet(f, S)

(***************************************************************************)
(* With room on the stack imlib_find_blobs reports one blob for every      *)
(* connected region of matching pixels that a seed of the scan lies in,    *)
(* with its rectangle, size and centroid.  Merging ends with no two blobs  *)
(* that overlap within the margin, loses no pixel and no blob, and every   *)
(* region lies in the rectangle of a blob of its colour.                   *)
(***************************************************************************)
BlobsExact ==
    returned /\ call.fn = "find_blobs" /\ AmpleLifo =>
        LET index == DOMAIN blobs
        IN  /\ ~call.merge =>
                 /\ {blobs[n] : n \in index} = {BlobOfRegion(r) : r \in LargeRegions}
                 /\ Len(blobs) = Cardinality(LargeRegions)
            /\ \A m, n \in index : m # n /\ call.merge =>
                 ~rectangle_overlap(blobs[m], Widened(blobs[n], call.margin))
            /\ Total(index, LAMBDA n : blobs[n].pixels)
                 = Total(LargeRegions, LAMBDA r : Cardinality(r.pixels))
            /\ Total(index, LAMBDA n : blobs[n].count) = Cardinality(LargeRegions)
            /\ \A r \in LargeRegions : \E n \in index :
                 /\ r.code \in blobs[n].code
                 /\ \A p \in r.pixels :
                      /\ p[1] \in blobs[n].y .. blobs[n].y + blobs[n].h
                      /\ p[2] \in blobs[n].x .. blobs[n].x + blobs[n].w

-----------------------------------------------------------------------------

(***************************************************************************)
(* Every call returns: the loops over rows and windows end, the walk of a  *)
(* fill comes back from every line it pushed however little room the stack *)
(* has, and merging blobs reaches a pass that merges none.                 *)
(***************************************************************************)
OperationsEnd == <>returned

-----------------------------------------------------------------------------
(***************************************************************************)
(* Inductive invariant of the window filters.                              *)
(***************************************************************************)
\* Images at least as high as the windows reach: the last ksize rows, which
\* the ring holds at the end, are then rows of the image.
TallEnough == \A j \in FilterJobs : \A p \in j.pictures : Height(p) >= j.k

\* No fill is in progress.
FilterCall ==
    /\ step = "none"
    /\ IsPicture(orig) /\ ksize \in Nat /\ Height(orig) >= ksize
    /\ call.kernels \in Seq(Range(call.kernels))
    /\ passes \in Seq(Range(call.kernels))

\* Passes done; the rows of the one in progress.
Done == Len(call.kernels) - Len(passes)

PassInv ==
    /\ Done \in 0 .. Len(call.kernels)
    /\ \A n \in 1 .. Len(passes) : passes[n] = call.kernels[Done + n]
    /\ y \in 0 .. Height(orig)
    /\ passes = <<>> => y = 0

\* Rows that no later window reaches have been replaced, and no others.
RowsInv ==
    /\ DOMAIN img = DOMAIN orig /\ img = [r \in DOMAIN img |-> img[r]]
    /\ \A r \in DOMAIN orig : img[r] = After[IF r < y - ksize THEN Done + 1 ELSE Done][r]

\* The ring has the rows computed and not yet replaced, and the last one that was.
RingInv ==
    /\ DOMAIN buf = 0 .. ksize
    /\ \A r \in DOMAIN orig : r < y /\ r >= y - ksize - 1 => buf[RingRow(r)] = After[Done + 1][r]

FilterIInv ==
    call.fn = "filter" =>
        /\ FilterCall
        /\ IF returned THEN FilterExact ELSE PassInv /\ RowsInv /\ RingInv

-----------------------------------------------------------------------------
(***************************************************************************)
(* Inductive invariant of the line operations.                             *)
(***************************************************************************)
\* A flipped file is read in windows of equal size, a mirrored replace comes
\* without a mask (its mask is looked up in the mirrored column) and not from
\* the image itself.
PlainSources ==
    \A j \in LineJobs :
        /\ j.a.from = "file" /\ j.a.vflipped => \A p \in j.pictures : Height(p) % j.a.lines = 0
        /\ j.a.op = "replace" /\ j.a.hmirror => j.masks = {}
        /\ j.a.op = "replace" /\ j.a.from = "same" => ~j.a.hmirror /\ ~j.a.vflip

LineCall ==
    /\ step = "none"
    /\ IsPicture(orig)
    /\ call.from \in {"scalar", "same", "image", "file"}
    /\ call.from \in {"image", "file"} =>
         call.other \in Pictures(Width(orig), Height(orig), 0 .. MaxPixel)
    /\ call.from = "file" => call.lines \in Nat \ {0}
    /\ call.from = "file" /\ call.vflipped => Height(orig) % call.lines = 0
    /\ call.op = "replace" /\ call.hmirror => mask = Pixels(orig)
    /\ call.op = "replace" /\ call.from = "same" => ~call.hmirror /\ ~call.vflip

\* The first line of the window that has line n of the file.
WindowOf(n) == n - (n % call.lines)

\* The line of the second image taken n-th, and the line of the image written.
Taken(n) ==
    IF call.from = "file" /\ call.vflipped
    THEN Height(orig) - WindowOf(n) - call.lines + (n % call.lines) ELSE n

Target(n) ==
    IF call.op = "replace" /\ call.vflip THEN Height(orig) - 1 - Taken(n) ELSE Taken(n)

ResultLine(r) ==
    [x \in DOMAIN orig[r] |->
        IF Unary(call) \/ <<r, x>> \in mask THEN ResultPixel(<<r, x>>) ELSE orig[r][x]]

\* The lines written so far have their result, the others are as they were.
LinesInv ==
    /\ line \in 0 .. Height(orig)
    /\ DOMAIN img = DOMAIN orig /\ img = [r \in DOMAIN img |-> img[r]]
    /\ \A r \in DOMAIN orig :
         img[r] = IF \E n \in 0 .. line - 1 : Target(n) = r THEN ResultLine(r) ELSE orig[r]

\* In the middle of a window, the window has the lines to come.
WindowInv ==
    call.from = "file" =>
        /\ DOMAIN window = 0 .. call.lines - 1
        /\ line % call.lines # 0 =>
             \A n \in DOMAIN orig :
                WindowOf(n) = WindowOf(line) => window[n % call.lines] = call.other[Taken(n)]

LineIInv ==
    call.fn = "line" =>
        LineCall /\ LinesInv /\ WindowInv /\ (returned => line = Height(orig))
=============================================================================
