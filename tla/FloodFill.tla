----------------------------- MODULE FloodFill -----------------------------
(***************************************************************************)
(* imlib_flood_fill_int, the scanline fill with an explicit stack, and the *)
(* two functions that call it: imlib_flood_fill and imlib_cartoon_filter,  *)
(* whose second fill paints the image while it walks it.  Blobs uses the   *)
(* same walk for imlib_find_blobs.                                         *)
(***************************************************************************)
EXTENDS Image

VARIABLES
    bitmaps,  \* the pixels set in each bitmap: "out"; or "mean" and "fill"
    using,    \* the bitmap the fill in progress writes
    step,     \* "seek" a seed, fill a "line", "scan" its neighbours, "over"
    at,       \* x, y, left and right of the line
    seed,     \* the pixel the fill began at and its value
    lifo,     \* the lines to come back to
    acc,      \* what the lines of this fill added up to
    cur       \* seeds tried so far, in scan order

fillVars == <<bitmaps, using, step, at, seed, lifo, acc, cur>>

out == bitmaps[using]
area == call.area     \* the rectangle searched: the image, or the ROI

-----------------------------------------------------------------------------
(* Which pixels a fill takes *)

COLOR_BOUND(p, q, threshold) == AbsDiff(p, q) <= threshold
COLOR_THRESHOLD(p, t, invert) == (t.lmin <= p /\ p <= t.lmax) # invert

\* Whether the walk goes from pixel p of im to its neighbour q.
Joins(im, p, q) ==
    IF call.fn = "find_blobs"
    THEN COLOR_THRESHOLD(At(im, q), call.thresholds[acc.code], call.invert)
    ELSE /\ COLOR_BOUND(At(im, q), seed.value, call.seed_threshold)
         /\ COLOR_BOUND(At(im, q), At(im, p), call.floating_threshold)

\* The ends of the line that grows from x until a pixel does not join.
LeftEnd(x, y) ==
    Min({l \in area.x1 .. x : \A i \in l .. x - 1 :
            <<y, i>> \notin out /\ Joins(img, <<y, i + 1>>, <<y, i>>)})

RightEnd(x, y) ==
    Max({r \in x .. area.x2 : \A i \in x + 1 .. r :
            <<y, i>> \notin out /\ Joins(img, <<y, i - 1>>, <<y, i>>)})

(* Mutant: the last pixel of the line is not looked at. *)
Candidates_Short(n) ==
    IF n \notin area.y1 .. area.y2 THEN {}
    ELSE {i \in at.l .. at.r - 1 : <<n, i>> \notin out /\ Joins(img, <<at.y, i>>, <<n, i>>)}

\* The pixels of row n to go on with from the line.
Candidates(n) ==
    IF n \notin area.y1 .. area.y2 THEN {}
    ELSE {i \in at.l .. at.r : <<n, i>> \notin out /\ Joins(img, <<at.y, i>>, <<n, i>>)}

-----------------------------------------------------------------------------
(* The walk *)

StartFill(p, name) ==
    /\ at' = [x |-> p[2], y |-> p[1], l |-> p[2], r |-> p[2]]
    /\ seed' = [pixel |-> p, value |-> At(img, p)]
    /\ using' = name
    /\ step' = "line"

SetLine(l, r) == bitmaps' = [bitmaps EXCEPT ![using] = @ \cup ({at.y} \X (l .. r))]

\* What the function calling the fill does with a line as it is set.
LineStats(l, r) ==
    IF call.fn # "find_blobs" THEN UNCHANGED acc
    ELSE acc' = [acc EXCEPT !.pixels = @ + (r - l + 1),
                            !.cx = @ + MapThenSumSet(LAMBDA i : i, l .. r),
                            !.cy = @ + at.y * (r - l + 1),
                            !.x1 = Min({@, l}), !.y1 = Min({@, at.y}),
                            !.x2 = Max({@, r}), !.y2 = Max({@, at.y})]

FillLine ==
    LET l == LeftEnd(at.x, at.y)
        r == RightEnd(at.x, at.y)
    IN  /\ ~returned /\ step = "line"
        /\ at' = [at EXCEPT !.l = l, !.r = r]
        /\ SetLine(l, r)
        /\ LineStats(l, r)
        /\ step' = "scan"
        /\ UNCHANGED <<imageVars, using, seed, lifo, cur>>

Room == Len(lifo) < call.lifo_len

\* The first candidate above, else below; the line is pushed.
FillRecurse ==
    LET up == Candidates(at.y - 1)
        n == IF up # {} THEN at.y - 1 ELSE at.y + 1
    IN  /\ ~returned /\ step = "scan"
        /\ Room /\ Candidates(n) # {}
        /\ lifo' = Append(lifo, at)
        /\ at' = [x |-> Min(Candidates(n)), y |-> n, l |-> Min(Candidates(n)), r |-> Min(Candidates(n))]
        /\ step' = "line"
        /\ UNCHANGED <<imageVars, bitmaps, using, seed, acc, cur>>

\* imlib_cartoon_filter_mean and imlib_cartoon_filter_fill, called for a
\* line that nothing more is found from.
LineDone ==
    /\ acc' = IF call.fn = "cartoon" /\ using = "mean"
              THEN [acc EXCEPT !.sum = @ + MapThenSumSet(LAMBDA i : img[at.y][i], at.l .. at.r),
                               !.pixels = @ + (at.r - at.l + 1)]
              ELSE acc
    /\ img' = IF call.fn = "cartoon" /\ using = "fill"
              THEN [img EXCEPT ![at.y] = [i \in DOMAIN @ |->
                        IF i \in at.l .. at.r THEN acc.mean ELSE @[i]]]
              ELSE img

FillPop ==
    /\ ~returned /\ step = "scan"
    /\ ~(Room /\ Candidates(at.y - 1) \cup Candidates(at.y + 1) # {})
    /\ LineDone
    /\ IF lifo = <<>> THEN step' = "over" /\ UNCHANGED <<at, lifo>>
       ELSE at' = lifo[Len(lifo)] /\ lifo' = SubSeq(lifo, 1, Len(lifo) - 1) /\ UNCHANGED step
    /\ UNCHANGED <<call, returned, mask, orig, bitmaps, using, seed, cur>>

-----------------------------------------------------------------------------
(* imlib_flood_fill: one fill from the caller's pixel, then the painting *)

imlib_flood_fill ==
    /\ Running("flood_fill") /\ step = "seek"
    /\ IF call.seed \in Pixels(img)
       THEN StartFill(call.seed, "out") /\ UNCHANGED returned
       ELSE Return /\ UNCHANGED <<at, seed, using, step>>
    /\ UNCHANGED <<call, img, mask, orig, bitmaps, lifo, acc, cur>>

FloodPaint ==
    /\ Running("flood_fill") /\ step = "over"
    /\ img' = [r \in DOMAIN img |-> [x \in DOMAIN img[r] |->
                 CASE (<<r, x>> \in out) # call.invert -> call.c
                   [] (<<r, x>> \in out) = call.invert ->
                        IF call.clear_background THEN 0 ELSE img[r][x]]]
    /\ Return
    /\ UNCHANGED <<call, mask, orig, fillVars>>

-----------------------------------------------------------------------------
(* imlib_cartoon_filter: for every pixel not yet averaged, a fill that     *)
(* averages its region and one that paints it                              *)

\* Pixels in the order of the loops over y and x.
ScanOrder(w, h) == [n \in 1 .. w * h |-> <<(n - 1) \div w, (n - 1) % w>>]

\* The places after cur in the scan whose pixel is in P.
LaterIn(order, P) == {n \in cur + 1 .. Len(order) : order[n] \in P}

imlib_cartoon_filter ==
    LET order == ScanOrder(Width(img), Height(img))
        later == LaterIn(order, Pixels(img) \ bitmaps["mean"])
    IN  /\ Running("cartoon") /\ step = "seek"
        /\ IF later = {} THEN Return /\ UNCHANGED <<at, seed, using, step, acc, cur>>
           ELSE /\ StartFill(order[Min(later)], "mean")
                /\ acc' = [sum |-> 0, pixels |-> 0, mean |-> 0]
                /\ cur' = Min(later)
                /\ UNCHANGED returned
        /\ UNCHANGED <<call, img, mask, orig, bitmaps, lifo>>

CartoonFill ==
    /\ Running("cartoon") /\ step = "over"
    /\ IF using = "mean"
       THEN StartFill(seed.pixel, "fill") /\ acc' = [acc EXCEPT !.mean = acc.sum \div acc.pixels]
       ELSE step' = "seek" /\ UNCHANGED <<at, seed, using, acc>>
    /\ UNCHANGED <<imageVars, bitmaps, lifo, cur>>

-----------------------------------------------------------------------------
(* The calls *)

BeginFill(a, maps, name, data) ==
    /\ call = a
    /\ bitmaps = maps
    /\ using = name /\ step = "seek"
    /\ at = [x |-> 0, y |-> 0, l |-> 0, r |-> 0]
    /\ seed = [pixel |-> <<0, 0>>, value |-> 0]
    /\ lifo = <<>> /\ cur = 0
    /\ acc = data

\* The pixels of a mask (none without one) count as filled from the start.
BeginFlood(a) == BeginFill(a, [out |-> mask], "out", [sum |-> 0])
BeginCartoon(a) == BeginFill(a, [mean |-> {}, fill |-> mask], "mean", [sum |-> 0])

FillIdle ==
    /\ bitmaps = <<>> /\ using = "none" /\ step = "none" /\ at = <<>> /\ seed = <<>>
    /\ lifo = <<>> /\ acc = <<>> /\ cur = 0

FillNext ==
    \/ FillLine \/ FillRecurse \/ FillPop
    \/ imlib_flood_fill \/ FloodPaint
    \/ imlib_cartoon_filter \/ CartoonFill
=============================================================================
