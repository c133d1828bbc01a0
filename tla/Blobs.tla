------------------------------- MODULE Blobs -------------------------------
(***************************************************************************)
(* imlib_find_blobs: for every colour threshold, the regions of matching   *)
(* pixels found by the walk of FloodFill from the seeds of a strided scan, *)
(* filtered by size and, if asked, merged while their rectangles overlap.  *)
(* The rotation of a blob is left out.                                     *)
(***************************************************************************)
EXTENDS FloodFill, SequencesExt

VARIABLES
    blobs,       \* out: the list of blobs
    out_temp,    \* those the merge pass is done with
    merged       \* merge_occured

blobVars == <<blobs, out_temp, merged>>

-----------------------------------------------------------------------------
(* Finding *)

\* The seeds of the two strided loops, in order.
BlobScan ==
    SelectSeq(ScanOrder(area.x2 + 1, area.y2 + 1),
        LAMBDA p : /\ p[1] >= area.y1 /\ (p[1] - area.y1) % call.y_stride = 0
                   /\ LET x0 == area.x1 + (p[1] % call.x_stride)
                      IN  p[2] >= x0 /\ (p[2] - x0) % call.x_stride = 0)

Matching(t) == {p \in Pixels(img) : COLOR_THRESHOLD(At(img, p), t, call.invert)}

NoBlob(code, p) == [code |-> code, pixels |-> 0, cx |-> 0, cy |-> 0,
                    x1 |-> p[2], y1 |-> p[1], x2 |-> p[2], y2 |-> p[1]]

\* The next seed that matches and is in no blob; else the next threshold,
\* with the bitmap as it is; else the end of the search.
SeekBlob ==
    LET later == LaterIn(BlobScan, Matching(call.thresholds[acc.code]) \ out)
        p == BlobScan[Min(later)]
    IN  /\ Running("find_blobs") /\ step = "seek"
        /\ \/ /\ later # {}
              /\ StartFill(p, "out")
              /\ acc' = NoBlob(acc.code, p)
              /\ cur' = Min(later)
           \/ /\ later = {} /\ acc.code < Len(call.thresholds)
              /\ acc' = NoBlob(acc.code + 1, <<0, 0>>)
              /\ cur' = 0
              /\ UNCHANGED <<at, seed, using, step>>
           \/ /\ later = {} /\ acc.code = Len(call.thresholds)
              /\ step' = "merge"
              /\ UNCHANGED <<at, seed, using, acc, cur>>
        /\ UNCHANGED <<imageVars, bitmaps, lifo, blobVars>>

\* lnk_blob: the corners are inclusive, w and h are their difference.
BlobOf(a) ==
    [x |-> a.x1, y |-> a.y1, w |-> a.x2 - a.x1, h |-> a.y2 - a.y1,
     pixels |-> a.pixels, cx |-> a.cx \div a.pixels, cy |-> a.cy \div a.pixels,
     code |-> {a.code}, count |-> 1]

LargeBlob(b) == b.w * b.h >= call.area_threshold /\ b.pixels >= call.pixels_threshold

KeepBlob ==
    /\ Running("find_blobs") /\ step = "over"
    /\ blobs' = IF LargeBlob(BlobOf(acc)) THEN Append(blobs, BlobOf(acc)) ELSE blobs
    /\ step' = "seek"
    /\ UNCHANGED <<imageVars, bitmaps, using, at, seed, lifo, acc, cur, out_temp, merged>>

-----------------------------------------------------------------------------
(* Merging *)

rectangle_overlap(a, b) ==
    a.x < b.x + b.w /\ a.y < b.y + b.h /\ b.x < a.x + a.w /\ b.y < a.y + a.h

Widened(b, margin) ==
    [b EXCEPT !.x = @ - margin, !.y = @ - margin,
              !.w = Max({@ + 2 * margin, 0}), !.h = Max({@ + 2 * margin, 0})]

rectangle_united(a, b) ==
    LET x == Min({a.x, b.x})
        y == Min({a.y, b.y})
    IN  [a EXCEPT !.x = x, !.y = y, !.w = Max({a.x + a.w, b.x + b.w}) - x,
                  !.h = Max({a.y + a.h, b.y + b.h}) - y]

Merge(a, b) ==
    LET n == a.pixels + b.pixels
    IN  [rectangle_united(a, b) EXCEPT
            !.cx = (a.cx * a.pixels + b.cx * b.pixels) \div n,
            !.cy = (a.cy * a.pixels + b.cy * b.pixels) \div n,
            !.pixels = n, !.code = a.code \cup b.code, !.count = a.count + b.count]

(* Mutant: a pass that merged blobs is the last one. *)
Again_Never(m) == FALSE

(* Mutant: another pass, whether or not the last one merged. *)
Again_Always(m) == TRUE

Again(m) == m

\* The first blob takes in those it overlaps as it grows; the others stay.
MergeFirst ==
    LET absorb(s, b) ==
            IF rectangle_overlap(s.blob, Widened(b, call.margin))
            THEN [s EXCEPT !.blob = Merge(s.blob, b), !.merged = TRUE]
            ELSE [s EXCEPT !.rest = Append(@, b)]
        s == FoldLeft(absorb, [blob |-> Head(blobs), rest |-> <<>>, merged |-> merged], Tail(blobs))
    IN  /\ Running("find_blobs") /\ step = "merge" /\ call.merge
        /\ blobs # <<>>
        /\ blobs' = s.rest
        /\ merged' = s.merged
        /\ out_temp' = Append(out_temp, s.blob)
        /\ UNCHANGED <<imageVars, fillVars>>

MergePass ==
    /\ Running("find_blobs") /\ step = "merge" /\ call.merge
    /\ blobs = <<>>
    /\ blobs' = out_temp
    /\ out_temp' = <<>>
    /\ merged' = FALSE
    /\ IF Again(merged) THEN UNCHANGED returned ELSE Return
    /\ UNCHANGED <<call, img, mask, orig, fillVars>>

BlobsReturn ==
    /\ Running("find_blobs") /\ step = "merge" /\ ~call.merge
    /\ Return
    /\ UNCHANGED <<call, img, mask, orig, fillVars, blobVars>>

imlib_find_blobs(a) ==
    /\ BeginFill(a, [out |-> {}], "out", NoBlob(1, <<0, 0>>))
    /\ blobs = <<>> /\ out_temp = <<>> /\ merged = FALSE

BlobsIdle == blobs = <<>> /\ out_temp = <<>> /\ merged = FALSE

BlobsNext == SeekBlob \/ KeepBlob \/ MergeFirst \/ MergePass \/ BlobsReturn
=============================================================================
