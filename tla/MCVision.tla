------------------------------ MODULE MCVision ------------------------------
(***************************************************************************)
(* Four boxes of one class, as many floats as they take, and one object    *)
(* fewer than a picture may show.                                          *)
(***************************************************************************)
EXTENDS VisionInv

S(a, b, c, d) == <<<<a>>, <<b>>, <<c>>, <<d>>>>

\* Boxes 1 and 2 and boxes 2 and 3 overlap, 1 and 3 do not, nor does 4.
MCOverlap == {<<1, 2>>, <<2, 1>>, <<2, 3>>, <<3, 2>>}

\* 2 is suppressed by 1 and must not suppress 3: 1, 3 and 4 are left.
MCImages == {S(4, 3, 2, 2)}

\* 2 and 3 tie and one of them is kept, 1 and 4 do not pass the threshold.
MCScenes == {S(1, 2, 2, 1)}
=============================================================================
