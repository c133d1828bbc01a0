---------------------------- MODULE RegionLayer ----------------------------
(***************************************************************************)
(* The last layer of the face detector (board-drivers/region_layer.c):     *)
(* from the output of the network to a list of objects.  The network       *)
(* predicts a fixed number of boxes and, for each, a probability per       *)
(* class; a box is an index here, and its geometry the set of boxes it     *)
(* overlaps by more than region_param->nms.  The lookup tables, the        *)
(* exponentials and the products of forward_region_layer and               *)
(* get_region_box are left out: a scene is the product they end in.        *)
(***************************************************************************)
EXTENDS Integers, SequencesExt

CONSTANTS
    NBoxes,      \* region_layer_boxes
    NClasses,    \* region_param->class
    Threshold,   \* region_param->threshold
    Overlap,     \* pairs of boxes with box_iou above region_param->nms
    NOutput,     \* floats in the static array output, 2100
    MaxObjects   \* length of OBJECT_INFO.object

Boxes == 1 .. NBoxes
Classes == 1 .. NClasses

ASSUME RegionAssumption ==
    /\ NBoxes \in Nat \ {0} /\ NClasses \in Nat \ {0} /\ MaxObjects \in Nat
    /\ Threshold \in Nat /\ NOutput \in Nat
    /\ \A o \in Overlap : o[1] \in Boxes /\ o[2] \in Boxes /\ <<o[2], o[1]>> \in Overlap

\* region_layer_l_coords
Coords == 4

\* forward_region_layer writes output_cnt floats: for each box its
\* coordinates, its scale and a probability per class.  The class count
\* comes from the flash and is not compared with the array; 2100 floats are
\* the 350 boxes of the detector with one class each.
OutputFits == NBoxes * (NClasses + Coords + 1) <= NOutput

\* get_region_boxes: probabilities that do not pass the threshold become 0.
get_region_boxes(scene) ==
    [b \in Boxes |-> [k \in Classes |->
        IF scene[b][k] > Threshold THEN scene[b][k] ELSE 0]]

\* qsort with nms_comparator: most probable first, equal ones in any order.
Sorted(p) ==
    {s \in SetToSeqs(Boxes) :
        \A i \in 1 .. NBoxes - 1 : p[s[i]] >= p[s[i + 1]]}

(* Mutant: a box that was itself suppressed still suppresses others. *)
Suppress_Dead(s, p, i) ==
    [b \in Boxes |->
        IF \E j \in i + 1 .. NBoxes : s[j] = b /\ <<s[i], b>> \in Overlap
        THEN 0 ELSE p[b]]

\* One round of the outer loop: box s[i], unless it has been suppressed,
\* suppresses what comes after it in s and overlaps it.
Suppress(s, p, i) ==
    IF p[s[i]] = 0 THEN p
    ELSE [b \in Boxes |->
            IF \E j \in i + 1 .. NBoxes : s[j] = b /\ <<s[i], b>> \in Overlap
            THEN 0 ELSE p[b]]

\* The probabilities p of one class after each round, when s is the order.
Rounds(s, p) ==
    LET probs[i \in 0 .. NBoxes] == IF i = 0 THEN p ELSE Suppress(s, probs[i - 1], i)
    IN  probs

\* What do_nms_sort may leave of the probabilities of one class.
NmsClass(p) == {Rounds(s, p)[NBoxes] : s \in Sorted(p)}

do_nms_sort(p) ==
    LET Left(k) == NmsClass([b \in Boxes |-> p[b][k]])
    IN  {[b \in Boxes |-> [k \in Classes |-> f[k][b]]] :
            f \in {g \in [Classes -> UNION {Left(k) : k \in Classes}] :
                        \A k \in Classes : g[k] \in Left(k)}}

\* The first of the most probable classes.
max_index(a) ==
    CHOOSE k \in Classes :
        /\ \A j \in Classes : a[k] >= a[j]
        /\ \A j \in 1 .. k - 1 : a[k] > a[j]

\* The objects among the first b boxes, at most MaxObjects of them.
ObjectsUpTo(p) ==
    LET info[b \in 0 .. NBoxes] ==
          IF b = 0 THEN <<>>
          ELSE IF p[b][max_index(p[b])] > Threshold /\ Len(info[b - 1]) < MaxObjects
               THEN Append(info[b - 1], [box |-> b, class |-> max_index(p[b])])
               ELSE info[b - 1]
    IN  info

region_layer_detect_object(p) == ObjectsUpTo(p)[NBoxes]

\* With more classes than output holds, other variables are overwritten, and
\* what becomes of the boxes is undefined.
AnyObjects ==
    UNION {[1 .. n -> [box : Boxes, class : Classes]] : n \in 0 .. MaxObjects}
=============================================================================
