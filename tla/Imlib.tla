------------------------------- MODULE Imlib -------------------------------
(***************************************************************************)
(* One call of an image function that works in place: its arguments, an    *)
(* image and a mask are the caller's; the call then runs to its return.    *)
(***************************************************************************)
EXTENDS WindowFilter, LineOps, Blobs

\* Calls to check, each with the pictures it is made on and the masks it
\* is given besides none.
CONSTANTS
    FilterJobs,  \* [pictures, masks, k, kernels or t, hat]: window filters
    LineJobs,    \* [pictures, masks, a]: line operations, a their arguments
    FillJobs,    \* [pictures, masks, a]: flood fills and cartoon filters
    BlobJobs     \* [pictures, a]: searches for blobs

\* Rectangular, and not empty.
IsPicture(p) ==
    /\ Height(p) \in Nat \ {0} /\ Width(p) \in Nat \ {0}
    /\ p \in Pictures(Width(p), Height(p), 0 .. MaxPixel)

ASSUME JobsAssumption ==
    /\ \A j \in FilterJobs :
         /\ j.k \in Nat
         /\ \A p \in j.pictures : IsPicture(p)
         /\ j.hat \in {"top", "black"} \/ j.kernels \in Seq(Range(j.kernels))
    /\ \A j \in LineJobs :
         /\ j.a.fn = "line" /\ j.a.from \in {"scalar", "same", "image", "file"}
         /\ j.a.from = "file" => j.a.lines \in Nat \ {0}
         /\ \A p \in j.pictures :
              /\ IsPicture(p)
              /\ j.a.from \in {"image", "file"} => j.a.other \in Pictures(Width(p), Height(p), 0 .. MaxPixel)
    /\ \A j \in FillJobs : j.a.fn \in {"flood_fill", "cartoon"}
    /\ \A j \in BlobJobs : j.a.fn = "find_blobs"

Init ==
    /\ \/ \E j \in FilterJobs :
            /\ img \in j.pictures
            /\ mask \in {Pixels(img)} \cup j.masks
            /\ IF j.hat = "top" THEN imlib_top_hat(j.k, j.t)
               ELSE IF j.hat = "black" THEN imlib_black_hat(j.k, j.t)
               ELSE filter(j.kernels, j.k)
            /\ LineIdle /\ FillIdle /\ BlobsIdle
       \/ \E j \in LineJobs :
            /\ img \in j.pictures
            /\ mask \in {Pixels(img)} \cup j.masks
            /\ imlib_image_operation(j.a)
            /\ FilterIdle /\ FillIdle /\ BlobsIdle
       \/ \E j \in FillJobs :
            /\ img \in j.pictures
            /\ IF j.a.fn = "cartoon"
               THEN mask = {} /\ BeginCartoon(j.a)
               ELSE mask \in {{}} \cup j.masks /\ BeginFlood(j.a)
            /\ FilterIdle /\ LineIdle /\ BlobsIdle
       \/ \E j \in BlobJobs :
            /\ img \in j.pictures
            /\ mask = {}
            /\ imlib_find_blobs(j.a)
            /\ FilterIdle /\ LineIdle
    /\ orig = img
    /\ returned = FALSE

Next ==
    \/ FilterNext /\ UNCHANGED <<lineVars, fillVars, blobVars>>
    \/ LineNext /\ UNCHANGED <<filterVars, fillVars, blobVars>>
    \/ FillNext /\ UNCHANGED <<filterVars, lineVars, blobVars>>
    \/ BlobsNext /\ UNCHANGED <<filterVars, lineVars>>

vars == <<imageVars, filterVars, lineVars, fillVars, blobVars>>

Spec == Init /\ [][Next]_vars
FairSpec == Spec /\ WF_vars(Next)
=============================================================================
