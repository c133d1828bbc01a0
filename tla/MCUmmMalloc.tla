---------------------------- MODULE MCUmmMalloc ----------------------------
(***************************************************************************)
(* umm_malloc over heaps of a few blocks.  The outcome of the last call    *)
(* is left out of the view: it is read on the step that writes it only.    *)
(***************************************************************************)
EXTENDS UmmMallocInv

View == <<mem, numblocks, live>>
=============================================================================
