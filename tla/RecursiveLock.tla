--------------------------- MODULE RecursiveLock ---------------------------
(***************************************************************************)
(* What a recursive lock promises: a core may take it again while it holds *)
(* it, and no core takes it while another one does.  CoreLock is shown to  *)
(* implement this specification.                                           *)
(***************************************************************************)
EXTENDS Naturals

CONSTANT Cores

VARIABLE hold   \* how many times each core holds the lock

Init == hold = [c \in Cores |-> 0]

Acquire(c) ==
  /\ \A d \in Cores \ {c} : hold[d] = 0
  /\ hold' = [hold EXCEPT ![c] = @ + 1]

Relinquish(c) ==
  /\ hold[c] > 0
  /\ hold' = [hold EXCEPT ![c] = @ - 1]

Next == \E c \in Cores : Acquire(c) \/ Relinquish(c)

Spec == Init /\ [][Next]_hold
=============================================================================
