----------------------------- MODULE MCCoreLock -----------------------------
(***************************************************************************)
(* Two ways of using a lock in one instance: the clients of the constants, *)
(* which use corelock_trylock without end, and cores that call             *)
(* corelock_lock once each.  Of the latter, Spent do not call any more     *)
(* when the behaviour begins; the others contend.                          *)
(***************************************************************************)
EXTENDS CoreLockInv

CONSTANT Spent

Once == INSTANCE CoreLockInv
          WITH Api <- {"lock"}, Strayers <- {}, MaxDepth <- 1, MaxCalls <- 1

OnceInit ==
  /\ spin = 0 /\ count = 0 /\ core = NoCore
  /\ pc = [c \in Cores |-> "idle"]
  /\ call = [c \in Cores |-> "none"]
  /\ inner = {}
  /\ res = [c \in Cores |-> 0]
  /\ reg = [c \in Cores |-> 0]
  /\ depth = [c \in Cores |-> 0]
  /\ calls = [c \in Cores |-> IF c \in Spent THEN 1 ELSE 0]

\* Only corelock_lock is counted.
Counted == \E c \in Cores : calls[c] > 0

MCInit == Init \/ OnceInit
MCNext == (~Counted /\ Next) \/ (Counted /\ Once!Next)

MCFairSpec ==
  /\ MCInit /\ [][MCNext]_vars
  /\ \A c \in Cores : WF_vars(Step(c)) /\ WF_vars(Leave(c))
=============================================================================
