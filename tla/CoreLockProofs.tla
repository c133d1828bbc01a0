--------------------------- MODULE CoreLockProofs ---------------------------
(***************************************************************************)
(* Proofs about CoreLock for any number of cores whose clients use         *)
(* corelock_trylock and corelock_unlock only.                              *)
(***************************************************************************)
EXTENDS CoreLockInv, TLAPS

LEMMA InitIInv == Init => IInv
  BY CoreLockAssumption DEF Init, IInv, TypeOK, SpinInv, InsideSpin, TrylockOnly,
     OwnerInv, Pending, RegInv, PCs, NoCore

LEMMA StepType ==
  ASSUME IInv, Api \subseteq {"trylock"}, NEW c \in Cores, Step(c) \/ Client(c)
  PROVE  TypeOK'
  <1> USE CoreLockAssumption DEF Goto, TypeOK, PCs, NoCore
  <1>0. /\ TypeOK
        /\ reg[c] + 1 \in Nat /\ depth[c] + 1 \in Nat /\ calls[c] + 1 \in Nat
        /\ depth[c] > 0 => depth[c] - 1 \in Nat
        /\ pc[c] = "dec" => reg[c] - 1 \in Nat
    BY DEF IInv, RegInv
  <1>1. CASE \E f \in Api : Enter(c, f)
    BY <1>0, <1>1 DEF Enter
  <1>2a. CASE Leave(c)
    BY <1>0, <1>2a DEF Leave
  <1>2b. CASE StrayLeave(c)
    BY <1>0, <1>2b DEF StrayLeave
  <1>3. CASE spinlock_lock(c) \/ spinlock_trylock_fails(c)
    BY <1>0, <1>3 DEF spinlock_lock, spinlock_trylock_fails, InTrylock
  <1>4. CASE TestAcquire(c) \/ TestRelease(c)
    BY <1>0, <1>4 DEF TestAcquire, TestRelease, InTrylock
  <1>5. CASE TakeFirst(c) \/ TakeOwner(c) \/ TakeAgain(c)
    BY <1>0, <1>5 DEF TakeFirst, TakeOwner, TakeAgain
  <1>6a. CASE GiveBack(c)
    BY <1>0, <1>6a DEF GiveBack
  <1>6b. CASE ClearCore(c)
    BY <1>0, <1>6b DEF ClearCore
  <1>6c. CASE ClearCount(c)
    BY <1>0, <1>6c DEF ClearCount
  <1>7. CASE BackOff(c) \/ PollCount(c) \/ Exit(c)
    BY <1>0, <1>7 DEF BackOff, PollCount, Exit
  <1>8. CASE ReleaseInner(c)
    BY <1>0, <1>8 DEF ReleaseInner
  <1>9. CASE Release(c)
    BY <1>0, <1>9 DEF Release
  <1> QED BY <1>1, <1>2a, <1>2b, <1>3, <1>4, <1>5, <1>6a, <1>6b, <1>6c, <1>7, <1>8, <1>9 DEF Step, Client

(***************************************************************************)
(* Every step preserves the rest of the invariant.                         *)
(***************************************************************************)
LEMMA StepIInv ==
  ASSUME IInv, Api \subseteq {"trylock"}, NEW c \in Cores, Step(c) \/ Client(c)
  PROVE  IInv'
  <1> USE CoreLockAssumption DEF NoCore, InsideSpin, Goto
  <1>0. TypeOK /\ SpinInv /\ TrylockOnly /\ OwnerInv /\ RegInv
    BY DEF IInv
  <1>T. TypeOK'
    BY StepType
  <1>1. CASE \E f \in Api : Enter(c, f)
    <2>1. SpinInv' BY <1>0, <1>1 DEF Enter, SpinInv, TypeOK
    <2>2. TrylockOnly' BY <1>0, <1>1 DEF Enter, TrylockOnly, TypeOK
    <2>3. OwnerInv' BY <1>0, <1>1 DEF Enter, OwnerInv, Pending, TypeOK
    <2>4. RegInv' BY <1>0, <1>1 DEF Enter, RegInv, TypeOK
    <2> QED BY <1>T, <2>1, <2>2, <2>3, <2>4 DEF IInv
  <1>2. CASE Leave(c)
    <2>1. SpinInv' BY <1>0, <1>2 DEF Leave, SpinInv, TrylockOnly, TypeOK
    <2>2. TrylockOnly' BY <1>0, <1>2 DEF Leave, InTrylock, TrylockOnly, TypeOK
    <2>3. OwnerInv' BY <1>0, <1>2 DEF Leave, OwnerInv, Pending, RegInv, SpinInv, TrylockOnly, InTrylock, TypeOK
    <2>4. RegInv' BY <1>0, <1>2 DEF Leave, RegInv, OwnerInv, SpinInv, TrylockOnly, InTrylock, TypeOK
    <2> QED BY <1>T, <2>1, <2>2, <2>3, <2>4 DEF IInv
  <1>3. CASE StrayLeave(c)
    <2>1. SpinInv' BY <1>0, <1>3 DEF StrayLeave, SpinInv, TrylockOnly, TypeOK
    <2>2. TrylockOnly' BY <1>0, <1>3 DEF StrayLeave, InTrylock, TrylockOnly, TypeOK
    <2>3. OwnerInv' BY <1>0, <1>3 DEF StrayLeave, OwnerInv, Pending, RegInv, SpinInv, TrylockOnly, InTrylock, TypeOK
    <2>4. RegInv' BY <1>0, <1>3 DEF StrayLeave, RegInv, OwnerInv, SpinInv, TrylockOnly, InTrylock, TypeOK
    <2> QED BY <1>T, <2>1, <2>2, <2>3, <2>4 DEF IInv
  <1>4. CASE spinlock_lock(c)
    <2>1. SpinInv' BY <1>0, <1>4 DEF spinlock_lock, SpinInv, TrylockOnly, TypeOK
    <2>2. TrylockOnly' BY <1>0, <1>4 DEF spinlock_lock, InTrylock, TrylockOnly, TypeOK
    <2>3. OwnerInv' BY <1>0, <1>4 DEF spinlock_lock, OwnerInv, Pending, RegInv, SpinInv, TrylockOnly, InTrylock, TypeOK
    <2>4. RegInv' BY <1>0, <1>4 DEF spinlock_lock, RegInv, OwnerInv, SpinInv, TrylockOnly, InTrylock, TypeOK
    <2> QED BY <1>T, <2>1, <2>2, <2>3, <2>4 DEF IInv
  <1>5. CASE spinlock_trylock_fails(c)
    <2>1. SpinInv' BY <1>0, <1>5 DEF spinlock_trylock_fails, SpinInv, TrylockOnly, TypeOK
    <2>2. TrylockOnly' BY <1>0, <1>5 DEF spinlock_trylock_fails, InTrylock, TrylockOnly, TypeOK
    <2>3. OwnerInv' BY <1>0, <1>5 DEF spinlock_trylock_fails, OwnerInv, Pending, RegInv, SpinInv, TrylockOnly, InTrylock, TypeOK
    <2>4. RegInv' BY <1>0, <1>5 DEF spinlock_trylock_fails, RegInv, OwnerInv, SpinInv, TrylockOnly, InTrylock, TypeOK
    <2> QED BY <1>T, <2>1, <2>2, <2>3, <2>4 DEF IInv
  <1>6. CASE TestAcquire(c)
    <2>1. SpinInv' BY <1>0, <1>6 DEF TestAcquire, SpinInv, TrylockOnly, TypeOK
    <2>2. TrylockOnly' BY <1>0, <1>6 DEF TestAcquire, InTrylock, TrylockOnly, TypeOK
    <2>3. OwnerInv' BY <1>0, <1>6 DEF TestAcquire, OwnerInv, Pending, RegInv, SpinInv, TrylockOnly, InTrylock, TypeOK
    <2>4. RegInv' BY <1>0, <1>6 DEF TestAcquire, RegInv, OwnerInv, SpinInv, TrylockOnly, InTrylock, TypeOK
    <2> QED BY <1>T, <2>1, <2>2, <2>3, <2>4 DEF IInv
  <1>7. CASE TestRelease(c)
    <2>1. SpinInv' BY <1>0, <1>7 DEF TestRelease, SpinInv, TrylockOnly, TypeOK
    <2>2. TrylockOnly' BY <1>0, <1>7 DEF TestRelease, InTrylock, TrylockOnly, TypeOK
    <2>3. OwnerInv' BY <1>0, <1>7 DEF TestRelease, OwnerInv, Pending, RegInv, SpinInv, TrylockOnly, InTrylock, TypeOK
    <2>4. RegInv' BY <1>0, <1>7 DEF TestRelease, RegInv, OwnerInv, SpinInv, TrylockOnly, InTrylock, TypeOK
    <2> QED BY <1>T, <2>1, <2>2, <2>3, <2>4 DEF IInv
  <1>8. CASE TakeFirst(c)
    <2>1. SpinInv' BY <1>0, <1>8 DEF TakeFirst, SpinInv, TrylockOnly, TypeOK
    <2>2. TrylockOnly' BY <1>0, <1>8 DEF TakeFirst, InTrylock, TrylockOnly, TypeOK
    <2>3. OwnerInv' BY <1>0, <1>8 DEF TakeFirst, OwnerInv, Pending, RegInv, SpinInv, TrylockOnly, InTrylock, TypeOK
    <2>4. RegInv' BY <1>0, <1>8 DEF TakeFirst, RegInv, OwnerInv, SpinInv, TrylockOnly, InTrylock, TypeOK
    <2> QED BY <1>T, <2>1, <2>2, <2>3, <2>4 DEF IInv
  <1>9. CASE TakeOwner(c)
    <2>1. SpinInv' BY <1>0, <1>9 DEF TakeOwner, SpinInv, TrylockOnly, TypeOK
    <2>2. TrylockOnly' BY <1>0, <1>9 DEF TakeOwner, InTrylock, TrylockOnly, TypeOK
    <2>3. OwnerInv' BY <1>0, <1>9 DEF TakeOwner, OwnerInv, Pending, RegInv, SpinInv, TrylockOnly, InTrylock, TypeOK
    <2>4. RegInv' BY <1>0, <1>9 DEF TakeOwner, RegInv, OwnerInv, SpinInv, TrylockOnly, InTrylock, TypeOK
    <2> QED BY <1>T, <2>1, <2>2, <2>3, <2>4 DEF IInv
  <1>10. CASE TakeAgain(c)
    <2>1. SpinInv' BY <1>0, <1>10 DEF TakeAgain, SpinInv, TrylockOnly, TypeOK
    <2>2. TrylockOnly' BY <1>0, <1>10 DEF TakeAgain, InTrylock, TrylockOnly, TypeOK
    <2>3. OwnerInv' BY <1>0, <1>10 DEF TakeAgain, OwnerInv, Pending, RegInv, SpinInv, TrylockOnly, InTrylock, TypeOK
    <2>4. RegInv' BY <1>0, <1>10 DEF TakeAgain, RegInv, OwnerInv, SpinInv, TrylockOnly, InTrylock, TypeOK
    <2> QED BY <1>T, <2>1, <2>2, <2>3, <2>4 DEF IInv
  <1>11. CASE GiveBack(c)
    <2>1. SpinInv' BY <1>0, <1>11 DEF GiveBack, SpinInv, TrylockOnly, TypeOK
    <2>2. TrylockOnly' BY <1>0, <1>11 DEF GiveBack, InTrylock, TrylockOnly, TypeOK
    <2>3. OwnerInv' BY <1>0, <1>11 DEF GiveBack, OwnerInv, Pending, RegInv, SpinInv, TrylockOnly, InTrylock, TypeOK
    <2>4. RegInv' BY <1>0, <1>11 DEF GiveBack, RegInv, OwnerInv, SpinInv, TrylockOnly, InTrylock, TypeOK
    <2> QED BY <1>T, <2>1, <2>2, <2>3, <2>4 DEF IInv
  <1>12. CASE ClearCore(c)
    <2>1. SpinInv' BY <1>0, <1>12 DEF ClearCore, SpinInv, TrylockOnly, TypeOK
    <2>2. TrylockOnly' BY <1>0, <1>12 DEF ClearCore, InTrylock, TrylockOnly, TypeOK
    <2>3. OwnerInv' BY <1>0, <1>12 DEF ClearCore, OwnerInv, Pending, RegInv, SpinInv, TrylockOnly, InTrylock, TypeOK
    <2>4. RegInv' BY <1>0, <1>12 DEF ClearCore, RegInv, OwnerInv, SpinInv, TrylockOnly, InTrylock, TypeOK
    <2> QED BY <1>T, <2>1, <2>2, <2>3, <2>4 DEF IInv
  <1>13. CASE ClearCount(c)
    <2>1. SpinInv' BY <1>0, <1>13 DEF ClearCount, SpinInv, TrylockOnly, TypeOK
    <2>2. TrylockOnly' BY <1>0, <1>13 DEF ClearCount, InTrylock, TrylockOnly, TypeOK
    <2>3. OwnerInv' BY <1>0, <1>13 DEF ClearCount, OwnerInv, Pending, RegInv, SpinInv, TrylockOnly, InTrylock, TypeOK
    <2>4. RegInv' BY <1>0, <1>13 DEF ClearCount, RegInv, OwnerInv, SpinInv, TrylockOnly, InTrylock, TypeOK
    <2> QED BY <1>T, <2>1, <2>2, <2>3, <2>4 DEF IInv
  <1>14. CASE Release(c)
    <2>1. SpinInv' BY <1>0, <1>14 DEF Release, SpinInv, TrylockOnly, TypeOK
    <2>2. TrylockOnly' BY <1>0, <1>14 DEF Release, InTrylock, TrylockOnly, TypeOK
    <2>3. OwnerInv' BY <1>0, <1>14 DEF Release, OwnerInv, Pending, RegInv, SpinInv, TrylockOnly, InTrylock, TypeOK
    <2>4. RegInv' BY <1>0, <1>14 DEF Release, RegInv, OwnerInv, SpinInv, TrylockOnly, InTrylock, TypeOK
    <2> QED BY <1>T, <2>1, <2>2, <2>3, <2>4 DEF IInv
  <1>15. CASE Exit(c)
    <2>1. SpinInv' BY <1>0, <1>15 DEF Exit, SpinInv, TrylockOnly, TypeOK
    <2>2. TrylockOnly' BY <1>0, <1>15 DEF Exit, InTrylock, TrylockOnly, TypeOK
    <2>3. OwnerInv' BY <1>0, <1>15 DEF Exit, OwnerInv, Pending, RegInv, SpinInv, TrylockOnly, InTrylock, TypeOK
    <2>4. RegInv' BY <1>0, <1>15 DEF Exit, RegInv, OwnerInv, SpinInv, TrylockOnly, InTrylock, TypeOK
    <2> QED BY <1>T, <2>1, <2>2, <2>3, <2>4 DEF IInv
  <1>16. CASE BackOff(c) \/ PollCount(c) \/ ReleaseInner(c)
    BY <1>0, <1>16 DEF BackOff, PollCount, ReleaseInner, TrylockOnly
  <1> QED BY <1>1, <1>2, <1>3, <1>4, <1>5, <1>6, <1>7, <1>8, <1>9, <1>10, <1>11, <1>12, <1>13, <1>14, <1>15, <1>16 DEF Step, Client

LEMMA Invariance == Api \subseteq {"trylock"} /\ Spec => []IInv
  <1> SUFFICES ASSUME Api \subseteq {"trylock"} PROVE Spec => []IInv
    OBVIOUS
  <1>1. Init => IInv
    BY InitIInv
  <1>2. IInv /\ [Next]_vars => IInv'
    <2> SUFFICES ASSUME IInv, [Next]_vars PROVE IInv'
      OBVIOUS
    <2>1. CASE Next
      BY <2>1, StepIInv DEF Next
    <2>2. CASE UNCHANGED vars
      BY <2>2 DEF IInv, TypeOK, SpinInv, InsideSpin, TrylockOnly, OwnerInv,
                  Pending, RegInv, vars
    <2> QED BY <2>1, <2>2
  <1> QED BY <1>1, <1>2, PTL DEF Spec

(***************************************************************************)
(* Type correctness of the lock's words and of the cores' registers:       *)
(* count never becomes negative, whoever calls corelock_unlock.            *)
(***************************************************************************)
THEOREM TypeCorrect == Api \subseteq {"trylock"} /\ Spec => []TypeOK
  BY Invariance, PTL DEF IInv

(***************************************************************************)
(* With corelock_trylock and corelock_unlock, any number of cores, any     *)
(* nesting and any stray corelock_unlock, no two cores hold the lock.      *)
(***************************************************************************)
THEOREM Exclusion == Api \subseteq {"trylock"} /\ Spec => []MutualExclusion
  <1>1. IInv => MutualExclusion
    BY DEF IInv, OwnerInv, MutualExclusion
  <1> QED BY <1>1, Invariance, PTL

(***************************************************************************)
(* Under the same assumptions corelock_trylock and corelock_unlock         *)
(* implement the abstract recursive lock.                                  *)
(***************************************************************************)
THEOREM Refinement ==
  Api \subseteq {"trylock"} /\ Spec => ImplementsRecursiveLock
  <1>1. Init => RL!Init
    BY DEF Init, RL!Init
  <1>2. IInv /\ [Next]_vars => [RL!Next]_depth
    <2> SUFFICES ASSUME IInv, [Next]_vars PROVE [RL!Next]_depth
      OBVIOUS
    <2> USE DEF RL!Next
    <2>1. ASSUME NEW c \in Cores, Leave(c) PROVE RL!Next
      BY <2>1 DEF Leave, RL!Relinquish
    <2>2. ASSUME NEW c \in Cores, Release(c) PROVE RL!Next \/ depth' = depth
      <3>1. CASE call[c] # "unlock" /\ res[c] = 0
        <4>1. core = c
          BY <2>2, <3>1 DEF IInv, TypeOK, TrylockOnly, OwnerInv, Release, Goto
        <4>2. \A d \in Cores \ {c} : depth[d] = 0
          BY <4>1 DEF IInv, TypeOK, OwnerInv
        <4>3. RL!Acquire(c)
          BY <2>2, <3>1, <4>2 DEF RL!Acquire, Release
        <4> QED BY <4>3
      <3>2. CASE ~(call[c] # "unlock" /\ res[c] = 0)
        BY <2>2, <3>2 DEF Release
      <3> QED BY <3>1, <3>2
    <2>3. ASSUME NEW c \in Cores, Step(c) \/ Client(c), ~Leave(c), ~Release(c)
          PROVE  depth' = depth
      BY <2>3 DEF Step, Client, Enter, StrayLeave, spinlock_lock,
         spinlock_trylock_fails, TestAcquire, TestRelease, TakeFirst, TakeOwner,
         TakeAgain, GiveBack, ClearCore, ClearCount, BackOff, PollCount,
         ReleaseInner, Exit
    <2>4. CASE Next
      BY <2>1, <2>2, <2>3, <2>4 DEF Next
    <2>5. CASE UNCHANGED vars
      BY <2>5 DEF vars
    <2> QED BY <2>4, <2>5
  <1> QED BY <1>1, <1>2, Invariance, PTL DEF Spec, ImplementsRecursiveLock, RL!Spec

(***************************************************************************)
(* Under the same assumptions, whenever no call is in progress the fields  *)
(* core and count name the holder and its acquisitions exactly.            *)
(***************************************************************************)
THEOREM FieldsTellTheTruth ==
  Api \subseteq {"trylock"} /\ Spec => []FieldsAgree
  <1>1. IInv => FieldsAgree
    <2> SUFFICES ASSUME IInv, \A c \in Cores : pc[c] \in {"idle", "exited"}
                 PROVE  /\ core = NoCore => count = 0
                        /\ \A c \in Cores : depth[c] = IF core = c THEN count ELSE 0
      BY DEF FieldsAgree
    <2>1. core = NoCore => count = 0
      BY DEF IInv, OwnerInv
    <2>2. ASSUME NEW c \in Cores PROVE depth[c] = IF core = c THEN count ELSE 0
      <3>1. ~Pending(c)
        BY DEF Pending
      <3> QED BY <2>2, <3>1 DEF IInv, OwnerInv, TypeOK
    <2> QED BY <2>1, <2>2
  <1> QED BY <1>1, Invariance, PTL

(***************************************************************************)
(* No step makes a core that was granted the lock a foreigner: the owner   *)
(* recorded in core changes only from NoCore or to NoCore, and then by the *)
(* owner itself.                                                           *)
(***************************************************************************)
LEMMA StepExpel ==
  ASSUME IInv, ExpelInv, NEW c \in Cores, Step(c) \/ Client(c)
  PROVE  ExpelInv'
  <1> USE CoreLockAssumption DEF Goto, ExpelInv
  <1>0. TypeOK /\ TrylockOnly /\ OwnerInv /\ RegInv
    BY DEF IInv
  <1>1. CASE \E f \in Api : Enter(c, f)
    BY <1>0, <1>1 DEF Enter, TypeOK
  <1>2. CASE Leave(c)
    BY <1>0, <1>2 DEF Leave, TypeOK, OwnerInv
  <1>3. CASE StrayLeave(c)
    BY <1>0, <1>3 DEF StrayLeave, TypeOK
  <1>4. CASE spinlock_lock(c) \/ spinlock_trylock_fails(c)
    BY <1>0, <1>4 DEF spinlock_lock, spinlock_trylock_fails, TypeOK, TrylockOnly
  <1>5. CASE TestAcquire(c)
    BY <1>0, <1>5 DEF TestAcquire, TypeOK
  <1>6. CASE TestRelease(c)
    BY <1>0, <1>6 DEF TestRelease, TypeOK
  <1>7. CASE TakeFirst(c) \/ TakeAgain(c) \/ GiveBack(c) \/ ClearCount(c)
    BY <1>0, <1>7 DEF TakeFirst, TakeAgain, GiveBack, ClearCount, TypeOK
  <1>8. CASE TakeOwner(c)
    BY <1>0, <1>8 DEF TakeOwner, TypeOK, RegInv, NoCore
  <1>9. CASE ClearCore(c)
    BY <1>0, <1>9 DEF ClearCore, TypeOK, RegInv
  <1>10. CASE BackOff(c) \/ PollCount(c) \/ ReleaseInner(c)
    BY <1>0, <1>10 DEF BackOff, PollCount, ReleaseInner, TrylockOnly
  <1>11. CASE Release(c) \/ Exit(c)
    BY <1>0, <1>11 DEF Release, Exit, TypeOK
  <1> QED BY <1>1, <1>2, <1>3, <1>4, <1>5, <1>6, <1>7, <1>8, <1>9, <1>10, <1>11 DEF Step, Client

(***************************************************************************)
(* Under the same assumptions the syscall exit in corelock_unlock is       *)
(* reached only by a core that calls it without holding the lock.          *)
(***************************************************************************)
THEOREM HolderIsNotExpelled ==
  Api \subseteq {"trylock"} /\ Spec => []HolderNotExpelled
  <1>1. Init => ExpelInv
    BY DEF Init, ExpelInv
  <1>2. IInv /\ ExpelInv /\ [Next]_vars => ExpelInv'
    <2> SUFFICES ASSUME IInv, ExpelInv, [Next]_vars PROVE ExpelInv'
      OBVIOUS
    <2>1. CASE Next
      BY <2>1, StepExpel DEF Next
    <2>2. CASE UNCHANGED vars
      BY <2>2 DEF ExpelInv, vars
    <2> QED BY <2>1, <2>2
  <1>3. ExpelInv => HolderNotExpelled
    BY DEF ExpelInv, HolderNotExpelled
  <1> QED BY <1>1, <1>2, <1>3, Invariance, PTL DEF Spec
=============================================================================
