------------------------------ MODULE CoreLock ------------------------------
(***************************************************************************)
(* The recursive inter-core lock of lib/bsp/include/atomic.h (corelock_t), *)
(* with the test-and-set spinlock it is built on.  printk serialises its   *)
(* output with one.  Each core runs the functions one memory access at a   *)
(* time: the fields count and core are plain ints, so the inner spinlock   *)
(* is all that protects them.                                              *)
(***************************************************************************)
EXTENDS Integers

CONSTANTS
  Cores,      \* mhartid values
  Api,        \* the entry points the clients use: "lock", "trylock"
  Strayers,   \* cores that may call corelock_unlock without holding the lock
  MaxDepth,   \* bound: how deep a core nests its acquisitions
  MaxCalls    \* bound: outermost acquisitions a core starts (0: no bound)

ASSUME CoreLockAssumption ==
  /\ Cores \subseteq Nat
  /\ Api \subseteq {"lock", "trylock"}
  /\ Strayers \subseteq Cores
  /\ MaxDepth \in Nat \ {0}
  /\ MaxCalls \in Nat

VARIABLES
  spin,    \* lock.lock: 0 free, -1 taken
  count,   \* lock.count
  core,    \* lock.core, -1 when nobody owns the lock
  pc,      \* where each core is
  call,    \* the function each core is in
  inner,   \* cores whose corelock_lock is inside its call of corelock_trylock
  res,     \* the result of corelock_trylock
  reg,     \* the value of count a core holds in a register
  depth,   \* successful acquisitions a core has not given back
  calls    \* outermost acquisitions started

vars == <<spin, count, core, pc, call, inner, res, reg, depth, calls>>

NoCore == -1

PCs == {"idle", "acquire", "test", "first", "owner", "again", "back", "poll",
        "dec", "clear_core", "clear_count", "release", "foreign", "exited"}

TypeOK ==
  /\ spin \in {0, -1}
  /\ count \in Nat
  /\ core \in Cores \union {NoCore}
  /\ pc \in [Cores -> PCs]
  /\ call \in [Cores -> {"none", "lock", "trylock", "unlock"}]
  /\ inner \subseteq Cores
  /\ res \in [Cores -> {0, -1}]
  /\ reg \in [Cores -> Nat]
  /\ depth \in [Cores -> Nat]
  /\ calls \in [Cores -> Nat]

(* CORELOCK_INIT *)
Init ==
  /\ spin = 0
  /\ count = 0
  /\ core = NoCore
  /\ pc = [c \in Cores |-> "idle"]
  /\ call = [c \in Cores |-> "none"]
  /\ inner = {}
  /\ res = [c \in Cores |-> 0]
  /\ reg = [c \in Cores |-> 0]
  /\ depth = [c \in Cores |-> 0]
  /\ calls = [c \in Cores |-> 0]

Goto(c, from, to) ==
  /\ pc[c] = from
  /\ pc' = [pc EXCEPT ![c] = to]

(***************************************************************************)
(* The client: printk takes the lock, prints, and gives it back.           *)
(***************************************************************************)
Enter(c, f) ==
  /\ f \in Api
  /\ depth[c] < MaxDepth
  /\ MaxCalls = 0 \/ depth[c] > 0 \/ calls[c] < MaxCalls
  /\ Goto(c, "idle", "acquire")
  /\ call' = [call EXCEPT ![c] = f]
  /\ calls' = IF MaxCalls = 0 \/ depth[c] > 0 THEN calls
                                              ELSE [calls EXCEPT ![c] = @ + 1]
  /\ UNCHANGED <<spin, count, core, inner, res, reg, depth>>

(* The acquisition ends for the client when it asks to give it back. *)
Leave(c) ==
  /\ depth[c] > 0
  /\ Goto(c, "idle", "acquire")
  /\ call' = [call EXCEPT ![c] = "unlock"]
  /\ depth' = [depth EXCEPT ![c] = @ - 1]
  /\ UNCHANGED <<spin, count, core, inner, res, reg, calls>>

StrayLeave(c) ==
  /\ c \in Strayers /\ depth[c] = 0
  /\ Goto(c, "idle", "acquire")
  /\ call' = [call EXCEPT ![c] = "unlock"]
  /\ UNCHANGED <<spin, count, core, inner, res, reg, depth, calls>>

(* Mutant: the result of the swap is ignored. *)
spinlock_lock_NoTest(c) ==
  /\ Goto(c, "acquire", "test")
  /\ spin' = -1
  /\ UNCHANGED <<count, core, call, inner, res, reg, depth, calls>>

(***************************************************************************)
(* spinlock_trylock swaps -1 into the word and looks at what was there.    *)
(* spinlock_lock repeats it until it sees 0; corelock_trylock gives up.    *)
(***************************************************************************)
spinlock_lock(c) ==
  /\ spin = 0
  /\ Goto(c, "acquire", "test")
  /\ spin' = -1
  /\ UNCHANGED <<count, core, call, inner, res, reg, depth, calls>>

InTrylock(c) == call[c] = "trylock" \/ c \in inner

spinlock_trylock_fails(c) ==
  /\ spin = -1
  /\ InTrylock(c)
  /\ Goto(c, "acquire", IF c \in inner THEN "poll" ELSE "idle")
  /\ inner' = inner \ {c}
  /\ res' = [res EXCEPT ![c] = -1]
  /\ call' = IF c \in inner THEN call ELSE [call EXCEPT ![c] = "none"]
  /\ UNCHANGED <<spin, count, core, reg, depth, calls>>

(* Mutant: corelock_trylock does not compare core with the caller. *)
TestAcquire_AnyOwner(c) ==
  /\ call[c] # "unlock"
  /\ Goto(c, "test", IF count = 0 THEN "first" ELSE "again")
  /\ reg' = [reg EXCEPT ![c] = count]
  /\ res' = [res EXCEPT ![c] = 0]
  /\ UNCHANGED <<spin, count, core, call, inner, depth, calls>>

(***************************************************************************)
(* The tests on count and core, in corelock_lock and corelock_trylock ...  *)
(***************************************************************************)
TestAcquire(c) ==
  /\ call[c] # "unlock"
  /\ Goto(c, "test", CASE count = 0 -> "first"
                       [] count # 0 /\ core = c -> "again"
                       [] OTHER -> IF InTrylock(c) THEN "release" ELSE "back")
  /\ reg' = [reg EXCEPT ![c] = count]
  /\ res' = [res EXCEPT ![c] = IF count = 0 \/ core = c THEN 0 ELSE -1]
  /\ UNCHANGED <<spin, count, core, call, inner, depth, calls>>

(* Mutant: corelock_unlock does not compare core with the caller. *)
TestRelease_AnyOwner(c) ==
  /\ call[c] = "unlock"
  /\ Goto(c, "test", "dec")
  /\ reg' = [reg EXCEPT ![c] = count]
  /\ UNCHANGED <<spin, count, core, call, inner, res, depth, calls>>

(* ... and in corelock_unlock. *)
TestRelease(c) ==
  /\ call[c] = "unlock"
  /\ Goto(c, "test", IF core = c THEN "dec" ELSE "foreign")
  /\ reg' = [reg EXCEPT ![c] = count]
  /\ UNCHANGED <<spin, count, core, call, inner, res, depth, calls>>

(* count++ by the first acquisition, then core = me. *)
TakeFirst(c) ==
  /\ Goto(c, "first", "owner")
  /\ count' = reg[c] + 1
  /\ UNCHANGED <<spin, core, call, inner, res, reg, depth, calls>>

TakeOwner(c) ==
  /\ Goto(c, "owner", "release")
  /\ core' = c
  /\ UNCHANGED <<spin, count, call, inner, res, reg, depth, calls>>

(* Mutant: a nested acquisition is not counted. *)
TakeAgain_NotCounted(c) ==
  /\ Goto(c, "again", "release")
  /\ UNCHANGED <<spin, count, core, call, inner, res, reg, depth, calls>>

(* count++ by the core that owns the lock already. *)
TakeAgain(c) ==
  /\ Goto(c, "again", "release")
  /\ count' = reg[c] + 1
  /\ UNCHANGED <<spin, core, call, inner, res, reg, depth, calls>>

(* Mutant: the last release is recognised one too early. *)
GiveBack_Early(c) ==
  /\ Goto(c, "dec", IF reg[c] - 1 <= 1 THEN "clear_core" ELSE "release")
  /\ count' = reg[c] - 1
  /\ UNCHANGED <<spin, core, call, inner, res, reg, depth, calls>>

(* count--; the last one clears core and count. *)
GiveBack(c) ==
  /\ Goto(c, "dec", IF reg[c] - 1 <= 0 THEN "clear_core" ELSE "release")
  /\ count' = reg[c] - 1
  /\ UNCHANGED <<spin, core, call, inner, res, reg, depth, calls>>

ClearCore(c) ==
  /\ Goto(c, "clear_core", "clear_count")
  /\ core' = NoCore
  /\ UNCHANGED <<spin, count, call, inner, res, reg, depth, calls>>

ClearCount(c) ==
  /\ Goto(c, "clear_count", "release")
  /\ count' = 0
  /\ UNCHANGED <<spin, core, call, inner, res, reg, depth, calls>>

(* Mutant: corelock_lock waits with the spinlock held. *)
BackOff_KeepSpin(c) ==
  /\ Goto(c, "back", "poll")
  /\ UNCHANGED <<spin, count, core, call, inner, res, reg, depth, calls>>

(***************************************************************************)
(* corelock_lock finds another owner: it releases the spinlock, polls      *)
(* count until it reads 0 and then calls corelock_trylock, over and over.  *)
(***************************************************************************)
BackOff(c) ==
  /\ Goto(c, "back", "poll")
  /\ spin' = 0
  /\ UNCHANGED <<count, core, call, inner, res, reg, depth, calls>>

PollCount(c) ==
  /\ count = 0
  /\ Goto(c, "poll", "acquire")
  /\ inner' = inner \union {c}
  /\ UNCHANGED <<spin, count, core, call, res, reg, depth, calls>>

(***************************************************************************)
(* spinlock_unlock at the end of the three functions.  When the call of    *)
(* corelock_trylock inside corelock_lock succeeds it has released the      *)
(* spinlock, and corelock_lock then falls through to its own unlock.       *)
(***************************************************************************)
ReleaseInner(c) ==
  /\ c \in inner
  /\ Goto(c, "release", IF res[c] = 0 THEN "release" ELSE "poll")
  /\ spin' = 0
  /\ inner' = inner \ {c}
  /\ UNCHANGED <<count, core, call, res, reg, depth, calls>>

Release(c) ==
  /\ c \notin inner
  /\ Goto(c, "release", "idle")
  /\ spin' = 0
  /\ depth' = IF call[c] # "unlock" /\ res[c] = 0
                THEN [depth EXCEPT ![c] = @ + 1] ELSE depth
  /\ call' = [call EXCEPT ![c] = "none"]
  /\ UNCHANGED <<count, core, inner, res, reg, calls>>

(* Another core's lock: release the spinlock, then syscall exit, for good. *)
Exit(c) ==
  /\ Goto(c, "foreign", "exited")
  /\ spin' = 0
  /\ UNCHANGED <<count, core, call, inner, res, reg, depth, calls>>

Step(c) ==
  \/ spinlock_lock(c) \/ spinlock_trylock_fails(c)
  \/ TestAcquire(c) \/ TestRelease(c)
  \/ TakeFirst(c) \/ TakeOwner(c) \/ TakeAgain(c)
  \/ GiveBack(c) \/ ClearCore(c) \/ ClearCount(c)
  \/ BackOff(c) \/ PollCount(c)
  \/ ReleaseInner(c) \/ Release(c) \/ Exit(c)

Client(c) ==
  \/ \E f \in Api : Enter(c, f)
  \/ Leave(c)
  \/ StrayLeave(c)

Next == \E c \in Cores : Step(c) \/ Client(c)

Spec == Init /\ [][Next]_vars

(***************************************************************************)
(* A core keeps executing, and printk always reaches corelock_unlock.      *)
(***************************************************************************)
FairSpec ==
  /\ Spec
  /\ \A c \in Cores : WF_vars(Step(c)) /\ WF_vars(Leave(c))
=============================================================================
