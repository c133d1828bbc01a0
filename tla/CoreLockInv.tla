---------------------------- MODULE CoreLockInv ----------------------------
(***************************************************************************)
(* The properties of the inter-core lock, and the inductive invariant that *)
(* explains them for clients that only use corelock_trylock.               *)
(***************************************************************************)
EXTENDS CoreLock

(* Two cores never hold the lock together: the output printk protects with *)
(* it ("Begin protected code") is not interleaved.                         *)
MutualExclusion ==
  \A c, d \in Cores : depth[c] > 0 /\ depth[d] > 0 => c = d

(* An acquisition is granted only while no other core holds the lock, and  *)
(* nested acquisitions are given back one at a time.                       *)
RL == INSTANCE RecursiveLock WITH hold <- depth
ImplementsRecursiveLock == RL!Spec

(* Between calls the fields tell the truth: the owner recorded in core     *)
(* holds the lock exactly count times.                                     *)
FieldsAgree ==
  spin = 0 /\ (\A c \in Cores : pc[c] \in {"idle", "exited"}) =>
    /\ core = NoCore => count = 0
    /\ \A c \in Cores : depth[c] = IF core = c THEN count ELSE 0

(* Every call of corelock_lock or corelock_unlock returns, of cores whose  *)
(* acquisitions are counted: the spinlock is unfair, and a core may starve *)
(* while others acquire and release without end.                           *)
CallsReturn ==
  \A c \in Cores : calls[c] > 0 /\ pc[c] # "idle" ~> pc[c] = "idle"

(* The syscall exit of corelock_unlock is reached only by a core that      *)
(* called it without holding the lock, never by one that gives back what   *)
(* it was granted.                                                         *)
HolderNotExpelled ==
  \A c \in Cores : pc[c] \in {"foreign", "exited"} => c \in Strayers

-----------------------------------------------------------------------------
(***************************************************************************)
(* The inductive invariant of clients that use corelock_trylock and        *)
(* corelock_unlock only.                                                   *)
(***************************************************************************)
InsideSpin(c) ==
  pc[c] \in {"test", "first", "owner", "again", "dec", "clear_core",
             "clear_count", "release", "foreign"}

(* The spinlock is taken exactly while one core is inside. *)
SpinInv ==
  /\ \A c, d \in Cores : InsideSpin(c) /\ InsideSpin(d) => c = d
  /\ \A c \in Cores : InsideSpin(c) => spin = -1

TrylockOnly ==
  \A c \in Cores :
    /\ c \notin inner
    /\ call[c] # "lock"
    /\ pc[c] # "idle" => call[c] # "none"
    /\ pc[c] \notin {"back", "poll"}
    /\ pc[c] \in {"first", "owner", "again"} => call[c] = "trylock" /\ res[c] = 0
    /\ pc[c] \in {"dec", "clear_core", "clear_count"} => call[c] = "unlock"

(* One unit of count is not in depth: a corelock_unlock that has not       *)
(* decremented yet, or a successful corelock_trylock about to return.      *)
Pending(c) ==
  \/ call[c] = "unlock" /\ pc[c] \in {"acquire", "test", "dec"}
  \/ call[c] = "trylock" /\ pc[c] = "release" /\ res[c] = 0

OwnerInv ==
  /\ \A c \in Cores : depth[c] > 0 => core = c
  /\ \A c \in Cores :
       core = c => count = IF Pending(c) THEN depth[c] + 1 ELSE depth[c]
  /\ \A c \in Cores : core = c /\ count <= 0 => pc[c] = "clear_core"
  /\ core = NoCore /\ count # 0 => \E c \in Cores : pc[c] = "owner"
  /\ \A c \in Cores : call[c] = "trylock" /\ pc[c] = "release" /\ res[c] = 0
                        => core = c

RegInv ==
  \A c \in Cores :
    /\ pc[c] = "first" => reg[c] = 0 /\ count = 0 /\ core = NoCore
    /\ pc[c] = "owner" => count = 1 /\ core = NoCore
    /\ pc[c] \in {"again", "dec"} => reg[c] = count /\ core = c /\ count > 0
    /\ pc[c] = "clear_core" => core = c /\ count = 0
    /\ pc[c] = "clear_count" => core = NoCore

IInv == TypeOK /\ SpinInv /\ TrylockOnly /\ OwnerInv /\ RegInv

(* A core on its way into corelock_unlock owns the lock, unless the call   *)
(* is a stray one; nobody takes the lock from it before it tests core.     *)
ExpelInv ==
  \A c \in Cores :
    /\ pc[c] \in {"foreign", "exited"} => c \in Strayers
    /\ call[c] = "unlock" /\ pc[c] \in {"acquire", "test"}
         => core = c \/ c \in Strayers
=============================================================================
