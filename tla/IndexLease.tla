----------------------------- MODULE IndexLease -----------------------------
(***************************************************************************)
(* The permanent index lock and the leases on it                           *)
(* (codegraph-store/src/index_lease.rs, with acquire_outer_exclusive and   *)
(* its lockless takeover from rebuild.rs).                                 *)
(*                                                                         *)
(* The lease is a kernel lock on an open file, while everybody finds the   *)
(* file by its path: the lock protects the namespace only as long as path  *)
(* and file agree.  So directories and lock files have identities here,    *)
(* and the path is a variable: the index root may be missing, may lack its *)
(* lock (a creator died after mkdir), and somebody outside the program may *)
(* move the directory away, put one back, or delete the lock file while    *)
(* the program runs.                                                       *)
(***************************************************************************)
EXTENDS Integers

CONSTANTS Procs,         \* processes (or threads) that acquire leases
          Dirs,          \* directory identities the root path may name
          Locks,         \* file identities lock files may have
          None,          \* no directory, no file
          MaxAttempts,   \* try_lock attempts before the deadline passes
          MaxIntrusions  \* bound: external changes to the root and its lock

ASSUME IndexLeaseAssumption ==
  /\ None \notin Dirs /\ None \notin Locks
  /\ MaxAttempts \in Nat /\ MaxIntrusions \in Nat

VARIABLES
  root,       \* the directory the index root path names, or None
  lockIn,     \* per directory: the lock file in it, or None
  published,  \* the directories that hold a state slot (status not Missing)
  usedDirs, usedLocks,  \* identities already given out
  pc,         \* per process: the next step of its acquisition
  want,       \* per process: what it is acquiring
  statted,    \* per process: identity of the lock path before opening
  handle,     \* per process: identity of the open lock file
  made,       \* per process: the directory it created
  patience,   \* per process: attempts left before its deadline
  intrusions  \* external changes so far

vars == <<root, lockIn, published, usedDirs, usedLocks, pc, want, statted,
          handle, made, patience, intrusions>>
disk == <<root, lockIn, published, usedDirs, usedLocks>>
locals == <<statted, handle, made, patience>>

\* What a process asks for: a shared lease (reads, status), an exclusive lease
\* of an existing namespace (uninit, recovery, upgrade), one that creates an
\* absent namespace (sync), or that and the lockless takeover (init, index).
Wants == {"read", "existing", "create", "rebuild"}

Mode(p) == IF want[p] = "read" THEN "shared" ELSE "exclusive"

Acquiring == {"probeRoot", "statLock", "openLock", "makeRoot", "makeLock",
              "takeoverProbe", "takeoverMakeLock", "tryLock", "corroborate",
              "takeoverTry", "takeoverCorroborate", "takeoverRecheck"}
Holding == {"held", "takeoverHeld", "mutate"}

\* The process has the kernel lock on its open file.
KernelLocked(p) ==
  pc[p] \in {"corroborate", "takeoverCorroborate", "takeoverRecheck"} \union Holding

\* The lock file the fixed lock path names.
LockAtPath == IF root = None THEN None ELSE lockIn[root]

TypeOK ==
  /\ root \in Dirs \union {None}
  /\ lockIn \in [Dirs -> Locks \union {None}]
  /\ published \subseteq Dirs
  /\ usedDirs \subseteq Dirs /\ usedLocks \subseteq Locks
  /\ pc \in [Procs -> {"idle"} \union Acquiring \union Holding]
  /\ want \in [Procs -> Wants]
  /\ statted \in [Procs -> Locks \union {None}]
  /\ handle \in [Procs -> Locks \union {None}]
  /\ made \in [Procs -> Dirs \union {None}]
  /\ patience \in [Procs -> 0..MaxAttempts]
  /\ intrusions \in 0..MaxIntrusions

\* The program may find no root, a root without lock, or one with it, with or
\* without published state.
Init ==
  /\ root \in Dirs \union {None}
  /\ lockIn \in [Dirs -> Locks \union {None}]
  /\ \A d \in Dirs : lockIn[d] # None => d = root
  /\ published \in SUBSET Dirs
  /\ published \subseteq {root}
  /\ usedDirs = Dirs \intersect {root}
  /\ usedLocks = {lockIn[d] : d \in Dirs} \ {None}
  /\ pc = [p \in Procs |-> "idle"]
  /\ want = [p \in Procs |-> "read"]
  /\ statted = [p \in Procs |-> None]
  /\ handle = [p \in Procs |-> None]
  /\ made = [p \in Procs |-> None]
  /\ patience = [p \in Procs |-> MaxAttempts]
  /\ intrusions = 0

Goto(p, l) == pc' = [pc EXCEPT ![p] = l]

\* The acquisition returns an error, or the lease is dropped: closing the file
\* releases the kernel lock.
Leave(p) ==
  /\ Goto(p, "idle")
  /\ handle' = [handle EXCEPT ![p] = None]
  /\ UNCHANGED <<statted, made, patience>>

-----------------------------------------------------------------------------
(* Acquisition.                                                            *)

Acquire(p, w) ==
  /\ pc[p] = "idle"
  /\ Goto(p, IF w \in {"read", "existing"} THEN "statLock" ELSE "probeRoot")
  /\ want' = [want EXCEPT ![p] = w]
  /\ patience' = [patience EXCEPT ![p] = MaxAttempts]
  /\ statted' = [statted EXCEPT ![p] = None]
  /\ made' = [made EXCEPT ![p] = None]
  /\ UNCHANGED <<disk, handle, intrusions>>

\* acquire_or_create_exclusive: existing root, or create one.
ProbeRoot(p) ==
  /\ pc[p] = "probeRoot"
  /\ Goto(p, IF root = None THEN "makeRoot" ELSE "statLock")
  /\ UNCHANGED <<disk, want, locals, intrusions>>

\* create_exclusive_with: create_dir fails when the root appeared meanwhile.
MakeRoot(p) ==
  /\ pc[p] = "makeRoot"
  /\ IF root # None
     THEN Leave(p) /\ UNCHANGED disk
     ELSE \E d \in Dirs \ usedDirs :
            /\ root' = d
            /\ usedDirs' = usedDirs \union {d}
            /\ made' = [made EXCEPT ![p] = d]
            /\ Goto(p, "makeLock")
            /\ UNCHANGED <<lockIn, published, usedLocks, statted, handle, patience>>
  /\ UNCHANGED <<want, intrusions>>

\* create_new of the lock file in directory d, then on to the kernel lock.
CreateLockFile(p, d, next) ==
  IF lockIn[d] # None
  THEN Leave(p) /\ UNCHANGED disk
  ELSE \E l \in Locks \ usedLocks :
         /\ lockIn' = [lockIn EXCEPT ![d] = l]
         /\ usedLocks' = usedLocks \union {l}
         /\ handle' = [handle EXCEPT ![p] = l]
         /\ Goto(p, next)
         /\ UNCHANGED <<root, published, usedDirs, statted, made, patience>>

\* The creator works in the directory it opened, wherever that is by now.
MakeLock(p) ==
  /\ pc[p] = "makeLock"
  /\ CreateLockFile(p, made[p], "tryLock")
  /\ UNCHANGED <<want, intrusions>>

\* acquire_existing_with: no lock file is LockNotFound, which only a rebuild
\* answers with a takeover.
StatLock(p) ==
  /\ pc[p] = "statLock"
  /\ IF LockAtPath # None
     THEN /\ Goto(p, "openLock")
          /\ statted' = [statted EXCEPT ![p] = LockAtPath]
          /\ UNCHANGED <<handle, made, patience>>
     ELSE IF want[p] = "rebuild"
          THEN Goto(p, "takeoverProbe") /\ UNCHANGED locals
          ELSE Leave(p)
  /\ UNCHANGED <<disk, want, intrusions>>

\* Open, and require the identity seen before.
OpenLock(p) ==
  /\ pc[p] = "openLock"
  /\ IF LockAtPath = statted[p]
     THEN /\ Goto(p, "tryLock")
          /\ handle' = [handle EXCEPT ![p] = LockAtPath]
          /\ UNCHANGED <<statted, made, patience>>
     ELSE Leave(p)
  /\ UNCHANGED <<disk, want, intrusions>>

\* acquire_outer_exclusive after LockNotFound: only a Missing namespace.
TakeoverProbe(p) ==
  /\ pc[p] = "takeoverProbe"
  /\ IF root \in published
     THEN Leave(p)
     ELSE Goto(p, "takeoverMakeLock") /\ UNCHANGED locals
  /\ UNCHANGED <<disk, want, intrusions>>

\* create_exclusive_in_existing_root: the root must exist, the lock must not.
TakeoverMakeLock(p) ==
  /\ pc[p] = "takeoverMakeLock"
  /\ IF root = None
     THEN Leave(p) /\ UNCHANGED disk
     ELSE CreateLockFile(p, root, "takeoverTry")
  /\ UNCHANGED <<want, intrusions>>

\* Mutant: an exclusive lock is granted beside shared ones.
GrantableBesideShared(p) ==
  \A q \in Procs \ {p} :
    KernelLocked(q) /\ handle[q] = handle[p] => Mode(p) = "shared" \/ Mode(q) = "shared"

\* The kernel grants a lock on a file when no other process holds a
\* conflicting one on the same file.
Grantable(p) ==
  \A q \in Procs \ {p} :
    KernelLocked(q) /\ handle[q] = handle[p] => Mode(p) = "shared" /\ Mode(q) = "shared"

\* Mutant: the loop counts its rounds but never looks at the deadline.
TryLockPastDeadline(p) ==
  /\ pc[p] \in {"tryLock", "takeoverTry"}
  /\ IF Grantable(p)
     THEN /\ Goto(p, IF pc[p] = "tryLock" THEN "corroborate" ELSE "takeoverCorroborate")
          /\ UNCHANGED patience
     ELSE /\ patience' = [patience EXCEPT ![p] = @ - 1]
          /\ UNCHANGED pc
  /\ UNCHANGED <<disk, want, statted, handle, made, intrusions>>

\* Mutant: the lock is waited for without a deadline.
TryLockBlocks(p) ==
  /\ pc[p] \in {"tryLock", "takeoverTry"}
  /\ Grantable(p)
  /\ Goto(p, IF pc[p] = "tryLock" THEN "corroborate" ELSE "takeoverCorroborate")
  /\ UNCHANGED <<disk, want, locals, intrusions>>

\* acquire_file: one round of the deadline, cancellation and try_lock loop.
TryLock(p) ==
  /\ pc[p] \in {"tryLock", "takeoverTry"}
  /\ patience[p] > 0
  /\ IF Grantable(p)
     THEN /\ Goto(p, IF pc[p] = "tryLock" THEN "corroborate" ELSE "takeoverCorroborate")
          /\ UNCHANGED patience
     ELSE /\ patience' = [patience EXCEPT ![p] = @ - 1]
          /\ UNCHANGED pc
  /\ UNCHANGED <<disk, want, statted, handle, made, intrusions>>

\* The deadline: the loop gives up.
TimedOut(p) ==
  /\ pc[p] \in {"tryLock", "takeoverTry"}
  /\ patience[p] = 0
  /\ Leave(p)
  /\ UNCHANGED <<disk, want, intrusions>>

\* final_path_matches: the path must still name the locked file.
Corroborate(p) ==
  /\ pc[p] \in {"corroborate", "takeoverCorroborate"}
  /\ IF LockAtPath = handle[p]
     THEN /\ Goto(p, IF pc[p] = "corroborate" THEN "held" ELSE "takeoverRecheck")
          /\ UNCHANGED locals
     ELSE Leave(p)
  /\ UNCHANGED <<disk, want, intrusions>>

\* Mutant: the Missing probe before the lock was taken is trusted.
TakeoverTrustsProbe(p) ==
  /\ pc[p] = "takeoverRecheck"
  /\ Goto(p, "takeoverHeld")
  /\ UNCHANGED <<disk, want, locals, intrusions>>

\* The takeover re-asserts Missing under the lease it now really holds.
TakeoverRecheck(p) ==
  /\ pc[p] = "takeoverRecheck"
  /\ IF root \in published
     THEN Leave(p)
     ELSE Goto(p, "takeoverHeld") /\ UNCHANGED locals
  /\ UNCHANGED <<disk, want, intrusions>>

\* Cancellation is polled at the start and in every round.
Cancelled(p) ==
  /\ pc[p] \in {"statLock", "makeRoot", "takeoverMakeLock", "tryLock", "takeoverTry"}
  /\ Leave(p)
  /\ UNCHANGED <<disk, want, intrusions>>

-----------------------------------------------------------------------------
(* Holding.                                                                *)

\* Mutant: the mode is checked, the path is not.
ValidExclusiveByMode(p) == pc[p] \in Holding /\ Mode(p) = "exclusive"

\* validate_exclusive: an exclusive lease whose file the path still names.
ValidExclusive(p) ==
  /\ pc[p] \in Holding
  /\ Mode(p) = "exclusive"
  /\ LockAtPath = handle[p]

\* A writer validates its lease, then acts: the two are separate calls.
Validate(p) ==
  /\ pc[p] \in {"held", "takeoverHeld"}
  /\ Mode(p) = "exclusive"
  /\ IF ValidExclusive(p)
     THEN Goto(p, "mutate") /\ UNCHANGED locals
     ELSE Leave(p)
  /\ UNCHANGED <<disk, want, intrusions>>

\* The first publication in a namespace, through the root path.
Mutate(p) ==
  /\ pc[p] = "mutate"
  /\ published' = published \union (Dirs \intersect {root})
  /\ Goto(p, "held")
  /\ UNCHANGED <<root, lockIn, usedDirs, usedLocks, want, locals, intrusions>>

\* The last clone of the lease is dropped.
Release(p) ==
  /\ pc[p] \in {"held", "takeoverHeld"}
  /\ Leave(p)
  /\ UNCHANGED <<disk, want, intrusions>>

\* The process is killed anywhere: the kernel closes its files.
Killed(p) ==
  /\ pc[p] # "idle"
  /\ Leave(p)
  /\ UNCHANGED <<disk, want, intrusions>>

-----------------------------------------------------------------------------
(* Outside the program.                                                    *)

Intrude ==
  /\ intrusions < MaxIntrusions
  /\ intrusions' = intrusions + 1
  /\ UNCHANGED <<published, usedDirs, usedLocks, pc, want, locals>>

MoveRootAway == Intrude /\ root # None /\ root' = None /\ UNCHANGED lockIn

\* An earlier directory returns, in place of the one made since if there is one.
MoveRootBack == Intrude /\ root' \in usedDirs \ {root} /\ UNCHANGED lockIn

DeleteLock ==
  /\ Intrude
  /\ LockAtPath # None
  /\ lockIn' = [lockIn EXCEPT ![root] = None]
  /\ UNCHANGED root

-----------------------------------------------------------------------------
Step(p) ==
  \/ ProbeRoot(p) \/ MakeRoot(p) \/ MakeLock(p)
  \/ StatLock(p) \/ OpenLock(p)
  \/ TakeoverProbe(p) \/ TakeoverMakeLock(p)
  \/ TryLock(p) \/ TimedOut(p)
  \/ Corroborate(p) \/ TakeoverRecheck(p)

Next ==
  \/ \E p \in Procs :
       \/ \E w \in Wants : Acquire(p, w)
       \/ Step(p)
       \/ Cancelled(p)
       \/ Validate(p) \/ Mutate(p) \/ Release(p)
       \/ Killed(p)
  \/ MoveRootAway \/ MoveRootBack \/ DeleteLock

Spec == Init /\ [][Next]_vars

\* The scheduler keeps running a process that is acquiring.
FairSpec == Spec /\ \A p \in Procs : WF_vars(Step(p))

-----------------------------------------------------------------------------
(* Properties.                                                             *)

\* A lease that validate_exclusive accepts excludes every other lease on the
\* file at the path, whatever happened to the path: writers that check first
\* never overlap each other or a reader of the same lock.
ValidLeaseExcludesOthers ==
  \A p, q \in Procs :
    p # q /\ ValidExclusive(p) /\ pc[q] \in Holding => LockAtPath # handle[q]

\* Without outside interference no validation is needed: creation races,
\* takeovers, timeouts and crashes alone never yield two conflicting leases.
UndisturbedExclusion ==
  intrusions = 0 =>
    \A p, q \in Procs :
      p # q /\ pc[p] \in Holding /\ pc[q] \in Holding =>
        Mode(p) = "shared" /\ Mode(q) = "shared"

\* A takeover lease is handed out only for a namespace that is Missing while
\* the lease is held: the creator of the lock file may be overtaken by another
\* process that locks the file first and publishes.
TakeoverFindsMissing ==
  intrusions = 0 => \A p \in Procs : pc[p] = "takeoverHeld" => root \notin published

\* The instance has no identity left for what p is about to make.
OutOfIdentities(p) ==
  \/ pc[p] = "makeRoot" /\ usedDirs = Dirs
  \/ pc[p] \in {"makeLock", "takeoverMakeLock"} /\ usedLocks = Locks

\* Every acquisition returns, with a lease or an error: contention is bounded
\* by the deadline, nobody waits for ever.
AcquisitionReturns ==
  \A p \in Procs : (pc[p] \in Acquiring) ~> (pc[p] \notin Acquiring \/ OutOfIdentities(p))

=============================================================================
