-------------------------- MODULE IndexLeaseProofs --------------------------
(***************************************************************************)
(* Proofs about IndexLease, for any number of processes, directories and   *)
(* lock files and any amount of outside interference.                      *)
(***************************************************************************)
EXTENDS IndexLease, TLAPS

-----------------------------------------------------------------------------
(* The inductive invariant.                                                *)

\* What the kernel guarantees: two locks on one file are both shared.
KernelExclusion ==
  \A p, q \in Procs :
    p # q /\ KernelLocked(p) /\ KernelLocked(q) /\ handle[p] = handle[q] =>
      Mode(p) = "shared" /\ Mode(q) = "shared"

\* What a process has established by the time it is at a step.
LocalFacts ==
  \A p \in Procs :
    /\ pc[p] = "openLock" => statted[p] # None
    /\ pc[p] = "mutate" => Mode(p) = "exclusive"

\* Steps at which the process has the lock file open.
Opened(p) == pc[p] \in {"tryLock", "takeoverTry"} \/ KernelLocked(p)

\* Without interference the path is settled once: the directory a creator
\* opened is the root, every open lock file is the one at the path.
PathSettled ==
  intrusions = 0 =>
    \A p \in Procs :
      /\ pc[p] = "makeLock" => root # None /\ made[p] = root
      /\ Opened(p) => root # None /\ LockAtPath # None /\ handle[p] = LockAtPath

IInv == TypeOK /\ KernelExclusion /\ LocalFacts /\ PathSettled /\ TakeoverFindsMissing

-----------------------------------------------------------------------------
(* Type correctness.                                                       *)

LEMMA TypeInit == Init => TypeOK
BY IndexLeaseAssumption DEF Init, TypeOK, Wants

\* Every action keeps the types.
LEMMA TypeStep == TypeOK /\ [Next]_vars => TypeOK'
<1> SUFFICES ASSUME TypeOK, [Next]_vars PROVE TypeOK'
  OBVIOUS
<1> USE IndexLeaseAssumption DEF TypeOK, Wants, Acquiring, Holding, Goto, disk, locals
<1>1. ASSUME NEW p \in Procs, NEW w \in Wants, Acquire(p, w) PROVE TypeOK'
  BY <1>1 DEF Acquire
<1>2. ASSUME NEW p \in Procs, ProbeRoot(p) PROVE TypeOK'
  BY <1>2 DEF ProbeRoot
<1>3. ASSUME NEW p \in Procs, MakeRoot(p) PROVE TypeOK'
  BY <1>3 DEF MakeRoot, Leave
<1>4. ASSUME NEW p \in Procs, MakeLock(p) \/ TakeoverMakeLock(p) PROVE TypeOK'
  BY <1>4 DEF MakeLock, TakeoverMakeLock, CreateLockFile, Leave
<1>5. ASSUME NEW p \in Procs, StatLock(p) \/ OpenLock(p) PROVE TypeOK'
  BY <1>5 DEF StatLock, OpenLock, LockAtPath, Leave
<1>6. ASSUME NEW p \in Procs, TakeoverProbe(p) \/ TakeoverRecheck(p) PROVE TypeOK'
  BY <1>6 DEF TakeoverProbe, TakeoverRecheck, Leave
<1>7. ASSUME NEW p \in Procs, TryLock(p) PROVE TypeOK'
  BY <1>7 DEF TryLock
<1>8. ASSUME NEW p \in Procs, TimedOut(p) \/ Cancelled(p) \/ Release(p) \/ Killed(p)
      PROVE TypeOK'
  BY <1>8 DEF TimedOut, Cancelled, Release, Killed, Leave
<1>9. ASSUME NEW p \in Procs, Corroborate(p) \/ Validate(p) PROVE TypeOK'
  BY <1>9 DEF Corroborate, Validate, Leave
<1>10. ASSUME NEW p \in Procs, Mutate(p) PROVE TypeOK'
  BY <1>10 DEF Mutate
<1>11. CASE MoveRootAway \/ MoveRootBack \/ DeleteLock
  BY <1>11 DEF MoveRootAway, MoveRootBack, DeleteLock, Intrude
<1>12. CASE UNCHANGED vars
  BY <1>12 DEF vars
<1> QED
  BY <1>1, <1>2, <1>3, <1>4, <1>5, <1>6, <1>7, <1>8, <1>9, <1>10, <1>11, <1>12
     DEF Next, Step

\* Every reachable state has the declared types.
THEOREM TypeCorrect == Spec => []TypeOK
BY TypeInit, TypeStep, PTL DEF Spec
-----------------------------------------------------------------------------
(* The kernel's exclusion, seen from the processes.                        *)

LEMMA ExclusionInit == Init => KernelExclusion /\ LocalFacts
BY DEF Init, KernelExclusion, LocalFacts, KernelLocked, Holding

\* Only TryLock enters the kernel lock, and it looks at every other holder;
\* a process changes its handle or its mode only outside the lock.
LEMMA ExclusionStep ==
  TypeOK /\ KernelExclusion /\ LocalFacts /\ [Next]_vars => KernelExclusion' /\ LocalFacts'
<1> SUFFICES ASSUME TypeOK, KernelExclusion, LocalFacts, [Next]_vars
             PROVE  KernelExclusion' /\ LocalFacts'
  OBVIOUS
<1> USE DEF TypeOK, KernelExclusion, LocalFacts, KernelLocked, Mode, Holding, Acquiring,
            Wants, Goto, disk, locals
<1>1. ASSUME NEW p \in Procs, NEW w \in Wants, Acquire(p, w)
      PROVE KernelExclusion' /\ LocalFacts'
  BY <1>1 DEF Acquire
<1>2. ASSUME NEW p \in Procs, ProbeRoot(p) PROVE KernelExclusion' /\ LocalFacts'
  BY <1>2 DEF ProbeRoot
<1>3. ASSUME NEW p \in Procs, MakeRoot(p) PROVE KernelExclusion' /\ LocalFacts'
  BY <1>3 DEF MakeRoot, Leave
<1>4. ASSUME NEW p \in Procs, MakeLock(p) \/ TakeoverMakeLock(p)
      PROVE KernelExclusion' /\ LocalFacts'
  BY <1>4 DEF MakeLock, TakeoverMakeLock, CreateLockFile, Leave
<1>5. ASSUME NEW p \in Procs, StatLock(p) \/ OpenLock(p)
      PROVE KernelExclusion' /\ LocalFacts'
  BY <1>5 DEF StatLock, OpenLock, Leave
<1>6. ASSUME NEW p \in Procs, TakeoverProbe(p) \/ TakeoverRecheck(p)
      PROVE KernelExclusion' /\ LocalFacts'
  BY <1>6 DEF TakeoverProbe, TakeoverRecheck, Leave
<1>7. ASSUME NEW p \in Procs, TryLock(p) PROVE KernelExclusion' /\ LocalFacts'
  BY <1>7 DEF TryLock, Grantable
<1>8. ASSUME NEW p \in Procs, TimedOut(p) \/ Cancelled(p) \/ Release(p) \/ Killed(p)
      PROVE KernelExclusion' /\ LocalFacts'
  BY <1>8 DEF TimedOut, Cancelled, Release, Killed, Leave
<1>9. ASSUME NEW p \in Procs, Corroborate(p) \/ Validate(p)
      PROVE KernelExclusion' /\ LocalFacts'
  BY <1>9 DEF Corroborate, Validate, Leave
<1>10. ASSUME NEW p \in Procs, Mutate(p) PROVE KernelExclusion' /\ LocalFacts'
  BY <1>10 DEF Mutate
<1>11. CASE MoveRootAway \/ MoveRootBack \/ DeleteLock
  BY <1>11 DEF MoveRootAway, MoveRootBack, DeleteLock, Intrude
<1>12. CASE UNCHANGED vars
  BY <1>12 DEF vars
<1> QED
  BY <1>1, <1>2, <1>3, <1>4, <1>5, <1>6, <1>7, <1>8, <1>9, <1>10, <1>11, <1>12
     DEF Next, Step

\* A lease that validate_exclusive accepts excludes every other lease on the
\* file at the path, with any number of processes and whatever somebody outside
\* does to the root and its lock.
THEOREM ValidLeaseExcludes == Spec => []ValidLeaseExcludesOthers
<1>1. KernelExclusion => ValidLeaseExcludesOthers
  BY DEF KernelExclusion, ValidLeaseExcludesOthers, ValidExclusive, KernelLocked, Mode
<1> QED
  BY <1>1, TypeInit, TypeStep, ExclusionInit, ExclusionStep, PTL DEF Spec

-----------------------------------------------------------------------------
(* Without interference.                                                   *)

LEMMA SettledInit == Init => PathSettled /\ TakeoverFindsMissing
BY DEF Init, PathSettled, Opened, TakeoverFindsMissing, KernelLocked, Holding

\* Creators agree on one directory and one lock file: create_dir and
\* create_new succeed once, and every opener finds what they made.  A takeover
\* rechecks under its lock, and whoever publishes afterwards would need that
\* same lock exclusively.
LEMMA SettledStep == IInv /\ [Next]_vars => PathSettled' /\ TakeoverFindsMissing'
<1> SUFFICES ASSUME IInv, [Next]_vars
             PROVE  PathSettled' /\ TakeoverFindsMissing'
  OBVIOUS
<1>0. CASE intrusions # 0
  BY <1>0 DEF IInv, TypeOK, PathSettled, TakeoverFindsMissing, Next, Step, vars, disk, locals,
     Acquire, ProbeRoot, MakeRoot, MakeLock, TakeoverMakeLock, CreateLockFile, StatLock, OpenLock,
     TakeoverProbe, TakeoverRecheck, TryLock, TimedOut, Cancelled, Release, Killed, Leave,
     Corroborate, Validate, Mutate, MoveRootAway, MoveRootBack, DeleteLock, Intrude
<1> SUFFICES ASSUME intrusions = 0 PROVE PathSettled' /\ TakeoverFindsMissing'
  BY <1>0
<1> USE IndexLeaseAssumption DEF IInv, TypeOK, KernelExclusion, LocalFacts, PathSettled,
        Opened, TakeoverFindsMissing, KernelLocked, Mode, Holding, Acquiring, Wants, Goto,
        disk, locals, LockAtPath
<1>1. ASSUME NEW p \in Procs, NEW w \in Wants, Acquire(p, w)
      PROVE PathSettled' /\ TakeoverFindsMissing'
  BY <1>1 DEF Acquire
<1>2. ASSUME NEW p \in Procs, ProbeRoot(p) PROVE PathSettled' /\ TakeoverFindsMissing'
  BY <1>2 DEF ProbeRoot
<1>3. ASSUME NEW p \in Procs, MakeRoot(p) PROVE PathSettled' /\ TakeoverFindsMissing'
  BY <1>3 DEF MakeRoot, Leave
<1>4. ASSUME NEW p \in Procs, MakeLock(p) \/ TakeoverMakeLock(p)
      PROVE PathSettled' /\ TakeoverFindsMissing'
  BY <1>4 DEF MakeLock, TakeoverMakeLock, CreateLockFile, Leave
<1>5. ASSUME NEW p \in Procs, StatLock(p) \/ OpenLock(p)
      PROVE PathSettled' /\ TakeoverFindsMissing'
  BY <1>5 DEF StatLock, OpenLock, Leave
<1>6. ASSUME NEW p \in Procs, TakeoverProbe(p) \/ TakeoverRecheck(p)
      PROVE PathSettled' /\ TakeoverFindsMissing'
  BY <1>6 DEF TakeoverProbe, TakeoverRecheck, Leave
<1>7. ASSUME NEW p \in Procs, TryLock(p) PROVE PathSettled' /\ TakeoverFindsMissing'
  BY <1>7 DEF TryLock
<1>8. ASSUME NEW p \in Procs, TimedOut(p) \/ Cancelled(p) \/ Release(p) \/ Killed(p)
      PROVE PathSettled' /\ TakeoverFindsMissing'
  BY <1>8 DEF TimedOut, Cancelled, Release, Killed, Leave
<1>9. ASSUME NEW p \in Procs, Corroborate(p) \/ Validate(p)
      PROVE PathSettled' /\ TakeoverFindsMissing'
  BY <1>9 DEF Corroborate, Validate, Leave
<1>10. ASSUME NEW p \in Procs, Mutate(p) PROVE PathSettled' /\ TakeoverFindsMissing'
  BY <1>10 DEF Mutate
<1>11. CASE MoveRootAway \/ MoveRootBack \/ DeleteLock
  BY <1>11 DEF MoveRootAway, MoveRootBack, DeleteLock, Intrude
<1>12. CASE UNCHANGED vars
  BY <1>12 DEF vars
<1> QED
  BY <1>1, <1>2, <1>3, <1>4, <1>5, <1>6, <1>7, <1>8, <1>9, <1>10, <1>11, <1>12
     DEF Next, Step

LEMMA Invariance == Spec => []IInv
<1>1. Init => IInv
  BY TypeInit, ExclusionInit, SettledInit DEF IInv
<1>2. IInv /\ [Next]_vars => IInv'
  BY TypeStep, ExclusionStep, SettledStep DEF IInv
<1> QED
  BY <1>1, <1>2, PTL DEF Spec

\* Creation races, takeovers, timeouts and kills alone never give two processes
\* conflicting leases.
THEOREM Undisturbed == Spec => []UndisturbedExclusion
<1>1. IInv => UndisturbedExclusion
  BY DEF IInv, KernelExclusion, PathSettled, Opened, KernelLocked, UndisturbedExclusion
<1> QED
  BY <1>1, Invariance, PTL

\* A takeover lease is handed out, and kept, only in a Missing namespace.
THEOREM TakeoverMissing == Spec => []TakeoverFindsMissing
BY Invariance, PTL DEF IInv

=============================================================================
