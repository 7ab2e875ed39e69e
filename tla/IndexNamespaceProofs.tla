------------------------ MODULE IndexNamespaceProofs ------------------------
(***************************************************************************)
(* Proofs about IndexNamespace, for any number of processes, any sequence  *)
(* bound and any sound namespaces found on disk.                           *)
(***************************************************************************)
EXTENDS IndexNamespace, IndexStateProofs

-----------------------------------------------------------------------------
(* The inductive invariant.                                                *)

\* An exclusive lease excludes every other lease.
LeaseExclusion ==
  \A p, q \in Procs : p # q /\ lease[p] = "exclusive" => lease[q] = "none"

\* A Current namespace has a finished database, and a log beside it applies to
\* a finished one; a log is never left under the tombstone.
DatabaseSound ==
  Status = "current" =>
    /\ Stamped(main)
    /\ wal # NoFile => Stamped(wal) /\ ~tombstone

Rebuilding == {"raiseTombstone", "drain", "dropMain", "dropSidecars", "openStore", "bulk",
               "restore", "stamp", "stampCheckpoint", "close"}
Updating == {"syncing", "syncClose", "recoverFold", "recoverClose"}

\* What a process has established, under its lease, by the time it is at a step.
StepFacts(p) ==
  /\ pc[p] = "prepare" => Publishable(slots, goal[p])
  /\ pc[p] = "rename" =>
       Status \notin {"corrupt", "future"} /\ slots[SuccessorSlot(slots)] = Absent
  /\ pc[p] \in Publishing /\ goal[p] = "current" => Stamped(main) /\ wal = NoFile
  /\ pc[p] = "syncDir" => Status \in {goal[p], "corrupt"}
  /\ pc[p] \in Rebuilding => Status # "current"
  /\ pc[p] \in {"restore", "stamp", "stampCheckpoint", "close"} => wal.rows = "complete"
  /\ pc[p] \in {"stampCheckpoint", "close"} => wal.stamp = CURRENT_EXTRACTION_VERSION
  /\ pc[p] \in Updating => Status = "current" /\ wal # NoFile /\ ~tombstone
  /\ pc[p] = "reading" => Status = "current" /\ main = snapshot[p]

IInv ==
  /\ TypeOK
  /\ LeaseExclusion
  /\ DatabaseSound
  /\ \A p \in Procs : StepFacts(p)
-----------------------------------------------------------------------------
(* Types.                                                                  *)

LEMMA ContentTyped == NoFile \in Content /\ FreshSchema \in Content
BY DEF NoFile, FreshSchema, Content, Rows

LEMMA TypeInit == Init => TypeOK
<1> SUFFICES ASSUME Init PROVE TypeOK
  OBVIOUS
<1>1. PICK n \in InitialNamespaces :
         root = n.root /\ slots = n.slots /\ main = n.main /\ wal = n.wal
         /\ tombstone = n.tombstone
  BY DEF Init
<1>2. n \in Namespaces
  BY IndexNamespaceAssumption
<1>3. /\ root \in {"absent", "lockless", "locked"}
      /\ slots \in [SlotIndex -> WireSlot]
      /\ main \in Content /\ wal \in Content /\ tombstone \in BOOLEAN
  BY <1>1, <1>2 DEF Namespaces
<1>4. LeaseAt("idle") = "none"
  BY DEF LeaseAt, ExclusiveLabels, Publishing, WriterOpen
<1> QED
  BY <1>3, <1>4, ContentTyped, IndexNamespaceAssumption
     DEF Init, TypeOK, Labels, Ended, Commands, StatePhase

-----------------------------------------------------------------------------
(* How a step moves its own process.                                       *)

ControlTyped ==
  /\ pc \in [Procs -> Labels]
  /\ cmd \in [Procs -> Commands]
  /\ goal \in [Procs -> StatePhase]
  /\ lease = [p \in Procs |-> LeaseAt(pc[p])]
  /\ snapshot \in [Procs -> Content]

DiskTyped ==
  /\ root \in {"absent", "lockless", "locked"}
  /\ slots \in [SlotIndex -> WireSlot]
  /\ main \in Content /\ wal \in Content
  /\ tombstone \in BOOLEAN
  /\ removals \in 0..MaxRemovals

OthersUnmoved(p) ==
  \A q \in Procs \ {p} :
    /\ pc'[q] = pc[q] /\ goal'[q] = goal[q]
    /\ snapshot'[q] = snapshot[q] /\ lease'[q] = lease[q]

\* A process takes a lease only when the lock is free for it.
LeaseGranted(p) ==
  /\ lease'[p] = "exclusive" /\ lease[p] # "exclusive" => ExclusiveFree(p)
  /\ lease'[p] = "shared" /\ lease[p] # "shared" => SharedFree(p)

\* The labels at which StepFacts says something.
Charged == Publishing \union Rebuilding \union Updating \union {"reading"}

Moved(p, l) == ControlTyped' /\ OthersUnmoved(p) /\ pc'[p] = l

LEMMA TypeParts == TypeOK <=> ControlTyped /\ DiskTyped
BY DEF TypeOK, ControlTyped, DiskTyped

LEMMA ContinueMoves ==
  ASSUME TypeOK, NEW p \in Procs, NEW l \in Labels, Continue(p, l), LeaseAt(l) = LeaseAt(pc[p])
  PROVE  /\ Moved(p, l) /\ LeaseGranted(p)
         /\ goal'[p] = goal[p] /\ snapshot'[p] = snapshot[p]
BY DEF TypeOK, Continue, Goto, locals, Moved, ControlTyped, OthersUnmoved, LeaseGranted

LEMMA WithLeaseMoves ==
  ASSUME TypeOK, NEW p \in Procs, NEW l \in Labels, WithLease(p, l, LeaseAt(l))
  PROVE  /\ Moved(p, l)
         /\ lease'[p] = LeaseAt(l)
         /\ goal'[p] = goal[p] /\ snapshot'[p] = snapshot[p]
BY DEF TypeOK, WithLease, Goto, Moved, ControlTyped, OthersUnmoved

LEMMA ReturnMoves ==
  ASSUME TypeOK, NEW p \in Procs, NEW l \in Ended, Return(p, l)
  PROVE  Moved(p, l) /\ LeaseGranted(p)
<1>1. LeaseAt(l) = "none" /\ l \in Labels
  BY DEF LeaseAt, ExclusiveLabels, Publishing, WriterOpen, Ended, Labels
<1> QED
  BY <1>1, ContentTyped
     DEF TypeOK, Return, Goto, Commands, StatePhase, Moved, ControlTyped, OthersUnmoved,
         LeaseGranted

\* At the other labels there is nothing to show.
LEMMA UnchargedFacts ==
  ASSUME NEW p \in Procs, pc'[p] \notin Charged
  PROVE  StepFacts(p)'
BY DEF StepFacts, Charged, Publishing, Rebuilding, Updating

\* Under the exclusive lease no other process is at a charged label.
LEMMA OthersUncharged ==
  ASSUME TypeOK, LeaseExclusion, NEW p \in Procs, lease[p] = "exclusive",
         NEW q \in Procs, q # p
  PROVE  pc[q] \notin Charged
<1>1. LeaseAt(pc[q]) = "none"
  BY DEF LeaseExclusion, TypeOK
<1> QED
  BY <1>1 DEF LeaseAt, ExclusiveLabels, WriterOpen, Publishing, Charged, Rebuilding, Updating

\* The invariant is kept when the stepping process either leaves the namespace
\* alone or has the exclusive lease, and its own facts hold afterwards.
LEMMA Combine ==
  ASSUME IInv, NEW p \in Procs, NEW l, Moved(p, l), LeaseGranted(p), DiskTyped',
         lease[p] = "exclusive" \/ UNCHANGED <<slots, main, wal, tombstone>>,
         DatabaseSound', StepFacts(p)'
  PROVE  IInv'
<1>1. TypeOK'
  BY TypeParts DEF Moved, ControlTyped, DiskTyped, TypeOK
<1>2. LeaseExclusion'
  <2>1. lease'[p] \in {"none", "shared", "exclusive"}
    BY DEF Moved, ControlTyped, LeaseAt
  <2> QED
    BY <2>1 DEF IInv, LeaseExclusion, Moved, OthersUnmoved, LeaseGranted, ExclusiveFree,
                SharedFree
<1>3. ASSUME NEW q \in Procs, q # p PROVE StepFacts(q)'
  <2>1. CASE lease[p] = "exclusive"
    <3>1. pc'[q] \notin Charged
      BY <1>3, <2>1, OthersUncharged DEF IInv, Moved, OthersUnmoved
    <3> QED
      BY <3>1, UnchargedFacts
  <2>2. CASE UNCHANGED <<slots, main, wal, tombstone>>
    BY <1>3, <2>2 DEF IInv, StepFacts, Moved, OthersUnmoved, Status
  <2> QED
    BY <2>1, <2>2
<1> QED
  BY <1>1, <1>2, <1>3 DEF IInv

\* The same for a step that leaves slots, database and tombstone alone.
LEMMA Quiet ==
  ASSUME IInv, NEW p \in Procs, NEW l, Moved(p, l), LeaseGranted(p),
         UNCHANGED <<slots, main, wal, tombstone, removals>>,
         root' \in {"absent", "lockless", "locked"}, StepFacts(p)'
  PROVE  IInv'
<1>1. DiskTyped'
  BY DEF IInv, TypeOK, DiskTyped
<1>2. DatabaseSound'
  BY DEF IInv, DatabaseSound, Status
<1> QED
  BY <1>1, <1>2, Combine

LEMMA QuietReturn ==
  ASSUME IInv, NEW p \in Procs, NEW l \in Ended, Return(p, l),
         UNCHANGED <<slots, database, tombstone, removals>>,
         root' \in {"absent", "lockless", "locked"}
  PROVE  IInv'
<1>1. Moved(p, l) /\ LeaseGranted(p)
  BY ReturnMoves DEF IInv
<1>2. StepFacts(p)'
  BY <1>1, UnchargedFacts DEF Moved, Charged, Ended, Publishing, Rebuilding, Updating
<1> QED
  BY <1>1, <1>2, Quiet DEF database

LEMMA QuietContinue ==
  ASSUME IInv, NEW p \in Procs, NEW l \in Labels, Continue(p, l),
         LeaseAt(l) = LeaseAt(pc[p]), l \notin Charged,
         UNCHANGED <<slots, database, tombstone, removals>>,
         root' \in {"absent", "lockless", "locked"}
  PROVE  IInv'
<1>1. Moved(p, l) /\ LeaseGranted(p)
  BY ContinueMoves DEF IInv
<1>2. StepFacts(p)'
  BY <1>1, UnchargedFacts DEF Moved
<1> QED
  BY <1>1, <1>2, Quiet DEF database
-----------------------------------------------------------------------------
(* The steps that hold no lease, or take one.                              *)

Unleased == {"probeInit", "probeRebuild", "probeService", "probeUpgrade", "probeUninit",
             "recoverProbe", "recoverLease", "lock", "makeLock", "lease", "takeoverLease",
             "shareLease"}

LEMMA UnleasedLabels ==
  ASSUME NEW l \in Unleased
  PROVE  l \in Labels /\ LeaseAt(l) = "none" /\ l \notin Charged
BY DEF Unleased, Labels, LeaseAt, ExclusiveLabels, Charged, Publishing, WriterOpen,
       Rebuilding, Updating

LEMMA AfterRecoveryUnleased == \A p \in Procs : AfterRecovery(p) \in Unleased
BY DEF AfterRecovery, Unleased

\* Starting a command sets its name and nothing else.
LEMMA StartStep ==
  ASSUME IInv, NEW p \in Procs, NEW c \in Commands, Start(p, c)
  PROVE  IInv'
<1>1. PICK l \in Unleased : Goto(p, l)
  BY DEF Start, Unleased
<1>2. LeaseAt(pc[p]) = "none"
  BY DEF Start, Ended, LeaseAt, ExclusiveLabels, Publishing, WriterOpen
<1>3. Moved(p, l) /\ LeaseGranted(p)
  BY <1>1, <1>2, UnleasedLabels
     DEF IInv, TypeOK, Start, Goto, Moved, ControlTyped, OthersUnmoved, LeaseGranted
<1>4. StepFacts(p)'
  BY <1>3, UnleasedLabels, UnchargedFacts DEF Moved
<1>5. UNCHANGED <<root, slots, main, wal, tombstone, removals>>
  BY DEF Start, database
<1> QED
  BY <1>3, <1>4, <1>5, Quiet DEF IInv, TypeOK

\* A step without a lease that goes on without one, or ends the command.
LEMMA UnleasedStep ==
  ASSUME IInv, NEW p \in Procs, pc[p] \in Unleased,
         \/ \E l \in Unleased : Continue(p, l)
         \/ \E l \in Ended : Return(p, l),
         root' \in {"absent", "lockless", "locked"},
         UNCHANGED <<slots, database, tombstone, removals>>
  PROVE  IInv'
<1>1. CASE \E l \in Unleased : Continue(p, l)
  BY <1>1, UnleasedLabels, QuietContinue
<1>2. CASE \E l \in Ended : Return(p, l)
  BY <1>2, QuietReturn
<1> QED
  BY <1>1, <1>2

LEMMA ProbeSteps ==
  ASSUME IInv, NEW p \in Procs,
         \/ ProbeInit(p) \/ ProbeRebuild(p) \/ ProbeService(p)
         \/ ProbeUpgrade(p) \/ ProbeUninit(p) \/ RecoverProbe(p)
  PROVE  IInv'
<1>1. pc[p] \in Unleased
  BY DEF ProbeInit, ProbeRebuild, ProbeService, ProbeUpgrade, ProbeUninit, RecoverProbe, Unleased
<1>2. \/ \E l \in Unleased : Continue(p, l)
      \/ \E l \in Ended : Return(p, l)
  <2>1. {"shareLease", "lock", "recoverProbe", "recoverLease"} \subseteq Unleased
    BY DEF Unleased
  <2>2. "refused" \in Ended
    BY DEF Ended
  <2> QED
    BY <2>1, <2>2, AfterRecoveryUnleased
       DEF ProbeInit, ProbeRebuild, ProbeService, ProbeUpgrade, ProbeUninit, RecoverProbe
<1>3. UNCHANGED <<root, slots, database, tombstone, removals>>
  BY DEF ProbeInit, ProbeRebuild, ProbeService, ProbeUpgrade, ProbeUninit, RecoverProbe
<1> QED
  BY <1>1, <1>2, <1>3, UnleasedStep DEF IInv, TypeOK

LEMMA LockSteps ==
  ASSUME IInv, NEW p \in Procs, FindLock(p) \/ MakeLock(p) \/ TimedOut(p)
  PROVE  IInv'
<1>1. pc[p] \in Unleased
  BY DEF FindLock, MakeLock, TimedOut, Unleased
<1>2. /\ \/ \E l \in Unleased : Continue(p, l)
         \/ \E l \in Ended : Return(p, l)
      /\ root' \in {"absent", "lockless", "locked"}
  <2>1. {"lease", "makeLock", "takeoverLease"} \subseteq Unleased
    BY DEF Unleased
  <2>2. "refused" \in Ended /\ "idle" \in Ended
    BY DEF Ended
  <2> QED
    BY <2>1, <2>2 DEF FindLock, MakeLock, TimedOut, IInv, TypeOK
<1>3. UNCHANGED <<slots, database, tombstone, removals>>
  BY DEF FindLock, MakeLock, TimedOut
<1> QED
  BY <1>1, <1>2, <1>3, UnleasedStep

\* Taking a lease leads to a label without facts: everything is checked anew.
LEMMA GrantSteps ==
  ASSUME IInv, NEW p \in Procs, RecoverLease(p) \/ AcquireLease(p) \/ AcquireShared(p)
  PROVE  IInv'
<1>1. pc[p] \in Unleased
  BY DEF RecoverLease, AcquireLease, AcquireShared, Unleased
<1>2. UNCHANGED <<root, slots, database, tombstone, removals>>
  BY DEF RecoverLease, AcquireLease, AcquireShared
<1>3. CASE \/ \E l \in Unleased : Continue(p, l)
           \/ \E l \in Ended : Return(p, l)
  BY <1>1, <1>2, <1>3, UnleasedStep DEF IInv, TypeOK
<1>4. CASE \E l \in {"recoverGate", "normalize", "gate"} :
             WithLease(p, l, "exclusive") /\ ExclusiveFree(p)
  <2>1. PICK l \in {"recoverGate", "normalize", "gate"} :
           WithLease(p, l, "exclusive") /\ ExclusiveFree(p)
    BY <1>4
  <2>2. l \in Labels /\ LeaseAt(l) = "exclusive" /\ l \notin Charged
    BY DEF Labels, LeaseAt, ExclusiveLabels, Charged, Publishing, Rebuilding, Updating
  <2>3. Moved(p, l) /\ lease'[p] = "exclusive"
    BY <2>1, <2>2, WithLeaseMoves DEF IInv
  <2>4. LeaseGranted(p) /\ StepFacts(p)'
    BY <2>1, <2>2, <2>3, UnchargedFacts DEF LeaseGranted, Moved
  <2> QED
    BY <1>2, <2>3, <2>4, Quiet DEF IInv, TypeOK, database
<1>5. CASE WithLease(p, "readGate", "shared") /\ SharedFree(p)
  <2>1. "readGate" \in Labels /\ LeaseAt("readGate") = "shared" /\ "readGate" \notin Charged
    BY DEF Labels, LeaseAt, ExclusiveLabels, Charged, Publishing, WriterOpen, Rebuilding, Updating
  <2>2. Moved(p, "readGate") /\ lease'[p] = "shared"
    BY <1>5, <2>1, WithLeaseMoves DEF IInv
  <2>3. LeaseGranted(p) /\ StepFacts(p)'
    BY <1>5, <2>1, <2>2, UnchargedFacts DEF LeaseGranted, Moved
  <2> QED
    BY <1>2, <2>2, <2>3, Quiet DEF IInv, TypeOK, database
<1>6. "lock" \in Unleased /\ "refused" \in Ended
  BY DEF Unleased, Ended
<1> QED
  BY <1>3, <1>4, <1>5, <1>6, AfterRecoveryUnleased DEF RecoverLease, AcquireLease, AcquireShared
-----------------------------------------------------------------------------
(* The steps under the exclusive lease.                                    *)

LEMMA ExclusiveLease ==
  ASSUME TypeOK, NEW p \in Procs, pc[p] \in ExclusiveLabels
  PROVE  lease[p] = "exclusive" /\ LeaseAt(pc[p]) = "exclusive"
BY DEF TypeOK, LeaseAt

LEMMA ExclusiveContinue ==
  ASSUME IInv, NEW p \in Procs, pc[p] \in ExclusiveLabels, NEW l \in ExclusiveLabels,
         Continue(p, l), DiskTyped', DatabaseSound', StepFacts(p)'
  PROVE  IInv'
<1>1. l \in Labels /\ LeaseAt(l) = LeaseAt(pc[p])
  BY DEF Labels, LeaseAt, ExclusiveLabels
<1>2. Moved(p, l) /\ LeaseGranted(p)
  BY <1>1, ContinueMoves DEF IInv
<1> QED
  BY <1>2, ExclusiveLease, Combine DEF IInv

LEMMA ExclusiveReturn ==
  ASSUME IInv, NEW p \in Procs, pc[p] \in ExclusiveLabels, NEW l \in Ended,
         Return(p, l), DiskTyped', DatabaseSound'
  PROVE  IInv'
<1>1. Moved(p, l) /\ LeaseGranted(p)
  BY ReturnMoves DEF IInv
<1>2. StepFacts(p)'
  BY <1>1, UnchargedFacts DEF Moved, Charged, Ended, Publishing, Rebuilding, Updating
<1> QED
  BY <1>1, <1>2, ExclusiveLease, Combine DEF IInv

LEMMA ExclusiveLeave ==
  ASSUME IInv, NEW p \in Procs, pc[p] \in ExclusiveLabels, NEW l \in Unleased,
         WithLease(p, l, "none"), DiskTyped', DatabaseSound'
  PROVE  IInv'
<1>1. l \in Labels /\ LeaseAt(l) = "none" /\ l \notin Charged
  BY UnleasedLabels
<1>2. Moved(p, l) /\ lease'[p] = "none"
  BY <1>1, WithLeaseMoves DEF IInv
<1>3. LeaseGranted(p) /\ StepFacts(p)'
  BY <1>1, <1>2, UnchargedFacts DEF LeaseGranted, Moved
<1> QED
  BY <1>2, <1>3, ExclusiveLease, Combine DEF IInv

\* Where a continuing process stands, and with which goal.
LEMMA ContinueAt ==
  ASSUME TypeOK, NEW p \in Procs, NEW l, Continue(p, l)
  PROVE  pc'[p] = l /\ goal'[p] = goal[p] /\ snapshot'[p] = snapshot[p] /\ cmd'[p] = cmd[p]
BY DEF TypeOK, Continue, Goto, locals

\* Closing the writer folds the log: a finished log or a namespace that is not
\* Current keeps the database sound.
LEMMA CloseWriterSound ==
  ASSUME IInv, CloseWriter, UNCHANGED <<slots, tombstone>>,
         Status = "current" => wal # NoFile
  PROVE  DatabaseSound'
BY DEF IInv, DatabaseSound, CloseWriter, Status

LEMMA DatabaseTyped ==
  ASSUME TypeOK, main' \in Content, wal' \in Content,
         UNCHANGED <<root, slots, tombstone, removals>>
  PROVE  DiskTyped'
BY DEF TypeOK, DiskTyped

LEMMA RecoverSteps ==
  ASSUME IInv, NEW p \in Procs, RecoverGate(p) \/ RecoverFold(p) \/ RecoverClose(p)
  PROVE  IInv'
<1>1. pc[p] \in ExclusiveLabels
  BY DEF RecoverGate, RecoverFold, RecoverClose, ExclusiveLabels, WriterOpen
<1>2. "recoverFold" \in ExclusiveLabels /\ "recoverClose" \in ExclusiveLabels
  BY DEF ExclusiveLabels, WriterOpen
<1>3. DiskTyped'
  BY DatabaseTyped, ContentTyped
     DEF IInv, TypeOK, RecoverGate, RecoverFold, RecoverClose, OpenWriter, Checkpoint,
         CloseWriter, database
<1>4. CASE RecoverGate(p)
  <2>1. CASE Status = "current" /\ Corroborated(FALSE, TRUE)
    <3>1. Continue(p, "recoverFold") /\ OpenWriter /\ UNCHANGED <<slots, tombstone>>
      BY <1>4, <2>1 DEF RecoverGate
    <3>2. DatabaseSound' /\ wal' # NoFile /\ ~tombstone /\ Status' = "current"
      BY <2>1, <3>1 DEF IInv, DatabaseSound, OpenWriter, Corroborated, Status
    <3>3. StepFacts(p)'
      BY <3>1, <3>2, ContinueAt DEF IInv, StepFacts, Publishing, Rebuilding, Updating
    <3> QED
      BY <1>1, <1>2, <1>3, <3>1, <3>2, <3>3, ExclusiveContinue
  <2>2. CASE ~(Status = "current" /\ Corroborated(FALSE, TRUE))
    <3>1. WithLease(p, AfterRecovery(p), "none") /\ DatabaseSound'
      BY <1>4, <2>2 DEF RecoverGate, IInv, DatabaseSound, Status, database
    <3> QED
      BY <1>1, <1>3, <3>1, AfterRecoveryUnleased, ExclusiveLeave
  <2> QED
    BY <2>1, <2>2
<1>5. CASE RecoverFold(p)
  <2>1. Status = "current" /\ wal # NoFile /\ ~tombstone
    BY <1>5 DEF RecoverFold, IInv, StepFacts, Updating
  <2>2. DatabaseSound' /\ Status' = "current" /\ wal' # NoFile /\ ~tombstone'
    BY <1>5, <2>1 DEF RecoverFold, Checkpoint, IInv, DatabaseSound, Status
  <2>3. StepFacts(p)'
    BY <1>5, <2>2, ContinueAt
       DEF RecoverFold, IInv, StepFacts, Publishing, Rebuilding, Updating
  <2> QED
    BY <1>1, <1>2, <1>3, <1>5, <2>2, <2>3, ExclusiveContinue DEF RecoverFold
<1>6. CASE RecoverClose(p)
  <2>1. DatabaseSound'
    BY <1>6, CloseWriterSound DEF RecoverClose, IInv, StepFacts, Updating
  <2> QED
    BY <1>1, <1>3, <1>6, <2>1, AfterRecoveryUnleased, ExclusiveLeave DEF RecoverClose
<1> QED
  BY <1>4, <1>5, <1>6

\* A copied directory is Corrupt while foreign slots remain, Missing after.
LEMMA NormalizeStep ==
  ASSUME IInv, NEW p \in Procs, Normalize(p)
  PROVE  IInv'
<1>1. pc[p] \in ExclusiveLabels /\ "gate" \in ExclusiveLabels /\ pc[p] \notin Charged
  BY DEF Normalize, ExclusiveLabels, Charged, Publishing, Rebuilding, Updating
<1>2. CASE OwnerMismatchOnly
  <2>1. PICK i \in Mismatched : slots' = [slots EXCEPT ![i] = Absent] /\ UNCHANGED <<pc, locals>>
    BY <1>2 DEF Normalize
  <2>2. \A j \in SlotIndex : slots'[j] = Absent \/ SlotOutcome(slots'[j]) = "ownerMismatch"
    BY <1>2, <2>1 DEF OwnerMismatchOnly, Mismatched, IInv, TypeOK
  <2>3. Status' # "current"
    BY <2>2 DEF Status, Classify, Invalid
  <2>4. DiskTyped' /\ DatabaseSound'
    BY <2>1, <2>3, AbsentTyped DEF Normalize, IInv, TypeOK, DiskTyped, DatabaseSound, database
  <2>5. Moved(p, pc[p]) /\ LeaseGranted(p)
    BY <2>1 DEF IInv, TypeOK, Moved, ControlTyped, OthersUnmoved, LeaseGranted, locals
  <2>6. StepFacts(p)'
    BY <1>1, <2>5, UnchargedFacts DEF Moved
  <2> QED
    BY <1>1, <2>4, <2>5, <2>6, ExclusiveLease, Combine DEF IInv
<1>3. CASE ~OwnerMismatchOnly
  <2>1. Continue(p, "gate") /\ UNCHANGED <<root, slots, database, tombstone, removals>>
    BY <1>3 DEF Normalize
  <2>2. "gate" \in Labels /\ "gate" \notin Charged /\ LeaseAt("gate") = LeaseAt(pc[p])
    BY <1>1 DEF Labels, LeaseAt, Charged, Publishing, Rebuilding, Updating
  <2> QED
    BY <2>1, <2>2, QuietContinue DEF IInv, TypeOK
<1> QED
  BY <1>2, <1>3

\* The gate lets a sync in only over a finished database.
LEMMA GateStep ==
  ASSUME IInv, NEW p \in Procs, Gate(p)
  PROVE  IInv'
<1>1. /\ pc[p] \in ExclusiveLabels
      /\ "publish" \in ExclusiveLabels /\ "syncing" \in ExclusiveLabels
      /\ "refused" \in Ended
  BY DEF Gate, ExclusiveLabels, Publishing, WriterOpen, Ended
<1>2. ASSUME NEW ph \in {"building", "uninitialized"}, Goto(p, "publish"),
             goal' = [goal EXCEPT ![p] = ph], UNCHANGED <<database, cmd, snapshot, lease>>
      PROVE  IInv'
  <2>1. "publish" \in Labels /\ LeaseAt("publish") = LeaseAt(pc[p])
    BY <1>1 DEF Labels, Publishing, LeaseAt
  <2>2. Moved(p, "publish") /\ LeaseGranted(p) /\ goal'[p] = ph
    BY <1>2, <2>1
       DEF IInv, TypeOK, Goto, Moved, ControlTyped, OthersUnmoved, LeaseGranted, StatePhase
  <2>3. StepFacts(p)'
    BY <2>2 DEF Moved, StepFacts, Rebuilding, Updating
  <2> QED
    BY <1>2, <2>2, <2>3, Quiet DEF Gate, database, IInv, TypeOK
<1>3. ASSUME SyncAdmitted(cmd[p]), Continue(p, "syncing"), OpenWriter
      PROVE  IInv'
  <2>1. Status = "current" /\ ~tombstone /\ main # NoFile
    BY <1>3 DEF SyncAdmitted, Corroborated
  <2>2. DatabaseSound' /\ wal' # NoFile /\ ~tombstone' /\ Status' = "current" /\ DiskTyped'
    BY <1>3, <2>1 DEF Gate, OpenWriter, IInv, TypeOK, DiskTyped, DatabaseSound, Status
  <2>3. StepFacts(p)'
    BY <1>3, <2>2, ContinueAt DEF IInv, StepFacts, Publishing, Rebuilding, Updating
  <2> QED
    BY <1>1, <1>3, <2>2, <2>3, ExclusiveContinue
<1>4. ASSUME Return(p, "refused"), UNCHANGED database PROVE IInv'
  BY <1>1, <1>4, QuietReturn DEF Gate, IInv, TypeOK
<1> QED
  BY <1>2, <1>3, <1>4 DEF Gate
\* Publication: the two directory operations and what surrounds them.
LEMMA BeginPublishStep ==
  ASSUME IInv, NEW p \in Procs, BeginPublish(p)
  PROVE  IInv'
<1>1. pc[p] \in ExclusiveLabels /\ "prepare" \in ExclusiveLabels /\ "idle" \in Ended
  BY DEF BeginPublish, ExclusiveLabels, Publishing, Ended
<1>2. UNCHANGED <<root, slots, database, tombstone, removals>>
  BY DEF BeginPublish
<1>3. CASE Publishable(slots, goal[p])
  <2>1. Continue(p, "prepare")
    BY <1>3 DEF BeginPublish
  <2>2. DiskTyped' /\ DatabaseSound'
    BY <1>2 DEF IInv, TypeOK, DiskTyped, DatabaseSound, Status, database
  <2>3. goal[p] = "current" => Stamped(main) /\ wal = NoFile
    BY DEF BeginPublish, IInv, StepFacts, Publishing
  <2>4. StepFacts(p)'
    BY <1>2, <1>3, <2>1, <2>3, ContinueAt
       DEF IInv, StepFacts, Rebuilding, Updating, Status, database
  <2> QED
    BY <1>1, <2>1, <2>2, <2>4, ExclusiveContinue
<1>4. CASE ~Publishable(slots, goal[p])
  BY <1>1, <1>2, <1>4, QuietReturn DEF BeginPublish, IInv, TypeOK
<1> QED
  BY <1>3, <1>4

LEMMA PrepareStep ==
  ASSUME IInv, NEW p \in Procs, PrepareInactiveSlot(p)
  PROVE  IInv'
<1>1. /\ pc[p] \in ExclusiveLabels /\ "rename" \in ExclusiveLabels
      /\ pc[p] = "prepare" /\ pc[p] \in Publishing
  BY DEF PrepareInactiveSlot, ExclusiveLabels, Publishing
<1>2. Publishable(slots, goal[p]) /\ slots \in SlotPairs
  BY <1>1 DEF IInv, TypeOK, StepFacts, SlotPairs
<1>3. slots' = Cleared(slots)
  BY DEF PrepareInactiveSlot, Cleared
<1>4. /\ slots' \in SlotPairs
      /\ Status' = Status
      /\ slots'[SuccessorSlot(slots')] = Absent
  BY <1>2, <1>3, ClearedKeeps DEF Status
<1>5. DiskTyped' /\ DatabaseSound'
  BY <1>4 DEF PrepareInactiveSlot, IInv, TypeOK, DiskTyped, DatabaseSound, SlotPairs, database
<1>6. Status \notin {"corrupt", "future"}
  BY <1>2 DEF Publishable, Status
<1>7. StepFacts(p)'
  BY <1>1, <1>4, <1>6, ContinueAt
     DEF PrepareInactiveSlot, IInv, StepFacts, Rebuilding, Updating, database
<1> QED
  BY <1>1, <1>5, <1>7, ExclusiveContinue DEF PrepareInactiveSlot

LEMMA RenameStep ==
  ASSUME IInv, NEW p \in Procs, RenameTemp(p)
  PROVE  IInv'
<1>1. /\ pc[p] \in ExclusiveLabels /\ "syncDir" \in ExclusiveLabels
      /\ pc[p] = "rename" /\ pc[p] \in Publishing
  BY DEF RenameTemp, ExclusiveLabels, Publishing
<1>2. /\ slots \in SlotPairs /\ goal[p] \in StatePhase
      /\ Classify(slots) \notin {"corrupt", "future"}
      /\ slots[SuccessorSlot(slots)] = Absent
  BY <1>1 DEF IInv, TypeOK, StepFacts, SlotPairs, Status
<1>3. slots' = Replaced(slots, goal[p])
  BY DEF RenameTemp, Replaced
<1>4. slots' \in SlotPairs /\ Status' \in {goal[p], "corrupt"}
  BY <1>2, <1>3, ReplacedPublishes DEF Status
<1>5. goal[p] = "current" => Stamped(main) /\ wal = NoFile
  BY <1>1 DEF IInv, StepFacts
<1>6. DiskTyped' /\ DatabaseSound'
  BY <1>4, <1>5 DEF RenameTemp, IInv, TypeOK, DiskTyped, DatabaseSound, SlotPairs, database
<1>7. StepFacts(p)'
  BY <1>4, <1>5, ContinueAt DEF RenameTemp, IInv, StepFacts, Rebuilding, Updating, database
<1> QED
  BY <1>1, <1>6, <1>7, ExclusiveContinue DEF RenameTemp

LEMMA EndPublishStep ==
  ASSUME IInv, NEW p \in Procs, EndPublish(p)
  PROVE  IInv'
<1>1. /\ pc[p] \in ExclusiveLabels /\ "ok" \in Ended
      /\ {"dropMain", "raiseTombstone", "dropTombstone"} \subseteq ExclusiveLabels
  BY DEF EndPublish, ExclusiveLabels, Publishing, Ended
<1>2. UNCHANGED <<root, slots, database, tombstone, removals>>
  BY DEF EndPublish
<1>3. DiskTyped' /\ DatabaseSound' /\ Status' = Status
  BY <1>2 DEF IInv, TypeOK, DiskTyped, DatabaseSound, Status, database
<1>4. Status \in {goal[p], "corrupt"}
  BY DEF EndPublish, IInv, StepFacts
<1>5. CASE goal[p] \in {"building", "uninitialized"}
  <2>1. PICK l \in {"dropMain", "raiseTombstone"} : Continue(p, l)
    BY <1>5 DEF EndPublish
  <2>2. StepFacts(p)'
    BY <1>3, <1>4, <1>5, <2>1, ContinueAt
       DEF IInv, StepFacts, Publishing, Updating
  <2> QED
    BY <1>1, <1>3, <2>1, <2>2, ExclusiveContinue
<1>6. CASE goal[p] = "current" /\ cmd[p] = "init"
  <2>1. Continue(p, "dropTombstone")
    BY <1>6 DEF EndPublish
  <2>2. StepFacts(p)'
    BY <2>1, ContinueAt DEF IInv, StepFacts, Publishing, Rebuilding, Updating
  <2> QED
    BY <1>1, <1>3, <2>1, <2>2, ExclusiveContinue
<1>7. CASE ~(goal[p] \in {"building", "uninitialized"}) /\ ~(goal[p] = "current" /\ cmd[p] = "init")
  BY <1>1, <1>2, <1>7, QuietReturn DEF EndPublish, IInv, TypeOK
<1> QED
  BY <1>5, <1>6, <1>7

\* While the database is removed and rebuilt the namespace is not Current.
LEMMA RebuildSteps ==
  ASSUME IInv, NEW p \in Procs,
         \/ DropMain(p) \/ DropSidecars(p) \/ OpenStore(p) \/ BulkWrite(p) \/ BulkDone(p)
         \/ RestorePragmas(p) \/ StampVersion(p) \/ StampCheckpoint(p)
         \/ RaiseTombstone(p) \/ Drain(p)
  PROVE  IInv'
<1>1. /\ pc[p] \in Rebuilding /\ pc[p] \in ExclusiveLabels
      /\ {"dropMain", "dropSidecars", "openStore", "bulk", "restore", "stamp",
          "stampCheckpoint", "close", "drain"} \subseteq ExclusiveLabels
  BY DEF DropMain, DropSidecars, OpenStore, BulkWrite, BulkDone, RestorePragmas, StampVersion,
         StampCheckpoint, RaiseTombstone, Drain, Rebuilding, ExclusiveLabels, WriterOpen
<1>2. Status # "current" /\ UNCHANGED slots
  BY <1>1 DEF IInv, StepFacts, DropMain, DropSidecars, OpenStore, BulkWrite, BulkDone,
              RestorePragmas, StampVersion, StampCheckpoint, RaiseTombstone, Drain
<1>3. Status' # "current" /\ DatabaseSound'
  BY <1>2 DEF Status, DatabaseSound
<1>4. DiskTyped'
  <2>1. [wal EXCEPT !.stamp = CURRENT_EXTRACTION_VERSION] \in Content
    BY DEF IInv, TypeOK, Content, CURRENT_EXTRACTION_VERSION
  <2>2. \A rows \in {"partial", "complete"} : [wal EXCEPT !.rows = rows] \in Content
    BY DEF IInv, TypeOK, Content, Rows
  <2> QED
    BY <2>1, <2>2, ContentTyped
       DEF IInv, TypeOK, DiskTyped, DropMain, DropSidecars, OpenStore, BulkWrite, BulkDone,
           RestorePragmas, StampVersion, StampCheckpoint, RaiseTombstone, Drain, Checkpoint,
           database
<1>5. ASSUME NEW l \in {"dropMain", "dropSidecars", "openStore", "bulk", "drain"}, Continue(p, l)
      PROVE  IInv'
  <2>1. StepFacts(p)'
    BY <1>3, <1>5, ContinueAt DEF IInv, StepFacts, Publishing, Updating
  <2> QED
    BY <1>1, <1>3, <1>4, <1>5, <2>1, ExclusiveContinue
<1>6. CASE BulkWrite(p)
  <2>1. Continue(p, "bulk")
    BY <1>6 DEF BulkWrite, Continue, Goto, IInv, TypeOK
  <2> QED
    BY <1>5, <2>1
<1>7. CASE BulkDone(p) \/ RestorePragmas(p) \/ StampVersion(p) \/ StampCheckpoint(p)
  <2>1. PICK l \in {"restore", "stamp", "stampCheckpoint", "close"} : Continue(p, l)
    BY <1>7 DEF BulkDone, RestorePragmas, StampVersion, StampCheckpoint
  <2>2. /\ wal'.rows = "complete"
        /\ l \in {"stampCheckpoint", "close"} => wal'.stamp = CURRENT_EXTRACTION_VERSION
    <3>1. pc'[p] = l
      BY <2>1, ContinueAt DEF IInv
    <3>2. wal \in Content
      BY DEF IInv, TypeOK
    <3> QED
      BY <1>7, <3>1, <3>2, ContinueAt
         DEF BulkDone, RestorePragmas, StampVersion, StampCheckpoint, Checkpoint, IInv, StepFacts,
             Content, database
  <2>3. StepFacts(p)'
    BY <1>3, <2>1, <2>2, ContinueAt DEF IInv, StepFacts, Publishing, Updating
  <2> QED
    BY <1>1, <1>3, <1>4, <2>1, <2>3, ExclusiveContinue
<1>8. CASE \E l \in Ended : Return(p, l)
  BY <1>1, <1>3, <1>4, <1>8, ExclusiveReturn
<1>9. CASE DropMain(p) \/ DropSidecars(p) \/ OpenStore(p) \/ RaiseTombstone(p) \/ Drain(p)
  BY <1>5, <1>8, <1>9 DEF DropMain, DropSidecars, OpenStore, RaiseTombstone, Drain, Ended
<1> QED
  BY <1>6, <1>7, <1>9

\* Closing the writer leaves a finished, stamped database and no log: only now
\* is Current published.
LEMMA CloseStoreStep ==
  ASSUME IInv, NEW p \in Procs, CloseStore(p)
  PROVE  IInv'
<1>1. pc[p] = "close" /\ pc[p] \in ExclusiveLabels /\ pc[p] \in Rebuilding
  BY DEF CloseStore, ExclusiveLabels, WriterOpen, Rebuilding
<1>2. "publish" \in Labels /\ LeaseAt("publish") = LeaseAt(pc[p])
  BY <1>1 DEF Labels, Publishing, LeaseAt, ExclusiveLabels
<1>3. Moved(p, "publish") /\ LeaseGranted(p)
  BY <1>2
     DEF CloseStore, IInv, TypeOK, Goto, Moved, ControlTyped, OthersUnmoved, LeaseGranted,
         StatePhase
<1>4. Status # "current" /\ wal.rows = "complete" /\ wal.stamp = CURRENT_EXTRACTION_VERSION
  BY <1>1 DEF IInv, StepFacts
<1>5. Stamped(main') /\ wal' = NoFile /\ Status' # "current"
  BY <1>4 DEF CloseStore, CloseWriter, Stamped, Finished, Status
<1>6. DiskTyped' /\ DatabaseSound'
  BY <1>5, ContentTyped
     DEF CloseStore, CloseWriter, IInv, TypeOK, DiskTyped, DatabaseSound
<1>7. StepFacts(p)'
  BY <1>3, <1>5 DEF Moved, StepFacts, Rebuilding, Updating
<1> QED
  BY <1>1, <1>3, <1>6, <1>7, ExclusiveLease, Combine DEF IInv

LEMMA DropTombstoneStep ==
  ASSUME IInv, NEW p \in Procs, DropTombstone(p)
  PROVE  IInv'
<1>1. pc[p] \in ExclusiveLabels /\ "ok" \in Ended
  BY DEF DropTombstone, ExclusiveLabels, Ended
<1>2. DiskTyped' /\ DatabaseSound'
  BY DEF DropTombstone, IInv, TypeOK, DiskTyped, DatabaseSound, Status, database
<1> QED
  BY <1>1, <1>2, ExclusiveReturn DEF DropTombstone
\* An update moves between finished databases.
LEMMA SyncSteps ==
  ASSUME IInv, NEW p \in Procs, SyncWrite(p) \/ SyncDone(p) \/ SyncClose(p)
  PROVE  IInv'
<1>1. /\ pc[p] \in ExclusiveLabels /\ pc[p] \in Updating
      /\ {"syncing", "syncClose"} \subseteq ExclusiveLabels /\ "ok" \in Ended
  BY DEF SyncWrite, SyncDone, SyncClose, ExclusiveLabels, WriterOpen, Updating, Ended
<1>2. /\ Status = "current" /\ wal # NoFile /\ ~tombstone
      /\ Stamped(main) /\ Stamped(wal) /\ main \in Content /\ wal \in Content
  BY <1>1 DEF IInv, TypeOK, StepFacts, DatabaseSound
<1>3. ASSUME NEW rows \in Finished
      PROVE  LET w == [wal EXCEPT !.rows = rows] IN w \in Content /\ Stamped(w) /\ w # NoFile
  BY <1>2 DEF Content, Rows, Finished, Stamped, NoFile
<1>4. CASE SyncWrite(p) \/ SyncDone(p)
  <2>1. PICK l \in {"syncing", "syncClose"} : Continue(p, l)
    BY <1>4 DEF SyncWrite, SyncDone, Continue, Goto, IInv, TypeOK
  <2>2. /\ main' \in Content /\ Stamped(main')
        /\ wal' \in Content /\ Stamped(wal') /\ wal' # NoFile
    BY <1>2, <1>3, <1>4 DEF SyncWrite, SyncDone, Finished
  <2>3. UNCHANGED <<root, slots, tombstone, removals>>
    BY <1>4 DEF SyncWrite, SyncDone
  <2>4. DiskTyped' /\ DatabaseSound' /\ Status' = "current" /\ ~tombstone'
    BY <1>2, <2>2, <2>3, DatabaseTyped DEF IInv, DatabaseSound, Status
  <2>5. StepFacts(p)'
    BY <2>1, <2>2, <2>4, ContinueAt DEF IInv, StepFacts, Publishing, Rebuilding
  <2> QED
    BY <1>1, <2>1, <2>4, <2>5, ExclusiveContinue
<1>5. CASE SyncClose(p)
  <2>1. DatabaseSound'
    BY <1>2, <1>5, CloseWriterSound DEF SyncClose
  <2>2. DiskTyped'
    BY <1>5, DatabaseTyped, ContentTyped DEF SyncClose, CloseWriter, IInv, TypeOK
  <2> QED
    BY <1>1, <1>5, <2>1, <2>2, ExclusiveReturn DEF SyncClose
<1> QED
  BY <1>4, <1>5

-----------------------------------------------------------------------------
(* Reading, failures, removal.                                             *)

LEMMA ReadSteps ==
  ASSUME IInv, NEW p \in Procs, ReadGate(p) \/ FinishRead(p)
  PROVE  IInv'
<1>1. UNCHANGED <<root, slots, database, tombstone, removals>>
  BY DEF ReadGate, FinishRead
<1>2. CASE \E l \in {"ok", "refused"} : Return(p, l)
  BY <1>1, <1>2, QuietReturn DEF IInv, TypeOK, Ended
<1>3. CASE WithLease(p, "lock", "none")
  <2>1. "lock" \in Labels /\ LeaseAt("lock") = "none" /\ "lock" \notin Charged
    BY UnleasedLabels DEF Unleased
  <2>2. Moved(p, "lock") /\ lease'[p] = "none"
    BY <1>3, <2>1, WithLeaseMoves DEF IInv
  <2>3. LeaseGranted(p) /\ StepFacts(p)'
    BY <2>1, <2>2, UnchargedFacts DEF LeaseGranted, Moved
  <2> QED
    BY <1>1, <2>2, <2>3, Quiet DEF IInv, TypeOK, database
<1>4. CASE /\ Readable /\ pc[p] = "readGate" /\ Goto(p, "reading")
           /\ snapshot' = [snapshot EXCEPT ![p] = main] /\ UNCHANGED <<cmd, goal, lease>>
  <2>1. "reading" \in Labels /\ LeaseAt("reading") = LeaseAt(pc[p])
    BY <1>4 DEF Labels, LeaseAt, ExclusiveLabels, Publishing, WriterOpen
  <2>2. Moved(p, "reading") /\ LeaseGranted(p) /\ snapshot'[p] = main
    BY <1>4, <2>1
       DEF IInv, TypeOK, Goto, Moved, ControlTyped, OthersUnmoved, LeaseGranted
  <2>3. StepFacts(p)'
    BY <1>1, <1>4, <2>2
       DEF Moved, StepFacts, Publishing, Rebuilding, Updating, Readable, Status, database
  <2> QED
    BY <1>1, <2>2, <2>3, Quiet DEF IInv, TypeOK, database
<1> QED
  BY <1>2, <1>3, <1>4 DEF ReadGate, FinishRead

\* An error or a kill leaves the files as they are, or closes the writer.
LEMMA FailureSteps ==
  ASSUME IInv, NEW p \in Procs, Fail(p) \/ Killed(p)
  PROVE  IInv'
<1>1. "idle" \in Ended
  BY DEF Ended
<1>2. CASE Killed(p)
  BY <1>1, <1>2, QuietReturn DEF Killed, IInv, TypeOK
<1>3. CASE Fail(p)
  <2>1. pc[p] \in ExclusiveLabels
    BY <1>3 DEF Fail, IInv, TypeOK, LeaseAt
  <2>2. DiskTyped'
    BY <1>3, DatabaseTyped, ContentTyped DEF Fail, CloseWriter, IInv, TypeOK, database
  <2>3. DatabaseSound'
    <3>1. CASE UNCHANGED database
      BY <1>3, <3>1 DEF Fail, IInv, DatabaseSound, Status, database
    <3>2. CASE pc[p] \in WriterOpen /\ CloseWriter
      <4>1. Status = "current" => wal # NoFile
        BY <3>2 DEF IInv, StepFacts, WriterOpen, Rebuilding, Updating
      <4> QED
        BY <1>3, <3>2, <4>1, CloseWriterSound DEF Fail
    <3> QED
      BY <1>3, <3>1, <3>2 DEF Fail
  <2> QED
    BY <1>1, <1>3, <2>1, <2>2, <2>3, AfterRecoveryUnleased, ExclusiveLeave, ExclusiveReturn
       DEF Fail
<1> QED
  BY <1>2, <1>3

LEMMA RemoveStep ==
  ASSUME IInv, RemoveDirectory
  PROVE  IInv'
<1>1. \A i \in SlotIndex : slots'[i] = Absent
  BY DEF RemoveDirectory
<1>2. Status' = "missing"
  BY <1>1, OutcomeFacts DEF Status, Classify, Invalid
<1>3. DatabaseSound'
  BY <1>2 DEF DatabaseSound
<1>4. TypeOK'
  <2>1. ControlTyped'
    BY DEF RemoveDirectory, IInv, TypeOK, ControlTyped, locals
  <2>2. removals' \in 0..MaxRemovals
    BY IndexNamespaceAssumption DEF RemoveDirectory, IInv, TypeOK
  <2>3. slots' \in [SlotIndex -> WireSlot]
    BY AbsentTyped DEF RemoveDirectory
  <2>4. root' \in {"absent", "lockless", "locked"} /\ tombstone' \in BOOLEAN
    BY DEF RemoveDirectory
  <2> QED
    BY <2>1, <2>2, <2>3, <2>4, ContentTyped DEF RemoveDirectory, TypeOK, ControlTyped
<1>5. LeaseExclusion'
  BY DEF RemoveDirectory, IInv, LeaseExclusion, locals
<1>6. ASSUME NEW p \in Procs PROVE StepFacts(p)'
  <2>1. LeaseAt(pc[p]) = "none" /\ pc'[p] = pc[p]
    BY DEF RemoveDirectory, IInv, TypeOK
  <2>2. pc'[p] \notin Charged
    BY <2>1 DEF LeaseAt, ExclusiveLabels, WriterOpen, Publishing, Charged, Rebuilding, Updating
  <2> QED
    BY <2>2, UnchargedFacts
<1> QED
  BY <1>3, <1>4, <1>5, <1>6 DEF IInv

-----------------------------------------------------------------------------
(* The theorems.                                                           *)

LEMMA IInvInit == Init => IInv
<1> SUFFICES ASSUME Init PROVE IInv
  OBVIOUS
<1>1. LeaseExclusion
  BY DEF Init, LeaseExclusion
<1>2. DatabaseSound
  BY IndexNamespaceAssumption DEF Init, SoundNamespace, DatabaseSound, Status
<1>3. \A p \in Procs : StepFacts(p)
  BY DEF Init, StepFacts, Publishing, Rebuilding, Updating
<1> QED
  BY <1>1, <1>2, <1>3, TypeInit DEF IInv

LEMMA IInvStep == IInv /\ [Next]_vars => IInv'
<1> SUFFICES ASSUME IInv, [Next]_vars PROVE IInv'
  OBVIOUS
<1>1. ASSUME NEW p \in Procs, Step(p) PROVE IInv'
  BY <1>1, ProbeSteps, LockSteps, GrantSteps, RecoverSteps, NormalizeStep, GateStep,
     BeginPublishStep, PrepareStep, RenameStep, EndPublishStep, RebuildSteps, CloseStoreStep,
     DropTombstoneStep, SyncSteps, ReadSteps DEF Step
<1>2. CASE UNCHANGED vars
  BY <1>2 DEF vars, IInv, TypeOK, LeaseExclusion, DatabaseSound, StepFacts, Status
<1> QED
  BY <1>1, <1>2, StartStep, FailureSteps, RemoveStep DEF Next

LEMMA Invariance == Spec => []IInv
BY IInvInit, IInvStep, PTL DEF Spec

\* Every reachable state has the declared types, and each process holds exactly
\* the lease its step needs: whatever touches slots, database or tombstone runs
\* under the exclusive lease.
THEOREM TypeCorrect == Spec => []TypeOK
BY Invariance, PTL DEF IInv

\* With any number of processes, failing or killed anywhere, a namespace
\* classified Current always has a finished and stamped main database file.
THEOREM CurrentComplete == Spec => []CurrentIsComplete
<1>1. IInv => CurrentIsComplete
  BY DEF IInv, DatabaseSound, CurrentIsComplete
<1> QED
  BY <1>1, Invariance, PTL

\* What a reader serves is finished and stays what is on disk.
THEOREM ReaderSound == Spec => []ReaderSeesFinishedIndex
<1>1. IInv => ReaderSeesFinishedIndex
  BY DEF IInv, DatabaseSound, StepFacts, ReaderSeesFinishedIndex
<1> QED
  BY <1>1, Invariance, PTL

\* Whatever failed, an unleased namespace that is neither Future nor Corrupt
\* admits an init or a sync.
THEOREM Repairable == Spec => []AlwaysRepairable
<1>1. IInv => AlwaysRepairable
  <2> SUFFICES ASSUME IInv, Status \notin {"future", "corrupt"}
               PROVE  RebuildAdmitted("init") \/ SyncAdmitted("sync")
    BY DEF AlwaysRepairable
  <2>1. CASE Status # "current"
    BY <2>1 DEF RebuildAdmitted
  <2>2. CASE Status = "current"
    <3>1. Stamped(main) /\ (wal # NoFile => ~tombstone)
      BY <2>2 DEF IInv, DatabaseSound
    <3>2. main # NoFile /\ main.stamp = CURRENT_EXTRACTION_VERSION
      BY <3>1 DEF Stamped, Finished, NoFile
    <3>3. CASE wal = NoFile
      BY <2>2, <3>2, <3>3 DEF RebuildAdmitted, Corroborated
    <3>4. CASE wal # NoFile
      BY <2>2, <3>1, <3>2, <3>4 DEF SyncAdmitted, Corroborated
    <3> QED
      BY <3>3, <3>4
  <2> QED
    BY <2>1, <2>2
<1> QED
  BY <1>1, Invariance, PTL

-----------------------------------------------------------------------------
(* What the commands do to the tombstone and the phase.  The invariant so  *)
(* far forgets which command a process runs; CommandFacts and OwnFacts     *)
(* remember it, and what the command found when it was admitted.           *)

\* Some slot carries the last sequence number, which classifies as Corrupt.
Exhausted == \E i \in SlotIndex : slots[i].sequence = MaxSequence

\* The published phase, or the numbers ran out with its publication.
StatusIs(phase) == Status = phase \/ (Status = "corrupt" /\ Exhausted)

BeforeRename == {"publish", "prepare", "rename"}
Removing == {"dropMain", "dropSidecars"}
Building == {"openStore", "bulk", "restore", "stamp", "stampCheckpoint", "close"}
Updaters == {"index", "sync", "catchup", "upgrade"}

\* Which command can be at a step, and what it is publishing there.
CommandFacts(p) ==
  /\ pc[p] = "probeInit" => cmd[p] = "init"
  /\ pc[p] \in {"shareLease", "readGate"} => cmd[p] \in {"init", "read", "serve"}
  /\ pc[p] = "reading" => cmd[p] \in {"read", "serve"}
  /\ pc[p] \in {"syncing", "syncClose"} => cmd[p] \in {"sync", "catchup"}
  /\ pc[p] \in Publishing => (goal[p] = "uninitialized" <=> cmd[p] = "uninit")
  /\ pc[p] \in Publishing \union Removing \union Building => cmd[p] \notin {"read", "serve"}
  /\ pc[p] \in Building => cmd[p] # "uninit"
  /\ pc[p] \in {"raiseTombstone", "drain"} => cmd[p] = "uninit"
  /\ pc[p] = "dropTombstone" => cmd[p] = "init"

\* What the command that holds the exclusive lease knows of the namespace: an
\* update was admitted without a tombstone and over a phase that is not
\* Uninitialized, an uninit has published and marked before it deletes.
OwnFacts(p) ==
  /\ pc[p] \in BeforeRename /\ goal[p] = "building" /\ cmd[p] # "init" =>
       Status # "uninitialized"
  /\ pc[p] \in BeforeRename /\ goal[p] = "current" => StatusIs("building")
  /\ pc[p] = "syncDir" => StatusIs(goal[p])
  /\ pc[p] \in Publishing \union Removing \union Building /\ cmd[p] \in Updaters => ~tombstone
  /\ pc[p] \in {"raiseTombstone", "drain"} => StatusIs("uninitialized")
  /\ pc[p] = "drain" => tombstone
  /\ pc[p] \in Removing /\ cmd[p] = "uninit" => StatusIs("uninitialized") /\ tombstone
  /\ pc[p] \in Removing /\ cmd[p] # "uninit" => StatusIs("building")
  /\ pc[p] = "dropSidecars" => main = NoFile
  /\ pc[p] \in Building => StatusIs("building")
  /\ pc[p] = "dropTombstone" => StatusIs("current") /\ Stamped(main) /\ wal = NoFile

CommandInv == IInv /\ \A p \in Procs : CommandFacts(p) /\ OwnFacts(p)

Acts(p) == (\E c \in Commands : Start(p, c)) \/ Step(p) \/ Fail(p) \/ Killed(p)

\* The steps in the groups the proofs go by.
ProbeOrLock(p) ==
  \/ ProbeInit(p) \/ ProbeRebuild(p) \/ ProbeService(p) \/ ProbeUpgrade(p) \/ ProbeUninit(p)
  \/ RecoverProbe(p) \/ RecoverLease(p) \/ RecoverGate(p) \/ RecoverFold(p) \/ RecoverClose(p)
  \/ FindLock(p) \/ MakeLock(p) \/ AcquireLease(p) \/ TimedOut(p) \/ Normalize(p)
Publication(p) ==
  BeginPublish(p) \/ PrepareInactiveSlot(p) \/ RenameTemp(p) \/ EndPublish(p)
Rebuild(p) ==
  \/ DropMain(p) \/ DropSidecars(p) \/ OpenStore(p) \/ BulkWrite(p) \/ BulkDone(p)
  \/ RestorePragmas(p) \/ StampVersion(p) \/ StampCheckpoint(p) \/ CloseStore(p)
Rest(p) ==
  \/ DropTombstone(p) \/ SyncWrite(p) \/ SyncDone(p) \/ SyncClose(p)
  \/ RaiseTombstone(p) \/ Drain(p) \/ AcquireShared(p) \/ ReadGate(p) \/ FinishRead(p)
  \/ Fail(p) \/ Killed(p)

LEMMA ActGroups ==
  ASSUME NEW p \in Procs, Acts(p)
  PROVE  \/ \E c \in Commands : Start(p, c)
         \/ ProbeOrLock(p) \/ Gate(p) \/ Publication(p) \/ Rebuild(p) \/ Rest(p)
BY DEF Acts, Step, ProbeOrLock, Publication, Rebuild, Rest

\* Only the lease holder's label says anything about the namespace.
LEMMA SoleWriter ==
  ASSUME TypeOK, LeaseExclusion, NEW p \in Procs, lease[p] = "exclusive",
         NEW q \in Procs, q # p
  PROVE  pc[q] \notin ExclusiveLabels
BY DEF LeaseExclusion, TypeOK, LeaseAt

LEMMA NothingOwned ==
  ASSUME NEW p \in Procs, pc'[p] \notin ExclusiveLabels
  PROVE  OwnFacts(p)'
BY DEF OwnFacts, ExclusiveLabels, WriterOpen, Publishing, BeforeRename, Removing, Building

LEMMA StatusKept ==
  ASSUME UNCHANGED slots
  PROVE  Status' = Status /\ \A phase : StatusIs(phase)' <=> StatusIs(phase)
BY DEF Status, StatusIs, Exhausted

Unchanging(p) ==
  \A q \in Procs \ {p} : pc'[q] = pc[q] /\ cmd'[q] = cmd[q] /\ goal'[q] = goal[q]

\* A step moves its own process, and changes the namespace under the lease.
LEMMA FrameStep ==
  ASSUME IInv, NEW p \in Procs, Acts(p)
  PROVE  /\ Unchanging(p)
         /\ lease[p] = "exclusive" \/ UNCHANGED <<slots, main, wal, tombstone>>
<1> USE DEF Unchanging, Continue, WithLease, Return, Goto, locals, database
<1>1. CASE \E c \in Commands : Start(p, c)
  BY <1>1 DEF Start, IInv, TypeOK
<1>2. CASE ProbeOrLock(p)
  <2>1. Unchanging(p)
    BY <1>2
       DEF ProbeOrLock, ProbeInit, ProbeRebuild, ProbeService, ProbeUpgrade, ProbeUninit,
           RecoverProbe, RecoverLease, RecoverGate, RecoverFold, RecoverClose, FindLock,
           MakeLock, AcquireLease, TimedOut, Normalize, IInv, TypeOK
  <2>2. \/ pc[p] \in {"recoverGate", "recoverFold", "recoverClose", "normalize"}
        \/ UNCHANGED <<slots, main, wal, tombstone>>
    BY <1>2
       DEF ProbeOrLock, ProbeInit, ProbeRebuild, ProbeService, ProbeUpgrade, ProbeUninit,
           RecoverProbe, RecoverLease, RecoverGate, RecoverFold, RecoverClose, FindLock,
           MakeLock, AcquireLease, TimedOut, Normalize
  <2> QED
    BY <2>1, <2>2, ExclusiveLease DEF IInv, ExclusiveLabels, WriterOpen
<1>3. CASE Gate(p) \/ Publication(p) \/ Rebuild(p)
  <2>1. Unchanging(p)
    BY <1>3
       DEF Gate, Publication, BeginPublish, PrepareInactiveSlot, RenameTemp, EndPublish, Rebuild,
           DropMain, DropSidecars, OpenStore, BulkWrite, BulkDone, RestorePragmas, StampVersion,
           StampCheckpoint, CloseStore, IInv, TypeOK
  <2>2. pc[p] \in ExclusiveLabels
    BY <1>3
       DEF Gate, Publication, BeginPublish, PrepareInactiveSlot, RenameTemp, EndPublish, Rebuild,
           DropMain, DropSidecars, OpenStore, BulkWrite, BulkDone, RestorePragmas, StampVersion,
           StampCheckpoint, CloseStore, ExclusiveLabels, WriterOpen, Publishing
  <2> QED
    BY <2>1, <2>2, ExclusiveLease DEF IInv
<1>4. CASE Rest(p)
  <2>1. Unchanging(p)
    BY <1>4
       DEF Rest, DropTombstone, SyncWrite, SyncDone, SyncClose, RaiseTombstone, Drain,
           AcquireShared, ReadGate, FinishRead, Fail, Killed, IInv, TypeOK
  <2>2. \/ pc[p] \in {"dropTombstone", "syncing", "syncClose", "raiseTombstone", "drain"}
        \/ lease[p] = "exclusive"
        \/ UNCHANGED <<slots, main, wal, tombstone>>
    BY <1>4
       DEF Rest, DropTombstone, SyncWrite, SyncDone, SyncClose, RaiseTombstone, Drain,
           AcquireShared, ReadGate, FinishRead, Fail, Killed
  <2> QED
    BY <2>1, <2>2, ExclusiveLease DEF IInv, ExclusiveLabels, WriterOpen
<1> QED
  BY <1>1, <1>2, <1>3, <1>4, ActGroups

\* The other processes keep their facts.
LEMMA OthersKeep ==
  ASSUME CommandInv, NEW p \in Procs, Acts(p), NEW q \in Procs, q # p
  PROVE  CommandFacts(q)' /\ OwnFacts(q)'
<1>1. pc'[q] = pc[q] /\ cmd'[q] = cmd[q] /\ goal'[q] = goal[q]
  BY FrameStep DEF CommandInv, Unchanging
<1>2. CommandFacts(q)'
  BY <1>1 DEF CommandInv, CommandFacts
<1>3. CASE lease[p] = "exclusive"
  BY <1>1, <1>2, <1>3, SoleWriter, NothingOwned DEF CommandInv, IInv
<1>4. CASE UNCHANGED <<slots, main, wal, tombstone>>
  BY <1>1, <1>2, <1>4, StatusKept DEF CommandInv, OwnFacts
<1> QED
  BY <1>3, <1>4, FrameStep DEF CommandInv

\* The command a process runs fits the step it goes to.
LEMMA CommandStep ==
  ASSUME CommandInv, NEW p \in Procs, Acts(p)
  PROVE  CommandFacts(p)'
<1> USE DEF Continue, WithLease, Return, Goto, locals, CommandFacts, Publishing, Removing,
            Building
<1>1. CASE \E c \in Commands : Start(p, c)
  BY <1>1 DEF Start, CommandInv, IInv, TypeOK
<1>2. CASE ProbeOrLock(p)
  <2>1. CASE ProbeInit(p) \/ ProbeRebuild(p) \/ ProbeService(p) \/ ProbeUpgrade(p) \/ ProbeUninit(p)
    BY <2>1 DEF ProbeInit, ProbeRebuild, ProbeService, ProbeUpgrade, ProbeUninit,
                CommandInv, IInv, TypeOK
  <2>2. CASE RecoverProbe(p) \/ RecoverLease(p)
    BY <2>2 DEF RecoverProbe, RecoverLease, AfterRecovery, CommandInv, IInv, TypeOK
  <2>3. CASE RecoverGate(p) \/ RecoverFold(p) \/ RecoverClose(p)
    BY <2>3 DEF RecoverGate, RecoverFold, RecoverClose, AfterRecovery, CommandInv, IInv, TypeOK
  <2>4. CASE FindLock(p) \/ MakeLock(p) \/ AcquireLease(p) \/ TimedOut(p) \/ Normalize(p)
    BY <2>4 DEF FindLock, MakeLock, AcquireLease, TimedOut, Normalize, CommandInv, IInv, TypeOK
  <2> QED
    BY <1>2, <2>1, <2>2, <2>3, <2>4 DEF ProbeOrLock
<1>3. CASE Gate(p)
  BY <1>3 DEF Gate, RebuildAdmitted, UninitAdmitted, SyncAdmitted, CommandInv, IInv, TypeOK
<1>4. CASE Publication(p)
  BY <1>4 DEF Publication, BeginPublish, PrepareInactiveSlot, RenameTemp, EndPublish,
              CommandInv, IInv, TypeOK, StatePhase
<1>5. CASE Rebuild(p)
  BY <1>5
     DEF Rebuild, DropMain, DropSidecars, OpenStore, BulkWrite, BulkDone, RestorePragmas,
         StampVersion, StampCheckpoint, CloseStore, CommandInv, IInv, TypeOK
<1>6. CASE Rest(p)
  BY <1>6
     DEF Rest, DropTombstone, SyncWrite, SyncDone, SyncClose, RaiseTombstone, Drain,
         AcquireShared, ReadGate, FinishRead, Fail, Killed, AfterRecovery,
         CommandInv, IInv, TypeOK
<1> QED
  BY <1>1, <1>2, <1>3, <1>4, <1>5, <1>6, ActGroups

\* A rename publishes the phase it was asked for, or the last sequence number.
LEMMA RenamePublishes ==
  ASSUME IInv, NEW p \in Procs, RenameTemp(p)
  PROVE  StatusIs(goal[p])'
<1>1. pc[p] = "rename"
  BY DEF RenameTemp
<1>2. /\ slots \in SlotPairs /\ goal[p] \in StatePhase
      /\ Classify(slots) \notin {"corrupt", "future"}
      /\ slots[SuccessorSlot(slots)] = Absent
  BY <1>1 DEF IInv, TypeOK, StepFacts, SlotPairs, Status
<1>3. slots' = Replaced(slots, goal[p]) /\ UNCHANGED goal
  BY DEF RenameTemp, Replaced, Continue, locals
<1>4. /\ slots' \in SlotPairs /\ Status' \in {goal[p], "corrupt"}
      /\ slots'[SuccessorSlot(slots)].sequence < MaxSequence => Status' = goal[p]
  BY <1>2, <1>3, ReplacedPublishes DEF Status
<1>5. SuccessorSlot(slots) \in SlotIndex
  BY SlotChoiceTyped
<1>6. slots'[SuccessorSlot(slots)].sequence \in 0..MaxSequence
  BY <1>4, <1>5 DEF SlotPairs, WireSlot
<1> QED
  BY <1>3, <1>4, <1>5, <1>6, MaxSequenceAssumption DEF StatusIs, Exhausted

\* Clearing the slot to be replaced changes nothing that is published.
LEMMA PrepareKeeps ==
  ASSUME IInv, NEW p \in Procs, PrepareInactiveSlot(p)
  PROVE  /\ Status' = Status
         /\ \A phase : StatusIs(phase) => StatusIs(phase)'
<1>1. pc[p] = "prepare"
  BY DEF PrepareInactiveSlot
<1>2. Publishable(slots, goal[p]) /\ slots \in SlotPairs
  BY <1>1 DEF IInv, TypeOK, StepFacts, SlotPairs
<1>3. slots' = Cleared(slots)
  BY DEF PrepareInactiveSlot, Cleared
<1>4. Status' = Status
  BY <1>2, <1>3, ClearedKeeps DEF Status
<1>5. Status # "corrupt"
  BY <1>2 DEF Publishable, Status
<1> QED
  BY <1>4, <1>5 DEF StatusIs

\* What a process establishes with its own steps.
LEMMA OwnStep ==
  ASSUME CommandInv, NEW p \in Procs, Acts(p)
  PROVE  OwnFacts(p)'
<1> USE DEF Continue, WithLease, Return, Goto, locals, database
<1>1. CASE \E c \in Commands : Start(p, c)
  <2>1. pc'[p] \notin ExclusiveLabels
    BY <1>1
       DEF Start, CommandInv, IInv, TypeOK, ExclusiveLabels, WriterOpen, Publishing
  <2> QED
    BY <2>1, NothingOwned
<1>2. CASE ProbeOrLock(p)
  <2> DEFINE Owning == Publishing \union Removing \union Building
                         \union {"raiseTombstone", "drain", "dropTombstone"}
  <2>1. pc'[p] \notin Owning
    <3> USE DEF Publishing, Removing, Building, CommandInv, IInv, TypeOK
    <3>1. CASE ProbeInit(p) \/ ProbeRebuild(p) \/ ProbeService(p) \/ ProbeUpgrade(p)
               \/ ProbeUninit(p)
      BY <3>1 DEF ProbeInit, ProbeRebuild, ProbeService, ProbeUpgrade, ProbeUninit
    <3>2. CASE RecoverProbe(p) \/ RecoverLease(p)
      BY <3>2 DEF RecoverProbe, RecoverLease, AfterRecovery
    <3>3. CASE RecoverGate(p) \/ RecoverFold(p) \/ RecoverClose(p)
      BY <3>3 DEF RecoverGate, RecoverFold, RecoverClose, AfterRecovery
    <3>4. CASE FindLock(p) \/ MakeLock(p) \/ AcquireLease(p) \/ TimedOut(p) \/ Normalize(p)
      BY <3>4 DEF FindLock, MakeLock, AcquireLease, TimedOut, Normalize
    <3> QED
      BY <1>2, <3>1, <3>2, <3>3, <3>4 DEF ProbeOrLock
  <2> QED
    BY <2>1 DEF OwnFacts, BeforeRename, Publishing, Removing, Building
<1>3. CASE Gate(p)
  <2>1. Status' = Status
    BY <1>3, StatusKept DEF Gate
  <2> QED
    BY <1>3, <2>1
       DEF Gate, RebuildAdmitted, UninitAdmitted, SyncAdmitted, CommandInv, IInv, TypeOK,
           OwnFacts, BeforeRename, Publishing, Removing, Building, Updaters
<1>4. CASE BeginPublish(p)
  BY <1>4, StatusKept
     DEF BeginPublish, CommandInv, IInv, TypeOK, OwnFacts, BeforeRename, Publishing, Removing,
         Building
<1>5. CASE PrepareInactiveSlot(p)
  <2>1. /\ Status' = Status
        /\ \A phase : StatusIs(phase) => StatusIs(phase)'
    BY <1>5, PrepareKeeps DEF CommandInv
  <2> QED
    BY <1>5, <2>1
       DEF PrepareInactiveSlot, CommandInv, IInv, TypeOK, OwnFacts, BeforeRename, Publishing,
           Removing, Building
<1>6. CASE RenameTemp(p)
  <2>1. StatusIs(goal[p])'
    BY <1>6, RenamePublishes DEF CommandInv
  <2> QED
    BY <1>6, <2>1
       DEF RenameTemp, CommandInv, IInv, TypeOK, OwnFacts, BeforeRename, Publishing,
           Removing, Building
<1>7. CASE EndPublish(p)
  BY <1>7, StatusKept
     DEF EndPublish, CommandInv, CommandFacts, IInv, TypeOK, StatePhase, StepFacts, OwnFacts,
         BeforeRename, Publishing, Removing, Building, Updaters
<1>8. CASE Rebuild(p)
  BY <1>8, StatusKept
     DEF Rebuild, DropMain, DropSidecars, OpenStore, BulkWrite, BulkDone, RestorePragmas,
         StampVersion, StampCheckpoint, CloseStore, CommandInv, CommandFacts, IInv, TypeOK,
         OwnFacts, BeforeRename, Publishing, Removing, Building, Updaters
<1>9. CASE Rest(p)
  BY <1>9, StatusKept
     DEF Rest, DropTombstone, SyncWrite, SyncDone, SyncClose, RaiseTombstone, Drain,
         AcquireShared, ReadGate, FinishRead, Fail, Killed, AfterRecovery, CommandInv,
         CommandFacts, IInv, TypeOK, OwnFacts, BeforeRename, Publishing, Removing, Building,
         Updaters
<1> QED
  BY <1>1, <1>2, <1>3, <1>4, <1>5, <1>6, <1>7, <1>8, <1>9, ActGroups DEF Publication

LEMMA CommandInvStep == CommandInv /\ [Next]_vars => CommandInv'
<1> SUFFICES ASSUME CommandInv, [Next]_vars PROVE CommandInv'
  OBVIOUS
<1>1. IInv'
  BY IInvStep DEF CommandInv
<1>2. ASSUME NEW p \in Procs, Acts(p) PROVE CommandInv'
  BY <1>1, <1>2, OthersKeep, CommandStep, OwnStep DEF CommandInv
<1>3. CASE RemoveDirectory
  <2>1. ASSUME NEW p \in Procs PROVE CommandFacts(p)' /\ OwnFacts(p)'
    <3>1. pc'[p] = pc[p] /\ cmd'[p] = cmd[p] /\ goal'[p] = goal[p] /\ LeaseAt(pc[p]) = "none"
      BY <1>3 DEF RemoveDirectory, CommandInv, IInv, TypeOK, locals
    <3>2. pc'[p] \notin ExclusiveLabels
      BY <3>1 DEF LeaseAt
    <3> QED
      BY <3>1, <3>2, NothingOwned DEF CommandInv, CommandFacts
  <2> QED
    BY <1>1, <2>1 DEF CommandInv
<1>4. CASE UNCHANGED vars
  BY <1>1, <1>4 DEF vars, CommandInv, CommandFacts, OwnFacts, StatusIs, Status, Exhausted
<1> QED
  BY <1>2, <1>3, <1>4 DEF Next, Acts

LEMMA CommandInvariance == Spec => []CommandInv
<1>1. Init => CommandInv
  BY IInvInit
     DEF Init, CommandInv, CommandFacts, OwnFacts, BeforeRename, Publishing, Removing, Building
<1> QED
  BY <1>1, CommandInvStep, PTL DEF Spec

-----------------------------------------------------------------------------
(* The action properties.                                                  *)

\* Only a rename or the removal of the directory takes a namespace out of
\* Uninitialized, and the rename is an init's.
LEMMA StatusStep ==
  ASSUME CommandInv, Next, Status = "uninitialized", Status' \notin {"uninitialized", "corrupt"}
  PROVE  \/ root' = "absent"
         \/ \E p \in Procs : cmd[p] = "init" /\ lease[p] = "exclusive"
<1>1. CASE RemoveDirectory
  BY <1>1 DEF RemoveDirectory
<1>2. ASSUME NEW p \in Procs, Acts(p)
      PROVE  cmd[p] = "init" /\ lease[p] = "exclusive"
  <2>1. ~UNCHANGED slots
    BY DEF Status
  <2>2. Normalize(p) \/ PrepareInactiveSlot(p) \/ RenameTemp(p)
    BY <1>2, <2>1, ActGroups
       DEF Start, ProbeOrLock, ProbeInit, ProbeRebuild, ProbeService, ProbeUpgrade, ProbeUninit,
           RecoverProbe, RecoverLease, RecoverGate, RecoverFold, RecoverClose, FindLock,
           MakeLock, AcquireLease, TimedOut, Gate, Publication, BeginPublish, EndPublish, Rebuild,
           DropMain, DropSidecars, OpenStore, BulkWrite, BulkDone, RestorePragmas, StampVersion,
           StampCheckpoint, CloseStore, Rest, DropTombstone, SyncWrite, SyncDone, SyncClose,
           RaiseTombstone, Drain, AcquireShared, ReadGate, FinishRead, Fail, Killed
  <2>3. ~Normalize(p)
    <3>1. SUFFICES ASSUME OwnerMismatchOnly PROVE FALSE
      BY <2>1 DEF Normalize
    <3>2. PICK i \in SlotIndex : SlotOutcome(slots[i]) = "ownerMismatch"
      BY <3>1 DEF OwnerMismatchOnly, Mismatched
    <3>3. Invalid(slots[i])
      BY <3>2 DEF Invalid
    <3> QED
      BY <3>2, <3>3 DEF Status, Classify
  <2>4. ~PrepareInactiveSlot(p)
    BY PrepareKeeps DEF CommandInv
  <2>5. RenameTemp(p) /\ pc[p] = "rename" /\ goal'[p] = goal[p] /\ goal[p] \in StatePhase
    BY <2>2, <2>3, <2>4 DEF RenameTemp, Continue, locals, CommandInv, IInv, TypeOK
  <2>6. Status' = goal[p]
    BY <2>5, RenamePublishes DEF CommandInv, StatusIs
  <2>7. ~StatusIs("building")
    BY DEF StatusIs
  <2>8. goal[p] = "building"
    BY <2>5, <2>6, <2>7 DEF StatePhase, CommandInv, OwnFacts, BeforeRename
  <2>9. cmd[p] = "init"
    BY <2>5, <2>8 DEF CommandInv, OwnFacts, BeforeRename
  <2> QED
    BY <2>5, <2>9, ExclusiveLease DEF CommandInv, IInv, ExclusiveLabels, Publishing
<1> QED
  BY <1>1, <1>2 DEF Next, Acts

\* An uninitialized namespace is revived by an explicit init or by removing
\* the directory, and by nothing else: no index, sync, catch-up or upgrade
\* publishes over it, however long before the uninit it was started.
THEOREM InitAloneRevives == Spec => OnlyInitRevives
<1>1. CommandInv /\ [Next]_vars =>
        [ Status = "uninitialized" /\ Status' \notin {"uninitialized", "corrupt"} =>
            \/ root' = "absent"
            \/ \E p \in Procs : cmd[p] = "init" /\ lease[p] = "exclusive" ]_vars
  BY StatusStep
<1> QED
  BY <1>1, CommandInvariance, PTL DEF Spec, OnlyInitRevives

\* The numbers have not run out: 2^64 publications away in the code, beyond
\* which the publisher refuses and the namespace is classified Corrupt.
SequencesRemain == ~Exhausted

\* The one step of a command that clears the marker is the last of an init,
\* over the Current it has published.
LEMMA TombstoneStep ==
  ASSUME CommandInv, SequencesRemain, Next, tombstone, ~tombstone'
  PROVE  \/ root' = "absent"
         \/ Readable' /\ \E p \in Procs : cmd[p] = "init" /\ lease[p] = "exclusive"
<1>1. CASE RemoveDirectory
  BY <1>1 DEF RemoveDirectory
<1>2. ASSUME NEW p \in Procs, Acts(p)
      PROVE  Readable' /\ cmd[p] = "init" /\ lease[p] = "exclusive"
  <2>1. DropTombstone(p)
    BY <1>2, ActGroups
       DEF Start, ProbeOrLock, ProbeInit, ProbeRebuild, ProbeService, ProbeUpgrade, ProbeUninit,
           RecoverProbe, RecoverLease, RecoverGate, RecoverFold, RecoverClose, FindLock,
           MakeLock, AcquireLease, TimedOut, Normalize, Gate, Publication, BeginPublish,
           PrepareInactiveSlot, RenameTemp, EndPublish, Rebuild,
           DropMain, DropSidecars, OpenStore, BulkWrite, BulkDone, RestorePragmas, StampVersion,
           StampCheckpoint, CloseStore, Rest, SyncWrite, SyncDone, SyncClose,
           RaiseTombstone, Drain, AcquireShared, ReadGate, FinishRead, Fail, Killed
  <2>2. Status = "current" /\ Stamped(main) /\ wal = NoFile /\ cmd[p] = "init"
    BY <2>1 DEF DropTombstone, CommandInv, CommandFacts, OwnFacts, StatusIs, SequencesRemain
  <2>3. lease[p] = "exclusive"
    BY <2>1, ExclusiveLease DEF DropTombstone, CommandInv, IInv, ExclusiveLabels
  <2>4. Readable'
    BY <2>1, <2>2 DEF DropTombstone, database, Readable, Corroborated, Status, Stamped, Finished,
                      NoFile
  <2> QED
    BY <2>2, <2>3, <2>4
<1> QED
  BY <1>1, <1>2 DEF Next, Acts

\* The uninit marker outlives every rebuild but a finished init: it goes with
\* the directory, or when an init that holds the lease has made the namespace
\* readable.
THEOREM MarkerOutlivesRebuild == Spec /\ []SequencesRemain => TombstoneOutlivesRebuild
<1>1. CommandInv /\ SequencesRemain /\ [Next]_vars =>
        [ tombstone /\ ~tombstone' =>
            \/ root' = "absent"
            \/ Readable' /\ \E p \in Procs : cmd[p] = "init" /\ lease[p] = "exclusive" ]_vars
  BY TombstoneStep
<1> QED
  BY <1>1, CommandInvariance, PTL DEF Spec, TombstoneOutlivesRebuild

\* The steps with which a command can end in success.
LEMMA SuccessSteps ==
  ASSUME IInv, Next, NEW p \in Procs, Succeeds(p)
  PROVE  \/ EndPublish(p) \/ DropSidecars(p) \/ DropTombstone(p) \/ SyncClose(p)
         \/ ReadGate(p) \/ FinishRead(p)
<1> USE DEF Succeeds, Ended
<1>1. ~RemoveDirectory
  BY DEF RemoveDirectory
<1>2. Acts(p)
  <2>1. PICK q \in Procs : Acts(q)
    BY <1>1 DEF Next, Acts
  <2> QED
    BY <2>1, FrameStep DEF Unchanging
<1>3. ~\E c \in Commands : Start(p, c)
  BY DEF Start
<1>4. ~ProbeOrLock(p) /\ ~Gate(p)
  BY DEF ProbeOrLock, ProbeInit, ProbeRebuild, ProbeService, ProbeUpgrade, ProbeUninit,
         RecoverProbe, RecoverLease, RecoverGate, RecoverFold, RecoverClose, FindLock,
         MakeLock, AcquireLease, TimedOut, Normalize, Gate, AfterRecovery,
         Continue, WithLease, Return, Goto, locals, IInv, TypeOK
<1>5. Publication(p) \/ Rebuild(p) => EndPublish(p) \/ DropSidecars(p)
  BY DEF Publication, BeginPublish, PrepareInactiveSlot, RenameTemp, Rebuild, DropMain,
         OpenStore, BulkWrite, BulkDone, RestorePragmas, StampVersion, StampCheckpoint,
         CloseStore, Continue, Return, Goto, locals, IInv, TypeOK
<1>6. Rest(p) => DropTombstone(p) \/ SyncClose(p) \/ ReadGate(p) \/ FinishRead(p)
  BY DEF Rest, SyncWrite, SyncDone, RaiseTombstone, Drain, AcquireShared, Fail, Killed,
         AfterRecovery, Continue, WithLease, Return, Goto, locals, IInv, TypeOK
<1> QED
  BY <1>2, <1>3, <1>4, <1>5, <1>6, ActGroups

LEMMA SuccessStep ==
  ASSUME CommandInv, SequencesRemain, Next, NEW p \in Procs, Succeeds(p)
  PROVE  /\ cmd[p] \in {"init", "index", "sync", "catchup", "upgrade"} => Readable'
         /\ cmd[p] = "uninit" => Status' = "uninitialized" /\ tombstone' /\ ~DatabaseArtifact'
<1>1. ASSUME Status' = "current", Stamped(main'), wal' = NoFile, ~tombstone'
      PROVE  Readable'
  BY <1>1 DEF Readable, Corroborated, Stamped, Finished, NoFile
<1>2. CASE EndPublish(p)
  <2>1. pc[p] = "syncDir" /\ UNCHANGED <<slots, main, wal, tombstone>>
    BY <1>2 DEF EndPublish, database
  <2>2. goal[p] = "current" /\ cmd[p] # "init"
    BY <1>2, <2>1
       DEF EndPublish, Succeeds, Continue, Goto, CommandInv, IInv, TypeOK, StatePhase
  <2>3. Status = "current" /\ Stamped(main) /\ wal = NoFile
    BY <2>1, <2>2
       DEF CommandInv, IInv, StepFacts, OwnFacts, StatusIs, SequencesRemain, Publishing
  <2>4. cmd[p] \in Updaters /\ ~tombstone
    BY <2>1, <2>2
       DEF CommandInv, IInv, TypeOK, Commands, CommandFacts, OwnFacts, Publishing, Updaters
  <2> QED
    BY <1>1, <2>1, <2>3, <2>4, StatusKept DEF Updaters
<1>3. CASE DropSidecars(p)
  <2>1. cmd[p] = "uninit" /\ pc[p] = "dropSidecars"
    BY <1>3 DEF DropSidecars, Succeeds, Continue, Goto, CommandInv, IInv, TypeOK
  <2>2. Status = "uninitialized" /\ tombstone /\ main = NoFile
    BY <2>1 DEF CommandInv, OwnFacts, StatusIs, SequencesRemain, Removing
  <2> QED
    BY <1>3, <2>1, <2>2, StatusKept DEF DropSidecars, DatabaseArtifact
<1>4. CASE DropTombstone(p)
  <2>1. Status = "current" /\ Stamped(main) /\ wal = NoFile /\ cmd[p] = "init"
    BY <1>4 DEF DropTombstone, CommandInv, CommandFacts, OwnFacts, StatusIs, SequencesRemain
  <2> QED
    BY <1>1, <1>4, <2>1, StatusKept DEF DropTombstone, database
<1>5. CASE SyncClose(p)
  <2>1. pc[p] = "syncClose" /\ cmd[p] \in {"sync", "catchup"}
    BY <1>5 DEF SyncClose, CommandInv, CommandFacts
  <2>2. Status = "current" /\ wal # NoFile /\ ~tombstone /\ Stamped(wal)
    BY <2>1 DEF CommandInv, IInv, StepFacts, Updating, DatabaseSound
  <2> QED
    BY <1>1, <1>5, <2>1, <2>2, StatusKept DEF SyncClose, CloseWriter
<1>6. CASE ReadGate(p)
  <2>1. /\ UNCHANGED <<slots, main, wal, tombstone>>
        /\ Readable /\ cmd[p] = "init"
    BY <1>6 DEF ReadGate, database, Succeeds, Continue, WithLease, Return, Goto, CommandInv,
                IInv, TypeOK
  <2> QED
    BY <2>1, StatusKept DEF Readable, Corroborated
<1>7. CASE FinishRead(p)
  BY <1>7 DEF FinishRead, CommandInv, CommandFacts
<1> QED
  BY <1>2, <1>3, <1>4, <1>5, <1>6, <1>7, SuccessSteps DEF CommandInv

\* A reported success is real: while sequence numbers remain, the step with
\* which init, index, sync, catch-up or upgrade reports success leaves a
\* readable index, and uninit's leaves an Uninitialized, marked namespace
\* without a database file, whatever the other processes were doing.
THEOREM ReportedSuccess == Spec /\ []SequencesRemain => SuccessIsReal
<1>1. CommandInv /\ SequencesRemain /\ [Next]_vars =>
        [ \A p \in Procs :
            /\ Succeeds(p) /\ cmd[p] \in {"init", "index", "sync", "catchup", "upgrade"} => Readable'
            /\ Succeeds(p) /\ cmd[p] = "uninit" =>
                 Status' = "uninitialized" /\ tombstone' /\ ~DatabaseArtifact' ]_vars
  BY SuccessStep
<1> QED
  BY <1>1, CommandInvariance, PTL DEF Spec, SuccessIsReal

=============================================================================
