--------------------------- MODULE IndexNamespace ---------------------------
(***************************************************************************)
(* The life of one index namespace: the commands that read, build, update, *)
(* upgrade, repair and remove it, run by several processes at once, with   *)
(* an I/O error or a kill possible between any two of their file           *)
(* operations.                                                             *)
(*                                                                         *)
(*   init, index      codegraph-store/src/rebuild.rs (begin_full_rebuild,  *)
(*                    ActiveFullRebuild::finish), codegraph-cli cmd_init,  *)
(*                    cmd_index                                            *)
(*   sync, catchup    codegraph-watch/src/sync.rs, migrate.rs              *)
(*   upgrade          upgrade_outdated_index_once (a starting daemon)      *)
(*   serve, read      Store::open_for_read; serve repairs sidecars first   *)
(*   uninit           codegraph-store/src/uninit.rs                        *)
(*                                                                         *)
(* The state gate of connection.rs decides, under the lease, what each may *)
(* do.  Leases are atomic here (IndexLease shows how the lock file makes   *)
(* them so); a publication is its two visible directory operations         *)
(* (StatePublisher has all of them).  SQLite is external: the main file    *)
(* and the write-ahead log are two contents, a checkpoint copies the log   *)
(* into the main file, closing the last connection also removes the log.   *)
(***************************************************************************)
EXTENDS IndexState

CONSTANTS Procs,              \* processes running commands
          InitialNamespaces,  \* what the program may find on disk
          SequenceBound,      \* bound: no writer starts beyond this sequence
          MaxRemovals         \* bound: times the user deletes the directory

VARIABLES
  root,       \* "absent", "lockless" (directory without its lock), "locked"
  slots,      \* the two state slots
  main,       \* content of the main database file
  wal,        \* content once the write-ahead log is applied, NoFile without one
  tombstone,  \* the uninit marker
  pc, cmd,    \* per process: next step and command
  goal,       \* per process: the phase it is publishing
  lease,      \* per process: "none", "shared", "exclusive"
  snapshot,   \* per process: the database image a reader serves
  removals    \* directory removals so far

vars == <<root, slots, main, wal, tombstone, pc, cmd, goal, lease, snapshot, removals>>
database == <<main, wal>>
locals == <<cmd, goal, snapshot, lease>>

-----------------------------------------------------------------------------
(* Data.                                                                   *)

\* How much of the project a database file holds: a fresh schema, an
\* unfinished build, a finished one, or a finished one with an unfinished
\* incremental update; and the extraction version it is stamped with.
Rows == {"nofile", "empty", "partial", "complete", "midsync"}
Content == [rows : Rows, stamp : Nat]
NoFile == [rows |-> "nofile", stamp |-> 0]
FreshSchema == [rows |-> "empty", stamp |-> 0]

Commands == {"init", "index", "sync", "catchup", "upgrade", "uninit", "serve", "read"}
Ended == {"idle", "ok", "refused"}
Publishing == {"publish", "prepare", "rename", "syncDir"}
WriterOpen == {"bulk", "restore", "stamp", "stampCheckpoint", "close",
               "syncing", "syncClose", "recoverFold", "recoverClose"}
Labels == Ended \union Publishing \union WriterOpen \union
          {"probeInit", "probeRebuild", "probeService", "probeUpgrade", "probeUninit",
           "recoverProbe", "recoverLease", "recoverGate",
           "lock", "makeLock", "lease", "takeoverLease", "normalize", "gate",
           "shareLease", "readGate", "reading",
           "dropMain", "dropSidecars", "openStore", "dropTombstone",
           "raiseTombstone", "drain"}

\* The lease a process holds at each step.
ExclusiveLabels ==
  Publishing \union WriterOpen \union
    {"recoverGate", "normalize", "gate", "dropMain", "dropSidecars", "openStore",
     "dropTombstone", "raiseTombstone", "drain"}
LeaseAt(l) == IF l \in ExclusiveLabels THEN "exclusive"
              ELSE IF l \in {"readGate", "reading"} THEN "shared" ELSE "none"

Namespaces == [root : {"absent", "lockless", "locked"}, slots : [SlotIndex -> WireSlot],
               main : Content, wal : Content, tombstone : BOOLEAN]

\* A finished index: every row, and the stamp of this binary's extraction.
Finished == {"complete", "midsync"}
Stamped(c) == c.rows \in Finished /\ c.stamp = CURRENT_EXTRACTION_VERSION

\* What an earlier run of the program leaves: if it published Current, then
\* over a finished database, and a log beside it applies to a finished one.
SoundNamespace(n) ==
  Classify(n.slots) = "current" =>
    /\ Stamped(n.main)
    /\ n.wal # NoFile => Stamped(n.wal) /\ ~n.tombstone

ASSUME IndexNamespaceAssumption ==
  /\ InitialNamespaces \subseteq Namespaces
  /\ \A n \in InitialNamespaces : SoundNamespace(n)
  /\ SequenceBound \in Nat /\ MaxRemovals \in Nat

\* Types, and that every step that touches slots, database or tombstone runs
\* under the exclusive lease, every read of the database under a shared one.
TypeOK ==
  /\ root \in {"absent", "lockless", "locked"}
  /\ slots \in [SlotIndex -> WireSlot]
  /\ main \in Content /\ wal \in Content
  /\ tombstone \in BOOLEAN
  /\ pc \in [Procs -> Labels]
  /\ cmd \in [Procs -> Commands]
  /\ goal \in [Procs -> StatePhase]
  /\ lease = [p \in Procs |-> LeaseAt(pc[p])]
  /\ snapshot \in [Procs -> Content]
  /\ removals \in 0..MaxRemovals

Init ==
  /\ \E n \in InitialNamespaces :
       /\ root = n.root /\ slots = n.slots /\ main = n.main
       /\ wal = n.wal /\ tombstone = n.tombstone
  /\ pc = [p \in Procs |-> "idle"]
  /\ cmd = [p \in Procs |-> "read"]
  /\ goal = [p \in Procs |-> "building"]
  /\ lease = [p \in Procs |-> "none"]
  /\ snapshot = [p \in Procs |-> NoFile]
  /\ removals = 0

Status == Classify(slots)

\* first_existing_database_artifact
DatabaseArtifact == main # NoFile \/ wal # NoFile

\* corroborate_current_database_options: presence, sidecars, tombstone, stamp.
Corroborated(allowTombstone, allowSidecar) ==
  /\ allowTombstone \/ ~tombstone
  /\ main # NoFile
  /\ allowSidecar \/ wal = NoFile
  /\ main.stamp = CURRENT_EXTRACTION_VERSION

\* open_for_read's verdict under the shared lease.
Readable == Status = "current" /\ Corroborated(FALSE, FALSE)

-----------------------------------------------------------------------------
(* Steps.                                                                  *)

Goto(p, l) == pc' = [pc EXCEPT ![p] = l]

Continue(p, l) == Goto(p, l) /\ UNCHANGED locals

\* Go on with the given lease, or without one.
WithLease(p, l, mode) ==
  /\ Goto(p, l)
  /\ lease' = [lease EXCEPT ![p] = mode]
  /\ UNCHANGED <<cmd, goal, snapshot>>

\* The command ends: "ok", "refused" by a state check, or "idle" after an
\* error or a kill.  Its lease clones are dropped and its locals are gone.
Return(p, how) ==
  /\ Goto(p, how)
  /\ lease' = [lease EXCEPT ![p] = "none"]
  /\ cmd' = [cmd EXCEPT ![p] = "read"]
  /\ goal' = [goal EXCEPT ![p] = "building"]
  /\ snapshot' = [snapshot EXCEPT ![p] = NoFile]

\* Mutant: readers do not block a writer.
ExclusiveFreeOfWriters(p) == \A q \in Procs \ {p} : lease[q] # "exclusive"

ExclusiveFree(p) == \A q \in Procs \ {p} : lease[q] = "none"
SharedFree(p) == \A q \in Procs \ {p} : lease[q] # "exclusive"

\* A probe without a lease may overlap a publication and read it torn.
PublicationInFlight == \E q \in Procs : pc[q] \in Publishing

Start(p, c) ==
  /\ pc[p] \in Ended
  /\ c \notin {"read", "serve"} => Authority(slots).sequence < SequenceBound
  /\ Goto(p, CASE c = "init" -> "probeInit"
               [] c = "catchup" -> "probeService"
               [] c = "upgrade" -> "probeUpgrade"
               [] c = "uninit" -> "probeUninit"
               [] c = "read" -> "shareLease"
               [] c = "serve" -> "recoverProbe"
               [] OTHER -> "probeRebuild")
  /\ cmd' = [cmd EXCEPT ![p] = c]
  /\ UNCHANGED <<root, slots, database, tombstone, goal, snapshot, lease, removals>>

\* explicit_init_observes_readable_current: a Current namespace is opened for
\* reading first, anything else goes on to the rebuild.
ProbeInit(p) ==
  /\ pc[p] = "probeInit"
  /\ \/ (Status = "current" \/ PublicationInFlight) /\ Continue(p, "shareLease")
     \/ (Status # "current" \/ PublicationInFlight) /\ Continue(p, "lock")
  /\ UNCHANGED <<root, slots, database, tombstone, removals>>

\* Every present slot belongs to another project: a copied directory.
Mismatched == {i \in SlotIndex : SlotOutcome(slots[i]) = "ownerMismatch"}
OwnerMismatchOnly ==
  Mismatched # {} /\ \A i \in SlotIndex \ Mismatched : slots[i] = Absent

\* resolve_required_rebuild_project: index and sync work on a namespace that
\* holds a state slot or a database; sync refuses a database without state and
\* a copied directory outright.
Discoverable(c) ==
  /\ Status # "missing" \/ main # NoFile
  /\ c = "sync" => Status # "missing" /\ ~OwnerMismatchOnly

ProbeRebuild(p) ==
  /\ pc[p] = "probeRebuild"
  /\ \/ (Discoverable(cmd[p]) \/ PublicationInFlight) /\ Continue(p, "recoverProbe")
     \/ (~Discoverable(cmd[p]) \/ PublicationInFlight) /\ Return(p, "refused")
  /\ UNCHANGED <<root, slots, database, tombstone, removals>>

\* live_service_root: a directory and a database file.
ProbeService(p) ==
  /\ pc[p] = "probeService"
  /\ IF root # "absent" /\ main # NoFile
     THEN Continue(p, "lock")
     ELSE Return(p, "refused")
  /\ UNCHANGED <<root, slots, database, tombstone, removals>>

\* upgrade_outdated_index_for_daemon's lock-free first look.
ProbeUpgrade(p) ==
  /\ pc[p] = "probeUpgrade"
  /\ \/ (Status = "outdated" \/ PublicationInFlight) /\ Continue(p, "lock")
     \/ (Status # "outdated" \/ PublicationInFlight) /\ Return(p, "refused")
  /\ UNCHANGED <<root, slots, database, tombstone, removals>>

UninitStates == {"current", "building", "uninitialized", "outdated"}

\* uninit_index_with's visible status.
ProbeUninit(p) ==
  /\ pc[p] = "probeUninit"
  /\ \/ (Status \in UninitStates \/ PublicationInFlight) /\ Continue(p, "lock")
     \/ (Status \notin UninitStates \/ PublicationInFlight) /\ Return(p, "refused")
  /\ UNCHANGED <<root, slots, database, tombstone, removals>>

-----------------------------------------------------------------------------
(* recover_dead_owner_sidecars: opportunistic, its failures are logged and *)
(* the command goes on.                                                    *)

AfterRecovery(p) == IF cmd[p] = "serve" THEN "shareLease" ELSE "lock"

\* The daemon of the pid record may be alive, or there is nothing to fold.
RecoverProbe(p) ==
  /\ pc[p] = "recoverProbe"
  /\ \/ Continue(p, AfterRecovery(p))
     \/ /\ Status = "current" \/ PublicationInFlight
        /\ ~tombstone
        /\ wal # NoFile
        /\ Continue(p, "recoverLease")
  /\ UNCHANGED <<root, slots, database, tombstone, removals>>

RecoverLease(p) ==
  /\ pc[p] = "recoverLease"
  /\ IF root = "locked" /\ ExclusiveFree(p)
     THEN WithLease(p, "recoverGate", "exclusive")
     ELSE Continue(p, AfterRecovery(p))
  /\ UNCHANGED <<root, slots, database, tombstone, removals>>

\* Opening for StaleSidecarRecovery: the log, if any, comes into use.
OpenWriter == wal' = (IF wal = NoFile THEN main ELSE wal) /\ UNCHANGED main

RecoverGate(p) ==
  /\ pc[p] = "recoverGate"
  /\ IF Status = "current" /\ Corroborated(FALSE, TRUE)
     THEN Continue(p, "recoverFold") /\ OpenWriter
     ELSE WithLease(p, AfterRecovery(p), "none") /\ UNCHANGED database
  /\ UNCHANGED <<root, slots, tombstone, removals>>

Checkpoint == main' = wal /\ UNCHANGED wal

RecoverFold(p) ==
  /\ pc[p] = "recoverFold"
  /\ Checkpoint
  /\ Continue(p, "recoverClose")
  /\ UNCHANGED <<root, slots, tombstone, removals>>

\* Closing the connection and remove_checkpointed_sidecars.
CloseWriter == main' = wal /\ wal' = NoFile

RecoverClose(p) ==
  /\ pc[p] = "recoverClose"
  /\ CloseWriter
  /\ WithLease(p, AfterRecovery(p), "none")
  /\ UNCHANGED <<root, slots, tombstone, removals>>

-----------------------------------------------------------------------------
(* The exclusive lease: acquire_or_create_exclusive and, for a rebuild,    *)
(* acquire_outer_exclusive.                                                *)

Creates(p) == cmd[p] \in {"init", "index", "sync", "catchup"}
Rebuilds(p) == cmd[p] \in {"init", "index"}

FindLock(p) ==
  /\ pc[p] = "lock"
  /\ CASE root = "locked" -> Continue(p, "lease") /\ UNCHANGED root
       [] root = "absent" /\ Creates(p) -> Continue(p, "makeLock") /\ root' = "lockless"
       [] root = "lockless" /\ Rebuilds(p) /\ Status = "missing" ->
            Continue(p, "takeoverLease") /\ root' = "locked"
       [] OTHER -> Return(p, "refused") /\ UNCHANGED root
  /\ UNCHANGED <<slots, database, tombstone, removals>>

\* create_new of the lock in the new directory: a takeover may have been first.
MakeLock(p) ==
  /\ pc[p] = "makeLock"
  /\ IF root = "lockless"
     THEN Continue(p, "lease") /\ root' = "locked"
     ELSE Return(p, "refused") /\ UNCHANGED root
  /\ UNCHANGED <<slots, database, tombstone, removals>>

AcquireLease(p) ==
  /\ pc[p] \in {"lease", "takeoverLease"}
  /\ IF root # "locked"
     THEN Return(p, "refused")
     ELSE /\ ExclusiveFree(p)
          /\ IF pc[p] = "takeoverLease" /\ Status # "missing"
             THEN Return(p, "refused")
             ELSE WithLease(p, IF cmd[p] = "init" THEN "normalize" ELSE "gate", "exclusive")
  /\ UNCHANGED <<root, slots, database, tombstone, removals>>

\* Mutant: a contended acquisition waits for ever.
TimedOutNever(p) == FALSE /\ UNCHANGED <<vars, p>>

\* The deadline of a contended acquisition passes.
TimedOut(p) ==
  /\ \/ pc[p] \in {"lease", "takeoverLease"} /\ ~ExclusiveFree(p)
     \/ pc[p] = "shareLease" /\ ~SharedFree(p)
  /\ Return(p, "idle")
  /\ UNCHANGED <<root, slots, database, tombstone, removals>>

\* remove_owner_mismatched_state_slots: the slots go one by one.
Normalize(p) ==
  /\ pc[p] = "normalize"
  /\ IF OwnerMismatchOnly
     THEN \E i \in Mismatched :
            /\ \A j \in Mismatched : i <= j
            /\ slots' = [slots EXCEPT ![i] = Absent]
            /\ UNCHANGED <<pc, locals>>
     ELSE Continue(p, "gate") /\ UNCHANGED slots
  /\ UNCHANGED <<root, database, tombstone, removals>>

-----------------------------------------------------------------------------
(* open_for_write and its callers' own conditions: what each command may   *)
(* do in the classified namespace.                                         *)

\* Mutant: index and sync rebuild whatever is not damaged.
RebuildAdmittedAnyKind(c) ==
  c \in {"init", "index", "sync"} /\ Status \notin {"future", "corrupt"}

RebuildAdmitted(c) ==
  CASE c = "init" ->
         Status \notin {"future", "corrupt"} /\ (Status = "current" => Corroborated(TRUE, FALSE))
    [] c = "index" ->
         /\ Status \notin {"future", "corrupt", "uninitialized"}
         /\ Status = "missing" => ~DatabaseArtifact
         /\ Status = "current" => Corroborated(FALSE, FALSE)
         /\ ~tombstone
    [] c \in {"sync", "catchup"} ->
         /\ Status \in {"missing", "outdated", "building"}
         /\ Status = "missing" => ~DatabaseArtifact
         /\ ~tombstone
    [] c = "upgrade" ->
         /\ Status = "outdated" /\ Authority(slots).phase = "current"
         /\ ~tombstone
         /\ main # NoFile
    [] OTHER -> FALSE

\* Mutant: the writer's gate demands a sidecar-free database, as the reader's.
SyncAdmittedSidecarFree(c) ==
  c \in {"sync", "catchup"} /\ Status = "current" /\ Corroborated(FALSE, FALSE)

SyncAdmitted(c) ==
  c \in {"sync", "catchup"} /\ Status = "current" /\ Corroborated(FALSE, TRUE)

UninitAdmitted(c) ==
  /\ c = "uninit"
  /\ Status \in UninitStates
  /\ Status = "current" => Corroborated(FALSE, TRUE)

\* Mutant: Building is published only where no state exists yet.
GateSkipsBuilding(p) ==
  /\ pc[p] = "gate"
  /\ RebuildAdmitted(cmd[p])
  /\ Continue(p, IF Status = "missing" THEN "publish" ELSE "dropMain")
  /\ UNCHANGED <<root, slots, database, tombstone, removals>>

Gate(p) ==
  /\ pc[p] = "gate"
  /\ \/ /\ RebuildAdmitted(cmd[p])
        /\ Goto(p, "publish")
        /\ goal' = [goal EXCEPT ![p] = "building"]
        /\ UNCHANGED <<database, cmd, snapshot, lease>>
     \/ /\ UninitAdmitted(cmd[p])
        /\ Goto(p, "publish")
        /\ goal' = [goal EXCEPT ![p] = "uninitialized"]
        /\ UNCHANGED <<database, cmd, snapshot, lease>>
     \/ /\ SyncAdmitted(cmd[p])
        /\ Continue(p, "syncing")
        /\ OpenWriter
     \/ /\ ~RebuildAdmitted(cmd[p]) /\ ~UninitAdmitted(cmd[p]) /\ ~SyncAdmitted(cmd[p])
        /\ Return(p, "refused")
        /\ UNCHANGED database
  /\ UNCHANGED <<root, slots, tombstone, removals>>

-----------------------------------------------------------------------------
(* publish_index_state, in its visible operations.                         *)

BeginPublish(p) ==
  /\ pc[p] = "publish"
  /\ IF Publishable(slots, goal[p]) THEN Continue(p, "prepare")
                                    ELSE Return(p, "idle")
  /\ UNCHANGED <<root, slots, database, tombstone, removals>>

PrepareInactiveSlot(p) ==
  /\ pc[p] = "prepare"
  /\ slots' = [slots EXCEPT ![SuccessorSlot(slots)] = Absent]
  /\ Continue(p, "rename")
  /\ UNCHANGED <<root, database, tombstone, removals>>

RenameTemp(p) ==
  /\ pc[p] = "rename"
  /\ slots' = [slots EXCEPT ![SuccessorSlot(slots)] = Successor(slots, goal[p])]
  /\ Continue(p, "syncDir")
  /\ UNCHANGED <<root, database, tombstone, removals>>

\* The directory is synced and the caller goes on.
EndPublish(p) ==
  /\ pc[p] = "syncDir"
  /\ CASE goal[p] = "building" -> Continue(p, "dropMain")
       [] goal[p] = "uninitialized" -> Continue(p, "raiseTombstone")
       [] goal[p] = "current" /\ cmd[p] = "init" -> Continue(p, "dropTombstone")
       [] OTHER -> Return(p, "ok")
  /\ UNCHANGED <<root, slots, database, tombstone, removals>>

-----------------------------------------------------------------------------
(* The destructive rebuild.                                                *)

\* remove_database_files, and uninit's removal of the same files.
DropMain(p) ==
  /\ pc[p] = "dropMain"
  /\ main' = NoFile
  /\ Continue(p, "dropSidecars")
  /\ UNCHANGED <<root, slots, wal, tombstone, removals>>

DropSidecars(p) ==
  /\ pc[p] = "dropSidecars"
  /\ wal' = NoFile
  /\ IF cmd[p] = "uninit" THEN Return(p, "ok") ELSE Continue(p, "openStore")
  /\ UNCHANGED <<root, slots, main, tombstone, removals>>

\* Mutant: the tombstone is cleared when the rebuild starts.
OpenStoreClearsTombstone(p) ==
  /\ pc[p] = "openStore"
  /\ main' = FreshSchema /\ wal' = FreshSchema
  /\ tombstone' = FALSE
  /\ Continue(p, "bulk")
  /\ UNCHANGED <<root, slots, removals>>

\* open_rebuild_target_with: schema in a fresh database, WAL mode.
OpenStore(p) ==
  /\ pc[p] = "openStore"
  /\ main' = FreshSchema /\ wal' = FreshSchema
  /\ Continue(p, "bulk")
  /\ UNCHANGED <<root, slots, tombstone, removals>>

\* Batches go to the log; the size valve may checkpoint between them.
BulkWrite(p) ==
  /\ pc[p] = "bulk"
  /\ wal.rows # "complete"
  /\ \E rows \in {"partial", "complete"} : wal' = [wal EXCEPT !.rows = rows]
  /\ main' \in {main, wal}
  /\ UNCHANGED <<root, slots, tombstone, pc, locals, removals>>

BulkDone(p) ==
  /\ pc[p] = "bulk"
  /\ wal.rows = "complete"
  /\ Continue(p, "restore")
  /\ UNCHANGED <<root, slots, database, tombstone, removals>>

\* finish_with: restore_default_pragmas and compact both checkpoint.
RestorePragmas(p) ==
  /\ pc[p] = "restore"
  /\ Checkpoint
  /\ Continue(p, "stamp")
  /\ UNCHANGED <<root, slots, tombstone, removals>>

StampVersion(p) ==
  /\ pc[p] = "stamp"
  /\ wal' = [wal EXCEPT !.stamp = CURRENT_EXTRACTION_VERSION]
  /\ Continue(p, "stampCheckpoint")
  /\ UNCHANGED <<root, slots, main, tombstone, removals>>

StampCheckpoint(p) ==
  /\ pc[p] = "stampCheckpoint"
  /\ Checkpoint
  /\ Continue(p, "close")
  /\ UNCHANGED <<root, slots, tombstone, removals>>

\* Mutant: closing the writer drops the last lease before Current is published.
CloseStoreReleases(p) ==
  /\ pc[p] = "close"
  /\ CloseWriter
  /\ goal' = [goal EXCEPT ![p] = "current"]
  /\ lease' = [lease EXCEPT ![p] = "none"]
  /\ Goto(p, "publish")
  /\ UNCHANGED <<root, slots, tombstone, cmd, snapshot, removals>>

CloseStore(p) ==
  /\ pc[p] = "close"
  /\ CloseWriter
  /\ goal' = [goal EXCEPT ![p] = "current"]
  /\ Goto(p, "publish")
  /\ UNCHANGED <<root, slots, tombstone, cmd, snapshot, lease, removals>>

\* Only an explicit init removes the tombstone, after Current is published.
DropTombstone(p) ==
  /\ pc[p] = "dropTombstone"
  /\ tombstone' = FALSE
  /\ Return(p, "ok")
  /\ UNCHANGED <<root, slots, database, removals>>

-----------------------------------------------------------------------------
(* The incremental update: no state is published, row changes go to the    *)
(* log, SQLite may checkpoint on its own.                                  *)

SyncWrite(p) ==
  /\ pc[p] = "syncing"
  /\ wal' = [wal EXCEPT !.rows = "midsync"]
  /\ main' \in {main, wal, wal'}
  /\ UNCHANGED <<root, slots, tombstone, pc, locals, removals>>

SyncDone(p) ==
  /\ pc[p] = "syncing"
  /\ wal' = [wal EXCEPT !.rows = "complete"]
  /\ Continue(p, "syncClose")
  /\ UNCHANGED <<root, slots, main, tombstone, removals>>

\* Mutant: the update ends without folding the log back.
SyncCloseLeavesLog(p) ==
  /\ pc[p] = "syncClose"
  /\ Return(p, "ok")
  /\ UNCHANGED <<root, slots, database, tombstone, removals>>

\* finish_current_mutation
SyncClose(p) ==
  /\ pc[p] = "syncClose"
  /\ CloseWriter
  /\ Return(p, "ok")
  /\ UNCHANGED <<root, slots, tombstone, removals>>

-----------------------------------------------------------------------------
(* uninit after its publication.                                           *)

RaiseTombstone(p) ==
  /\ pc[p] = "raiseTombstone"
  /\ tombstone' = TRUE
  /\ Continue(p, "drain")
  /\ UNCHANGED <<root, slots, database, removals>>

\* The daemon acknowledged (or there is none); it may also not answer.
Drain(p) ==
  /\ pc[p] = "drain"
  /\ \/ Continue(p, "dropMain")
     \/ Return(p, "idle")
  /\ UNCHANGED <<root, slots, database, tombstone, removals>>

-----------------------------------------------------------------------------
(* Reading: open_for_read.                                                 *)

AcquireShared(p) ==
  /\ pc[p] = "shareLease"
  /\ IF root # "locked"
     THEN IF cmd[p] = "init" /\ Status \notin {"missing", "future", "corrupt"}
          THEN Continue(p, "lock")
          ELSE Return(p, "refused")
     ELSE SharedFree(p) /\ WithLease(p, "readGate", "shared")
  /\ UNCHANGED <<root, slots, database, tombstone, removals>>

\* Current and corroborated: the main file is read into memory.  An init takes
\* a readable index for "already initialized" and goes on to rebuild only when
\* the tombstone is the reason it is not readable.
ReadGate(p) ==
  /\ pc[p] = "readGate"
  /\ CASE Readable /\ cmd[p] = "init" -> Return(p, "ok")
       [] Readable /\ cmd[p] # "init" ->
            /\ Goto(p, "reading")
            /\ snapshot' = [snapshot EXCEPT ![p] = main]
            /\ UNCHANGED <<cmd, goal, lease>>
       [] ~Readable /\ cmd[p] = "init" /\ Status = "current" /\ tombstone ->
            WithLease(p, "lock", "none")
       [] OTHER -> Return(p, "refused")
  /\ UNCHANGED <<root, slots, database, tombstone, removals>>

FinishRead(p) ==
  /\ pc[p] = "reading"
  /\ Return(p, "ok")
  /\ UNCHANGED <<root, slots, database, tombstone, removals>>

-----------------------------------------------------------------------------
(* Failures.                                                               *)

\* A file operation returns an error and `?' unwinds.  An open writer is
\* dropped: closing it folds and removes the log, unless that fails too.  An
\* error inside the sidecar repair is logged and the command goes on.
Fail(p) ==
  /\ lease[p] = "exclusive"
  /\ IF pc[p] \in {"recoverGate", "recoverFold", "recoverClose"}
     THEN WithLease(p, AfterRecovery(p), "none")
     ELSE Return(p, "idle")
  /\ \/ UNCHANGED database
     \/ pc[p] \in WriterOpen /\ CloseWriter
  /\ UNCHANGED <<root, slots, tombstone, removals>>

\* The process is killed: the kernel drops its lease, the files stay.
Killed(p) ==
  /\ pc[p] \notin Ended
  /\ Return(p, "idle")
  /\ UNCHANGED <<root, slots, database, tombstone, removals>>

\* The user deletes the index directory while nobody uses it.
RemoveDirectory ==
  /\ removals < MaxRemovals
  /\ root # "absent"
  /\ \A p \in Procs : lease[p] = "none"
  /\ root' = "absent"
  /\ slots' = [i \in SlotIndex |-> Absent]
  /\ main' = NoFile /\ wal' = NoFile
  /\ tombstone' = FALSE
  /\ removals' = removals + 1
  /\ UNCHANGED <<pc, locals>>

-----------------------------------------------------------------------------
Step(p) ==
  \/ ProbeInit(p) \/ ProbeRebuild(p) \/ ProbeService(p) \/ ProbeUpgrade(p) \/ ProbeUninit(p)
  \/ RecoverProbe(p) \/ RecoverLease(p) \/ RecoverGate(p)
  \/ RecoverFold(p) \/ RecoverClose(p)
  \/ FindLock(p) \/ MakeLock(p) \/ AcquireLease(p) \/ TimedOut(p)
  \/ Normalize(p) \/ Gate(p)
  \/ BeginPublish(p) \/ PrepareInactiveSlot(p) \/ RenameTemp(p) \/ EndPublish(p)
  \/ DropMain(p) \/ DropSidecars(p) \/ OpenStore(p)
  \/ BulkWrite(p) \/ BulkDone(p) \/ RestorePragmas(p)
  \/ StampVersion(p) \/ StampCheckpoint(p) \/ CloseStore(p) \/ DropTombstone(p)
  \/ SyncWrite(p) \/ SyncDone(p) \/ SyncClose(p)
  \/ RaiseTombstone(p) \/ Drain(p)
  \/ AcquireShared(p) \/ ReadGate(p) \/ FinishRead(p)

Next ==
  \/ \E p \in Procs :
       \/ \E c \in Commands : Start(p, c)
       \/ Step(p)
       \/ Fail(p)
       \/ Killed(p)
  \/ RemoveDirectory

Spec == Init /\ [][Next]_vars

\* The scheduler keeps running a process that executes a command.
FairSpec == Spec /\ \A p \in Procs : WF_vars(Step(p))

-----------------------------------------------------------------------------
(* Properties.                                                             *)

\* A namespace classified Current has a finished, stamped main database file:
\* finish() closes and checkpoints before it publishes, and a rebuild
\* publishes Building before it deletes anything, so no crash in between lets
\* a reader take a half-built database for an index.
CurrentIsComplete == Status = "current" => Stamped(main)

\* What a reader serves stays what is on disk while it serves it, and is a
\* finished index: no rebuild, sync or repair slips under its shared lease.
ReaderSeesFinishedIndex ==
  \A p \in Procs : pc[p] = "reading" =>
    main = snapshot[p] /\ Stamped(snapshot[p])

\* The uninit marker goes away only with the whole directory or once an
\* explicit init has published Current under its lease: a crash in that init
\* leaves the marker, and no other command clears it.
TombstoneOutlivesRebuild ==
  [][ tombstone /\ ~tombstone' =>
        \/ root' = "absent"
        \/ Readable' /\ \E p \in Procs : cmd[p] = "init" /\ lease[p] = "exclusive" ]_vars

\* An uninitialized namespace stays so until an explicit init (or the user
\* removing the directory): background sync, catch-up and upgrade, even when
\* started before the uninit, never bring it back.
OnlyInitRevives ==
  [][ Status = "uninitialized" /\ Status' \notin {"uninitialized", "corrupt"} =>
        \/ root' = "absent"
        \/ \E p \in Procs : cmd[p] = "init" /\ lease[p] = "exclusive" ]_vars

\* A command that reports success delivered: after init, index, sync, catch-up
\* and upgrade the namespace is readable at that very moment, after uninit it
\* is Uninitialized, marked, and holds no database file.
Succeeds(p) == pc[p] \notin Ended /\ pc'[p] = "ok"
SuccessIsReal ==
  [][ \A p \in Procs :
        /\ Succeeds(p) /\ cmd[p] \in {"init", "index", "sync", "catchup", "upgrade"} => Readable'
        /\ Succeeds(p) /\ cmd[p] = "uninit" =>
             Status' = "uninitialized" /\ tombstone' /\ ~DatabaseArtifact' ]_vars

\* Wherever a crash or an error left the namespace, some command gets it back:
\* with no lease held, an init is admitted, or a sync (which folds a leftover
\* write-ahead log) is.
AlwaysRepairable ==
  /\ root = "locked"
  /\ \A p \in Procs : lease[p] = "none"
  /\ Status \notin {"future", "corrupt"}
  => RebuildAdmitted("init") \/ SyncAdmitted("sync")

\* Every command ends: leases time out, and no step waits for another process.
CommandsEnd == \A p \in Procs : (pc[p] \notin Ended) ~> (pc[p] \in Ended)

=============================================================================
