--------------------------- MODULE ProjectWatcher ---------------------------
(***************************************************************************)
(* The watcher of one project (codegraph-watch/src/watcher.rs): the OS     *)
(* reports changes through a channel to the event loop, which collects     *)
(* paths until a debounce deadline and hands them to a sync, or runs one   *)
(* full sync when paths are not enough.                                    *)
(*                                                                         *)
(* `dirty' is what the loop cannot see: the paths whose content on disk is *)
(* not what the index holds.  Events may name a path, name only a          *)
(* directory or link, be dropped with a notice, or be dropped silently.    *)
(* A sync runs on the loop's thread while the world goes on.               *)
(*                                                                         *)
(* Times are abstracted to "a deadline is set": it passes when the channel *)
(* is empty, because the loop takes a queued message first.                *)
(***************************************************************************)
EXTENDS Naturals, Sequences, FiniteSets

CONSTANTS
  Paths,                    \* indexed source files
  Tree,                     \* a pending directory or link
  Control,                  \* a pending project control file
  SCOPED_SYNC_MAX_PENDING,
  MAX_CONSECUTIVE_SYNC_ERRORS,
  MaxChanges,               \* bound: changes of files
  MaxEdits                  \* bound: edits of the project's config

ASSUME ProjectWatcherAssumption ==
  /\ Tree \notin Paths /\ Control \notin Paths /\ Tree # Control
  /\ SCOPED_SYNC_MAX_PENDING \in Nat
  /\ MAX_CONSECUTIVE_SYNC_ERRORS \in Nat \ {0}
  /\ MaxChanges \in Nat /\ MaxEdits \in Nat

VARIABLES
  dirty,             \* see above
  silent,            \* the dirty paths whose last change no event reports
  changes,
  wanted,            \* watch.enabled of the config on disk
  edits,
  driftSentinel,     \* WatchOptions.drift_sentinel is set: Windows, unless 0
  channel,
  pending, deadline, fullSyncPending, syncErrors,   \* locals of event_loop
  enabled,           \* runtime_scope.enabled
  health,            \* DegradedState
  loop,
  attempt,           \* the sync that is running
  stop               \* how far begin_shutdown is

disk == <<dirty, silent, changes>>
config == <<wanted, edits, driftSentinel>>
debounce == <<pending, deadline, fullSyncPending>>
vars == <<disk, config, channel, debounce, syncErrors, enabled, health, loop, attempt, stop>>

-----------------------------------------------------------------------------
(* Data.                                                                   *)

Pending == Paths \union {Tree, Control}

Message == [kind : {"path"}, path : Paths]
           \union [kind : {"tree", "rescan", "control", "exhausted", "stop"}]

NoAttempt == [at |-> "none", batch |-> {}, full |-> FALSE, read |-> {}]
Attempt == [at : {"none", "start", "read"}, batch : SUBSET Pending, full : BOOLEAN,
            read : SUBSET Paths]

TypeOK ==
  /\ dirty \subseteq Paths /\ silent \subseteq Paths /\ changes \in 0..MaxChanges
  /\ wanted \in BOOLEAN /\ edits \in 0..MaxEdits /\ driftSentinel \in BOOLEAN
  /\ channel \in Seq(Message)
  /\ pending \subseteq Pending /\ deadline \in BOOLEAN /\ fullSyncPending \in BOOLEAN
  /\ syncErrors \in 0..MAX_CONSECUTIVE_SYNC_ERRORS
  /\ enabled \in BOOLEAN
  /\ health \in {"healthy", "recovering", "disabled"}
  /\ loop \in {"waiting", "syncing", "finished"}
  /\ attempt \in Attempt
  /\ stop \in {"no", "cancelled", "sent"}

Recovering == health = "recovering"

\* The paths a sync of this batch compares with the disk.
Scope(a) == IF a.full THEN Paths ELSE a.batch \intersect Paths

\* A watcher that ran out of descriptors at start is marked disabled and its
\* loop runs all the same.  Whether it has a drift sentinel is the platform's
\* and the environment's choice (drift_sentinel_from_env).
Init ==
  /\ dirty = {} /\ silent = {} /\ changes = 0
  /\ wanted = TRUE /\ edits = 0 /\ driftSentinel \in BOOLEAN
  /\ channel = <<>>
  /\ pending = {} /\ deadline = FALSE /\ fullSyncPending = FALSE /\ syncErrors = 0
  /\ enabled = TRUE
  /\ health \in {"healthy", "disabled"}
  /\ loop = "waiting"
  /\ attempt = NoAttempt
  /\ stop = "no"

-----------------------------------------------------------------------------
(* The disk and the OS watcher.                                            *)

Send(message) == channel' = Append(channel, message)

\* forward_notify: what reaches the loop of a change to path p.
Report(p, how) ==
  CASE how = "named" -> Send([kind |-> "path", path |-> p]) /\ silent' = silent \ {p}
    [] how = "tree" -> Send([kind |-> "tree"]) /\ silent' = silent \ {p}
    [] how = "dropped" -> Send([kind |-> "rescan"]) /\ silent' = silent \ {p}
    [] how = "unreported" -> silent' = silent \union {p} /\ UNCHANGED channel

Change(p, how) ==
  /\ changes < MaxChanges /\ stop = "no" /\ loop # "finished"
  /\ changes' = changes + 1
  /\ dirty' = dirty \union {p}
  /\ Report(p, how)
  /\ UNCHANGED <<config, debounce, syncErrors, enabled, health, loop, attempt, stop>>

\* The user switches watching off or on in the config.
EditConfig ==
  /\ edits < MaxEdits /\ stop = "no" /\ loop # "finished"
  /\ edits' = edits + 1
  /\ wanted' = ~wanted
  /\ Send([kind |-> "control"])
  /\ UNCHANGED <<disk, driftSentinel, debounce, syncErrors, enabled, health, loop, attempt, stop>>

\* The backend fails with EMFILE or ENFILE.  (Other errors are only reported.)
BackendFails ==
  /\ stop = "no" /\ loop # "finished" /\ Len(channel) < MaxChanges
  /\ \A i \in DOMAIN channel : channel[i].kind # "exhausted"
  /\ Send([kind |-> "exhausted"])
  /\ UNCHANGED <<disk, config, debounce, syncErrors, enabled, health, loop, attempt, stop>>

\* begin_shutdown: cancel and drop the OS watcher, then send Stop.
Cancel ==
  /\ stop = "no"
  /\ stop' = "cancelled"
  /\ UNCHANGED <<disk, config, channel, debounce, syncErrors, enabled, health, loop, attempt>>

SendStop ==
  /\ stop = "cancelled"
  /\ stop' = "sent"
  /\ Send([kind |-> "stop"])
  /\ UNCHANGED <<disk, config, debounce, syncErrors, enabled, health, loop, attempt>>

-----------------------------------------------------------------------------
(* The event loop: messages.                                               *)

Receive(kind) ==
  /\ loop = "waiting" /\ channel # <<>> /\ Head(channel).kind = kind
  /\ channel' = Tail(channel)

\* The loop is left: nothing is collected or synced any more.
Finish ==
  /\ loop' = "finished"
  /\ UNCHANGED <<debounce, enabled>>

\* The end of the Event arm: debounce, unless a recovery keeps its own deadline.
Rearm(collected) == deadline \/ (collected # {} /\ ~Recovering)

HandlePath ==
  /\ Receive("path")
  /\ pending' = IF enabled THEN pending \union {Head(channel).path} ELSE pending
  /\ deadline' = Rearm(pending')
  /\ UNCHANGED <<disk, config, fullSyncPending, syncErrors, enabled, health, loop, attempt, stop>>

\* handle_watch_error: a watcher that is already degraded is not marked, so that
\* one that ends while recovering goes on reporting that it recovers.
Exhausted == health' = IF health = "healthy" THEN "disabled" ELSE health

\* A removed directory, a directory with a link or a link: the directory stands
\* for files it does not name.  New links are watched, which may fail.
HandleTree ==
  /\ Receive("tree")
  /\ \/ /\ pending' = IF enabled THEN pending \union {Tree} ELSE pending
        /\ fullSyncPending' = (fullSyncPending \/ enabled)
        /\ deadline' = Rearm(pending')
        /\ UNCHANGED <<enabled, health, loop>>
     \/ enabled /\ Exhausted /\ Finish
  /\ UNCHANGED <<disk, config, syncErrors, attempt, stop>>

\* reload_runtime_scope: a config that does not load keeps the last valid one;
\* one that does is followed by a full sync, and by new watches, which may fail.
HandleControl ==
  /\ Receive("control")
  /\ \/ /\ deadline' = Rearm(pending)
        /\ UNCHANGED <<pending, fullSyncPending, enabled, health, loop>>
     \/ /\ enabled' = wanted
        /\ fullSyncPending' = TRUE
        /\ pending' = pending \union {Control}
        /\ deadline' = Rearm(pending')
        /\ UNCHANGED <<health, loop>>
     \/ Exhausted /\ Finish
  /\ UNCHANGED <<disk, config, syncErrors, attempt, stop>>

\* begin_lost_event_recovery: a recovery under way keeps its deadline.
BeginLostEventRecovery ==
  /\ health' = "recovering"
  /\ deadline' = (Recovering => deadline)

\* Mutant: the full sync is left to the recovery that is begun.
HandleRescanWithoutFullSync ==
  /\ Receive("rescan")
  /\ IF enabled THEN BeginLostEventRecovery /\ UNCHANGED fullSyncPending
     ELSE deadline' = Rearm(pending) /\ UNCHANGED <<health, fullSyncPending>>
  /\ UNCHANGED <<disk, config, pending, syncErrors, enabled, loop, attempt, stop>>

\* The backend says that it dropped events, or that something changed.
HandleRescan ==
  /\ Receive("rescan")
  /\ IF enabled THEN BeginLostEventRecovery /\ fullSyncPending' = TRUE
     ELSE deadline' = Rearm(pending) /\ UNCHANGED <<health, fullSyncPending>>
  /\ UNCHANGED <<disk, config, pending, syncErrors, enabled, loop, attempt, stop>>

HandleWatchError ==
  /\ Receive("exhausted")
  /\ Exhausted /\ Finish
  /\ UNCHANGED <<disk, config, syncErrors, attempt, stop>>

HandleStop ==
  /\ Receive("stop")
  /\ Finish
  /\ UNCHANGED <<disk, config, syncErrors, health, attempt, stop>>

\* Nothing is pending and the drift sentinel's time has come: it compares the
\* whole disk with the index.  Without one the idle loop waits for a message.
Sentinel ==
  /\ driftSentinel
  /\ loop = "waiting" /\ channel = <<>> /\ ~deadline
  /\ ~Recovering /\ enabled /\ dirty # {}
  /\ fullSyncPending' = TRUE
  /\ BeginLostEventRecovery
  /\ UNCHANGED <<disk, config, channel, pending, syncErrors, enabled, loop, attempt, stop>>

-----------------------------------------------------------------------------
(* The event loop: a sync.                                                 *)

\* Mutant: a deadline that has passed goes before the messages.
FireFirst ==
  /\ loop = "waiting" /\ deadline
  /\ attempt' = [at |-> "start", batch |-> pending, full |-> fullSyncPending, read |-> {}]
  /\ pending' = {} /\ deadline' = FALSE /\ fullSyncPending' = FALSE
  /\ loop' = "syncing"
  /\ UNCHANGED <<disk, config, channel, syncErrors, enabled, health, stop>>

\* The deadline passed: the batch is taken for the attempt.
Fire ==
  LET burst == Cardinality(pending) > SCOPED_SYNC_MAX_PENDING IN
  /\ loop = "waiting" /\ channel = <<>> /\ deadline
  /\ attempt' = [at |-> "start", batch |-> pending, full |-> fullSyncPending \/ burst, read |-> {}]
  /\ pending' = {} /\ deadline' = FALSE /\ fullSyncPending' = FALSE
  /\ health' = IF burst THEN "recovering" ELSE health
  /\ loop' = "syncing"
  /\ UNCHANGED <<disk, config, channel, syncErrors, enabled, stop>>

\* Under the lease, which a cancelled sync does not get, the files are read.
SyncReads ==
  /\ attempt.at = "start" /\ stop = "no"
  /\ attempt' = [attempt EXCEPT !.at = "read", !.read = dirty \intersect Scope(attempt)]
  /\ dirty' = dirty \ Scope(attempt)
  /\ silent' = silent \ Scope(attempt)
  /\ UNCHANGED <<changes, config, channel, debounce, syncErrors, enabled, health, loop, stop>>

AttemptOver == loop' = "waiting" /\ attempt' = NoAttempt

\* Committed.  Only a full sync ends a recovery.
SyncDone ==
  /\ attempt.at = "read"
  /\ AttemptOver
  /\ syncErrors' = 0
  /\ health' = IF attempt.full /\ Recovering THEN "healthy" ELSE health
  /\ UNCHANGED <<disk, config, channel, debounce, enabled, stop>>

\* What the attempt had taken is put back, to be tried again.
PutBack(full) ==
  /\ pending' = attempt.batch
  /\ fullSyncPending' = (fullSyncPending \/ full)
  /\ deadline' = TRUE
  /\ dirty' = dirty \union attempt.read
  /\ UNCHANGED <<silent, changes>>

\* Mutant: a failed batch is dropped.
SyncErrorDropsBatch ==
  /\ loop = "syncing"
  /\ syncErrors' = syncErrors + 1
  /\ dirty' = dirty \union attempt.read
  /\ attempt' = NoAttempt
  /\ IF syncErrors' = MAX_CONSECUTIVE_SYNC_ERRORS
     THEN loop' = "finished" /\ health' = "disabled"
     ELSE loop' = "waiting" /\ UNCHANGED health
  /\ UNCHANGED <<silent, changes, config, channel, debounce, enabled, stop>>

\* Mutant: a watcher that keeps failing goes on trying.
SyncErrorTriesOn ==
  /\ loop = "syncing"
  /\ syncErrors' = syncErrors + 1
  /\ PutBack(attempt.full)
  /\ AttemptOver
  /\ UNCHANGED <<config, channel, enabled, health, stop>>

\* The sync failed or was cancelled; after enough failures in a row the loop ends.
SyncError ==
  /\ loop = "syncing"
  /\ syncErrors' = syncErrors + 1
  /\ PutBack(attempt.full)
  /\ attempt' = NoAttempt
  /\ IF syncErrors' = MAX_CONSECUTIVE_SYNC_ERRORS
     THEN loop' = "finished" /\ health' = "disabled"
     ELSE loop' = "waiting" /\ UNCHANGED health
  /\ UNCHANGED <<config, channel, enabled, stop>>

\* Mutant: the paused watcher waits for the next event.
SyncContendedWaits ==
  /\ loop = "syncing"
  /\ AttemptOver
  /\ pending' = attempt.batch /\ fullSyncPending' = TRUE
  /\ dirty' = dirty \union attempt.read
  /\ health' = "recovering"
  /\ UNCHANGED <<silent, changes, config, channel, deadline, syncErrors, enabled, stop>>

\* Another writer held the index past the budget, before or after the files
\* were read (is_lock_contention): a full sync is retried.
SyncContended ==
  /\ loop = "syncing"
  /\ AttemptOver
  /\ PutBack(TRUE)
  /\ health' = "recovering"
  /\ UNCHANGED <<config, channel, syncErrors, enabled, stop>>

-----------------------------------------------------------------------------
Loop ==
  \/ HandlePath \/ HandleTree \/ HandleControl \/ HandleRescan \/ HandleWatchError
  \/ HandleStop \/ Sentinel \/ Fire \/ SyncDone \/ SyncError

Next ==
  \/ \E p \in Paths, how \in {"named", "tree", "dropped", "unreported"} : Change(p, how)
  \/ EditConfig \/ BackendFails \/ Cancel \/ SendStop
  \/ Loop \/ SyncReads \/ SyncContended

Spec == Init /\ [][Next]_vars

\* The loop's thread runs, and is not waiting for a backend that hangs; the
\* other writers do not hold the index whenever it is retried.
Fairness == WF_vars(Loop) /\ SF_vars(SyncReads) /\ SF_vars(SyncDone) /\ WF_vars(SendStop)

FairSpec == Spec /\ Fairness

-----------------------------------------------------------------------------
(* Properties.                                                             *)

Queued(p) == \E i \in DOMAIN channel : \/ channel[i].kind \in {"tree", "rescan"}
                                       \/ channel[i].kind = "path" /\ channel[i].path = p

\* What the loop still knows of p: a message, the next sync, or the running one.
Owed(p) ==
  \/ Queued(p)
  \/ p \in pending \/ fullSyncPending
  \/ attempt.at = "start" /\ p \in Scope(attempt)

\* No reported change is forgotten: while the loop runs with watching enabled,
\* a path that differs from the index is in the channel, pending, or owed by a
\* full sync, across failed, contended and overtaken syncs, lost events and
\* changes of scope.
NoForgottenChange ==
  loop # "finished" /\ enabled => \A p \in dirty : Owed(p) \/ p \in silent

\* Work the waiting loop owes has a deadline, and a watcher that reports itself
\* recovering owes a full sync: it does not wait for another event to retry.
RecoveryScheduled ==
  loop = "waiting" =>
    /\ pending # {} \/ fullSyncPending \/ Recovering => deadline
    /\ Recovering => fullSyncPending

\* The watcher can learn of the last change of p: an event reported it, or the
\* drift sentinel compares the disk with the index.
Findable(p) == p \in silent => driftSentinel

\* Every change that can be found is committed to the index, unless the watcher
\* ends, is switched off, or a later change of the file cannot be found: a
\* reported one on every platform, one no event reports where the sentinel runs.
ChangeIndexed ==
  \A p \in Paths :
    p \in dirty /\ Findable(p) ~> \/ p \notin dirty \union attempt.read
                                 \/ ~Findable(p) \/ loop = "finished" \/ ~enabled

\* The loop ends once it is told to, whatever it was doing.
StopEnds == stop = "cancelled" ~> loop = "finished"

=============================================================================
