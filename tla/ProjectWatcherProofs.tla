------------------------ MODULE ProjectWatcherProofs ------------------------
(***************************************************************************)
(* Proofs about ProjectWatcher, for any set of paths, any limits and any   *)
(* number of changes.                                                      *)
(***************************************************************************)
EXTENDS ProjectWatcher, TLAPS

-----------------------------------------------------------------------------
(* The inductive invariants.                                               *)

\* The attempt is the loop's: while it waits there is none, and while a sync
\* runs nothing is collected beside the batch that was taken.
AttemptFacts ==
  /\ loop = "syncing" <=> attempt.at # "none"
  /\ loop = "syncing" => pending = {} /\ ~fullSyncPending
  /\ loop # "finished" => syncErrors < MAX_CONSECUTIVE_SYNC_ERRORS
  /\ attempt.read \subseteq Scope(attempt)

\* The sync that runs while the watcher reports a recovery is the full one.
RecoveryRuns == loop = "syncing" /\ Recovering => attempt.full

IInv == TypeOK /\ AttemptFacts

RInv == RecoveryScheduled /\ RecoveryRuns

-----------------------------------------------------------------------------
(* The channel.                                                            *)

\* What was queued stays queued when a message is sent.
LEMMA SentKeepsQueued ==
  ASSUME channel \in Seq(Message), NEW message \in Message, Send(message),
         NEW p \in Paths, Queued(p)
  PROVE  Queued(p)'
<1>1. PICK i \in DOMAIN channel : \/ channel[i].kind \in {"tree", "rescan"}
                                  \/ channel[i].kind = "path" /\ channel[i].path = p
  BY DEF Queued
<1>2. i \in DOMAIN channel' /\ channel'[i] = channel[i]
  BY DEF Send
<1> QED BY <1>1, <1>2 DEF Queued

\* What is sent is queued.
LEMMA SentIsQueued ==
  ASSUME channel \in Seq(Message), NEW message \in Message, Send(message), NEW p \in Paths,
         \/ message.kind \in {"tree", "rescan"}
         \/ message.kind = "path" /\ message.path = p
  PROVE  Queued(p)'
<1>1. Len(channel) + 1 \in DOMAIN channel' /\ channel'[Len(channel) + 1] = message
  BY DEF Send
<1> QED BY <1>1 DEF Queued

\* A message that is taken and does not concern p leaves p queued.
LEMMA TakenKeepsQueued ==
  ASSUME channel \in Seq(Message), channel # <<>>, channel' = Tail(channel),
         NEW p \in Paths, Queued(p),
         Head(channel).kind \notin {"tree", "rescan"},
         ~(Head(channel).kind = "path" /\ Head(channel).path = p)
  PROVE  Queued(p)'
<1>1. PICK i \in DOMAIN channel : \/ channel[i].kind \in {"tree", "rescan"}
                                  \/ channel[i].kind = "path" /\ channel[i].path = p
  BY DEF Queued
<1>2. i # 1
  BY <1>1
<1>3. i - 1 \in DOMAIN channel' /\ channel'[i - 1] = channel[i]
  BY <1>2
<1> QED BY <1>1, <1>3 DEF Queued

\* Every message that is sent is one.
LEMMA Messages ==
  /\ \A p \in Paths : [kind |-> "path", path |-> p] \in Message
  /\ \A kind \in {"tree", "rescan", "control", "exhausted", "stop"} : [kind |-> kind] \in Message
BY DEF Message

LEMMA SentType ==
  ASSUME channel \in Seq(Message), NEW message \in Message, Send(message)
  PROVE  channel' \in Seq(Message)
BY DEF Send

LEMMA TakenType ==
  ASSUME channel \in Seq(Message), NEW kind, Receive(kind)
  PROVE  channel' \in Seq(Message) /\ Head(channel) \in Message /\ loop = "waiting"
         /\ Head(channel).kind = kind
BY DEF Receive

-----------------------------------------------------------------------------
(* Types and the attempt.                                                  *)

LEMMA TypeInit == Init => IInv
<1> SUFFICES ASSUME Init PROVE IInv
  OBVIOUS
<1>1. NoAttempt \in Attempt /\ NoAttempt.at = "none" /\ NoAttempt.read = {}
  BY DEF NoAttempt, Attempt, Pending
<1>2. AttemptFacts
  BY <1>1, ProjectWatcherAssumption DEF Init, AttemptFacts
<1>3. /\ 0 \in 0..MaxChanges /\ 0 \in 0..MaxEdits /\ 0 \in 0..MAX_CONSECUTIVE_SYNC_ERRORS
      /\ <<>> \in Seq(Message)
  BY ProjectWatcherAssumption
<1>4. TypeOK
  BY <1>1, <1>3, Zenon DEF Init, TypeOK
<1> QED BY <1>2, <1>4 DEF IInv

\* Neither a change, an edit nor a failing backend touches the loop's locals.
LEMMA WorldTypes ==
  ASSUME IInv,
         \/ \E p \in Paths, how \in {"named", "tree", "dropped", "unreported"} : Change(p, how)
         \/ EditConfig \/ BackendFails \/ Cancel \/ SendStop
  PROVE  IInv'
<1> USE DEF IInv
<1>1. AttemptFacts'
  BY DEF Change, EditConfig, BackendFails, Cancel, SendStop, AttemptFacts, Scope, debounce
<1>2. ASSUME NEW p \in Paths, NEW how \in {"named", "tree", "dropped", "unreported"},
             Change(p, how)
      PROVE  TypeOK'
  <2>1. channel' \in Seq(Message) /\ silent' \subseteq Paths
    BY <1>2, Messages, SentType DEF Change, Report, TypeOK
  <2> QED BY <1>2, <2>1, ProjectWatcherAssumption DEF Change, TypeOK, config, debounce
<1>3. CASE EditConfig
  <2>1. channel' \in Seq(Message)
    BY <1>3, Messages, SentType DEF EditConfig, TypeOK
  <2> QED BY <1>1, <1>3, <2>1, ProjectWatcherAssumption DEF EditConfig, TypeOK, disk, debounce
<1>4. CASE BackendFails
  <2>1. channel' \in Seq(Message)
    BY <1>4, Messages, SentType DEF BackendFails, TypeOK
  <2> QED BY <1>1, <1>4, <2>1 DEF BackendFails, TypeOK, disk, config, debounce
<1>5. CASE Cancel
  BY <1>1, <1>5 DEF Cancel, TypeOK, disk, config, debounce
<1>6. CASE SendStop
  <2>1. channel' \in Seq(Message)
    BY <1>6, Messages, SentType DEF SendStop, TypeOK
  <2> QED BY <1>1, <1>6, <2>1 DEF SendStop, TypeOK, disk, config, debounce
<1> QED BY <1>1, <1>2, <1>3, <1>4, <1>5, <1>6

LEMMA MessageTypes ==
  ASSUME IInv, HandlePath \/ HandleTree \/ HandleControl \/ HandleRescan
               \/ HandleWatchError \/ HandleStop
  PROVE  IInv'
<1> USE DEF IInv
<1>0. channel' \in Seq(Message) /\ loop = "waiting"
  BY TakenType DEF HandlePath, HandleTree, HandleControl, HandleRescan, HandleWatchError,
     HandleStop, TypeOK
<1>1. CASE HandlePath
  <2>1. Head(channel).path \in Paths
    BY <1>1, TakenType DEF HandlePath, TypeOK, Message
  <2>2. deadline' \in BOOLEAN
    BY <1>1 DEF HandlePath, Rearm, TypeOK
  <2> QED BY <1>0, <1>1, <2>1, <2>2
          DEF HandlePath, TypeOK, AttemptFacts, Pending, Scope, disk, config
<1>2. CASE HandleTree
  <2>1. deadline' \in BOOLEAN
    BY <1>2 DEF HandleTree, Rearm, TypeOK, Finish, debounce
  <2> QED BY <1>0, <1>2, <2>1
          DEF HandleTree, Exhausted, Finish, TypeOK, AttemptFacts, Pending, Scope, disk, config,
              debounce
<1>3. CASE HandleControl
  <2>1. deadline' \in BOOLEAN
    BY <1>3 DEF HandleControl, Rearm, TypeOK, Finish, debounce
  <2> QED BY <1>0, <1>3, <2>1
          DEF HandleControl, Exhausted, Finish, TypeOK, AttemptFacts, Pending, Scope, disk,
              config, debounce
<1>4. CASE HandleRescan
  <2>1. deadline' \in BOOLEAN
    BY <1>4 DEF HandleRescan, BeginLostEventRecovery, Rearm, TypeOK
  <2> QED BY <1>0, <1>4, <2>1
          DEF HandleRescan, BeginLostEventRecovery, TypeOK, AttemptFacts, Scope, disk, config
<1>5. CASE HandleWatchError \/ HandleStop
  BY <1>0, <1>5
  DEF HandleWatchError, HandleStop, Exhausted, Finish, TypeOK, AttemptFacts, Scope, disk,
      config, debounce
<1> QED BY <1>1, <1>2, <1>3, <1>4, <1>5

LEMMA SyncTypes ==
  ASSUME IInv, Sentinel \/ Fire \/ SyncReads \/ SyncDone \/ SyncError \/ SyncContended
  PROVE  IInv'
<1> USE DEF IInv
<1>1. CASE Sentinel
  BY <1>1 DEF Sentinel, BeginLostEventRecovery, TypeOK, AttemptFacts, Scope, disk, config
<1>2. CASE Fire
  BY <1>2 DEF Fire, TypeOK, AttemptFacts, Attempt, Scope, disk, config
<1>3. CASE SyncReads
  BY <1>3 DEF SyncReads, TypeOK, AttemptFacts, Attempt, Scope, config, debounce
<1>4. CASE SyncDone
  BY <1>4, ProjectWatcherAssumption
  DEF SyncDone, AttemptOver, NoAttempt, TypeOK, AttemptFacts, Attempt, Scope, Pending, disk,
      config, debounce
<1>5. CASE SyncError
  BY <1>5, ProjectWatcherAssumption
  DEF SyncError, PutBack, NoAttempt, TypeOK, AttemptFacts, Attempt, Scope, Pending, config
<1>6. CASE SyncContended
  BY <1>6
  DEF SyncContended, PutBack, AttemptOver, NoAttempt, TypeOK, AttemptFacts, Attempt, Scope,
      Pending, config
<1> QED BY <1>1, <1>2, <1>3, <1>4, <1>5, <1>6

LEMMA TypeStep == IInv /\ [Next]_vars => IInv'
<1> SUFFICES ASSUME IInv, [Next]_vars PROVE IInv'
  OBVIOUS
<1>1. CASE UNCHANGED vars
  BY <1>1 DEF vars, disk, config, debounce, IInv, TypeOK, AttemptFacts, Scope
<1>2. CASE Next
  BY <1>2, WorldTypes, MessageTypes, SyncTypes DEF Next, Loop
<1> QED BY <1>1, <1>2

LEMMA TypeInvariant == Spec => []IInv
<1>1. Init => IInv
  BY TypeInit
<1>2. IInv /\ [Next]_vars => IInv'
  BY TypeStep
<1> QED BY <1>1, <1>2, PTL DEF Spec

-----------------------------------------------------------------------------
(* Recoveries are scheduled.                                               *)

LEMMA RecoveryInit == Init => RInv
BY DEF Init, RInv, RecoveryScheduled, RecoveryRuns, Recovering

LEMMA RecoveryMessages ==
  ASSUME IInv, RInv, HandlePath \/ HandleTree \/ HandleControl \/ HandleRescan
                     \/ HandleWatchError \/ HandleStop
  PROVE  RInv'
<1> USE DEF IInv, TypeOK, RInv, RecoveryScheduled, RecoveryRuns, Recovering
<1>1. CASE HandlePath
  BY <1>1 DEF HandlePath, Receive, Rearm
<1>2. CASE HandleTree
  BY <1>2 DEF HandleTree, Receive, Rearm, Finish
<1>3. CASE HandleControl
  <2>1. loop = "waiting"
    BY <1>3 DEF HandleControl, Receive
  <2>2. CASE deadline' = Rearm(pending) /\ UNCHANGED <<pending, fullSyncPending, health, loop>>
    BY <2>1, <2>2 DEF Rearm
  <2>3. CASE /\ fullSyncPending' = TRUE /\ pending' = pending \union {Control}
             /\ deadline' = Rearm(pending') /\ UNCHANGED <<health, loop>>
    BY <2>1, <2>3 DEF Rearm
  <2>4. CASE Finish
    BY <2>4 DEF Finish
  <2> QED BY <1>3, <2>2, <2>3, <2>4 DEF HandleControl
<1>4. CASE HandleRescan
  BY <1>4 DEF HandleRescan, Receive, BeginLostEventRecovery, Rearm
<1>5. CASE HandleWatchError \/ HandleStop
  BY <1>5 DEF HandleWatchError, HandleStop, Finish
<1> QED BY <1>1, <1>2, <1>3, <1>4, <1>5

LEMMA RecoverySync ==
  ASSUME IInv, RInv, Sentinel \/ Fire \/ SyncReads \/ SyncDone \/ SyncError \/ SyncContended
  PROVE  RInv'
<1> USE DEF IInv, TypeOK, AttemptFacts, RInv, RecoveryScheduled, RecoveryRuns, Recovering
<1>1. CASE Sentinel
  BY <1>1 DEF Sentinel, BeginLostEventRecovery
<1>2. CASE Fire
  BY <1>2 DEF Fire
<1>3. CASE SyncReads
  BY <1>3 DEF SyncReads, Attempt, debounce
<1>4. CASE SyncDone
  BY <1>4 DEF SyncDone, AttemptOver, debounce
<1>5. CASE SyncError
  BY <1>5 DEF SyncError, PutBack
<1>6. CASE SyncContended
  BY <1>6 DEF SyncContended, PutBack, AttemptOver
<1> QED BY <1>1, <1>2, <1>3, <1>4, <1>5, <1>6

LEMMA RecoveryStep == IInv /\ RInv /\ [Next]_vars => RInv'
<1> SUFFICES ASSUME IInv, RInv, [Next]_vars PROVE RInv'
  OBVIOUS
<1>1. CASE UNCHANGED <<debounce, health, loop, attempt>>
  BY <1>1 DEF debounce, RInv, RecoveryScheduled, RecoveryRuns, Recovering
<1>2. CASE Next
  <2>1. ASSUME NEW p \in Paths, NEW how \in {"named", "tree", "dropped", "unreported"},
               Change(p, how)
        PROVE  RInv'
    BY <1>1, <2>1 DEF Change
  <2>2. CASE EditConfig \/ BackendFails \/ Cancel \/ SendStop
    BY <1>1, <2>2 DEF EditConfig, BackendFails, Cancel, SendStop
  <2> QED BY <1>2, <2>1, <2>2, RecoveryMessages, RecoverySync DEF Next, Loop
<1>3. CASE UNCHANGED vars
  BY <1>1, <1>3 DEF vars
<1> QED BY <1>2, <1>3

-----------------------------------------------------------------------------
(* No change is forgotten.                                                 *)

LEMMA ForgottenInit == Init => NoForgottenChange
BY DEF Init, NoForgottenChange

LEMMA ForgottenWorld ==
  ASSUME IInv, NoForgottenChange,
         \/ \E p \in Paths, how \in {"named", "tree", "dropped", "unreported"} : Change(p, how)
         \/ EditConfig \/ BackendFails \/ Cancel \/ SendStop
  PROVE  NoForgottenChange'
<1> SUFFICES ASSUME loop' # "finished", enabled', NEW q \in dirty', q \notin silent'
             PROVE  Owed(q)'
  BY DEF NoForgottenChange
<1>0. channel \in Seq(Message) /\ dirty \subseteq Paths
  BY DEF IInv, TypeOK
<1>1. ASSUME NEW p \in Paths, NEW how \in {"named", "tree", "dropped", "unreported"},
             Change(p, how)
      PROVE  Owed(q)'
  <2>1. CASE q = p
    <3>1. Queued(p)'
      BY <1>0, <1>1, <2>1, Messages, SentIsQueued DEF Change, Report
    <3> QED BY <2>1, <3>1 DEF Owed
  <2>2. CASE q # p
    <3>1. q \in dirty /\ q \notin silent /\ q \in Paths
      BY <1>0, <1>1, <2>2 DEF Change, Report
    <3>2. Owed(q)
      BY <1>1, <3>1 DEF Change, NoForgottenChange
    <3>3. Queued(q) => Queued(q)'
      <4>1. CASE UNCHANGED channel
        BY <4>1 DEF Queued
      <4>2. CASE how # "unreported"
        BY <1>0, <1>1, <3>1, <4>2, Messages, SentKeepsQueued DEF Change, Report
      <4> QED BY <1>1, <4>1, <4>2 DEF Change, Report
    <3> QED BY <1>1, <3>2, <3>3 DEF Change, Owed, Scope, debounce
  <2> QED BY <2>1, <2>2
<1>2. ASSUME UNCHANGED <<disk, debounce, enabled, loop, attempt>>,
             UNCHANGED channel \/ \E kind \in {"control", "exhausted", "stop"} : Send([kind |-> kind])
      PROVE  Owed(q)'
  <2>1. q \in Paths /\ Owed(q)
    BY <1>0, <1>2 DEF disk, NoForgottenChange
  <2>2. Queued(q) => Queued(q)'
    <3>1. CASE UNCHANGED channel
      BY <3>1 DEF Queued
    <3>2. CASE \E kind \in {"control", "exhausted", "stop"} : Send([kind |-> kind])
      BY <1>0, <2>1, <3>2, Messages, SentKeepsQueued
    <3> QED BY <1>2, <3>1, <3>2
  <2> QED BY <1>2, <2>1, <2>2 DEF Owed, Scope, debounce
<1>3. CASE EditConfig
  BY <1>2, <1>3 DEF EditConfig
<1>4. CASE BackendFails
  BY <1>2, <1>4 DEF BackendFails
<1>5. CASE Cancel
  BY <1>2, <1>5 DEF Cancel
<1>6. CASE SendStop
  BY <1>2, <1>6 DEF SendStop
<1> QED BY <1>1, <1>3, <1>4, <1>5, <1>6

LEMMA ForgottenMessages ==
  ASSUME IInv, NoForgottenChange, HandlePath \/ HandleTree \/ HandleControl \/ HandleRescan
                                  \/ HandleWatchError \/ HandleStop
  PROVE  NoForgottenChange'
<1> SUFFICES ASSUME loop' # "finished", enabled', NEW q \in dirty', q \notin silent'
             PROVE  Owed(q)'
  BY DEF NoForgottenChange
<1>0. channel \in Seq(Message) /\ dirty \subseteq Paths /\ UNCHANGED <<disk, attempt>>
  BY DEF IInv, TypeOK, HandlePath, HandleTree, HandleControl, HandleRescan, HandleWatchError,
     HandleStop
<1>1. q \in dirty /\ q \notin silent /\ q \in Paths
  BY <1>0 DEF disk
<1>2. CASE fullSyncPending'
  BY <1>2 DEF Owed
<1>3. CASE HandlePath
  <2>1. Owed(q) /\ enabled
    BY <1>1, <1>3 DEF HandlePath, NoForgottenChange
  <2>2. CASE q = Head(channel).path
    BY <1>3, <2>1, <2>2 DEF HandlePath, Owed
  <2>3. CASE q # Head(channel).path /\ Queued(q)
    BY <1>0, <1>1, <1>3, <2>3, TakenKeepsQueued DEF HandlePath, Receive, Owed
  <2>4. CASE ~Queued(q)
    BY <1>3, <2>1, <2>4 DEF HandlePath, Owed, Scope
  <2> QED BY <2>2, <2>3, <2>4
<1>4. CASE HandleControl /\ ~fullSyncPending'
  <2>1. UNCHANGED <<pending, fullSyncPending, enabled, loop>>
    BY <1>4 DEF HandleControl, Finish
  <2>2. Owed(q)
    BY <1>1, <2>1 DEF NoForgottenChange
  <2>3. Queued(q) => Queued(q)'
    BY <1>0, <1>1, <1>4, TakenKeepsQueued DEF HandleControl, Receive
  <2> QED BY <1>0, <2>1, <2>2, <2>3 DEF Owed, Scope
<1>5. CASE HandleTree
  BY <1>2, <1>5 DEF HandleTree, Finish
<1>6. CASE HandleRescan
  BY <1>2, <1>6 DEF HandleRescan
<1>7. CASE HandleWatchError \/ HandleStop
  BY <1>7 DEF HandleWatchError, HandleStop, Finish
<1> QED BY <1>2, <1>3, <1>4, <1>5, <1>6, <1>7

LEMMA ForgottenSync ==
  ASSUME IInv, NoForgottenChange,
         Sentinel \/ Fire \/ SyncReads \/ SyncDone \/ SyncError \/ SyncContended
  PROVE  NoForgottenChange'
<1> SUFFICES ASSUME loop' # "finished", enabled', NEW q \in dirty', q \notin silent'
             PROVE  Owed(q)'
  BY DEF NoForgottenChange
<1>0. UNCHANGED channel /\ UNCHANGED enabled /\ (Queued(q) => Queued(q)')
  BY DEF Sentinel, Fire, SyncReads, SyncDone, SyncError, SyncContended, Queued
<1>1. CASE Sentinel
  BY <1>1 DEF Sentinel, Owed
<1>2. CASE SyncContended
  BY <1>2 DEF SyncContended, PutBack, Owed
<1>3. CASE Fire
  <2>1. q \in Paths /\ Owed(q)
    BY <1>3 DEF Fire, disk, NoForgottenChange, IInv, TypeOK
  <2>2. attempt.at = "none"
    BY <1>3 DEF Fire, IInv, AttemptFacts
  <2>3. Queued(q) \/ q \in pending \/ fullSyncPending
    BY <2>1, <2>2 DEF Owed
  <2> QED BY <1>0, <1>3, <2>1, <2>3 DEF Fire, Owed, Scope
<1>4. CASE SyncReads
  <2>1. q \in dirty /\ q \notin Scope(attempt) /\ q \notin silent
    BY <1>4 DEF SyncReads
  <2>2. Owed(q)
    BY <1>0, <1>4, <2>1 DEF SyncReads, NoForgottenChange
  <2> QED BY <1>0, <1>4, <2>1, <2>2 DEF SyncReads, Owed, debounce
<1>5. CASE SyncDone
  <2>1. Owed(q)
    BY <1>0, <1>5 DEF SyncDone, disk, NoForgottenChange, IInv, AttemptFacts
  <2> QED BY <1>0, <1>5, <2>1 DEF SyncDone, Owed, debounce
<1>6. CASE SyncError
  <2>1. q \in Scope(attempt) \/ q \in dirty
    BY <1>6 DEF SyncError, PutBack, IInv, AttemptFacts
  <2>2. q \in Scope(attempt) => Owed(q)'
    BY <1>6 DEF SyncError, PutBack, Owed, Scope
  <2>3. CASE q \in dirty
    <3>1. Owed(q)
      BY <1>0, <1>6, <2>3 DEF SyncError, PutBack, NoForgottenChange
    <3>2. pending = {}
      BY <1>6 DEF SyncError, IInv, AttemptFacts
    <3> QED BY <1>0, <1>6, <2>2, <3>1, <3>2 DEF SyncError, PutBack, Owed
  <2> QED BY <2>1, <2>2, <2>3
<1> QED BY <1>1, <1>2, <1>3, <1>4, <1>5, <1>6

LEMMA ForgottenStep == IInv /\ NoForgottenChange /\ [Next]_vars => NoForgottenChange'
<1> SUFFICES ASSUME IInv, NoForgottenChange, [Next]_vars PROVE NoForgottenChange'
  OBVIOUS
<1>1. CASE UNCHANGED vars
  BY <1>1 DEF vars, disk, debounce, NoForgottenChange, Owed, Queued, Scope
<1>2. CASE Next
  BY <1>2, ForgottenWorld, ForgottenMessages, ForgottenSync DEF Next, Loop
<1> QED BY <1>1, <1>2

-----------------------------------------------------------------------------
(* Theorems.                                                               *)

\* The loop's locals, its channel and its sync keep their types; in particular
\* consecutive failures stop at MAX_CONSECUTIVE_SYNC_ERRORS.
THEOREM TypeCorrect == Spec => []TypeOK
<1>1. IInv => TypeOK
  BY DEF IInv
<1> QED BY <1>1, TypeInvariant, PTL

\* A waiting loop that owes a sync has a deadline for it, and a recovery it
\* reports is a full sync it owes.
THEOREM RecoveryIsScheduled == Spec => []RecoveryScheduled
<1>1. Init => RInv
  BY RecoveryInit
<1>2. IInv /\ RInv /\ [Next]_vars => RInv'
  BY RecoveryStep
<1>3. RInv => RecoveryScheduled
  BY DEF RInv
<1> QED BY <1>1, <1>2, <1>3, TypeInvariant, PTL DEF Spec

\* Every reported change the index lacks is in the channel, pending, or owed by
\* a full or the running sync, for any number of paths and changes.
THEOREM NothingForgotten == Spec => []NoForgottenChange
<1>1. Init => NoForgottenChange
  BY ForgottenInit
<1>2. IInv /\ NoForgottenChange /\ [Next]_vars => NoForgottenChange'
  BY ForgottenStep
<1> QED BY <1>1, <1>2, TypeInvariant, PTL DEF Spec

=============================================================================
