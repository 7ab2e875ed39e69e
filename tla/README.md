# codegraph-rust: TLA+ models, checks and proofs

codegraph indexes a source tree into a SQLite database under `.codegraph/` and
serves it to command-line users, MCP clients and a background daemon. Many
processes of possibly different versions share one index directory: a daemon
that watches and syncs, commands typed by the user, MCP servers that start
daemons on demand. Nothing but files coordinates them. What makes the program
correct is therefore a set of protocols over files, and those are what this
directory models. Parsing, name resolution and ranking are data transformations
and are left out.

Paths below are relative to `crates/` in the repository.

## 1. Inventory

| Component | State | Operations | Interacts with |
|---|---|---|---|
| State slots and classifier, `codegraph-store/src/index_state.rs` | `index-state.0.json`, `index-state.1.json`: sequence, protocol, extraction version, phase, owner, checksum | read a slot with post-read corroboration, validate, select the authority, classify | everything that opens the index |
| State publisher, `index_state_publisher.rs` | a temp file, the inactive slot, directory durability | check transition, write temp, sync, unlink inactive, rename, sync directory | lease (capability), classifier |
| Index lease, `index_lease.rs` | the permanent lock file and kernel locks on it | acquire shared / exclusive / creating, takeover of a lockless root, validate, release | every reader and writer |
| Store gate, `connection.rs` | `codegraph.db`, `-wal`, `-shm`, extraction stamp | open for read / write purpose / rebuild target, corroborate, checkpoint, close, sidecar recovery | classifier, lease, SQLite |
| Full rebuild, `rebuild.rs` | namespace phase, database, tombstone | begin, resume, bulk write, stamp, close, publish Current, clear tombstone | publisher, gate |
| Uninit, `uninit.rs` | phase, tombstone, database | publish Uninitialized, raise tombstone, drain the daemon, delete | publisher, daemon |
| Sync and migration, `codegraph-watch/src/sync.rs`, `migrate.rs` | rows of the database | incremental update, escalation to a rebuild | gate, rebuild |
| Lifecycle commands, `codegraph-cli/src/main.rs` | none | init, index, sync, uninit, daemon startup gate, upgrade | all of the above |
| Daemon rendezvous, `codegraph-daemon/src/lock.rs`, `writer_lock.rs` | `daemon.pid`, socket, `writer.pid` | claim (placeholder, then rename), stale heal, bind with fallback, rewrite of the socket path, owned cleanup | starters, clients |
| Daemon loop and sessions, `lib.rs`, `session.rs`, `control.rs` | session registry, closing signal, idle clock | accept, hello, control frames, idle exit, backstop, drain and acknowledgement | rendezvous, watcher, uninit |
| Proxy, `proxy.rs` | ledger of unanswered requests, suppressed id, shutdown flag | answer locally, forward, half-close, wait for replies, watchdog | MCP host, daemon |
| Lease keeper and spawning, `lease_keeper.rs`, `spawn.rs` | backoff | reconnect, spawn | daemon |
| Watcher, `codegraph-watch/src/watcher.rs` | pending paths, debounce deadline, full-sync flag, error counts | event, fire, retry, lost-event rescan, drift check, disable, stop | sync |
| Project-service broker, `codegraph-mcp/src/project_services.rs` | handles and gates per project, bounded | retain, start once, drop failed starts | daemon project service |
| Extraction, resolution, graph, SQL, MCP tools, UI, benchmarks | per request, or rows | transformations | store |

Hard behaviours, and what correctness means there:

* **Crash and power loss during publication.** There is always one
  authoritative record, the old or the new one; a crash never turns a sound
  namespace Corrupt.
* **Locks found by path, held by file.** A lease that validates really excludes
  everybody who looks at the path; creating a lock file is not holding it.
* **A rebuild that dies anywhere.** A half-built database is never read as an
  index, and some command always gets the namespace back.
* **Uninit against background work.** A sync, catch-up or upgrade decided
  before an uninit never revives the index after it.
* **SQLite sidecars.** A killed writer leaves a write-ahead log that readers
  refuse; it is folded back only under the lease and from the right state.
* **Daemon rendezvous.** At most one live daemon per project owns the record
  and the socket; healing a dead one's leftovers never removes a live one's.
* **Drain.** A drain is acknowledged only when sessions and sync have stopped,
  and a shutdown frame is answered; idle timers never take the daemon from a
  client whose host is alive, and sessions of dead hosts end.
* **Watcher.** Every reported change reaches a later sync in spite of failures,
  contention and dropped events, and a stop is never starved.
* **Proxy.** No reply is lost or given twice whichever side ends first, and the
  proxy returns unless a peer that does nothing any more blocks it.
* **Broker.** Concurrent calls start one service per project, within a bound.

`PROJECT.json` lists each hazard at its line.

## 2. Modules

```
IndexState ----- operators: slots, classifier, publication checks
  |- StatePublisher ----- implements ----> IndexRegister   (MCStatePublisher)
  |- IndexNamespace                                        (MCIndexNamespace)
  |- IndexStateProofs, cited by StatePublisherProofs and IndexNamespaceProofs
IndexLease                                                 (MCIndexLease)
  |- IndexLeaseProofs
DaemonRendezvous                                           (MCDaemonRendezvous)
  |- DaemonRendezvousProofs
DaemonSessions                                             (MCDaemonSessions)
  |- DaemonSessionsProofs
ProjectWatcher                                             (MCProjectWatcher)
  |- ProjectWatcherProofs
DaemonProxy                                                (MCDaemonProxy)
ProjectServices                                            (MCProjectServices)
  |- McpProofs, about both
```

**IndexState** has the data of the protocol and no variables. A slot is
`Absent`, `Unreadable`, or a record with the fields the classifier looks at. The
checksum and the encoding are one Boolean (`intact`), the owner is `self` or
`other`, versions are numbers around `CURRENT_EXTRACTION_VERSION` (22).
`SlotOutcome` makes the checks of `validate_parsed` in their order, `Classify`
is `classify_raw`, `Publishable`, `SuccessorSlot` and `Successor` are the
decisions of `publish_index_state_with`. The sequence is a 64-bit number in the
code; `MaxSequence` stands for its last value, and the classifier's and the
publisher's treatment of it is kept.

**StatePublisher** runs the publisher one file operation per action, with
readers that read slot 0 and then slot 1, leased or not. `limbo` is the set of
slot pairs a power loss may leave behind. A directory sync may work, be
unsupported, or fail. `OrderedDirectory` chooses between a journalled directory
and one that persists each operation independently. **IndexRegister** is what it promises: one
register with atomic writes, a barrier, and fallback to a value written since.

**IndexLease** has directory and file identities and a path that other programs
may change (the directory moved away or put back, the lock deleted). An
acquisition is: probe the root, create it or stat and open the lock, try the
kernel lock until the deadline, corroborate that the path still names the
locked file; for a rebuild also the takeover of a root without lock, with its
re-check. `Validate` and `Mutate` are separate steps, as in the code. The
`.gitignore` a creator writes under its lease is left out: no decision reads it.

**IndexNamespace** composes the rest at the level of whole commands: eight
commands (`init`, `index`, `sync`, `catchup`, `upgrade`, `uninit`, `serve`,
`read`) run by several processes. Its variables are what is on disk (`root`,
`slots`, `main`, `wal`, `tombstone`) and, per process, the step, the command,
the phase being published, the lease and a reader's image. Leases are atomic
here (IndexLease shows why they may be) and a publication is its two visible
directory operations (StatePublisher has them all). An I/O error (`Fail`) or a
kill (`Killed`) may strike between any two steps. Probes made without a lease
may see a publication in flight torn, so they take either outcome then. Row
contents are abstracted to empty, partial, complete, or a finished index with an
unfinished update; SQLite is external: a checkpoint copies the log into the
main file, closing the last connection also removes it.

**DaemonRendezvous** has the files through which the processes of a project
find its one daemon: the pid record (nothing, the empty placeholder, or a pid
with a socket path), the file at each of the two socket paths with the process
that bound it, and the holder of the writer lock. A process runs one command:
start a daemon, heal after a failed attach, `unlock`, serve direct, or uninit,
and every read, creation, rename and unlink is a step of its own, so that a
record may be read, judged and deleted with other steps in between. It may be
killed anywhere. The startup gate and uninit's exclusive lease are atomic here
(IndexNamespace has them in detail); `gateOpen` is the verdict of
`authorize_daemon_startup`. Accepting, sessions and the drain are one step from
serving to cleanup; DaemonSessions is that step. The code leaves three ways open to lose the rendezvous of a
live daemon, and `lapses` records when one was taken: a record of a live process
removed by somebody else, a bound fallback socket that could not be written
into the record, and a listener whose drop unlinks its successor's socket. The
properties say what holds as long as the lapses that bear on them did not occur.

**DaemonSessions** is one daemon from its first connection to its exit. The
accept loop (`loop`) and the session tasks (`conn[c].at`) run beside each other
and meet in the registry (`entry`), the closing signal and the cancellation of
the lease loops. What the loop reads at different moments of one turn is read in
different steps: a tick sweeps and reads the idle clock, and decides with that
reading later; the drain cancels, samples, raises the signal and cuts sockets
one after the other. Time is the age of the last connect or disconnect (recent,
past the idle timeout, past the backstop). Sockets are shut down by descriptor
number, and the kernel hands out the lowest free one, so that a stale number
hits whoever has it. The one catch-up and the watcher thread are two small state
machines that obey the cancellation; ProjectWatcher has the thread in detail.

**ProjectWatcher** is the event loop of one project's watcher beside the disk.
`dirty` is what the loop cannot see: the paths whose content differs from the
index. A change is reported by name, as a directory or link, as "events were
dropped", or not at all (`silent`). A sync is three steps: the batch is taken,
the files are read, the result is committed or fails; in between the disk and
the channel go on; contention may end it before or after the reading.
`driftSentinel` is chosen at the start and never changes: only Windows runs the
drift sentinel, and there `CODEGRAPH_WATCH_SENTINEL_MS=0` turns it off
(`drift_sentinel_from_env`), so one run covers the watcher with it and without.
A deadline is either set or not and passes when the channel
is empty, because `recv_timeout` prefers a queued message.

**DaemonProxy** has the proxy's three threads, the ledger of owed replies and
the suppressed id, between a host that may close, die, hang up or stop reading
and a daemon that may exit or stall, before its hello or after. A write to a peer
that has closed fails; one to a peer that stays and does not read goes on until
the pipe or socket is full (`host.full`, `daemon.full`) and then blocks, which is
why taking a line (`UpRead`), answering it (`UpAnswer`) and forwarding it
(`UpForward`) are three steps. A request is named by its method; `response` is a
host's response to a request of the daemon, which the ledger records because it
has an id and which nobody answers. `halfCloses` (unix) is chosen at the start: it
decides whether the hello is read with a timeout, whether the half-close ends the
daemon's stream, and whether the down pump is joined.

**ProjectServices** is `ensure` of the broker, one step per critical section.
A gate is an identity with a reference count (`StrongCount`: the map and the
callers that refer to it) and an owner; unlocking a gate and dropping the
reference to it are two steps, as in Rust's drop order.

Each definition that models code has its source lines in `PROJECT.json` ("map").
Definitions whose comment starts with `Mutant:` are not part of the
specifications; each is a plausible bug that must break one property.

## 3. Runs

| Run | Checks | Instance | Distinct states |
|---|---|---|---|
| PublisherCrash | TypeOK, NeverCorrupted, ImplementsRegister | every pair of slots of three versions, all phases and every defect; sequences up to 4; ordered directory | 107,756 |
| PublisherPowerLoss | PowerLossKeepsAuthority, PublishedIsAuthoritative, LeasedClassificationExact | pairs a publisher leaves, one reader, unordered directory | 453,209 |
| Lease | TypeOK, ValidLeaseExcludesOthers, UndisturbedExclusion, TakeoverFindsMissing, AcquisitionReturns (liveness) | 2 processes, 2 directories, 2 lock files, 1 attempt before the deadline, 2 outside changes | 422,396 |
| NamespaceSafety | TypeOK, CurrentIsComplete, ReaderSeesFinishedIndex, AlwaysRepairable, TombstoneOutlivesRebuild, OnlyInitRevives, SuccessIsReal | 2 processes, six starting namespaces, one removal of the directory | 1,149,559 |
| NamespaceEnds | CommandsEnd (liveness) | 2 processes from an outdated index | 32,536 |
| Rendezvous | TypeOK, OneOwner, ServingReachable, UninitLeavesNoDaemon | 3 processes, any commands, clean directory or a dead daemon's leftovers | 771,819 |
| StaleClear | StaleClearSparesTheLiving, violated | 2 processes, see section 5 | |
| Sessions | TypeOK, DrainedIsQuiet, LiveClientKept, ControlAnswered, DeadClientsReaped (the last two liveness) | 2 connections: one announces its host or stays silent, one announces its host or sends a shutdown frame; unix | 271,938 |
| Watcher | TypeOK, NoForgottenChange, RecoveryScheduled, ChangeIndexed, StopEnds (the last two liveness) | 2 paths, 2 changes, 2 config edits, batches above 1 path are bursts, 2 errors disable; with and without the drift sentinel | 528,563 |
| Proxy | ProxyTypeOK, NoReplyLost, ProxyReturns (liveness) | `initialize`, `tools/list` and a `response` in any order, with and without half-close | 466,584 |
| ProxyOrphaned | OrphanExits (liveness), violated | one `tools/call`, see section 5 | |
| Broker | TypeOK, OneStart | 3 callers, 2 projects, 1 slot | 730 |

Why the bounds are enough to be interesting: a publication needs sequences n
and n+1, the classifier's corner cases need equal, adjacent and last sequence
numbers, all within 0..4. Lease conflicts need a holder and a contender that
creates, takes over or validates; two outside changes let the contender meet a
second directory or lock file and let the first directory return while leases
of both are held. Identities are interchangeable, so the run gives them out in
one order (`IdentitiesInOrder`); an acquisition that waits only because the
instance has none left is set aside (`OutOfIdentities`). The proofs of section 4
cover every number of processes and changes. In IndexNamespace two
processes already give every pair of commands in every interleaving; `SequenceBound`
lets a namespace go through removal, rebuild and a second command after it
(`SequenceBound` stops new writers, never one already running). The starting
namespaces are: none, the previous version's index complete and half built, one
the previous version removed, a directory copied from another project, and a
database without state. All three constants are bounds of the model, not of the code.

In DaemonRendezvous each process runs one command; three give an owner, a
contender and an intruder, and symmetry is sound because no step orders pids.
Deadlock is not checked there: when every process has ended, the system stops;
the same holds for the daemon, the watcher and the proxy once they have ended.

In DaemonSessions two connections give a session that drains beside the one that
asked for the drain, a descriptor freed by one and got by the other, and a live
client beside a dead one; each first line the properties tell apart is sent by
one of them. In ProjectWatcher the two limits of the code (500 paths, 5 errors)
are 1 and 2, so that bursts and disabling happen with two paths; two changes let
a file change again while it is synced, two edits switch watching off and on. In
DaemonProxy the three lines are the ones the pump treats differently: answered
and forwarded, answered or forwarded (a `tools/list` that comes before
`initialize` or names its protocol version; after `server/discover` it is always
forwarded, which adds no other outcome), and recorded without ever being
answered. In ProjectServices three
callers are what a failed start needs: a waiter on the old gate and a newcomer.

Fairness, where liveness is checked, is weak fairness of one process's own steps:
the operating system keeps scheduling a live process. Nothing is assumed about
other processes: they may hold a lease for ever, which is why the deadlines
(`TimedOut`) are what the liveness properties depend on. The loops of a bulk
load or a sync are finite because the file list is. A killed command counts as
ended.

In DaemonSessions every task, thread and the loop are weakly fair; taking a
shutdown request and a due sweep are strongly fair, because `select!` picks
among ready branches at random and none is passed over for ever. Deadlines and
timeouts (`DrainDeadline`, `DoneTimeout`, `ZeroBudget`) are not assumed to happen:
ControlAnswered shows that they are not needed. In ProjectWatcher the loop's
thread is weakly fair, and a retried sync strongly: other writers do not hold
the index every time it is tried, neither when it reads nor when it commits;
where the drift sentinel runs, its check is part of the loop and is assumed to
get its read of the index. ChangeIndexed asks for the commit of every change that
was reported, on every platform, and of unreported ones only where the sentinel
runs: elsewhere nothing looks for them. In DaemonProxy the three threads are
weakly fair and a daemon that has not stalled greets, answers and closes. The host
may stop anything it does. ProxyReturns then names the four places where a peer
that stays and does nothing holds the main thread for ever (`Held`): the hello
where no timeout bounds it (not unix), the write of a local answer to a full
pipe, the write of a line to a full socket, and on unix the join of the down pump,
which waits for a stalled daemon or in a write to the full pipe. Each of the four
is needed: without it the run finds a proxy that never returns. The wait for
owed replies is none of them, because of the budget.

## 4. What is proved

TLAPS proves the following for every number of processes, every set of starting
namespaces that satisfies the named assumptions, and every bound.

* `IndexStateProofs`: `PublicationSound`, whatever two slots are on disk: if the
  publisher's checks admit a phase, then unlinking the inactive slot keeps authority
  and status, the rename makes the new record the authority, and the namespace has
  the published phase unless the last sequence number is used up. And
  `AuthorityOutranks`: the classifier's nested choice is the reference one, the validated
  slot that outranks the other by protocol or by sequence (`Outranks`).
* `StatePublisherProofs`: `TypeCorrect`, `PublishedAuthority`, `PowerLossSafe`,
  `LeasedReadExact`, `PublicationNeverCorrupts`, and the refinement
  `PublisherImplementsRegister`. The invariant carries the pre-checks to the
  rename (`PreparingInv`: between the checks and the rename nobody changes the
  slots, so what was chosen is still right), relates what a leased reader has read
  to the slots (`SeenInv`, from `LeaseInv`), and describes what a power loss may
  leave: `SettledInv` says that up to the unlink nothing is pending and afterwards
  only the inactive slot is; `LimboInv` covers the case that earlier publications
  ended before their directory sync: every file in `limbo` was validated or
  written by the publisher and no two slots share a sequence number, which is why
  even then a power loss leaves a pair that is not Corrupt. The refinement is
  proved step by step under the hypothesis `OrderedDirectory` and does not hold
  without it (section 6).
* `IndexLeaseProofs`: `TypeCorrect`, `ValidLeaseExcludes`, `Undisturbed` and
  `TakeoverMissing`. The stated properties are not inductive: they speak of lease
  holders, and the steps before holding decide. The invariant adds
  `KernelExclusion` (kernel locks on one file never conflict), `LocalFacts` (what
  a process at each step knows of its handle and of the identities it has seen)
  and `PathSettled` (without intrusion a root, once there, stays, and every open
  handle is the file at the path).
* `IndexNamespaceProofs`: `TypeCorrect`, `CurrentComplete`, `ReaderSound` and
  `Repairable`. The invariant adds `LeaseExclusion` (one exclusive holder and no
  reader beside it), `DatabaseSound` (a Current namespace has a stamped main file,
  and a log beside it is stamped and unmarked) and `StepFacts` (what the exclusive
  holder has already established: not Current while it destroys and builds, log
  complete before the stamp, stamp in the main file before the close).
  The lemmas behind `PublicationSound` (`ClearedKeeps`,
  `ReplacedPublishes`) carry it over the rename. Further the action
  properties `InitAloneRevives`, `MarkerOutlivesRebuild` and `ReportedSuccess`,
  from `CommandInv`: `IInv` with `CommandFacts` (which command can be at a step,
  and what it publishes there) and `OwnFacts` (what the holder of the lease knows:
  an updater was admitted without a marker, an uninit has published and marked
  before it deletes, an init that drops the marker stands on a Current namespace).
  The last two theorems have the hypothesis `[]SequencesRemain`: no slot has
  reached `MaxSequence`, 2^64 - 1 in the code. It is needed: the publication that
  uses the last number is reported as a success and leaves a Corrupt namespace.
* `DaemonRendezvousProofs`: `TypeCorrect`, `RecordExcludes`, `DaemonReachable` and
  `UninitAfterDaemons`, for any number of processes. That records exclude is not
  inductive: a claimant owns nothing yet when it has created the placeholder, and
  a rewrite renames over what it read earlier. `OwnerInv` adds that the record is
  the one owner's, or empty and the one claimant's, as long as no live process's
  record was removed; `GateInv`, that daemons past the startup gate and uninit
  exclude each other; `UninitInv`, that while uninit waits the daemon it asked to
  stop is the only one; `ReachInv`, that the socket file of a listener is its own
  from the bind on. Each step is first summarised by what it may do to the record
  and to the socket files, and the parts of the invariant follow from the
  summaries.
* `DaemonSessionsProofs`: `TypeCorrect`, `CompleteDrainIsQuiet` and the action
  property `LiveClientsStay`, for any number of connections. The types rest on a
  counting argument (`DescriptorLeft`: there is one descriptor more than the other
  connections can have, so an accepted one always gets one). The quiet of a
  complete drain is kept because of two facts the invariant adds: the loop has
  raised the closing signal and the cancellation before it polls (`LoopFacts`),
  and a session is registered from its registration until it leaves
  (`SessionFacts`), so an empty registry means that nobody is past the question
  whether the daemon is closing. A live client stays because every socket a sweep
  cuts is named by the entry of a session it judged dead (`SweepSpares`), and the
  timers' exits look at the registry again.
* `ProjectWatcherProofs`: `TypeCorrect`, `RecoveryIsScheduled` and
  `NothingForgotten`, for any paths, limits and number of changes. The invariant
  adds `AttemptFacts`: while a sync runs nothing is pending beside its batch, so
  putting the batch back overwrites nothing, and what it has read is within its
  scope; and `RecoveryRuns`: the sync that runs during a recovery is the full one.
* `McpProofs`, about ProjectServices: `TypeCorrect` (with the bound on reserved
  projects) and `StartedOnce`, for any callers, projects and limit. The invariant
  adds `GateKept` (from taking its reference to being done with the maps a
  caller's gate is the one in the map) and `NoneRetained`. `LastUserIsAlone`
  carries it over the removal of a gate: a count of two leaves no reference for
  anybody else.
* `McpProofs`, about DaemonProxy: `ProxyTypeCorrect` (no request is answered
  twice) and `ProxyLosesNoReply`, for any set of the methods the pump knows. The
  invariant follows a request through the proxy: taken once from the host
  (`TakenOnce`; one in hand to be answered locally is nowhere else), at one place between the pump and the host (`OnePlace`), not
  delivered while in transit except `initialize`, whose second reply is suppressed
  (`AnsweredOnce`), and answered or in the ledger; the ledger is abandoned only
  over a stream that has ended and is read to its end (`NothingLost`).

Assumptions: `MaxSequenceAssumption` (a natural number above zero),
`StatePublisherAssumption` (slots of the right type), `IndexLeaseAssumption`
(`None` is no identity, the bounds are naturals), `IndexNamespaceAssumption`
(starting namespaces are well typed and sound: one that is Current has a
finished, stamped database, as every earlier run of the program leaves it),
`DaemonRendezvousAssumption` (the dead pid, the missing and the empty file are
told apart from processes and records), `DaemonSessionsAssumption` (finitely
many connections), `ProjectWatcherAssumption` (natural limits, at least one
error before the watcher is disabled), `ProjectServicesAssumption` (finitely
many callers and projects, a gate for each of them), `LinesAssumption` (the
methods). TLC evaluates each of them in the runs. The inductive invariants were
checked with TLC on the runs' instances before they were proved.

Every invariant, action property and refinement that a passing run checks is
stated by a theorem. Only model-checked is liveness, which is out of the
prover's reach: AcquisitionReturns, CommandsEnd, ControlAnswered,
DeadClientsReaped, ChangeIndexed, StopEnds and ProxyReturns.

## 5. Findings

* **A stale clear can delete a live record** (run StaleClear). A comment in
  `clear_stale_daemon_lock` says it never removes a lock held by a live pid. It
  checks and then deletes by path: two processes that both read the dead record
  may go on one after the other, and the second deletes what the first has
  published meanwhile. A second daemon can then claim the record. The writer
  lock keeps it from binding, but on that path its own cleanup removes
  the socket at the first candidate path, which is the first daemon's.
* **The watchdog does not end a blocked proxy** (run ProxyOrphaned). The module
  comment of `proxy.rs` says the watchdog forces the proxy to exit if the host
  dies without closing stdin. It raises a flag that the pump reads only after
  the next line. If another process still holds the pipe's other end, the proxy
  stays in its read, and its daemon session with it, until the daemon sweeps the
  session of the dead host; then the down pump ends, the read does not.

Met while modelling and not checked by a run of their own; the models behave
like the code:

* Comments in `connection.rs:676` and `main.rs:1611` say a Current namespace whose
  writer was killed is recovered by running `codegraph init` again. `cmd_init`
  first opens the index for reading, which refuses the leftover log, and init
  reports that error. What repairs it is `sync`, `index` or a daemon start;
  AlwaysRepairable is stated and proved with that disjunct.
* `project_service.rs:78` says its existence check precedes every action, so that a
  catch-up never creates `.codegraph`. The check is not repeated: if the
  directory is removed before the sync starts, the sync creates it.
* `lock.rs:199` treats an empty `daemon.pid` as a publication in flight and never
  deletes one. A claimer killed between creating the placeholder and the rename
  leaves the empty file, which starters, the heal and `codegraph unlock` all
  leave alone; uninit removes it.
* `watcher.rs:235` says descriptor exhaustion degrades the watcher permanently. If
  it strikes while the watcher is recovering, the loop ends and the health it
  reports stays "recovering"; a watcher marked disabled at start for the same
  reason keeps its loop, and a later recovery reports it healthy.
* `project_services.rs:146` says a failed start must not consume a slot for ever.
  The guard is dropped before the reference to the gate, so a waiter that fails
  at once can still count three references and leave the reservation in the map.
* `proxy.rs:54-61` says the reply budget exists "so a daemon that accepted the
  connection and then stalled forever cannot wedge the proxy's teardown". On unix
  `down.join()` (`proxy.rs:262`) comes after it and has no bound: a stalled daemon,
  or a host that keeps its pipe open and does not read, holds the proxy there.
  This is the last disjunct of `Held`; ProxyReturns fails without it.
* `session.rs:678` bounds the wait for the daemon's hello only on unix. Elsewhere a
  daemon that stalls before it holds the proxy before any of its threads exist
  (the first disjunct of `Held`).
* `proxy.rs:507` says only a request owes the host a reply; the pump records every
  forwarded line with an id, also a host's response. Where the daemon's stream
  does not end by itself, such a session spends the whole budget and reports that
  not every request was answered.

## 6. Limits of what is claimed

* A classification without a lease may be torn by a publication and report a
  superseded status or Missing. Only leased ones are exact; the model's probes
  behave accordingly and no property relies on them.
* On a directory that persists operations in any order, a publication that
  ended before its directory sync followed by another one and a power loss may
  lose both records. PowerLossKeepsAuthority is stated for the publications
  since the last completed sync (`settled`).
* The publication that reaches the last sequence number makes the
  namespace Corrupt by the classifier's own rule. NeverCorrupted excludes it.
* Between `validate_exclusive` and the file operation after it the directory
  may be replaced; the code disclaims the window and so do the models.
* When `recover_stale_current_sidecars` finds that the state changed it returns an
  error rather than "nothing to do"; its caller only logs it, so the model
  has one outcome.
* DaemonRendezvous: pids are not reused, cleanup's unlinks succeed, records have a
  socket path (no legacy plain-pid file), Unix sockets only. Whether dropping
  a listener unlinks its path is up to the socket library, so the model allows both.
* In IndexNamespace the directory is removed only while no lease is held.
* DaemonSessions: three windows of the code are in the model and named where a
  property sets them aside. `Mistaken`: a session closes its socket before it
  leaves the registry, and a sweep in between shuts down whichever connection
  got the number. `Deaf`: a session that subscribes after the closing signal was
  raised has marked it as seen; on unix the cut of its socket ends it, on other
  platforms only its client does. With a zero drain budget the answer is a
  sample taken before the signal, and a session may register after it
  (`drained = "sampled"`). Only the first shutdown request is acknowledged; a
  second one's connection closes with the process. Further: the daemon started
  without MCP (tests only) is left out, and supervision, the install check and
  accept errors are one action.
* ProjectWatcher: a change in a directory whose watch could not be registered is
  one no event reports (`silent`). Without the drift sentinel, that is on every
  platform but Windows, nothing finds it until the file is reported again or a full
  sync runs for another reason; ChangeIndexed promises nothing for it there.
* DaemonProxy: a line's id is its method, so ids are not reused; a write to a
  daemon that is gone fails at once. A peer that reads again after a while only
  delays the proxy, so `full` and `stalled` last. ProxyReturns says nothing of a
  proxy that `Held` describes, and OrphanExits is stated for peers that do neither.
* A directory whose creator was killed before the lock file existed stays
  without one until a takeover; ordinary acquisitions refuse it. No property says
  that somebody takes it over.
* ProjectServices: `Recheck` accepts whatever handle is there, as the code does,
  without asking again whether it is live.

## 7. Not modelled, and the plan

1. **DaemonRendezvous**: an abstract module (one owner at a time) and its
   refinement, and that a start or heal ends.
2. IndexNamespace's `Drain` step refined by DaemonSessions, and its atomic lease by
   IndexLease.

Not modelled: the lease keeper (a reconnect loop without state of its own beyond
a backoff; what it keeps alive is a DaemonSessions connection) and spawning (a
process start and a poll of the record, which DaemonRendezvous has as a starter).

Left out for good: extraction, resolution, graph queries, SQL text, ranking and
text output (no control state, or SQLite's business), advisory registries that
only `status` lists, UI and benchmarks, and change detection inside a sync (which files
are re-extracted), which the namespace's properties do not tell apart.
