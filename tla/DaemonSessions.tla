--------------------------- MODULE DaemonSessions ---------------------------
(***************************************************************************)
(* One daemon from its first accepted connection to its exit: the accept   *)
(* loop of codegraph-daemon/src/lib.rs, the session tasks and registry of  *)
(* session.rs, and the lease loops it drains (SyncCancellation in          *)
(* codegraph-watch/src/sync.rs).                                           *)
(*                                                                         *)
(* The loop runs beside its session tasks: every lock of the registry is   *)
(* taken and dropped within one step of somebody, and what a step read may *)
(* be out of date in the next.  The loop's steps are named by `loop':      *)
(*                                                                         *)
(*   select     waiting: a connection, a control request or a tick         *)
(*   idleCheck  the second half of a tick                                  *)
(*   cancel, signal, cut, draining, cleanup, waitDone, stopped             *)
(*                                                                         *)
(* Time is the age of the last connect or disconnect: 0 recent, 1 past the *)
(* idle timeout, 2 past the max-idle backstop too.                         *)
(***************************************************************************)
EXTENDS Naturals, Sequences, FiniteSets

CONSTANTS Conns,       \* client connections
          NoConn,      \* no connection
          Says,        \* per connection: the first lines its client may send
          ForceClose   \* the build can shut a session's socket down (unix)

\* A first line: an MCP request, a client hello with its host's pid, an
\* authorized shutdown frame, a control frame this daemon must refuse, none.
Lines == {"request", "hello", "shutdown", "foreign", "nothing"}

ASSUME DaemonSessionsAssumption ==
  /\ IsFiniteSet(Conns) /\ NoConn \notin Conns
  /\ Says \in [Conns -> SUBSET Lines]
  /\ ForceClose \in BOOLEAN

VARIABLES
  loop,        \* the accept loop's step
  age,         \* see above
  idleRead,    \* the age a tick read
  accepted,    \* first_connection_seen
  closing,     \* the registry's closing signal
  cancelled,   \* the lease loops' cancellation
  idleAtShutdown,
  drained,     \* the drain's result: "no", or by which rule it is complete
  requests,    \* control requests sent to the loop and not received
  pending,     \* the request it received
  conn,        \* per connection: its socket, its peer, its session task
  entry,       \* per connection: its entry of the session registry
  catchUp,     \* the start's one background sync
  watcher      \* the watcher's thread, its syncs included

tick == <<age, idleRead, accepted>>
drain == <<closing, cancelled, idleAtShutdown, drained>>
control == <<requests, pending>>
sync == <<catchUp, watcher>>
vars == <<loop, tick, drain, control, conn, entry, sync>>

-----------------------------------------------------------------------------
(* Data.                                                                   *)

Fds == 0..Cardinality(Conns)   \* 0: none

SessionSteps == {"none", "backlog", "spawned", "registered", "subscribe", "reading",
                 "serving", "leaving", "awaitAck", "reply", "ended"}

Conn == [at : SessionSteps,
         says : Lines,                     \* what its client sent and it has not read
         peer : {"up", "gone"},            \* the client's end of the socket
         host : {"alive", "dead"},         \* the process the client speaks for
         fd : Fds,
         cut : BOOLEAN,                    \* the socket was shut down here
         told : BOOLEAN]                   \* it subscribed when `closing' was already set

NewConn == [at |-> "none", says |-> "nothing", peer |-> "up", host |-> "alive",
            fd |-> 0, cut |-> FALSE, told |-> FALSE]
EndedConn == [NewConn EXCEPT !.at = "ended"]

NoEntry == [present |-> FALSE, pid |-> FALSE, fd |-> 0]
Entry == [present : BOOLEAN, pid : BOOLEAN, fd : Fds]

CatchUpSteps == {"before", "entered", "leased", "finished"}

LoopSteps == {"select", "idleCheck", "cancel", "signal", "cut", "draining", "cleanup",
              "waitDone", "stopped"}

\* Types, and that a session that reads or serves is in the registry, where the
\* drain, the idle timer and the sweep look for it.
TypeOK ==
  /\ loop \in LoopSteps
  /\ age \in 0..2 /\ idleRead \in 0..2
  /\ {accepted, closing, cancelled, idleAtShutdown} \subseteq BOOLEAN
  /\ drained \in {"no", "sampled", "polled"}
  /\ requests \in Seq(Conns) /\ pending \in Conns \union {NoConn}
  /\ conn \in [Conns -> Conn]
  /\ entry \in [Conns -> Entry]
  /\ catchUp \in CatchUpSteps /\ watcher \in {"running", "finished"}
  /\ \A c \in Conns : conn[c].at \in {"subscribe", "reading", "serving"} => entry[c].present

Active == {c \in Conns : entry[c].present}
ProvablyAlive(c) == entry[c].present /\ entry[c].pid /\ conn[c].host = "alive"
DeadSessionIds == {c \in Active : entry[c].pid /\ conn[c].host = "dead"}
Eof(c) == conn[c].peer = "gone" \/ conn[c].cut

At(c, step) == conn[c].at = step
Goto(c, step) == conn' = [conn EXCEPT ![c].at = step]

\* The kernel gives out the lowest descriptor that is free.
FreeFd == LET free == Fds \ ({0} \union {conn[c].fd : c \in Conns})
          IN CHOOSE f \in free : \A g \in free : f <= g

Init ==
  /\ loop = "select"
  /\ age = 0 /\ idleRead = 0 /\ accepted = FALSE
  /\ closing = FALSE /\ cancelled = FALSE /\ idleAtShutdown = FALSE /\ drained = "no"
  /\ requests = <<>> /\ pending = NoConn
  /\ conn = [c \in Conns |-> NewConn]
  /\ entry = [c \in Conns |-> NoEntry]
  /\ catchUp = "before" /\ watcher = "running"

-----------------------------------------------------------------------------
(* The clients.                                                            *)

\* `line' is what the client sends first; a silent one sends nothing.
Connect(c, line) ==
  /\ At(c, "none") /\ line \in Says[c] /\ loop \in {"select", "idleCheck"}
  /\ conn' = [conn EXCEPT ![c].at = "backlog", ![c].says = line]
  /\ UNCHANGED <<loop, tick, drain, control, entry, sync>>

\* Noticed once the task reads or writes again; see Greet for before that.
Disconnect(c) ==
  /\ conn[c].at \in {"reading", "serving", "awaitAck", "reply"} /\ conn[c].peer = "up"
  /\ conn' = [conn EXCEPT ![c].peer = "gone"]
  /\ UNCHANGED <<loop, tick, drain, control, entry, sync>>

\* The announced process dies; whoever holds the socket for it may live on.
HostDies(c) ==
  /\ entry[c].pid /\ conn[c].host = "alive"
  /\ conn' = [conn EXCEPT ![c].host = "dead"]
  /\ UNCHANGED <<loop, tick, drain, control, entry, sync>>

Age ==
  /\ age < 2 /\ loop = "select"
  /\ age' = age + 1
  /\ UNCHANGED <<loop, idleRead, accepted, drain, control, conn, entry, sync>>

-----------------------------------------------------------------------------
(* The session task of a connection.                                       *)

\* Mutant: the registration's guard is dropped at once.
RegisterDropsGuard(c) ==
  /\ At(c, "spawned")
  /\ Goto(c, "registered")
  /\ UNCHANGED <<loop, tick, drain, control, entry, sync>>

\* start_session: the entry is inserted first, last_active bumped after it.
Register(c) ==
  /\ At(c, "spawned")
  /\ entry' = [entry EXCEPT ![c] = [NoEntry EXCEPT !.present = TRUE]]
  /\ Goto(c, "registered")
  /\ UNCHANGED <<loop, tick, drain, control, sync>>

\* The socket is closed when the task drops it; the guard is dropped after.
CloseSocket(c) == conn' = [conn EXCEPT ![c].at = "leaving", ![c].fd = 0]

Recorded(c) == IF ForceClose THEN [entry EXCEPT ![c].fd = conn[c].fd] ELSE entry

\* Mutant: the task serves without having asked whether the daemon is closing.
GreetUnchecked(c) ==
  /\ At(c, "registered")
  /\ age' = 0
  /\ entry' = Recorded(c)
  /\ CloseSocket(c) \/ Goto(c, "subscribe")
  /\ UNCHANGED <<loop, idleRead, accepted, drain, control, sync>>

\* The descriptor is recorded and the hello written, which fails if the client
\* is gone; then is_closing is asked.
Greet(c) ==
  /\ At(c, "registered")
  /\ age' = 0
  /\ entry' = Recorded(c)
  /\ \/ CloseSocket(c)
     \/ ~closing /\ Goto(c, "subscribe")
  /\ UNCHANGED <<loop, idleRead, accepted, drain, control, sync>>

\* closing_signal and borrow_and_update: the value of now counts as seen.
Subscribe(c) ==
  /\ At(c, "subscribe")
  /\ conn' = [conn EXCEPT ![c].at = "reading", ![c].told = closing]
  /\ UNCHANGED <<loop, tick, drain, control, entry, sync>>

\* Mutant: announcing the host replaces the entry and forgets the descriptor.
ReadDataReplacesEntry(c) ==
  /\ At(c, "reading")
  /\ conn[c].says \in {"request", "hello"} \/ Eof(c)
  /\ entry' = IF conn[c].says = "hello"
              THEN [entry EXCEPT ![c] = [present |-> TRUE, pid |-> TRUE, fd |-> 0]] ELSE entry
  /\ conn' = [conn EXCEPT ![c].at = "serving", ![c].says = "nothing"]
  /\ UNCHANGED <<loop, tick, drain, control, sync>>

\* The first line, or the end of input in its place, is served as MCP.
ReadData(c) ==
  /\ At(c, "reading")
  /\ conn[c].says \in {"request", "hello"} \/ Eof(c)
  /\ entry' = IF conn[c].says = "hello" THEN [entry EXCEPT ![c].pid = TRUE] ELSE entry
  /\ conn' = [conn EXCEPT ![c].at = "serving", ![c].says = "nothing"]
  /\ UNCHANGED <<loop, tick, drain, control, sync>>

\* closing.changed(), raced against the first line and against serving.
ObserveClosing(c) ==
  /\ conn[c].at \in {"reading", "serving"}
  /\ closing /\ ~conn[c].told
  /\ CloseSocket(c)
  /\ UNCHANGED <<loop, tick, drain, control, entry, sync>>

ServeEnds(c) ==
  /\ At(c, "serving") /\ Eof(c)
  /\ CloseSocket(c)
  /\ UNCHANGED <<loop, tick, drain, control, entry, sync>>

\* Drop of the guard: out of the registry, and last_active bumped.
Unregister(c) ==
  /\ At(c, "leaving")
  /\ entry' = [entry EXCEPT ![c] = NoEntry]
  /\ age' = 0
  /\ conn' = [conn EXCEPT ![c] = EndedConn]
  /\ UNCHANGED <<loop, idleRead, accepted, drain, control, sync>>

\* A control frame drops the guard and keeps the connection.  A refused one is
\* answered at once; an authorized one is handed to the loop.
ReadControl(c) ==
  /\ At(c, "reading") /\ conn[c].says \in {"shutdown", "foreign"}
  /\ entry' = [entry EXCEPT ![c] = NoEntry]
  /\ age' = 0
  /\ IF conn[c].says = "foreign"
     THEN conn' = [conn EXCEPT ![c] = EndedConn] /\ UNCHANGED requests
     ELSE Goto(c, "awaitAck") /\ requests' = Append(requests, c)
  /\ UNCHANGED <<loop, idleRead, accepted, drain, pending, sync>>

\* shutdown_reply_line(drained), then `done'; a client that is gone ends it too.
Reply(c) ==
  /\ At(c, "reply")
  /\ conn' = [conn EXCEPT ![c] = EndedConn]
  /\ UNCHANGED <<loop, tick, drain, control, entry, sync>>

Session(c) ==
  \/ Register(c) \/ Greet(c) \/ Subscribe(c) \/ ReadData(c) \/ ReadControl(c)
  \/ ObserveClosing(c) \/ ServeEnds(c) \/ Unregister(c) \/ Reply(c)

-----------------------------------------------------------------------------
(* The lease loops: the watcher's syncs and the one catch-up.              *)

\* A sync counts itself before it asks whether it was cancelled.
EnterSync ==
  /\ catchUp = "before"
  /\ catchUp' = "entered"
  /\ UNCHANGED <<loop, tick, drain, control, conn, entry, watcher>>

\* Mutant: the cancellation is not asked before the lease is taken.
CheckCancelledLate ==
  /\ catchUp = "entered"
  /\ catchUp' = "leased"
  /\ UNCHANGED <<loop, tick, drain, control, conn, entry, watcher>>

CheckCancelled ==
  /\ catchUp = "entered"
  /\ catchUp' = IF cancelled THEN "finished" ELSE "leased"
  /\ UNCHANGED <<loop, tick, drain, control, conn, entry, watcher>>

\* The lease is refused, or granted and the sync done with it.
EndSync ==
  /\ catchUp = "leased"
  /\ catchUp' = "finished"
  /\ UNCHANGED <<loop, tick, drain, control, conn, entry, watcher>>

\* The watcher's thread ends its sync and takes the Stop begin_shutdown sent.
WatcherStops ==
  /\ cancelled /\ watcher = "running"
  /\ watcher' = "finished"
  /\ UNCHANGED <<loop, tick, drain, control, conn, entry, catchUp>>

-----------------------------------------------------------------------------
(* The accept loop.                                                        *)

Accept(c) ==
  /\ loop = "select" /\ At(c, "backlog")
  /\ accepted' = TRUE
  /\ conn' = [conn EXCEPT ![c].at = "spawned", ![c].fd = FreeFd]
  /\ UNCHANGED <<loop, age, idleRead, drain, control, entry, sync>>

\* The loop is left; the drain follows whatever the reason was.
Break == loop' = "cancel"

ReceiveRequest ==
  /\ loop = "select" /\ requests # <<>>
  /\ pending' = Head(requests) /\ requests' = Tail(requests)
  /\ Break
  /\ UNCHANGED <<tick, drain, conn, entry, sync>>

\* The shutdown flag, an accept error, supervision lost, install replaced.
StopRequested ==
  /\ loop = "select"
  /\ Break
  /\ UNCHANGED <<tick, drain, control, conn, entry, sync>>

StartupBackstop ==
  /\ loop = "select" /\ ~accepted
  /\ Break
  /\ UNCHANGED <<tick, drain, control, conn, entry, sync>>

\* shutdown_session of each: the descriptor the entry names is shut down,
\* whichever connection has that descriptor by now.
ShutdownSessions(S) ==
  LET fds == {entry[c].fd : c \in S} \ {0}
  IN conn' = [d \in Conns |-> IF conn[d].fd \in fds
                              THEN [conn[d] EXCEPT !.cut = TRUE] ELSE conn[d]]

\* A tick: the client sweep if it is due, then millis_since_active, which
\* decides the rest of the tick.
Tick(due) ==
  /\ loop = "select"
  /\ ShutdownSessions(IF due THEN DeadSessionIds ELSE {})
  /\ idleRead' = age
  /\ loop' = "idleCheck"
  /\ UNCHANGED <<age, accepted, drain, control, entry, sync>>

\* Mutant: past the backstop no client counts as alive.
BackstopExitAlways == idleRead = 2

\* backstop_should_exit, asked once the idle time is past the backstop.
BackstopExit == idleRead = 2 /\ \A c \in Conns : ~ProvablyAlive(c)

\* Past the backstop the dead are swept once more; then the two idle exits.
IdleCheck ==
  /\ loop = "idleCheck"
  /\ ShutdownSessions(IF idleRead = 2 THEN DeadSessionIds ELSE {})
  /\ IF BackstopExit \/ (Active = {} /\ idleRead > 0)
     THEN Break ELSE loop' = "select"
  /\ idleRead' = 0
  /\ UNCHANGED <<age, accepted, drain, control, entry, sync>>

\* Read one after the other in the code.  The first two are stable once the
\* loops are cancelled, so that the last one decides.
Drained == watcher = "finished" /\ catchUp \notin {"entered", "leased"} /\ Active = {}

\* lease_loops.cancel, the watcher's begin_shutdown, idle_at_shutdown.
Cancel ==
  /\ loop = "cancel"
  /\ cancelled' = TRUE
  /\ idleAtShutdown' = Drained
  /\ loop' = "signal"
  /\ age' = 0                            \* not read any more
  /\ UNCHANGED <<idleRead, accepted, closing, drained, control, conn, entry, sync>>

\* close_all_sessions: the signal first,
Signal ==
  /\ loop = "signal"
  /\ closing' = TRUE
  /\ loop' = "cut"
  /\ UNCHANGED <<tick, cancelled, idleAtShutdown, drained, control, conn, entry, sync>>

\* then end of file for the sessions that are registered after it.
CutAll ==
  /\ loop = "cut"
  /\ ShutdownSessions(Active)
  /\ loop' = "draining"
  /\ UNCHANGED <<tick, drain, control, entry, sync>>

Result(complete) ==
  /\ drained' = complete
  /\ loop' = "cleanup"
  /\ UNCHANGED <<tick, closing, cancelled, idleAtShutdown, control, conn, entry, sync>>

DrainPoll == loop = "draining" /\ Drained /\ Result("polled")

DrainDeadline == loop = "draining" /\ ~Drained /\ Result("no")

\* With a zero budget the answer is what was sampled.
ZeroBudget == loop = "draining" /\ Result(IF idleAtShutdown THEN "sampled" ELSE "no")

\* The runtime and the process end, and every task, thread and socket with them.
Exit ==
  /\ loop' = "stopped"
  /\ conn' = [c \in Conns |-> EndedConn]
  /\ entry' = [c \in Conns |-> NoEntry]
  /\ catchUp' = "finished" /\ watcher' = "finished"
  /\ requests' = <<>>
  /\ UNCHANGED <<tick, drain, pending>>

\* The watcher is joined (it is finished) or detached; cleanup_owned_rendezvous;
\* the request, if one stopped the loop, gets the result.
Acknowledge ==
  /\ loop = "cleanup" /\ pending # NoConn
  /\ Goto(pending, "reply")
  /\ loop' = "waitDone"
  /\ UNCHANGED <<tick, drain, control, entry, sync>>

Leave ==
  /\ loop = "cleanup" /\ pending = NoConn
  /\ Exit

WaitDone ==
  /\ loop = "waitDone" /\ At(pending, "ended")
  /\ Exit

DoneTimeout ==
  /\ loop = "waitDone" /\ ~At(pending, "ended")
  /\ Exit

Draining == Cancel \/ Signal \/ CutAll \/ DrainPoll \/ Acknowledge \/ Leave \/ WaitDone

-----------------------------------------------------------------------------
Next ==
  \/ \E c \in Conns : \/ \E line \in Lines : Connect(c, line)
                      \/ Disconnect(c) \/ HostDies(c) \/ Accept(c) \/ Session(c)
  \/ EnterSync \/ CheckCancelled \/ EndSync \/ WatcherStops \/ Age
  \/ ReceiveRequest \/ StopRequested \/ StartupBackstop
  \/ \E due \in BOOLEAN : Tick(due)
  \/ IdleCheck \/ Draining \/ DrainDeadline \/ ZeroBudget \/ DoneTimeout

Spec == Init /\ [][Next]_vars

\* Tasks, threads and the loop keep running; select! picks a ready branch at
\* random, so a request or a due sweep is not passed over for ever; the
\* watcher takes messages before a due sync.  Nothing is assumed of clients and clocks.
Fairness ==
  /\ \A c \in Conns : WF_vars(Session(c))
  /\ WF_vars(CheckCancelled \/ EndSync) /\ WF_vars(WatcherStops)
  /\ SF_vars(ReceiveRequest) /\ SF_vars(Tick(TRUE))
  /\ WF_vars(IdleCheck \/ Draining)

FairSpec == Spec /\ Fairness

-----------------------------------------------------------------------------
(* Properties.                                                             *)

\* A drain reported as complete (the ack an uninit deletes the index after) is
\* one: from then on no session reads or serves and no sync has or awaits the
\* lease, whatever was accepted, registering or entering meanwhile.  A zero
\* budget promises only that nothing was registered or running at the sample.
DrainedIsQuiet ==
  drained = "polled" =>
    /\ \A c \in Conns : conn[c].at \notin {"subscribe", "reading", "serving"}
    /\ catchUp # "leased"

\* Another session still registers the descriptor that is this connection's now.
Mistaken(c) == \E d \in Conns \ {c} : entry[d].present /\ entry[d].fd # 0 /\ entry[d].fd = conn[c].fd

\* A client whose announced host is alive is not dropped by sweep, backstop or
\* idle timer: its socket is shut down only by a closing daemon (or for a
\* session that closed the same descriptor number and has not left the registry
\* yet), and the daemon does not leave for idleness.
LiveClientKept ==
  [][ \A c \in Conns : ProvablyAlive(c) /\ conn[c].peer = "up" =>
        /\ conn'[c].cut => conn[c].cut \/ closing \/ Mistaken(c)
        /\ loop' = "cancel" => loop # "idleCheck" ]_vars

\* A session that subscribed after the signal was raised, in a build that cannot
\* shut its socket down: only its client can end it.
Deaf(c) == ~ForceClose /\ conn[c].told /\ conn[c].at \in {"reading", "serving"}

\* Once a shutdown frame was accepted the daemon stops and the frame's session
\* with it; neither the drain deadline nor the wait for the reply is needed for
\* it, unless a session is deaf.
ControlAnswered ==
  (\E c \in Conns : At(c, "awaitAck")) ~> (loop = "stopped" \/ \E d \in Conns : Deaf(d))

\* A session whose announced host died ends although its socket stays open.
DeadClientsReaped ==
  \A c \in Conns : (ForceClose /\ entry[c].pid /\ conn[c].host = "dead") ~> At(c, "ended")

=============================================================================
