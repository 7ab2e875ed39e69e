------------------------ MODULE DaemonSessionsProofs ------------------------
(***************************************************************************)
(* Proofs about DaemonSessions, for any set of connections and for builds  *)
(* with and without forced close.                                          *)
(***************************************************************************)
EXTENDS DaemonSessions, FiniteSetTheorems, FunctionTheorems, WellFoundedInduction, TLAPS

-----------------------------------------------------------------------------
(* The inductive invariant.                                                *)

LoopTypes ==
  /\ loop \in LoopSteps
  /\ age \in 0..2 /\ idleRead \in 0..2
  /\ accepted \in BOOLEAN /\ closing \in BOOLEAN /\ cancelled \in BOOLEAN
  /\ idleAtShutdown \in BOOLEAN
  /\ drained \in {"no", "sampled", "polled"}
  /\ requests \in Seq(Conns) /\ pending \in Conns \union {NoConn}
  /\ catchUp \in CatchUpSteps /\ watcher \in {"running", "finished"}

ConnTypes == conn \in [Conns -> Conn] /\ entry \in [Conns -> Entry]

\* A connection that was not accepted has no descriptor; from its registration
\* until it leaves a session is in the registry.
SessionFacts ==
  \A c \in Conns :
    /\ conn[c].at \in {"none", "backlog"} => conn[c].fd = 0
    /\ conn[c].at \in {"registered", "subscribe", "reading", "serving"} => entry[c].present

\* The drain cancels the loops and raises the signal before it waits.
LoopFacts ==
  /\ loop \in {"signal", "cut", "draining", "cleanup", "waitDone", "stopped"} => cancelled
  /\ loop \in {"cut", "draining", "cleanup", "waitDone", "stopped"} => closing
  /\ drained # "no" => loop \in {"cleanup", "waitDone", "stopped"}

IInv == LoopTypes /\ ConnTypes /\ SessionFacts /\ LoopFacts

-----------------------------------------------------------------------------
(* Descriptors.                                                            *)

\* A set of naturals that is not empty has a least element.
LEMMA LeastNatural ==
  ASSUME NEW S, S \subseteq Nat, S # {}
  PROVE  \E n \in S : \A m \in S : n <= m
<1> DEFINE R == OpToRel(<, Nat)
<1>1. PICK n \in S : \A m \in S : <<m, n>> \notin R
  BY NatLessThanWellFounded, WFMin
<1>2. \A m \in S : ~(m < n)
  BY <1>1 DEF OpToRel
<1> QED BY <1>2

\* An accepted connection gets a descriptor: there is one more than the other
\* connections can have.
LEMMA DescriptorLeft ==
  ASSUME ConnTypes, NEW c \in Conns, conn[c].fd = 0
  PROVE  FreeFd \in Fds
<1> DEFINE N == Cardinality(Conns)
           Others == Conns \ {c}
           free == Fds \ ({0} \union {conn[d].fd : d \in Conns})
<1>1. IsFiniteSet(Conns) /\ N \in Nat
  BY DaemonSessionsAssumption, FS_CardinalityType
<1>2. IsFiniteSet(Others) /\ Cardinality(Others) = N - 1 /\ N # 0
  BY <1>1, FS_RemoveElement, FS_EmptySet
<1>3. free # {}
  <2> SUFFICES ASSUME free = {} PROVE FALSE
    OBVIOUS
  <2>1. \A k \in 1..N : \E d \in Others : conn[d].fd = k
    BY <1>1 DEF Fds
  <2> DEFINE g == [k \in 1..N |-> CHOOSE d \in Others : conn[d].fd = k]
  <2>2. \A k \in 1..N : g[k] \in Others /\ conn[g[k]].fd = k
    BY <2>1
  <2>3. g \in Injection(1..N, Others)
    BY <2>2 DEF Injection, IsInjective
  <2>4. Cardinality(1..N) <= Cardinality(Others)
    BY <2>3, <1>2, FS_Injection
  <2>5. Cardinality(1..N) = N
    BY <1>1, <1>2, FS_Interval
  <2> QED BY <2>4, <2>5, <1>1, <1>2
<1>4. free \subseteq Nat
  BY <1>1 DEF Fds
<1>5. \E f \in free : \A g \in free : f <= g
  BY <1>3, <1>4, LeastNatural
<1>6. FreeFd \in free
  BY <1>5 DEF FreeFd
<1> QED BY <1>6

LEMMA Constants ==
  /\ 0 \in Fds
  /\ NewConn \in Conn /\ EndedConn \in Conn
  /\ NewConn.at = "none" /\ EndedConn.at = "ended" /\ NewConn.fd = 0
  /\ NoEntry \in Entry
<1>1. 0 \in Fds
  BY DaemonSessionsAssumption, FS_CardinalityType DEF Fds
<1> QED BY <1>1 DEF NewConn, EndedConn, Conn, NoEntry, Entry, SessionSteps, Lines

\* Two fields of one connection change.
LEMMA TwoFields ==
  ASSUME ConnTypes, NEW c \in Conns, NEW at \in SessionSteps
  PROVE  /\ \A fd \in Fds : [conn EXCEPT ![c].at = at, ![c].fd = fd] \in [Conns -> Conn]
         /\ \A says \in Lines : [conn EXCEPT ![c].at = at, ![c].says = says] \in [Conns -> Conn]
         /\ \A told \in BOOLEAN : [conn EXCEPT ![c].at = at, ![c].told = told] \in [Conns -> Conn]
<1> DEFINE r == conn[c]
<1>0. r \in Conn /\ conn \in [Conns -> Conn]
  BY DEF ConnTypes
<1>1. ASSUME NEW new \in Conn
      PROVE  [conn EXCEPT ![c] = new] \in [Conns -> Conn]
  BY <1>0
<1>2. ASSUME NEW fd \in Fds
      PROVE  [conn EXCEPT ![c].at = at, ![c].fd = fd] \in [Conns -> Conn]
  <2>1. [r EXCEPT !.at = at, !.fd = fd] \in Conn
    BY <1>0 DEF Conn
  <2>2. [conn EXCEPT ![c].at = at, ![c].fd = fd]
          = [conn EXCEPT ![c] = [r EXCEPT !.at = at, !.fd = fd]]
    BY <1>0
  <2> QED BY <1>1, <2>1, <2>2
<1>3. ASSUME NEW says \in Lines
      PROVE  [conn EXCEPT ![c].at = at, ![c].says = says] \in [Conns -> Conn]
  <2>1. [r EXCEPT !.at = at, !.says = says] \in Conn
    BY <1>0 DEF Conn
  <2>2. [conn EXCEPT ![c].at = at, ![c].says = says]
          = [conn EXCEPT ![c] = [r EXCEPT !.at = at, !.says = says]]
    BY <1>0
  <2> QED BY <1>1, <2>1, <2>2
<1>4. ASSUME NEW told \in BOOLEAN
      PROVE  [conn EXCEPT ![c].at = at, ![c].told = told] \in [Conns -> Conn]
  <2>1. [r EXCEPT !.at = at, !.told = told] \in Conn
    BY <1>0 DEF Conn
  <2>2. [conn EXCEPT ![c].at = at, ![c].told = told]
          = [conn EXCEPT ![c] = [r EXCEPT !.at = at, !.told = told]]
    BY <1>0
  <2> QED BY <1>1, <2>1, <2>2
<1> QED BY <1>2, <1>3, <1>4

\* A closed socket keeps the types.
LEMMA Closed ==
  ASSUME ConnTypes, NEW c \in Conns, CloseSocket(c)
  PROVE  conn' \in [Conns -> Conn]
<1>1. "leaving" \in SessionSteps /\ 0 \in Fds
  BY Constants DEF SessionSteps
<1>2. [conn EXCEPT ![c].at = "leaving", ![c].fd = 0] \in [Conns -> Conn]
  BY <1>1, TwoFields
<1> QED BY <1>2 DEF CloseSocket

-----------------------------------------------------------------------------
(* The invariant is inductive.                                             *)

LEMMA InvariantInit == Init => IInv
<1> SUFFICES ASSUME Init PROVE IInv
  OBVIOUS
<1>1. ConnTypes /\ SessionFacts
  BY Constants DEF Init, ConnTypes, SessionFacts
<1>2. LoopFacts
  BY DEF Init, LoopFacts
<1>3. loop \in LoopSteps /\ age \in 0..2 /\ idleRead \in 0..2 /\ requests \in Seq(Conns)
      /\ catchUp \in CatchUpSteps
  BY DEF Init, LoopSteps, CatchUpSteps
<1>4. LoopTypes
  BY <1>3, Zenon DEF Init, LoopTypes
<1> QED BY <1>1, <1>2, <1>4 DEF IInv

\* Clients change their own connection only.
LEMMA ClientStep ==
  ASSUME IInv, NEW c \in Conns,
         (\E line \in Lines : Connect(c, line)) \/ Disconnect(c) \/ HostDies(c)
  PROVE  IInv'
<1> USE DEF IInv
<1>1. LoopTypes' /\ LoopFacts'
  BY DEF Connect, Disconnect, HostDies, LoopTypes, LoopFacts, tick, drain, control, sync
<1>2. ConnTypes' /\ SessionFacts'
  BY DEF Connect, Disconnect, HostDies, At, ConnTypes, SessionFacts, Conn, SessionSteps
<1> QED BY <1>1, <1>2

\* The steps of a session's task.
LEMMA SessionStep ==
  ASSUME IInv, NEW c \in Conns, Session(c)
  PROVE  IInv'
<1> USE DEF IInv
<1>1. LoopFacts'
  BY DEF Session, Register, Greet, Subscribe, ReadData, ReadControl, ObserveClosing, ServeEnds,
     Unregister, Reply, LoopFacts, drain
<1>2. LoopTypes'
  BY DEF Session, Register, Greet, Subscribe, ReadData, ReadControl, ObserveClosing, ServeEnds,
     Unregister, Reply, LoopTypes, tick, drain, control, sync
<1>3. CASE Register(c)
  <2>1. ConnTypes'
    <3>1. conn' \in [Conns -> Conn]
      BY <1>3 DEF Register, Goto, ConnTypes, Conn, SessionSteps
    <3>2. [NoEntry EXCEPT !.present = TRUE] \in Entry
      BY Constants DEF Entry, NoEntry
    <3>3. entry' \in [Conns -> Entry]
      BY <1>3, <3>2 DEF Register, ConnTypes
    <3> QED BY <3>1, <3>3 DEF ConnTypes
  <2>2. SessionFacts'
    BY <1>3 DEF Register, Goto, At, ConnTypes, SessionFacts, Conn, Entry, NoEntry
  <2> QED BY <1>1, <1>2, <2>1, <2>2
<1>4. CASE Greet(c)
  <2>1. Recorded(c) \in [Conns -> Entry]
        /\ \A d \in Conns : Recorded(c)[d].present = entry[d].present
    BY DEF Recorded, ConnTypes, Conn, Entry
  <2>2. CASE CloseSocket(c)
    <3>1. ConnTypes'
      BY <1>4, <2>1, <2>2, Closed DEF Greet, ConnTypes
    <3>2. SessionFacts'
      BY <1>4, <2>1, <2>2 DEF Greet, CloseSocket, ConnTypes, SessionFacts, Conn
    <3> QED BY <1>1, <1>2, <3>1, <3>2
  <2>3. CASE Goto(c, "subscribe")
    BY <1>1, <1>2, <1>4, <2>1, <2>3
    DEF Greet, Goto, At, ConnTypes, SessionFacts, Conn, SessionSteps
  <2> QED BY <1>4, <2>2, <2>3 DEF Greet
<1>5. CASE Subscribe(c)
  <2>1. ConnTypes'
    BY <1>5, TwoFields DEF Subscribe, ConnTypes, SessionSteps, LoopTypes
  <2>2. SessionFacts'
    BY <1>5 DEF Subscribe, At, ConnTypes, SessionFacts, Conn
  <2> QED BY <1>1, <1>2, <2>1, <2>2
<1>6. CASE ReadData(c)
  <2>1. ConnTypes'
    <3>1. conn' \in [Conns -> Conn]
      BY <1>6, TwoFields DEF ReadData, SessionSteps, Lines
    <3>2. entry' \in [Conns -> Entry]
      BY <1>6 DEF ReadData, ConnTypes, Entry
    <3> QED BY <3>1, <3>2 DEF ConnTypes
  <2>2. SessionFacts'
    BY <1>6 DEF ReadData, At, ConnTypes, SessionFacts, Conn, Entry
  <2> QED BY <1>1, <1>2, <2>1, <2>2
<1>7. CASE ReadControl(c)
  <2>1. ConnTypes'
    <3>1. [conn EXCEPT ![c] = EndedConn] \in [Conns -> Conn]
      BY Constants DEF ConnTypes
    <3>2. [conn EXCEPT ![c].at = "awaitAck"] \in [Conns -> Conn]
      BY DEF ConnTypes, Conn, SessionSteps
    <3>3. entry' \in [Conns -> Entry]
      BY <1>7, Constants DEF ReadControl, ConnTypes
    <3> QED BY <1>7, <3>1, <3>2, <3>3 DEF ReadControl, Goto, ConnTypes
  <2>2. SessionFacts'
    BY <1>7, Constants DEF ReadControl, Goto, At, ConnTypes, SessionFacts, Conn
  <2> QED BY <1>1, <1>2, <2>1, <2>2
<1>8. CASE ObserveClosing(c) \/ ServeEnds(c)
  <2>1. ConnTypes'
    BY <1>8, Closed DEF ObserveClosing, ServeEnds, ConnTypes
  <2>2. SessionFacts'
    BY <1>8 DEF ObserveClosing, ServeEnds, CloseSocket, ConnTypes, SessionFacts, Conn
  <2> QED BY <1>1, <1>2, <2>1, <2>2
<1>9. CASE Unregister(c) \/ Reply(c)
  BY <1>1, <1>2, <1>9, Constants
  DEF Unregister, Reply, At, ConnTypes, SessionFacts
<1> QED BY <1>3, <1>4, <1>5, <1>6, <1>7, <1>8, <1>9 DEF Session

LEMMA SyncStep ==
  ASSUME IInv, EnterSync \/ CheckCancelled \/ EndSync \/ WatcherStops \/ Age
  PROVE  IInv'
<1>1. UNCHANGED <<loop, drain, control, conn, entry, idleRead, accepted>>
  BY DEF EnterSync, CheckCancelled, EndSync, WatcherStops, Age, tick
<1>2. age' \in 0..2 /\ catchUp' \in CatchUpSteps /\ watcher' \in {"running", "finished"}
  BY DEF EnterSync, CheckCancelled, EndSync, WatcherStops, Age, tick, sync, CatchUpSteps, IInv,
     LoopTypes
<1> QED BY <1>1, <1>2
        DEF IInv, LoopTypes, ConnTypes, SessionFacts, LoopFacts, drain, control

LEMMA AcceptStep ==
  ASSUME IInv, NEW c \in Conns, Accept(c)
  PROVE  IInv'
<1> USE DEF IInv
<1>1. FreeFd \in Fds
  BY DescriptorLeft DEF Accept, At, SessionFacts
<1>2. LoopTypes' /\ LoopFacts'
  BY DEF Accept, LoopTypes, LoopFacts, drain, control, sync
<1>3. ConnTypes'
  BY <1>1, TwoFields DEF Accept, ConnTypes, SessionSteps
<1>4. SessionFacts'
  BY DEF Accept, ConnTypes, SessionFacts, Conn
<1> QED BY <1>2, <1>3, <1>4

\* A sweep only marks sockets as cut.
LEMMA Sweep ==
  ASSUME ConnTypes, SessionFacts, NEW S, ShutdownSessions(S), UNCHANGED entry
  PROVE  ConnTypes' /\ SessionFacts'
<1>1. PICK F : conn' = [d \in Conns |-> IF conn[d].fd \in F
                                        THEN [conn[d] EXCEPT !.cut = TRUE] ELSE conn[d]]
  BY DEF ShutdownSessions
<1>2. ASSUME NEW r \in Conn
      PROVE  /\ [r EXCEPT !.cut = TRUE] \in Conn
             /\ [r EXCEPT !.cut = TRUE].at = r.at /\ [r EXCEPT !.cut = TRUE].fd = r.fd
  BY DEF Conn
<1>3. \A d \in Conns : conn'[d] \in Conn /\ conn'[d].at = conn[d].at /\ conn'[d].fd = conn[d].fd
  BY <1>1, <1>2 DEF ConnTypes
<1>4. ConnTypes'
  BY <1>1, <1>3 DEF ConnTypes
<1> QED BY <1>3, <1>4 DEF SessionFacts

LEMMA LoopStep ==
  ASSUME IInv, \/ ReceiveRequest \/ StopRequested \/ StartupBackstop
               \/ (\E due \in BOOLEAN : Tick(due)) \/ IdleCheck
               \/ Cancel \/ Signal \/ CutAll
               \/ DrainPoll \/ DrainDeadline \/ ZeroBudget
  PROVE  IInv'
<1> USE DEF IInv
<1>1. CASE ReceiveRequest
  <2>1. requests' \in Seq(Conns) /\ pending' \in Conns
    BY <1>1 DEF ReceiveRequest, LoopTypes
  <2> QED BY <1>1, <2>1
          DEF ReceiveRequest, Break, LoopTypes, LoopFacts, ConnTypes, SessionFacts, LoopSteps,
              tick, drain, sync
<1>2. CASE StopRequested \/ StartupBackstop
  BY <1>2 DEF StopRequested, StartupBackstop, Break, LoopTypes, LoopFacts, ConnTypes,
     SessionFacts, LoopSteps, tick, drain, control, sync
<1>3. ASSUME NEW due \in BOOLEAN, Tick(due)
      PROVE  IInv'
  <2>1. ConnTypes' /\ SessionFacts'
    BY <1>3, Sweep DEF Tick
  <2> QED BY <1>3, <2>1 DEF Tick, LoopTypes, LoopFacts, LoopSteps, drain, control, sync
<1>4. CASE IdleCheck
  <2>1. ConnTypes' /\ SessionFacts'
    BY <1>4, Sweep DEF IdleCheck
  <2>2. loop' \in {"cancel", "select"} /\ loop = "idleCheck"
    BY <1>4 DEF IdleCheck, Break
  <2> QED BY <1>4, <2>1, <2>2
          DEF IdleCheck, LoopTypes, LoopFacts, LoopSteps, drain, control, sync
<1>5. CASE Cancel
  <2>1. idleAtShutdown' \in BOOLEAN
    BY <1>5 DEF Cancel, Drained
  <2> QED BY <1>5, <2>1
          DEF Cancel, LoopTypes, LoopFacts, ConnTypes, SessionFacts, LoopSteps, control, sync
<1>6. CASE Signal
  BY <1>6 DEF Signal, LoopTypes, LoopFacts, ConnTypes, SessionFacts, LoopSteps, tick, control,
     sync
<1>7. CASE CutAll
  <2>1. ConnTypes' /\ SessionFacts'
    BY <1>7, Sweep DEF CutAll
  <2> QED BY <1>7, <2>1 DEF CutAll, LoopTypes, LoopFacts, LoopSteps, tick, drain, control, sync
<1>8. ASSUME loop = "draining", NEW complete \in {"no", "sampled", "polled"}, Result(complete)
      PROVE  IInv'
  BY <1>8 DEF Result, LoopTypes, LoopFacts, ConnTypes, SessionFacts, LoopSteps, tick, control,
     sync
<1>9. CASE DrainPoll \/ DrainDeadline \/ ZeroBudget
  BY <1>8, <1>9 DEF DrainPoll, DrainDeadline, ZeroBudget
<1> QED BY <1>1, <1>2, <1>3, <1>4, <1>5, <1>6, <1>7, <1>9

LEMMA EndStep ==
  ASSUME IInv, Acknowledge \/ Leave \/ WaitDone \/ DoneTimeout
  PROVE  IInv'
<1> USE DEF IInv
<1>1. CASE Acknowledge
  BY <1>1 DEF Acknowledge, Goto, LoopTypes, LoopFacts, ConnTypes, SessionFacts, LoopSteps,
     Conn, SessionSteps, tick, drain, control, sync
<1>2. CASE Exit /\ loop \in {"cleanup", "waitDone"}
  <2>1. ConnTypes' /\ SessionFacts'
    BY <1>2, Constants DEF Exit, ConnTypes, SessionFacts
  <2>2. requests' \in Seq(Conns) /\ catchUp' \in CatchUpSteps
    BY <1>2 DEF Exit, CatchUpSteps
  <2> QED BY <1>2, <2>1, <2>2 DEF Exit, LoopTypes, LoopFacts, LoopSteps, tick, drain
<1> QED BY <1>1, <1>2 DEF Leave, WaitDone, DoneTimeout

LEMMA InvariantStep == IInv /\ [Next]_vars => IInv'
<1> SUFFICES ASSUME IInv, [Next]_vars PROVE IInv'
  OBVIOUS
<1>1. CASE UNCHANGED vars
  BY <1>1 DEF vars, tick, drain, control, sync, IInv, LoopTypes, ConnTypes, SessionFacts,
     LoopFacts
<1>2. CASE Next
  BY <1>2, ClientStep, SessionStep, SyncStep, AcceptStep, LoopStep, EndStep DEF Next, Draining
<1> QED BY <1>1, <1>2

LEMMA Invariant == Spec => []IInv
<1>1. Init => IInv
  BY InvariantInit
<1>2. IInv /\ [Next]_vars => IInv'
  BY InvariantStep
<1> QED BY <1>1, <1>2, PTL DEF Spec

-----------------------------------------------------------------------------
(* A complete drain is one.                                                *)

\* Nothing that is left can read, serve or take the lease: it would have to ask
\* whether the daemon is closing, or whether the sync is cancelled.
LEMMA QuietStep == IInv /\ DrainedIsQuiet /\ [Next]_vars => DrainedIsQuiet'
<1> SUFFICES ASSUME IInv, DrainedIsQuiet, [Next]_vars, drained' = "polled"
             PROVE  /\ \A c \in Conns : conn'[c].at \notin {"subscribe", "reading", "serving"}
                    /\ catchUp' # "leased"
  BY DEF DrainedIsQuiet
<1> DEFINE Quiet == /\ \A c \in Conns : conn[c].at \notin {"subscribe", "reading", "serving"}
                    /\ catchUp # "leased"
<1>1. CASE drained # "polled"
  <2>1. DrainPoll
    BY <1>1 DEF Next, vars, Session, Draining, Connect, Disconnect, HostDies, Accept, Register,
       Greet, Subscribe, ReadData, ReadControl, ObserveClosing, ServeEnds, Unregister, Reply,
       EnterSync, CheckCancelled, EndSync, WatcherStops, Age, ReceiveRequest, StopRequested,
       StartupBackstop, Tick, IdleCheck, Cancel, Signal, CutAll, Acknowledge, Leave, WaitDone,
       DoneTimeout, Exit, DrainDeadline, ZeroBudget, Result, drain
  <2>2. Quiet
    BY <2>1 DEF DrainPoll, Drained, Active, IInv, SessionFacts
  <2> QED BY <2>1, <2>2 DEF DrainPoll, Result, sync
<1>2. CASE drained = "polled"
  <2>1. Quiet /\ closing /\ cancelled /\ loop \in {"cleanup", "waitDone", "stopped"}
    BY <1>2 DEF DrainedIsQuiet, IInv, LoopFacts
  <2> USE DEF IInv, ConnTypes, Conn
  <2>2. CASE UNCHANGED <<conn, sync>>
    BY <2>1, <2>2 DEF sync
  <2>3. ASSUME NEW c \in Conns,
               (\E line \in Lines : Connect(c, line)) \/ Disconnect(c) \/ HostDies(c) \/ Accept(c)
        PROVE  /\ \A d \in Conns : conn'[d].at \notin {"subscribe", "reading", "serving"}
               /\ catchUp' # "leased"
    BY <2>1, <2>3 DEF Connect, Disconnect, HostDies, Accept, sync
  <2>4. ASSUME NEW c \in Conns, Session(c)
        PROVE  /\ \A d \in Conns : conn'[d].at \notin {"subscribe", "reading", "serving"}
               /\ catchUp' # "leased"
    <3>1. Register(c) \/ Greet(c) \/ Unregister(c) \/ Reply(c)
      BY <2>1, <2>4 DEF Session, Subscribe, ReadData, ReadControl, ObserveClosing, ServeEnds, At
    <3> QED BY <2>1, <3>1, Constants
            DEF Register, Greet, Unregister, Reply, Goto, CloseSocket, sync
  <2>5. CASE EnterSync \/ CheckCancelled \/ EndSync \/ WatcherStops \/ Age
    BY <2>1, <2>5 DEF EnterSync, CheckCancelled, EndSync, WatcherStops, Age, sync
  <2>6. CASE Acknowledge
    BY <2>1, <2>6 DEF Acknowledge, Goto, sync
  <2>7. CASE Leave \/ WaitDone \/ DoneTimeout
    BY <2>7, Constants DEF Leave, WaitDone, DoneTimeout, Exit
  <2>8. CASE UNCHANGED vars
    BY <2>2, <2>8 DEF vars
  <2>9. CASE Next
    <3>1. ~(\/ ReceiveRequest \/ StopRequested \/ StartupBackstop
            \/ (\E due \in BOOLEAN : Tick(due)) \/ IdleCheck
            \/ Cancel \/ Signal \/ CutAll \/ DrainPoll \/ DrainDeadline \/ ZeroBudget)
      BY <2>1 DEF ReceiveRequest, StopRequested, StartupBackstop, Tick, IdleCheck, Cancel,
         Signal, CutAll, DrainPoll, DrainDeadline, ZeroBudget
    <3> QED BY <2>3, <2>4, <2>5, <2>6, <2>7, <2>9, <3>1 DEF Next, Draining
  <2> QED BY <2>8, <2>9
<1> QED BY <1>1, <1>2

-----------------------------------------------------------------------------
(* Live clients.                                                           *)

\* Which step can shut a socket down: the two sweeps and the closing daemon.
LEMMA CutStep ==
  ASSUME IInv, Next, NEW c \in Conns, conn'[c].cut, ~conn[c].cut
  PROVE  (\E due \in BOOLEAN : Tick(due)) \/ IdleCheck \/ CutAll
<1> USE DEF IInv, ConnTypes, Conn
<1>1. ASSUME NEW d \in Conns,
             (\E line \in Lines : Connect(d, line)) \/ Disconnect(d) \/ HostDies(d) \/ Accept(d)
      PROVE  conn'[c].cut = conn[c].cut
  BY <1>1 DEF Connect, Disconnect, HostDies, Accept
<1>2. ASSUME NEW d \in Conns, Session(d)
      PROVE  conn'[c].cut => conn[c].cut
  <2>1. CASE Register(d) \/ Greet(d) \/ Subscribe(d) \/ ReadData(d) \/ ObserveClosing(d)
             \/ ServeEnds(d)
    BY <2>1 DEF Register, Greet, Subscribe, ReadData, ObserveClosing, ServeEnds, CloseSocket, Goto
  <2>2. CASE Unregister(d) \/ ReadControl(d) \/ Reply(d)
    BY <2>2 DEF Unregister, ReadControl, Reply, Goto, EndedConn, NewConn
  <2> QED
    BY <1>2, <2>1, <2>2 DEF Session
<1>3. ~(EnterSync \/ CheckCancelled \/ EndSync \/ WatcherStops \/ Age \/ ReceiveRequest
        \/ StopRequested \/ StartupBackstop \/ Cancel \/ Signal \/ DrainPoll \/ DrainDeadline
        \/ ZeroBudget)
  BY DEF EnterSync, CheckCancelled, EndSync, WatcherStops, Age, ReceiveRequest, StopRequested,
         StartupBackstop, Cancel, Signal, DrainPoll, DrainDeadline, ZeroBudget, Result
<1>4. ~(Acknowledge \/ Leave \/ WaitDone \/ DoneTimeout)
  BY DEF Acknowledge, Leave, WaitDone, DoneTimeout, Exit, Goto, EndedConn, NewConn
<1> QED
  BY <1>1, <1>2, <1>3, <1>4 DEF Next, Draining

\* A socket a sweep shuts down is a dead session's, or has the number of one.
LEMMA SweepSpares ==
  ASSUME IInv, NEW S \in SUBSET DeadSessionIds, ShutdownSessions(S),
         NEW c \in Conns, ProvablyAlive(c), conn'[c].cut, ~conn[c].cut
  PROVE  Mistaken(c)
<1>1. PICK d \in S : entry[d].fd = conn[c].fd /\ entry[d].fd # 0
  BY DEF ShutdownSessions
<1>2. d \in Conns /\ entry[d].present /\ conn[d].host = "dead"
  BY <1>1 DEF DeadSessionIds, Active
<1>3. d # c
  BY <1>2 DEF ProvablyAlive
<1> QED
  BY <1>1, <1>2, <1>3 DEF Mistaken

\* What the steps may do to a client whose host is alive.
LEMMA LiveClientStep ==
  ASSUME IInv, Next, NEW c \in Conns, ProvablyAlive(c)
  PROVE  /\ conn'[c].cut => conn[c].cut \/ closing \/ Mistaken(c)
         /\ loop' = "cancel" => loop # "idleCheck"
<1>1. ASSUME conn'[c].cut, ~conn[c].cut, ~closing
      PROVE  Mistaken(c)
  <2>1. ~CutAll
    BY <1>1 DEF CutAll, IInv, LoopFacts
  <2>2. PICK S \in SUBSET DeadSessionIds : ShutdownSessions(S)
    <3>1. \A b \in BOOLEAN : (IF b THEN DeadSessionIds ELSE {}) \in SUBSET DeadSessionIds
      OBVIOUS
    <3> QED
      BY <1>1, <2>1, <3>1, CutStep DEF Tick, IdleCheck
  <2> QED
    BY <1>1, <2>2, SweepSpares
<1>2. ASSUME loop = "idleCheck", loop' = "cancel"
      PROVE  FALSE
  <2>1. IdleCheck
    BY <1>2 DEF Next, Session, Draining, Connect, Disconnect, HostDies, Accept, Register,
       Greet, Subscribe, ReadData, ReadControl, ObserveClosing, ServeEnds, Unregister, Reply,
       EnterSync, CheckCancelled, EndSync, WatcherStops, Age, ReceiveRequest, StopRequested,
       StartupBackstop, Tick, Cancel, Signal, CutAll, Acknowledge, Leave, WaitDone,
       DoneTimeout, Exit, DrainPoll, DrainDeadline, ZeroBudget, Result
  <2>2. c \in Active /\ ~BackstopExit
    BY DEF ProvablyAlive, Active, BackstopExit
  <2> QED
    BY <1>2, <2>1, <2>2 DEF IdleCheck
<1> QED
  BY <1>1, <1>2

-----------------------------------------------------------------------------
(* Theorems.                                                               *)

\* Types, that an accepted connection always gets a descriptor, and that a
\* session that reads or serves is in the registry the drain looks at.
THEOREM TypeCorrect == Spec => []TypeOK
<1>1. IInv => TypeOK
  <2> SUFFICES ASSUME IInv PROVE TypeOK
    OBVIOUS
  <2>1. {accepted, closing, cancelled, idleAtShutdown} \subseteq BOOLEAN
    BY Zenon DEF IInv, LoopTypes
  <2> QED BY <2>1 DEF IInv, LoopTypes, ConnTypes, SessionFacts, TypeOK
<1> QED BY <1>1, Invariant, PTL

\* A drain that polled its way to completion leaves no session that reads or
\* serves and no sync that has the lease, now or later, for any number of
\* connections in any state.
THEOREM CompleteDrainIsQuiet == Spec => []DrainedIsQuiet
<1>1. Init => DrainedIsQuiet
  BY DEF Init, DrainedIsQuiet
<1>2. IInv /\ DrainedIsQuiet /\ [Next]_vars => DrainedIsQuiet'
  BY QuietStep
<1> QED BY <1>1, <1>2, Invariant, PTL DEF Spec

\* No sweep, backstop or idle timer takes a client whose announced host is
\* alive: among any number of connections its socket is shut down by a closing
\* daemon alone, or because a session that has not left the registry names the
\* same descriptor number, and the daemon does not leave for idleness.
THEOREM LiveClientsStay == Spec => LiveClientKept
<1>1. IInv /\ [Next]_vars =>
        [ \A c \in Conns : ProvablyAlive(c) /\ conn[c].peer = "up" =>
            /\ conn'[c].cut => conn[c].cut \/ closing \/ Mistaken(c)
            /\ loop' = "cancel" => loop # "idleCheck" ]_vars
  BY LiveClientStep
<1> QED
  BY <1>1, Invariant, PTL DEF Spec, LiveClientKept

=============================================================================
