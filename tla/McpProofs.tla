------------------------------ MODULE McpProofs ------------------------------
(***************************************************************************)
(* Proofs about the two components through which an MCP client reaches the *)
(* projects: the broker of project services (ProjectServices), for any     *)
(* number of callers, projects and slots, and the proxy in front of a      *)
(* daemon (DaemonProxy), for any of its requests.  They share no state.    *)
(***************************************************************************)
EXTENDS ProjectServices, DaemonProxy, FiniteSetTheorems, TLAPS

-----------------------------------------------------------------------------
(* The broker: the inductive invariant.                                    *)

Types ==
  /\ handles \in [Projects -> {"none", "live", "stale"}]
  /\ gates \in [Projects -> Gates \union {None}]
  /\ owner \in [Gates -> Callers \union {None}]
  /\ call \in [Callers -> [at : Steps, project : Projects \union {None},
                           gate : Gates \union {None}]]

\* What a caller has at each step: its project, a gate, the gate's lock.
CallFacts ==
  \A c \in Callers :
    /\ call[c].at # "idle" => call[c].project \in Projects
    /\ call[c].at \notin {"idle", "reserve"} => call[c].gate \in Gates
    /\ call[c].at \in {"recheck", "starting", "insert", "release", "unlock"}
         => owner[call[c].gate] = c

\* From the moment it takes the reference until it is done with the maps, a
\* caller's gate is the one in the map: nobody removes it but its last user.
GateKept ==
  \A c \in Callers :
    call[c].at \in {"lock", "recheck", "starting", "insert", "release"}
      => gates[call[c].project] = call[c].gate

\* A caller past the second look at the handles finds none until it inserts its own.
NoneRetained ==
  \A c \in Callers :
    call[c].at \in {"starting", "insert", "release"} => handles[call[c].project] = "none"

RetainedReserved == \A p \in Projects : handles[p] # "none" => gates[p] # None

Bounded == Cardinality(Reserved) <= MAX_SESSION_PROJECT_SERVICES

IInv == Types /\ CallFacts /\ GateKept /\ NoneRetained /\ RetainedReserved /\ Bounded

-----------------------------------------------------------------------------
(* Lemmas.                                                                 *)

\* Two callers that both work under their project's gate are one.
LEMMA OneHolder ==
  ASSUME CallFacts, GateKept, NEW c \in Callers, NEW d \in Callers,
         call[c].at \in {"recheck", "starting", "insert", "release"},
         call[d].at \in {"recheck", "starting", "insert", "release"},
         call[c].project = call[d].project
  PROVE  c = d
BY DEF CallFacts, GateKept

\* A count of two is the map's reference and this caller's own: the gate is
\* nobody else's.
LEMMA LastUserIsAlone ==
  ASSUME Types, NEW c \in Callers, call[c].at = "release", CallFacts, LastUser(c),
         NEW d \in Callers, call[d].gate = call[c].gate
  PROVE  d = c
<1> DEFINE g == call[c].gate
           P == {p \in Projects : gates[p] = g}
           C == {e \in Callers : call[e].gate = g}
<1>1. IsFiniteSet(P) /\ IsFiniteSet(C)
  BY FS_Subset, ProjectServicesAssumption
<1>2. Cardinality(P) \in Nat /\ Cardinality(C) \in Nat
  BY <1>1, FS_CardinalityType
<1>3. call[c].project \in P /\ c \in C /\ d \in C
  BY DEF CallFacts, LastUser
<1>4. Cardinality(P) # 0 /\ Cardinality(C) # 0
  BY <1>1, <1>3, FS_EmptySet
<1>5. Cardinality(P) + Cardinality(C) = 2
  BY DEF LastUser, StrongCount
<1>6. Cardinality(C) = 1
  BY <1>2, <1>4, <1>5
<1>7. PICK x : C = {x}
  BY <1>1, <1>6, FS_Singleton
<1> QED BY <1>3, <1>7

\* Reserved projects are finitely many.
LEMMA ReservedFinite == IsFiniteSet(Reserved) /\ Cardinality(Reserved) \in Nat
BY FS_Subset, FS_CardinalityType, ProjectServicesAssumption DEF Reserved

-----------------------------------------------------------------------------
(* The invariant is inductive.                                             *)

LEMMA InvariantInit == Init => IInv
<1> SUFFICES ASSUME Init PROVE IInv
  OBVIOUS
<1>1. Reserved = {}
  BY DEF Init, Reserved
<1>2. Bounded
  BY <1>1, FS_EmptySet, ProjectServicesAssumption DEF Bounded
<1> QED BY <1>2 DEF Init, IInv, Types, CallFacts, GateKept, NoneRetained, RetainedReserved,
                    NoCall, Steps

\* A step that leaves the gates alone keeps the bound.
LEMMA SameGates == Bounded /\ UNCHANGED gates => Bounded'
BY DEF Bounded, Reserved

LEMMA LookupStep ==
  ASSUME IInv, NEW c \in Callers, NEW p \in Projects, Lookup(c, p)
  PROVE  IInv'
<1> USE DEF IInv
<1>1. Bounded'
  BY SameGates DEF Lookup
<1>2. Types'
  BY DEF Lookup, Types, Steps, At
<1>3. (CallFacts /\ GateKept /\ NoneRetained /\ RetainedReserved)'
  BY DEF Lookup, Types, CallFacts, GateKept, NoneRetained, RetainedReserved, At
<1> QED BY <1>1, <1>2, <1>3

LEMMA ReserveStep ==
  ASSUME IInv, NEW c \in Callers, Reserve(c)
  PROVE  IInv'
<1> DEFINE p == call[c].project
<1> USE DEF IInv
<1>0. p \in Projects
  BY DEF Reserve, At, CallFacts
<1>1. CASE AtLimit(p)
  <2>1. Bounded'
    BY <1>1, SameGates DEF Reserve
  <2>2. Types'
    BY <1>1 DEF Reserve, Types, Steps, NoCall
  <2>3. (CallFacts /\ GateKept /\ NoneRetained /\ RetainedReserved)'
    BY <1>1 DEF Reserve, Types, CallFacts, GateKept, NoneRetained, RetainedReserved, At, NoCall
  <2> QED BY <2>1, <2>2, <2>3
<1>2. CASE ~AtLimit(p)
  <2>1. PICK g \in Gates :
          /\ IF gates[p] = None THEN g \in Fresh ELSE g = gates[p]
          /\ gates' = [gates EXCEPT ![p] = g]
          /\ call' = [call EXCEPT ![c].at = "lock", ![c].gate = g]
          /\ UNCHANGED <<handles, owner>>
    BY <1>2 DEF Reserve
  <2>2. At(c, "reserve")
    BY DEF Reserve
  <2>3. Types'
    <3> DEFINE Call == [at : Steps, project : Projects \union {None}, gate : Gates \union {None}]
               new == [call[c] EXCEPT !.at = "lock", !.gate = g]
    <3>1. call \in [Callers -> Call]
      BY DEF Types
    <3>2. new \in Call
      BY <3>1 DEF Steps
    <3>3. call' = [call EXCEPT ![c] = new]
      BY <2>1
    <3> HIDE DEF new, Call
    <3>4. call' \in [Callers -> Call]
      BY <3>1, <3>2, <3>3
    <3>5. gates' \in [Projects -> Gates \union {None}]
      BY <2>1, <1>0 DEF Types
    <3> USE DEF Call
    <3> QED BY <2>1, <3>4, <3>5 DEF Types
  <2>4. CallFacts'
    BY <2>1, <2>2, <1>0 DEF Types, CallFacts, At
  <2>5. GateKept'
    <3> SUFFICES ASSUME NEW d \in Callers,
                        call'[d].at \in {"lock", "recheck", "starting", "insert", "release"}
                 PROVE  gates'[call'[d].project] = call'[d].gate
      BY DEF GateKept
    <3>1. CASE d = c
      BY <3>1, <2>1, <2>2, <1>0 DEF Types
    <3>2. CASE d # c
      <4>1. call'[d] = call[d] /\ gates[call[d].project] = call[d].gate
            /\ call[d].gate \in Gates /\ call[d].project \in Projects
        BY <3>2, <2>1 DEF GateKept, CallFacts, Types
      <4>2. CASE call[d].project = p
        BY <4>1, <4>2, <2>1, ProjectServicesAssumption DEF Types
      <4>3. CASE call[d].project # p
        BY <4>1, <4>3, <2>1 DEF Types
      <4> QED BY <4>2, <4>3
    <3> QED BY <3>1, <3>2
  <2>6. RetainedReserved'
    BY <2>1, <1>0, ProjectServicesAssumption DEF RetainedReserved, Types
  <2>7. Bounded'
    <3>1. Reserved' = Reserved \union {p}
      BY <2>1, <1>0, ProjectServicesAssumption DEF Reserved, Types
    <3>2. CASE gates[p] # None
      BY <3>1, <3>2, <1>0 DEF Bounded, Reserved
    <3>3. CASE gates[p] = None
      <4>1. Cardinality(Reserved) < MAX_SESSION_PROJECT_SERVICES
        BY <1>2, <3>3, ReservedFinite, ProjectServicesAssumption DEF AtLimit
      <4>2. p \notin Reserved
        BY <3>3 DEF Reserved
      <4>3. Cardinality(Reserved \union {p}) = Cardinality(Reserved) + 1
        BY <4>2, ReservedFinite, FS_AddElement
      <4> QED BY <4>1, <4>3, <3>1, ReservedFinite, ProjectServicesAssumption DEF Bounded
    <3> QED BY <3>2, <3>3
  <2>8. NoneRetained'
    BY <2>1, <2>2 DEF Types, NoneRetained
  <2> QED BY <2>3, <2>4, <2>5, <2>6, <2>7, <2>8
<1> QED BY <1>1, <1>2

LEMMA LockStep ==
  ASSUME IInv, NEW c \in Callers, Lock(c)
  PROVE  IInv'
<1> USE DEF IInv
<1>1. Bounded'
  BY SameGates DEF Lock
<1>2. Types'
  BY DEF Lock, Types, Steps, Goto, At, CallFacts
<1>3. CallFacts'
  BY ProjectServicesAssumption DEF Lock, Types, CallFacts, At, Goto
<1>4. (GateKept /\ NoneRetained /\ RetainedReserved)'
  BY DEF Lock, Types, GateKept, NoneRetained, RetainedReserved, At, Goto
<1> QED BY <1>1, <1>2, <1>3, <1>4

LEMMA StartStep ==
  ASSUME IInv, NEW c \in Callers, Recheck(c) \/ Started(c)
  PROVE  IInv'
<1> USE DEF IInv
<1>1. Bounded'
  BY SameGates DEF Recheck, Started
<1>2. Types'
  BY DEF Recheck, Started, Types, Steps, Goto
<1>3. CallFacts'
  BY DEF Recheck, Started, Types, CallFacts, At, Goto
<1>4. GateKept' /\ RetainedReserved'
  BY DEF Recheck, Started, Types, GateKept, RetainedReserved, At, Goto
<1>5. NoneRetained'
  BY DEF Recheck, Started, Types, NoneRetained, At, Goto
<1> QED BY <1>1, <1>2, <1>3, <1>4, <1>5

LEMMA InsertStep ==
  ASSUME IInv, NEW c \in Callers, Insert(c)
  PROVE  IInv'
<1> USE DEF IInv
<1>1. Bounded'
  BY SameGates DEF Insert
<1>2. Types'
  <2>1. call[c].project \in Projects
    BY DEF Insert, At, CallFacts
  <2>2. handles' \in [Projects -> {"none", "live", "stale"}]
    BY <2>1 DEF Insert, Types
  <2>3. call' \in [Callers -> [at : Steps, project : Projects \union {None},
                              gate : Gates \union {None}]]
    BY DEF Insert, Goto, Types, Steps
  <2> QED BY <2>2, <2>3 DEF Insert, Types
<1>3. (CallFacts /\ GateKept)'
  BY DEF Insert, Types, CallFacts, GateKept, At, Goto
<1>4. call[c].project \in Projects /\ gates[call[c].project] \in Gates
  BY DEF Insert, At, CallFacts, GateKept
<1>5. RetainedReserved'
  BY <1>4, ProjectServicesAssumption DEF Insert, Types, RetainedReserved
<1>6. NoneRetained'
  <2> SUFFICES ASSUME NEW d \in Callers, call'[d].at \in {"starting", "insert", "release"}
               PROVE  handles'[call'[d].project] = "none"
    BY DEF NoneRetained
  <2>1. d # c /\ call'[d] = call[d]
    BY DEF Insert, Goto, Types
  <2>2. call[d].project # call[c].project
    BY <2>1, OneHolder DEF Insert, At
  <2>3. call[d].project \in Projects /\ handles[call[d].project] = "none"
    BY <2>1 DEF CallFacts, NoneRetained
  <2> QED BY <2>1, <2>2, <2>3 DEF Insert, Types
<1> QED BY <1>1, <1>2, <1>3, <1>5, <1>6

LEMMA ReleaseStep ==
  ASSUME IInv, NEW c \in Callers, Release(c)
  PROVE  IInv'
<1> DEFINE p == call[c].project
<1> USE DEF IInv
<1>0. call[c].at = "release" /\ p \in Projects /\ call[c].gate \in Gates
  BY DEF Release, At, CallFacts
<1>1. Types'
  BY DEF Release, Types, Steps, Goto
<1>2. (CallFacts /\ NoneRetained)'
  BY DEF Release, Types, CallFacts, NoneRetained, At, Goto
<1>3. CASE ~LastUser(c)
  <2>1. Bounded'
    BY <1>3, SameGates DEF Release
  <2>2. (GateKept /\ RetainedReserved)'
    BY <1>3 DEF Release, Types, GateKept, RetainedReserved, At, Goto
  <2> QED BY <1>1, <1>2, <2>1, <2>2
<1>4. CASE LastUser(c)
  <2>1. gates' = [gates EXCEPT ![p] = None] /\ UNCHANGED handles
    BY <1>4 DEF Release
  <2>2. RetainedReserved'
    BY <2>1, <1>0 DEF RetainedReserved, NoneRetained, Types
  <2>3. GateKept'
    <3> SUFFICES ASSUME NEW d \in Callers,
                        call'[d].at \in {"lock", "recheck", "starting", "insert", "release"}
                 PROVE  gates'[call'[d].project] = call'[d].gate
      BY DEF GateKept
    <3>1. d # c /\ call'[d] = call[d]
      BY DEF Release, Goto, Types
    <3>2. gates[call[d].project] = call[d].gate
      BY <3>1 DEF GateKept
    <3>3. call[d].gate # call[c].gate
      BY <3>1, <1>0, <1>4, LastUserIsAlone
    <3>4. call[d].project # p
      BY <3>2, <3>3, <1>0 DEF GateKept
    <3> QED BY <3>1, <3>2, <3>4, <2>1 DEF Types
  <2>4. Bounded'
    <3>1. Reserved' = Reserved \ {p}
      BY <2>1 DEF Reserved, Types
    <3>2. Cardinality(Reserved \ {p}) <= Cardinality(Reserved)
      BY ReservedFinite, FS_Subset
    <3>3. Cardinality(Reserved \ {p}) \in Nat
      BY ReservedFinite, FS_RemoveElement, FS_CardinalityType
    <3> QED BY <3>1, <3>2, <3>3, ReservedFinite, ProjectServicesAssumption DEF Bounded
  <2> QED BY <1>1, <1>2, <2>2, <2>3, <2>4
<1> QED BY <1>3, <1>4

LEMMA LeaveStep ==
  ASSUME IInv, NEW c \in Callers, Unlock(c) \/ Drop(c)
  PROVE  IInv'
<1> USE DEF IInv
<1>1. Bounded'
  BY SameGates DEF Unlock, Drop
<1>2. Types'
  BY DEF Unlock, Drop, Types, Steps, Goto, NoCall
<1>3. CallFacts'
  BY ProjectServicesAssumption DEF Unlock, Drop, Types, CallFacts, At, Goto, NoCall
<1>4. (GateKept /\ NoneRetained /\ RetainedReserved)'
  BY DEF Unlock, Drop, Types, GateKept, NoneRetained, RetainedReserved, At, Goto, NoCall
<1> QED BY <1>1, <1>2, <1>3, <1>4

LEMMA StaleStep ==
  ASSUME IInv, NEW p \in Projects, GoesStale(p)
  PROVE  IInv'
<1> USE DEF IInv
<1>1. Bounded'
  BY SameGates DEF GoesStale
<1>2. (Types /\ CallFacts /\ GateKept /\ NoneRetained /\ RetainedReserved)'
  BY DEF GoesStale, Types, CallFacts, GateKept, NoneRetained, RetainedReserved
<1> QED BY <1>1, <1>2

LEMMA InvariantStep == IInv /\ [Next]_vars => IInv'
<1> SUFFICES ASSUME IInv, [Next]_vars PROVE IInv'
  OBVIOUS
<1>1. CASE UNCHANGED vars
  BY <1>1, SameGates
  DEF vars, IInv, Types, CallFacts, GateKept, NoneRetained, RetainedReserved
<1>2. CASE Next
  BY <1>2, LookupStep, ReserveStep, LockStep, StartStep, InsertStep, ReleaseStep, LeaveStep,
     StaleStep DEF Next
<1> QED BY <1>1, <1>2

LEMMA Invariant == Spec => []IInv
<1>1. Init => IInv
  BY InvariantInit
<1>2. IInv /\ [Next]_vars => IInv'
  BY InvariantStep
<1> QED BY <1>1, <1>2, PTL DEF Spec

-----------------------------------------------------------------------------
(* Theorems.                                                               *)

\* The maps keep their types, never more projects than allowed are reserved
\* (the limit ensure checks), and every retained service counts against it.
THEOREM TypeCorrect == Spec => []TypeOK
<1>1. IInv => TypeOK
  BY DEF IInv, Types, Bounded, RetainedReserved, TypeOK, Reserved
<1> QED BY <1>1, Invariant, PTL

\* However many calls of ensure race for a project, and however its gate is
\* removed and created again, at most one starts the service.
THEOREM StartedOnce == Spec => []OneStart
<1>1. IInv => OneStart
  BY OneHolder DEF IInv, NoneRetained, OneStart
<1> QED BY <1>1, Invariant, PTL

-----------------------------------------------------------------------------
(* The proxy: the inductive invariant.                                     *)

\* A line is somewhere in a queue, and a queue holds no line twice.
In(l, queue) == \E i \in 1..Len(queue) : queue[i] = l
Distinct(queue) == \A i, j \in 1..Len(queue) : queue[i] = queue[j] => i = j

\* On its way to the daemon, or with it, or on its way back.
InTransit(l) ==
  (up.at = "forward" /\ up.line = l) \/ l \in daemon.inbox \/ In(l, daemon.out)

\* The host sends a line once, the pump takes it once; one it is about to answer
\* itself is nowhere else.
TakenOnce ==
  /\ Distinct(host.in)
  /\ \A l \in Lines : In(l, host.in) => l \in host.sent /\ l \notin up.asked
  /\ up.asked \subseteq host.sent
  /\ up.at = "answer" => /\ up.line \in host.sent /\ up.line \notin up.asked
                         /\ ~In(up.line, host.in)

\* A line is at one place between the pump and the host.
OnePlace ==
  /\ Distinct(daemon.out)
  /\ up.at = "forward" => /\ up.line \in up.asked
                          /\ up.line \notin daemon.inbox /\ up.line \notin daemon.answered
  /\ daemon.inbox \subseteq up.asked /\ daemon.answered \subseteq up.asked
  /\ daemon.inbox \intersect daemon.answered = {}
  /\ \A l \in Lines : In(l, daemon.out) => l \in daemon.answered

\* No line is answered twice: what was delivered is not in transit, except
\* `initialize', whose second reply is suppressed.
AnsweredOnce ==
  /\ \A l \in Lines : delivered[l] = 1 => l \in up.asked
  /\ \A l \in Lines : InTransit(l) /\ delivered[l] = 1 => l = "initialize"
  /\ "initialize" \in up.asked => suppressed = "initialize" /\ delivered["initialize"] = 1
  /\ suppressed \in {"initialize", ""}

\* A line that was taken is answered or owed; a reply the daemon gave to a host
\* that has not hung up is on its way or delivered; the ledger is abandoned over an empty
\* stream that has ended.
NothingLost ==
  /\ \A l \in up.asked : delivered[l] = 1 \/ l \in outstanding
  /\ down.at = "retire" => down.line \in Lines /\ delivered[down.line] = 1
  /\ host.open => \A l \in daemon.answered : In(l, daemon.out) \/ delivered[l] = 1
  /\ host.open /\ down.at \in {"abandon", "ended"} =>
       daemon.out = <<>> /\ ~daemon.open
  /\ abandoned => down.at = "ended"
  /\ settled => /\ main \in {"joinWatchdog", "joinDown", "returned"}
                /\ abandoned \/ outstanding = {}

ProxyInv == ProxyTypeOK /\ TakenOnce /\ OnePlace /\ AnsweredOnce /\ NothingLost

-----------------------------------------------------------------------------
(* Queues.                                                                 *)

\* A new line at the end of a queue.
LEMMA QueueAppend ==
  ASSUME NEW S, NEW s \in Seq(S), NEW x \in S
  PROVE  /\ Append(s, x) \in Seq(S)
         /\ \A l : In(l, Append(s, x)) <=> In(l, s) \/ l = x
         /\ Distinct(s) /\ ~In(x, s) => Distinct(Append(s, x))
<1>1. /\ Append(s, x) \in Seq(S) /\ Len(Append(s, x)) = Len(s) + 1
      /\ \A i \in 1..Len(s) : Append(s, x)[i] = s[i]
      /\ Append(s, x)[Len(s) + 1] = x
      /\ Len(s) \in Nat
  OBVIOUS
<1>2. \A i \in 1..(Len(s) + 1) : i \in 1..Len(s) \/ i = Len(s) + 1
  BY <1>1
<1>3. ASSUME NEW l PROVE In(l, Append(s, x)) <=> In(l, s) \/ l = x
  BY <1>1, <1>2 DEF In
<1>4. Distinct(s) /\ ~In(x, s) => Distinct(Append(s, x))
  BY <1>1, <1>2 DEF In, Distinct
<1> QED
  BY <1>1, <1>3, <1>4

\* The first line taken off a queue.
LEMMA QueueTail ==
  ASSUME NEW S, NEW s \in Seq(S), s # <<>>
  PROVE  /\ Head(s) \in S /\ Tail(s) \in Seq(S)
         /\ \A l : In(l, s) <=> l = Head(s) \/ In(l, Tail(s))
         /\ Distinct(s) => Distinct(Tail(s)) /\ ~In(Head(s), Tail(s))
<1>1. /\ Head(s) \in S /\ Tail(s) \in Seq(S) /\ Len(s) \in Nat \ {0} /\ Len(Tail(s)) = Len(s) - 1
      /\ Head(s) = s[1] /\ \A i \in 1..Len(Tail(s)) : Tail(s)[i] = s[i + 1]
  OBVIOUS
<1>2. \A i \in 1..Len(s) : i = 1 \/ (i - 1 \in 1..Len(Tail(s)) /\ Tail(s)[i - 1] = s[i])
  BY <1>1
<1>3. \A i \in 1..Len(Tail(s)) : i + 1 \in 1..Len(s) /\ i + 1 # 1
  BY <1>1
<1>4. ASSUME NEW l PROVE In(l, s) <=> l = Head(s) \/ In(l, Tail(s))
  <2>1. In(l, s) => l = Head(s) \/ In(l, Tail(s))
    BY <1>1, <1>2 DEF In
  <2>2. l = Head(s) => In(l, s)
    BY <1>1 DEF In
  <2>3. In(l, Tail(s)) => In(l, s)
    BY <1>1, <1>3 DEF In
  <2> QED
    BY <2>1, <2>2, <2>3
<1>5. Distinct(s) => Distinct(Tail(s)) /\ ~In(Head(s), Tail(s))
  BY <1>1, <1>3 DEF In, Distinct
<1> QED
  BY <1>1, <1>4, <1>5

\* Nothing is in an empty queue.
LEMMA QueueEmpty == \A l : ~In(l, <<>>)
BY DEF In

-----------------------------------------------------------------------------
(* The invariant is inductive.                                             *)

Flags ==
  /\ halfCloses \in BOOLEAN /\ shutdown \in BOOLEAN
  /\ abandoned \in BOOLEAN /\ settled \in BOOLEAN

Places ==
  /\ host \in Host
  /\ delivered \in [Lines -> 0..1]
  /\ main \in {"attach", "pump", "wait", "joinWatchdog", "joinDown", "returned"}
  /\ up \in Up
  /\ down \in [at : {"reading", "retire", "abandon", "ended"}, line : Lines \union {""}]
  /\ watchdog \in {"polling", "ended"}
  /\ outstanding \subseteq Lines
  /\ suppressed \in Lines \union {""}
  /\ daemon \in Daemon

\* The types in the two parts, one for each prover.
LEMMA ProxyTypeParts == ProxyTypeOK <=> Flags /\ Places
BY DEF ProxyTypeOK, Flags, Places

\* A step that leaves the flags alone.
LEMMA FlagsKept ==
  ASSUME Flags, UNCHANGED <<halfCloses, shutdown, abandoned, settled>>, Places'
  PROVE  ProxyTypeOK'
<1>1. Flags'
  BY Zenon DEF Flags
<1> QED
  BY <1>1 DEF ProxyTypeOK, Flags, Places

\* The proxy starts within its invariant.
LEMMA ProxyInvInit == ProxyInit => ProxyInv
<1> SUFFICES ASSUME ProxyInit PROVE ProxyInv
  OBVIOUS
<1>1. ProxyTypeOK
  <2>1. /\ host \in Host /\ up \in Up /\ daemon \in Daemon
        /\ delivered \in [Lines -> 0..1]
    <3>1. <<>> \in Seq(Lines) /\ {} \in SUBSET Lines
      OBVIOUS
    <3>2. host \in Host /\ daemon \in Daemon
      BY <3>1 DEF ProxyInit, Host, Daemon
    <3>3. up \in Up
      BY <3>1 DEF ProxyInit, Up
    <3>4. delivered \in [Lines -> 0..1]
      <4>1. delivered = [l \in Lines |-> 0]
        BY DEF ProxyInit
      <4> QED
        BY <4>1
    <3> QED
      BY <3>2, <3>3, <3>4
  <2>2. Flags
    BY Zenon DEF ProxyInit, Flags
  <2>3. Places
    BY <2>1 DEF ProxyInit, Places
  <2> QED
    BY <2>2, <2>3, ProxyTypeParts
<1>2. Distinct(<<>>) /\ \A l : ~In(l, <<>>)
  BY QueueEmpty DEF Distinct
<1>3. /\ host.in = <<>> /\ daemon.out = <<>> /\ up.asked = {} /\ up.at = "reading"
      /\ daemon.inbox = {} /\ daemon.answered = {} /\ down.at = "reading"
      /\ settled = FALSE /\ abandoned = FALSE /\ suppressed = ""
  BY DEF ProxyInit
<1>4. TakenOnce /\ OnePlace
  BY <1>2, <1>3 DEF TakenOnce, OnePlace
<1>5. AnsweredOnce
  <2>1. delivered = [l \in Lines |-> 0]
    BY DEF ProxyInit
  <2>2. \A l \in Lines : delivered[l] # 1
    BY <2>1
  <2> QED
    BY <1>3, <2>2, Zenon DEF AnsweredOnce
<1>6. NothingLost
  BY <1>3 DEF NothingLost
<1> QED
  BY <1>1, <1>4, <1>5, <1>6 DEF ProxyInv

\* What the host does; only a new line matters to the pumps.
LEMMA HostSteps ==
  ASSUME ProxyInv,
         \/ \E l \in Lines : HostSends(l)
         \/ HostCloses \/ HostDies \/ HostStopsReading \/ HostHangsUp
  PROVE  ProxyInv'
<1>1. UNCHANGED <<halfCloses, delivered, main, up, down, watchdog, shutdown, outstanding,
                  abandoned, suppressed, settled, daemon>>
  BY DEF HostSends, HostCloses, HostDies, HostStopsReading, HostHangsUp, HostStep, ledger
<1>2. host' \in Host /\ (host'.open => host.open)
  <2>1. host \in Host /\ host.in \in Seq(Lines)
    BY DEF ProxyInv, ProxyTypeOK, Host
  <2>2. \A l \in Lines : Append(host.in, l) \in Seq(Lines)
    BY <2>1
  <2>3. CASE \E l \in Lines : HostSends(l)
    <3>1. PICK l \in Lines : HostSends(l)
      BY <2>3
    <3>2. host' = [host EXCEPT !.in = Append(@, l), !.sent = @ \union {l}]
      BY <3>1 DEF HostSends
    <3>3. host'.open = host.open
      BY <2>1, <3>2 DEF Host
    <3>4. host' \in Host
      BY <2>1, <2>2, <3>2 DEF Host
    <3> QED
      BY <3>3, <3>4
  <2>4. CASE HostCloses \/ HostDies \/ HostStopsReading \/ HostHangsUp
    BY <2>1, <2>4 DEF HostCloses, HostDies, HostStopsReading, HostHangsUp, Host
  <2> QED
    BY <2>3, <2>4
<1>3. ProxyTypeOK'
  BY <1>1, <1>2, ProxyTypeParts, FlagsKept DEF ProxyInv, Places
<1>4. TakenOnce'
  <2>1. CASE \E l \in Lines : HostSends(l)
    <3>1. PICK l \in Lines : HostSends(l)
      BY <2>1
    <3>2. /\ l \notin host.sent /\ host'.in = Append(host.in, l)
          /\ host'.sent = host.sent \union {l} /\ host.in \in Seq(Lines)
      BY <3>1 DEF HostSends, ProxyInv, ProxyTypeOK, Host
    <3>3. ~In(l, host.in) /\ l \notin up.asked
      BY <3>2 DEF ProxyInv, TakenOnce
    <3> QED
      BY <1>1, <3>2, <3>3, QueueAppend DEF ProxyInv, TakenOnce
  <2>2. CASE HostCloses \/ HostDies \/ HostStopsReading \/ HostHangsUp
    <3>1. host'.in = host.in /\ host'.sent = host.sent
      BY <2>2 DEF HostCloses, HostDies, HostStopsReading, HostHangsUp, ProxyInv,
         ProxyTypeOK, Host
    <3> QED
      BY <1>1, <3>1 DEF ProxyInv, TakenOnce
  <2> QED
    BY <2>1, <2>2
<1>5. OnePlace' /\ AnsweredOnce'
  BY <1>1 DEF ProxyInv, OnePlace, AnsweredOnce, InTransit
<1>6. NothingLost'
  BY <1>1, <1>2 DEF ProxyInv, NothingLost
<1> QED
  BY <1>3, <1>4, <1>5, <1>6 DEF ProxyInv

\* The daemon answers a request it has.
LEMMA AnswerStep ==
  ASSUME ProxyInv, NEW l \in Lines, DaemonAnswers(l)
  PROVE  ProxyInv'
<1>1. UNCHANGED <<halfCloses, host, delivered, main, up, down, watchdog, shutdown, outstanding,
                  abandoned, suppressed, settled>>
  BY DEF DaemonAnswers, DaemonStep, ledger
<1>2. /\ l \in daemon.inbox /\ daemon.open
      /\ daemon'.inbox = daemon.inbox \ {l} /\ daemon'.answered = daemon.answered \union {l}
      /\ daemon'.out = Append(daemon.out, l) /\ daemon'.open = daemon.open
      /\ daemon.out \in Seq(Lines)
  BY DEF DaemonAnswers, DaemonStep, ProxyInv, ProxyTypeOK, Daemon
<1>3. l \notin daemon.answered /\ ~In(l, daemon.out) /\ (up.at = "forward" => up.line # l)
  BY <1>2 DEF ProxyInv, OnePlace
<1>4. /\ daemon'.out \in Seq(Lines) /\ Distinct(daemon'.out)
      /\ \A k : In(k, daemon'.out) <=> In(k, daemon.out) \/ k = l
  BY <1>2, <1>3, QueueAppend DEF ProxyInv, OnePlace
<1>5. ProxyTypeOK'
  <2>1. daemon' \in Daemon
    BY <1>2, <1>4 DEF DaemonAnswers, ProxyInv, ProxyTypeOK, Daemon
  <2> QED
    BY <1>1, <2>1, ProxyTypeParts, FlagsKept DEF ProxyInv, Places
<1>6. TakenOnce'
  BY <1>1 DEF ProxyInv, TakenOnce
<1>7. OnePlace'
  BY <1>1, <1>2, <1>3, <1>4 DEF ProxyInv, OnePlace
<1>8. AnsweredOnce'
  BY <1>1, <1>2, <1>4 DEF ProxyInv, AnsweredOnce, InTransit
<1>9. NothingLost'
  BY <1>1, <1>2, <1>4 DEF ProxyInv, NothingLost
<1> QED
  BY <1>5, <1>6, <1>7, <1>8, <1>9 DEF ProxyInv

\* The stream begins, ends or stalls, and the control steps that move no request.
LEMMA ControlSteps ==
  ASSUME ProxyInv,
         \/ DaemonGreets \/ DaemonTakesResponse \/ DaemonEnds \/ DaemonExits \/ DaemonStalls
         \/ DaemonFills \/ HalfClose
         \/ Attach \/ Settle \/ BudgetSpent
         \/ JoinWatchdog \/ JoinDown \/ WatchdogEnds
  PROVE  ProxyInv'
<1> USE DEF DaemonGreets, DaemonTakesResponse, DaemonEnds, DaemonExits, DaemonStalls,
            DaemonFills, DaemonStep, HalfClose, Attach, Settle, BudgetSpent, Waited,
            JoinWatchdog, JoinDown, WatchdogEnds, Running, ledger
<1>1. UNCHANGED <<halfCloses, host, delivered, up, down, outstanding, abandoned, suppressed>>
  OBVIOUS
<1>2. /\ daemon'.inbox \subseteq daemon.inbox /\ daemon'.answered = daemon.answered
      /\ daemon'.out = daemon.out /\ (daemon'.open => daemon.open) /\ daemon' \in Daemon
  <2>1. daemon \in Daemon /\ halfCloses \in BOOLEAN
    BY DEF ProxyInv, ProxyTypeOK
  <2>2. CASE DaemonGreets \/ DaemonTakesResponse \/ DaemonStalls \/ DaemonFills
    BY <2>1, <2>2 DEF Daemon
  <2>3. CASE DaemonEnds \/ DaemonExits \/ HalfClose
    BY <2>1, <2>3 DEF Daemon
  <2>4. CASE UNCHANGED daemon
    BY <2>1, <2>4
  <2> QED
    BY <2>2, <2>3, <2>4
<1>3. ProxyTypeOK'
  <2>1. Flags'
    BY <1>1, ProxyTypeParts, Zenon DEF ProxyInv, Flags
  <2>2. Places'
    BY <1>1, <1>2, ProxyTypeParts DEF ProxyInv, Places
  <2> QED
    BY <2>1, <2>2 DEF ProxyTypeOK, Flags, Places
<1>4. settled' => /\ main' \in {"joinWatchdog", "joinDown", "returned"}
                  /\ abandoned \/ outstanding = {}
  BY DEF Settled, ProxyInv, NothingLost
<1>5. TakenOnce' /\ OnePlace' /\ AnsweredOnce'
  BY <1>1, <1>2 DEF ProxyInv, TakenOnce, OnePlace, AnsweredOnce, InTransit
<1>6. NothingLost'
  BY <1>1, <1>2, <1>4 DEF ProxyInv, NothingLost
<1> QED
  BY <1>3, <1>5, <1>6 DEF ProxyInv

\* The pump takes a line: to answer it, recorded as owed, or dropped at the end.
LEMMA UpReadStep ==
  ASSUME ProxyInv, UpRead
  PROVE  ProxyInv'
<1> DEFINE l == Head(host.in)
<1>1. /\ main = "pump" /\ up.at = "reading" /\ up \in Up
      /\ UNCHANGED <<halfCloses, delivered, main, down, watchdog, shutdown, abandoned,
                     suppressed, settled, daemon>>
  BY DEF UpRead, ProxyInv, ProxyTypeOK
<1>2. /\ l \in Lines /\ host'.in = Tail(host.in) /\ host'.sent = host.sent
      /\ host'.open = host.open /\ host' \in Host
      /\ Distinct(host'.in) /\ ~In(l, host'.in) /\ In(l, host.in)
      /\ \A k : In(k, host'.in) => In(k, host.in)
  <2>1. host.in \in Seq(Lines) /\ host.in # <<>> /\ Distinct(host.in)
    BY DEF UpRead, ProxyInv, ProxyTypeOK, Host, TakenOnce
  <2>2. host'.in = Tail(host.in) /\ host'.sent = host.sent /\ host'.open = host.open
    BY DEF UpRead, ProxyInv, ProxyTypeOK, Host
  <2>3. Tail(host.in) \in Seq(Lines)
    BY <2>1
  <2>4. host' \in Host
    BY <2>3 DEF UpRead, ProxyInv, ProxyTypeOK, Host
  <2> QED
    BY <2>1, <2>2, <2>4, QueueTail
<1>3. l \in host.sent /\ l \notin up.asked /\ delivered[l] # 1 /\ ~InTransit(l)
  <2>1. l \in host.sent /\ l \notin up.asked
    BY <1>2 DEF ProxyInv, TakenOnce
  <2>2. delivered[l] # 1
    BY <1>2, <2>1 DEF ProxyInv, AnsweredOnce
  <2>3. ~InTransit(l)
    BY <1>1, <1>2, <2>1 DEF ProxyInv, OnePlace, InTransit
  <2> QED
    BY <2>1, <2>2, <2>3
<1>4. settled = FALSE
  BY <1>1 DEF ProxyInv, ProxyTypeOK, NothingLost
<1>5. CASE /\ up' \in Up /\ up'.asked = up.asked /\ outstanding' = outstanding
           /\ up'.at = "done" \/ (up'.at = "answer" /\ up'.line = l)
  <2>1. ProxyTypeOK'
    BY <1>1, <1>2, <1>5, ProxyTypeParts, FlagsKept DEF ProxyInv, Places
  <2>2. TakenOnce' /\ OnePlace'
    BY <1>1, <1>2, <1>3, <1>5 DEF ProxyInv, TakenOnce, OnePlace
  <2>3. AnsweredOnce' /\ NothingLost'
    BY <1>1, <1>2, <1>5 DEF ProxyInv, AnsweredOnce, InTransit, NothingLost
  <2> QED
    BY <2>1, <2>2, <2>3 DEF ProxyInv
<1>6. CASE l # "initialize" /\ UpRequest(l)
  <2>1. /\ up' \in Up /\ up'.asked = up.asked \union {l} /\ up'.at = "forward" /\ up'.line = l
        /\ outstanding' = outstanding \union {l}
    BY <1>1, <1>2, <1>6 DEF UpRequest, Handled, Up
  <2>2. ProxyTypeOK'
    <3>1. outstanding' \subseteq Lines
      BY <1>2, <2>1 DEF ProxyInv, ProxyTypeOK
    <3> QED
      BY <1>1, <1>2, <2>1, <3>1, ProxyTypeParts, FlagsKept DEF ProxyInv, Places
  <2>3. TakenOnce'
    BY <1>1, <1>2, <1>3, <2>1 DEF ProxyInv, TakenOnce
  <2>4. OnePlace'
    BY <1>1, <1>3, <2>1 DEF ProxyInv, OnePlace
  <2>5. AnsweredOnce'
    <3>1. \A k \in Lines : InTransit(k)' => InTransit(k) \/ k = l
      BY <1>1, <2>1 DEF InTransit
    <3> QED
      BY <1>1, <1>3, <1>6, <2>1, <3>1 DEF ProxyInv, AnsweredOnce
  <2>6. NothingLost'
    BY <1>1, <1>2, <1>4, <2>1 DEF ProxyInv, NothingLost
  <2> QED
    BY <2>2, <2>3, <2>4, <2>5, <2>6 DEF ProxyInv
<1>7. ASSUME UpLocal(l) PROVE ProxyInv'
  <2>1. (up.initialized \/ l = "initialize") \in BOOLEAN
    BY <1>1 DEF Up
  <2>2. up' \in Up /\ up'.asked = up.asked /\ up'.at = "answer" /\ up'.line = l
    BY <1>1, <1>2, <1>7, <2>1 DEF UpLocal, Up
  <2> QED
    BY <1>5, <1>7, <2>2 DEF UpLocal
<1>8. CASE shutdown
  <2>1. up' = [up EXCEPT !.at = "done"] /\ UNCHANGED outstanding
    BY <1>8 DEF UpRead
  <2> QED
    BY <1>1, <1>5, <2>1 DEF Up
<1>9. CASE ~shutdown /\ l = "initialize"
  BY <1>7, <1>9 DEF UpRead, LocalToolsList
<1>10. CASE ~shutdown /\ l # "initialize"
  BY <1>6, <1>7, <1>10 DEF UpRead
<1> QED
  BY <1>8, <1>9, <1>10

\* The pump answers the line in hand itself, unless the host has hung up.
LEMMA UpAnswerStep ==
  ASSUME ProxyInv, UpAnswer
  PROVE  ProxyInv'
<1> DEFINE l == up.line
<1>1. /\ main = "pump" /\ up.at = "answer" /\ up \in Up
      /\ UNCHANGED <<halfCloses, host, main, down, watchdog, shutdown, outstanding, abandoned,
                     settled, daemon>>
  BY DEF UpAnswer, ledger, ProxyInv, ProxyTypeOK
<1>2. l \in host.sent /\ l \in Lines /\ l \notin up.asked /\ ~In(l, host.in)
  BY <1>1 DEF ProxyInv, ProxyTypeOK, Host, TakenOnce
<1>3. delivered[l] = 0 /\ delivered \in [Lines -> 0..1] /\ ~InTransit(l)
  <2>1. delivered \in [Lines -> 0..1] /\ delivered[l] # 1
    BY <1>2 DEF ProxyInv, ProxyTypeOK, AnsweredOnce
  <2>2. ~InTransit(l)
    BY <1>1, <1>2 DEF ProxyInv, OnePlace, InTransit
  <2> QED
    BY <1>2, <2>1, <2>2
<1>4. settled = FALSE
  BY <1>1 DEF ProxyInv, ProxyTypeOK, NothingLost
<1>5. CASE host.open
  <2>1. /\ delivered' = [delivered EXCEPT ![l] = @ + 1]
        /\ up' \in Up /\ up'.asked = up.asked \union {l}
        /\ l = "initialize" => /\ up'.at = "forward" /\ up'.line = l /\ suppressed' = l
        /\ l # "initialize" => up'.at = "reading" /\ suppressed' = suppressed
    <3>1. CASE l = "initialize"
      <4>1. /\ delivered' = [delivered EXCEPT ![l] = @ + 1] /\ suppressed' = l
            /\ up' = [Handled(l) EXCEPT !.at = "forward"]
        BY <1>5, <3>1 DEF UpAnswer
      <4> QED
        BY <1>1, <1>2, <3>1, <4>1 DEF Handled, Up
    <3>2. CASE l # "initialize"
      <4>1. /\ delivered' = [delivered EXCEPT ![l] = @ + 1] /\ suppressed' = suppressed
            /\ up' = [Handled(l) EXCEPT !.at = "reading", !.line = ""]
        BY <1>5, <3>2 DEF UpAnswer
      <4> QED
        BY <1>1, <1>2, <3>2, <4>1 DEF Handled, Up
    <3> QED
      BY <3>1, <3>2
  <2>2. /\ delivered' \in [Lines -> 0..1] /\ delivered'[l] = 1
        /\ \A k \in Lines \ {l} : delivered'[k] = delivered[k]
    BY <1>2, <1>3, <2>1
  <2>3. ProxyTypeOK'
    <3>1. suppressed' \in Lines \union {""}
      BY <1>2, <2>1 DEF ProxyInv, ProxyTypeOK
    <3> QED
      BY <1>1, <2>1, <2>2, <3>1, ProxyTypeParts, FlagsKept DEF ProxyInv, Places
  <2>4. TakenOnce'
    BY <1>1, <1>2, <2>1 DEF ProxyInv, TakenOnce
  <2>5. OnePlace'
    BY <1>1, <1>2, <2>1 DEF ProxyInv, OnePlace
  <2>6. AnsweredOnce'
    <3>1. \A k \in Lines : delivered'[k] = 1 => k \in up'.asked
      BY <2>1, <2>2 DEF ProxyInv, AnsweredOnce
    <3>2. \A k \in Lines : InTransit(k)' => InTransit(k) \/ (k = l /\ l = "initialize")
      BY <1>1, <2>1 DEF InTransit
    <3>3. \A k \in Lines : InTransit(k)' /\ delivered'[k] = 1 => k = "initialize"
      BY <1>3, <2>2, <3>2 DEF ProxyInv, AnsweredOnce
    <3>4. /\ "initialize" \in up'.asked => suppressed' = "initialize" /\ delivered'["initialize"] = 1
          /\ suppressed' \in {"initialize", ""}
      <4>1. CASE l = "initialize"
        BY <2>1, <2>2, <4>1
      <4>2. CASE l # "initialize"
        BY <2>1, <2>2, <4>2 DEF ProxyInv, ProxyTypeOK, Up, AnsweredOnce
      <4> QED
        BY <4>1, <4>2
    <3> QED
      BY <3>1, <3>3, <3>4 DEF AnsweredOnce
  <2>7. NothingLost'
    <3>1. \A k \in Lines : delivered[k] = 1 => delivered'[k] = 1
      BY <1>3, <2>2
    <3>2. up.asked \subseteq Lines /\ daemon.answered \subseteq Lines
      BY DEF ProxyInv, ProxyTypeOK, Up, Daemon
    <3> QED
      BY <1>1, <1>4, <2>1, <2>2, <3>1, <3>2 DEF ProxyInv, NothingLost
  <2> QED
    BY <2>3, <2>4, <2>5, <2>6, <2>7 DEF ProxyInv
<1>6. CASE ~host.open
  <2>1. /\ up' \in Up /\ up'.asked = up.asked /\ up'.at = "done"
        /\ UNCHANGED <<delivered, suppressed>>
    BY <1>1, <1>6 DEF UpAnswer, UpFails, Up
  <2>2. ProxyTypeOK'
    BY <1>1, <2>1, ProxyTypeParts, FlagsKept DEF ProxyInv, Places
  <2>3. TakenOnce' /\ OnePlace'
    BY <1>1, <2>1 DEF ProxyInv, TakenOnce, OnePlace
  <2>4. AnsweredOnce' /\ NothingLost'
    BY <1>1, <2>1 DEF ProxyInv, AnsweredOnce, InTransit, NothingLost
  <2> QED
    BY <2>2, <2>3, <2>4 DEF ProxyInv
<1> QED
  BY <1>5, <1>6

\* The input ends, or the line in hand goes out.
LEMMA UpSendStep ==
  ASSUME ProxyInv, UpEof \/ UpForward
  PROVE  ProxyInv'
<1>1. UNCHANGED <<halfCloses, host, delivered, main, down, watchdog, shutdown, outstanding,
                  abandoned, suppressed, settled>>
  BY DEF UpEof, UpForward, ledger
<1>2. up \in Up /\ daemon \in Daemon
  BY DEF ProxyInv, ProxyTypeOK
<1>3. up' \in Up /\ up'.asked = up.asked /\ up'.at \in {"done", "reading"}
  <2>1. CASE up' = [up EXCEPT !.at = "done"]
    BY <1>2, <2>1 DEF Up
  <2>2. CASE up' = [up EXCEPT !.at = "reading", !.line = ""]
    BY <1>2, <2>2 DEF Up
  <2>3. CASE up' = [up EXCEPT !.at = "done", !.ok = FALSE]
    BY <1>2, <2>3 DEF Up
  <2> QED
    BY <2>1, <2>2, <2>3 DEF UpEof, UpForward, UpFails
<1>4. TakenOnce'
  BY <1>1, <1>3 DEF ProxyInv, TakenOnce
<1>5. CASE UNCHANGED daemon
  <2>1. ProxyTypeOK'
    BY <1>1, <1>3, <1>5, ProxyTypeParts, FlagsKept DEF ProxyInv, Places
  <2>2. OnePlace'
    BY <1>1, <1>3, <1>5 DEF ProxyInv, OnePlace
  <2>3. AnsweredOnce' /\ NothingLost'
    BY <1>1, <1>3, <1>5 DEF ProxyInv, AnsweredOnce, InTransit, NothingLost
  <2> QED
    BY <1>4, <2>1, <2>2, <2>3 DEF ProxyInv
<1>6. CASE UpForward /\ daemon.open
  <2>1. /\ daemon'.inbox = daemon.inbox \union {up.line} /\ daemon'.answered = daemon.answered
        /\ daemon'.out = daemon.out /\ daemon'.open = daemon.open
        /\ up.at = "forward" /\ up.line \in up.asked
    BY <1>2, <1>6 DEF UpForward, Daemon, ProxyInv, OnePlace
  <2>2. daemon' \in Daemon
    BY <1>2, <1>6, <2>1 DEF UpForward, Daemon, Up
  <2>3. ProxyTypeOK'
    BY <1>1, <1>3, <2>2, ProxyTypeParts, FlagsKept DEF ProxyInv, Places
  <2>4. OnePlace'
    BY <1>1, <1>3, <2>1 DEF ProxyInv, OnePlace
  <2>5. AnsweredOnce' /\ NothingLost'
    BY <1>1, <1>3, <2>1 DEF ProxyInv, AnsweredOnce, InTransit, NothingLost
  <2> QED
    BY <1>4, <2>3, <2>4, <2>5 DEF ProxyInv
<1> QED
  BY <1>5, <1>6 DEF UpEof, UpForward

\* A reply comes: skipped, written to the host, or the host has hung up.
LEMMA DownForwardStep ==
  ASSUME ProxyInv, DownForward
  PROVE  ProxyInv'
<1> DEFINE l == Head(daemon.out)
<1>1. /\ UNCHANGED <<halfCloses, host, main, up, watchdog, shutdown, outstanding, abandoned,
                     suppressed, settled>>
      /\ down.at = "reading" /\ ~abandoned
  BY DEF DownForward, ledger, ProxyInv, NothingLost
<1>2. /\ l \in Lines /\ daemon'.inbox = daemon.inbox /\ daemon'.answered = daemon.answered
      /\ daemon'.open = daemon.open /\ daemon' \in Daemon
      /\ Distinct(daemon'.out) /\ ~In(l, daemon'.out)
      /\ \A k : In(k, daemon.out) <=> k = l \/ In(k, daemon'.out)
  <2>1. daemon.out \in Seq(Lines) /\ daemon.out # <<>> /\ Distinct(daemon.out)
    BY DEF DownForward, ProxyInv, ProxyTypeOK, Daemon, OnePlace
  <2>2. /\ daemon'.out = Tail(daemon.out) /\ daemon'.inbox = daemon.inbox
        /\ daemon'.answered = daemon.answered /\ daemon'.open = daemon.open
    BY DEF DownForward, ProxyInv, ProxyTypeOK, Daemon
  <2>3. Tail(daemon.out) \in Seq(Lines)
    BY <2>1
  <2>4. daemon' \in Daemon
    BY <2>3 DEF DownForward, ProxyInv, ProxyTypeOK, Daemon
  <2> QED
    BY <2>1, <2>2, <2>4, QueueTail
<1>3. l \in daemon.answered /\ l \in up.asked /\ l \notin daemon.inbox
      /\ (up.at = "forward" => up.line # l) /\ InTransit(l)
  BY <1>2 DEF ProxyInv, OnePlace, InTransit
<1>4. TakenOnce' /\ OnePlace'
  BY <1>1, <1>2 DEF ProxyInv, TakenOnce, OnePlace
<1>5. \A k \in Lines : InTransit(k)' => InTransit(k) /\ k # l
  BY <1>1, <1>2, <1>3 DEF InTransit
<1>6. CASE l = suppressed
  <2>1. UNCHANGED <<delivered, down>>
    BY <1>6, Zenon DEF DownForward
  <2>2. l = "initialize" /\ delivered[l] = 1
    BY <1>2, <1>3, <1>6, LinesAssumption DEF ProxyInv, AnsweredOnce
  <2>3. ProxyTypeOK'
    BY <1>1, <1>2, <2>1, ProxyTypeParts, FlagsKept DEF ProxyInv, Places
  <2>4. AnsweredOnce'
    BY <1>1, <1>2, <1>5, <2>1 DEF ProxyInv, AnsweredOnce
  <2>5. NothingLost'
    BY <1>1, <1>2, <2>1, <2>2 DEF ProxyInv, NothingLost
  <2> QED
    BY <1>4, <2>3, <2>4, <2>5 DEF ProxyInv
<1>7. CASE l # suppressed /\ host.open
  <2>1. delivered' = [delivered EXCEPT ![l] = @ + 1] /\ down' = [at |-> "retire", line |-> l]
    BY <1>7 DEF DownForward
  <2>2. delivered[l] = 0 /\ delivered \in [Lines -> 0..1]
    <3>1. delivered[l] \in 0..1 /\ delivered \in [Lines -> 0..1]
      BY <1>2 DEF ProxyInv, ProxyTypeOK
    <3>2. delivered[l] # 1
      BY <1>2, <1>3, <1>7 DEF ProxyInv, AnsweredOnce
    <3> QED
      BY <3>1, <3>2
  <2>3. /\ delivered' \in [Lines -> 0..1] /\ delivered'[l] = 1
        /\ \A k \in Lines \ {l} : delivered'[k] = delivered[k]
    BY <1>2, <2>1, <2>2
  <2>4. l # "initialize"
    BY <1>3, <1>7 DEF ProxyInv, AnsweredOnce
  <2>5. ProxyTypeOK'
    BY <1>1, <1>2, <2>1, <2>3, ProxyTypeParts, FlagsKept DEF ProxyInv, Places
  <2>6. AnsweredOnce'
    <3>1. up.asked \subseteq Lines
      BY DEF ProxyInv, ProxyTypeOK, Up
    <3> QED
      BY <1>1, <1>3, <1>5, <2>3, <2>4, <3>1 DEF ProxyInv, AnsweredOnce
  <2>7. NothingLost'
    <3>1. up.asked \subseteq Lines /\ daemon.answered \subseteq Lines
      BY DEF ProxyInv, ProxyTypeOK, Up, Daemon
    <3>2. \A k \in Lines : delivered[k] = 1 => delivered'[k] = 1
      BY <2>2, <2>3
    <3> QED
      BY <1>1, <1>2, <2>1, <2>3, <3>1, <3>2 DEF ProxyInv, NothingLost
  <2> QED
    BY <1>4, <2>5, <2>6, <2>7 DEF ProxyInv
<1>8. CASE l # suppressed /\ ~host.open
  <2>1. delivered' = delivered /\ down' = [down EXCEPT !.at = "abandon"]
    BY <1>8 DEF DownForward
  <2>2. down'.at = "abandon" /\ ProxyTypeOK'
    BY <1>1, <1>2, <2>1, ProxyTypeParts, FlagsKept DEF ProxyInv, Places
  <2>3. AnsweredOnce'
    BY <1>1, <1>5, <2>1 DEF ProxyInv, AnsweredOnce
  <2>4. NothingLost'
    BY <1>1, <1>8, <2>1, <2>2 DEF ProxyInv, NothingLost
  <2> QED
    BY <1>4, <2>2, <2>3, <2>4 DEF ProxyInv
<1> QED
  BY <1>6, <1>7, <1>8

\* A delivered reply is struck from the ledger; the end of the stream gives it up.
LEMMA DownLedgerStep ==
  ASSUME ProxyInv, DownRetire \/ DownEof \/ DownAbandon
  PROVE  ProxyInv'
<1>1. UNCHANGED <<halfCloses, host, delivered, main, up, watchdog, shutdown, suppressed,
                  settled, daemon>>
  BY DEF DownRetire, DownEof, DownAbandon, ledger
<1>2. TakenOnce' /\ OnePlace' /\ AnsweredOnce'
  BY <1>1 DEF ProxyInv, TakenOnce, OnePlace, AnsweredOnce, InTransit
<1>3. ProxyTypeOK'
  <2>1. Flags'
    <3>1. abandoned' = abandoned \/ abandoned' = TRUE
      BY DEF DownRetire, DownEof, DownAbandon, ledger
    <3> QED
      BY <1>1, <3>1, ProxyTypeParts, Zenon DEF ProxyInv, Flags
  <2>2. Places'
    <3>1. Places
      BY ProxyTypeParts DEF ProxyInv
    <3>2. outstanding' \subseteq Lines
      BY <3>1 DEF DownRetire, DownEof, DownAbandon, ledger, Places
    <3>3. down' \in [at : {"reading", "retire", "abandon", "ended"}, line : Lines \union {""}]
      <4>1. CASE DownRetire
        BY <4>1 DEF DownRetire
      <4>2. CASE DownEof \/ DownAbandon
        <5>1. PICK at \in {"abandon", "ended"} : down' = [down EXCEPT !.at = at]
          BY <4>2 DEF DownEof, DownAbandon
        <5>2. down \in [at : {"reading", "retire", "abandon", "ended"}, line : Lines \union {""}]
          BY <3>1 DEF Places
        <5> QED
          BY <5>1, <5>2
      <4> QED
        BY <4>1, <4>2
    <3> QED
      BY <1>1, <3>1, <3>2, <3>3 DEF Places
  <2> QED
    BY <2>1, <2>2 DEF ProxyTypeOK, Flags, Places
<1>4. NothingLost'
  <2>1. CASE DownRetire
    <3>1. /\ outstanding' = outstanding \ {down.line} /\ down'.at = "reading"
          /\ UNCHANGED abandoned /\ delivered[down.line] = 1 /\ ~abandoned
      BY <2>1 DEF DownRetire, ProxyInv, NothingLost
    <3> QED
      BY <1>1, <3>1 DEF ProxyInv, NothingLost
  <2>2. CASE DownEof
    <3>1. /\ down'.at = "abandon" /\ daemon.out = <<>> /\ ~daemon.open /\ ~abandoned
          /\ UNCHANGED <<outstanding, abandoned>>
      BY <2>2 DEF DownEof, ledger, ProxyInv, ProxyTypeOK, NothingLost
    <3> QED
      BY <1>1, <3>1 DEF ProxyInv, NothingLost
  <2>3. CASE DownAbandon
    <3>1. /\ down'.at = "ended" /\ down.at = "abandon" /\ abandoned' /\ UNCHANGED outstanding
      BY <2>3 DEF DownAbandon, ProxyInv, ProxyTypeOK
    <3> QED
      BY <1>1, <3>1 DEF ProxyInv, NothingLost
  <2> QED
    BY <2>1, <2>2, <2>3
<1> QED
  BY <1>2, <1>3, <1>4 DEF ProxyInv

\* Every step of host, daemon and proxy keeps the invariant.
LEMMA ProxyInvStep == ProxyInv /\ [ProxyNext]_proxyVars => ProxyInv'
<1> SUFFICES ASSUME ProxyInv, [ProxyNext]_proxyVars PROVE ProxyInv'
  OBVIOUS
<1>1. CASE UNCHANGED proxyVars
  <2> USE <1>1 DEF proxyVars, ledger, ProxyInv
  <2>1. ProxyTypeOK'
    BY ProxyTypeParts, FlagsKept DEF Places
  <2>2. TakenOnce' /\ OnePlace'
    BY DEF TakenOnce, OnePlace
  <2>3. AnsweredOnce' /\ NothingLost'
    BY DEF AnsweredOnce, NothingLost, InTransit
  <2> QED
    BY <2>1, <2>2, <2>3
<1>2. CASE ProxyNext
  BY <1>2, HostSteps, AnswerStep, ControlSteps, UpReadStep, UpAnswerStep, UpSendStep,
     DownForwardStep,
     DownLedgerStep DEF ProxyNext, Main, Down
<1> QED
  BY <1>1, <1>2

\* The invariant holds throughout.
LEMMA ProxyInvariance == ProxySpec => []ProxyInv
BY ProxyInvInit, ProxyInvStep, PTL DEF ProxySpec

\* The proxy's types, and that its host gets at most one reply to a request,
\* whichever of the proxy and the daemon answers and in whatever order.
THEOREM ProxyTypeCorrect == ProxySpec => []ProxyTypeOK
BY ProxyInvariance, PTL DEF ProxyInv

\* A proxy that reports success to a host that keeps its pipe open has delivered a reply to
\* every request it took, but for those the daemon ended its stream without
\* answering.
THEOREM ProxyLosesNoReply == ProxySpec => []NoReplyLost
<1>1. ProxyInv => NoReplyLost
  <2> SUFFICES ASSUME ProxyInv, settled, host.open, NEW l \in up.asked
               PROVE  delivered[l] = 1 \/ (l \notin daemon.answered /\ ~daemon.open)
    BY DEF NoReplyLost, Proxied
  <2>1. CASE outstanding = {}
    BY <2>1 DEF ProxyInv, NothingLost
  <2>2. CASE abandoned
    <3>1. daemon.out = <<>> /\ ~daemon.open
      BY <2>2 DEF ProxyInv, NothingLost
    <3>2. ~In(l, daemon.out)
      BY <3>1, QueueEmpty
    <3> QED
      BY <3>1, <3>2 DEF ProxyInv, NothingLost
  <2> QED
    BY <2>1, <2>2 DEF ProxyInv, NothingLost
<1> QED
  BY <1>1, ProxyInvariance, PTL

=============================================================================
