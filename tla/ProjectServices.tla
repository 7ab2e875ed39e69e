--------------------------- MODULE ProjectServices ---------------------------
(***************************************************************************)
(* The broker of one MCP session (codegraph-mcp/src/project_services.rs):  *)
(* `ensure' called by concurrent requests, each for a project, with its    *)
(* two maps, the per-project gates and their reference counts.  The        *)
(* starter (retain_project_daemon) runs outside both map locks and may     *)
(* fail; a service may stop being live at any time.                        *)
(***************************************************************************)
EXTENDS Naturals, FiniteSets

CONSTANTS Callers, Projects, Gates,   \* Gates: mutexes that may be allocated
          None,
          MAX_SESSION_PROJECT_SERVICES

ASSUME ProjectServicesAssumption ==
  /\ IsFiniteSet(Callers) /\ IsFiniteSet(Projects)
  /\ None \notin Callers \union Projects \union Gates
  /\ Cardinality(Gates) >= Cardinality(Callers) + Cardinality(Projects)
  /\ MAX_SESSION_PROJECT_SERVICES \in Nat

VARIABLES
  handles,   \* per project: "none", or whether the retained service is live
  gates,     \* per project: the gate the map holds
  owner,     \* per gate: whoever has locked it
  call       \* per caller: its step of ensure, its project, the gate it refers to

vars == <<handles, gates, owner, call>>

Steps == {"idle", "reserve", "lock", "recheck", "starting", "insert", "release", "unlock", "drop"}

NoCall == [at |-> "idle", project |-> None, gate |-> None]

Reserved == {p \in Projects : gates[p] # None}

\* Types, that no more projects than allowed are reserved, and that a retained
\* service always counts against them.
TypeOK ==
  /\ handles \in [Projects -> {"none", "live", "stale"}]
  /\ gates \in [Projects -> Gates \union {None}]
  /\ owner \in [Gates -> Callers \union {None}]
  /\ call \in [Callers -> [at : Steps, project : Projects \union {None},
                           gate : Gates \union {None}]]
  /\ Cardinality(Reserved) <= MAX_SESSION_PROJECT_SERVICES
  /\ \A p \in Projects : handles[p] # "none" => p \in Reserved

Init ==
  /\ handles = [p \in Projects |-> "none"]
  /\ gates = [p \in Projects |-> None]
  /\ owner = [g \in Gates |-> None]
  /\ call = [c \in Callers |-> NoCall]

\* Arc::strong_count: the map's reference and one per caller.
StrongCount(g) == Cardinality({p \in Projects : gates[p] = g})
                  + Cardinality({c \in Callers : call[c].gate = g})

At(c, step) == call[c].at = step
Goto(c, step) == call' = [call EXCEPT ![c].at = step]

-----------------------------------------------------------------------------
(* ensure, one step per critical section.                                  *)

\* A live service is enough; a stale one is dropped.
Lookup(c, p) ==
  /\ At(c, "idle")
  /\ IF handles[p] = "live" THEN UNCHANGED <<handles, call>>
     ELSE /\ handles' = [handles EXCEPT ![p] = "none"]
          /\ call' = [call EXCEPT ![c] = [at |-> "reserve", project |-> p, gate |-> None]]
  /\ UNCHANGED <<gates, owner>>

\* Mutant: the limit counts the retained services, not the reserved projects.
AtLimitOfHandles(p) ==
  /\ gates[p] = None
  /\ Cardinality({q \in Projects : handles[q] # "none"}) >= MAX_SESSION_PROJECT_SERVICES

AtLimit(p) == gates[p] = None /\ Cardinality(Reserved) >= MAX_SESSION_PROJECT_SERVICES

\* A gate of no map entry and no caller: a new one.
Fresh == {g \in Gates : StrongCount(g) = 0}

\* The project's gate is looked up or created under one lock.
Reserve(c) ==
  LET p == call[c].project IN
  /\ At(c, "reserve")
  /\ IF AtLimit(p) THEN call' = [call EXCEPT ![c] = NoCall] /\ UNCHANGED gates
     ELSE \E g \in Gates :
            /\ IF gates[p] = None THEN g \in Fresh ELSE g = gates[p]
            /\ gates' = [gates EXCEPT ![p] = g]
            /\ call' = [call EXCEPT ![c].at = "lock", ![c].gate = g]
  /\ UNCHANGED <<handles, owner>>

Lock(c) ==
  /\ At(c, "lock") /\ owner[call[c].gate] = None
  /\ owner' = [owner EXCEPT ![call[c].gate] = c]
  /\ Goto(c, "recheck")
  /\ UNCHANGED <<handles, gates>>

\* Whoever held the gate before may have started the service.
Recheck(c) ==
  /\ At(c, "recheck")
  /\ Goto(c, IF handles[call[c].project] = "none" THEN "starting" ELSE "unlock")
  /\ UNCHANGED <<handles, gates, owner>>

\* The starter returns.
Started(c) ==
  /\ At(c, "starting")
  /\ Goto(c, "insert") \/ Goto(c, "release")
  /\ UNCHANGED <<handles, gates, owner>>

\* The new service may have died since it was started.
Insert(c) ==
  /\ At(c, "insert")
  /\ \E state \in {"live", "stale"} : handles' = [handles EXCEPT ![call[c].project] = state]
  /\ Goto(c, "unlock")
  /\ UNCHANGED <<gates, owner>>

\* Mutant: a failed start takes the gate away from its waiters.
LastUserAlways(c) == gates[call[c].project] = call[c].gate

LastUser(c) == gates[call[c].project] = call[c].gate /\ StrongCount(call[c].gate) = 2

\* A failed start frees its slot, if nobody else refers to the gate.
Release(c) ==
  /\ At(c, "release")
  /\ gates' = IF LastUser(c) THEN [gates EXCEPT ![call[c].project] = None] ELSE gates
  /\ Goto(c, "unlock")
  /\ UNCHANGED <<handles, owner>>

\* The guard is dropped before the reference to the gate.
Unlock(c) ==
  /\ At(c, "unlock")
  /\ owner' = [owner EXCEPT ![call[c].gate] = None]
  /\ Goto(c, "drop")
  /\ UNCHANGED <<handles, gates>>

Drop(c) ==
  /\ At(c, "drop")
  /\ call' = [call EXCEPT ![c] = NoCall]
  /\ UNCHANGED <<handles, gates, owner>>

\* The daemon exited, or the index was removed or re-created.
GoesStale(p) ==
  /\ handles[p] = "live"
  /\ handles' = [handles EXCEPT ![p] = "stale"]
  /\ UNCHANGED <<gates, owner, call>>

Next ==
  \/ \E c \in Callers, p \in Projects : Lookup(c, p)
  \/ \E c \in Callers : Reserve(c) \/ Lock(c) \/ Recheck(c) \/ Started(c) \/ Insert(c)
                        \/ Release(c) \/ Unlock(c) \/ Drop(c)
  \/ \E p \in Projects : GoesStale(p)

Spec == Init /\ [][Next]_vars

-----------------------------------------------------------------------------
\* Concurrent calls for one project start one service: whoever is starting it
\* is the only one and replaces no service the session retains, also after
\* failed starts have removed and re-created the project's gate.
OneStart ==
  \A c \in Callers : call[c].at \in {"starting", "insert"} =>
    /\ handles[call[c].project] = "none"
    /\ \A d \in Callers \ {c} : call[d].at \in {"starting", "insert"}
                                 => call[d].project # call[c].project

=============================================================================
