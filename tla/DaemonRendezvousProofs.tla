----------------------- MODULE DaemonRendezvousProofs -----------------------
(***************************************************************************)
(* DaemonRendezvous, proved for any number of processes.                   *)
(*                                                                         *)
(* The invariant says, besides the types: which command is at which step;  *)
(* that, while no live process's record was removed, an owner's record is  *)
(* in place and a claimed placeholder still empty; that the startup gate   *)
(* and uninit exclude each other; and what uninit knows of the daemons     *)
(* once it waits or removes.                                               *)
(*                                                                         *)
(* The steps are summarised first: what a step of one process may do to    *)
(* the others, to the record, to the gate and to the socket files.  The    *)
(* invariant is then proved from the summaries.                            *)
(***************************************************************************)
EXTENDS DaemonRendezvous, TLAPS

-----------------------------------------------------------------------------
(* The inductive invariant.                                                *)

Claiming == {"publishCheck", "publishRename"}
Rewriting == {"rewriteCheck", "rewriteRename"}
Listeners == {"rewriteRead", "rewriteCheck", "rewriteRename", "serving"}

\* Which command is at which step, where a later step depends on it.
DaemonLabels == {"gate", "bindUnlink", "bind", "rewriteRead", "rewriteCheck", "rewriteRename",
                 "serving", "cleanupCheck", "cleanupSocket"}
TokenLabels == {"claim", "publishCheck", "publishRename", "cleanupRecheck", "cleanupRemove"}

RoleInv ==
  /\ \A p \in Procs : /\ pc[p] \in DaemonLabels => role[p] = "daemon"
                      /\ pc[p] \in TokenLabels => role[p] \in {"daemon", "heal"}
                      /\ pc[p] = "healUnlink" => role[p] = "heal"
                      /\ pc[p] = "writerTry" => role[p] \in {"daemon", "direct"}
                      /\ pc[p] \in Rewriting => Recorded(seen[p])
  /\ writer # None => role[writer] \in {"daemon", "direct"}

Kept == "liveRecordRemoved" \notin lapses

\* The record is that of the one owner, or the placeholder of the one claimant.
OwnerInv ==
  Kept =>
    /\ \A p \in Procs : Owner(p) => RecordNames(p)
    /\ \A p \in Procs : pc[p] \in Claiming => record = Empty
    /\ \A p, q \in Procs : pc[p] \in Claiming /\ pc[q] \in Claiming => p = q
    /\ \A p \in Procs : pc[p] \in Rewriting => seen[p].pid = p

\* The shared lease of the gate and uninit's exclusive one.
GateInv == \A p, q \in Procs : pc[p] \in Uninit => ~HoldsGate(q)

DaemonOwner(q) == role[q] = "daemon" /\ pc[q] \in OwnerLabels

\* While uninit waits, the daemon it asked to stop is the only one there is;
\* when it removes the files, there is none.
UninitInv ==
  Kept => \A p, q \in Procs : DaemonOwner(q) =>
            /\ pc[p] \notin UninitRemoval
            /\ pc[p] = "uninitWait" => q = seen[p].pid

\* The record names the first candidate until it is rewritten, and the socket
\* file of a listener is its own.
ReachInv ==
  lapses = {} =>
    \A p \in Procs :
      /\ Owner(p) /\ pc[p] \in Publishing => record = [pid |-> p, socket |-> "primary"]
      /\ pc[p] \in Listeners => file[sock[p]] = p
      /\ pc[p] = "serving" => record = [pid |-> p, socket |-> sock[p]]

RendezvousInv ==
  TypeOK /\ RoleInv /\ OwnerInv /\ GateInv /\ UninitInv /\ ReachInv

-----------------------------------------------------------------------------
(* The steps of a process, by section of the code.                         *)

ClaimSteps(p) ==
  Gate(p) \/ Claim(p) \/ PublishCheck(p) \/ PublishRename(p) \/ ReadExisting(p) \/ Attach(p)
ClearSteps(p) == ClearRead(p) \/ ClearRemove(p) \/ HealRead(p) \/ HealUnlink(p)
ServeSteps(p) ==
  WriterTry(p) \/ BindUnlink(p) \/ Bind(p) \/ RewriteRead(p) \/ RewriteCheck(p) \/ RewriteRename(p)
EndSteps(p) ==
  StopServing(p) \/ CleanupCheck(p) \/ CleanupSocket(p) \/ CleanupRecheck(p) \/ CleanupRemove(p)
    \/ Release(p) \/ DropListener(p)
UninitSteps(p) ==
  UninitLease(p) \/ UninitDrain(p) \/ UninitWait(p) \/ UninitRemovePid(p) \/ UninitRemoveSocket(p)
LifeSteps(p) == (\E r \in Roles : Start(p, r)) \/ Killed(p)

Act(p) == ClaimSteps(p) \/ ClearSteps(p) \/ ServeSteps(p) \/ EndSteps(p) \/ UninitSteps(p)
            \/ LifeSteps(p)

\* The next-state relation, by the sections above.
LEMMA NextIsAct == Next <=> (\E p \in Procs : Act(p)) \/ InitAgain
BY DEF Next, Act, ClaimSteps, ClearSteps, ServeSteps, EndSteps, UninitSteps, LifeSteps, Step

USE DEF Goto, See, Use, Continue, End, Lapse, RemoveRecord, Unlink

\* Other processes keep what is theirs; only uninit's shutdown frame moves one,
\* out of its accept loop.
OthersKeep(p) ==
  /\ \A q \in Procs \ {p} :
       /\ role'[q] = role[q] /\ seen'[q] = seen[q] /\ sock'[q] = sock[q]
       /\ pc'[q] = pc[q] \/ (pc[q] = "serving" /\ pc'[q] = "cleanupCheck")
  /\ lapses \subseteq lapses'

\* A step of one process leaves the others alone, but for that frame.
LEMMA Others ==
  ASSUME TypeOK, NEW p \in Procs, Act(p)
  PROVE  OthersKeep(p)
<1> USE DEF TypeOK, OthersKeep
<1>1. CASE ClaimSteps(p)
  BY <1>1 DEF ClaimSteps, Gate, Claim, PublishCheck, PublishRename, NotClaimed, ReadExisting,
     Attach
<1>2. CASE ClearSteps(p)
  BY <1>2 DEF ClearSteps, ClearRead, ClearRemove, NotCleared, HealRead, HealUnlink
<1>3. CASE ServeSteps(p)
  BY <1>3 DEF ServeSteps, WriterTry, BindUnlink, Bind, RewriteRead, RewriteCheck, RewriteRename,
              NotPersisted
<1>4. CASE EndSteps(p)
  BY <1>4 DEF EndSteps, StopServing, CleanupCheck, CleanupSocket, CleanupRecheck, CleanupRemove,
              Release, DropListener
<1>5. CASE UninitSteps(p)
  BY <1>5 DEF UninitSteps, UninitLease, UninitDrain, Listening, UninitWait, UninitRemovePid,
              UninitRemoveSocket
<1>6. CASE LifeSteps(p)
  BY <1>6 DEF LifeSteps, Start, Killed
<1> QED
  BY <1>1, <1>2, <1>3, <1>4, <1>5, <1>6 DEF Act

-----------------------------------------------------------------------------
(* Types and roles.                                                        *)

\* A record that is none of the two file states is a record.
LEMMA RecordedTyped ==
  ASSUME NEW r \in Record \union {None, Empty}
  PROVE  Recorded(r) <=> r \in Record
BY DaemonRendezvousAssumption DEF Recorded

\* Steps and commands keep their types.
LEMMA LabelStep ==
  ASSUME TypeOK, RoleInv, NEW p \in Procs, Act(p)
  PROVE  pc' \in [Procs -> Labels] /\ role' \in [Procs -> Roles]
<1> USE DEF TypeOK, Labels, Publishing, Cleanup, Uninit, UninitRemoval, Ended, Roles
<1>1. CASE ClaimSteps(p)
  BY <1>1 DEF ClaimSteps, Gate, Claim, PublishCheck, PublishRename, NotClaimed, ReadExisting,
     Attach
<1>2. CASE ClearSteps(p)
  BY <1>2 DEF ClearSteps, ClearRead, ClearRemove, Cleared, NotCleared, HealRead, HealUnlink
<1>3. CASE ServeSteps(p)
  BY <1>3 DEF ServeSteps, WriterTry, BindUnlink, Bind, RewriteRead, RewriteCheck, RewriteRename,
              NotPersisted
<1>4. CASE EndSteps(p)
  BY <1>4 DEF EndSteps, StopServing, CleanupCheck, CleanupSocket, CleanupRecheck, CleanupRemove,
              Release, DropListener
<1>5. CASE UninitSteps(p)
  BY <1>5 DEF UninitSteps, UninitLease, UninitDrain, Listening, UninitWait, UninitRemovePid,
              UninitRemoveSocket
<1>6. CASE LifeSteps(p)
  BY <1>6 DEF LifeSteps, Start, Killed
<1> QED
  BY <1>1, <1>2, <1>3, <1>4, <1>5, <1>6 DEF Act

\* Files, readings and socket paths keep their types.
LEMMA DataStep ==
  ASSUME TypeOK, RoleInv, NEW p \in Procs, Act(p)
  PROVE  /\ record' \in Record \union {None, Empty}
         /\ file' \in [Sockets -> Pids \union {None}]
         /\ seen' \in [Procs -> Record \union {None, Empty}]
         /\ sock' \in [Procs -> Sockets]
<1> USE RecordedTyped DEF TypeOK, Sockets, Record, Pids
<1>1. CASE ClaimSteps(p)
  BY <1>1 DEF ClaimSteps, Gate, Claim, PublishCheck, PublishRename, NotClaimed, ReadExisting,
     Attach
<1>2. CASE ClearSteps(p)
  BY <1>2 DEF ClearSteps, ClearRead, ClearRemove, Cleared, NotCleared, HealRead, HealUnlink
<1>3. CASE ServeSteps(p)
  <2>1. CASE RewriteRename(p)
    <3>1. seen[p] \in Record /\ sock[p] \in Sockets
      BY <2>1 DEF RewriteRename, RoleInv, Rewriting
    <3>2. [seen[p] EXCEPT !.socket = sock[p]] \in Record
      BY <3>1
    <3> QED
      BY <2>1, <3>2 DEF RewriteRename, NotPersisted
  <2>2. CASE ~RewriteRename(p)
    BY <1>3, <2>2 DEF ServeSteps, WriterTry, BindUnlink, Bind, RewriteRead, RewriteCheck,
                      NotPersisted
  <2> QED
    BY <2>1, <2>2
<1>4. CASE EndSteps(p)
  BY <1>4 DEF EndSteps, StopServing, CleanupCheck, CleanupSocket, CleanupRecheck, CleanupRemove,
              Release, DropListener
<1>5. CASE UninitSteps(p)
  BY <1>5 DEF UninitSteps, UninitLease, UninitDrain, Listening, UninitWait, UninitRemovePid,
              UninitRemoveSocket
<1>6. CASE LifeSteps(p)
  BY <1>6 DEF LifeSteps, Start, Killed
<1> QED
  BY <1>1, <1>2, <1>3, <1>4, <1>5, <1>6 DEF Act

\* So do the gate's verdict, the lapses and the writer lock.
LEMMA RestStep ==
  ASSUME TypeOK, RoleInv, NEW p \in Procs, Act(p)
  PROVE  gateOpen' \in BOOLEAN /\ lapses' \subseteq Lapses /\ writer' \in Procs \union {None}
<1> USE DEF TypeOK, Lapses
<1>1. CASE ClaimSteps(p)
  BY <1>1 DEF ClaimSteps, Gate, Claim, PublishCheck, PublishRename, NotClaimed, ReadExisting,
     Attach
<1>2. CASE ClearSteps(p)
  BY <1>2 DEF ClearSteps, ClearRead, ClearRemove, Cleared, NotCleared, HealRead, HealUnlink
<1>3. CASE ServeSteps(p)
  BY <1>3 DEF ServeSteps, WriterTry, BindUnlink, Bind, RewriteRead, RewriteCheck, RewriteRename,
              NotPersisted
<1>4. CASE EndSteps(p)
  BY <1>4 DEF EndSteps, StopServing, CleanupCheck, CleanupSocket, CleanupRecheck, CleanupRemove,
              Release, DropListener
<1>5. CASE UninitSteps(p)
  BY <1>5 DEF UninitSteps, UninitLease, UninitDrain, Listening, UninitWait, UninitRemovePid,
              UninitRemoveSocket
<1>6. CASE LifeSteps(p)
  BY <1>6 DEF LifeSteps, Start, Killed
<1> QED
  BY <1>1, <1>2, <1>3, <1>4, <1>5, <1>6 DEF Act

\* Who may hold the writer lock after a step.
LEMMA WriterStep ==
  ASSUME TypeOK, RoleInv, NEW p \in Procs, Act(p)
  PROVE  /\ writer' # None => /\ pc'[writer'] \in WriterLabels
                              /\ role'[writer'] \in {"daemon", "direct"}
<1> USE DaemonRendezvousAssumption DEF TypeOK, RoleInv, WriterLabels, Cleanup, TokenLabels,
   DaemonLabels, Pids, Ended
<1>1. CASE ClaimSteps(p)
  BY <1>1 DEF ClaimSteps, Gate, Claim, PublishCheck, PublishRename, NotClaimed, ReadExisting,
     Attach
<1>2. CASE ClearSteps(p)
  BY <1>2 DEF ClearSteps, ClearRead, ClearRemove, Cleared, NotCleared, HealRead, HealUnlink
<1>3. CASE ServeSteps(p)
  BY <1>3 DEF ServeSteps, WriterTry, BindUnlink, Bind, RewriteRead, RewriteCheck, RewriteRename,
              NotPersisted
<1>4. CASE EndSteps(p)
  BY <1>4 DEF EndSteps, StopServing, CleanupCheck, CleanupSocket, CleanupRecheck, CleanupRemove,
              Release, DropListener
<1>5. CASE UninitSteps(p)
  BY <1>5 DEF UninitSteps, UninitLease, UninitDrain, Listening, UninitWait, UninitRemovePid,
              UninitRemoveSocket
<1>6. CASE LifeSteps(p)
  BY <1>6 DEF LifeSteps, Start, Killed
<1> QED
  BY <1>1, <1>2, <1>3, <1>4, <1>5, <1>6 DEF Act

\* Each step is still taken by a command that has it.
LEMMA RoleStep ==
  ASSUME TypeOK, RoleInv, NEW p \in Procs, Act(p)
  PROVE  /\ pc'[p] \in DaemonLabels => role'[p] = "daemon"
         /\ pc'[p] \in TokenLabels => role'[p] \in {"daemon", "heal"}
         /\ pc'[p] = "healUnlink" => role'[p] = "heal"
         /\ pc'[p] = "writerTry" => role'[p] \in {"daemon", "direct"}
         /\ pc'[p] \in Rewriting => Recorded(seen'[p])
<1> USE DEF TypeOK, RoleInv, DaemonLabels, TokenLabels, Rewriting, Roles, Ended
<1>1. CASE ClaimSteps(p)
  BY <1>1 DEF ClaimSteps, Gate, Claim, PublishCheck, PublishRename, NotClaimed, ReadExisting,
     Attach
<1>2. CASE ClearSteps(p)
  BY <1>2 DEF ClearSteps, ClearRead, ClearRemove, Cleared, NotCleared, HealRead, HealUnlink
<1>3. CASE ServeSteps(p)
  BY <1>3 DEF ServeSteps, WriterTry, BindUnlink, Bind, RewriteRead, RewriteCheck, RewriteRename,
              NotPersisted
<1>4. CASE EndSteps(p)
  BY <1>4 DEF EndSteps, StopServing, CleanupCheck, CleanupSocket, CleanupRecheck, CleanupRemove,
              Release, DropListener
<1>5. CASE UninitSteps(p)
  BY <1>5 DEF UninitSteps, UninitLease, UninitDrain, Listening, UninitWait, UninitRemovePid,
              UninitRemoveSocket
<1>6. CASE LifeSteps(p)
  BY <1>6 DEF LifeSteps, Start, Killed
<1> QED
  BY <1>1, <1>2, <1>3, <1>4, <1>5, <1>6 DEF Act

-----------------------------------------------------------------------------
(* What a step does to the record.                                         *)

\* The record stays, and nobody becomes owner or claimant.
Quiet(p) ==
  /\ record' = record
  /\ Owner(p)' => Owner(p)
  /\ pc'[p] \in Claiming => pc[p] \in Claiming
  /\ pc'[p] \in Rewriting => \/ pc[p] = "rewriteRead" /\ seen'[p] = record
                             \/ pc[p] \in Rewriting /\ seen'[p] = seen[p]
  /\ pc'[p] = "serving" => pc[p] \in Listeners
Claims(p) ==
  /\ record = None /\ record' = Empty
  /\ pc'[p] = "publishCheck"
Publishes(p) ==
  /\ pc[p] = "publishRename"
  /\ record' = [pid |-> p, socket |-> "primary"]
  /\ pc'[p] \in {"writerTry", "healUnlink"}
Rewrites(p) ==
  /\ pc[p] = "rewriteRename"
  /\ record' = [seen[p] EXCEPT !.socket = sock[p]]
  /\ pc'[p] = "serving"
Removes(p) ==
  /\ record' = None
  /\ "liveRecordRemoved" \notin lapses' => ~OthersLiveRecord(p)
  /\ pc[p] \in {"clearRemove", "cleanupRemove", "uninitRemovePid"}
  /\ pc[p] = "cleanupRemove" => role[p] \in {"daemon", "heal"}
  /\ pc'[p] \notin OwnerLabels \union Claiming

\* What a step may do to the record: only its owner, or a lapse, removes a live one.
LEMMA RecordStep ==
  ASSUME TypeOK, RoleInv, NEW p \in Procs, Act(p)
  PROVE  Quiet(p) \/ Claims(p) \/ Publishes(p) \/ Rewrites(p) \/ Removes(p)
<1> USE DEF TypeOK, RoleInv, Owner, OwnerLabels, Cleanup, Claiming, Rewriting, Listeners,
            TokenLabels, DaemonLabels, Ended, Roles,
            Quiet, Claims, Publishes, Rewrites, Removes
<1>1. CASE ClaimSteps(p)
  BY <1>1 DEF ClaimSteps, Gate, Claim, PublishCheck, PublishRename, NotClaimed, ReadExisting,
     Attach
<1>2. CASE ClearSteps(p)
  BY <1>2 DEF ClearSteps, ClearRead, ClearRemove, Cleared, NotCleared, HealRead, HealUnlink
<1>3. CASE ServeSteps(p)
  BY <1>3 DEF ServeSteps, WriterTry, BindUnlink, Bind, RewriteRead, RewriteCheck, RewriteRename,
              NotPersisted
<1>4. CASE EndSteps(p)
  BY <1>4 DEF EndSteps, StopServing, CleanupCheck, CleanupSocket, CleanupRecheck, CleanupRemove,
              Release, DropListener
<1>5. CASE UninitSteps(p)
  BY <1>5 DEF UninitSteps, UninitLease, UninitDrain, Listening, UninitWait, UninitRemovePid,
              UninitRemoveSocket
<1>6. CASE LifeSteps(p)
  BY <1>6 DEF LifeSteps, Start, Killed
<1> QED
  BY <1>1, <1>2, <1>3, <1>4, <1>5, <1>6 DEF Act

\* What a step does to the gate: a daemon passes it while no uninit runs, and
\* uninit begins while no daemon holds it.
LEMMA GateStep ==
  ASSUME TypeOK, RoleInv, NEW p \in Procs, Act(p)
  PROVE  /\ HoldsGate(p)' => \/ HoldsGate(p)
                             \/ \A q \in Procs : pc[q] \notin Uninit
         /\ pc'[p] \in Uninit => \/ pc[p] \in Uninit
                                 \/ \A q \in Procs : ~HoldsGate(q)
         /\ pc'[p] \in Uninit => pc'[p] \notin Publishing \union OwnerLabels
<1> USE DEF TypeOK, RoleInv, HoldsGate, Publishing, Cleanup, OwnerLabels, Uninit, UninitRemoval,
            Ended, Roles
<1>1. CASE ClaimSteps(p)
  BY <1>1 DEF ClaimSteps, Gate, Claim, PublishCheck, PublishRename, NotClaimed, ReadExisting,
     Attach
<1>2. CASE ClearSteps(p)
  BY <1>2 DEF ClearSteps, ClearRead, ClearRemove, Cleared, NotCleared, HealRead, HealUnlink
<1>3. CASE ServeSteps(p)
  BY <1>3 DEF ServeSteps, WriterTry, BindUnlink, Bind, RewriteRead, RewriteCheck, RewriteRename,
              NotPersisted
<1>4. CASE EndSteps(p)
  BY <1>4 DEF EndSteps, StopServing, CleanupCheck, CleanupSocket, CleanupRecheck, CleanupRemove,
              Release, DropListener
<1>5. CASE UninitSteps(p)
  BY <1>5 DEF UninitSteps, UninitLease, UninitDrain, Listening, UninitWait, UninitRemovePid,
              UninitRemoveSocket
<1>6. CASE LifeSteps(p)
  BY <1>6 DEF LifeSteps, Start, Killed
<1> QED
  BY <1>1, <1>2, <1>3, <1>4, <1>5, <1>6 DEF Act

\* A process becomes a daemon with a record only from behind the gate.
LEMMA DaemonStep ==
  ASSUME TypeOK, RoleInv, NEW p \in Procs, Act(p)
  PROVE  DaemonOwner(p)' => DaemonOwner(p) \/ HoldsGate(p)
<1> USE DEF TypeOK, RoleInv, DaemonOwner, OwnerLabels, HoldsGate, Publishing, Cleanup,
   TokenLabels,
            DaemonLabels, Ended, Roles
<1>1. CASE ClaimSteps(p)
  BY <1>1 DEF ClaimSteps, Gate, Claim, PublishCheck, PublishRename, NotClaimed, ReadExisting,
     Attach
<1>2. CASE ClearSteps(p)
  BY <1>2 DEF ClearSteps, ClearRead, ClearRemove, Cleared, NotCleared, HealRead, HealUnlink
<1>3. CASE ServeSteps(p)
  BY <1>3 DEF ServeSteps, WriterTry, BindUnlink, Bind, RewriteRead, RewriteCheck, RewriteRename,
              NotPersisted
<1>4. CASE EndSteps(p)
  BY <1>4 DEF EndSteps, StopServing, CleanupCheck, CleanupSocket, CleanupRecheck, CleanupRemove,
              Release, DropListener
<1>5. CASE UninitSteps(p)
  BY <1>5 DEF UninitSteps, UninitLease, UninitDrain, Listening, UninitWait, UninitRemovePid,
              UninitRemoveSocket
<1>6. CASE LifeSteps(p)
  BY <1>6 DEF LifeSteps, Start, Killed
<1> QED
  BY <1>1, <1>2, <1>3, <1>4, <1>5, <1>6 DEF Act

\* Uninit comes to its removal with no live owner recorded, or once the daemon
\* it waited for has left; it waits for the listener at the recorded socket.
LEMMA UninitStep ==
  ASSUME TypeOK, RoleInv, NEW p \in Procs, Act(p)
  PROVE  /\ pc'[p] \in UninitRemoval =>
              \/ pc[p] \in UninitRemoval
              \/ pc[p] = "uninitDrain" /\ (~Recorded(record) \/ ~Alive(record.pid))
              \/ pc[p] = "uninitWait" /\ pc[seen[p].pid] \notin OwnerLabels
         /\ pc'[p] = "uninitWait" =>
              /\ pc[p] = "uninitDrain" /\ Recorded(record)
              /\ seen'[p].pid \in Procs /\ pc[seen'[p].pid] = "serving"
<1> USE DEF TypeOK, RoleInv, UninitRemoval, OwnerLabels, Cleanup, Ended, Roles, Listening
<1>1. CASE ClaimSteps(p)
  BY <1>1 DEF ClaimSteps, Gate, Claim, PublishCheck, PublishRename, NotClaimed, ReadExisting,
     Attach
<1>2. CASE ClearSteps(p)
  BY <1>2 DEF ClearSteps, ClearRead, ClearRemove, Cleared, NotCleared, HealRead, HealUnlink
<1>3. CASE ServeSteps(p)
  BY <1>3 DEF ServeSteps, WriterTry, BindUnlink, Bind, RewriteRead, RewriteCheck, RewriteRename,
              NotPersisted
<1>4. CASE EndSteps(p)
  BY <1>4 DEF EndSteps, StopServing, CleanupCheck, CleanupSocket, CleanupRecheck, CleanupRemove,
              Release, DropListener
<1>5. CASE UninitSteps(p)
  BY <1>5 DEF UninitSteps, UninitLease, UninitDrain, Listening, UninitWait, UninitRemovePid,
              UninitRemoveSocket
<1>6. CASE LifeSteps(p)
  BY <1>6 DEF LifeSteps, Start, Killed
<1> QED
  BY <1>1, <1>2, <1>3, <1>4, <1>5, <1>6 DEF Act

\* What a step does to the socket files and to what a listener has.
FileKept(p) == file' = file
FileOwned(p) == Owner(p) /\ \E v : file' = [file EXCEPT ![sock[p]] = v]
FileDropped(p) ==
  /\ pc[p] = "dropListener"
  /\ file' = [file EXCEPT ![sock[p]] = None]
  /\ lapses' = {} => ~(file[sock[p]] # p /\ Alive(file[sock[p]]))
FileUninit(p) == pc[p] = "uninitRemoveSocket"

\* What a step may do to the socket files.
LEMMA FileStep ==
  ASSUME TypeOK, RoleInv, NEW p \in Procs, Act(p)
  PROVE  FileKept(p) \/ FileOwned(p) \/ FileDropped(p) \/ FileUninit(p)
<1> USE DEF TypeOK, RoleInv, Owner, OwnerLabels, Cleanup, TokenLabels, DaemonLabels,
            FileKept, FileOwned, FileDropped, FileUninit
<1>1. CASE ClaimSteps(p)
  BY <1>1 DEF ClaimSteps, Gate, Claim, PublishCheck, PublishRename, NotClaimed, ReadExisting,
     Attach
<1>2. CASE ClearSteps(p)
  BY <1>2 DEF ClearSteps, ClearRead, ClearRemove, Cleared, NotCleared, HealRead, HealUnlink
<1>3. CASE ServeSteps(p)
  BY <1>3 DEF ServeSteps, WriterTry, BindUnlink, Bind, RewriteRead, RewriteCheck, RewriteRename,
              NotPersisted
<1>4. CASE EndSteps(p)
  BY <1>4 DEF EndSteps, StopServing, CleanupCheck, CleanupSocket, CleanupRecheck, CleanupRemove,
              Release, DropListener
<1>5. CASE UninitSteps(p)
  BY <1>5 DEF UninitSteps, UninitLease, UninitDrain, Listening, UninitWait, UninitRemovePid,
              UninitRemoveSocket
<1>6. CASE LifeSteps(p)
  BY <1>6 DEF LifeSteps, Start, Killed
<1> QED
  BY <1>1, <1>2, <1>3, <1>4, <1>5, <1>6 DEF Act

\* Where a listener's own step takes it and its socket.
LEMMA ListenerStep ==
  ASSUME TypeOK, RoleInv, NEW p \in Procs, Act(p)
  PROVE  /\ pc'[p] \in Listeners =>
              /\ sock'[p] = sock[p]
              /\ (pc[p] \in Listeners /\ file' = file) \/ file'[sock[p]] = p
         /\ pc'[p] = "serving" =>
              \/ Rewrites(p)
              \/ /\ record' = record /\ Owner(p) /\ pc[p] \in Publishing
                 /\ lapses' = {} => sock[p] = "primary"
         /\ pc'[p] \in Publishing \ Claiming /\ Owner(p)' =>
              \/ Owner(p) /\ pc[p] \in Publishing /\ record' = record
              \/ Publishes(p)
<1> USE DEF TypeOK, RoleInv, Listeners, Publishing, Claiming, Owner, OwnerLabels, Cleanup,
            DaemonLabels, TokenLabels, Publishes, Rewrites, Ended, Roles
<1>1. CASE ClaimSteps(p)
  BY <1>1 DEF ClaimSteps, Gate, Claim, PublishCheck, PublishRename, NotClaimed, ReadExisting,
     Attach
<1>2. CASE ClearSteps(p)
  BY <1>2 DEF ClearSteps, ClearRead, ClearRemove, Cleared, NotCleared, HealRead, HealUnlink
<1>3. CASE ServeSteps(p)
  BY <1>3 DEF ServeSteps, WriterTry, BindUnlink, Bind, RewriteRead, RewriteCheck, RewriteRename,
              NotPersisted
<1>4. CASE EndSteps(p)
  BY <1>4 DEF EndSteps, StopServing, CleanupCheck, CleanupSocket, CleanupRecheck, CleanupRemove,
              Release, DropListener
<1>5. CASE UninitSteps(p)
  BY <1>5 DEF UninitSteps, UninitLease, UninitDrain, Listening, UninitWait, UninitRemovePid,
              UninitRemoveSocket
<1>6. CASE LifeSteps(p)
  BY <1>6 DEF LifeSteps, Start, Killed
<1> QED
  BY <1>1, <1>2, <1>3, <1>4, <1>5, <1>6 DEF Act

-----------------------------------------------------------------------------
(* The invariant holds initially and is preserved.                         *)

\* A clean directory, or a dead daemon's leftovers, satisfy the invariant.
LEMMA InitInv == Init => RendezvousInv
<1> SUFFICES ASSUME Init PROVE RendezvousInv
  OBVIOUS
<1>1. record \in Record \union {None, Empty} /\ file \in [Sockets -> Pids \union {None}]
  <2>1. CASE record = None /\ file = [s \in Sockets |-> None]
    BY <2>1
  <2>2. CASE \E s \in Sockets :
               /\ record = [pid |-> Ghost, socket |-> s]
               /\ file \in {[t \in Sockets |-> IF t = s THEN q ELSE None] : q \in {Ghost, None}}
    BY <2>2 DEF Record, Pids
  <2> QED
    BY <2>1, <2>2 DEF Init
<1>2. TypeOK
  BY <1>1 DEF Init, TypeOK, Roles, Labels, Sockets
<1>3. \A p \in Procs : pc[p] = "new"
  BY DEF Init
<1>4. \A p \in Procs : ~Owner(p) /\ ~HoldsGate(p)
  BY <1>3 DEF Owner, OwnerLabels, Cleanup, HoldsGate, Publishing
<1>5. RoleInv
  BY <1>3 DEF Init, RoleInv, DaemonLabels, TokenLabels, Rewriting
<1>6. OwnerInv
  BY <1>3, <1>4 DEF OwnerInv, Claiming, Rewriting
<1>7. GateInv /\ UninitInv
  BY <1>3, <1>4 DEF GateInv, UninitInv, UninitRemoval, DaemonOwner, OwnerLabels, Cleanup
<1>8. ReachInv
  BY <1>3, <1>4 DEF ReachInv, Listeners
<1> QED
  BY <1>2, <1>5, <1>6, <1>7, <1>8 DEF RendezvousInv

\* An owner's record outlives every step of another process, and there is no
\* second owner.
LEMMA OwnerUndisturbed ==
  ASSUME TypeOK, RoleInv, OwnerInv, NEW p \in Procs, Act(p),
         NEW q \in Procs, q # p, Owner(q), Kept'
  PROVE  record' = record /\ ~Owner(p) /\ RecordNames(q)
<1>1. Kept
  BY Others DEF OthersKeep, Kept
<1>2. RecordNames(q)
  BY <1>1 DEF OwnerInv
<1>3. ~Owner(p)
  BY <1>1, <1>2 DEF OwnerInv, RecordNames
<1>4. Alive(q)
  BY DEF Owner, OwnerLabels, Cleanup, Alive, Ended
<1>5. ~Claims(p)
  BY <1>2 DEF Claims, RecordNames, Recorded
<1>6. ~Publishes(p)
  BY <1>1, <1>2 DEF Publishes, OwnerInv, Claiming, RecordNames, Recorded
<1>7. ~Rewrites(p)
  BY <1>3 DEF Rewrites, Owner, OwnerLabels, RoleInv, DaemonLabels
<1>8. ~Removes(p)
  BY <1>2, <1>4 DEF Removes, OthersLiveRecord, NamesLiveOther, RecordNames, Kept
<1> QED
  BY <1>2, <1>3, <1>5, <1>6, <1>7, <1>8, RecordStep DEF Quiet

\* Every step keeps the types.
LEMMA TypeStep ==
  ASSUME TypeOK, RoleInv, NEW p \in Procs, Act(p)
  PROVE  TypeOK' /\ RoleInv'
<1>1. TypeOK'
  BY LabelStep, DataStep, RestStep, WriterStep DEF TypeOK
<1>2. ASSUME NEW q \in Procs, q # p
      PROVE  /\ pc'[q] \in DaemonLabels => role'[q] = "daemon"
             /\ pc'[q] \in TokenLabels => role'[q] \in {"daemon", "heal"}
             /\ pc'[q] = "healUnlink" => role'[q] = "heal"
             /\ pc'[q] = "writerTry" => role'[q] \in {"daemon", "direct"}
             /\ pc'[q] \in Rewriting => Recorded(seen'[q])
  BY <1>2, Others DEF OthersKeep, RoleInv, DaemonLabels, TokenLabels, Rewriting
<1> QED
  BY <1>1, <1>2, RoleStep, WriterStep DEF RoleInv

\* Another process is at an owner's step after the step only if before.
LEMMA OthersOwn ==
  ASSUME TypeOK, RoleInv, NEW p \in Procs, Act(p), NEW q \in Procs, q # p
  PROVE  /\ Owner(q)' => Owner(q)
         /\ DaemonOwner(q)' => DaemonOwner(q)
         /\ HoldsGate(q)' => HoldsGate(q)
         /\ pc'[q] \in Uninit => pc'[q] = pc[q]
         /\ pc'[q] \in Claiming \union Rewriting \union Listeners => pc'[q] = pc[q]
BY Others DEF OthersKeep, Owner, DaemonOwner, OwnerLabels, HoldsGate, Publishing, Cleanup, Uninit,
              UninitRemoval, Claiming, Rewriting, Listeners

\* Every step keeps one owner, or records a lapse.
LEMMA OwnerStep ==
  ASSUME TypeOK, RoleInv, OwnerInv, NEW p \in Procs, Act(p)
  PROVE  OwnerInv'
<1> SUFFICES ASSUME Kept'
             PROVE  /\ \A q \in Procs : Owner(q)' => RecordNames(q)'
                    /\ \A q \in Procs : pc'[q] \in Claiming => record' = Empty
                    /\ \A q, r \in Procs : pc'[q] \in Claiming /\ pc'[r] \in Claiming => q = r
                    /\ \A q \in Procs : pc'[q] \in Rewriting => seen'[q].pid = q
  BY DEF OwnerInv
<1>1. /\ \A q \in Procs : Owner(q) => RecordNames(q)
      /\ \A q \in Procs : pc[q] \in Claiming => record = Empty
      /\ \A q, r \in Procs : pc[q] \in Claiming /\ pc[r] \in Claiming => q = r
      /\ \A q \in Procs : pc[q] \in Rewriting => seen[q].pid = q
  BY Others DEF OwnerInv, OthersKeep, Kept
<1>2. ASSUME NEW q \in Procs, q # p, Owner(q)'
      PROVE  RecordNames(q)'
  BY <1>2, OthersOwn, OwnerUndisturbed DEF RecordNames
<1>3. ASSUME NEW q \in Procs, q # p, pc'[q] \in Rewriting
      PROVE  seen'[q].pid = q
  BY <1>1, <1>3, Others, OthersOwn DEF OthersKeep
<1>4. Owner(p)' => RecordNames(p)'
  <2>1. CASE Quiet(p)
    BY <1>1, <2>1 DEF Quiet, RecordNames
  <2>2. CASE Claims(p)
    BY <2>2 DEF Claims, Owner, OwnerLabels, Cleanup
  <2>3. CASE Publishes(p)
    <3>1. record' \in Record
      BY <2>3 DEF Publishes, Record, Pids, Sockets
    <3> QED
      BY <2>3, <3>1, DaemonRendezvousAssumption DEF Publishes, RecordNames, Recorded
  <2>4. CASE Rewrites(p)
    <3>1. seen[p].pid = p /\ Recorded(seen[p])
      BY <1>1, <2>4 DEF Rewrites, Rewriting, RoleInv
    <3>2. seen[p] \in Record /\ sock[p] \in Sockets
      BY <3>1, RecordedTyped DEF TypeOK
    <3>3. record' \in Record /\ record'.pid = p
      BY <2>4, <3>1, <3>2 DEF Rewrites, Record
    <3> QED
      BY <3>3, DaemonRendezvousAssumption DEF RecordNames, Recorded
  <2>5. CASE Removes(p)
    BY <2>5 DEF Removes, Owner
  <2> QED
    BY <2>1, <2>2, <2>3, <2>4, <2>5, RecordStep
<1>5. pc'[p] \in Rewriting => seen'[p].pid = p
  <2>1. CASE Quiet(p)
    <3>1. ASSUME pc[p] = "rewriteRead" PROVE record.pid = p
      BY <1>1, <3>1 DEF RoleInv, DaemonLabels, Owner, OwnerLabels, RecordNames
    <3> QED
      BY <1>1, <2>1, <3>1 DEF Quiet
  <2>2. CASE ~Quiet(p)
    BY <2>2, RecordStep DEF Claims, Publishes, Rewrites, Removes, Rewriting, OwnerLabels
  <2> QED
    BY <2>1, <2>2
<1>6. /\ \A q \in Procs : pc'[q] \in Claiming => record' = Empty
      /\ \A q, r \in Procs : pc'[q] \in Claiming /\ pc'[r] \in Claiming => q = r
  <2>1. \A q \in Procs : q # p /\ pc'[q] \in Claiming => pc[q] \in Claiming
    BY OthersOwn
  <2>2. CASE Quiet(p)
    BY <1>1, <2>1, <2>2 DEF Quiet
  <2>3. CASE Claims(p)
    <3>1. \A q \in Procs : pc[q] \notin Claiming
      BY <1>1, <2>3, DaemonRendezvousAssumption DEF Claims
    <3> QED
      BY <2>1, <2>3, <3>1 DEF Claims
  <2>4. CASE Publishes(p)
    <3>1. pc[p] \in Claiming /\ pc'[p] \notin Claiming
      BY <2>4 DEF Publishes, Claiming
    <3>2. \A q \in Procs : pc'[q] \notin Claiming
      BY <1>1, <2>1, <3>1
    <3> QED
      BY <3>2
  <2>5. CASE Rewrites(p)
    <3>1. Owner(p)
      BY <2>5 DEF Rewrites, Owner, OwnerLabels, RoleInv, DaemonLabels
    <3>2. record # Empty
      BY <1>1, <3>1 DEF RecordNames, Recorded
    <3>3. pc'[p] \notin Claiming
      BY <2>5 DEF Rewrites, Claiming
    <3> QED
      BY <1>1, <2>1, <3>2, <3>3
  <2>6. CASE Removes(p)
    <3>1. ASSUME NEW q \in Procs, q # p, pc[q] \in Claiming
          PROVE  FALSE
      <4>1. record = Empty
        BY <1>1, <3>1
      <4> QED
        BY <2>6, <3>1, <4>1 DEF Removes, OthersLiveRecord, Kept, Claiming
    <3>2. pc'[p] \notin Claiming
      BY <2>6 DEF Removes
    <3> QED
      BY <2>1, <3>1, <3>2
  <2> QED
    BY <2>2, <2>3, <2>4, <2>5, <2>6, RecordStep
<1> QED
  BY <1>2, <1>3, <1>4, <1>5, <1>6

\* The startup gate and uninit keep excluding each other.
LEMMA GateInvStep ==
  ASSUME TypeOK, RoleInv, GateInv, NEW p \in Procs, Act(p)
  PROVE  GateInv'
<1> SUFFICES ASSUME NEW q \in Procs, NEW r \in Procs, pc'[q] \in Uninit, HoldsGate(r)'
             PROVE  FALSE
  BY DEF GateInv
<1>1. CASE q = p /\ r = p
  BY <1>1, GateStep DEF HoldsGate
<1>2. CASE q = p /\ r # p
  BY <1>2, GateStep, OthersOwn DEF GateInv
<1>3. CASE q # p /\ r = p
  BY <1>3, GateStep, OthersOwn DEF GateInv
<1>4. CASE q # p /\ r # p
  BY <1>4, OthersOwn DEF GateInv
<1> QED
  BY <1>1, <1>2, <1>3, <1>4

\* No daemon comes up beside an uninit that waits or removes.
LEMMA UninitInvStep ==
  ASSUME TypeOK, RoleInv, OwnerInv, GateInv, UninitInv, NEW p \in Procs, Act(p)
  PROVE  UninitInv'
<1> SUFFICES ASSUME Kept', NEW u \in Procs, NEW q \in Procs, DaemonOwner(q)'
             PROVE  /\ pc'[u] \notin UninitRemoval
                    /\ pc'[u] = "uninitWait" => q = seen'[u].pid
  BY DEF UninitInv
<1>1. Kept
  BY Others DEF OthersKeep, Kept
<1>2. UninitRemoval \subseteq Uninit /\ "uninitWait" \in Uninit /\ "uninitDrain" \in Uninit
  BY DEF Uninit
<1>3. DaemonOwner(q) \/ HoldsGate(q)
  BY OthersOwn, DaemonStep
<1>4. ASSUME pc[u] \in Uninit PROVE DaemonOwner(q)
  BY <1>3, <1>4 DEF GateInv
<1>5. DaemonOwner(q) => Owner(q) /\ Alive(q)
  BY DEF DaemonOwner, Owner, OwnerLabels, Cleanup, Alive, Ended
<1>6. CASE u # p
  <2>1. pc'[u] \in Uninit => pc'[u] = pc[u] /\ seen'[u] = seen[u]
    BY <1>6, Others, OthersOwn DEF OthersKeep
  <2> QED
    BY <1>1, <1>2, <1>4, <2>1 DEF UninitInv
<1>7. CASE u = p
  <2>1. ASSUME pc'[p] \in UninitRemoval PROVE FALSE
    <3>1. CASE pc[p] \in UninitRemoval
      BY <1>1, <1>2, <1>4, <1>7, <3>1 DEF UninitInv
    <3>2. CASE pc[p] = "uninitDrain" /\ (~Recorded(record) \/ ~Alive(record.pid))
      <4>1. RecordNames(q) /\ Alive(q)
        BY <1>1, <1>2, <1>4, <1>5, <1>7, <3>2 DEF OwnerInv
      <4> QED
        BY <3>2, <4>1 DEF RecordNames
    <3>3. CASE pc[p] = "uninitWait" /\ pc[seen[p].pid] \notin OwnerLabels
      BY <1>1, <1>2, <1>4, <1>7, <3>3 DEF UninitInv, DaemonOwner
    <3> QED
      BY <2>1, <3>1, <3>2, <3>3, UninitStep
  <2>2. ASSUME pc'[p] = "uninitWait" PROVE q = seen'[p].pid
    <3> DEFINE d == seen'[p].pid
    <3>1. pc[p] = "uninitDrain" /\ d \in Procs /\ pc[d] = "serving"
      BY <2>2, UninitStep
    <3>2. Owner(d) /\ Owner(q)
      BY <1>2, <1>4, <1>5, <1>7, <3>1 DEF Owner, OwnerLabels, RoleInv, DaemonLabels
    <3> QED
      BY <1>1, <3>1, <3>2 DEF OwnerInv, RecordNames
  <2> QED
    BY <1>7, <2>1, <2>2
<1> QED
  BY <1>6, <1>7

\* A listener keeps its record and its socket file, or a lapse is recorded.
LEMMA ReachStep ==
  ASSUME RendezvousInv, NEW p \in Procs, Act(p), TypeOK', RoleInv'
  PROVE  ReachInv'
<1> USE DEF RendezvousInv
<1> SUFFICES ASSUME lapses' = {}, NEW q \in Procs
             PROVE  /\ Owner(q)' /\ pc'[q] \in Publishing =>
                         record' = [pid |-> q, socket |-> "primary"]
                    /\ pc'[q] \in Listeners => file'[sock'[q]] = q
                    /\ pc'[q] = "serving" => record' = [pid |-> q, socket |-> sock'[q]]
  BY DEF ReachInv
<1>1. lapses = {} /\ Kept /\ Kept'
  BY Others DEF OthersKeep, Kept
<1>2. /\ Owner(q) /\ pc[q] \in Publishing => record = [pid |-> q, socket |-> "primary"]
      /\ pc[q] \in Listeners => file[sock[q]] = q
      /\ pc[q] = "serving" => record = [pid |-> q, socket |-> sock[q]]
  BY <1>1 DEF ReachInv
<1>3. CASE q # p
  <2>1. /\ sock'[q] = sock[q]
        /\ pc'[q] = pc[q] \/ (pc[q] = "serving" /\ pc'[q] = "cleanupCheck")
        /\ Owner(q)' => Owner(q)
        /\ pc'[q] \in Listeners => pc'[q] = pc[q] /\ DaemonOwner(q) /\ Owner(q)
    BY <1>3, Others, OthersOwn DEF OthersKeep, Listeners, DaemonOwner, OwnerLabels, Owner,
                                   RoleInv, DaemonLabels
  <2>2. Owner(q) => record' = record /\ ~Owner(p)
    BY <1>1, <1>3, OwnerUndisturbed
  <2>3. "cleanupCheck" \notin Publishing
    BY DEF Publishing
  <2>4. ASSUME pc'[q] \in Listeners PROVE file'[sock[q]] = q
    <3>1. file[sock[q]] = q /\ Owner(q) /\ DaemonOwner(q) /\ Alive(q)
      BY <1>2, <2>1, <2>4 DEF Alive, Ended, Owner, OwnerLabels, Cleanup
    <3>2. ~FileOwned(p) /\ ~FileUninit(p)
      BY <1>1, <2>2, <3>1 DEF FileOwned, FileUninit, UninitInv, UninitRemoval
    <3>3. CASE FileDropped(p)
      BY <1>3, <3>1, <3>3 DEF FileDropped, TypeOK
    <3>4. CASE FileKept(p)
      BY <3>1, <3>4 DEF FileKept
    <3> QED
      BY <3>2, <3>3, <3>4, FileStep
  <2>5. pc'[q] = "serving" => pc'[q] \in Listeners
    BY DEF Listeners
  <2> QED
    BY <1>2, <2>1, <2>2, <2>3, <2>4, <2>5
<1>4. CASE q = p
  <2>1. ASSUME Owner(p)', pc'[p] \in Publishing
        PROVE  record' = [pid |-> p, socket |-> "primary"]
    <3>1. pc'[p] \notin Claiming
      BY <2>1 DEF Owner, OwnerLabels, Cleanup, Claiming
    <3> QED
      BY <1>2, <1>4, <2>1, <3>1, ListenerStep DEF Publishes
  <2>2. ASSUME pc'[p] \in Listeners
        PROVE  file'[sock'[p]] = p
    BY <1>2, <1>4, <2>2, ListenerStep
  <2>3. ASSUME pc'[p] = "serving"
        PROVE  record' = [pid |-> p, socket |-> sock'[p]]
    <3>1. sock'[p] = sock[p]
      BY <2>3, ListenerStep DEF Listeners
    <3>2. CASE Rewrites(p)
      <4>1. seen[p] \in Record /\ seen[p].pid = p
        BY <1>1, <3>2, RecordedTyped DEF Rewrites, Rewriting, RoleInv, OwnerInv, TypeOK
      <4> QED
        BY <3>1, <3>2, <4>1 DEF Rewrites, Record
    <3>3. CASE /\ record' = record /\ Owner(p) /\ pc[p] \in Publishing
               /\ lapses' = {} => sock[p] = "primary"
      BY <1>2, <1>4, <3>1, <3>3
    <3> QED
      BY <2>3, <3>2, <3>3, ListenerStep
  <2> QED
    BY <1>4, <2>1, <2>2, <2>3
<1> QED
  BY <1>3, <1>4

\* Every step keeps the invariant.
LEMMA NextInv == RendezvousInv /\ [Next]_vars => RendezvousInv'
<1> SUFFICES ASSUME RendezvousInv, [Next]_vars PROVE RendezvousInv'
  OBVIOUS
<1>1. ASSUME NEW p \in Procs, Act(p) PROVE RendezvousInv'
  BY <1>1, TypeStep, OwnerStep, GateInvStep, UninitInvStep, ReachStep DEF RendezvousInv
<1>2. CASE InitAgain \/ UNCHANGED vars
  <2>1. /\ UNCHANGED <<record, file, writer, role, pc, seen, sock, lapses>>
        /\ gateOpen' \in {TRUE, gateOpen}
    BY <1>2 DEF InitAgain, vars
  <2>2. TypeOK' /\ RoleInv'
    BY <2>1 DEF RendezvousInv, TypeOK, RoleInv
  <2>3. OwnerInv'
    BY <2>1 DEF RendezvousInv, OwnerInv, Kept, Owner, RecordNames
  <2>4. GateInv' /\ UninitInv'
    BY <2>1 DEF RendezvousInv, GateInv, UninitInv, Kept, HoldsGate, DaemonOwner
  <2>5. ReachInv'
    BY <2>1 DEF RendezvousInv, ReachInv, Owner
  <2> QED
    BY <2>2, <2>3, <2>4, <2>5 DEF RendezvousInv
<1> QED
  BY <1>1, <1>2, NextIsAct

\* The invariant holds throughout.
LEMMA RendezvousInvariant == Spec => []RendezvousInv
BY InitInv, NextInv, PTL DEF Spec

-----------------------------------------------------------------------------
(* The theorems.                                                           *)

\* Types, and the writer lock is held by a process that is up and uses it.
THEOREM TypeCorrect == Spec => []TypeOK
<1>1. RendezvousInv => TypeOK
  BY DEF RendezvousInv
<1> QED
  BY <1>1, RendezvousInvariant, PTL

\* The pid record is an exclusion token: at most one process, daemon or healer,
\* is between publishing its record and removing it, unless a live process's
\* record was deleted.
THEOREM RecordExcludes == Spec => []OneOwner
<1>1. RendezvousInv => OneOwner
  BY DEF RendezvousInv, OneOwner, OwnerInv, Kept, RecordNames
<1> QED
  BY <1>1, RendezvousInvariant, PTL

\* Record and socket file of a serving daemon are its own, but for the lapses.
THEOREM DaemonReachable == Spec => []ServingReachable
<1>1. RendezvousInv => ServingReachable
  BY DEF RendezvousInv, ReachInv, ServingReachable, Listeners
<1> QED
  BY <1>1, RendezvousInvariant, PTL

\* Uninit removes the rendezvous files only when no daemon is up or coming up.
THEOREM UninitAfterDaemons == Spec => []UninitLeavesNoDaemon
<1>1. RendezvousInv => UninitLeavesNoDaemon
  BY DEF RendezvousInv, UninitInv, UninitLeavesNoDaemon, Kept, DaemonOwner
<1> QED
  BY <1>1, RendezvousInvariant, PTL

=============================================================================
