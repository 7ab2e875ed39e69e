-------------------------- MODULE DaemonRendezvous --------------------------
(***************************************************************************)
(* How the processes of one project find, start, heal and remove its one   *)
(* daemon (codegraph-daemon/src/lock.rs, writer_lock.rs, the start and     *)
(* exit of lib.rs, and the rendezvous side of uninit.rs and control.rs).   *)
(*                                                                         *)
(* Three things on disk have to agree: the pid record, whose creation is   *)
(* the exclusion token; the socket file the record names; and the kernel   *)
(* lock of writer.pid.  Every process runs one command:                    *)
(*                                                                         *)
(*   daemon   start_or_attach_gated, serve, exit                           *)
(*   heal     clear_stale_daemon_socket (an MCP server, a failed attach)   *)
(*   unlock   clear_stale_daemon_lock (`codegraph unlock')                 *)
(*   direct   a server without daemon: the writer lock alone               *)
(*   uninit   stops the daemon and removes the rendezvous files            *)
(*                                                                         *)
(* and may be killed at any step.  Pids are not reused.  A file operation  *)
(* is a step: what is read in one step may be gone in the next.            *)
(***************************************************************************)
EXTENDS Naturals

CONSTANTS Procs,   \* processes, each with its pid
          Ghost,   \* pid of a process that died before
          None,    \* no file, no process
          Empty    \* daemon.pid as the create_new placeholder

VARIABLES
  record,    \* daemon.pid: None, Empty, or a record
  file,      \* per socket path: the process that bound the file there, or None
  writer,    \* holder of the kernel lock on writer.pid, or None
  gateOpen,  \* the startup gate's verdict: the index is Current
  role, pc,  \* per process: its command and next step
  seen,      \* per process: the pid record it read last
  sock,      \* per process: the socket path it works with
  lapses     \* what went wrong so far of the ways the code leaves open

vars == <<record, file, writer, gateOpen, role, pc, seen, sock, lapses>>

-----------------------------------------------------------------------------
(* Data.                                                                   *)

Pids == Procs \union {Ghost}

\* daemon_socket_candidates: in the index directory, then in the temp directory.
Sockets == {"primary", "fallback"}

Record == [pid : Pids, socket : Sockets]

ASSUME DaemonRendezvousAssumption ==
  /\ Ghost \notin Procs /\ None \notin Pids
  /\ None \notin Record /\ Empty \notin Record /\ None # Empty

Recorded(r) == r \notin {None, Empty}

Roles == {"daemon", "heal", "unlock", "direct", "uninit"}

\* Steps of a daemon at which it retains the startup gate's shared lease.
Publishing == {"claim", "publishCheck", "publishRename", "readExisting", "writerTry",
               "bindUnlink", "bind", "rewriteRead", "rewriteCheck", "rewriteRename"}
Cleanup == {"cleanupCheck", "cleanupSocket", "cleanupRecheck", "cleanupRemove"}
UninitRemoval == {"uninitRemovePid", "uninitRemoveSocket"}
Uninit == {"uninitDrain", "uninitWait"} \union UninitRemoval
Ended == {"dead", "exited"}
Labels == Publishing \union Cleanup \union Uninit \union Ended \union
          {"new", "out", "gate", "attach", "clearRead", "clearRemove", "serving", "release",
           "dropListener", "healRead", "healUnlink", "direct", "uninitLease"}

Alive(p) == p \in Procs /\ pc[p] \notin Ended \union {"new"}

\* Steps between publishing a record and removing it again.
OwnerLabels == {"writerTry", "bindUnlink", "bind", "rewriteRead", "rewriteCheck",
                "rewriteRename", "serving", "healUnlink"} \union Cleanup
Owner(p) == pc[p] \in OwnerLabels /\ role[p] \in {"daemon", "heal"}

\* Mutant: the gate's lease is dropped once the state is validated.
HoldsGateToValidate(p) == role[p] = "daemon" /\ pc[p] = "claim"

\* The shared lease of the gate, which uninit's exclusive one excludes.
HoldsGate(p) == role[p] = "daemon" /\ pc[p] \in Publishing

WriterLabels == {"bindUnlink", "bind", "rewriteRead", "rewriteCheck", "rewriteRename",
                 "serving", "direct", "release"} \union Cleanup

Lapses == {"liveRecordRemoved", "socketNotPersisted", "listenerUnlinked"}

\* Types, and that the writer lock is held by a process that is up and uses it.
TypeOK ==
  /\ record \in Record \union {None, Empty}
  /\ file \in [Sockets -> Pids \union {None}]
  /\ writer \in Procs \union {None}
  /\ writer # None => pc[writer] \in WriterLabels
  /\ gateOpen \in BOOLEAN
  /\ role \in [Procs -> Roles]
  /\ pc \in [Procs -> Labels]
  /\ seen \in [Procs -> Record \union {None, Empty}]
  /\ sock \in [Procs -> Sockets]
  /\ lapses \subseteq Lapses

\* A clean directory, or what a killed daemon leaves.
Init ==
  /\ \/ record = None /\ file = [s \in Sockets |-> None]
     \/ \E s \in Sockets :
          /\ record = [pid |-> Ghost, socket |-> s]
          /\ file \in {[t \in Sockets |-> IF t = s THEN q ELSE None] : q \in {Ghost, None}}
  /\ writer = None
  /\ gateOpen = TRUE
  /\ role = [p \in Procs |-> "daemon"]
  /\ pc = [p \in Procs |-> "new"]
  /\ seen = [p \in Procs |-> None]
  /\ sock = [p \in Procs |-> "primary"]
  /\ lapses = {}

-----------------------------------------------------------------------------
Goto(p, l) == pc' = [pc EXCEPT ![p] = l]
See(p, r) == seen' = [seen EXCEPT ![p] = r]
Use(p, s) == sock' = [sock EXCEPT ![p] = s]
Lapse(kind, happened) == lapses' = lapses \union (IF happened THEN {kind} ELSE {})

\* A step that only moves on.
Continue(p, l) == Goto(p, l) /\ UNCHANGED <<record, file, writer, gateOpen, role, seen, sock, lapses>>

\* The process ends; the kernel drops its locks and connections, files stay.
End(p, how) ==
  /\ Goto(p, how)
  /\ writer' = IF writer = p THEN None ELSE writer
  /\ seen' = [seen EXCEPT ![p] = None]
  /\ sock' = [sock EXCEPT ![p] = "primary"]
  /\ UNCHANGED <<record, file, gateOpen, role, lapses>>

\* remove_file of the pid record: whatever is at the path goes.  It is a lapse
\* if that is the record, or the placeholder, of another live process.
NamesLiveOther(p) == Recorded(record) /\ record.pid # p /\ Alive(record.pid)
OthersLiveRecord(p) ==
  \/ NamesLiveOther(p)
  \/ record = Empty /\ \E q \in Procs \ {p} : pc[q] \in {"publishCheck", "publishRename"}
RemoveRecord(p) ==
  /\ record' = None
  /\ Lapse("liveRecordRemoved", OthersLiveRecord(p))

Unlink(s) == file' = [file EXCEPT ![s] = None]

\* record_names
RecordNames(p) == Recorded(record) /\ record.pid = p

Start(p, r) ==
  /\ pc[p] = "new"
  /\ role' = [role EXCEPT ![p] = r]
  /\ Goto(p, CASE r = "daemon" -> "gate"
               [] r = "heal" -> "healRead"
               [] r = "unlock" -> "clearRead"
               [] r = "direct" -> "writerTry"
               [] r = "uninit" -> "uninitLease")
  /\ UNCHANGED <<record, file, writer, gateOpen, seen, sock, lapses>>

-----------------------------------------------------------------------------
(* Claiming the record: start_or_attach_gated, try_acquire_daemon_lock.    *)

\* The gate's shared lease is not to be had while uninit holds the exclusive.
Gate(p) ==
  /\ pc[p] = "gate"
  /\ IF gateOpen /\ \A q \in Procs : pc[q] \notin Uninit
     THEN Continue(p, "claim")
     ELSE End(p, "exited")

\* Mutant: the pid file is created or truncated.
ClaimTruncates(p) ==
  /\ pc[p] = "claim"
  /\ record' = Empty
  /\ Goto(p, "publishCheck")
  /\ UNCHANGED <<file, writer, gateOpen, role, seen, sock, lapses>>

\* create_new
Claim(p) ==
  /\ pc[p] = "claim"
  /\ IF record = None
     THEN /\ record' = Empty
          /\ Goto(p, "publishCheck")
          /\ UNCHANGED <<file, writer, gateOpen, role, seen, sock, lapses>>
     ELSE Continue(p, IF role[p] = "heal" THEN "out" ELSE "readExisting")

\* An error of try_acquire_daemon_lock ends a starter and the heal.
NotClaimed(p) == IF role[p] = "heal" THEN Continue(p, "out") ELSE End(p, "exited")

\* replace_owned_lock: the path must still read empty; a missing file does.
PublishCheck(p) ==
  /\ pc[p] = "publishCheck"
  /\ IF record \in {None, Empty} THEN Continue(p, "publishRename") ELSE NotClaimed(p)

\* The rename may fail, and then the placeholder stays.
PublishRename(p) ==
  /\ pc[p] = "publishRename"
  /\ \/ /\ record' = [pid |-> p, socket |-> "primary"]
        /\ Goto(p, IF role[p] = "heal" THEN "healUnlink" ELSE "writerTry")
        /\ UNCHANGED <<file, writer, gateOpen, role, seen, sock, lapses>>
     \/ NotClaimed(p)

\* read_lock_info_tolerant; the gate's lease is dropped.
ReadExisting(p) ==
  /\ pc[p] = "readExisting"
  /\ See(p, IF Recorded(record) THEN record ELSE None)
  /\ Goto(p, IF Recorded(record) THEN "attach" ELSE "clearRead")
  /\ UNCHANGED <<record, file, writer, gateOpen, role, sock, lapses>>

\* A daemon listens on the socket file it bound, until it stops accepting.
Listening(s) ==
  /\ file[s] \in Procs
  /\ pc[file[s]] \in {"rewriteRead", "rewriteCheck", "rewriteRename", "serving"}

\* attach_to_daemon: connect and hello, which may also fail or time out.
Attach(p) ==
  /\ pc[p] = "attach"
  /\ \/ Listening(seen[p].socket) /\ End(p, "exited")
     \/ Continue(p, "clearRead")

-----------------------------------------------------------------------------
(* clear_stale_daemon_lock.                                                *)

Cleared(p) ==
  IF role[p] = "daemon" THEN "gate" ELSE IF role[p] = "heal" THEN "claim" ELSE "out"
NotCleared(p) == IF role[p] = "daemon" THEN End(p, "exited") ELSE Continue(p, "out")

\* The record is read and its owner found dead, not yet deleted.  A starter
\* expects the pid it failed to reach.
StaleRecord(p) ==
  /\ Recorded(record)
  /\ seen[p] # None => record.pid = seen[p].pid
  /\ ~Alive(record.pid)

ClearRead(p) ==
  /\ pc[p] = "clearRead"
  /\ CASE record = None -> Continue(p, Cleared(p))
       [] StaleRecord(p) ->
            /\ See(p, record)
            /\ Goto(p, "clearRemove")
            /\ UNCHANGED <<record, file, writer, gateOpen, role, sock, lapses>>
       [] OTHER -> NotCleared(p)

\* Mutant: the heal unlinks the socket without holding the claim.
ClearRemoveWithSocket(p) ==
  /\ pc[p] = "clearRemove"
  /\ RemoveRecord(p)
  /\ See(p, None)
  /\ Goto(p, IF role[p] = "heal" THEN "healUnlink" ELSE Cleared(p))
  /\ UNCHANGED <<file, writer, gateOpen, role, sock>>

\* remove_file, which fails on a missing record and may fail on another.
ClearRemove(p) ==
  /\ pc[p] = "clearRemove"
  /\ \/ /\ record # None
        /\ RemoveRecord(p)
        /\ See(p, None)
        /\ Goto(p, Cleared(p))
        /\ UNCHANGED <<file, writer, gateOpen, role, sock>>
     \/ NotCleared(p)

-----------------------------------------------------------------------------
(* clear_stale_daemon_socket: read the recorded socket, clear, claim,      *)
(* unlink, release the claim (cleanup_owned_lock).                         *)

HealRead(p) ==
  /\ pc[p] = "healRead"
  /\ Use(p, IF Recorded(record) THEN record.socket ELSE "primary")
  /\ Goto(p, "clearRead")
  /\ UNCHANGED <<record, file, writer, gateOpen, role, seen, lapses>>

HealUnlink(p) ==
  /\ pc[p] = "healUnlink"
  /\ Unlink(sock[p])
  /\ Goto(p, "cleanupRecheck")
  /\ UNCHANGED <<record, writer, gateOpen, role, seen, sock, lapses>>

-----------------------------------------------------------------------------
(* start_with_lock: the writer lock, the socket, the rewritten record.     *)

\* try_acquire_writer_lock: taken here, by another, or an error, which ends
\* the starter with its record still published.
WriterTry(p) ==
  /\ pc[p] = "writerTry"
  /\ \/ /\ writer = None
        /\ writer' = p
        /\ Goto(p, IF role[p] = "direct" THEN "direct" ELSE "bindUnlink")
        /\ UNCHANGED <<record, file, gateOpen, role, seen, sock, lapses>>
     \/ writer # None /\ role[p] = "daemon" /\ Continue(p, "cleanupCheck")
     \/ End(p, "exited")

\* bind_with_fallback: an existing file is removed before each attempt.
BindUnlink(p) ==
  /\ pc[p] = "bindUnlink"
  /\ Unlink(sock[p])
  /\ Goto(p, "bind")
  /\ UNCHANGED <<record, writer, gateOpen, role, seen, sock, lapses>>

Bind(p) ==
  /\ pc[p] = "bind"
  /\ \/ /\ file[sock[p]] = None
        /\ file' = [file EXCEPT ![sock[p]] = p]
        /\ Goto(p, "rewriteRead")
        /\ UNCHANGED <<record, writer, gateOpen, role, seen, sock, lapses>>
     \/ /\ sock[p] = "primary"          \* bind failed, next candidate
        /\ Use(p, "fallback")
        /\ Goto(p, "bindUnlink")
        /\ UNCHANGED <<record, file, writer, gateOpen, role, seen, lapses>>
     \/ sock[p] = "fallback" /\ End(p, "exited")

\* rewrite_lock_socket_path; an error is only logged, and the record then
\* goes on naming the first candidate.
NotPersisted(p) ==
  /\ Goto(p, "serving")
  /\ Lapse("socketNotPersisted", sock[p] # "primary")
  /\ See(p, None)
  /\ UNCHANGED <<record, file, writer, gateOpen, role, sock>>

RewriteRead(p) ==
  /\ pc[p] = "rewriteRead"
  /\ IF Recorded(record)
     THEN /\ See(p, record)
          /\ Goto(p, "rewriteCheck")
          /\ UNCHANGED <<record, file, writer, gateOpen, role, sock, lapses>>
     ELSE NotPersisted(p)

RewriteCheck(p) ==
  /\ pc[p] = "rewriteCheck"
  /\ IF record = seen[p] THEN Continue(p, "rewriteRename") ELSE NotPersisted(p)

RewriteRename(p) ==
  /\ pc[p] = "rewriteRename"
  /\ \/ /\ record' = [seen[p] EXCEPT !.socket = sock[p]]
        /\ See(p, None)
        /\ Goto(p, "serving")
        /\ UNCHANGED <<file, writer, gateOpen, role, sock, lapses>>
     \/ NotPersisted(p)                 \* the file system refuses

-----------------------------------------------------------------------------
(* The end of a daemon: any reason of its accept loop, then the drain and  *)
(* cleanup_owned_rendezvous.                                               *)

StopServing(p) == pc[p] = "serving" /\ Continue(p, "cleanupCheck")

CleanupCheck(p) ==
  /\ pc[p] = "cleanupCheck"
  /\ Continue(p, IF RecordNames(p) THEN "cleanupSocket" ELSE "release")

CleanupSocket(p) ==
  /\ pc[p] = "cleanupSocket"
  /\ Unlink(sock[p])
  /\ Goto(p, "cleanupRecheck")
  /\ UNCHANGED <<record, writer, gateOpen, role, seen, sock, lapses>>

CleanupRecheck(p) ==
  /\ pc[p] = "cleanupRecheck"
  /\ Continue(p, IF RecordNames(p) THEN "cleanupRemove"
                 ELSE IF role[p] = "heal" THEN "out" ELSE "release")

CleanupRemove(p) ==
  /\ pc[p] = "cleanupRemove"
  /\ RemoveRecord(p)
  /\ Goto(p, IF role[p] = "heal" THEN "out" ELSE "release")
  /\ UNCHANGED <<file, writer, gateOpen, role, seen, sock>>

\* Mutant: the writer lock is not dropped with the daemon's loop.
ReleaseKeepsWriter(p) == pc[p] = "release" /\ Continue(p, "dropListener")

\* The acknowledgement, if one is owed, goes out; then the writer lock is
\* dropped.  A starter that found the writer lock taken ends here.
Release(p) ==
  /\ pc[p] = "release"
  /\ IF writer = p
     THEN /\ writer' = None
          /\ Goto(p, "dropListener")
          /\ UNCHANGED <<record, file, gateOpen, role, seen, sock, lapses>>
     ELSE End(p, "exited")

\* The listener is dropped last.  The socket library may unlink the path the
\* listener was bound to, whoever has bound it since.
DropListener(p) ==
  /\ pc[p] = "dropListener"
  /\ Goto(p, "exited")
  /\ Use(p, "primary")
  /\ \/ UNCHANGED <<file, lapses>>
     \/ /\ Unlink(sock[p])
        /\ Lapse("listenerUnlinked", file[sock[p]] # p /\ Alive(file[sock[p]]))
  /\ UNCHANGED <<record, writer, gateOpen, role, seen>>

-----------------------------------------------------------------------------
(* uninit: the exclusive lease, both markers, the drain, the removal.      *)

UninitLease(p) ==
  /\ pc[p] = "uninitLease"
  /\ IF \A q \in Procs : ~HoldsGate(q) /\ pc[q] \notin Uninit
     THEN /\ gateOpen' = FALSE
          /\ Goto(p, "uninitDrain")
          /\ UNCHANGED <<record, file, writer, role, seen, sock, lapses>>
     ELSE Continue(p, "out")

\* request_daemon_shutdown: no live owner recorded, or the frame reaches the
\* listener of the recorded socket and its accept loop breaks, or no answer.
UninitDrain(p) ==
  /\ pc[p] = "uninitDrain"
  /\ IF ~Recorded(record) \/ ~Alive(record.pid)
     THEN Continue(p, "uninitRemovePid")
     ELSE \/ /\ Listening(record.socket) /\ pc[file[record.socket]] = "serving"
             /\ pc' = [pc EXCEPT ![p] = "uninitWait", ![file[record.socket]] = "cleanupCheck"]
             /\ See(p, [pid |-> file[record.socket], socket |-> record.socket])
             /\ UNCHANGED <<record, file, writer, gateOpen, role, sock, lapses>>
          \/ Continue(p, "out")

\* A drained acknowledgement follows the daemon's own cleanup; an incomplete
\* drain, a death or the timeout end uninit.
UninitWait(p) ==
  /\ pc[p] = "uninitWait"
  /\ \/ /\ pc[seen[p].pid] \in {"release", "dropListener", "exited"}
        /\ Continue(p, "uninitRemovePid")
     \/ Continue(p, "out")

UninitRemovePid(p) ==
  /\ pc[p] = "uninitRemovePid"
  /\ RemoveRecord(p)
  /\ Goto(p, "uninitRemoveSocket")
  /\ UNCHANGED <<file, writer, gateOpen, role, seen, sock>>

UninitRemoveSocket(p) ==
  /\ pc[p] = "uninitRemoveSocket"
  /\ Unlink("primary")
  /\ Goto(p, "out")
  /\ UNCHANGED <<record, writer, gateOpen, role, seen, sock, lapses>>

\* The user runs init again.
InitAgain ==
  /\ ~gateOpen
  /\ \A p \in Procs : pc[p] \notin Uninit
  /\ gateOpen' = TRUE
  /\ UNCHANGED <<record, file, writer, role, pc, seen, sock, lapses>>

Killed(p) == Alive(p) /\ pc[p] # "out" /\ End(p, "dead")

-----------------------------------------------------------------------------
Step(p) ==
  \/ Gate(p) \/ Claim(p) \/ PublishCheck(p) \/ PublishRename(p)
  \/ ReadExisting(p) \/ Attach(p) \/ ClearRead(p) \/ ClearRemove(p)
  \/ HealRead(p) \/ HealUnlink(p)
  \/ WriterTry(p) \/ BindUnlink(p) \/ Bind(p)
  \/ RewriteRead(p) \/ RewriteCheck(p) \/ RewriteRename(p)
  \/ CleanupCheck(p) \/ CleanupSocket(p) \/ CleanupRecheck(p) \/ CleanupRemove(p)
  \/ Release(p) \/ DropListener(p)
  \/ UninitLease(p) \/ UninitDrain(p) \/ UninitWait(p)
  \/ UninitRemovePid(p) \/ UninitRemoveSocket(p)

Next ==
  \/ \E p \in Procs :
       \/ \E r \in Roles : Start(p, r)
       \/ Step(p)
       \/ StopServing(p)
       \/ Killed(p)
  \/ InitAgain

Spec == Init /\ [][Next]_vars

-----------------------------------------------------------------------------
(* Properties.                                                             *)

\* The record is an exclusion token: unless somebody deleted a live process's
\* record, at most one process is between publishing its record and removing it.
OneOwner ==
  "liveRecordRemoved" \notin lapses =>
    \A p, q \in Procs : Owner(p) /\ Owner(q) => p = q

\* A daemon that serves can be reached: the record names it and the socket it
\* is bound to, and the file at that path is its own.  Starters, healers and
\* departing daemons never take these from it, but for the lapses.
ServingReachable ==
  lapses = {} =>
    \A p \in Procs : pc[p] = "serving" =>
      record = [pid |-> p, socket |-> sock[p]] /\ file[sock[p]] = p

\* When uninit removes the rendezvous files, no daemon is up or coming up.
UninitLeavesNoDaemon ==
  "liveRecordRemoved" \notin lapses =>
    \A p, q \in Procs :
      pc[p] \in UninitRemoval =>
        ~(role[q] = "daemon" /\ pc[q] \in OwnerLabels)

-----------------------------------------------------------------------------
(* What the comments say.                                                  *)

\* lock.rs: clear_stale_daemon_lock never removes a lock held by a live pid.
StaleClearSparesTheLiving ==
  [][ \A p \in Procs : pc[p] = "clearRemove" /\ record # record' => ~NamesLiveOther(p) ]_vars

=============================================================================
