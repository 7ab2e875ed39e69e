----------------------------- MODULE DaemonProxy -----------------------------
(***************************************************************************)
(* One proxy (run_proxy of codegraph-daemon/src/proxy.rs) between an MCP   *)
(* host and a daemon, with its three threads: the main thread, which pumps *)
(* the host's lines to the daemon and then tears down, the `down' pump,    *)
(* and the watchdog.  What they share is the ledger of owed replies, the   *)
(* id whose reply is suppressed, and two shutdown signals.                 *)
(*                                                                         *)
(* A line is a request of the host and is named by its method; the reply   *)
(* to it carries the same name.  "response" is the host's response to a    *)
(* request of the daemon: it has an id and nobody answers it.              *)
(* Notifications, which have none, are left out, as is what the daemon     *)
(* sends of its own accord.                                                *)
(*                                                                         *)
(* A write fails when the other end is closed, and blocks when the other   *)
(* end is open, nobody reads from it any more and its buffer is full.  (A  *)
(* peer that reads again later only delays the proxy.)                     *)
(***************************************************************************)
EXTENDS Naturals, Sequences, FiniteSets

CONSTANT Lines   \* what the host sends, in any order

ASSUME LinesAssumption ==
  Lines \subseteq {"initialize", "tools/list", "server/discover", "tools/call", "response"}

VARIABLES
  halfCloses,   \* HALF_CLOSE_EOFS_DAEMON: unix
  host,         \* its lines, whether it closed its output, lives, holds its end of
                \* the proxy's output open, and has let that pipe fill up
  delivered,    \* per line: replies written to the host
  main,         \* where the main thread is
  up,           \* the pump it runs: the line in hand, what it has seen
  down,         \* the down pump's step, and the reply it has to retire
  watchdog, shutdown,
  outstanding, abandoned,   \* ReplyLedger
  suppressed,   \* the suppressed id, or ""
  settled,      \* the result of wait_until_settled
  daemon        \* its end of the stream

ledger == <<outstanding, abandoned>>
proxyVars == <<halfCloses, host, delivered, main, up, down, watchdog, shutdown, ledger,
               suppressed, settled, daemon>>

-----------------------------------------------------------------------------
(* Data.                                                                   *)

Host == [in : Seq(Lines), sent : SUBSET Lines, eof : BOOLEAN, alive : BOOLEAN,
         open : BOOLEAN, full : BOOLEAN]
\* asked: the lines it has answered or recorded as owed.
Up == [at : {"reading", "answer", "forward", "done"}, line : Lines \union {""}, ok : BOOLEAN,
       initialized : BOOLEAN, discovered : BOOLEAN, asked : SUBSET Lines]
\* full: it is stalled and the socket takes no more lines.
Daemon == [inbox : SUBSET Lines, answered : SUBSET Lines, out : Seq(Lines), open : BOOLEAN,
           greeted : BOOLEAN, stalled : BOOLEAN, full : BOOLEAN, eof : BOOLEAN]

\* Types, and that no request is answered twice.
ProxyTypeOK ==
  /\ halfCloses \in BOOLEAN
  /\ host \in Host
  /\ delivered \in [Lines -> 0..1]
  /\ main \in {"attach", "pump", "wait", "joinWatchdog", "joinDown", "returned"}
  /\ up \in Up
  /\ down \in [at : {"reading", "retire", "abandon", "ended"}, line : Lines \union {""}]
  /\ watchdog \in {"polling", "ended"} /\ shutdown \in BOOLEAN
  /\ outstanding \subseteq Lines /\ abandoned \in BOOLEAN
  /\ suppressed \in Lines \union {""}
  /\ settled \in BOOLEAN
  /\ daemon \in Daemon

ProxyInit ==
  /\ halfCloses \in BOOLEAN
  /\ host = [in |-> <<>>, sent |-> {}, eof |-> FALSE, alive |-> TRUE, open |-> TRUE,
             full |-> FALSE]
  /\ delivered = [l \in Lines |-> 0]
  /\ main = "attach"
  /\ up = [at |-> "reading", line |-> "", ok |-> TRUE, initialized |-> FALSE,
           discovered |-> FALSE, asked |-> {}]
  /\ down = [at |-> "reading", line |-> ""]
  /\ watchdog = "polling" /\ shutdown = FALSE
  /\ outstanding = {} /\ abandoned = FALSE
  /\ suppressed = ""
  /\ settled = FALSE
  /\ daemon = [inbox |-> {}, answered |-> {}, out |-> <<>>, open |-> TRUE,
               greeted |-> FALSE, stalled |-> FALSE, full |-> FALSE, eof |-> FALSE]

\* Neither end goes away, and it does nothing any more.
Stalled == daemon.open /\ daemon.stalled
Unread == host.open /\ host.full

-----------------------------------------------------------------------------
(* The host and the daemon.                                                *)

HostStep ==
  /\ main # "returned"
  /\ UNCHANGED <<halfCloses, delivered, main, up, down, watchdog, shutdown, ledger, suppressed,
                 settled, daemon>>

HostSends(l) ==
  /\ ~host.eof /\ host.alive /\ l \notin host.sent
  /\ host' = [host EXCEPT !.in = Append(@, l), !.sent = @ \union {l}]
  /\ HostStep

HostCloses ==
  /\ ~host.eof
  /\ host' = [host EXCEPT !.eof = TRUE]
  /\ HostStep

\* Killed; a process it started may keep both ends of the pipes open.
HostDies ==
  /\ host.alive
  /\ host' = [host EXCEPT !.alive = FALSE]
  /\ HostStep

\* It keeps its end of the pipe open and lets it fill up.
HostStopsReading ==
  /\ host.open /\ ~host.full
  /\ host' = [host EXCEPT !.full = TRUE]
  /\ HostStep

HostHangsUp ==
  /\ host.open
  /\ host' = [host EXCEPT !.open = FALSE]
  /\ HostStep

DaemonStep ==
  /\ daemon.open /\ main # "returned"
  /\ UNCHANGED <<halfCloses, host, delivered, main, up, down, watchdog, shutdown, ledger,
                 suppressed, settled>>

DaemonGreets ==
  /\ ~daemon.stalled /\ ~daemon.greeted
  /\ daemon' = [daemon EXCEPT !.greeted = TRUE]
  /\ DaemonStep

DaemonAnswers(l) ==
  /\ ~daemon.stalled /\ l \in daemon.inbox /\ l # "response"
  /\ daemon' = [daemon EXCEPT !.inbox = @ \ {l}, !.answered = @ \union {l}, !.out = Append(@, l)]
  /\ DaemonStep

DaemonTakesResponse ==
  /\ ~daemon.stalled /\ "response" \in daemon.inbox
  /\ daemon' = [daemon EXCEPT !.inbox = @ \ {"response"}]
  /\ DaemonStep

\* Its reader saw the end of the stream and the last reply is written.
DaemonEnds ==
  /\ ~daemon.stalled /\ daemon.eof /\ daemon.inbox = {}
  /\ daemon' = [daemon EXCEPT !.open = FALSE]
  /\ DaemonStep

\* It is stopped or dies, whatever it owes.
DaemonExits ==
  /\ daemon' = [daemon EXCEPT !.open = FALSE]
  /\ DaemonStep

\* It keeps the connection and does nothing any more, for instance because its
\* own writes block on a proxy whose down pump has stopped reading.
DaemonStalls ==
  /\ ~daemon.stalled
  /\ daemon' = [daemon EXCEPT !.stalled = TRUE]
  /\ DaemonStep

DaemonFills ==
  /\ daemon.stalled /\ ~daemon.full
  /\ daemon' = [daemon EXCEPT !.full = TRUE]
  /\ DaemonStep

-----------------------------------------------------------------------------
(* The main thread.                                                        *)

\* read_daemon_hello, verify_daemon_hello, then the client's hello and the other
\* two threads.  The proxy gives up when the hello is another version's, when
\* the stream ends, or when the hello does not come in time; only unix has
\* that timeout.
Attach ==
  /\ main = "attach"
  /\ \/ daemon.greeted /\ daemon.open /\ main' = "pump"
     \/ (daemon.greeted \/ ~daemon.open \/ halfCloses) /\ main' = "returned"
  /\ UNCHANGED <<halfCloses, host, delivered, up, down, watchdog, shutdown, ledger, suppressed,
                 settled, daemon>>

Handled(l) == [up EXCEPT !.asked = @ \union {l}]

UpFails == up' = [up EXCEPT !.at = "done", !.ok = FALSE]

\* A request the proxy answers itself is in hand.
UpLocal(l) ==
  /\ up' = [up EXCEPT !.at = "answer", !.line = l, !.initialized = @ \/ l = "initialize"]
  /\ UNCHANGED outstanding

\* A tools/list that names its protocol version is forwarded even so (UpRead).
LocalToolsList(l) == l = "tools/list" /\ up.initialized /\ ~up.discovered

\* Mutant: a forwarded request is not recorded.
UpRequestUnrecorded(l) ==
  /\ up' = [Handled(l) EXCEPT !.at = "forward", !.line = l,
                              !.discovered = @ \/ l = "server/discover"]
  /\ UNCHANGED outstanding

\* A line with an id is recorded as owed before it is forwarded.
UpRequest(l) ==
  /\ outstanding' = outstanding \union {l}
  /\ up' = [Handled(l) EXCEPT !.at = "forward", !.line = l,
                              !.discovered = @ \/ l = "server/discover"]

\* One turn of pump_host_to_daemon: the flag is looked at once a line was read.
UpRead ==
  /\ main = "pump" /\ up.at = "reading" /\ host.in # <<>>
  /\ host' = [host EXCEPT !.in = Tail(@)]
  /\ LET l == Head(host.in) IN
     CASE shutdown -> up' = [up EXCEPT !.at = "done"] /\ UNCHANGED outstanding
       [] ~shutdown /\ l = "initialize" -> UpLocal(l)
       [] ~shutdown /\ LocalToolsList(l) -> UpLocal(l) \/ UpRequest(l)
       [] OTHER -> UpRequest(l)
  /\ UNCHANGED <<halfCloses, delivered, main, down, watchdog, shutdown, abandoned, suppressed,
                 settled, daemon>>

\* Mutant: the daemon's reply is not suppressed.
UpAnswerUnsuppressed ==
  /\ main = "pump" /\ up.at = "answer" /\ host.open /\ ~Unread
  /\ delivered' = [delivered EXCEPT ![up.line] = @ + 1]
  /\ up' = IF up.line = "initialize" THEN [Handled(up.line) EXCEPT !.at = "forward"]
           ELSE [Handled(up.line) EXCEPT !.at = "reading", !.line = ""]
  /\ UNCHANGED <<halfCloses, host, main, down, watchdog, shutdown, ledger, suppressed, settled,
                 daemon>>

\* write_host_line of the local answer.  `initialize' primes the daemon too,
\* whose reply is suppressed.
UpAnswer ==
  /\ main = "pump" /\ up.at = "answer" /\ ~Unread
  /\ CASE host.open /\ up.line = "initialize" ->
            /\ delivered' = [delivered EXCEPT ![up.line] = @ + 1]
            /\ suppressed' = up.line
            /\ up' = [Handled(up.line) EXCEPT !.at = "forward"]
       [] host.open /\ up.line # "initialize" ->
            /\ delivered' = [delivered EXCEPT ![up.line] = @ + 1]
            /\ up' = [Handled(up.line) EXCEPT !.at = "reading", !.line = ""]
            /\ UNCHANGED suppressed
       [] OTHER -> UpFails /\ UNCHANGED <<delivered, suppressed>>
  /\ UNCHANGED <<halfCloses, host, main, down, watchdog, shutdown, ledger, settled, daemon>>

UpEof ==
  /\ main = "pump" /\ up.at = "reading" /\ host.in = <<>> /\ host.eof
  /\ up' = [up EXCEPT !.at = "done"]
  /\ UNCHANGED <<halfCloses, host, delivered, main, down, watchdog, shutdown, ledger, suppressed,
                 settled, daemon>>

UpForward ==
  /\ main = "pump" /\ up.at = "forward" /\ ~(Stalled /\ daemon.full)
  /\ IF daemon.open
     THEN /\ daemon' = [daemon EXCEPT !.inbox = @ \union {up.line}]
          /\ up' = [up EXCEPT !.at = "reading", !.line = ""]
     ELSE UpFails /\ UNCHANGED daemon
  /\ UNCHANGED <<halfCloses, host, delivered, main, down, watchdog, shutdown, ledger, suppressed,
                 settled>>

\* half_close_write: on unix the daemon's reader sees the end of the stream.
HalfClose ==
  /\ main = "pump" /\ up.at = "done"
  /\ main' = "wait"
  /\ daemon' = [daemon EXCEPT !.eof = halfCloses]
  /\ UNCHANGED <<halfCloses, host, delivered, up, down, watchdog, shutdown, ledger, suppressed,
                 settled>>

Settled == abandoned \/ outstanding = {}

\* wait_until_settled returns; then the watchdog is woken to be joined.
Waited(result) ==
  /\ main = "wait"
  /\ settled' = result
  /\ shutdown' = TRUE
  /\ main' = "joinWatchdog"
  /\ UNCHANGED <<halfCloses, host, delivered, up, down, watchdog, ledger, suppressed, daemon>>

Settle == Settled /\ Waited(TRUE)

BudgetSpent == ~Settled /\ Waited(FALSE)

JoinWatchdog ==
  /\ main = "joinWatchdog" /\ watchdog = "ended"
  /\ main' = IF halfCloses THEN "joinDown" ELSE "returned"
  /\ UNCHANGED <<halfCloses, host, delivered, up, down, watchdog, shutdown, ledger, suppressed,
                 settled, daemon>>

JoinDown ==
  /\ main = "joinDown" /\ down.at = "ended"
  /\ main' = "returned"
  /\ UNCHANGED <<halfCloses, host, delivered, up, down, watchdog, shutdown, ledger, suppressed,
                 settled, daemon>>

Proxied == main = "returned" /\ settled /\ up.ok

-----------------------------------------------------------------------------
(* The other two threads.                                                  *)

\* They live from the attach on; a down pump that is not joined dies with the
\* process.
Running == main \notin {"attach", "returned"}

\* One turn of pump_daemon_to_host: the suppressed reply is skipped, another
\* one written to the host.
DownForward ==
  /\ Running /\ down.at = "reading" /\ daemon.out # <<>>
  /\ Unread => Head(daemon.out) = suppressed
  /\ daemon' = [daemon EXCEPT !.out = Tail(@)]
  /\ LET l == Head(daemon.out) IN
     CASE l = suppressed -> UNCHANGED <<delivered, down>>
       [] l # suppressed /\ host.open ->
            /\ delivered' = [delivered EXCEPT ![l] = @ + 1]
            /\ down' = [at |-> "retire", line |-> l]
       [] OTHER -> down' = [down EXCEPT !.at = "abandon"] /\ UNCHANGED delivered
  /\ UNCHANGED <<halfCloses, host, main, up, watchdog, shutdown, ledger, suppressed, settled>>

DownRetire ==
  /\ Running /\ down.at = "retire"
  /\ outstanding' = outstanding \ {down.line}
  /\ down' = [at |-> "reading", line |-> ""]
  /\ UNCHANGED <<halfCloses, host, delivered, main, up, watchdog, shutdown, abandoned,
                 suppressed, settled, daemon>>

DownEof ==
  /\ Running /\ down.at = "reading" /\ daemon.out = <<>> /\ ~daemon.open
  /\ down' = [down EXCEPT !.at = "abandon"]
  /\ UNCHANGED <<halfCloses, host, delivered, main, up, watchdog, shutdown, ledger, suppressed,
                 settled, daemon>>

DownAbandon ==
  /\ Running /\ down.at = "abandon"
  /\ abandoned' = TRUE
  /\ down' = [down EXCEPT !.at = "ended"]
  /\ UNCHANGED <<halfCloses, host, delivered, main, up, watchdog, shutdown, outstanding,
                 suppressed, settled, daemon>>

\* Mutant: the main thread does not wake it.
WatchdogPolls ==
  /\ Running /\ watchdog = "polling"
  /\ ~host.alive
  /\ watchdog' = "ended"
  /\ shutdown' = TRUE
  /\ UNCHANGED <<halfCloses, host, delivered, main, up, down, ledger, suppressed, settled, daemon>>

\* Supervision is lost, or the main thread woke it.
WatchdogEnds ==
  /\ Running /\ watchdog = "polling"
  /\ ~host.alive \/ main = "joinWatchdog"
  /\ watchdog' = "ended"
  /\ shutdown' = TRUE
  /\ UNCHANGED <<halfCloses, host, delivered, main, up, down, ledger, suppressed, settled, daemon>>

-----------------------------------------------------------------------------
Main == Attach \/ UpRead \/ UpAnswer \/ UpEof \/ UpForward \/ HalfClose \/ Settle \/ BudgetSpent
        \/ JoinWatchdog \/ JoinDown
Down == DownForward \/ DownRetire \/ DownEof \/ DownAbandon

ProxyNext ==
  \/ \E l \in Lines : HostSends(l) \/ DaemonAnswers(l)
  \/ HostCloses \/ HostDies \/ HostStopsReading \/ HostHangsUp
  \/ DaemonGreets \/ DaemonTakesResponse \/ DaemonEnds \/ DaemonExits \/ DaemonStalls
  \/ DaemonFills
  \/ Main \/ Down \/ WatchdogEnds

ProxySpec == ProxyInit /\ [][ProxyNext]_proxyVars

\* The proxy's threads run, and a daemon that has not stalled greets, answers
\* and closes.  The host may stop anything it does.
ProxyFairness ==
  /\ WF_proxyVars(Main) /\ WF_proxyVars(Down) /\ WF_proxyVars(WatchdogEnds)
  /\ WF_proxyVars(DaemonGreets \/ DaemonTakesResponse \/ DaemonEnds
                  \/ \E l \in Lines : DaemonAnswers(l))

ProxyFairSpec == ProxySpec /\ ProxyFairness

-----------------------------------------------------------------------------
(* Properties.                                                             *)

\* A proxy that reports success has lost no reply: every request it took was
\* answered to a host that keeps its pipe open, except those the daemon left
\* unanswered when it ended the stream.
NoReplyLost ==
  Proxied /\ host.open =>
    \A l \in up.asked : delivered[l] = 1 \/ (l \notin daemon.answered /\ ~daemon.open)

\* The main thread waits for a peer that does nothing any more: for the hello
\* where no timeout bounds it, in a write of its own, or (unix) in the join of
\* a down pump that waits for the daemon or for the host to read.
Held ==
  \/ main = "attach" /\ ~halfCloses /\ Stalled
  \/ main = "pump" /\ up.at = "answer" /\ Unread
  \/ main = "pump" /\ up.at = "forward" /\ Stalled /\ daemon.full
  \/ main = "joinDown" /\ down.at = "reading" /\ (Stalled \/ (Unread /\ daemon.out # <<>>))

\* Once its input has ended the proxy returns, whatever the daemon still owes
\* and whichever of the threads ends first, unless a peer holds it for ever in
\* one of those places.  The wait for owed replies is none of them.
ProxyReturns == host.eof ~> (main = "returned" \/ []Held)

\* "A PPID watchdog (colby proxy.ts) forces the proxy to exit if the MCP host
\* dies without closing stdin" (proxy.rs).
OrphanExits == ~host.alive ~> main = "returned" \/ daemon.stalled \/ host.full

=============================================================================
