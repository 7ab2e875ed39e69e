-------------------------- MODULE MCDaemonSessions --------------------------
(* Instances of DaemonSessions for TLC. *)
EXTENDS DaemonSessions, TLC

CONSTANTS c1, c2

\* A client that works, or says nothing; and one that may also stop the daemon.
ClientAndController ==
  (c1 :> {"hello", "nothing"}) @@ (c2 :> {"hello", "shutdown"})

=============================================================================
