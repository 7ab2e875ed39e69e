---------------------------- MODULE MCDaemonProxy ----------------------------
(* Instances of DaemonProxy for TLC. *)
EXTENDS DaemonProxy

=============================================================================
