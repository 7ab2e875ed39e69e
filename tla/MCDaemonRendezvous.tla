------------------------- MODULE MCDaemonRendezvous -------------------------
(* Instances of DaemonRendezvous for TLC. *)
EXTENDS DaemonRendezvous, TLC

Processes == Permutations(Procs)

=============================================================================
