-------------------------- MODULE MCProjectWatcher --------------------------
(* Instances of ProjectWatcher for TLC. *)
EXTENDS ProjectWatcher

CONSTANTS p1, p2

=============================================================================
