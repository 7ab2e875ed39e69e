-------------------------- MODULE MCProjectServices --------------------------
(* Instances of ProjectServices for TLC. *)
EXTENDS ProjectServices, TLC

Identities == Permutations(Callers) \union Permutations(Projects) \union Permutations(Gates)

=============================================================================
