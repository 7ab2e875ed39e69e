---------------------------- MODULE MCIndexLease ----------------------------
(* The instance of IndexLease for TLC. *)
EXTENDS IndexLease

\* Identities are interchangeable: they are given out in one order.
FirstDir == CHOOSE d \in Dirs : TRUE
FirstLock == CHOOSE l \in Locks : TRUE

IdentitiesInOrder ==
  /\ usedDirs # {} => FirstDir \in usedDirs
  /\ usedLocks # {} => FirstLock \in usedLocks

=============================================================================
