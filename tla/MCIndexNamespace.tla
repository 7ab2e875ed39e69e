--------------------------- MODULE MCIndexNamespace ---------------------------
(* Instances of IndexNamespace for TLC. *)
EXTENDS IndexNamespace, TLC

Published(sequence, version, phase, owner) ==
  [sequence |-> sequence, protocol |-> CURRENT_STORAGE_PROTOCOL, version |-> version,
   phase |-> phase, owner |-> owner, intact |-> TRUE]

Namespace(r, a, b, m, t) ==
  [root |-> r, slots |-> (0 :> a @@ 1 :> b), main |-> m, wal |-> NoFile, tombstone |-> t]

Complete(version) == [rows |-> "complete", stamp |-> version]
Partial == [rows |-> "partial", stamp |-> 0]

\* No index yet.
Fresh == Namespace("absent", Absent, Absent, NoFile, FALSE)

\* The previous extraction version's index, complete or half built.
OutdatedComplete ==
  Namespace("locked", Published(0, 21, "building", "self"),
            Published(1, 21, "current", "self"), Complete(21), FALSE)
OutdatedPartial ==
  Namespace("locked", Published(0, 21, "building", "self"), Absent, Partial, FALSE)

\* An index the previous version removed.
Removed ==
  {Namespace("locked", Published(0, 21, "building", "self"),
             Published(1, 21, "uninitialized", "self"), NoFile, TRUE)}

\* A directory copied from another project, and a database without state.
Foreign ==
  {Namespace("locked", Published(0, 22, "building", "other"),
             Published(1, 22, "current", "other"), Complete(22), FALSE),
   Namespace("lockless", Absent, Absent, Complete(22), FALSE)}

AllNamespaces == {Fresh, OutdatedComplete, OutdatedPartial} \union Removed \union Foreign
OutdatedOnly == {OutdatedComplete}

Processes == Permutations(Procs)

=============================================================================
