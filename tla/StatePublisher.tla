--------------------------- MODULE StatePublisher ---------------------------
(***************************************************************************)
(* Crash-safe publication of the dual state slots                          *)
(* (codegraph-store/src/index_state_publisher.rs) beside the slot reader   *)
(* of the classifier (index_state.rs), one file operation per action.      *)
(*                                                                         *)
(* One writer at a time publishes, under the exclusive index lease (that   *)
(* the lease excludes others is IndexLease's subject).  It may fail with   *)
(* an I/O error, be killed, or lose power between any two operations.      *)
(* Readers classify the slots either under the shared lease or, as the     *)
(* pre-checks of uninit, init, recovery and `status' do, without one.      *)
(*                                                                         *)
(* Durability: `limbo' is the set of slot pairs a power loss may leave.  A *)
(* directory operation adds pairs to it; syncing the parent directory      *)
(* empties it down to the visible pair.  With OrderedDirectory the file    *)
(* system persists directory operations in order (a metadata journal);     *)
(* without, each unsynced operation persists or not on its own.            *)
(***************************************************************************)
EXTENDS IndexState

CONSTANTS Readers,          \* processes that classify
          InitialSlots,     \* slot pairs the program may find on disk
          ParentSync,       \* results directory sync may have here
          OrderedDirectory  \* see above

ASSUME StatePublisherAssumption ==
  /\ InitialSlots \subseteq [SlotIndex -> WireSlot]
  /\ ParentSync \subseteq {"synced", "unsupported", "error"}
  /\ OrderedDirectory \in BOOLEAN

VARIABLES
  slots,    \* what the two fixed slot paths name
  limbo,    \* the slot pairs a power loss may leave
  settled,  \* no publication ended before its directory sync since the last one
  lease,    \* "free", "exclusive", or "shared" while some reader holds it
  step,     \* the publisher's next file operation, "idle" outside one
  record,   \* the record being published
  target,   \* the slot it goes to
  tempSynced, \* whether the temp file's bytes are durable
  reader,   \* per reader: its next read, and whether it holds the shared lease
  seen      \* per reader: what it read of the two slots

vars == <<slots, limbo, settled, lease, step, record, target, tempSynced, reader, seen>>
publication == <<step, record, target, tempSynced>>
readers == <<reader, seen>>

Steps == {"idle", "createTemp", "writeTemp", "syncTemp", "prepareInactive",
          "renameTemp", "syncParent"}

ReaderSteps == {"idle", "open0", "check0", "open1", "check1", "done"}

TypeOK ==
  /\ slots \in [SlotIndex -> WireSlot]
  /\ limbo \subseteq [SlotIndex -> WireSlot]
  /\ settled \in BOOLEAN
  /\ lease \in {"free", "shared", "exclusive"}
  /\ step \in Steps
  /\ record \in WireSlot
  /\ target \in SlotIndex
  /\ tempSynced \in BOOLEAN
  /\ reader \in [Readers -> [at : ReaderSteps, leased : BOOLEAN]]
  /\ seen \in [Readers -> [SlotIndex -> WireSlot]]

NothingSeen == [i \in SlotIndex |-> Absent]

Init ==
  /\ slots \in InitialSlots
  /\ limbo = {slots}
  /\ settled = TRUE
  /\ lease = "free"
  /\ step = "idle"
  /\ record = Absent
  /\ target = 0
  /\ tempSynced = FALSE
  /\ reader = [r \in Readers |-> [at |-> "idle", leased |-> FALSE]]
  /\ seen = [r \in Readers |-> NothingSeen]

-----------------------------------------------------------------------------
(* The directory.                                                          *)

\* The pairs a power loss may leave once `slot i becomes raw' was issued too.
Issued(i, raw) ==
  IF OrderedDirectory
  THEN limbo \union {[slots EXCEPT ![i] = raw]}
  ELSE limbo \union {[s EXCEPT ![i] = raw] : s \in limbo}

Directory(i, raw) ==
  /\ slots' = [slots EXCEPT ![i] = raw]
  /\ limbo' = Issued(i, raw)

-----------------------------------------------------------------------------
(* The writer.                                                             *)

\* Mutant: a writer does not wait for leased readers.
AcquireExclusiveOverReaders ==
  /\ lease # "exclusive"
  /\ lease' = "exclusive"
  /\ UNCHANGED <<slots, limbo, settled, publication, readers>>

AcquireExclusive ==
  /\ lease = "free"
  /\ lease' = "exclusive"
  /\ UNCHANGED <<slots, limbo, settled, publication, readers>>

ReleaseExclusive ==
  /\ lease = "exclusive"
  /\ step = "idle"
  /\ lease' = "free"
  /\ UNCHANGED <<slots, limbo, settled, publication, readers>>

\* publish_index_state up to its first file operation: capability check,
\* classification under the lease, transition and inactive-slot checks.
Begin(phase) ==
  /\ lease = "exclusive"
  /\ step = "idle"
  /\ Publishable(slots, phase)
  /\ record' = Successor(slots, phase)
  /\ target' = SuccessorSlot(slots)
  /\ tempSynced' = FALSE
  /\ step' = "createTemp"
  /\ UNCHANGED <<slots, limbo, settled, lease, readers>>

\* The temp file is a fresh name outside the two fixed slots.
CreateTemp ==
  /\ step = "createTemp"
  /\ step' = "writeTemp"
  /\ UNCHANGED <<slots, limbo, settled, lease, record, target, tempSynced, readers>>

\* Mutant: the temp file is renamed without having been synced.
WriteTempUnsynced ==
  /\ step = "writeTemp"
  /\ step' = "prepareInactive"
  /\ UNCHANGED <<slots, limbo, settled, lease, record, target, tempSynced, readers>>

\* write_all and flush.
WriteTemp ==
  /\ step = "writeTemp"
  /\ step' = "syncTemp"
  /\ UNCHANGED <<slots, limbo, settled, lease, record, target, tempSynced, readers>>

SyncTemp ==
  /\ step = "syncTemp"
  /\ tempSynced' = TRUE
  /\ step' = "prepareInactive"
  /\ UNCHANGED <<slots, limbo, settled, lease, record, target, readers>>

PrepareInactiveSlot ==
  /\ step = "prepareInactive"
  /\ IF slots[target] = Absent
     THEN UNCHANGED <<slots, limbo>>
     ELSE Directory(target, Absent)
  /\ step' = "renameTemp"
  /\ UNCHANGED <<settled, lease, record, target, tempSynced, readers>>

\* A rename whose file bytes were not synced may survive with no content.
RenameTemp ==
  /\ step = "renameTemp"
  /\ slots' = [slots EXCEPT ![target] = record]
  /\ limbo' = Issued(target, record)
                \union (IF tempSynced THEN {} ELSE Issued(target, Unreadable))
  /\ step' = "syncParent"
  /\ UNCHANGED <<settled, lease, record, target, tempSynced, readers>>

SyncParent(result) ==
  /\ step = "syncParent"
  /\ result \in {"synced", "unsupported"}
  /\ IF result = "synced"
     THEN limbo' = {slots} /\ settled' = TRUE
     ELSE UNCHANGED limbo /\ settled' = FALSE
  /\ step' = "idle"
  /\ UNCHANGED <<slots, lease, record, target, tempSynced, readers>>

\* Any operation returns an error: publication stops there, nothing is undone.
\* Before SyncParent any operation may fail; SyncParent itself as ParentSync says.
Fail ==
  /\ step # "idle"
  /\ step = "syncParent" => "error" \in ParentSync
  /\ step' = "idle"
  /\ settled' = (settled /\ limbo = {slots})
  /\ UNCHANGED <<slots, limbo, lease, record, target, tempSynced, readers>>

\* The writer is killed: the kernel drops its lease, the files stay.
Kill ==
  /\ lease = "exclusive"
  /\ step' = "idle"
  /\ lease' = "free"
  /\ settled' = (settled /\ limbo = {slots})
  /\ UNCHANGED <<slots, limbo, record, target, tempSynced, readers>>

\* The machine stops: a pair of `limbo' is what is on disk afterwards.
PowerLoss ==
  /\ slots' \in limbo
  /\ limbo' = {slots'}
  /\ settled' = TRUE
  /\ lease' = "free"
  /\ step' = "idle"
  /\ reader' = [r \in Readers |-> [at |-> "idle", leased |-> FALSE]]
  /\ seen' = [r \in Readers |-> NothingSeen]
  /\ UNCHANGED <<record, target, tempSynced>>

-----------------------------------------------------------------------------
(* The readers: classify_slots reads slot 0, then slot 1.                  *)

StartClassify(r, leased) ==
  /\ reader[r].at = "idle"
  /\ leased => lease # "exclusive"
  /\ lease' = IF leased THEN "shared" ELSE lease
  /\ reader' = [reader EXCEPT ![r] = [at |-> "open0", leased |-> leased]]
  /\ seen' = [seen EXCEPT ![r] = NothingSeen]
  /\ UNCHANGED <<slots, limbo, settled, publication>>

OpenStep(i) == IF i = 0 THEN "open0" ELSE "open1"
CheckStep(i) == IF i = 0 THEN "check0" ELSE "check1"
AfterSlot(i) == IF i = 0 THEN "open1" ELSE "done"

\* read_slot_with: initial metadata and open handle.  The opened bytes cannot
\* change afterwards: a slot file is replaced by rename, never rewritten.
OpenSlot(r, i) ==
  /\ reader[r].at = OpenStep(i)
  /\ seen' = [seen EXCEPT ![r][i] = slots[i]]
  /\ reader' = [reader EXCEPT ![r].at =
                  IF slots[i] = Absent THEN AfterSlot(i) ELSE CheckStep(i)]
  /\ UNCHANGED <<slots, limbo, settled, lease, publication>>

\* The post-read corroboration: the path must still name the opened file.
\* Sequences make two published files differ, so identity is equality here.
CheckSlot(r, i) ==
  /\ reader[r].at = CheckStep(i)
  /\ seen' = IF slots[i] = seen[r][i] THEN seen
             ELSE [seen EXCEPT ![r][i] = Unreadable]
  /\ reader' = [reader EXCEPT ![r].at = AfterSlot(i)]
  /\ UNCHANGED <<slots, limbo, settled, lease, publication>>

OtherLeased(r) == \E q \in Readers \ {r} : reader[q].leased

\* The reader has its classification and drops its lease, if it held one.
FinishClassify(r) ==
  /\ reader[r].at = "done"
  /\ reader' = [reader EXCEPT ![r] = [at |-> "idle", leased |-> FALSE]]
  /\ lease' = IF reader[r].leased /\ ~OtherLeased(r) THEN "free" ELSE lease
  /\ UNCHANGED <<slots, limbo, settled, publication, seen>>

-----------------------------------------------------------------------------
Writer ==
  \/ AcquireExclusive \/ ReleaseExclusive
  \/ \E phase \in StatePhase : Begin(phase)
  \/ CreateTemp \/ WriteTemp \/ SyncTemp
  \/ PrepareInactiveSlot \/ RenameTemp
  \/ \E result \in ParentSync : SyncParent(result)
  \/ Fail \/ Kill

Reader(r) ==
  \/ \E leased \in BOOLEAN : StartClassify(r, leased)
  \/ \E i \in SlotIndex : OpenSlot(r, i) \/ CheckSlot(r, i)
  \/ FinishClassify(r)

Next == Writer \/ PowerLoss \/ \E r \in Readers : Reader(r)

Spec == Init /\ [][Next]_vars

\* What publication promises: a register of the authoritative record.
Register == INSTANCE IndexRegister
              WITH authority <- Authority(slots),
                   durable <- {Authority(s) : s \in limbo}

-----------------------------------------------------------------------------
(* Properties.                                                             *)

\* A namespace that was not Corrupt when the program found it never becomes
\* Corrupt by publication, whatever fails or dies in between; only running
\* out of sequence numbers makes it so.
SoundStart == Classify(slots) # "corrupt"

NeverCorrupted ==
  [][ SoundStart => \/ Classify(slots') # "corrupt"
                    \/ Authority(slots').sequence = MaxSequence ]_vars

\* While every publication since the last directory sync completed, a power
\* loss between any two operations leaves either the record that was
\* authoritative before the running publication or the one it publishes, also
\* on a directory that persists its operations in any order.
PowerLossKeepsAuthority ==
  settled =>
    LET before == Authority([slots EXCEPT ![target] = Absent])
    IN \A s \in limbo :
         \/ Authority(s) = Authority(slots)
         \/ step = "syncParent" /\ Authority(s) = before

\* Once the rename is done the new record is the authority, in the slot the
\* previous authority does not occupy: publication never replaces the record it
\* succeeds.
PublishedIsAuthoritative ==
  step = "syncParent" => /\ Authority(slots) = record
                         /\ record.sequence > 0 => slots[1 - target].sequence = record.sequence - 1

\* On a directory that persists its operations in order, publication step by
\* step, with its failures and crashes, is the atomic register of IndexRegister.
ImplementsRegister == Register!Spec

\* A classification done under the shared lease is the classification of the
\* slots: no publication can tear its two reads.
LeasedClassificationExact ==
  \A r \in Readers :
    reader[r].at = "done" /\ reader[r].leased => Classify(seen[r]) = Classify(slots)

=============================================================================
