----------------------------- MODULE IndexState -----------------------------
(***************************************************************************)
(* The two fixed state slots of an index namespace and the read-only       *)
(* classifier over them (codegraph-store/src/index_state.rs), with the     *)
(* transition table and successor choice of the publisher                  *)
(* (index_state_publisher.rs) as operators.  No variables: every state     *)
(* machine of the store extends this module.                               *)
(*                                                                         *)
(* A slot is abstracted to what the classifier tells apart.  The six wire  *)
(* fields keep their meaning; `intact' stands for the three checks that    *)
(* look at encodings only (owner hex, checksum hex, checksum equality).    *)
(***************************************************************************)
EXTENDS Integers

CONSTANT MaxSequence  \* u64::MAX: a slot at this sequence is exhausted

ASSUME MaxSequenceAssumption == MaxSequence \in Nat \ {0}

CURRENT_STORAGE_PROTOCOL == 2
CURRENT_EXTRACTION_VERSION == 22

StatePhase == {"building", "current", "uninitialized"}

SlotIndex == {0, 1}

\* An owner identity is this project's or another's, a phase string one of the
\* three or one this binary does not know.
ProjectIdentity == "self"
Owners == {ProjectIdentity, "other", "nobody"}
WirePhase == StatePhase \union {"unknown", "absent", "unreadable"}

\* What the publisher serializes, and what a parsed slot file carries.
WireSlot == [sequence : 0..MaxSequence, protocol : Nat, version : Nat,
             phase : WirePhase, owner : Owners, intact : BOOLEAN]

\* A slot path that names nothing, and one that cannot be read as a slot:
\* unreadable, not a regular file, changed while read, or malformed JSON.
Absent == [sequence |-> 0, protocol |-> 0, version |-> 0,
           phase |-> "absent", owner |-> "nobody", intact |-> FALSE]
Unreadable == [Absent EXCEPT !.phase = "unreadable"]

-----------------------------------------------------------------------------
(* observe / validate_parsed: the outcome of one slot, in the order of the *)
(* code's checks.                                                          *)
SlotOutcome(raw) ==
  CASE raw = Absent -> "absent"
    [] raw = Unreadable -> "unreadable"
    [] OTHER ->
       IF ~raw.intact THEN "damaged"
       ELSE IF raw.owner # ProjectIdentity THEN "ownerMismatch"
       ELSE IF raw.protocol < CURRENT_STORAGE_PROTOCOL THEN "unsupportedProtocol"
       ELSE IF raw.protocol > CURRENT_STORAGE_PROTOCOL THEN "futureProtocol"
       ELSE IF raw.phase \notin StatePhase THEN "unknownPhase"
       ELSE "valid"

Validated(raw) == SlotOutcome(raw) \in {"valid", "futureProtocol"}

Invalid(raw) == SlotOutcome(raw) \notin {"absent", "valid", "futureProtocol"}

(* pick_highest: the slot of the given outcome with the highest sequence,  *)
(* slot 0 on a tie.  Meaningful when some slot has that outcome.           *)
PickHighest(slots, outcome) ==
  IF /\ SlotOutcome(slots[1]) = outcome
     /\ \/ SlotOutcome(slots[0]) # outcome
        \/ slots[1].sequence > slots[0].sequence
  THEN 1 ELSE 0

\* The slot classify_raw selects: a future-protocol slot dominates.
AuthorityIndex(slots) ==
  IF \E i \in SlotIndex : SlotOutcome(slots[i]) = "futureProtocol"
  THEN PickHighest(slots, "futureProtocol")
  ELSE PickHighest(slots, "valid")

\* Mutant: no check for the last sequence number.
RecordStatusUnexhausted(rec) ==
  IF \/ rec.protocol > CURRENT_STORAGE_PROTOCOL
     \/ rec.version > CURRENT_EXTRACTION_VERSION THEN "future"
  ELSE IF rec.version < CURRENT_EXTRACTION_VERSION /\ rec.phase # "uninitialized"
       THEN "outdated"
  ELSE rec.phase

\* The tail of classify_raw: the status of the authoritative record.
RecordStatus(rec) ==
  IF rec.sequence = MaxSequence THEN "corrupt"
  ELSE IF \/ rec.protocol > CURRENT_STORAGE_PROTOCOL
          \/ rec.version > CURRENT_EXTRACTION_VERSION THEN "future"
  ELSE IF rec.version < CURRENT_EXTRACTION_VERSION /\ rec.phase # "uninitialized"
       THEN "outdated"
  ELSE rec.phase

\* classify_raw: the aggregate status of the two slots.
Classify(slots) ==
  IF \E i \in SlotIndex : Invalid(slots[i]) THEN "corrupt"
  ELSE IF \A i \in SlotIndex : slots[i] = Absent THEN "missing"
  ELSE IF /\ \A i \in SlotIndex : Validated(slots[i])
          /\ slots[0].sequence = slots[1].sequence THEN "corrupt"
  ELSE RecordStatus(slots[AuthorityIndex(slots)])

\* IndexStateClassification::authoritative, Absent when there is none.
Authority(slots) ==
  IF \/ \E i \in SlotIndex : Invalid(slots[i])
     \/ \A i \in SlotIndex : slots[i] = Absent
     \/ /\ \A i \in SlotIndex : Validated(slots[i])
        /\ slots[0].sequence = slots[1].sequence
  THEN Absent
  ELSE slots[AuthorityIndex(slots)]

-----------------------------------------------------------------------------
(* The publisher's pure parts.                                             *)

\* validate_transition, after the refusal of Future and Corrupt.
TransitionAllowed(status, phase) ==
  \/ status = "missing" /\ phase = "building"
  \/ status \in {"outdated", "uninitialized", "current"}
       /\ phase \in {"building", "uninitialized"}
  \/ status = "building" /\ phase \in StatePhase

\* Mutant: the successor replaces the record it succeeds.
SuccessorSlotInPlace(slots) ==
  IF Classify(slots) = "missing" THEN 0 ELSE AuthorityIndex(slots)

\* The fixed slot that receives the successor record.
SuccessorSlot(slots) ==
  IF Classify(slots) = "missing" THEN 0 ELSE 1 - AuthorityIndex(slots)

\* Mutant: the sequence number is not advanced.
SuccessorSequenceRepeated(slots) ==
  IF Classify(slots) = "missing" THEN 0
  ELSE slots[AuthorityIndex(slots)].sequence

SuccessorSequence(slots) ==
  IF Classify(slots) = "missing" THEN 0
  ELSE slots[AuthorityIndex(slots)].sequence + 1

\* The record the publisher writes for `phase': always this binary's protocol,
\* extraction version and owner, with a matching checksum.
Successor(slots, phase) ==
  [sequence |-> SuccessorSequence(slots), protocol |-> CURRENT_STORAGE_PROTOCOL,
   version |-> CURRENT_EXTRACTION_VERSION, phase |-> phase,
   owner |-> ProjectIdentity, intact |-> TRUE]

\* The check on the inactive slot: absent, or valid and older.
InactiveSlotReplaceable(slots) ==
  LET target == slots[SuccessorSlot(slots)]
  IN \/ target = Absent
     \/ /\ SlotOutcome(target) = "valid"
        /\ target.sequence < SuccessorSequence(slots)

\* Everything publish_index_state checks before its first file operation.
Publishable(slots, phase) ==
  /\ Classify(slots) \notin {"future", "corrupt"}
  /\ TransitionAllowed(Classify(slots), phase)
  /\ InactiveSlotReplaceable(slots)

=============================================================================
