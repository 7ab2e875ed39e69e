-------------------------- MODULE IndexStateProofs --------------------------
(***************************************************************************)
(* What the classifier and the publisher's choice of slot and sequence do  *)
(* to each other: lemmas about the operators of IndexState, for any pair   *)
(* of slots.                                                               *)
(***************************************************************************)
EXTENDS IndexState, TLAPS

SlotPairs == [SlotIndex -> WireSlot]

\* The pair after the inactive slot is cleared, and after the successor record
\* is put there.
Cleared(s) == [s EXCEPT ![SuccessorSlot(s)] = Absent]
Replaced(s, phase) == [s EXCEPT ![SuccessorSlot(s)] = Successor(s, phase)]

LEMMA AbsentTyped == Absent \in WireSlot
BY MaxSequenceAssumption DEF Absent, WireSlot, WirePhase, Owners

LEMMA SlotChoiceTyped ==
  ASSUME NEW s
  PROVE  AuthorityIndex(s) \in SlotIndex /\ SuccessorSlot(s) \in SlotIndex
BY DEF AuthorityIndex, PickHighest, SuccessorSlot, SlotIndex

\* A successor is never taken for an absent or unreadable slot, and is valid.
LEMMA SuccessorValid ==
  ASSUME NEW s, NEW phase \in StatePhase
  PROVE  SlotOutcome(Successor(s, phase)) = "valid"
BY DEF SlotOutcome, Successor, Absent, Unreadable, StatePhase, CURRENT_STORAGE_PROTOCOL, ProjectIdentity

\* The outcome names what the later checks need of a slot.
LEMMA OutcomeFacts ==
  ASSUME NEW r
  PROVE  /\ SlotOutcome(r) = "absent" <=> r = Absent
         /\ SlotOutcome(r) = "futureProtocol" => r.protocol > CURRENT_STORAGE_PROTOCOL
BY DEF SlotOutcome, Absent, Unreadable, CURRENT_STORAGE_PROTOCOL

\* Missing means that no slot file is there.
LEMMA MissingSlots ==
  ASSUME NEW s \in SlotPairs, Classify(s) = "missing"
  PROVE  s[0] = Absent /\ s[1] = Absent
<1>1. s[AuthorityIndex(s)].phase \in WirePhase
  BY SlotChoiceTyped DEF SlotPairs, WireSlot
<1>2. RecordStatus(s[AuthorityIndex(s)]) # "missing"
  BY <1>1 DEF RecordStatus, WirePhase, StatePhase
<1> QED
  BY <1>2 DEF Classify, SlotIndex

\* What a status other than Missing, Corrupt and Future says about the slots:
\* the authority is valid and below the last sequence number, the other slot is
\* absent or valid and older.
LEMMA Authoritative ==
  ASSUME NEW s \in SlotPairs, Classify(s) \notin {"missing", "corrupt", "future"}
  PROVE  LET a == AuthorityIndex(s)
         IN /\ SlotOutcome(s[a]) = "valid"
            /\ s[a].sequence < MaxSequence
            /\ \/ s[1 - a] = Absent
               \/ SlotOutcome(s[1 - a]) = "valid" /\ s[1 - a].sequence < s[a].sequence
            /\ Classify(s) = RecordStatus(s[a])
<1>1. s[0] \in WireSlot /\ s[1] \in WireSlot
  BY DEF SlotPairs, SlotIndex
<1>2. /\ SlotOutcome(s[0]) \in {"absent", "valid", "futureProtocol"}
      /\ SlotOutcome(s[1]) \in {"absent", "valid", "futureProtocol"}
      /\ s[0] # Absent \/ s[1] # Absent
      /\ Validated(s[0]) /\ Validated(s[1]) => s[0].sequence # s[1].sequence
      /\ Classify(s) = RecordStatus(s[AuthorityIndex(s)])
  BY DEF Classify, Invalid, SlotIndex
<1>3. /\ SlotOutcome(s[0]) # "futureProtocol"
      /\ SlotOutcome(s[1]) # "futureProtocol"
  <2>1. ASSUME NEW i \in SlotIndex, SlotOutcome(s[i]) = "futureProtocol"
        PROVE SlotOutcome(s[AuthorityIndex(s)]) = "futureProtocol"
    BY <2>1 DEF AuthorityIndex, PickHighest, SlotIndex
  <2>2. SlotOutcome(s[AuthorityIndex(s)]) # "futureProtocol"
    BY <1>2, OutcomeFacts DEF RecordStatus
  <2> QED
    BY <2>1, <2>2 DEF SlotIndex
<1>4. AuthorityIndex(s) = IF SlotOutcome(s[1]) = "valid" /\ (SlotOutcome(s[0]) # "valid"
                               \/ s[1].sequence > s[0].sequence) THEN 1 ELSE 0
  BY <1>3 DEF AuthorityIndex, PickHighest, SlotIndex
<1>5. s[0].sequence \in 0..MaxSequence /\ s[1].sequence \in 0..MaxSequence
  BY <1>1 DEF WireSlot
<1>6. s[AuthorityIndex(s)].sequence # MaxSequence
  BY <1>2 DEF RecordStatus
<1> QED
  BY <1>2, <1>3, <1>4, <1>5, <1>6, OutcomeFacts, MaxSequenceAssumption DEF Validated

\* The authoritative record of such a pair, and of a Missing one.
LEMMA AuthorityFacts ==
  ASSUME NEW s \in SlotPairs, Classify(s) \notin {"corrupt", "future"}
  PROVE  /\ Classify(s) = "missing" => Authority(s) = Absent
         /\ Classify(s) # "missing" => /\ Authority(s) = s[AuthorityIndex(s)]
                                      /\ Authority(s) # Absent
                                      /\ Classify(s) = RecordStatus(Authority(s))
<1>1. CASE Classify(s) = "missing"
  BY <1>1, MissingSlots DEF Authority, SlotIndex
<1>2. CASE Classify(s) # "missing"
  <2> DEFINE a == AuthorityIndex(s)
  <2>1. /\ SlotOutcome(s[a]) = "valid"
        /\ \/ s[1 - a] = Absent
           \/ SlotOutcome(s[1 - a]) = "valid" /\ s[1 - a].sequence < s[a].sequence
        /\ Classify(s) = RecordStatus(s[a])
        /\ a \in SlotIndex
    BY <1>2, Authoritative, SlotChoiceTyped
  <2>2. s[a] # Absent
    BY <2>1, OutcomeFacts
  <2>3. SlotOutcome(s[1 - a]) \in {"absent", "valid"}
    BY <2>1, OutcomeFacts
  <2>4. s[0].sequence \in Int /\ s[1].sequence \in Int
    BY DEF SlotPairs, SlotIndex, WireSlot
  <2>5. /\ \A i \in SlotIndex : ~Invalid(s[i])
        /\ ~ \A i \in SlotIndex : s[i] = Absent
        /\ (\A i \in SlotIndex : Validated(s[i])) => s[0].sequence # s[1].sequence
    BY <2>1, <2>2, <2>3, <2>4, OutcomeFacts DEF Invalid, Validated, SlotIndex
  <2> QED
    BY <1>2, <2>1, <2>2, <2>5 DEF Authority
<1> QED
  BY <1>1, <1>2

\* Clearing the inactive slot before the rename changes nothing a reader or the
\* publisher's own choices can see.
LEMMA ClearedKeeps ==
  ASSUME NEW s \in SlotPairs, NEW phase, Publishable(s, phase)
  PROVE  /\ Cleared(s) \in SlotPairs
         /\ Classify(Cleared(s)) = Classify(s)
         /\ Authority(Cleared(s)) = Authority(s)
         /\ SuccessorSlot(Cleared(s)) = SuccessorSlot(s)
         /\ SuccessorSequence(Cleared(s)) = SuccessorSequence(s)
         /\ Cleared(s)[SuccessorSlot(s)] = Absent
<1> DEFINE a == AuthorityIndex(s)
           t == Cleared(s)
<1>1. t \in SlotPairs /\ SuccessorSlot(s) \in SlotIndex
  BY AbsentTyped, SlotChoiceTyped DEF Cleared, SlotPairs
<1>2. t[SuccessorSlot(s)] = Absent
  BY <1>1 DEF Cleared, SlotPairs
<1>3. CASE Classify(s) = "missing"
  <2>1. s[0] = Absent /\ s[1] = Absent
    BY <1>3, MissingSlots
  <2>2. t = s
    BY <2>1 DEF Cleared, SlotPairs, SlotIndex
  <2> QED
    BY <1>1, <1>2, <2>2
<1>4. CASE Classify(s) # "missing"
  <2>1. Classify(s) \notin {"missing", "corrupt", "future"}
    BY <1>4 DEF Publishable
  <2>2. /\ SlotOutcome(s[a]) = "valid"
        /\ Classify(s) = RecordStatus(s[a])
        /\ a \in SlotIndex
        /\ SuccessorSlot(s) = 1 - a
    BY <2>1, Authoritative, SlotChoiceTyped DEF SuccessorSlot
  <2>3. t[a] = s[a] /\ t[1 - a] = Absent
    BY <2>2, <1>1 DEF Cleared, SlotPairs, SlotIndex
  <2>4. AuthorityIndex(t) = a
    BY <2>2, <2>3, OutcomeFacts DEF AuthorityIndex, PickHighest, SlotIndex
  <2>5. SlotOutcome(t[a]) = "valid" /\ SlotOutcome(t[1 - a]) = "absent" /\ t[a] # Absent
    BY <2>2, <2>3, OutcomeFacts
  <2>6. Classify(t) = RecordStatus(t[a])
    BY <2>2, <2>4, <2>5 DEF Classify, Invalid, Validated, SlotIndex
  <2>7. Authority(t) = t[a] /\ Authority(s) = s[a]
    BY <1>1, <2>1, <2>2, <2>3, <2>4, <2>6, AuthorityFacts
  <2> QED
    BY <1>1, <1>2, <2>1, <2>2, <2>3, <2>4, <2>6, <2>7 DEF SuccessorSlot, SuccessorSequence
<1> QED
  BY <1>3, <1>4

\* Renaming the successor into the cleared slot makes it the authority: the
\* status becomes the published phase, or Corrupt once sequences run out.
LEMMA ReplacedPublishes ==
  ASSUME NEW s \in SlotPairs, NEW phase \in StatePhase,
         Classify(s) \notin {"corrupt", "future"}, s[SuccessorSlot(s)] = Absent
  PROVE  /\ Replaced(s, phase) \in SlotPairs
         /\ Successor(s, phase) \in WireSlot
         /\ Authority(Replaced(s, phase)) = Successor(s, phase)
         /\ Classify(Replaced(s, phase)) \in {phase, "corrupt"}
         /\ Replaced(s, phase)[SuccessorSlot(s)].sequence < MaxSequence
              => Classify(Replaced(s, phase)) = phase
<1> DEFINE b == SuccessorSlot(s)
           n == Successor(s, phase)
           t == Replaced(s, phase)
<1>1. b \in SlotIndex
  BY SlotChoiceTyped
<1>2. /\ n.sequence \in 0..MaxSequence
      /\ \/ s[1 - b] = Absent
         \/ SlotOutcome(s[1 - b]) = "valid" /\ s[1 - b].sequence < n.sequence
  <2>1. CASE Classify(s) = "missing"
    <3>1. s[1 - b] = Absent
      BY <2>1, <1>1, MissingSlots DEF SlotIndex
    <3>2. n.sequence = 0
      BY <2>1 DEF Successor, SuccessorSequence
    <3> QED
      BY <3>1, <3>2, MaxSequenceAssumption
  <2>2. CASE Classify(s) # "missing"
    <3> DEFINE a == AuthorityIndex(s)
    <3>1. /\ SlotOutcome(s[a]) = "valid" /\ s[a].sequence < MaxSequence
          /\ a \in SlotIndex /\ b = 1 - a
      BY <2>2, Authoritative, SlotChoiceTyped DEF SuccessorSlot
    <3>2. s[a].sequence \in 0..MaxSequence
      BY <3>1 DEF SlotPairs, WireSlot
    <3>3. n.sequence = s[a].sequence + 1
      BY <2>2 DEF Successor, SuccessorSequence
    <3>4. 1 - b = a
      BY <3>1 DEF SlotIndex
    <3> QED
      BY <3>1, <3>2, <3>3, <3>4, MaxSequenceAssumption
  <2> QED
    BY <2>1, <2>2
<1>3. n \in WireSlot
  BY <1>2 DEF Successor, WireSlot, WirePhase, Owners, CURRENT_STORAGE_PROTOCOL,
              CURRENT_EXTRACTION_VERSION
<1>4. t \in SlotPairs /\ t[b] = n /\ t[1 - b] = s[1 - b]
  BY <1>1, <1>3 DEF Replaced, SlotPairs, SlotIndex
<1>5. SlotOutcome(t[b]) = "valid" /\ t[b] # Absent
  BY <1>4, SuccessorValid, OutcomeFacts
<1>6. /\ SlotOutcome(t[1 - b]) \in {"absent", "valid"}
      /\ SlotOutcome(t[1 - b]) = "valid" => t[1 - b].sequence < t[b].sequence
  BY <1>2, <1>4, OutcomeFacts
<1>7. t[0].sequence \in Int /\ t[1].sequence \in Int
  BY <1>4 DEF SlotPairs, SlotIndex, WireSlot
<1>8. AuthorityIndex(t) = b
  BY <1>1, <1>5, <1>6, <1>7 DEF AuthorityIndex, PickHighest, SlotIndex
<1>9. Classify(t) = RecordStatus(n)
  BY <1>1, <1>4, <1>5, <1>6, <1>7, <1>8 DEF Classify, Invalid, Validated, SlotIndex
<1>10. RecordStatus(n) = IF n.sequence = MaxSequence THEN "corrupt" ELSE phase
  BY DEF RecordStatus, Successor, CURRENT_STORAGE_PROTOCOL, CURRENT_EXTRACTION_VERSION
<1>11. t[b].sequence < MaxSequence => n.sequence # MaxSequence
  BY <1>2, <1>4, MaxSequenceAssumption
<1>12. Authority(t) = n
  BY <1>1, <1>4, <1>5, <1>6, <1>7, <1>8 DEF Authority, Invalid, Validated, SlotIndex
<1> QED
  BY <1>3, <1>4, <1>9, <1>10, <1>11, <1>12

\* A pair whose files are all valid, with distinct sequence numbers, is Corrupt
\* only when its authority has the last one.
LEMMA ValidPairSound ==
  ASSUME NEW s \in SlotPairs,
         \A i \in SlotIndex : s[i] = Absent \/ SlotOutcome(s[i]) = "valid",
         s[0] # Absent /\ s[1] # Absent => s[0].sequence # s[1].sequence
  PROVE  Classify(s) # "corrupt" \/ Authority(s).sequence = MaxSequence
<1>1. \A i \in SlotIndex : ~Invalid(s[i]) /\ (Validated(s[i]) => s[i] # Absent)
  BY OutcomeFacts DEF Invalid, Validated
<1>2. CASE \A i \in SlotIndex : s[i] = Absent
  BY <1>1, <1>2 DEF Classify
<1>3. CASE ~ \A i \in SlotIndex : s[i] = Absent
  <2> DEFINE r == s[AuthorityIndex(s)]
  <2>1. ~ ((\A i \in SlotIndex : Validated(s[i])) /\ s[0].sequence = s[1].sequence)
    BY <1>1 DEF SlotIndex
  <2>2. Classify(s) = RecordStatus(r) /\ Authority(s) = r
    BY <1>1, <1>3, <2>1 DEF Classify, Authority
  <2>3. r.phase \in WirePhase
    BY SlotChoiceTyped DEF SlotPairs, WireSlot
  <2>4. RecordStatus(r) # "corrupt" \/ r.sequence = MaxSequence
    BY <2>3 DEF RecordStatus, WirePhase, StatePhase
  <2> QED
    BY <2>2, <2>4
<1> QED
  BY <1>2, <1>3

\* Publication is sound whatever two slots it finds: where the checks of
\* publish_index_state admit a phase, unlinking the inactive slot changes
\* neither authority nor status, the rename makes the successor the authority,
\* and the namespace has the published phase unless the last sequence number is
\* used up.
THEOREM PublicationSound ==
  ASSUME NEW s \in SlotPairs, NEW phase \in StatePhase, Publishable(s, phase)
  PROVE  LET t == Replaced(Cleared(s), phase)
         IN /\ Authority(Cleared(s)) = Authority(s) /\ Classify(Cleared(s)) = Classify(s)
            /\ Authority(t) = Successor(s, phase)
            /\ Classify(t) = phase \/ Authority(t).sequence = MaxSequence
<1> DEFINE c == Cleared(s)
           t == Replaced(c, phase)
<1>1. /\ c \in SlotPairs /\ Classify(c) = Classify(s) /\ Authority(c) = Authority(s)
      /\ SuccessorSlot(c) = SuccessorSlot(s) /\ SuccessorSequence(c) = SuccessorSequence(s)
      /\ c[SuccessorSlot(s)] = Absent
  BY ClearedKeeps
<1>2. Classify(c) \notin {"corrupt", "future"}
  BY <1>1 DEF Publishable
<1>3. /\ t \in SlotPairs /\ Authority(t) = Successor(c, phase)
      /\ t[SuccessorSlot(c)].sequence < MaxSequence => Classify(t) = phase
  BY <1>1, <1>2, ReplacedPublishes
<1>4. Successor(c, phase) = Successor(s, phase)
  BY <1>1 DEF Successor
<1>5. t[SuccessorSlot(c)] = Authority(t)
  BY <1>1, <1>3, SlotChoiceTyped DEF Replaced, SlotPairs
<1>6. t[SuccessorSlot(c)].sequence \in 0..MaxSequence
  BY <1>3, SlotChoiceTyped DEF SlotPairs, WireSlot
<1>7. Classify(t) = phase \/ Authority(t).sequence = MaxSequence
  BY <1>3, <1>5, <1>6, MaxSequenceAssumption
<1> QED
  BY <1>1, <1>3, <1>4, <1>7

\* What the authority is meant to be: a slot that validates and outranks the
\* other, which is absent, older, or of this protocol while it is of a later one.
Outranks(s, i) ==
  /\ Validated(s[i])
  /\ \/ s[1 - i] = Absent
     \/ SlotOutcome(s[i]) = "futureProtocol" /\ SlotOutcome(s[1 - i]) = "valid"
     \/ SlotOutcome(s[i]) = SlotOutcome(s[1 - i]) /\ s[1 - i].sequence < s[i].sequence

\* classify_raw selects by rank: an authority outranks the other slot, and
\* whenever there is a slot that does, and the two do not carry the same number,
\* that slot is the authority.
THEOREM AuthorityOutranks ==
  ASSUME NEW s \in SlotPairs
  PROVE  /\ Authority(s) # Absent => \E i \in SlotIndex : Outranks(s, i) /\ Authority(s) = s[i]
         /\ \A i \in SlotIndex :
              Outranks(s, i) /\ (s[1 - i] = Absent \/ s[0].sequence # s[1].sequence)
                => Authority(s) = s[i]
<1>1. /\ s[0].sequence \in Int /\ s[1].sequence \in Int
      /\ \A i \in SlotIndex : SlotOutcome(s[i]) = "absent" <=> s[i] = Absent
  BY OutcomeFacts DEF SlotPairs, SlotIndex, WireSlot
<1>2. ASSUME Authority(s) # Absent
      PROVE  \E i \in SlotIndex : Outranks(s, i) /\ Authority(s) = s[i]
  <2>1. /\ \A i \in SlotIndex : SlotOutcome(s[i]) \in {"absent", "valid", "futureProtocol"}
        /\ \E i \in SlotIndex : s[i] # Absent
        /\ Validated(s[0]) /\ Validated(s[1]) => s[0].sequence # s[1].sequence
        /\ Authority(s) = s[AuthorityIndex(s)]
    BY <1>2 DEF Authority, Invalid, SlotIndex
  <2>2. Outranks(s, AuthorityIndex(s))
    BY <1>1, <2>1 DEF AuthorityIndex, PickHighest, Outranks, Validated, SlotIndex
  <2> QED
    BY <2>1, <2>2, SlotChoiceTyped
<1>3. ASSUME NEW i \in SlotIndex, Outranks(s, i),
             s[1 - i] = Absent \/ s[0].sequence # s[1].sequence
      PROVE  Authority(s) = s[i]
  <2>1. /\ \A j \in SlotIndex : ~Invalid(s[j])
        /\ ~ \A j \in SlotIndex : s[j] = Absent
        /\ ~ ((\A j \in SlotIndex : Validated(s[j])) /\ s[0].sequence = s[1].sequence)
    BY <1>1, <1>3 DEF Outranks, Validated, Invalid, SlotIndex
  <2>2. AuthorityIndex(s) = i
    BY <1>1, <1>3 DEF AuthorityIndex, PickHighest, Outranks, Validated, SlotIndex
  <2> QED
    BY <2>1, <2>2 DEF Authority
<1> QED
  BY <1>2, <1>3

=============================================================================
