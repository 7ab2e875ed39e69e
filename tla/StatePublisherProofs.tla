------------------------ MODULE StatePublisherProofs ------------------------
(***************************************************************************)
(* StatePublisher, proved for any number of readers, any slots found on    *)
(* disk, any outcome of the directory sync, and, but for the refinement,   *)
(* any order in which the directory persists its operations.               *)
(*                                                                         *)
(* The invariant has five parts besides the types: who holds the lease,    *)
(* what the running publication has established, what a leased reader has  *)
(* seen, which pairs a power loss may leave, and that a settled namespace  *)
(* has nothing unsynced but the running publication.                       *)
(***************************************************************************)
EXTENDS StatePublisher, IndexStateProofs

-----------------------------------------------------------------------------
(* The inductive invariant.                                                *)

\* A publication runs under the exclusive lease, a leased reader under the
\* shared one.
LeaseInv ==
  /\ step # "idle" => lease = "exclusive"
  /\ \A r \in Readers : reader[r].leased => lease = "shared"

\* Up to the rename the pre-checks of publish_index_state still hold of the
\* slots, and record and target are still what they chose.
Preparing == {"createTemp", "writeTemp", "syncTemp", "prepareInactive", "renameTemp"}

PreparingInv ==
  step \in Preparing =>
    /\ record.phase \in StatePhase
    /\ Publishable(slots, record.phase)
    /\ record = Successor(slots, record.phase)
    /\ target = SuccessorSlot(slots)
    /\ step \in {"prepareInactive", "renameTemp"} => tempSynced
    /\ step = "renameTemp" => slots[target] = Absent

\* What a leased reader has read of a slot is still there.
SeenInv ==
  \A r \in Readers : reader[r].leased =>
    /\ reader[r].at \in {"check0", "open1", "check1", "done"} => seen[r][0] = slots[0]
    /\ reader[r].at \in {"check1", "done"} => seen[r][1] = slots[1]

\* Every file of the pair is valid and no newer than `top'.
ValidUpTo(s, top) ==
  \A i \in SlotIndex :
    s[i] = Absent \/ (SlotOutcome(s[i]) = "valid" /\ s[i].sequence <= top)

\* The pairs of L are built from files that the publisher validated or wrote,
\* and no file of one slot shares its sequence number with one of the other.
Sound(L, top) ==
  /\ \A s \in L : ValidUpTo(s, top)
  /\ \A s, t \in L : s[0] # Absent /\ t[1] # Absent => s[0].sequence # t[1].sequence

LimboInv ==
  /\ slots \in limbo
  /\ \/ limbo = {slots}
     \/ /\ Authority(slots) # Absent
        /\ Sound(limbo, Authority(slots).sequence)

SettledInv ==
  settled =>
    /\ step \notin {"renameTemp", "syncParent"} => limbo = {slots}
    /\ step = "renameTemp" =>
         \A s \in limbo : /\ [s EXCEPT ![target] = Absent] = slots
                          /\ Authority(s) = Authority(slots)

PublisherInv ==
  /\ TypeOK /\ LeaseInv /\ PreparingInv /\ SeenInv /\ LimboInv /\ SettledInv
  /\ PublishedIsAuthoritative /\ PowerLossKeepsAuthority

-----------------------------------------------------------------------------
(* Publication.                                                            *)

\* A file that cannot be read is a slot too.
LEMMA UnreadableTyped == Unreadable \in WireSlot
BY AbsentTyped, MaxSequenceAssumption DEF Unreadable, Absent, WireSlot, WirePhase, Owners

\* What the pre-checks establish of a pair: it has an authority, below the last
\* sequence number, that the successor follows, or it is Missing.
LEMMA PublishableFacts ==
  ASSUME NEW s \in SlotPairs, NEW phase \in StatePhase, Publishable(s, phase)
  PROVE  /\ Successor(s, phase) \in WireSlot
         /\ SuccessorSlot(s) \in SlotIndex
         /\ Classify(s) = "missing" =>
              /\ Authority(s) = Absent /\ s[0] = Absent /\ s[1] = Absent
              /\ Successor(s, phase).sequence = 0
         /\ Classify(s) # "missing" =>
              /\ Authority(s) # Absent
              /\ Authority(s) = s[1 - SuccessorSlot(s)]
              /\ Authority(s).sequence \in 0..MaxSequence
              /\ Successor(s, phase).sequence = Authority(s).sequence + 1
              /\ Sound({s}, Authority(s).sequence)
<1>1. SuccessorSlot(s) \in SlotIndex /\ AuthorityIndex(s) \in SlotIndex
  BY SlotChoiceTyped
<1>2. Classify(s) \notin {"corrupt", "future"}
  BY DEF Publishable
<1>3. /\ Cleared(s) \in SlotPairs
      /\ Classify(Cleared(s)) \notin {"corrupt", "future"}
      /\ Cleared(s)[SuccessorSlot(Cleared(s))] = Absent
      /\ SuccessorSequence(Cleared(s)) = SuccessorSequence(s)
  BY <1>2, ClearedKeeps
<1>4. Successor(Cleared(s), phase) \in WireSlot
  BY <1>3, ReplacedPublishes
<1>5. Successor(s, phase) \in WireSlot
  BY <1>3, <1>4 DEF Successor
<1>6. ASSUME Classify(s) = "missing"
      PROVE  /\ Authority(s) = Absent /\ s[0] = Absent /\ s[1] = Absent
             /\ Successor(s, phase).sequence = 0
  BY <1>2, <1>6, AuthorityFacts, MissingSlots DEF Successor, SuccessorSequence
<1>7. ASSUME Classify(s) # "missing"
      PROVE  /\ Authority(s) # Absent
             /\ Authority(s) = s[1 - SuccessorSlot(s)]
             /\ Authority(s).sequence \in 0..MaxSequence
             /\ Successor(s, phase).sequence = Authority(s).sequence + 1
             /\ Sound({s}, Authority(s).sequence)
  <2> DEFINE a == AuthorityIndex(s)
  <2>1. /\ SlotOutcome(s[a]) = "valid"
        /\ \/ s[1 - a] = Absent
           \/ SlotOutcome(s[1 - a]) = "valid" /\ s[1 - a].sequence < s[a].sequence
    BY <1>2, <1>7, Authoritative
  <2>2. Authority(s) = s[a] /\ Authority(s) # Absent
    BY <1>2, <1>7, AuthorityFacts
  <2>3. 1 - SuccessorSlot(s) = a
    BY <1>1, <1>7 DEF SuccessorSlot, SlotIndex
  <2>4. s[0].sequence \in 0..MaxSequence /\ s[1].sequence \in 0..MaxSequence
    BY DEF SlotPairs, SlotIndex, WireSlot
  <2>5. a = 0 \/ a = 1
    BY <1>1 DEF SlotIndex
  <2>6. ValidUpTo(s, s[a].sequence)
    BY <2>1, <2>4, <2>5, MaxSequenceAssumption DEF ValidUpTo, SlotIndex
  <2>7. s[0] # Absent /\ s[1] # Absent => s[0].sequence # s[1].sequence
    BY <2>1, <2>4, <2>5
  <2>8. Sound({s}, s[a].sequence)
    BY <2>6, <2>7 DEF Sound
  <2>9. Successor(s, phase).sequence = s[a].sequence + 1
    BY <1>7 DEF Successor, SuccessorSequence
  <2>10. s[a].sequence \in 0..MaxSequence
    BY <2>4, <2>5
  <2> QED
    BY <2>2, <2>3, <2>8, <2>9, <2>10
<1> QED
  BY <1>1, <1>5, <1>6, <1>7

\* Clearing the inactive slot leaves the pre-checks, the record and the target
\* of the running publication as they were.
LEMMA ClearStep ==
  ASSUME NEW s \in SlotPairs, NEW phase \in StatePhase, Publishable(s, phase)
  PROVE  /\ Cleared(s) \in SlotPairs
         /\ Publishable(Cleared(s), phase)
         /\ Successor(Cleared(s), phase) = Successor(s, phase)
         /\ SuccessorSlot(Cleared(s)) = SuccessorSlot(s)
         /\ Cleared(s)[SuccessorSlot(s)] = Absent
         /\ Classify(Cleared(s)) = Classify(s)
         /\ Authority(Cleared(s)) = Authority(s)
BY ClearedKeeps DEF Publishable, InactiveSlotReplaceable, Successor

-----------------------------------------------------------------------------
(* The directory.                                                          *)

\* Every pair of M is one of L with slot i replaced.
Differ(M, L, i, raw) == \A m \in M : \E s \in L : m = [s EXCEPT ![i] = raw]

\* Issuing an operation on slot i adds pairs that differ there only, the
\* visible one among them.
LEMMA IssuedPairs ==
  ASSUME limbo \in SUBSET SlotPairs, slots \in limbo,
         NEW i \in SlotIndex, NEW raw \in WireSlot
  PROVE  \E M \in SUBSET SlotPairs :
           /\ Issued(i, raw) = limbo \union M
           /\ [slots EXCEPT ![i] = raw] \in M
           /\ Differ(M, limbo, i, raw)
<1>1. \A s \in SlotPairs : [s EXCEPT ![i] = raw] \in SlotPairs
  BY DEF SlotPairs
<1>2. CASE OrderedDirectory
  <2> DEFINE M == {[slots EXCEPT ![i] = raw]}
  <2>1. M \in SUBSET SlotPairs
    BY <1>1
  <2>2. /\ Issued(i, raw) = limbo \union M
        /\ [slots EXCEPT ![i] = raw] \in M
        /\ Differ(M, limbo, i, raw)
    BY <1>2 DEF Issued, Differ
  <2> HIDE DEF M
  <2> QED
    BY <2>1, <2>2
<1>3. CASE ~OrderedDirectory
  <2> DEFINE M == {[s EXCEPT ![i] = raw] : s \in limbo}
  <2>1. M \in SUBSET SlotPairs
    BY <1>1
  <2>2. /\ Issued(i, raw) = limbo \union M
        /\ [slots EXCEPT ![i] = raw] \in M
        /\ Differ(M, limbo, i, raw)
    BY <1>3 DEF Issued, Differ
  <2> HIDE DEF M
  <2> QED
    BY <2>1, <2>2
<1> QED
  BY <1>2, <1>3

\* Pairs that take nothing, or a newer valid record, in one slot and a file
\* already known in the other leave the set sound.
LEMMA SoundExtends ==
  ASSUME NEW L \in SUBSET SlotPairs, NEW M \in SUBSET SlotPairs,
         NEW top \in Int, NEW high \in Int, NEW rec, NEW i \in SlotIndex,
         Sound(L, top),
         \/ rec = Absent /\ high = top
         \/ SlotOutcome(rec) = "valid" /\ rec.sequence = high /\ high > top,
         Differ(M, L, i, rec)
  PROVE  Sound(L \union M, high)
<1>1. \A m \in M : m[i] = rec /\ \E s \in L : m[1 - i] = s[1 - i]
  BY DEF Differ, SlotPairs, SlotIndex
<1>2. i = 0 \/ i = 1
  BY DEF SlotIndex
<1>3. \A s \in L \union M : s[0].sequence \in Int /\ s[1].sequence \in Int
  BY DEF SlotPairs, SlotIndex, WireSlot
<1>4. \A s \in L : /\ s[0] = Absent \/ (SlotOutcome(s[0]) = "valid" /\ s[0].sequence <= top)
                   /\ s[1] = Absent \/ (SlotOutcome(s[1]) = "valid" /\ s[1].sequence <= top)
  BY DEF Sound, ValidUpTo, SlotIndex
<1>5. ASSUME NEW s \in L \union M
      PROVE  /\ s[i] = Absent \/ (SlotOutcome(s[i]) = "valid" /\ s[i].sequence <= high)
             /\ s[1 - i] = Absent
                  \/ (SlotOutcome(s[1 - i]) = "valid" /\ s[1 - i].sequence <= top)
             /\ \/ \E u \in L : u[i] = s[i]
                \/ s[i] = rec
             /\ \E u \in L : u[1 - i] = s[1 - i]
  <2>1. CASE s \in L
    BY <1>2, <1>3, <1>4, <2>1
  <2>2. CASE s \in M
    <3>1. PICK u \in L : s[1 - i] = u[1 - i]
      BY <1>1, <2>2
    <3>2. s[i] = rec
      BY <1>1, <2>2
    <3>3. rec = Absent \/ (SlotOutcome(rec) = "valid" /\ rec.sequence <= high)
      BY <1>3
    <3>4. s[1 - i] = Absent
            \/ (SlotOutcome(s[1 - i]) = "valid" /\ s[1 - i].sequence <= top)
      BY <1>2, <1>4, <3>1
    <3> QED
      BY <3>1, <3>2, <3>3, <3>4
  <2> QED
    BY <2>1, <2>2
<1>6. ASSUME NEW s \in L \union M
      PROVE  ValidUpTo(s, high)
  BY <1>2, <1>3, <1>5 DEF ValidUpTo, SlotIndex
<1>7. ASSUME NEW s \in L \union M, NEW t \in L \union M,
             s[i] # Absent, t[1 - i] # Absent
      PROVE  s[i].sequence # t[1 - i].sequence
  <2>1. PICK v \in L : v[1 - i] = t[1 - i]
    BY <1>5
  <2>2. v[1 - i].sequence <= top
    BY <1>7, <1>5, <2>1
  <2>3. CASE \E u \in L : u[i] = s[i]
    <3>1. PICK u \in L : u[i] = s[i]
      BY <2>3
    <3>2. u[i].sequence # v[1 - i].sequence
      BY <1>2, <1>7, <2>1, <3>1 DEF Sound
    <3> QED
      BY <2>1, <3>1, <3>2
  <2>4. CASE s[i] = rec
    <3>1. CASE rec = Absent
      BY <1>7, <2>4, <3>1
    <3>2. CASE rec.sequence = high /\ high > top
      <4>1. v[1 - i].sequence \in Int
        BY <1>2, <1>3
      <4> QED
        BY <2>1, <2>2, <2>4, <3>2, <4>1
    <3> QED
      BY <3>1, <3>2
  <2> QED
    BY <1>5, <2>3, <2>4
<1>8. ASSUME NEW s \in L \union M, NEW t \in L \union M,
             s[0] # Absent, t[1] # Absent
      PROVE  s[0].sequence # t[1].sequence
  <2>1. CASE i = 0
    BY <1>7, <1>8, <2>1
  <2>2. CASE i = 1
    <3>1. t[i] # Absent /\ s[1 - i] # Absent
      BY <1>8, <2>2
    <3>2. t[i].sequence # s[1 - i].sequence
      BY <1>7, <3>1
    <3> QED
      BY <2>2, <3>2
  <2> QED
    BY <1>2, <2>1, <2>2
<1> QED
  BY <1>6, <1>8 DEF Sound

-----------------------------------------------------------------------------
(* The invariant holds initially and is preserved.                         *)

\* Whatever pair the program starts from satisfies the invariant.
LEMMA InitInv == Init => PublisherInv
<1> SUFFICES ASSUME Init PROVE PublisherInv
  OBVIOUS
<1>1. slots \in SlotPairs
  BY StatePublisherAssumption DEF Init, SlotPairs
<1>2. NothingSeen \in SlotPairs
  BY AbsentTyped DEF NothingSeen, SlotPairs
<1>3. reader \in [Readers -> [at : ReaderSteps, leased : BOOLEAN]]
  BY DEF Init, ReaderSteps
<1>4. seen \in [Readers -> SlotPairs]
  BY <1>2 DEF Init
<1>5. TypeOK
  BY <1>1, <1>3, <1>4, AbsentTyped DEF Init, TypeOK, Steps, SlotIndex, SlotPairs
<1>6. LeaseInv /\ PreparingInv /\ SeenInv
  BY DEF Init, LeaseInv, PreparingInv, SeenInv, Preparing
<1>7. LimboInv /\ SettledInv /\ PublishedIsAuthoritative /\ PowerLossKeepsAuthority
  BY DEF Init, LimboInv, SettledInv, PublishedIsAuthoritative, PowerLossKeepsAuthority
<1> QED
  BY <1>5, <1>6, <1>7 DEF PublisherInv

\* The pieces of the invariant that speak of publication only, for the steps
\* that leave slots, limbo and the publication alone.
LEMMA PublicationUntouched ==
  ASSUME PublisherInv, UNCHANGED <<slots, limbo, settled, step, record, target, tempSynced>>
  PROVE  /\ PreparingInv' /\ LimboInv' /\ SettledInv'
         /\ PublishedIsAuthoritative' /\ PowerLossKeepsAuthority'
<1>1. PreparingInv'
  BY DEF PublisherInv, PreparingInv
<1>2. LimboInv'
  BY DEF PublisherInv, LimboInv
<1>3. SettledInv'
  BY DEF PublisherInv, SettledInv
<1>4. PublishedIsAuthoritative'
  BY DEF PublisherInv, PublishedIsAuthoritative
<1>5. PowerLossKeepsAuthority'
  BY DEF PublisherInv, PowerLossKeepsAuthority
<1> QED
  BY <1>1, <1>2, <1>3, <1>4, <1>5

\* Every step of a reader.
LEMMA ReaderStep ==
  ASSUME PublisherInv, NEW r \in Readers, Reader(r)
  PROVE  PublisherInv'
<1> USE DEF publication, readers
<1>1. UNCHANGED <<slots, limbo, settled, step, record, target, tempSynced>>
  BY DEF Reader, StartClassify, OpenSlot, CheckSlot, FinishClassify
<1>2. /\ TypeOK /\ LeaseInv /\ SeenInv
      /\ slots \in SlotPairs /\ seen \in [Readers -> SlotPairs]
  BY DEF PublisherInv, TypeOK, SlotPairs
<1>3. NothingSeen \in SlotPairs
  BY AbsentTyped DEF NothingSeen, SlotPairs
<1>4. lease' \in {"free", "shared", "exclusive"}
  BY <1>2 DEF TypeOK, Reader, StartClassify, OpenSlot, CheckSlot, FinishClassify
<1>5. reader' \in [Readers -> [at : ReaderSteps, leased : BOOLEAN]]
  <2>1. ASSUME NEW next \in ReaderSteps
        PROVE  [reader EXCEPT ![r].at = next] \in [Readers -> [at : ReaderSteps, leased : BOOLEAN]]
    BY <1>2 DEF TypeOK
  <2>2. ASSUME NEW i \in SlotIndex
        PROVE  AfterSlot(i) \in ReaderSteps /\ CheckStep(i) \in ReaderSteps
    BY DEF AfterSlot, CheckStep, ReaderSteps
  <2>3. ASSUME NEW i \in SlotIndex, OpenSlot(r, i) \/ CheckSlot(r, i)
        PROVE  \E next \in ReaderSteps : reader' = [reader EXCEPT ![r].at = next]
    BY <2>2, <2>3 DEF OpenSlot, CheckSlot
  <2>4. ASSUME NEW leased \in BOOLEAN, StartClassify(r, leased)
        PROVE  reader' \in [Readers -> [at : ReaderSteps, leased : BOOLEAN]]
    BY <1>2, <2>4 DEF StartClassify, TypeOK, ReaderSteps
  <2>5. CASE FinishClassify(r)
    BY <1>2, <2>5 DEF FinishClassify, TypeOK, ReaderSteps
  <2> QED
    BY <2>1, <2>3, <2>4, <2>5 DEF Reader
<1>6. seen' \in [Readers -> SlotPairs]
  <2>1. ASSUME NEW i \in SlotIndex, NEW raw \in WireSlot
        PROVE  [seen EXCEPT ![r][i] = raw] \in [Readers -> SlotPairs]
    BY <1>2 DEF SlotPairs
  <2>2. ASSUME NEW i \in SlotIndex, OpenSlot(r, i)
        PROVE  seen' \in [Readers -> SlotPairs]
    BY <1>2, <2>1, <2>2 DEF OpenSlot, SlotPairs
  <2>3. ASSUME NEW i \in SlotIndex, CheckSlot(r, i)
        PROVE  seen' \in [Readers -> SlotPairs]
    BY <1>2, <2>1, <2>3, UnreadableTyped DEF CheckSlot
  <2>4. ASSUME NEW leased \in BOOLEAN, StartClassify(r, leased)
        PROVE  seen' \in [Readers -> SlotPairs]
    BY <1>2, <1>3, <2>4 DEF StartClassify
  <2>5. CASE FinishClassify(r)
    BY <1>2, <2>5 DEF FinishClassify
  <2> QED
    BY <2>2, <2>3, <2>4, <2>5 DEF Reader
<1>7. TypeOK'
  BY <1>1, <1>2, <1>4, <1>5, <1>6 DEF TypeOK, SlotPairs
<1>8. LeaseInv'
  <2>1. ASSUME NEW leased \in BOOLEAN, StartClassify(r, leased)
        PROVE  LeaseInv'
    BY <1>1, <1>2, <2>1 DEF LeaseInv, StartClassify, TypeOK
  <2>2. ASSUME NEW i \in SlotIndex, OpenSlot(r, i) \/ CheckSlot(r, i)
        PROVE  LeaseInv'
    <3>1. lease' = lease /\ \A q \in Readers : reader'[q].leased = reader[q].leased
      BY <1>2, <2>2 DEF OpenSlot, CheckSlot, TypeOK
    <3> QED
      BY <1>1, <1>2, <3>1 DEF LeaseInv
  <2>3. CASE FinishClassify(r)
    BY <1>1, <1>2, <2>3 DEF LeaseInv, FinishClassify, OtherLeased, TypeOK
  <2> QED
    BY <2>1, <2>2, <2>3 DEF Reader
<1>9. SeenInv'
  <2>1. ASSUME NEW q \in Readers, reader'[q].leased, q # r
        PROVE  /\ reader'[q].at \in {"check0", "open1", "check1", "done"} => seen'[q][0] = slots'[0]
               /\ reader'[q].at \in {"check1", "done"} => seen'[q][1] = slots'[1]
    <3>1. reader'[q] = reader[q] /\ seen'[q] = seen[q]
      BY <1>2, <2>1 DEF TypeOK, Reader, StartClassify, OpenSlot, CheckSlot, FinishClassify
    <3> QED
      BY <1>1, <1>2, <2>1, <3>1 DEF SeenInv
  <2>2. ASSUME reader'[r].leased
        PROVE  /\ reader'[r].at \in {"check0", "open1", "check1", "done"} => seen'[r][0] = slots'[0]
               /\ reader'[r].at \in {"check1", "done"} => seen'[r][1] = slots'[1]
    <3>1. ASSUME NEW leased \in BOOLEAN, StartClassify(r, leased)
          PROVE  reader'[r].at = "open0"
      BY <1>2, <3>1 DEF StartClassify, TypeOK
    <3>2. CASE OpenSlot(r, 0)
      BY <1>1, <1>2, <2>2, <3>2 DEF OpenSlot, OpenStep, AfterSlot, CheckStep, TypeOK, SlotIndex, SlotPairs
    <3>3. CASE OpenSlot(r, 1)
      <4>1. /\ reader[r].at = "open1" /\ reader[r].leased
            /\ seen'[r] = [seen[r] EXCEPT ![1] = slots[1]]
        BY <1>2, <2>2, <3>3 DEF OpenSlot, OpenStep, TypeOK, SlotIndex
      <4>2. seen[r][0] = slots[0]
        BY <1>2, <4>1 DEF SeenInv
      <4>3. seen'[r][0] = seen[r][0] /\ seen'[r][1] = slots[1]
        BY <1>2, <4>1 DEF SlotPairs, SlotIndex
      <4> QED
        BY <1>1, <4>2, <4>3
    <3>4. CASE CheckSlot(r, 0)
      BY <1>1, <1>2, <2>2, <3>4 DEF SeenInv, CheckSlot, AfterSlot, CheckStep, TypeOK, SlotIndex
    <3>5. CASE CheckSlot(r, 1)
      BY <1>1, <1>2, <2>2, <3>5 DEF SeenInv, CheckSlot, AfterSlot, CheckStep, TypeOK, SlotIndex
    <3>6. CASE FinishClassify(r)
      BY <1>2, <2>2, <3>6 DEF FinishClassify, TypeOK
    <3> QED
      BY <3>1, <3>2, <3>3, <3>4, <3>5, <3>6 DEF Reader, SlotIndex
  <2> QED
    BY <2>1, <2>2 DEF SeenInv
<1> QED
  BY <1>1, <1>7, <1>8, <1>9, PublicationUntouched DEF PublisherInv

\* No reader is leased when the writer moves.
LEMMA WriterAlone ==
  ASSUME PublisherInv, Writer
  PROVE  LeaseInv' /\ SeenInv'
<1> USE DEF publication, readers
<1>1. lease # "shared"
  BY DEF PublisherInv, LeaseInv, Writer, AcquireExclusive, ReleaseExclusive, Begin, CreateTemp,
         WriteTemp, SyncTemp, PrepareInactiveSlot, RenameTemp, SyncParent, Fail, Kill
<1>2. UNCHANGED readers
  BY DEF Writer, AcquireExclusive, ReleaseExclusive, Begin, CreateTemp,
         WriteTemp, SyncTemp, PrepareInactiveSlot, RenameTemp, SyncParent, Fail, Kill
<1>3. \A r \in Readers : ~reader'[r].leased
  BY <1>1, <1>2 DEF PublisherInv, LeaseInv
<1>4. step' # "idle" => lease' = "exclusive"
  BY DEF PublisherInv, LeaseInv, Writer, AcquireExclusive, ReleaseExclusive, Begin, CreateTemp,
         WriteTemp, SyncTemp, PrepareInactiveSlot, RenameTemp, SyncParent, Fail, Kill
<1> QED
  BY <1>3, <1>4 DEF LeaseInv, SeenInv

\* The lease changes hands.
LEMMA LeaseStep ==
  ASSUME PublisherInv, AcquireExclusive \/ ReleaseExclusive
  PROVE  PublisherInv'
<1> USE DEF publication, readers
<1>1. LeaseInv' /\ SeenInv'
  BY WriterAlone DEF Writer
<1>2. TypeOK'
  BY DEF PublisherInv, TypeOK, AcquireExclusive, ReleaseExclusive
<1>3. UNCHANGED <<slots, limbo, settled, step, record, target, tempSynced>>
  BY DEF AcquireExclusive, ReleaseExclusive
<1> QED
  BY <1>1, <1>2, <1>3, PublicationUntouched DEF PublisherInv

\* The pre-checks pass and a publication begins.
LEMMA BeginStep ==
  ASSUME PublisherInv, NEW phase \in StatePhase, Begin(phase)
  PROVE  PublisherInv'
<1> USE DEF publication, readers
<1>1. LeaseInv' /\ SeenInv'
  BY WriterAlone DEF Writer
<1>2. slots \in SlotPairs
  BY DEF PublisherInv, TypeOK, SlotPairs
<1>3. Successor(slots, phase) \in WireSlot /\ SuccessorSlot(slots) \in SlotIndex
  BY <1>2, PublishableFacts DEF Begin
<1>4. Successor(slots, phase).phase = phase
  BY DEF Successor
<1>5. TypeOK'
  BY <1>3 DEF PublisherInv, TypeOK, Begin, Steps
<1>6. PreparingInv'
  BY <1>4 DEF PreparingInv, Begin
<1>7. LimboInv' /\ SettledInv'
  BY DEF PublisherInv, LimboInv, SettledInv, Begin
<1>8. PublishedIsAuthoritative' /\ PowerLossKeepsAuthority'
  BY <1>7 DEF PublishedIsAuthoritative, PowerLossKeepsAuthority, SettledInv, Begin
<1> QED
  BY <1>1, <1>5, <1>6, <1>7, <1>8 DEF PublisherInv

\* The temp file is created, written and synced.
LEMMA TempStep ==
  ASSUME PublisherInv, CreateTemp \/ WriteTemp \/ SyncTemp
  PROVE  PublisherInv'
<1> USE DEF publication, readers
<1>1. LeaseInv' /\ SeenInv'
  BY WriterAlone DEF Writer
<1>2. TypeOK'
  BY DEF PublisherInv, TypeOK, CreateTemp, WriteTemp, SyncTemp, Steps
<1>3. PreparingInv'
  BY DEF PublisherInv, PreparingInv, Preparing, CreateTemp, WriteTemp, SyncTemp
<1>4. LimboInv' /\ SettledInv'
  BY DEF PublisherInv, LimboInv, SettledInv, CreateTemp, WriteTemp, SyncTemp
<1>5. PublishedIsAuthoritative' /\ PowerLossKeepsAuthority'
  BY <1>4 DEF PublishedIsAuthoritative, PowerLossKeepsAuthority, SettledInv,
              CreateTemp, WriteTemp, SyncTemp
<1> QED
  BY <1>1, <1>2, <1>3, <1>4, <1>5 DEF PublisherInv

\* The publication ends: with the directory sync, an error, or the process.
LEMMA EndStep ==
  ASSUME PublisherInv, (\E result \in ParentSync : SyncParent(result)) \/ Fail \/ Kill
  PROVE  PublisherInv'
<1> USE DEF publication, readers
<1>1. LeaseInv' /\ SeenInv'
  BY WriterAlone DEF Writer
<1>2. /\ step' = "idle" /\ slots' = slots /\ limbo' \in {limbo, {slots}}
      /\ settled' => limbo' = {slots'}
      /\ lease' \in {"free", lease} /\ settled' \in BOOLEAN
      /\ UNCHANGED <<record, target, tempSynced, reader, seen>>
  <2>1. CASE \E result \in ParentSync : SyncParent(result)
    BY <2>1 DEF SyncParent
  <2>2. CASE Fail
    BY <2>2 DEF Fail
  <2>3. CASE Kill
    BY <2>3 DEF Kill
  <2> QED
    BY <2>1, <2>2, <2>3
<1>3. TypeOK'
  BY <1>2 DEF PublisherInv, TypeOK, Steps
<1>4. PreparingInv' /\ PublishedIsAuthoritative'
  BY <1>2 DEF PreparingInv, Preparing, PublishedIsAuthoritative
<1>5. LimboInv'
  BY <1>2 DEF PublisherInv, LimboInv
<1>6. SettledInv' /\ PowerLossKeepsAuthority'
  BY <1>2 DEF SettledInv, PowerLossKeepsAuthority
<1> QED
  BY <1>1, <1>3, <1>4, <1>5, <1>6 DEF PublisherInv

\* The machine stops and comes back with one of the pairs in limbo.
LEMMA PowerLossStep ==
  ASSUME PublisherInv, PowerLoss
  PROVE  PublisherInv'
<1>1. NothingSeen \in SlotPairs
  BY AbsentTyped DEF NothingSeen, SlotPairs
<1>2. reader' \in [Readers -> [at : ReaderSteps, leased : BOOLEAN]]
  BY DEF PowerLoss, ReaderSteps
<1>3. seen' \in [Readers -> [SlotIndex -> WireSlot]]
  BY <1>1 DEF PowerLoss, SlotPairs
<1>4. slots' \in SlotPairs /\ limbo' = {slots'} /\ step' = "idle"
  BY DEF PublisherInv, TypeOK, PowerLoss, SlotPairs
<1>5. TypeOK'
  BY <1>2, <1>3, <1>4 DEF PublisherInv, TypeOK, PowerLoss, Steps, SlotPairs
<1>6. LeaseInv' /\ SeenInv'
  BY DEF PowerLoss, LeaseInv, SeenInv
<1>7. PreparingInv' /\ PublishedIsAuthoritative'
  BY <1>4 DEF PreparingInv, Preparing, PublishedIsAuthoritative
<1>8. LimboInv' /\ SettledInv' /\ PowerLossKeepsAuthority'
  BY <1>4 DEF LimboInv, SettledInv, PowerLossKeepsAuthority
<1> QED
  BY <1>5, <1>6, <1>7, <1>8 DEF PublisherInv

\* Removing the inactive slot's file: the visible pair is the cleared one.
LEMMA PrepareClears ==
  ASSUME PublisherInv, PrepareInactiveSlot
  PROVE  /\ slots \in SlotPairs /\ target = SuccessorSlot(slots) /\ target \in SlotIndex
         /\ record.phase \in StatePhase /\ Publishable(slots, record.phase)
         /\ slots' = Cleared(slots) /\ slots' \in SlotPairs
         /\ \/ limbo' = limbo /\ slots' = slots
            \/ /\ limbo' = Issued(target, Absent)
               /\ Classify(slots) # "missing"
<1>1. /\ slots \in SlotPairs /\ target = SuccessorSlot(slots) /\ target \in SlotIndex
      /\ record.phase \in StatePhase /\ Publishable(slots, record.phase)
  BY DEF PublisherInv, TypeOK, PreparingInv, Preparing, PrepareInactiveSlot, SlotPairs
<1>2. CASE slots[target] = Absent
  <2>1. slots' = slots /\ limbo' = limbo
    BY <1>2 DEF PrepareInactiveSlot
  <2>2. Cleared(slots) = slots
    BY <1>1, <1>2 DEF Cleared, SlotPairs
  <2> QED
    BY <1>1, <2>1, <2>2
<1>3. CASE slots[target] # Absent
  <2>1. slots' = Cleared(slots) /\ limbo' = Issued(target, Absent)
    BY <1>1, <1>3 DEF PrepareInactiveSlot, Directory, Cleared
  <2>2. Classify(slots) # "missing"
    BY <1>1, <1>3, MissingSlots DEF SlotIndex
  <2>3. Cleared(slots) \in SlotPairs
    BY <1>1, ClearStep
  <2> QED
    BY <1>1, <2>1, <2>2, <2>3
<1> QED
  BY <1>2, <1>3

\* Unlinking the inactive slot keeps the authority.
LEMMA PrepareStep ==
  ASSUME PublisherInv, PrepareInactiveSlot
  PROVE  PublisherInv'
<1> USE DEF publication, readers
<1>1. LeaseInv' /\ SeenInv'
  BY WriterAlone DEF Writer
<1>2. /\ slots \in SlotPairs /\ target = SuccessorSlot(slots) /\ target \in SlotIndex
      /\ record.phase \in StatePhase /\ Publishable(slots, record.phase)
      /\ slots' = Cleared(slots) /\ slots' \in SlotPairs
  BY PrepareClears
<1>3. /\ step = "prepareInactive" /\ step' = "renameTemp"
      /\ UNCHANGED <<settled, lease, record, target, tempSynced, reader, seen>>
  BY DEF PrepareInactiveSlot
<1>4. /\ record = Successor(slots, record.phase) /\ tempSynced
      /\ limbo \in SUBSET SlotPairs /\ slots \in limbo
      /\ TypeOK /\ LimboInv /\ SettledInv
  BY <1>3 DEF PublisherInv, TypeOK, PreparingInv, Preparing, LimboInv, SlotPairs
<1>5. /\ Publishable(slots', record.phase)
      /\ Successor(slots', record.phase) = Successor(slots, record.phase)
      /\ SuccessorSlot(slots') = SuccessorSlot(slots)
      /\ slots'[target] = Absent
      /\ Authority(slots') = Authority(slots)
  BY <1>2, ClearStep
<1>6. PICK M \in SUBSET SlotPairs :
        /\ limbo' = limbo \union M
        /\ slots' \in limbo'
        /\ M # {} => Classify(slots) # "missing"
        /\ Differ(M, limbo, target, Absent)
  <2>1. CASE limbo' = limbo /\ slots' = slots
    <3>1. /\ {} \in SUBSET SlotPairs /\ limbo' = limbo \union {} /\ slots' \in limbo'
          /\ Differ({}, limbo, target, Absent)
      BY <1>4, <2>1 DEF Differ
    <3> QED
      BY <3>1
  <2>2. CASE limbo' = Issued(target, Absent) /\ Classify(slots) # "missing"
    <3>1. PICK M \in SUBSET SlotPairs :
            /\ Issued(target, Absent) = limbo \union M
            /\ [slots EXCEPT ![target] = Absent] \in M
            /\ Differ(M, limbo, target, Absent)
      BY <1>2, <1>4, AbsentTyped, IssuedPairs
    <3>2. slots' = [slots EXCEPT ![target] = Absent]
      BY <1>2 DEF Cleared
    <3> QED
      BY <2>2, <3>1, <3>2
  <2> QED
    BY <2>1, <2>2, PrepareClears
<1>7. limbo' \in SUBSET SlotPairs
  BY <1>4, <1>6
<1>8. TypeOK'
  BY <1>2, <1>3, <1>4, <1>7 DEF TypeOK, Steps, SlotPairs
<1>9. PreparingInv'
  BY <1>2, <1>3, <1>4, <1>5 DEF PreparingInv
<1>10. LimboInv'
  <2>1. CASE M = {}
    <3>1. limbo' = limbo
      BY <1>6, <2>1
    <3>2. CASE limbo = {slots}
      BY <1>6, <3>1, <3>2 DEF LimboInv
    <3>3. CASE Authority(slots) # Absent /\ Sound(limbo, Authority(slots).sequence)
      BY <1>5, <1>6, <3>1, <3>3 DEF LimboInv
    <3> QED
      BY <1>4, <3>2, <3>3 DEF LimboInv
  <2>2. CASE M # {}
    <3> DEFINE top == Authority(slots).sequence
    <3>1. /\ Authority(slots) # Absent /\ top \in 0..MaxSequence
          /\ Sound({slots}, top)
      BY <1>2, <1>6, <2>2, PublishableFacts
    <3>2. top \in Int
      BY <3>1
    <3>3. Sound(limbo, top)
      BY <1>4, <3>1 DEF LimboInv
    <3>4. Sound(limbo \union M, top)
      BY <1>2, <1>4, <1>6, <3>2, <3>3, SoundExtends
    <3> QED
      BY <1>5, <1>6, <3>1, <3>4 DEF LimboInv
  <2> QED
    BY <2>1, <2>2
<1>11. SettledInv'
  <2>1. ASSUME settled, NEW s \in limbo'
        PROVE  [s EXCEPT ![target] = Absent] = slots' /\ Authority(s) = Authority(slots')
    <3>1. limbo = {slots}
      BY <1>3, <1>4, <2>1 DEF SettledInv
    <3>2. slots' = [slots EXCEPT ![target] = Absent]
      BY <1>2 DEF Cleared
    <3>3. s \in {slots, slots'}
      BY <1>6, <3>1, <3>2 DEF Differ
    <3>4. [slots' EXCEPT ![target] = Absent] = slots'
      BY <1>2, <1>5 DEF SlotPairs
    <3> QED
      BY <1>5, <3>2, <3>3, <3>4
  <2> QED
    BY <1>3, <2>1 DEF SettledInv
<1>12. PublishedIsAuthoritative' /\ PowerLossKeepsAuthority'
  BY <1>3, <1>11 DEF PublishedIsAuthoritative, PowerLossKeepsAuthority, SettledInv
<1> QED
  BY <1>1, <1>8, <1>9, <1>10, <1>11, <1>12 DEF PublisherInv

\* Renaming the temp file: the record becomes the authority.
LEMMA RenamePublishes ==
  ASSUME PublisherInv, RenameTemp
  PROVE  /\ slots \in SlotPairs /\ target = SuccessorSlot(slots) /\ target \in SlotIndex
         /\ record.phase \in StatePhase /\ Publishable(slots, record.phase)
         /\ record = Successor(slots, record.phase) /\ slots[target] = Absent
         /\ slots' = Replaced(slots, record.phase) /\ slots' \in SlotPairs
         /\ slots' = [slots EXCEPT ![target] = record]
         /\ limbo' = Issued(target, record)
         /\ Authority(slots') = record
         /\ Classify(slots') # "corrupt" \/ record.sequence = MaxSequence
<1>1. /\ slots \in SlotPairs /\ target = SuccessorSlot(slots) /\ target \in SlotIndex
      /\ record.phase \in StatePhase /\ Publishable(slots, record.phase)
      /\ record = Successor(slots, record.phase) /\ slots[target] = Absent
      /\ tempSynced
  BY DEF PublisherInv, TypeOK, PreparingInv, Preparing, RenameTemp, SlotPairs
<1>2. /\ slots' = [slots EXCEPT ![target] = record]
      /\ limbo' = Issued(target, record)
  BY <1>1 DEF RenameTemp
<1>3. slots' = Replaced(slots, record.phase)
  BY <1>1, <1>2 DEF Replaced
<1>4. Classify(slots) \notin {"corrupt", "future"}
  BY <1>1 DEF Publishable
<1>5. /\ slots' \in SlotPairs
      /\ record \in WireSlot
      /\ Authority(slots') = record
      /\ slots'[target].sequence < MaxSequence => Classify(slots') = record.phase
  BY <1>1, <1>3, <1>4, ReplacedPublishes
<1>6. slots'[target] = record /\ record.sequence \in 0..MaxSequence
  BY <1>1, <1>2, <1>5 DEF SlotPairs, WireSlot
<1>7. Classify(slots') # "corrupt" \/ record.sequence = MaxSequence
  BY <1>1, <1>5, <1>6, MaxSequenceAssumption DEF StatePhase
<1> QED
  BY <1>1, <1>2, <1>3, <1>5, <1>7

\* The rename makes the record the authority.
LEMMA RenameStep ==
  ASSUME PublisherInv, RenameTemp
  PROVE  PublisherInv'
<1> USE DEF publication, readers
<1>1. LeaseInv' /\ SeenInv'
  BY WriterAlone DEF Writer
<1>2. /\ slots \in SlotPairs /\ target = SuccessorSlot(slots) /\ target \in SlotIndex
      /\ record.phase \in StatePhase /\ Publishable(slots, record.phase)
      /\ record = Successor(slots, record.phase) /\ slots[target] = Absent
      /\ slots' = [slots EXCEPT ![target] = record] /\ slots' \in SlotPairs
      /\ limbo' = Issued(target, record)
      /\ Authority(slots') = record
  BY RenamePublishes
<1>3. /\ step = "renameTemp" /\ step' = "syncParent"
      /\ UNCHANGED <<settled, lease, record, target, tempSynced, reader, seen>>
  BY DEF RenameTemp
<1>4. /\ limbo \in SUBSET SlotPairs /\ slots \in limbo /\ record \in WireSlot
      /\ TypeOK /\ LimboInv /\ SettledInv
  BY DEF PublisherInv, TypeOK, LimboInv, SlotPairs
<1>5. PICK M \in SUBSET SlotPairs :
        /\ limbo' = limbo \union M
        /\ slots' \in M
        /\ Differ(M, limbo, target, record)
  BY <1>2, <1>4, IssuedPairs
<1>6. TypeOK'
  BY <1>2, <1>3, <1>4, <1>5 DEF TypeOK, Steps, SlotPairs
<1>7. PreparingInv'
  BY <1>3 DEF PreparingInv, Preparing
<1>8. SlotOutcome(record) = "valid" /\ record # Absent
  BY <1>2, SuccessorValid, OutcomeFacts
<1>9. record.sequence \in 0..MaxSequence
  BY <1>4 DEF WireSlot
<1>10. LimboInv'
  <2>1. \E top \in Int : Sound(limbo, top) /\ record.sequence > top
    <3>1. CASE Classify(slots) = "missing"
      <4>1. Authority(slots) = Absent /\ slots[0] = Absent /\ slots[1] = Absent
        BY <1>2, <3>1, PublishableFacts
      <4>2. limbo = {slots}
        BY <1>4, <4>1 DEF LimboInv
      <4>3. Sound(limbo, -1)
        BY <4>1, <4>2 DEF Sound, ValidUpTo, SlotIndex
      <4> QED
        BY <1>9, <4>3
    <3>2. CASE Classify(slots) # "missing"
      <4> DEFINE top == Authority(slots).sequence
      <4>1. /\ top \in 0..MaxSequence /\ Sound({slots}, top)
            /\ record.sequence = top + 1
        BY <1>2, <3>2, PublishableFacts
      <4>2. Sound(limbo, top)
        BY <1>4, <4>1 DEF LimboInv
      <4>3. top \in Int /\ record.sequence > top
        BY <4>1, MaxSequenceAssumption
      <4> QED
        BY <4>2, <4>3
    <3> QED
      BY <3>1, <3>2
  <2>2. PICK top \in Int : Sound(limbo, top) /\ record.sequence > top
    BY <2>1
  <2>3. record.sequence \in Int
    BY <1>9
  <2>4. Sound(limbo \union M, record.sequence)
    BY <1>2, <1>4, <1>5, <1>8, <2>2, <2>3, SoundExtends
  <2> QED
    BY <1>2, <1>5, <1>8, <2>4 DEF LimboInv
<1>11. SettledInv'
  BY <1>3 DEF SettledInv
<1>12. PublishedIsAuthoritative'
  <2>1. record.sequence > 0 => /\ Classify(slots) # "missing"
                               /\ slots[1 - target].sequence = record.sequence - 1
    <3>1. CASE Classify(slots) = "missing"
      <4>1. record.sequence = 0
        BY <1>2, <3>1, PublishableFacts
      <4> QED
        BY <4>1
    <3>2. CASE Classify(slots) # "missing"
      <4>1. /\ Authority(slots).sequence \in 0..MaxSequence
            /\ record.sequence = Authority(slots).sequence + 1
            /\ Authority(slots) = slots[1 - target]
        BY <1>2, <3>2, PublishableFacts
      <4> QED
        BY <3>2, <4>1
    <3> QED
      BY <3>1, <3>2
  <2>2. slots'[1 - target] = slots[1 - target]
    BY <1>2 DEF SlotPairs, SlotIndex
  <2> QED
    BY <1>2, <1>3, <2>1, <2>2 DEF PublishedIsAuthoritative
<1>13. PowerLossKeepsAuthority'
  <2>1. ASSUME settled, NEW s \in limbo'
        PROVE  \/ Authority(s) = Authority(slots')
               \/ Authority(s) = Authority([slots' EXCEPT ![target] = Absent])
    <3>1. [slots' EXCEPT ![target] = Absent] = slots
      BY <1>2 DEF SlotPairs
    <3>2. CASE s \in limbo
      BY <1>3, <1>4, <2>1, <3>1, <3>2 DEF SettledInv
    <3>3. CASE s \in M
      <4>1. PICK u \in limbo : s = [u EXCEPT ![target] = record]
        BY <1>5, <3>3 DEF Differ
      <4>2. [u EXCEPT ![target] = Absent] = slots
        BY <1>3, <1>4, <2>1 DEF SettledInv
      <4>3. u[1 - target] = slots[1 - target] /\ u \in SlotPairs
        BY <1>2, <1>4, <4>2 DEF SlotPairs, SlotIndex
      <4>4. target = 0 \/ target = 1
        BY <1>2 DEF SlotIndex
      <4>5. s \in SlotPairs
        BY <1>5, <3>3
      <4>6. s[target] = slots'[target] /\ s[1 - target] = slots'[1 - target]
        BY <1>2, <1>4, <4>1, <4>3, <4>4 DEF SlotPairs, SlotIndex
      <4>7. s = slots'
        BY <1>2, <4>4, <4>5, <4>6 DEF SlotPairs, SlotIndex
      <4> QED
        BY <4>7
    <3> QED
      BY <1>5, <2>1, <3>2, <3>3
  <2> QED
    BY <1>3, <2>1 DEF PowerLossKeepsAuthority
<1> QED
  BY <1>1, <1>6, <1>7, <1>10, <1>11, <1>12, <1>13 DEF PublisherInv

\* Every step keeps the invariant.
LEMMA NextInv == PublisherInv /\ [Next]_vars => PublisherInv'
<1> SUFFICES ASSUME PublisherInv, [Next]_vars PROVE PublisherInv'
  OBVIOUS
<1>1. CASE Writer
  BY <1>1, LeaseStep, BeginStep, TempStep, PrepareStep, RenameStep, EndStep DEF Writer
<1>2. CASE PowerLoss
  BY <1>2, PowerLossStep
<1>3. ASSUME NEW r \in Readers, Reader(r)
      PROVE  PublisherInv'
  BY <1>3, ReaderStep
<1>4. CASE UNCHANGED vars
  <2>1. UNCHANGED <<slots, limbo, settled, step, record, target, tempSynced>>
    BY <1>4 DEF vars
  <2>2. TypeOK' /\ LeaseInv' /\ SeenInv'
    BY <1>4 DEF PublisherInv, TypeOK, LeaseInv, SeenInv, vars
  <2> QED
    BY <2>1, <2>2, PublicationUntouched DEF PublisherInv
<1> QED
  BY <1>1, <1>2, <1>3, <1>4 DEF Next

\* The invariant holds throughout.
LEMMA PublisherInvariant == Spec => []PublisherInv
BY InitInv, NextInv, PTL DEF Spec

-----------------------------------------------------------------------------
(* The theorems.                                                           *)

\* Types: publish_index_state and classify_slots keep to their data.
THEOREM TypeCorrect == Spec => []TypeOK
<1>1. PublisherInv => TypeOK
  BY DEF PublisherInv
<1> QED
  BY <1>1, PublisherInvariant, PTL

\* Once renamed, the record is the authority and has not replaced the one it
\* succeeds.
THEOREM PublishedAuthority == Spec => []PublishedIsAuthoritative
<1>1. PublisherInv => PublishedIsAuthoritative
  BY DEF PublisherInv
<1> QED
  BY <1>1, PublisherInvariant, PTL

\* While no publication since the last directory sync ended before its own, a
\* power loss between any two operations leaves the record before it or the
\* record it publishes, whatever the order in which the directory persists its
\* operations.
THEOREM PowerLossSafe == Spec => []PowerLossKeepsAuthority
<1>1. PublisherInv => PowerLossKeepsAuthority
  BY DEF PublisherInv
<1> QED
  BY <1>1, PublisherInvariant, PTL

\* A classification under the shared lease is that of the slots.
THEOREM LeasedReadExact == Spec => []LeasedClassificationExact
<1>1. PublisherInv => LeasedClassificationExact
  <2> SUFFICES ASSUME PublisherInv, NEW r \in Readers,
                      reader[r].at = "done", reader[r].leased
               PROVE  Classify(seen[r]) = Classify(slots)
    BY DEF LeasedClassificationExact
  <2>1. seen[r][0] = slots[0] /\ seen[r][1] = slots[1]
    BY DEF PublisherInv, SeenInv
  <2>2. seen[r] \in SlotPairs /\ slots \in SlotPairs
    BY DEF PublisherInv, TypeOK, SlotPairs
  <2>3. seen[r] = slots
    BY <2>1, <2>2 DEF SlotPairs, SlotIndex
  <2> QED
    BY <2>3
<1> QED
  BY <1>1, PublisherInvariant, PTL

\* What a step leaves of a pair that was not Corrupt.
LEMMA SoundStep ==
  ASSUME PublisherInv, [Next]_vars, SoundStart
  PROVE  \/ Classify(slots') # "corrupt"
         \/ Authority(slots').sequence = MaxSequence
<1> USE DEF publication, readers
<1>1. CASE PrepareInactiveSlot
  BY <1>1, PrepareClears, ClearStep DEF SoundStart
<1>2. CASE RenameTemp
  BY <1>2, RenamePublishes
<1>3. CASE PowerLoss
  <2>1. slots' \in limbo /\ slots' \in SlotPairs
    BY <1>3 DEF PowerLoss, PublisherInv, TypeOK, SlotPairs
  <2>2. CASE limbo = {slots}
    BY <2>1, <2>2 DEF SoundStart
  <2>3. CASE Sound(limbo, Authority(slots).sequence)
    <3>1. \A i \in SlotIndex : slots'[i] = Absent \/ SlotOutcome(slots'[i]) = "valid"
      BY <2>1, <2>3 DEF Sound, ValidUpTo
    <3>2. slots'[0] # Absent /\ slots'[1] # Absent => slots'[0].sequence # slots'[1].sequence
      BY <2>1, <2>3 DEF Sound
    <3> QED
      BY <2>1, <3>1, <3>2, ValidPairSound
  <2> QED
    BY <2>2, <2>3 DEF PublisherInv, LimboInv
<1>4. CASE Writer /\ ~PrepareInactiveSlot /\ ~RenameTemp
  <2>1. slots' = slots
    BY <1>4 DEF Writer, AcquireExclusive, ReleaseExclusive, Begin, CreateTemp, WriteTemp,
                SyncTemp, SyncParent, Fail, Kill
  <2> QED
    BY <2>1 DEF SoundStart
<1>5. ASSUME NEW r \in Readers, Reader(r)
      PROVE  slots' = slots
  BY <1>5 DEF Reader, StartClassify, OpenSlot, CheckSlot, FinishClassify
<1>6. CASE UNCHANGED vars
  BY <1>6 DEF vars, SoundStart
<1> QED
  BY <1>1, <1>2, <1>3, <1>4, <1>5, <1>6 DEF Next, SoundStart

\* Neither publication nor its failures, nor a power loss among unsynced
\* directory operations, makes a namespace Corrupt; running out of sequence
\* numbers does.
THEOREM PublicationNeverCorrupts == Spec => NeverCorrupted
<1>1. PublisherInv /\ [Next]_vars =>
        [SoundStart => \/ Classify(slots') # "corrupt"
                       \/ Authority(slots').sequence = MaxSequence]_vars
  BY SoundStep
<1> QED
  BY <1>1, PublisherInvariant, PTL DEF Spec, NeverCorrupted

-----------------------------------------------------------------------------
(* Refinement of IndexRegister.                                            *)

\* A step of the publisher on an ordered directory is a step of the register.
LEMMA RegisterStep ==
  ASSUME OrderedDirectory, PublisherInv, PublisherInv', [Next]_vars
  PROVE  [Register!RegNext]_(Register!regVars)
<1> USE DEF publication, readers
<1> DEFINE auth == Authority(slots)
           dur == {Authority(s) : s \in limbo}
<1>1. slots \in limbo /\ auth \in dur
  BY DEF PublisherInv, LimboInv
<1>2. CASE UNCHANGED <<slots, limbo>>
  BY <1>2 DEF Register!regVars
<1>3. CASE PrepareInactiveSlot
  <2>1. Authority(slots') = auth
    BY <1>3, PrepareClears, ClearStep
  <2>2. limbo' \in {limbo, limbo \union {slots'}}
    BY <1>3, PrepareClears DEF Issued, Cleared
  <2>3. {Authority(s) : s \in limbo'} = dur
    BY <1>1, <2>1, <2>2
  <2> QED
    BY <2>1, <2>3 DEF Register!regVars
<1>4. CASE RenameTemp
  <2>1. /\ slots \in SlotPairs
        /\ record.phase \in StatePhase /\ Publishable(slots, record.phase)
        /\ record = Successor(slots, record.phase)
        /\ slots' = [slots EXCEPT ![target] = record]
        /\ limbo' = Issued(target, record)
        /\ Authority(slots') = record
    BY <1>4, RenamePublishes
  <2>2. limbo' = limbo \union {slots'}
    BY <2>1 DEF Issued
  <2>3. {Authority(s) : s \in limbo'} = dur \union {Authority(slots')}
    BY <2>2
  <2>4. Classify(slots) = IF auth = Absent THEN "missing" ELSE RecordStatus(auth)
    BY <2>1, AuthorityFacts DEF Publishable
  <2>5. record.sequence = IF auth = Absent THEN 0 ELSE auth.sequence + 1
    BY <2>1, PublishableFacts
  <2>6. TransitionAllowed(Classify(slots), record.phase)
    BY <2>1 DEF Publishable
  <2>7. Register!Status(auth) = Classify(slots)
    BY <2>4 DEF Register!Status, Register!Absent, Absent, Register!RecordStatus, RecordStatus,
                Register!CURRENT_STORAGE_PROTOCOL, CURRENT_STORAGE_PROTOCOL,
                Register!CURRENT_EXTRACTION_VERSION, CURRENT_EXTRACTION_VERSION
  <2>8. Register!TransitionAllowed(Register!Status(auth), record.phase)
    BY <2>6, <2>7 DEF Register!TransitionAllowed, TransitionAllowed,
                      Register!StatePhase, StatePhase
  <2>9. record = Register!NextRecord(record.phase)
    BY <2>1, <2>5 DEF Register!NextRecord, Successor, Register!Absent, Absent,
                Register!CURRENT_STORAGE_PROTOCOL, CURRENT_STORAGE_PROTOCOL,
                Register!CURRENT_EXTRACTION_VERSION, CURRENT_EXTRACTION_VERSION,
                Register!ProjectIdentity, ProjectIdentity
  <2>10. Register!Publish(record.phase)
    BY <2>1, <2>3, <2>8, <2>9 DEF Register!Publish
  <2>11. record.phase \in Register!StatePhase
    BY <2>1 DEF Register!StatePhase, StatePhase
  <2> QED
    BY <2>10, <2>11 DEF Register!RegNext
<1>5. CASE \E result \in ParentSync : SyncParent(result)
  <2>1. slots' = slots /\ limbo' \in {limbo, {slots}}
    BY <1>5 DEF SyncParent
  <2>2. CASE limbo' = {slots}
    BY <2>1, <2>2 DEF Register!RegNext, Register!Barrier
  <2> QED
    BY <1>2, <2>1, <2>2
<1>6. CASE PowerLoss
  BY <1>6 DEF PowerLoss, Register!RegNext, Register!Revert
<1>7. CASE AcquireExclusive \/ ReleaseExclusive \/ (\E phase \in StatePhase : Begin(phase))
           \/ CreateTemp \/ WriteTemp \/ SyncTemp \/ Fail \/ Kill
  <2>1. UNCHANGED <<slots, limbo>>
    BY <1>7 DEF AcquireExclusive, ReleaseExclusive, Begin, CreateTemp, WriteTemp,
                SyncTemp, Fail, Kill
  <2> QED
    BY <1>2, <2>1
<1>8. ASSUME NEW r \in Readers, Reader(r)
      PROVE  UNCHANGED <<slots, limbo>>
  BY <1>8 DEF Reader, StartClassify, OpenSlot, CheckSlot, FinishClassify
<1>9. CASE UNCHANGED vars
  BY <1>2, <1>9 DEF vars
<1> QED
  BY <1>2, <1>3, <1>4, <1>5, <1>6, <1>7, <1>8, <1>9 DEF Next, Writer

\* On a directory that persists its operations in order, the publisher with its
\* failures and crashes is the atomic register.
THEOREM PublisherImplementsRegister ==
  ASSUME OrderedDirectory
  PROVE  Spec => ImplementsRegister
<1>1. Init => Register!RegInit
  BY DEF Init, Register!RegInit
<1>2. PublisherInv /\ PublisherInv' /\ [Next]_vars => [Register!RegNext]_(Register!regVars)
  BY RegisterStep
<1> QED
  BY <1>1, <1>2, PublisherInvariant, PTL DEF Spec, ImplementsRegister, Register!Spec

=============================================================================
