--------------------------- MODULE MCStatePublisher ---------------------------
(* Instances of StatePublisher for TLC. *)
EXTENDS StatePublisher

Wire(sequence, protocol, version, phase, owner, intact) ==
  [sequence |-> sequence, protocol |-> protocol, version |-> version,
   phase |-> phase, owner |-> owner, intact |-> intact]

\* Slots this binary or an older or newer one may have written.
WrittenSlots ==
  {Wire(n, 2, v, ph, "self", TRUE) : n \in 0..2, v \in {21, 22, 23}, ph \in StatePhase}

\* One slot per defect the classifier tells apart, and newer storage protocols.
DefectiveSlots ==
  {Unreadable, Wire(1, 2, 22, "current", "self", FALSE),
   Wire(1, 2, 22, "current", "other", TRUE), Wire(1, 1, 22, "current", "self", TRUE),
   Wire(1, 2, 22, "unknown", "self", TRUE)}
FutureProtocolSlots == {Wire(n, 3, 22, "unknown", "self", TRUE) : n \in 0..1}

PairsOver(S) == [SlotIndex -> S]

\* Every pair over all of these: what the classifier may be given.
AnyPairs == PairsOver({Absent} \union WrittenSlots \union DefectiveSlots
                        \union FutureProtocolSlots)

\* Pairs that this binary's or the previous version's publisher leaves.
PublishedPairs ==
  {s \in PairsOver({Absent} \union {Wire(n, 2, v, ph, "self", TRUE) :
                        n \in 0..1, v \in {21, 22}, ph \in StatePhase}) :
     Classify(s) # "corrupt"}

=============================================================================
