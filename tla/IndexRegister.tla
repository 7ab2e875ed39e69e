---------------------------- MODULE IndexRegister ----------------------------
(***************************************************************************)
(* What the dual-slot publisher promises: the state of an index namespace  *)
(* is one register.  Publish replaces it atomically by a legal successor,  *)
(* Barrier (the parent-directory sync) makes the present value the only    *)
(* one that survives, and PowerLoss falls back to a value written since    *)
(* the last Barrier, never to nothing.                                     *)
(***************************************************************************)
EXTENDS IndexState

VARIABLES authority,  \* the authoritative record, Absent in a Missing namespace
          durable     \* the values a power loss may leave

regVars == <<authority, durable>>

Status(rec) == IF rec = Absent THEN "missing" ELSE RecordStatus(rec)

RegInit == durable = {authority}

NextRecord(phase) ==
  [sequence |-> IF authority = Absent THEN 0 ELSE authority.sequence + 1,
   protocol |-> CURRENT_STORAGE_PROTOCOL, version |-> CURRENT_EXTRACTION_VERSION,
   phase |-> phase, owner |-> ProjectIdentity, intact |-> TRUE]

Publish(phase) ==
  /\ TransitionAllowed(Status(authority), phase)
  /\ authority' = NextRecord(phase)
  /\ durable' = durable \union {authority'}

Barrier ==
  /\ durable' = {authority}
  /\ UNCHANGED authority

Revert ==
  /\ authority' \in durable
  /\ durable' = {authority'}

RegNext == (\E phase \in StatePhase : Publish(phase)) \/ Barrier \/ Revert

Spec == RegInit /\ [][RegNext]_regVars

=============================================================================
