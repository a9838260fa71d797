----------------------- MODULE MaintenanceLoopProofs ------------------------
(***************************************************************************)
(* That the wake of a refusal is never lost, for any number of members and *)
(* any clock.  The invariant is inductive as LoopInv states it: the armed  *)
(* future must be known to be unarmed at the start of a turn, or taking    *)
(* the permit there could overwrite a notification.                        *)
(***************************************************************************)
EXTENDS MaintenanceLoop, TLAPS

\* The moment the loop reads is one the ledger states, or none.
LEMMA NextDueStated ==
    ASSUME LoopTypeOK
    PROVE  NextDue(stated, clock) \subseteq Moments \cup {Unstated}
  <1>1. Ahead(stated, clock) \subseteq Moments
    BY LoopAssumption DEF LoopAssumption, LoopTypeOK, Ahead, Moments
  <1> QED BY <1>1 DEF NextDue

\* A step of the loop's own keeps the invariant.
LEMMA LoopStep ==
    ASSUME LoopInv, Loop
    PROVE  LoopInv'
  <1> USE DEF LoopInv, RefusalHeld
  <1>1. CASE Turn
    BY <1>1 DEF Turn, LoopTypeOK, LoopStages
  <1>2. CASE \E m \in Tracked : Visit(m)
    <2> PICK m \in Tracked : Visit(m) BY <1>2
    <2>1. stated' \in [Tracked -> Moments \cup {Unstated}]
      BY DEF Visit, LoopTypeOK
    <2> QED BY <2>1 DEF Visit, LoopTypeOK, LoopStages
  <1>3. CASE PassEnds
    BY <1>3 DEF PassEnds, LoopTypeOK, LoopStages
  <1>4. CASE ReadDue
    <2>1. due' \in Moments \cup {Unstated}
      BY <1>4, NextDueStated DEF ReadDue
    <2> QED BY <1>4, <2>1 DEF ReadDue, LoopTypeOK, LoopStages
  <1>5. CASE Choose
    BY <1>5 DEF Choose, LoopTypeOK, LoopStages
  <1>6. CASE Wakes
    BY <1>6 DEF Wakes, LoopTypeOK, LoopStages
  <1>7. CASE TimerEnds
    BY <1>7 DEF TimerEnds, LoopTypeOK, LoopStages
  <1> QED BY <1>1, <1>2, <1>3, <1>4, <1>5, <1>6, <1>7 DEF Loop

\* LoopInv holds of the maintenance loop (maintenance/mod.rs, spawn and
\* start_after_refusal) whatever the members and the clock's bound.
THEOREM LoopInvariant == LoopSpec => []LoopInv
  <1>1. LoopInit => LoopInv
    <2> SUFFICES ASSUME LoopInit PROVE LoopInv OBVIOUS
    <2>1. clock \in Moments
      BY LoopAssumption DEF LoopAssumption, LoopInit, Moments
    <2>2. LoopTypeOK
      BY <2>1 DEF LoopInit, LoopTypeOK, LoopStages
    <2> QED BY <2>2 DEF LoopInit, LoopInv, RefusalHeld
  <1>2. LoopInv /\ [LoopNext]_loopVars => LoopInv'
    <2> SUFFICES ASSUME LoopInv, [LoopNext]_loopVars PROVE LoopInv' OBVIOUS
    <2>1. CASE Loop
      BY <2>1, LoopStep
    <2>2. CASE Refuse
      BY <2>2 DEF Refuse, LoopInv, RefusalHeld, LoopTypeOK
    <2>3. CASE \E m \in Tracked : State(m)
      <3> PICK m \in Tracked : State(m) BY <2>3
      <3>1. stated' \in [Tracked -> Moments \cup {Unstated}]
        BY DEF State, LoopInv, LoopTypeOK
      <3> QED BY <3>1 DEF State, LoopInv, RefusalHeld, LoopTypeOK
    <2>4. CASE LoopTick
      BY <2>4, LoopAssumption DEF LoopAssumption, LoopTick, LoopInv, RefusalHeld, LoopTypeOK, Moments
    <2>5. CASE UNCHANGED loopVars
      BY <2>5 DEF loopVars, LoopInv, RefusalHeld, LoopTypeOK
    <2> QED BY <2>1, <2>2, <2>3, <2>4, <2>5 DEF LoopNext
  <1> QED BY <1>1, <1>2, PTL DEF LoopSpec

=============================================================================
