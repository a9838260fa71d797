--------------------------- MODULE MCUsageLedger ----------------------------
(***************************************************************************)
(* UsageLedger on a small instance: one process, one member, a clock and a *)
(* count of calls large enough for a block to lapse and a call to be lost. *)
(***************************************************************************)
EXTENDS UsageLedger

CONSTANTS p1, m1

MCExpiries == {1}

(***************************************************************************)
(* What the recording of a successful call says of itself: one stray       *)
(* success must not un-retire a subscription somebody retired.             *)
(***************************************************************************)
RetirementStands ==
    [][\A p \in Processes, m \in Members :
          m \in retired /\ RecordCall(p, m) => StateOf(memory'[p][m]) # "active"
                                               \/ StateOf(Row(p, m)) = "active"]_vars

=============================================================================
