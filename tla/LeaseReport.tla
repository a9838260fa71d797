----------------------------- MODULE LeaseReport ----------------------------
(***************************************************************************)
(* LeaseRegister with what its callers were told: the instant the newest   *)
(* refusal report named for each member, and what a take started after.    *)
(* The history variables read the steps of LeaseRegister and guide none.   *)
(***************************************************************************)
EXTENDS LeaseRegister

VARIABLES
    told,   \* per member the instant of the newest report of it, 0 for none
    knew    \* per task and member the earliest instant told since the task's
            \* take began, what was told before counted in

historyVars == <<told, knew>>

HistoryInit ==
    /\ Init
    /\ told = [m \in Members |-> 0]
    /\ knew = [t \in Tasks |-> told]

\* The members whose block a report of task t records in this step.
Blocking(t) ==
    IF pc[t] = "reporting" /\ pc'[t] = "naming"
    THEN {l.member : l \in todo[t] \ todo'[t]}
    ELSE {}

History ==
    /\ told' = [m \in Members |->
                  IF \E t \in Tasks : m \in Blocking(t)
                  THEN call[CHOOSE t \in Tasks : m \in Blocking(t)].until
                  ELSE told[m]]
    /\ knew' = [t \in Tasks |->
                  IF pc[t] = "idle" /\ pc'[t] = "listed" THEN told
                  ELSE [m \in Members |->
                          IF told'[m] < knew[t][m] THEN told'[m] ELSE knew[t][m]]]

HistorySpec ==
    HistoryInit /\ [][Next /\ History]_<<vars, historyVars>>

FairHistorySpec ==
    HistorySpec /\ \A t \in Tasks : WF_vars(Step(t)) /\ SF_vars(Hold(t))

(***************************************************************************)
(* In one gateway, a lease is never taken on a member that was reported    *)
(* before the take began, by its own session or by another, until an       *)
(* instant a report of the member named has passed, whatever the gateway's *)
(* restarts, the calls' failures and the reports of others do in between   *)
(* (leases/refused.rs: "the lease it takes next lands on a usable          *)
(* member").                                                               *)
(***************************************************************************)
ReportedMemberAvoided ==
    [][\A l \in register' \ register : knew[lock][l.member] <= now]_register

=============================================================================
