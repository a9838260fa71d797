------------------------------ MODULE MCUpkeep ------------------------------
(***************************************************************************)
(* What must eventually happen to a pool, one of two scenes from the       *)
(* start, the other at rest:                                               *)
(*   loop      MaintenanceLoop with two members and four instants;         *)
(*   report    LeaseReport with two tasks of one gateway, one session, one *)
(*             member that carries one session, and a clock.               *)
(* Each scene has the fairness its module states.                          *)
(***************************************************************************)
EXTENDS MaintenanceLoop, LeaseReport

CONSTANTS g1, p1

OneGateway == [t \in Tasks |-> g1]

MCProviderOf == [m \in Members |-> p1]

MCLimit == [p \in Providers |-> 1]

VARIABLE scene

leaseVars == <<vars, historyVars>>

upkeepVars == <<scene, loopVars, leaseVars>>

UpkeepInit ==
    /\ scene \in {"loop", "report"}
    /\ scene = "report" => stated = [m \in Tracked |-> Unstated]
    /\ scene = "loop" => listed = {}
    /\ LoopInit
    /\ HistoryInit

UpkeepNext ==
    /\ \/ scene = "loop" /\ LoopNext /\ UNCHANGED leaseVars
       \/ scene = "report" /\ Next /\ History /\ UNCHANGED loopVars
    /\ UNCHANGED scene

LoopScheduled == WF_loopVars(scene = "loop" /\ Loop) /\ WF_loopVars(scene = "loop" /\ LoopTick)

CallsScheduled ==
    \A t \in Tasks : /\ WF_vars(scene = "report" /\ Step(t))
                     /\ SF_vars(scene = "report" /\ Hold(t))

UpkeepSpec ==
    UpkeepInit /\ [][UpkeepNext]_upkeepVars /\ LoopScheduled /\ CallsScheduled

=============================================================================
