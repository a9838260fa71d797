--------------------------- MODULE MCLeaseRegister --------------------------
(***************************************************************************)
(* LeaseRegister and MembershipRemoval, one of two scenes from the start:  *)
(*   shared    two tasks in two gateways, on one member that carries two   *)
(*             sessions, and a clock; nobody removes it;                   *)
(*   removal   the same gateways and one session of the console, while two *)
(*             removers work on the member and no instant passes.          *)
(***************************************************************************)
EXTENDS MembershipRemoval, TLC

CONSTANTS t1, t2, g1, g2, p1, s1

\* Sound here: the shared scene tells no sessions apart, and only one of them
\* occurs in the removal scene.
Symmetry == Permutations(Sessions)

MCProviderOf == [m \in Members |-> p1]

MCLimit == [p \in Providers |-> 2]

TwoGateways == [t \in Tasks |-> IF t = t1 THEN g1 ELSE g2]

OneRemoverGateway == [r \in Removers |-> g1]

VARIABLE scene

sceneVars == <<allVars, scene>>

\* A call of the console for s1, at the clock's first instant.
Plain(c) ==
    /\ c.agent = None
    /\ c.session \in {s1, None}
    /\ c.id # None => c.id[1] = s1 /\ c.id[3] = 0
    /\ c.until = 0

SceneInit == scene \in {"shared", "removal"} /\ RemovalInit

SceneNext ==
    /\ \/ scene = "shared" /\ Next /\ UNCHANGED removalVars
       \/ /\ scene = "removal"
          /\ RemovalNext
          /\ now' = 0
          /\ \A t \in Tasks : Plain(call'[t])
    /\ UNCHANGED scene

SceneSpec == SceneInit /\ [][SceneNext]_sceneVars

=============================================================================
