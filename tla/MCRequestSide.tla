--------------------------- MODULE MCRequestSide ----------------------------
(***************************************************************************)
(* What a request meets: admission, the route registry, the catalogue and  *)
(* the members' models, the chat edge, the stream of an answer and its     *)
(* frames, and the readiness question.  A behaviour is one of the eight    *)
(* parts at work while the others stand in an initial state; the parts     *)
(* share no variable.                                                      *)
(***************************************************************************)
EXTENDS Admission, ChatEdge, EventStream, SseFrames, RouteRegistry, ModelCatalog,
        ModelDiscovery, Readiness, TLC

CONSTANTS t1, t2, w1, u1, p1, p2, a1, a2, d1, d2, x, y

VARIABLE part

Parts == {"admission", "chat", "stream", "frames", "registry", "catalogue",
          "discovery", "readiness"}

-----------------------------------------------------------------------------
\* A backend with its own agent and one alias, a console, a spare of no scope.
MCDeclarable ==
    {[client |-> "backend", token |-> t1, agent |-> "own", models |-> {a1}],
     [client |-> "console", token |-> t2, agent |-> NoAgent, models |-> NoScope],
     [client |-> "spare", token |-> t2, agent |-> NoAgent, models |-> {}]}

MCAgentOf == [t \in WorkloadTokens |-> "own"]

MCDiscovered == <<p1, p2>>

\* A registry that offers a deployment the destination may have under the
\* same name, one that needs an adapter, and one whose routes name neither.
MCOffered ==
    LET Deployed(n, a, e) == [name |-> n, adapter |-> a, endpoint |-> e] IN
    {[routes |-> (a1 :> NoRoute @@ a2 :> ByName(d1)),
      deployments |-> {Deployed(d1, NoRoute, x)}],
     [routes |-> (a1 :> Direct(NoRoute) @@ a2 :> ByName(d2)),
      deployments |-> {Deployed(d2, d1, y)}],
     [routes |-> (a1 :> Best @@ a2 :> ByName(d1)),
      deployments |-> {Deployed(d2, d1, y)}]}

MCInstalled ==
    {{}, {[name |-> d1, adapter |-> NoRoute, endpoint |-> y]},
         {[name |-> d2, adapter |-> d1, endpoint |-> x]}}

-----------------------------------------------------------------------------
\* A part that is not at work is in one of its initial states.
PartInit ==
    /\ part \in Parts
    /\ part # "admission" => skarbiecSet = "none" /\ wisentSet = "complete"
    /\ part # "stream" => wireKind = "chat" /\ format = "chat" /\ recorded = FALSE
    /\ part # "frames" => bodyBytes = <<>>
    /\ part # "registry" => /\ registry = [Fresh EXCEPT !.routes =
                                  [a \in Aliases |-> IF a \in RequiredNames THEN Best
                                                     ELSE NoRoute]]
                            /\ issued = FALSE
    /\ part # "readiness" => servable = FALSE
    /\ AdmissionInit
    /\ ChatInit
    /\ StreamInit
    /\ FramesInit
    /\ RegistryInit
    /\ CatalogInit
    /\ DiscoveryInit
    /\ ReadinessInit

PartNext ==
    /\ \/ /\ part = "admission" /\ AdmissionNext
          /\ UNCHANGED <<chatVars, streamVars, frameVars, registryVars,
                         catalogVars, discoveryVars, readinessVars>>
       \/ /\ part = "chat" /\ ChatNext
          /\ UNCHANGED <<admissionVars, streamVars, frameVars, registryVars,
                         catalogVars, discoveryVars, readinessVars>>
       \/ /\ part = "stream" /\ StreamNext
          /\ UNCHANGED <<admissionVars, chatVars, frameVars, registryVars,
                         catalogVars, discoveryVars, readinessVars>>
       \/ /\ part = "frames" /\ FramesNext
          /\ UNCHANGED <<admissionVars, chatVars, streamVars, registryVars,
                         catalogVars, discoveryVars, readinessVars>>
       \/ /\ part = "registry" /\ RegistryNext
          /\ UNCHANGED <<admissionVars, chatVars, streamVars, frameVars,
                         catalogVars, discoveryVars, readinessVars>>
       \/ /\ part = "catalogue" /\ CatalogNext
          /\ UNCHANGED <<admissionVars, chatVars, streamVars, frameVars,
                         registryVars, discoveryVars, readinessVars>>
       \/ /\ part = "discovery" /\ DiscoveryNext
          /\ UNCHANGED <<admissionVars, chatVars, streamVars, frameVars,
                         registryVars, catalogVars, readinessVars>>
       \/ /\ part = "readiness" /\ ReadinessNext
          /\ UNCHANGED <<admissionVars, chatVars, streamVars, frameVars,
                         registryVars, catalogVars, discoveryVars>>
    /\ UNCHANGED part

partVars == <<part, admissionVars, chatVars, streamVars, frameVars, registryVars,
              catalogVars, discoveryVars, readinessVars>>

PartSpec == PartInit /\ [][PartNext]_partVars

=============================================================================
