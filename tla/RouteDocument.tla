--------------------------- MODULE RouteDocument ----------------------------
(***************************************************************************)
(* What the registry file promises whoever edits or reads it: one document *)
(* that edits change one after the other, each at once and each deciding   *)
(* on what the document says at that moment.  An edit changes what it is   *)
(* about and nothing else, and leaves no alias without a destination that  *)
(* resolves.  There is no editor here, no lock, no staging file, no review *)
(* and no stop; RouteRegistry, which has all of them, implements this      *)
(* specification.                                                          *)
(***************************************************************************)
EXTENDS FiniteSets

CONSTANTS Aliases, RequiredNames, Local, Installed, Offered, NoRoute

VARIABLES routes, deployments, categories, extra

document == <<routes, deployments, categories, extra>>

Chosen == [kind |-> "best", name |-> NoRoute]

DocumentInit ==
    /\ routes = [a \in Aliases |-> IF a \in RequiredNames THEN Chosen ELSE NoRoute]
    /\ deployments \in Installed
    /\ categories = FALSE
    /\ extra \in BOOLEAN

\* What an edit of one alias may point it at: nothing that needs a deployment.
Pointable == {Chosen} \cup [kind : {"provider"}, name : Local \cup {NoRoute}]

Under(name) == {d \in deployments : name \in {d.name, d.adapter}}

\* No alias is left on a name that no deployment, or more than one, answers to.
Sound ==
    \A a \in Aliases : routes[a] # NoRoute /\ routes[a].kind = "named"
                          => Cardinality(Under(routes[a].name)) = 1

Point(a, to) ==
    /\ routes' = [routes EXCEPT ![a] = to]
    /\ UNCHANGED <<deployments, categories, extra>>

Withdraw(a) ==
    /\ routes[a] # NoRoute
    /\ routes' = [routes EXCEPT ![a] = NoRoute]
    /\ UNCHANGED <<deployments, categories, extra>>

Categorise ==
    /\ categories' = ~categories
    /\ UNCHANGED <<routes, deployments, extra>>

Strip ==
    /\ extra' = FALSE
    /\ UNCHANGED <<routes, deployments, categories>>

\* Some aliases of an offered document, with the deployments they name.
NamedBy(source, taken) ==
    {d \in source.deployments :
        \E a \in taken : source.routes[a].kind = "named" /\ source.routes[a].name = d.name}

Adopt(source, taken) ==
    /\ \A a \in taken : source.routes[a] # NoRoute
    /\ routes' = [a \in Aliases |-> IF a \in taken THEN source.routes[a] ELSE routes[a]]
    /\ deployments' = deployments \cup NamedBy(source, taken)
    /\ \A d, o \in deployments' : d.name = o.name => d = o
    /\ UNCHANGED <<categories, extra>>

Edit ==
    /\ \/ \E a \in Aliases : Withdraw(a) \/ \E to \in Pointable : Point(a, to)
       \/ Categorise \/ Strip
       \/ \E source \in Offered, taken \in SUBSET Aliases : Adopt(source, taken)
    /\ Sound'

DocumentSpec == DocumentInit /\ [][Edit]_document

=============================================================================
