---------------------------- MODULE RouteRegistry ---------------------------
(***************************************************************************)
(* The operator's route registry and who reads it.                         *)
(*                                                                         *)
(* The registry is one file: each alias has one destination, which is a    *)
(* provider route, the selector `best` or the name of a local deployment   *)
(* (or of one of its adapters).  The gateway's administration endpoints    *)
(* and the command line edit it, each edit under a lock file's lock, by    *)
(* reading it whole, validating the result and renaming a staging file     *)
(* over it; an adoption of somebody else's registry reviews the file       *)
(* before it takes the lock.  Requests read it anew on every look-up.      *)
(* The gateway is a standalone one: its launcher's alias table is empty,   *)
(* so that the file is all there is to look up.                            *)
(***************************************************************************)
EXTENDS Integers, FiniteSets

CONSTANTS
    Editors,      \* processes and requests that edit the registry
    Aliases,      \* the names edited and asked for
    RequiredNames,\* the aliases the gateway requires, of Aliases
    Local,        \* names of deployments and of adapters; a deployment is
                  \* [name, adapter, endpoint]
    Installed,    \* the sets of deployments a registry may start with
    Offered,      \* the registries offered for adoption
    MaxEdits,     \* bound of edits begun
    NoRoute       \* stands for "nothing declared"

\* What an alias may point at.
Destinations == [kind : {"provider", "best", "named"}, name : Local \cup {NoRoute}]

ASSUME RegistryAssumption ==
    /\ MaxEdits \in Nat
    /\ RequiredNames \subseteq Aliases
    /\ NoRoute \notin Editors
    /\ \A ds \in Installed : IsFiniteSet(ds)
    /\ \A s \in Offered : /\ s.routes \in [Aliases -> Destinations \cup {NoRoute}]
                          /\ IsFiniteSet(s.deployments)

VARIABLES
    registry,     \* the file: [routes, deployments, categories, extra]
    fileLock,     \* who holds the lock file
    edit,         \* per editor: the edit under way
    edits,
    intended,     \* history: the routes after the edits that were confirmed
    issued,       \* whether the provider's capability is issued here
    lookup        \* a chat request's look-up of an alias

registryVars == <<registry, fileLock, edit, edits, intended, issued, lookup>>

\* A destination names a provider's route, `best`, or something local; the
\* provider route "local" names a local model outright.
Direct(name) == [kind |-> "provider", name |-> name]
ByName(name) == [kind |-> "named", name |-> name]
Best == [kind |-> "best", name |-> NoRoute]

Answering(r, name) == {d \in r.deployments : name \in {d.name, d.adapter}}

\* deployment_for_model(): one deployment, or an error.
Resolves(r, to) == to.kind # "named" \/ Cardinality(Answering(r, to.name)) = 1

Declared(r) == {a \in Aliases : r.routes[a] # NoRoute}

\* Every destination resolves: what a file must pass to be read or written.
Readable(r) == \A a \in Declared(r) : Resolves(r, r.routes[a])

UniqueNames(r) == \A d, e \in r.deployments : d.name = e.name => d = e

\* What an import's document must pass as a whole.
ValidDocument(r) == UniqueNames(r) /\ Readable(r)

\* Where a request for an alias goes: the endpoint of a local destination.
EndpointOf(r, alias) ==
    LET to == r.routes[alias]
        found == IF to = NoRoute \/ to.kind = "best" THEN {} ELSE Answering(r, to.name)
    IN IF Cardinality(found) = 1 THEN (CHOOSE d \in found : TRUE).endpoint ELSE NoRoute

Fresh == [routes |-> [a \in Aliases |-> NoRoute], deployments |-> {},
          categories |-> FALSE, extra |-> FALSE]

NoEdit == [at |-> "idle", work |-> "none", alias |-> NoRoute, to |-> NoRoute,
           source |-> NoRoute, chosen |-> {}, replace |-> FALSE, seen |-> NoRoute,
           draft |-> Fresh]

\* The registry an installation starts with: the required aliases on `best`,
\* its deployments, and perhaps an older file's fields of its own.
RegistryInit ==
    /\ \E ds \in Installed, extra \in BOOLEAN :
          registry = [Fresh EXCEPT !.routes = [a \in Aliases |->
                                      IF a \in RequiredNames THEN Best ELSE NoRoute],
                                   !.deployments = ds, !.extra = extra]
    /\ fileLock = NoRoute
    /\ edit = [e \in Editors |-> NoEdit]
    /\ edits = 0
    /\ intended = registry.routes
    /\ issued \in BOOLEAN
    /\ lookup = [at |-> "idle", alias |-> NoRoute, told |-> "none"]

\* A provider route serves where its capability is issued; `best` and a
\* local route need none.
Serviceable(to) == ~(to.kind = "provider" /\ to.name = NoRoute) \/ issued

-----------------------------------------------------------------------------
(* Edits.                                                                  *)

Begin(e, work, alias, to) ==
    /\ edit[e].at = "idle"
    /\ edits < MaxEdits
    /\ edits' = edits + 1
    /\ edit' = [edit EXCEPT ![e] = [NoEdit EXCEPT !.at = "wait", !.work = work,
                                                  !.alias = alias, !.to = to]]
    /\ UNCHANGED <<registry, fileLock, intended, issued, lookup>>

\* PUT /v1/admin/routes asks for a route this host can authenticate to; the
\* command line asks for the shape only.
Routable == {Best} \cup {Direct(n) : n \in Local \cup {NoRoute}}

AdminSetRoute(e, alias, to) ==
    /\ Serviceable(to)
    /\ Begin(e, "set", alias, to)

CommandSetRoute(e, alias, to) == Begin(e, "set", alias, to)

\* The endpoint keeps the required aliases, the command line does not.
AdminDeleteRoute(e, alias) ==
    /\ alias \notin RequiredNames
    /\ Begin(e, "delete", alias, NoRoute)

CommandDeleteRoute(e, alias) == Begin(e, "delete", alias, NoRoute)

SetCategory(e) == Begin(e, "categorise", NoRoute, NoRoute)
DeleteCategory(e) == Begin(e, "uncategorise", NoRoute, NoRoute)
Migrate(e) == Begin(e, "migrate", NoRoute, NoRoute)

\* An adoption: the selected aliases of an offered registry.
BeginAdoption(e, source, chosen, replace) ==
    /\ edit[e].at = "idle"
    /\ edits < MaxEdits
    /\ edits' = edits + 1
    /\ edit' = [edit EXCEPT ![e] = [NoEdit EXCEPT !.at = "review", !.work = "adopt",
                     !.source = source, !.chosen = chosen, !.replace = replace]]
    /\ UNCHANGED <<registry, fileLock, intended, issued, lookup>>

AdminAdopt(e, source, chosen, replace) == BeginAdoption(e, source, chosen, replace)

\* The command line may also select whatever its own review finds importable
\* or unchanged.
CommandAdopt(e, source, chosen, replace) == BeginAdoption(e, source, chosen, replace)

\* evaluate(): an offered route is refused on a host without its capability,
\* `best` where no subscription was discovered.
Refused(to, discovered) == IF to = Best THEN ~discovered ELSE ~Serviceable(to)

\* A route that names an adapter has no deployment of that name in the
\* source: the whole adoption ends there.
Disappeared(source, alias) ==
    LET to == source.routes[alias]
    IN to.kind = "named" /\ \A d \in source.deployments : d.name # to.name

EndEdit(e) == edit' = [edit EXCEPT ![e] = NoEdit]

\* The review reads source and destination and keeps what each chosen alias
\* points at now; it takes no lock.
ReviewAdoption(e) ==
    /\ edit[e].at = "review"
    /\ \E discovered \in BOOLEAN :
          LET source == edit[e].source
              known == edit[e].chosen \cap Declared(source)
              kept == {a \in known : ~Refused(source.routes[a], discovered)}
          IN IF /\ ValidDocument(source) /\ ValidDocument(registry)
                /\ edit[e].chosen = known
                /\ \A a \in kept : ~Disappeared(source, a)
             THEN edit' = [edit EXCEPT ![e].at = "wait", ![e].chosen = kept,
                                       ![e].seen = [a \in kept |-> registry.routes[a]]]
             ELSE EndEdit(e)
    /\ UNCHANGED <<registry, fileLock, edits, intended, issued, lookup>>

\* Bug: nobody else is asked before the file is read.
AnybodyMayRead(e) == TRUE

MayRead(e) == fileLock = NoRoute

\* A deployment that is there already stands.
WithDeployments(r, source, name) ==
    IF \E d \in r.deployments : d.name = name THEN r.deployments
    ELSE r.deployments \cup {d \in source.deployments : d.name = name}

\* Bug: a deployment of the same name is taken for the same deployment.
DeploymentsNeverConflict(r, source, name) == FALSE

DeploymentConflicts(r, source, name) ==
    \E d \in r.deployments, o \in source.deployments : d.name = name /\ o.name = name /\ d # o

\* The disposition of one selected alias, decided on what the file says now.
Imports(x, r, alias) ==
    LET to == x.source.routes[alias]
    IN /\ r.routes[alias] = x.seen[alias]
       /\ r.routes[alias] # to
       /\ r.routes[alias] # NoRoute => x.replace
       /\ to.kind = "named" => ~DeploymentConflicts(r, x.source, to.name)

Merged(x, r) ==
    LET source == x.source
        taken == {a \in x.chosen : Imports(x, r, a)}
        names == {source.routes[a].name : a \in {b \in taken : source.routes[b].kind = "named"}}
    IN [r EXCEPT !.routes = [a \in Aliases |-> IF a \in taken THEN source.routes[a] ELSE @[a]],
                 !.deployments = UNION ({@} \cup {WithDeployments(r, source, n) : n \in names})]

\* What the edit x makes of the file, or the file itself when it has nothing
\* to write.
Edited(x, r) ==
    CASE x.work = "set" -> [r EXCEPT !.routes[x.alias] = x.to]
      [] x.work = "delete" -> [r EXCEPT !.routes[x.alias] = NoRoute]
      [] x.work = "categorise" -> [r EXCEPT !.categories = TRUE]
      [] x.work = "uncategorise" -> [r EXCEPT !.categories = FALSE]
      [] x.work = "migrate" -> [r EXCEPT !.extra = FALSE]
      [] x.work = "adopt" -> Merged(x, r)

\* A snapshot refuses a file whose destinations do not resolve.
StartEdit(e) ==
    /\ edit[e].at = "wait"
    /\ MayRead(e)
    /\ IF /\ Readable(registry)
          /\ edit[e].work \in {"adopt", "migrate"} => ValidDocument(Edited(edit[e], registry))
          /\ edit[e].work = "delete" => registry.routes[edit[e].alias] # NoRoute
          /\ edit[e].work = "uncategorise" => registry.categories
          /\ edit[e].work = "adopt" => Edited(edit[e], registry) # registry
       THEN /\ fileLock' = e
            /\ edit' = [edit EXCEPT ![e].at = "staged", ![e].draft = Edited(edit[e], registry)]
       ELSE EndEdit(e) /\ UNCHANGED fileLock
    /\ UNCHANGED <<registry, edits, intended, issued, lookup>>

\* The aliases an edit says it changed.
Changes(x) ==
    CASE x.work \in {"set", "delete"} -> {x.alias}
      [] x.work = "adopt" -> x.chosen
      [] OTHER -> {}

\* The staged file is read back, validated and renamed into place.
CommitEdit(e) ==
    /\ edit[e].at = "staged"
    /\ IF Readable(edit[e].draft)
       THEN /\ registry' = edit[e].draft
            /\ intended' = [a \in Aliases |-> IF a \in Changes(edit[e]) THEN edit[e].draft.routes[a]
                                              ELSE intended[a]]
       ELSE UNCHANGED <<registry, intended>>
    /\ fileLock' = NoRoute
    /\ EndEdit(e)
    /\ UNCHANGED <<edits, issued, lookup>>

\* The editor stops before the rename: the lock goes with its process.
StopEditor(e) ==
    /\ edit[e].at \in {"wait", "staged"}
    /\ fileLock' = IF fileLock = e THEN NoRoute ELSE fileLock
    /\ EndEdit(e)
    /\ UNCHANGED <<registry, edits, intended, issued, lookup>>

-----------------------------------------------------------------------------
(* A request's look-up of an alias: the file is read once for its route,   *)
(* again to ask whether the alias is declared, and again for a diagnosis.  *)

ServedRoute(alias) ==
    /\ Readable(registry)
    /\ registry.routes[alias] # NoRoute
    /\ Serviceable(registry.routes[alias])

IsDeclared(alias) ==
    \/ alias \in RequiredNames
    \/ ~Readable(registry)
    \/ registry.routes[alias] # NoRoute

AskRoute(alias) ==
    /\ lookup.at = "idle"
    /\ lookup' = IF ServedRoute(alias) THEN [at |-> "idle", alias |-> NoRoute, told |-> "route"]
                 ELSE [at |-> "declared", alias |-> alias, told |-> "none"]
    /\ UNCHANGED <<registry, fileLock, edit, edits, intended, issued>>

AskDeclared ==
    /\ lookup.at = "declared"
    /\ lookup' = IF IsDeclared(lookup.alias) THEN [lookup EXCEPT !.at = "diagnosis"]
                 ELSE [at |-> "idle", alias |-> NoRoute, told |-> "unknown"]
    /\ UNCHANGED <<registry, fileLock, edit, edits, intended, issued>>

\* A diagnosis that finds the alias serving lets the request on under the
\* alias's own name, which is no provider's route.
Diagnose ==
    /\ lookup.at = "diagnosis"
    /\ lookup' = [at |-> "idle", alias |-> NoRoute,
                  told |-> IF ServedRoute(lookup.alias) THEN "unknown" ELSE "unserviceable"]
    /\ UNCHANGED <<registry, fileLock, edit, edits, intended, issued>>

\* The vault issues or withdraws the provider's capability.
ChangeCapability ==
    /\ issued' = ~issued
    /\ UNCHANGED <<registry, fileLock, edit, edits, intended, lookup>>

RegistryNext ==
    \/ \E e \in Editors, a \in Aliases, to \in Routable :
          AdminSetRoute(e, a, to) \/ CommandSetRoute(e, a, to)
    \/ \E e \in Editors, a \in Aliases : AdminDeleteRoute(e, a) \/ CommandDeleteRoute(e, a)
    \/ \E e \in Editors, source \in Offered, chosen \in SUBSET Aliases \ {{}}, replace \in BOOLEAN :
          AdminAdopt(e, source, chosen, replace) \/ CommandAdopt(e, source, chosen, replace)
    \/ \E e \in Editors :
          \/ SetCategory(e) \/ DeleteCategory(e) \/ Migrate(e)
          \/ ReviewAdoption(e) \/ StartEdit(e) \/ CommitEdit(e) \/ StopEditor(e)
    \/ \E a \in Aliases : AskRoute(a)
    \/ AskDeclared \/ Diagnose \/ ChangeCapability

RegistrySpec == RegistryInit /\ [][RegistryNext]_registryVars

-----------------------------------------------------------------------------

\* The service and the command line edit one file, and a later write never
\* drops an earlier one's change (document.rs): the file says what the edits
\* that were confirmed said, each of its own aliases.
NoEditLost == registry.routes = intended

\* An adoption does what was selected and no more (importing.rs): an alias
\* it imports goes to the deployment the offered registry names for it, and
\* every alias outside the selection keeps its destination and goes where it
\* went, if it still goes anywhere.
SelectionOnly ==
    \A e \in Editors :
       edit[e].work = "adopt" /\ edit[e].at = "staged" /\ registry' # registry =>
          /\ \A a \in edit[e].chosen :
                LET to == edit[e].source.routes[a]
                IN registry'.routes[a] # registry.routes[a] /\ to.kind = "named" =>
                      EndpointOf(registry', a) = EndpointOf(edit[e].source, a)
          /\ \A a \in Aliases \ edit[e].chosen :
                /\ registry'.routes[a] = registry.routes[a]
                /\ EndpointOf(registry, a) # NoRoute =>
                      EndpointOf(registry', a) \in {EndpointOf(registry, a), NoRoute}

\* What an edit of the registry leaves of it.
RegistrySafe == [][NoEditLost' /\ SelectionOnly]_registryVars

Document == INSTANCE RouteDocument WITH
                routes <- registry.routes, deployments <- registry.deployments,
                categories <- registry.categories, extra <- registry.extra

\* The file behaves as one document that is edited at once (document.rs):
\* whatever editors wait, review an older file, are refused or stop, each
\* change of it is one whole edit of what it said then, the rest of it
\* stands, and every destination resolves.
EditsAtOnce == Document!DocumentSpec

=============================================================================
