----------------------------- MODULE Admission ------------------------------
(***************************************************************************)
(* Who a request is from, and whether it reaches its handler.              *)
(*                                                                         *)
(* The transport guard runs first.  A bearer is then looked up in the      *)
(* table the process was started with; one that is not there is put to     *)
(* Skarbiec, which issued a workload's token, then to Wisent Identity,     *)
(* which signed a person in, then to the person's organization.  Each      *)
(* authority may not answer, and the operator may revoke a bearer, or take *)
(* a person out of the organization, between any two of those calls.       *)
(***************************************************************************)
EXTENDS Integers, FiniteSets

CONSTANTS
    Visitors,         \* requests handled at once
    Declarable,       \* credentials the start-up table may declare:
                      \*   [client, token, agent, models]
    WorkloadTokens,   \* tokens Skarbiec issued
    PersonTokens,     \* tokens Wisent Identity issued
    AgentOf,          \* the audience of each workload token, or NoAgent
    RequiredAliases,  \* the aliases the managed gateway's client must hold
    RequiredClient,   \* that client
    MaxVisits,        \* bound of the requests a visitor sends
    MaxRevocations,   \* bound of the revocations
    NoAgent, NoScope, NoToken

ASSUME AdmissionAssumption ==
    /\ MaxVisits \in Nat
    /\ MaxRevocations \in Nat
    /\ WorkloadTokens \cap PersonTokens = {}
    /\ NoToken \notin WorkloadTokens \cup PersonTokens
    /\ AgentOf \in [WorkloadTokens -> {"own", NoAgent}]

VARIABLES
    gateway,      \* "starting", "serving", or "stopped" by a bad declaration
    table,        \* the credentials the process was started with
    skarbiecSet,  \* how the Skarbiec settings are declared
    wisentSet,    \* how the Wisent Identity settings are declared
    active,       \* the tokens their authority still honours
    inside,       \* the person tokens whose user is in the organization
    revoked,      \* how many revocations were made
    visit,        \* each visitor's request
    visits        \* how many requests were sent

admissionVars == <<gateway, table, skarbiecSet, wisentSet, active, inside,
                   revoked, visit, visits>>

Paths == {"inference", "capability", "account", "admin"}

NoVisit == [stage |-> "away", token |-> NoToken, path |-> "inference",
            organization |-> FALSE, signed |-> "none", workload |-> "unasked",
            person |-> "unasked", honoured |-> FALSE, scoped |-> FALSE,
            agent |-> NoAgent, answer |-> "none"]

AdmissionInit ==
    /\ gateway = "starting"
    /\ table = {}
    /\ skarbiecSet \in {"complete", "none", "partial"}
    /\ wisentSet \in {"complete", "partial"}
    /\ active = WorkloadTokens \cup PersonTokens
    /\ inside = PersonTokens
    /\ revoked = 0
    /\ visit = [v \in Visitors |-> NoVisit]
    /\ visits = 0

-----------------------------------------------------------------------------
(* Start-up: lifecycle/mod.rs and ingress.rs.                              *)

\* from_env: one credential per client, one per token, and a scope that is
\* named names at least one model.
WellFormedTable(declared) ==
    /\ \A c, d \in declared : (c.client = d.client \/ c.token = d.token) => c = d
    /\ \A c \in declared : c.models # {}

\* requires_aliases: an empty table is a gateway whose clients all ask their
\* authority; otherwise the client is in it, scoped, and holds every alias.
RequiresAliases(declared) ==
    \/ declared = {}
    \/ \E c \in declared :
          /\ c.client = RequiredClient
          /\ c.models # NoScope
          /\ RequiredAliases \subseteq c.models

StartServer(declared, standalone) ==
    /\ gateway = "starting"
    /\ IF WellFormedTable(declared) /\ (standalone \/ RequiresAliases(declared))
       THEN gateway' = "serving" /\ table' = declared
       ELSE gateway' = "stopped" /\ table' = {}
    /\ UNCHANGED <<skarbiecSet, wisentSet, active, inside, revoked, visit, visits>>

-----------------------------------------------------------------------------
(* The transport guard: transport.rs.                                      *)

\* forwarded_proto_is_https: both headers, when both are there, say https.
ForwardedHttps(forwarded, xForwarded) ==
    /\ <<forwarded, xForwarded>> # <<"absent", "absent">>
    /\ forwarded \in {"absent", "https"}
    /\ xForwarded \in {"absent", "https"}

\* declared_peers: an entry of a list that is no address fails the reading,
\* and then only loopback is served.
SecureTransport(peer, readable, https) ==
    \/ peer = "loopback"
    \/ readable /\ peer \in {"bound", "encrypted"}
    \/ readable /\ peer = "proxy" /\ https

-----------------------------------------------------------------------------

Answered(v, status) ==
    visit' = [visit EXCEPT ![v].stage = "answered", ![v].answer = status]

\* presented_bearer: one Authorization header, of the bearer scheme.
PresentedBearer(token) == token # NoToken

\* identity_for: the credential of the table whose token this is.
InTable(token) == {c \in table : c.token = token}

Arrive(v, token, path, organization, signed, peer, readable, forwarded, xForwarded) ==
    /\ gateway = "serving"
    /\ visit[v].stage \in {"away", "answered"}
    /\ visits < MaxVisits
    /\ visits' = visits + 1
    /\ LET came == [NoVisit EXCEPT !.token = token, !.path = path,
                       !.organization = organization, !.signed = signed,
                       !.honoured = token \in active
                                    /\ (token \in PersonTokens => token \in inside)]
       IN visit' = [visit EXCEPT ![v] =
            IF ~SecureTransport(peer, readable, ForwardedHttps(forwarded, xForwarded))
            THEN [came EXCEPT !.stage = "answered",
                     !.answer = IF readable THEN "upgrade" ELSE "misconfigured"]
            ELSE IF ~PresentedBearer(token)
            THEN [came EXCEPT !.stage = "answered", !.answer = "unauthorized"]
            ELSE IF InTable(token) # {}
            THEN LET c == CHOOSE c \in InTable(token) : TRUE
                 IN [came EXCEPT !.stage = "resolved", !.agent = c.agent,
                                 !.scoped = c.models # NoScope]
            ELSE [came EXCEPT !.stage = "skarbiec"]]
    /\ UNCHANGED <<gateway, table, skarbiecSet, wisentSet, active, inside, revoked>>

-----------------------------------------------------------------------------
(* Skarbiec: authority/skarbiec.rs, held.rs and response.rs.               *)

\* The capability the token was issued for this gateway: every workload
\* token of the model holds one, so an inactive token is the rejection.
Introspection(token) ==
    IF token \in WorkloadTokens \cap active THEN "resolved" ELSE "rejected"

\* held_at, the call, its status and read_json: a call that stands behind
\* another, a transport failure, a 5xx, a 429 and a body that is not the
\* answer are all the authority not answering.
SkarbiecAnswers(token) ==
    CASE skarbiecSet = "none" -> {"unconfigured"}
      [] skarbiecSet = "partial" -> {"unavailable"}
      [] skarbiecSet = "complete" -> {"unavailable", Introspection(token)}

AskSkarbiec(v) ==
    /\ visit[v].stage = "skarbiec"
    /\ \E answer \in SkarbiecAnswers(visit[v].token) :
          visit' = [visit EXCEPT ![v] =
             IF answer = "resolved"
             THEN [@ EXCEPT !.stage = "resolved", !.workload = answer, !.scoped = TRUE,
                            !.agent = AgentOf[visit[v].token]]
             ELSE [@ EXCEPT !.stage = "wisent", !.workload = answer]]
    /\ UNCHANGED <<gateway, table, skarbiecSet, wisentSet, active, inside,
                   revoked, visits>>

-----------------------------------------------------------------------------
(* Wisent Identity: authority/wisent.rs.                                   *)

WisentAnswers(token) ==
    IF wisentSet = "partial" THEN {"unavailable"}
    ELSE {"unavailable",
          IF token \in PersonTokens \cap active THEN "resolved" ELSE "rejected"}

\* Fault model for OutageNotUnauthorized: an outage is forgotten.
UnknownAlways401(workload) == "unauthorized"

\* What an unknown bearer is told: nobody's, unless the authority it may
\* belong to did not answer.
Unknown(workload) == IF workload = "unavailable" THEN "upstream" ELSE "unauthorized"

AskWisent(v) ==
    /\ visit[v].stage = "wisent"
    /\ \E answer \in WisentAnswers(visit[v].token) :
          LET asked == [visit[v] EXCEPT !.person = answer]
          IN visit' = [visit EXCEPT ![v] =
               CASE answer = "rejected" ->
                      [asked EXCEPT !.stage = "answered", !.answer = Unknown(asked.workload)]
                 [] answer = "unavailable" ->
                      [asked EXCEPT !.stage = "answered", !.answer = "upstream"]
                 [] answer = "resolved" /\ ~asked.organization ->
                      [asked EXCEPT !.stage = "answered", !.answer = "malformed"]
                 [] OTHER -> [asked EXCEPT !.stage = "organization"]]
    /\ UNCHANGED <<gateway, table, skarbiecSet, wisentSet, active, inside,
                   revoked, visits>>

\* Fault model for RevokedNotServed: membership is not asked again.
OrganizationTrusted(token) == {"upstream", "member"}

\* What the organization endpoint may answer for the bearer.
OrganizationAnswers(token) ==
    {"upstream", IF token \notin active THEN "unauthorized"
                 ELSE IF token \in inside THEN "member" ELSE "forbidden"}

\* authorize_organization; a member's identity is scoped to no model.
AskOrganization(v) ==
    /\ visit[v].stage = "organization"
    /\ \E answer \in OrganizationAnswers(visit[v].token) :
          visit' = [visit EXCEPT ![v] =
             IF answer = "member" THEN [@ EXCEPT !.stage = "resolved", !.scoped = TRUE]
             ELSE [@ EXCEPT !.stage = "answered", !.answer = answer]]
    /\ UNCHANGED <<gateway, table, skarbiecSet, wisentSet, active, inside,
                   revoked, visits>>

-----------------------------------------------------------------------------
(* The rest of require_model_bearer, and the handler: admission/mod.rs.    *)

\* The paths a model-scoped credential reaches: the subscription capability
\* paths, and inference and discovery.
ScopedPaths == {"capability", "inference"}

\* exact_agent_header: a bearer bound to an agent comes with no agent
\* headers, or with those of that agent.
AgentMatches(r) == r.agent = NoAgent \/ r.signed \in {"none", "own"}

Admit(v) ==
    /\ visit[v].stage = "resolved"
    /\ visit' = [visit EXCEPT ![v] =
          IF @.scoped /\ @.path \notin ScopedPaths
          THEN [@ EXCEPT !.stage = "answered", !.answer = "path refused"]
          ELSE IF ~AgentMatches(@)
          THEN [@ EXCEPT !.stage = "answered", !.answer = "agent refused"]
          ELSE [@ EXCEPT !.stage = "handler"]]
    /\ UNCHANGED <<gateway, table, skarbiecSet, wisentSet, active, inside,
                   revoked, visits>>

IsHuman(r) == r.person = "resolved"

\* The handlers' own checks: the console's paths are for a console client,
\* the account's for a signed-in person, and a capability path asked with
\* agent headers for the agent whose signature ReplayGuard accepts.
HandlerAdmits(r, console, verified) ==
    CASE r.path = "admin" -> console
      [] r.path = "account" -> IsHuman(r)
      [] r.path = "capability" -> r.signed = "none" \/ verified
      [] OTHER -> TRUE

Handle(v, console, verified) ==
    /\ visit[v].stage = "handler"
    /\ Answered(v, IF HandlerAdmits(visit[v], console, verified) THEN "served"
                   ELSE "handler refused")
    /\ UNCHANGED <<gateway, table, skarbiecSet, wisentSet, active, inside,
                   revoked, visits>>

-----------------------------------------------------------------------------
(* The operator, at the authorities.                                       *)

Revoke(token) ==
    /\ revoked < MaxRevocations
    /\ revoked' = revoked + 1
    /\ \/ token \in active /\ active' = active \ {token} /\ UNCHANGED inside
       \/ token \in inside /\ inside' = inside \ {token} /\ UNCHANGED active
    /\ UNCHANGED <<gateway, table, skarbiecSet, wisentSet, visit, visits>>

AllTokens == WorkloadTokens \cup PersonTokens \cup {c.token : c \in Declarable}

AdmissionNext ==
    \/ \E declared \in SUBSET Declarable, standalone \in BOOLEAN :
          StartServer(declared, standalone)
    \/ \E v \in Visitors, token \in AllTokens \cup {NoToken}, path \in Paths,
          organization \in BOOLEAN, signed \in {"none", "own", "other"} :
          Arrive(v, token, path, organization, signed, "loopback", TRUE, "absent", "absent")
    \/ \E v \in Visitors, peer \in {"bound", "encrypted", "proxy", "other"},
          readable \in BOOLEAN, forwarded, xForwarded \in {"absent", "https", "http"} :
          Arrive(v, NoToken, "inference", FALSE, "none", peer, readable, forwarded, xForwarded)
    \/ \E v \in Visitors : AskSkarbiec(v) \/ AskWisent(v) \/ AskOrganization(v) \/ Admit(v)
    \/ \E v \in Visitors, console, verified \in BOOLEAN : Handle(v, console, verified)
    \/ \E token \in AllTokens : Revoke(token)

AdmissionSpec == AdmissionInit /\ [][AdmissionNext]_admissionVars

-----------------------------------------------------------------------------

\* A bearer the process was not started with is put to its authority on
\* every request: one revoked before the request began, or whose user had
\* left the organization by then, never reaches a handler, whichever
\* authorities were asked in between (authority/mod.rs:3-7).
RevokedNotServed ==
    \A v \in Visitors :
       /\ visit[v].stage = "handler" \/ visit[v].answer = "served"
       /\ InTable(visit[v].token) = {}
       => visit[v].honoured

\* A caller is told its bearer is nobody's only when the authority it may
\* belong to said so: Skarbiec's silence is answered 401 only when Wisent
\* Identity knew the bearer and its organization endpoint no longer does.
OutageNotUnauthorized ==
    \A v \in Visitors :
       visit[v].answer = "unauthorized" /\ visit[v].workload = "unavailable"
          => visit[v].person = "resolved"

\* Who is let in, and what a refused caller is told (admission/mod.rs).
AdmissionSafe == RevokedNotServed /\ OutageNotUnauthorized

\* A signed-in person whom the organization admits is not refused the
\* account's own sign-in path: it is the one caller that path is for
\* (vercel-ingress/docs/http-api.html:65, "Wisent user session").
AccountPathReached ==
    \A v \in Visitors :
       IsHuman(visit[v]) /\ visit[v].path = "account" => visit[v].answer # "path refused"

=============================================================================
