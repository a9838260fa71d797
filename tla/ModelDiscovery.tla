--------------------------- MODULE ModelDiscovery ---------------------------
(***************************************************************************)
(* The models the pool's members publish: the routing snapshot a request   *)
(* reads without waiting, the walk over the members that fills the caches  *)
(* of models and of refusals, and the listing `/v1/models` answers.        *)
(*                                                                         *)
(* The routing refresh and the console's discovery walk the same members   *)
(* in one process and share the two caches; a lock per member makes one    *)
(* of them read for the other.                                             *)
(***************************************************************************)
EXTENDS Integers, FiniteSets, Sequences

CONSTANTS
    Discovered,    \* the members walked, in the listing's order
    RoutingWalk,   \* the walk of the routing refresh
    ConsoleWalk,   \* the walk of the console's discovery
    Unlocked       \* nobody

ASSUME ModelDiscoveryAssumption ==
    /\ RoutingWalk # ConsoleWalk
    /\ Unlocked \notin {RoutingWalk, ConsoleWalk}
    /\ Len(Discovered) \in Nat /\ DOMAIN Discovered = 1 .. Len(Discovered)

Walks == {RoutingWalk, ConsoleWalk}
Publishers == {Discovered[i] : i \in DOMAIN Discovered}

VARIABLES
    modelsYoung,  \* REGISTRY_MODEL_CACHE: the members whose entry is within its age
    failureYoung, \* REGISTRY_MODEL_FAILURE_CACHE: the same of the refusals
    readLock,     \* DISCOVERY_LOCKS: who reads each member
    walk,         \* each walk
    snapshotOf    \* the published result, and whether a refresh runs

discoveryVars == <<modelsYoung, failureYoung, readLock, walk, snapshotOf>>

LedgerRefusals == {"reauthorization"}

Resting == [stage |-> "idle", next |-> 1, landed |-> {}, refused |-> {}, found |-> {},
            failures |-> {}]

DiscoveryInit ==
    /\ modelsYoung = {}
    /\ failureYoung = {}
    /\ readLock = [p \in Publishers |-> Unlocked]
    /\ walk = [w \in Walks |-> Resting]
    /\ snapshotOf = [result |-> "none", found |-> {}, refreshing |-> FALSE]

At(w) == Discovered[walk[w].next]

-----------------------------------------------------------------------------
(* cache.rs.  A caller may take an entry within its declared age, or one   *)
(* that landed since the caller began.                                     *)

CachedModelsSince(w, p) == p \in modelsYoung \/ p \in walk[w].landed

CachedRefusalSince(w, p) == p \in failureYoung \/ p \in walk[w].refused

\* An age that is not declared leaves no entry young.
EntryAges(p) ==
    \/ /\ p \in modelsYoung
       /\ modelsYoung' = modelsYoung \ {p}
       /\ UNCHANGED <<failureYoung, readLock, walk, snapshotOf>>
    \/ /\ p \in failureYoung
       /\ failureYoung' = failureYoung \ {p}
       /\ UNCHANGED <<modelsYoung, readLock, walk, snapshotOf>>

-----------------------------------------------------------------------------
(* discover_subscription_models, one member of the walk at a time.         *)

\* The next member; what was found and what failed matters to the routing
\* refresh alone, the console only logs it.
After(w, found, failures) ==
    [walk[w] EXCEPT !.next = @ + 1, !.stage = "walk",
                    !.found = IF w = RoutingWalk THEN @ \cup found ELSE @,
                    !.failures = IF w = RoutingWalk THEN @ \cup failures ELSE @]

Found(w, p) == walk' = [walk EXCEPT ![w] = After(w, {p}, {})]
Failed(w, p, class) == walk' = [walk EXCEPT ![w] = After(w, {}, {<<p, class>>})]

\* A member the ledger refuses, as standing_refusal reads it, is not read.
SkipRefused(w, standing) ==
    /\ walk[w].stage = "walk" /\ walk[w].next <= Len(Discovered)
    /\ Failed(w, At(w), standing)
    /\ UNCHANGED <<modelsYoung, failureYoung, readLock, snapshotOf>>

TakeCached(w) ==
    /\ walk[w].stage = "walk" /\ walk[w].next <= Len(Discovered)
    /\ CachedModelsSince(w, At(w))
    /\ Found(w, At(w))
    /\ UNCHANGED <<modelsYoung, failureYoung, readLock, snapshotOf>>

\* Nothing cached: the member's lock is waited for.
WaitForMember(w) ==
    /\ walk[w].stage = "walk" /\ walk[w].next <= Len(Discovered)
    /\ ~CachedModelsSince(w, At(w))
    /\ walk' = [walk EXCEPT ![w].stage = "queued"]
    /\ UNCHANGED <<modelsYoung, failureYoung, readLock, snapshotOf>>

\* Bug: the caches are not read again once the lock is held.
ReadBeforeNever(w, p) == "nothing"

\* What the walk that waited finds once it has the lock: models, then a
\* refusal, else the member is read.
ReadBefore(w, p) ==
    IF CachedModelsSince(w, p) THEN "models"
    ELSE IF CachedRefusalSince(w, p) THEN "refusal" ELSE "nothing"

LockMemberRead(w) ==
    LET p == At(w) IN
    /\ walk[w].stage = "queued"
    /\ readLock[p] = Unlocked
    /\ \/ /\ ReadBefore(w, p) = "models" /\ Found(w, p) /\ UNCHANGED readLock
       \/ /\ ReadBefore(w, p) = "refusal" /\ Failed(w, p, "cached") /\ UNCHANGED readLock
       \/ /\ ReadBefore(w, p) = "nothing"
          /\ readLock' = [readLock EXCEPT ![p] = w]
          /\ walk' = [walk EXCEPT ![w].stage = "reading"]
    /\ UNCHANGED <<modelsYoung, failureYoung, snapshotOf>>

\* A result lands in a cache: every walk that began takes it from there.
Lands(w, p, field, after) ==
    walk' = [v \in Walks |->
               IF v = w THEN after
               ELSE IF walk[v].stage = "idle" THEN walk[v]
               ELSE [walk[v] EXCEPT ![field] = @ \cup {p}]]

ReadModels(w, declared) ==
    LET p == At(w) IN
    /\ walk[w].stage = "reading"
    /\ modelsYoung' = IF declared THEN modelsYoung \cup {p} ELSE modelsYoung
    /\ Lands(w, p, "landed", After(w, {p}, {}))
    /\ readLock' = [readLock EXCEPT ![p] = Unlocked]
    /\ UNCHANGED <<failureYoung, snapshotOf>>

\* The credential cannot be had, or the provider lists nothing: cached.
ReadRefused(w, class, declared) ==
    LET p == At(w) IN
    /\ walk[w].stage = "reading"
    /\ failureYoung' = IF declared THEN failureYoung \cup {p} ELSE failureYoung
    /\ Lands(w, p, "refused", After(w, {}, {<<p, class>>}))
    /\ readLock' = [readLock EXCEPT ![p] = Unlocked]
    /\ UNCHANGED <<modelsYoung, snapshotOf>>

\* A credential that is not UTF-8 is a failure and is not cached.
ReadUnreadable(w) ==
    /\ walk[w].stage = "reading"
    /\ Failed(w, At(w), "provider_failure")
    /\ readLock' = [readLock EXCEPT ![At(w)] = Unlocked]
    /\ UNCHANGED <<modelsYoung, failureYoung, snapshotOf>>

\* discovery_class: the failure that tells most, before the first.
Telling == <<"dependency", "quota", "limited", "unauthorized", "reauthorization">>
DiscoveryClass(failures) ==
    LET named == {i \in DOMAIN Telling : \E f \in failures : f[2] = Telling[i]}
        least(S) == CHOOSE i \in S : \A j \in S : i <= j
        walked(p) == CHOOSE i \in DOMAIN Discovered : Discovered[i] = p
    IN  IF named # {} THEN Telling[least(named)]
        ELSE (CHOOSE f \in failures : \A g \in failures : walked(f[1]) <= walked(g[1]))[2]

\* An error only when no member published a model.
ResultOf(w) ==
    IF walk[w].found = {} /\ walk[w].failures # {} THEN DiscoveryClass(walk[w].failures) ELSE "models"

-----------------------------------------------------------------------------
(* cache/routing.rs and console.rs.                                        *)

BeginWalk(w) == walk' = [walk EXCEPT ![w] = [Resting EXCEPT !.stage = "walk"]]

\* models(): what is published is returned, and a refresh started beside it.
StartRouting ==
    /\ ~snapshotOf.refreshing
    /\ snapshotOf' = [snapshotOf EXCEPT !.refreshing = TRUE]
    /\ BeginWalk(RoutingWalk)
    /\ UNCHANGED <<modelsYoung, failureYoung, readLock>>

EndRouting ==
    /\ walk[RoutingWalk].stage = "walk" /\ walk[RoutingWalk].next > Len(Discovered)
    /\ snapshotOf' = [result |-> ResultOf(RoutingWalk), refreshing |-> FALSE,
                      found |-> walk[RoutingWalk].found]
    /\ walk' = [walk EXCEPT ![RoutingWalk] = Resting]
    /\ UNCHANGED <<modelsYoung, failureYoung, readLock>>

\* CONSOLE_DISCOVERY_RUNNING: one discovery of the console at a time.
StartConsole ==
    /\ walk[ConsoleWalk].stage = "idle"
    /\ BeginWalk(ConsoleWalk)
    /\ UNCHANGED <<modelsYoung, failureYoung, readLock, snapshotOf>>

EndConsole ==
    /\ walk[ConsoleWalk].stage = "walk" /\ walk[ConsoleWalk].next > Len(Discovered)
    /\ walk' = [walk EXCEPT ![ConsoleWalk] = Resting]
    /\ UNCHANGED <<modelsYoung, failureYoung, readLock, snapshotOf>>

-----------------------------------------------------------------------------
(* list_models: core/server/catalog/models.rs.  Each member's models stand *)
(* for the routes of its provider.                                         *)

\* Bug: a route whose capability cannot be read keeps its place among the
\* available ones.
WithoutUnreadableKept(available, unreadable) == available

WithoutUnreadable(available, unreadable) == available \ unreadable

\* What a request is answered.  `allowed` are the routes the client's identity
\* names, `configured` those whose provider's capability is configured and
\* `unreadable` those whose capability cannot be read.
Listing(console, allowed, configured, unreadable) ==
    LET young == IF console THEN modelsYoung ELSE {}
        mine == IF snapshotOf.result = "models" THEN snapshotOf.found ELSE {}
        named == allowed \cap (configured \cup unreadable)
    IN  [ids |-> (mine \cup young \cup named) \cap allowed,
         available |-> WithoutUnreadable(mine \cup young, allowed \cap unreadable)
                           \cup (allowed \cap (configured \ unreadable)),
         reasons |-> allowed \cap unreadable]

\* views.rs: `openai` lets a reason override availability, `jeden` does not.
AvailableJeden(listing, id) == id \in listing.available
AvailableOpenai(listing, id) == id \in listing.available /\ id \notin listing.reasons

DiscoveryNext ==
    \/ \E p \in Publishers : EntryAges(p)
    \/ \E w \in Walks :
         \/ \E standing \in LedgerRefusals : SkipRefused(w, standing)
         \/ TakeCached(w) \/ WaitForMember(w) \/ LockMemberRead(w)
         \/ ReadUnreadable(w)
         \/ \E declared \in BOOLEAN :
              ReadModels(w, declared)
              \/ \E class \in {"dependency", "unauthorized"} : ReadRefused(w, class, declared)
    \/ StartRouting \/ EndRouting \/ StartConsole \/ EndConsole

DiscoverySpec == DiscoveryInit /\ [][DiscoveryNext]_discoveryVars

-----------------------------------------------------------------------------
\* Coalescing: a walk asks a member's provider only for what nothing answered
\* since the walk began.  While it reads a member, no result of that member
\* has landed, neither models nor a refusal, that it was entitled to take.
NoQueuedReread ==
    \A w \in Walks : walk[w].stage = "reading" =>
        At(w) \notin walk[w].landed \cup walk[w].refused

\* The two forms of `/v1/models` agree on what a client may use, whatever the
\* caches, the published snapshot and the capabilities are when it is read.
\* The client is one that may use every route; what one may not use is left
\* out of both forms.
ViewsAgree ==
    ~snapshotOf.refreshing /\ modelsYoung \cup snapshotOf.found # {} =>
        \A console \in BOOLEAN, configured, unreadable \in SUBSET Publishers :
            LET listing == Listing(console, Publishers, configured, unreadable)
            IN  \A id \in listing.ids :
                    AvailableJeden(listing, id) = AvailableOpenai(listing, id)

\* What the two walks of the members share, and what they publish.
DiscoverySafe == NoQueuedReread /\ ViewsAgree

=============================================================================
