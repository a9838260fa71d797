------------------------------ MODULE Rotation ------------------------------
(***************************************************************************)
(* Model requests, each walked across the pool of subscriptions that may   *)
(* pay for it until a provider answers or nothing is left.                 *)
(*                                                                         *)
(* A request names one route or is a selector over several; it is answered *)
(* whole or as a stream.  Every request of the process, its probes, sweeps *)
(* and reports, sign-ins and the owner share the usage ledger, the journal *)
(* of retirements and the routing inventory, each read and written under   *)
(* its own lock: anything may happen between two reads of one walk.        *)
(*                                                                         *)
(* Plan headroom and chance order a roster; here any order is taken in     *)
(* which the pinned member leads and the members that were blocked when    *)
(* the roster was read come last.  What a vault or a provider answers is   *)
(* any of the outcomes the walk tells apart.                               *)
(***************************************************************************)
EXTENDS PoolVerdict, FiniteSets

CONSTANTS
    Requests,
    Agents,      \* the identities requests are made by
    Routes,      \* provider/model routes
    RouteOf,     \* the provider of a route
    Members,     \* subscription ids
    MemberOf,    \* the provider of a member
    Resets,      \* the instants providers name for the end of a window
    Found,       \* the rows a member may have at the start
    FoundPins,   \* the pins an agent may have at the start
    MaxTime,     \* bound of the clock
    MaxAsked,    \* bound of the requests made
    MaxOutside   \* bound of what others do to the pool

Providers == {RouteOf[x] : x \in Routes} \cup {MemberOf[m] : m \in Members}

Cause == CHOOSE c \in Causes : TRUE

ASSUME RotationAssumption ==
    /\ DOMAIN RouteOf = Routes /\ DOMAIN MemberOf = Members
    /\ Resets \subseteq Nat /\ {MaxTime, MaxAsked, MaxOutside} \subseteq Nat /\ Causes # {}
    /\ Found \subseteq Rows \cup {None}
    /\ FoundPins \subseteq [member : Members, until : Nat \cup {None}] \cup {None}
    /\ None \notin Requests \cup Routes \cup Members \cup Classes \cup Faults

VARIABLES
    ledger,   \* the usage ledger's rows
    retired,  \* the journal: the members is_retired answers yes for
    listed,   \* the routing snapshot's active members, None without a snapshot
    pins,     \* per agent and provider the pinned member and its expiry
    now,
    asked,    \* the requests made so far
    outside,  \* what others did so far
    owing,    \* the retirements and reinstatements journaled, not yet in the ledger
    pc,       \* where each request stands
    ask,      \* what each request asked for
    ranked,   \* the selector's walk over routes (RankedWalk)
    walk,     \* the walk over the current route's members
    answer,   \* what the request is answered with, None before
    paid,     \* the provider calls made for the request
    stood     \* how each member stood while the walk read its block

pool == <<retired, listed, pins>>
world == <<now, asked, outside, owing>>
vars == <<ledger, pool, world, pc, ask, ranked, walk, answer, paid, stood>>

\* A walk reads of a credential only that it waits for a sign-in: a grant
\* in order is kept as none, and no instants.
Kept(row) ==
    [Entry(row) EXCEPT !.credential =
        IF AwaitingSignIn(row) THEN Credential(StateOf(row), Cause, 0, None) ELSE None]

Asks == [agent : Agents, selector : BOOLEAN, streaming : BOOLEAN,
         target : Members \cup {None}]

NoRanked == [left |-> {}, attempts |-> 0, classes |-> {}, emptied |-> {}]

NoWalk == [route |-> None, lead |-> None, live |-> {}, blocked |-> {}, at |-> None,
           saw |-> {}, fault |-> None, limit |-> None, attempts |-> 0,
           got |-> None, fresh |-> FALSE]

Unwatched == [m \in Members |-> {}]

\* The reads of one member's block.
Reading == {"blocked", "spent"}

Stages == {"idle", "routing", "sizing", "roster", "member", "redeem", "call",
           "refresh", "retry", "verdict", "retire", "disable", "rejected",
           "committed", "answered"} \cup Reading

Standings ==
    {"owed", "disabled", "free", "rate_limited", "quota_exhausted", "unauthorized"}

Answers == [class : Classes, attempts : Nat]

Ranks == [left : SUBSET Routes, attempts : Nat, classes : SUBSET Classes,
          emptied : SUBSET Providers]

Walks == [route : Routes \cup {None}, lead : Members \cup {None}, live : SUBSET Members,
          blocked : SUBSET Members, at : Members \cup {None}, saw : SUBSET Observations,
          fault : Faults \cup {None}, limit : {None, "rate_limited", "quota_exhausted"},
          attempts : Nat, got : ProviderAnswers \cup {None}, fresh : BOOLEAN]

RotationTypeOK ==
    /\ ledger \in [Members -> Rows]
    /\ retired \in SUBSET Members
    /\ listed \in (SUBSET Members) \cup {None}
    /\ now \in 0 .. MaxTime /\ asked \in 0 .. MaxAsked /\ outside \in 0 .. MaxOutside
    /\ owing \in SUBSET ({"retire", "reinstate"} \X Members)
    /\ pc \in [Requests -> Stages]
    /\ ask \in [Requests -> Asks \cup {None}]
    /\ ranked \in [Requests -> Ranks]
    /\ walk \in [Requests -> Walks]
    /\ answer \in [Requests -> Answers \cup {None}]
    /\ paid \in [Requests -> Nat]
    /\ stood \in [Requests -> [Members -> SUBSET Standings]]

\* A gateway that has served before.
Init ==
    /\ ledger \in [Members -> {Kept(row) : row \in Found}]
    /\ retired \in SUBSET Members
    /\ listed \in {None, Members}
    /\ pins \in [Agents -> [Providers -> FoundPins]]
    /\ now = 0 /\ asked = 0 /\ outside = 0 /\ owing = {}
    /\ pc = [r \in Requests |-> "idle"]
    /\ ask = [r \in Requests |-> None]
    /\ ranked = [r \in Requests |-> NoRanked]
    /\ walk = [r \in Requests |-> NoWalk]
    /\ answer = [r \in Requests |-> None]
    /\ paid = [r \in Requests |-> 0]
    /\ stood = [r \in Requests |-> Unwatched]

-----------------------------------------------------------------------------
(***************************************************************************)
(* Steps shared by the actions below.                                      *)
(***************************************************************************)
Goto(r, stage) == pc' = [pc EXCEPT ![r] = stage]

\* continue: the next member of the roster.
NextOne(r, w) ==
    /\ Goto(r, "member")
    /\ walk' = [walk EXCEPT ![r] = [w EXCEPT !.at = None, !.got = None, !.fresh = FALSE]]

Standing(row, t) ==
    IF Disowned(row) THEN "owed"
    ELSE IF StateOf(row) = "disabled" THEN "disabled"
    ELSE IF IsBlocked(row, t) THEN row.block.why ELSE "free"

\* What the walks that are reading a member's block could read from now on.
Watch(rows, t) ==
    stood' = [r \in Requests |-> [m \in Members |->
                IF pc[r] \in Reading /\ walk[r].at = m
                  THEN stood[r][m] \cup {Standing(rows[m], t)} ELSE stood[r][m]]]

SetRow(m, row) ==
    LET rows == [ledger EXCEPT ![m] = Kept(row)]
    IN ledger' = rows /\ Watch(rows, now)

\* RouteAttempt::refused and pool_empty: a named route's refusal is the
\* answer; a selector notes it and goes on.
RouteRefused(r, class, attempts, emptied) ==
    /\ walk' = [walk EXCEPT ![r] = NoWalk]
    /\ \/ /\ ask[r].selector
          /\ Goto(r, "routing")
          /\ LET provider == IF emptied THEN {RouteOf[walk[r].route]} ELSE {}
             IN ranked' = [ranked EXCEPT ![r].attempts = @ + attempts,
                                         ![r].classes = @ \cup {class},
                                         ![r].emptied = @ \cup provider]
          /\ answer' = answer
       \/ /\ ~ask[r].selector
          /\ Goto(r, "answered")
          /\ answer' = [answer EXCEPT ![r] = [class |-> class, attempts |-> attempts]]
          /\ ranked' = ranked

\* RouteAttempt::served: the agent is pinned to the member that served it,
\* until the next reset its plan reports, if it reports one.
Served(r, attempts) ==
    /\ \E until \in {t \in Resets : t > now} \cup {None} :
         pins' = [pins EXCEPT ![ask[r].agent][RouteOf[walk[r].route]] =
                    [member |-> walk[r].at, until |-> until]]
    /\ answer' = [answer EXCEPT ![r] =
                    [class |-> "ok", attempts |-> ranked[r].attempts + attempts]]
    /\ Goto(r, IF ask[r].streaming THEN "committed" ELSE "answered")

-----------------------------------------------------------------------------
(***************************************************************************)
(* A request arrives and its routes are walked.                            *)
(***************************************************************************)
Arrives(r) == pc[r] = "idle" /\ asked < MaxAsked /\ asked' = asked + 1

Start(r) ==
    /\ Arrives(r)
    /\ \E a \in Asks, routes \in SUBSET Routes :
         /\ ~a.selector => Cardinality(routes) = 1
         /\ a.target # None => ~a.selector
         /\ ask' = [ask EXCEPT ![r] = a]
         /\ ranked' = [ranked EXCEPT ![r].left = routes]
    /\ Goto(r, "routing")
    /\ UNCHANGED <<ledger, pool, now, outside, owing, walk, answer, paid, stood>>

\* A caller whose signature fails, a route of no provider, a selector whose
\* candidates could not be listed.
Declined(r) ==
    /\ Arrives(r)
    /\ \E a \in Asks, class \in GatewayRefusals \cup {"rate_limited", "quota_exhausted"} :
         /\ a.target = None
         /\ a.selector \/ class \in {"invalid", "unauthenticated"}
         /\ ask' = [ask EXCEPT ![r] = a]
         /\ answer' = [answer EXCEPT ![r] = [class |-> class, attempts |-> 0]]
    /\ Goto(r, "answered")
    /\ UNCHANGED <<ledger, pool, now, outside, owing, ranked, walk, paid, stood>>

\* Bug: a provider that has emptied is asked again for its next model.
NextRouteReasked(r) ==
    /\ pc[r] = "routing"
    /\ \E x \in ranked[r].left :
         /\ ranked' = [ranked EXCEPT ![r].left = @ \ {x}]
         /\ walk' = [walk EXCEPT ![r] = [NoWalk EXCEPT !.route = x]]
         /\ stood' = [stood EXCEPT ![r] = Unwatched]
         /\ Goto(r, "sizing")
    /\ UNCHANGED <<ledger, pool, world, ask, answer, paid>>

\* The next candidate; one of a provider that has emptied is passed over.
NextRoute(r) ==
    /\ pc[r] = "routing"
    /\ \E x \in ranked[r].left :
         /\ ranked' = [ranked EXCEPT ![r].left = @ \ {x}]
         /\ IF RouteOf[x] \in ranked[r].emptied
              THEN UNCHANGED <<pc, walk, stood>>
              ELSE /\ walk' = [walk EXCEPT ![r] = [NoWalk EXCEPT !.route = x]]
                   /\ stood' = [stood EXCEPT ![r] = Unwatched]
                   /\ Goto(r, "sizing")
    /\ UNCHANGED <<ledger, pool, world, ask, answer, paid>>

\* into_failure
NoRouteLeft(r) ==
    /\ pc[r] = "routing" /\ ranked[r].left = {}
    /\ answer' = [answer EXCEPT ![r] = [class |-> WalkedClass(ranked[r].classes),
                                        attempts |-> ranked[r].attempts]]
    /\ Goto(r, "answered")
    /\ UNCHANGED <<ledger, pool, world, ask, ranked, walk, paid, stood>>

\* sized_request
Size(r) ==
    /\ pc[r] = "sizing"
    /\ \/ Goto(r, "roster") /\ UNCHANGED <<ranked, walk, answer>>
       \/ \E class \in {"invalid", "dependency"} : RouteRefused(r, class, 0, FALSE)
    /\ UNCHANGED <<ledger, pool, world, ask, paid, stood>>

-----------------------------------------------------------------------------
(***************************************************************************)
(* The roster (ordered_candidate_rows).                                    *)
(***************************************************************************)
Eligible(r) ==
    {m \in listed : /\ MemberOf[m] = RouteOf[walk[r].route]
                    /\ ask[r].target \in {None, m}
                    /\ m \notin retired}

\* The pin still inside its own window.
Pinned(a, p) ==
    LET pin == pins[a][p] IN
    IF pin = None \/ (pin.until # None /\ pin.until <= now) THEN None ELSE pin.member

\* full: the pinned member's tightest window is at its limit.
Roster(r, full) ==
    LET rows == Eligible(r)
        pin == Pinned(ask[r].agent, RouteOf[walk[r].route])
        open == {m \in rows : ~IsBlocked(ledger[m], now)}
        lead == IF pin \in open /\ ~full THEN pin ELSE None
    IN [walk[r] EXCEPT !.lead = lead, !.live = open \ {lead}, !.blocked = rows \ open]

\* An expired pin is dropped where it is read.
Unpinned(r) ==
    LET a == ask[r].agent
        p == RouteOf[walk[r].route]
    IN [pins EXCEPT ![a][p] = IF Pinned(a, p) = None THEN None ELSE @]

ReadRoster(r) ==
    /\ pc[r] = "roster"
    /\ listed # None /\ Eligible(r) # {}
    /\ \E full \in BOOLEAN : walk' = [walk EXCEPT ![r] = Roster(r, full)]
    /\ pins' = Unpinned(r)
    /\ Goto(r, "member")
    /\ UNCHANGED <<ledger, retired, listed, world, ask, ranked, answer, paid, stood>>

\* No inventory, a target of another provider or an unreadable journal, no
\* member to bill, no randomness: the pool is empty before it is walked.
NoRoster(r) ==
    /\ pc[r] = "roster"
    /\ \/ listed = None /\ RouteRefused(r, "dependency", 0, TRUE)
       \/ listed # None /\ RouteRefused(r, "invalid", 0, TRUE)
       \/ listed # None /\ Eligible(r) = {} /\ RouteRefused(r, "unauthorized", 0, TRUE)
       \/ listed # None /\ Eligible(r) # {} /\ RouteRefused(r, "dependency", 0, TRUE)
    /\ UNCHANGED <<ledger, pool, world, ask, paid, stood>>

-----------------------------------------------------------------------------
(***************************************************************************)
(* One member: its block, its credential.                                  *)
(***************************************************************************)
\* The rows in the order of the roster: the pinned, the live, the blocked.
Following(w) ==
    IF w.lead # None THEN {w.lead} ELSE IF w.live # {} THEN w.live ELSE w.blocked

At(w, m) ==
    [w EXCEPT !.lead = None, !.live = @ \ {m}, !.blocked = @ \ {m}, !.at = m]

\* is_blocked: a member inside a block is not asked.
NextMember(r) ==
    /\ pc[r] = "member"
    /\ \E m \in Following(walk[r]) :
         /\ walk' = [walk EXCEPT ![r] = At(@, m)]
         /\ IF IsBlocked(ledger[m], now)
              THEN /\ Goto(r, "blocked")
                   /\ stood' = [stood EXCEPT ![r][m] = {Standing(ledger[m], now)}]
              ELSE /\ Goto(r, "redeem")
                   /\ stood' = stood
    /\ UNCHANGED <<ledger, pool, world, ask, ranked, answer, paid>>

Saw(r, what) == NextOne(r, [walk[r] EXCEPT !.saw = @ \cup {what}])

\* Bug: the credential's state is not read, only its block.
ReadBlockOnly(r) ==
    /\ pc[r] = "blocked"
    /\ Goto(r, "spent")
    /\ UNCHANGED <<ledger, pool, world, ask, ranked, walk, answer, paid, stood>>

\* needs_reauthorization
ReadReauthorization(r) ==
    /\ pc[r] = "blocked"
    /\ IF Disowned(ledger[walk[r].at])
         THEN Saw(r, "reauthorization_block")
         ELSE Goto(r, "spent") /\ UNCHANGED walk
    /\ UNCHANGED <<ledger, pool, world, ask, ranked, answer, paid, stood>>

\* is_quota_exhausted; the instant the wait ends goes into the sentence only.
ReadSpent(r) ==
    /\ pc[r] = "spent"
    /\ LET row == ledger[walk[r].at] IN
       Saw(r, IF IsBlocked(row, now) /\ row.block.why = "quota_exhausted"
                THEN "quota_exhausted_block" ELSE "rate_limit_block")
    /\ UNCHANGED <<ledger, pool, world, ask, ranked, answer, paid, stood>>

\* broker::subscription_credential, which records a grant in working order,
\* one the provider disowned, or nothing.
Redeem(r) ==
    /\ pc[r] = "redeem"
    /\ LET m == walk[r].at IN
       \/ /\ \E row \in {ledger[m], Active(ledger[m], None, TRUE, now)} : SetRow(m, row)
          /\ Goto(r, "call")
          /\ UNCHANGED walk
       \/ \E row \in {ledger[m], Refused(ledger[m], Cause, now)}, f \in Faults :
            /\ SetRow(m, row)
            /\ NextOne(r, [walk[r] EXCEPT !.saw = @ \cup {"unredeemable_credential"},
                                          !.fault = f])
    /\ UNCHANGED <<pool, world, ask, ranked, answer, paid>>

-----------------------------------------------------------------------------
(***************************************************************************)
(* One member: the provider's answer.                                      *)
(***************************************************************************)
\* What record_call keeps here: an answer clears the block and the refusal.
Recorded(m, got) == IF got = "ok" THEN Answered(ledger[m], now) ELSE ledger[m]

\* A buffered call is recorded at once; a stream that opened when it ends.
Record(r, got) ==
    IF ask[r].streaming THEN UNCHANGED <<ledger, stood>>
    ELSE SetRow(walk[r].at, Recorded(walk[r].at, got))

Asked(r, got, fresh) ==
    /\ walk' = [walk EXCEPT ![r].attempts = @ + 1, ![r].got = got, ![r].fresh = fresh]
    /\ paid' = [paid EXCEPT ![r] = @ + 1]
    /\ Record(r, got)

Call(r) ==
    /\ pc[r] = "call"
    /\ \E got \in ProviderAnswers :
         /\ Asked(r, got, FALSE)
         /\ IF got = "ok" THEN Served(r, walk[r].attempts + 1)
            ELSE /\ Goto(r, IF RefusedCredential(got) THEN "refresh" ELSE "verdict")
                 /\ UNCHANGED <<pins, answer>>
    /\ UNCHANGED <<retired, listed, world, ask, ranked>>

\* broker::refresh_subscription_credential
Refresh(r) ==
    /\ pc[r] = "refresh"
    /\ LET m == walk[r].at IN
       \/ /\ SetRow(m, Active(ledger[m], None, TRUE, now))
          /\ Goto(r, "retry")
          /\ UNCHANGED walk
       \/ \E row \in {ledger[m], Refused(ledger[m], Cause, now)}, f \in Faults :
            /\ SetRow(m, row)
            /\ Goto(r, "verdict")
            /\ walk' = [walk EXCEPT ![r].fault = f]
    /\ UNCHANGED <<pool, world, ask, ranked, answer, paid>>

\* Bug: the call with the fresh token is not counted.
RetryUncounted(r) ==
    /\ pc[r] = "retry"
    /\ \E got \in ProviderAnswers :
         /\ walk' = [walk EXCEPT ![r].got = got, ![r].fresh = RefusedCredential(got)]
         /\ paid' = [paid EXCEPT ![r] = @ + 1]
         /\ Record(r, got)
         /\ IF got = "ok" THEN Served(r, walk[r].attempts)
            ELSE Goto(r, "verdict") /\ UNCHANGED <<pins, answer>>
    /\ UNCHANGED <<retired, listed, world, ask, ranked>>

\* The one retry, with the token the refresh produced.
Retry(r) ==
    /\ pc[r] = "retry"
    /\ \E got \in ProviderAnswers :
         /\ Asked(r, got, RefusedCredential(got))
         /\ IF got = "ok" THEN Served(r, walk[r].attempts + 1)
            ELSE Goto(r, "verdict") /\ UNCHANGED <<pins, answer>>
    /\ UNCHANGED <<retired, listed, world, ask, ranked>>

\* A failed call that condemns the credential, the route, or only the wait.
\* A stream's refusal states the attempts of its own call, at most one.
Verdict(r) ==
    /\ pc[r] = "verdict"
    /\ LET w == walk[r]
           m == w.at
       IN \/ /\ RefusedCredential(w.got)
             /\ Goto(r, IF w.fresh THEN "retire" ELSE "rejected")
             /\ SetRow(m, Recorded(m, w.got))
             /\ UNCHANGED <<walk, ranked, answer>>
          \/ /\ w.got = "other"
             /\ \E n \in (IF ask[r].streaming THEN {0, 1} ELSE {w.attempts}) :
                  RouteRefused(r, "other", n, FALSE)
             /\ SetRow(m, Recorded(m, w.got))
          \/ /\ ExhaustedCredential(w.got)
             /\ \E until \in Resets \cup {now} :
                  SetRow(m, Blocked(Recorded(m, w.got), until, w.got, now))
             /\ NextOne(r, [w EXCEPT !.limit = w.got])
             /\ UNCHANGED <<ranked, answer>>
    /\ UNCHANGED <<pool, world, ask, paid>>

\* mark_credential_revoked: the journal, which may not be written, and then
\* the ledger.
Retire(r) ==
    /\ pc[r] = "retire"
    /\ \/ retired' = retired \cup {walk[r].at} /\ Goto(r, "disable")
       \/ retired' = retired /\ Goto(r, "rejected")
    /\ UNCHANGED <<ledger, listed, pins, world, ask, ranked, walk, answer, paid, stood>>

Disable(r) ==
    /\ pc[r] = "disable"
    /\ SetRow(walk[r].at, Disabled(ledger[walk[r].at], Cause, now))
    /\ Goto(r, "rejected")
    /\ UNCHANGED <<pool, world, ask, ranked, walk, answer, paid>>

Rejected(r) ==
    /\ pc[r] = "rejected"
    /\ Saw(r, "auth_rejection")
    /\ UNCHANGED <<ledger, pool, world, ask, ranked, answer, paid, stood>>

\* emptied_pool_refusal
Emptied(r) ==
    /\ pc[r] = "member" /\ Following(walk[r]) = {}
    /\ LET w == walk[r] IN
       RouteRefused(r, EmptiedClass(w.saw, w.fault, w.limit), w.attempts, TRUE)
    /\ UNCHANGED <<ledger, pool, world, ask, paid, stood>>

\* The recorder's one record, however a committed stream ends.
StreamEnds(r) ==
    /\ pc[r] = "committed"
    /\ \E got \in {"ok", "other"} : SetRow(walk[r].at, Recorded(walk[r].at, got))
    /\ Goto(r, "answered")
    /\ UNCHANGED <<pool, world, ask, ranked, walk, answer, paid>>

\* The answer reaches the caller, who may ask again.
Deliver(r) ==
    /\ pc[r] = "answered"
    /\ Goto(r, "idle")
    /\ ask' = [ask EXCEPT ![r] = None]
    /\ ranked' = [ranked EXCEPT ![r] = NoRanked]
    /\ walk' = [walk EXCEPT ![r] = NoWalk]
    /\ answer' = [answer EXCEPT ![r] = None]
    /\ paid' = [paid EXCEPT ![r] = 0]
    /\ stood' = [stood EXCEPT ![r] = Unwatched]
    /\ UNCHANGED <<ledger, pool, world>>

-----------------------------------------------------------------------------
(***************************************************************************)
(* What the rest of the process does to the pool.                          *)
(***************************************************************************)
requests == <<pc, ask, ranked, walk, answer, paid>>

Bounded == outside < MaxOutside /\ outside' = outside + 1

\* A sign-in, a probe's answer, a renewal's outcome, a harness's report.
LedgerWritten(m) ==
    /\ Bounded
    /\ \/ SetRow(m, SignedIn(ledger[m], now))
       \/ SetRow(m, Answered(ledger[m], now))
       \/ SetRow(m, Active(ledger[m], None, TRUE, now))
       \/ SetRow(m, Refused(ledger[m], Cause, now))
       \/ \E t \in Resets : SetRow(m, Reported(ledger[m], t))
    /\ UNCHANGED <<pool, now, asked, owing, requests>>

\* What the owner does is journaled first; the ledger's record follows.
OwnerRetires(m) ==
    /\ Bounded
    /\ retired' = retired \cup {m}
    /\ owing' = owing \cup {<<"retire", m>>}
    /\ UNCHANGED <<ledger, listed, pins, now, asked, requests, stood>>

\* reinstate_member: of a member that the journal or the ledger holds retired.
OwnerReinstates(m) ==
    /\ Bounded
    /\ m \in retired \/ StateOf(ledger[m]) = "disabled"
    /\ retired' = retired \ {m}
    /\ owing' = owing \cup {<<"reinstate", m>>}
    /\ UNCHANGED <<ledger, listed, pins, now, asked, requests, stood>>

OwnersRecord(m) ==
    \E act \in {"retire", "reinstate"} :
       /\ <<act, m>> \in owing
       /\ SetRow(m, IF act = "retire" THEN Disabled(ledger[m], Cause, now)
                    ELSE Reinstated(ledger[m], Cause, now))
       /\ owing' = owing \ {<<act, m>>}
       /\ UNCHANGED <<pool, now, asked, outside, requests>>

\* Reconciliation and forgetting take a member out, discovery takes it back:
\* in the journal alone.
MembershipJournaled(m) ==
    /\ Bounded
    /\ \/ retired' = retired \cup {m}
       \/ m \in retired /\ retired' = retired \ {m}
    /\ UNCHANGED <<ledger, listed, pins, now, asked, owing, requests, stood>>

\* refresh_routing_subscriptions: a snapshot is replaced whole, or failed.
Discover ==
    /\ Bounded
    /\ listed' \in (SUBSET Members) \cup {None}
    /\ UNCHANGED <<ledger, retired, pins, now, asked, owing, requests, stood>>

Tick ==
    /\ now < MaxTime
    /\ now' = now + 1
    /\ Watch(ledger, now + 1)
    /\ UNCHANGED <<ledger, pool, asked, outside, owing, requests>>

Outside ==
    \/ \E m \in Members : \/ LedgerWritten(m) \/ OwnerRetires(m) \/ OwnerReinstates(m)
                          \/ OwnersRecord(m) \/ MembershipJournaled(m)
    \/ Discover
    \/ Tick

-----------------------------------------------------------------------------
\* The steps the gateway takes for one request.
Step(r) ==
    \/ NextRoute(r) \/ NoRouteLeft(r) \/ Size(r) \/ ReadRoster(r) \/ NoRoster(r)
    \/ NextMember(r) \/ ReadReauthorization(r) \/ ReadSpent(r) \/ Redeem(r)
    \/ Call(r) \/ Refresh(r) \/ Retry(r) \/ Verdict(r) \/ Retire(r) \/ Disable(r)
    \/ Rejected(r) \/ Emptied(r) \/ Deliver(r)

Next ==
    \/ \E r \in Requests : Start(r) \/ Declined(r) \/ Step(r) \/ StreamEnds(r)
    \/ Outside

Spec == Init /\ [][Next]_vars

-----------------------------------------------------------------------------
\* The class the walk of r would be answered with, once it has emptied.
Emptying(r) == pc[r] = "member" /\ Following(walk[r]) = {}

Outcome(r) == EmptiedClass(walk[r].saw, walk[r].fault, walk[r].limit)

(***************************************************************************)
(* An emptied pool is answered as a matter of waiting only if some member  *)
(* could be waited for: while its block was read it was not all the time   *)
(* one that the provider disowned (a disabled member's leftover block is   *)
(* read as a wait: that the walk does not tell them apart is in the code). *)
(* And a pool with a member that was throughout in a rate block is never   *)
(* answered as one that needs a sign-in or a repair, whatever others, the  *)
(* owner's retirements and reinstatements included, did to the journal and *)
(* the ledger between the reads (refusal/pool_empty.rs: pool_is_capacity). *)
(***************************************************************************)
VerdictHonest ==
    \A r \in Requests : Emptying(r) =>
        /\ Outcome(r) = "unavailable" =>
             \E m \in Members : stood[r][m] \notin {{}, {"owed"}}
        /\ (\E m \in Members : stood[r][m] = {"rate_limited"})
             => Outcome(r) \in {"unavailable", "rate_limited", "quota_exhausted"}

(***************************************************************************)
(* The attempts an answer states are the provider calls it consumed        *)
(* (types/response.rs), over every member and route that was walked; a     *)
(* stream's may be fewer, never more.                                      *)
(***************************************************************************)
AttemptsPaid ==
    \A r \in Requests : answer[r] # None =>
        IF ask[r].streaming THEN answer[r].attempts <= paid[r]
        ELSE answer[r].attempts = paid[r]

(***************************************************************************)
(* Once a provider's pool emptied in a request, no call of that request    *)
(* goes to the provider again, whichever of its models are still listed    *)
(* (RankedWalk::already_emptied).                                          *)
(***************************************************************************)
EmptiedNotReasked ==
    [][\A r \in Requests :
          paid'[r] > paid[r] => RouteOf[walk[r].route] \notin ranked[r].emptied]_vars

=============================================================================
