------------------------------ MODULE ChatEdge ------------------------------
(***************************************************************************)
(* The chat endpoints of one gateway: what a request passes before it is   *)
(* dispatched, the calls an alias is seen to carry at once, the one signed *)
(* answer kept for a request body, and the report of a donated             *)
(* subscription's day to the contribution ledger.                          *)
(*                                                                         *)
(* The dispatch itself is the Rotation module's; here it ends in any of    *)
(* the outcomes its callers tell apart.  A caller may hang up while its    *)
(* call is dispatched, and the process may stop at any point: what it kept *)
(* on disk and what the ledger accepted stay.                              *)
(***************************************************************************)
EXTENDS Integers, FiniteSets

CONSTANTS
    Chats,       \* requests, each made once
    Bodies,      \* exact request bodies
    Days,        \* (subscription, day) pairs a donated member may serve
    MaxStops,    \* bound of process stops
    NoAnswer     \* stands for "no answer"

ASSUME ChatAssumption == MaxStops \in Nat /\ NoAnswer \notin Chats

VARIABLES
    chat,        \* per request: where it stands and what it asked
    liveCalls,   \* handles of dispatched calls that are still alive
    callHandles, \* the weak handles the alias's route keeps
    carried,     \* the calls seen carried at once, -1: nothing answered yet
    refusedBeside,\* the others in flight at the newest capacity refusal, -1: none
    peak,        \* history: the most calls dispatched at once in this process
    staged,      \* requests whose signed answer is written but not linked
    keptAnswer,  \* the signed answer kept for each body
    signedOut,   \* history: the signed answers sent for each body
    reportedDays,\* the days this process counts as reported
    reports,     \* the reports of each day under way
    ledgerDays,  \* the days the contribution ledger accepted
    stops

chatVars == <<chat, liveCalls, callHandles, carried, refusedBeside, peak, staged,
              keptAnswer, signedOut, reportedDays, reports, ledgerDays, stops>>

Unsent == [at |-> "unsent", body |-> NoAnswer, once |-> FALSE, stream |-> FALSE,
           format |-> "chat"]

ChatInit ==
    /\ chat = [c \in Chats |-> Unsent]
    /\ liveCalls = {}
    /\ callHandles = {}
    /\ carried = -1
    /\ refusedBeside = -1
    /\ peak = 0
    /\ staged = {}
    /\ keptAnswer = [b \in Bodies |-> NoAnswer]
    /\ signedOut = [b \in Bodies |-> {}]
    /\ reportedDays = {}
    /\ reports = [d \in Days |-> 0]
    /\ ledgerDays = {}
    /\ stops = 0

\* The response is sent and the request forgotten.
Responded(c, status) ==
    chat' = [chat EXCEPT ![c] = [Unsent EXCEPT !.at = IF status = 200 THEN "served"
                                                      ELSE "refused"]]

SignedTo(c, answer) ==
    /\ Responded(c, 200)
    /\ signedOut' = [signedOut EXCEPT ![chat[c].body] = @ \cup {answer}]

-----------------------------------------------------------------------------
(* A request arrives and is routed.                                        *)

\* The dialects a call may come in; all are routed and answered alike, and
\* only the first is signed.
Formats == {"chat", "anthropic", "responses"}

\* A well-formed request; the others are answered 400.
SendChat(c, body, once, stream, format) ==
    /\ chat[c].at = "unsent"
    /\ chat' = [chat EXCEPT ![c] = [at |-> "received", body |-> body, once |-> once,
                                    stream |-> stream, format |-> format]]
    /\ UNCHANGED <<liveCalls, callHandles, carried, refusedBeside, peak, staged, keptAnswer,
                   signedOut, reportedDays, reports, ledgerDays, stops>>

RefuseMalformed(c) ==
    /\ chat[c].at = "unsent"
    /\ Responded(c, 400)
    /\ UNCHANGED <<liveCalls, callHandles, carried, refusedBeside, peak, staged, keptAnswer,
                   signedOut, reportedDays, reports, ledgerDays, stops>>

\* The gateway has an answer key, and the header asks for a signature on a
\* buffered chat completion.
AnsweredOnce(c) == chat[c].once /\ ~chat[c].stream /\ chat[c].format = "chat"

\* It is answered from the kept file when there is one, or refused when that
\* file cannot be read.
RecallKept(c) ==
    /\ chat[c].at = "received"
    /\ AnsweredOnce(c)
    /\ keptAnswer[chat[c].body] # NoAnswer
    /\ \/ SignedTo(c, keptAnswer[chat[c].body])
       \/ Responded(c, 500) /\ UNCHANGED signedOut
    /\ UNCHANGED <<liveCalls, callHandles, carried, refusedBeside, peak, staged, keptAnswer,
                   reportedDays, reports, ledgerDays, stops>>

FindNoneKept(c) ==
    /\ chat[c].at = "received"
    /\ AnsweredOnce(c) => keptAnswer[chat[c].body] = NoAnswer
    /\ chat' = [chat EXCEPT ![c].at = "routing"]
    /\ UNCHANGED <<liveCalls, callHandles, carried, refusedBeside, peak, staged, keptAnswer,
                   signedOut, reportedDays, reports, ledgerDays, stops>>

\* What a request may be, as far as routing asks.
Requested ==
    [human: BOOLEAN,      \* a signed-in Wisent user
     owns: {"yes", "no", "unread"},   \* a live subscription of the route's provider
     scoped: BOOLEAN,     \* the model is within the client's scope
     gated: {"yes", "no", "unread"},  \* an entitlement may admit it
     entitlement: {"granted", "denied", "undeclared", "failed"},
     lease: {"none", "named", "unreadable"},
     names: {"decision", "media", "unserviceable", "unknown", "selector", "route"}]

OwnsRoute(q) == q.human /\ q.names = "route" /\ q.owns = "yes"

\* A model beyond the client's scope is admitted on an entitlement only.
BeyondScope(q) ==
    IF q.gated = "no" THEN 403
    ELSE IF q.gated = "unread" THEN 503
    ELSE CASE q.entitlement = "undeclared" -> 501
           [] q.entitlement = "failed" -> 503
           [] q.entitlement = "denied" -> 403
           [] OTHER -> 200

\* The first refusal a request meets, 200 when it is dispatched.
RoutingStatus(q) ==
    IF q.human /\ q.names = "route" /\ q.owns = "unread" THEN 503
    ELSE IF ~q.scoped /\ ~OwnsRoute(q) /\ BeyondScope(q) # 200 THEN BeyondScope(q)
    ELSE IF q.lease = "unreadable" THEN 400
    ELSE CASE q.names \in {"decision", "media", "unknown"} -> 400
           [] q.names = "unserviceable" -> 503
           [] OTHER -> 200

RoutingStatuses == {RoutingStatus(q) : q \in Requested}

RefuseRoute(c) ==
    /\ chat[c].at = "routing"
    /\ \E status \in RoutingStatuses \ {200} : Responded(c, status)
    /\ UNCHANGED <<liveCalls, callHandles, carried, refusedBeside, peak, staged, keptAnswer,
                   signedOut, reportedDays, reports, ledgerDays, stops>>

\* An accepted request is counted in flight and dispatched.
AdmitCall(c) ==
    /\ chat[c].at = "routing"
    /\ 200 \in RoutingStatuses
    /\ chat' = [chat EXCEPT ![c].at = "dispatched"]
    /\ liveCalls' = liveCalls \cup {c}
    /\ callHandles' = callHandles \cup {c}
    /\ peak' = IF Cardinality(liveCalls') > peak THEN Cardinality(liveCalls') ELSE peak
    /\ UNCHANGED <<carried, refusedBeside, staged, keptAnswer, signedOut, reportedDays,
                   reports, ledgerDays, stops>>

-----------------------------------------------------------------------------
(* The dispatch ends.                                                      *)

\* Bug: handles of abandoned calls are counted too.
InFlightOf(handles) == Cardinality(handles)

\* The handles still alive.
InFlight(handles) == Cardinality(handles \cap liveCalls)

Settle(c, how) ==
    LET withThisOne == InFlight(callHandles)
        beside == InFlight(callHandles \ {c})
    IN /\ callHandles' = (callHandles \cap liveCalls) \ {c}
       /\ liveCalls' = liveCalls \ {c}
       /\ CASE how = "answered" ->
                 /\ carried' = IF withThisOne > carried THEN withThisOne ELSE carried
                 /\ UNCHANGED refusedBeside
            [] how = "capacity" ->
                 /\ carried' = IF carried = -1 \/ carried > beside THEN beside ELSE carried
                 /\ refusedBeside' = beside
            [] OTHER -> UNCHANGED <<carried, refusedBeside>>

\* A refused call answers its contract's status.
RefuseCall(c) ==
    /\ chat[c].at = "dispatched"
    /\ \/ Settle(c, "capacity") /\ \E status \in {429, 503} : Responded(c, status)
       \/ Settle(c, "other") /\ \E status \in {400, 401, 502, 503} : Responded(c, status)
    /\ UNCHANGED <<peak, staged, keptAnswer, signedOut, reportedDays, reports, ledgerDays, stops>>

\* A call that a donated subscription served has its day reported in the
\* background, unless this process counts the day as reported.
ServedDay(d) ==
    reports' = IF d \in reportedDays THEN reports ELSE [reports EXCEPT ![d] = @ + 1]

\* A committed stream, a call without the once header and an answer outside
\* its schema end here; the rest is signed and kept first.
AnswerCall(c) ==
    /\ chat[c].at = "dispatched"
    /\ Settle(c, "answered")
    /\ \/ UNCHANGED reports
       \/ \E d \in Days : ServedDay(d)
    /\ \/ AnsweredOnce(c) /\ chat' = [chat EXCEPT ![c].at = "signing"]
       \/ ~AnsweredOnce(c) /\ Responded(c, 200)
       \/ (chat[c].stream => chat[c].format # "anthropic") /\ Responded(c, 502)
    /\ UNCHANGED <<peak, staged, keptAnswer, signedOut, reportedDays, ledgerDays, stops>>

\* The caller hangs up: its future, and the handle in it, is dropped.
HangUpCall(c) ==
    /\ chat[c].at = "dispatched"
    /\ chat' = [chat EXCEPT ![c] = [Unsent EXCEPT !.at = "gone"]]
    /\ liveCalls' = liveCalls \ {c}
    /\ UNCHANGED <<callHandles, carried, refusedBeside, peak, staged, keptAnswer, signedOut,
                   reportedDays, reports, ledgerDays, stops>>

-----------------------------------------------------------------------------
(* The one signed answer of a body.  The answer of a request is named by   *)
(* the request whose generation it is.                                     *)

\* The answer is written to a staging file of its own.
StageAnswer(c) ==
    /\ chat[c].at = "signing"
    /\ c \notin staged
    /\ \/ staged' = staged \cup {c} /\ UNCHANGED chat
       \/ Responded(c, 500) /\ UNCHANGED staged
    /\ UNCHANGED <<liveCalls, callHandles, carried, refusedBeside, peak, keptAnswer, signedOut,
                   reportedDays, reports, ledgerDays, stops>>

\* Bug: the staging file is renamed over whatever the body's file is.
LinkedOver(body, answer) == answer

\* The staging file is linked under the body's name, which fails when that
\* name exists: the file there is the first answer.
Linked(body, answer) == IF keptAnswer[body] = NoAnswer THEN answer ELSE keptAnswer[body]

\* The staging file is removed after the link, and when that fails the
\* request is refused though its answer may be kept.
KeepFirst(c) ==
    /\ chat[c].at = "signing"
    /\ c \in staged
    /\ keptAnswer' = [keptAnswer EXCEPT ![chat[c].body] = Linked(chat[c].body, c)]
    /\ staged' = staged \ {c}
    /\ \/ SignedTo(c, keptAnswer'[chat[c].body])
       \/ Responded(c, 500) /\ UNCHANGED signedOut
    /\ UNCHANGED <<liveCalls, callHandles, carried, refusedBeside, peak, reportedDays, reports,
                   ledgerDays, stops>>

-----------------------------------------------------------------------------
(* The contribution ledger, and a stop of the process.                     *)

\* Bug: the day counts as reported whatever the ledger answered.
CountedAlways(d, accepted) == reportedDays \cup {d}

\* A failure is asked again on the next call that day, never counted.
CountedReported(d, accepted) == IF accepted THEN reportedDays \cup {d} ELSE reportedDays

\* The ledger names an event by its subscription and day: one told twice is
\* one event.  Its acceptance may not reach the reporter.
ReportDay(d, accepted) ==
    /\ reports[d] > 0
    /\ reports' = [reports EXCEPT ![d] = @ - 1]
    /\ reportedDays' = CountedReported(d, accepted)
    /\ ledgerDays' = IF accepted THEN ledgerDays \cup {d} ELSE ledgerDays
    /\ UNCHANGED <<chat, liveCalls, callHandles, carried, refusedBeside, peak, staged,
                   keptAnswer, signedOut, stops>>

\* The acceptance is lost on its way back.
LoseAcceptance(d) ==
    /\ reports[d] > 0
    /\ reports' = [reports EXCEPT ![d] = @ - 1]
    /\ ledgerDays' = ledgerDays \cup {d}
    /\ UNCHANGED <<chat, liveCalls, callHandles, carried, refusedBeside, peak, staged,
                   keptAnswer, signedOut, reportedDays, stops>>

StopProcess ==
    /\ stops < MaxStops
    /\ stops' = stops + 1
    /\ chat' = [c \in Chats |-> IF chat[c].at \in {"unsent", "served", "refused"} THEN chat[c]
                                ELSE [Unsent EXCEPT !.at = "gone"]]
    /\ liveCalls' = {} /\ callHandles' = {}
    /\ carried' = -1 /\ refusedBeside' = -1 /\ peak' = 0
    /\ reportedDays' = {} /\ reports' = [d \in Days |-> 0]
    /\ UNCHANGED <<staged, keptAnswer, signedOut, ledgerDays>>

ChatNext ==
    \/ \E c \in Chats, b \in Bodies, once \in BOOLEAN, stream \in BOOLEAN,
          format \in Formats : SendChat(c, b, once, stream, format)
    \/ \E c \in Chats :
          \/ RefuseMalformed(c) \/ RecallKept(c) \/ FindNoneKept(c)
          \/ RefuseRoute(c) \/ AdmitCall(c)
          \/ RefuseCall(c) \/ AnswerCall(c) \/ HangUpCall(c)
          \/ StageAnswer(c) \/ KeepFirst(c)
    \/ \E d \in Days : (\E accepted \in BOOLEAN : ReportDay(d, accepted)) \/ LoseAcceptance(d)
    \/ StopProcess

ChatSpec == ChatInit /\ [][ChatNext]_chatVars

-----------------------------------------------------------------------------

\* "A valid signature can only ever be on the first answer to a body"
\* (signature/mod.rs): whatever asks raced, repeated or were cut by a stop,
\* the signed answers sent for a body are one and the same.
OneSignedAnswer == \A b \in Bodies : Cardinality(signedOut[b]) <= 1

\* The concurrency published for an alias was seen: no more calls were
\* carried, or refused beside, than were dispatched at once.
CarriedWasSeen ==
    /\ carried <= peak
    /\ refusedBeside < peak \/ refusedBeside = -1
    /\ InFlight(callHandles) = Cardinality({c \in Chats : chat[c].at = "dispatched"})

\* A day is never counted as reported that the ledger has not accepted
\* (pooled.rs), across lost answers and duplicate reports.
CountedWasAccepted == reportedDays \subseteq ledgerDays

\* What the chat edge signs, publishes and counts.
ChatSafe == OneSignedAnswer /\ CarriedWasSeen /\ CountedWasAccepted

=============================================================================
