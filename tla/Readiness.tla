----------------------------- MODULE Readiness ------------------------------
(***************************************************************************)
(* `/readyz`: the report the sweeps publish, the register of credential    *)
(* calls that stand unanswered, the loop that ends the ones past the       *)
(* declared measure, and the questions that wait for the answer to change. *)
(*                                                                         *)
(* The answer is put together when it is asked for: the published report,  *)
(* the last maintenance pass, whether the ledger leaves a member to serve  *)
(* with, and the calls standing.  CHANGED is the only thing that wakes a   *)
(* waiting question, and not everything the answer reads notifies it.      *)
(***************************************************************************)
EXTENDS Integers, FiniteSets

CONSTANTS
    Questions,    \* clients asking /readyz?after=<digest>
    Sweeps,       \* the sweeps that may run at once
    Calls,        \* the credential calls that may stand at once
    MaxSweeps,    \* bound of the sweeps started
    MaxCalls      \* bound of the calls begun

ASSUME ReadinessAssumption == MaxSweeps \in Nat /\ MaxCalls \in Nat

VARIABLES
    report,       \* READINESS_REPORT
    sweep,        \* what each sweep is doing
    sweeps,       \* how many were started
    passed,       \* LAST_MAINTENANCE: "none", or how the last pass ended
    servable,     \* the ledger and the routing inventory: a member can be served
    call,         \* STANDING: the calls in the register
    calls,        \* how many were begun
    question,     \* each waiting question
    watcher       \* the loop that reads the standing calls

readinessVars == <<report, sweep, sweeps, passed, servable, call, calls, question, watcher>>

\* What a sweep found: of the direct providers, and of the subscriptions.
Findings == {"none", "refused", "obtained"}

Pending == [kind |-> "pending", ready |-> FALSE, ok |-> FALSE]

\* The first half of a sweep: ready, and 200, with a direct credential.
Interim(providers) ==
    [kind |-> "interim", ready |-> providers = "obtained", ok |-> providers = "obtained"]

\* verdict: a gateway that can repair itself answers 200 although not ready.
Verdict(providers, members) ==
    LET serving == providers = "obtained" \/ members = "obtained" IN
    [kind |-> "full", ready |-> serving,
     ok |-> serving \/ providers # "none" \/ members # "none"]

Asleep == [stage |-> "idle", woken |-> FALSE, after |-> {}]
Watching == [stage |-> "armed", woken |-> FALSE, timed |-> FALSE]

ReadinessInit ==
    /\ report = Pending
    /\ sweep = [s \in Sweeps |-> "idle"]
    /\ sweeps = 0
    /\ passed = "none"
    /\ servable \in BOOLEAN
    /\ call = [c \in Calls |-> "none"]
    /\ calls = 0
    /\ question = [q \in Questions |-> Asleep]
    /\ watcher = Watching

-----------------------------------------------------------------------------
(* CHANGED.                                                                *)

\* Bug: a question listens only once it waits, so a change between its
\* reading and its wait passes it.
ListensWhileWaiting(stage) == stage = "waiting"

\* Registered before the answer is read.
Listens(stage) == stage \in {"listening", "read", "waiting"}

\* notify_waiters wakes every listener there is, the watcher's too.
Changed ==
    /\ question' = [q \in Questions |->
                      IF Listens(question[q].stage) THEN [question[q] EXCEPT !.woken = TRUE]
                      ELSE question[q]]
    /\ watcher' = IF watcher.stage \in {"armed", "waiting"}
                  THEN [watcher EXCEPT !.woken = TRUE] ELSE watcher

-----------------------------------------------------------------------------
(* The sweep: check.rs and accounts.rs.                                    *)

StartSweep(s) ==
    /\ sweep[s] = "idle"
    /\ sweeps < MaxSweeps
    /\ sweep' = [sweep EXCEPT ![s] = "providers"]
    /\ sweeps' = sweeps + 1
    /\ UNCHANGED <<report, passed, servable, call, calls, question, watcher>>

\* The direct providers answered: the interim report is published.
PublishInterim(s, providers) ==
    /\ sweep[s] = "providers"
    /\ sweep' = [sweep EXCEPT ![s] = providers]
    /\ report' = Interim(providers)
    /\ Changed
    /\ UNCHANGED <<sweeps, passed, servable, call, calls>>

\* The subscriptions answered: the full report replaces what is published.
PublishFull(s, members) ==
    /\ sweep[s] \in Findings
    /\ sweep' = [sweep EXCEPT ![s] = "idle"]
    /\ report' = Verdict(sweep[s], members)
    /\ Changed
    /\ UNCHANGED <<sweeps, passed, servable, call, calls>>

\* record_maintenance.
RecordMaintenance(ended) ==
    /\ passed # ended
    /\ passed' = ended
    /\ Changed
    /\ UNCHANGED <<report, sweep, sweeps, servable, call, calls>>

\* The ledger's verdicts and the routing inventory change, as requests and
\* sign-ins record them: model::document reads both, and nobody is notified.
PoolChanges ==
    /\ servable' = ~servable
    /\ UNCHANGED <<report, sweep, sweeps, passed, call, calls, question, watcher>>

-----------------------------------------------------------------------------
(* The register of standing calls: standing.rs.                            *)

Stands(c) == call[c] # "none"
Unended == {c \in Calls : call[c] \in {"standing", "stale"}}

BeginCall(c) ==
    /\ call[c] = "none"
    /\ calls < MaxCalls
    /\ calls' = calls + 1
    /\ call' = [call EXCEPT ![c] = "standing"]
    /\ Changed
    /\ UNCHANGED <<report, sweep, sweeps, passed, servable>>

\* The source answers, or the waiter takes the sentence it was ended with.
DropCall(c) ==
    /\ Stands(c)
    /\ call' = [call EXCEPT ![c] = "none"]
    /\ Changed
    /\ UNCHANGED <<report, sweep, sweeps, passed, servable, calls>>

\* The declared measure passes for a call that stands.
CallStale(c) ==
    /\ call[c] = "standing"
    /\ call' = [call EXCEPT ![c] = "stale"]
    /\ UNCHANGED <<report, sweep, sweeps, passed, servable, calls, question, watcher>>

\* refusal(): a reading ends every call past the measure; the register holds
\* it until its waiter drops it.
EndStale == [c \in Calls |-> IF call[c] = "stale" THEN "ended" ELSE call[c]]

-----------------------------------------------------------------------------
(* The answer, and the questions that wait for another one.                *)

\* What the digest covers: the parts that notify, and the two that do not.
Notified == [report |-> report, passed |-> passed, standing |-> {c \in Calls : Stands(c)}]
Answer(register) ==
    [notified |-> Notified, servable |-> servable,
     refused |-> {c \in Calls : register[c] = "ended"}]

\* answer(): 503 while the pool has nobody to serve with or a call is stale.
Ok(answer) == answer.notified.report.ok /\ answer.servable /\ answer.refused = {}

Listen(q) ==
    /\ question[q].stage = "idle"
    /\ question' = [question EXCEPT ![q] = [stage |-> "listening", woken |-> FALSE,
                                            after |-> {Answer(EndStale)}]]
    /\ call' = EndStale
    /\ UNCHANGED <<report, sweep, sweeps, passed, servable, calls, watcher>>

\* The answer is read: another than the one named is returned, the same one
\* is waited on.
ReadAnswer(q) ==
    /\ question[q].stage = "listening"
    /\ call' = EndStale
    /\ question' = [question EXCEPT ![q] =
                      IF {Answer(EndStale)} # question[q].after THEN Asleep
                      ELSE [question[q] EXCEPT !.stage = "read"]]
    /\ UNCHANGED <<report, sweep, sweeps, passed, servable, calls, watcher>>

\* The moment to wake by is read, and the wait begins.
WaitForChange(q) ==
    /\ question[q].stage = "read"
    /\ question' = [question EXCEPT ![q].stage = "waiting"]
    /\ UNCHANGED <<report, sweep, sweeps, passed, servable, call, calls, watcher>>

\* The wait ends with a notification, or when the oldest unended call
\* reaches the measure; the question listens again.
WakeQuestion(q) ==
    /\ question[q].stage = "waiting"
    /\ question[q].woken \/ \E c \in Unended : call[c] = "stale"
    /\ question' = [question EXCEPT ![q].stage = "listening", ![q].woken = FALSE]
    /\ UNCHANGED <<report, sweep, sweeps, passed, servable, call, calls, watcher>>

-----------------------------------------------------------------------------
(* watch(): the gateway's own readings.                                    *)

\* next_reading is read after the loop listens.
WatchWaits ==
    /\ watcher.stage = "armed"
    /\ watcher' = [watcher EXCEPT !.stage = "waiting", !.timed = Unended # {}]
    /\ UNCHANGED <<report, sweep, sweeps, passed, servable, call, calls, question>>

WatchReads ==
    /\ watcher.stage = "waiting"
    /\ watcher.woken \/ (watcher.timed /\ \E c \in Unended : call[c] = "stale")
    /\ call' = EndStale
    /\ watcher' = Watching
    /\ UNCHANGED <<report, sweep, sweeps, passed, servable, calls, question>>

ReadinessNext ==
    \/ \E s \in Sweeps : \/ StartSweep(s)
                         \/ \E f \in Findings : PublishInterim(s, f) \/ PublishFull(s, f)
    \/ \E ended \in {"ok", "failed"} : RecordMaintenance(ended)
    \/ PoolChanges
    \/ \E c \in Calls : BeginCall(c) \/ DropCall(c) \/ CallStale(c)
    \/ \E q \in Questions : Listen(q) \/ ReadAnswer(q) \/ WaitForChange(q) \/ WakeQuestion(q)
    \/ WatchWaits
    \/ WatchReads

\* The runtime polls what is ready, a sweep that started ends, and the waiter
\* of an ended call takes its sentence and goes.
ReadinessSpec ==
    /\ ReadinessInit
    /\ [][ReadinessNext]_readinessVars
    /\ \A q \in Questions : /\ WF_readinessVars(ReadAnswer(q))
                            /\ WF_readinessVars(WaitForChange(q))
                            /\ WF_readinessVars(WakeQuestion(q))
    /\ \A s \in Sweeps : WF_readinessVars(\E f \in Findings : PublishInterim(s, f)
                                                          \/ PublishFull(s, f))
    /\ WF_readinessVars(WatchWaits) /\ WF_readinessVars(WatchReads)
    /\ \A c \in Calls : WF_readinessVars(call[c] = "ended" /\ DropCall(c))

-----------------------------------------------------------------------------
\* No change is slept through: a question waiting with nothing to wake it
\* waits on the answer it named, as far as sweeps, maintenance passes and the
\* calls standing make it, and the loop that ends calls has a timer whenever
\* a call stands that it has not ended.
NoChangeSleptThrough ==
    /\ \A q \in Questions : question[q].stage = "waiting" /\ ~question[q].woken =>
         \A named \in question[q].after : named.notified = Notified
    /\ watcher.stage = "waiting" /\ ~watcher.woken /\ Unended # {} => watcher.timed

\* readiness/mod.rs: "`/readyz` returns the last completed answer": once a
\* sweep has completed, what is published is a completed sweep's report.
CompletedStands == [][report.kind = "full" => report'.kind = "full"]_readinessVars

\* readiness/mod.rs: "A question naming the digest of the current answer is
\* answered when the answer changes": a question does not wait for ever on an
\* answer that stays different from the one it named.
ChangeAnswered ==
    \A q \in Questions :
        ~ <>[] (/\ question[q].stage = "waiting"
                /\ {Answer(EndStale)} # question[q].after)

=============================================================================
