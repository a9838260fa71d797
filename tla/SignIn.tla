------------------------------- MODULE SignIn -------------------------------
(***************************************************************************)
(* The browser sign-in of a pooled account through Weles: the sweep's      *)
(* scheduled one and the console's, which share the attempt, the safety    *)
(* stop it reads from the journal, and the journal it writes its verdict   *)
(* to, and nothing else.                                                   *)
(*                                                                         *)
(* An attempt resolves the account at Weles, asks the journal whether the  *)
(* newest recorded attempt stands in its way, has Weles drive a browser,   *)
(* and verifies the grant by refreshing it.  Weles admits a sign-in of an  *)
(* account revision it is already running into that run.  The gateway may  *)
(* panic in a task or restart; Weles and the journal outlive it.           *)
(***************************************************************************)
EXTENDS Integers, FiniteSets

CONSTANTS
    Accounts,     \* the members of the pool
    Cooldown,     \* BRAMA_CREDENTIAL_SIGN_IN_COOLDOWN_SECS; 0 when not declared
    MaxNow,       \* bound of the clock
    MaxRevision,  \* bound of the account and of the executor revisions
    MaxEvents,    \* bound of the sign-ins, changes of login and restarts, together
    NoRevision    \* a record that names no account revision

ASSUME SignInAssumption ==
    /\ Cooldown \in Nat
    /\ MaxNow \in Nat
    /\ MaxRevision \in Nat
    /\ MaxEvents \in Nat
    /\ NoRevision \notin Nat

\* Who starts an attempt: the refresh sweep, and a console or the CLI.
Drivers == {"sweep", "console"}

VARIABLES
    cred,      \* the ledger's credential verdict of each account and its instant
    check,     \* sign_in_check_failure: the instant of the failed check, or -1
    latest,    \* the newest sign-in record the journal holds of each account
    claimed,   \* IN_FLIGHT
    serial,    \* whose task holds SIGN_IN_SERIAL, or {}
    job,       \* the attempt each driver is making for each account
    revision,  \* the account revision Weles resolves
    executor,  \* the revision of the sign-in executor
    run,       \* the account revisions Weles drives a browser for
    clock,
    events,    \* how many sign-ins, changes of login and restarts there were
    denied,    \* history: runs the provider rejected on the current revision
    excused,   \* history: what kept the journal from holding such a rejection
    refused,   \* history: the revisions the journal records a rejection of
    ended      \* history: how the newest scheduled sign-in of each ended

signInVars == <<cred, check, latest, claimed, serial, job, revision, executor,
                run, clock, events, denied, excused, refused, ended>>

-----------------------------------------------------------------------------
(***************************************************************************)
(* Verdicts.  A failure is what `failure` of a record states: the class of *)
(* its code, browser_started and retryable.                                *)
(***************************************************************************)
Failure(code, browser, retryable) ==
    [code |-> code, browser |-> browser, retryable |-> retryable]

NoFailure     == Failure("none", "null", TRUE)
Unreachable   == Failure("unknown", "no", TRUE)
Unconfirmed   == Failure("unknown", "null", TRUE)
Unreadable    == Failure("unknown", "null", FALSE)
NotRefreshed  == Failure("refresh", "yes", FALSE)
NotEnrolled   == Failure("enrolment", "null", FALSE)
NotResolved   == Failure("identity", "no", TRUE)
MissingSeed   == Failure("missing_seed", "yes", FALSE)
Rejected      == Failure("credential_rejected", "yes", FALSE)

\* What Weles reports of a run that did not sign the account in: the provider
\* rejected the credential, asked a factor Skarbiec holds no seed for, or the
\* run failed in a way worth repeating.
WelesFailures == {Rejected, MissingSeed, Failure("run", "yes", TRUE)}

NoRecord == [result |-> "none", failure |-> NoFailure, rev |-> NoRevision,
             exec |-> 0, began |-> 0, at |-> 0]

Idle == [phase |-> "idle", rev |-> NoRevision, exec |-> 0, began |-> 0,
         second |-> FALSE, failure |-> NoFailure]

\* effect_unknown: codes after which nobody knows what the provider did.
EffectUnknown(failure) == failure.code = "unknown"

\* Bug: an attempt is only stopped while it cools down.
StopsOnlyCooling(previous, sameAccount, sameExecutor, coolingDown) ==
    /\ sameAccount /\ previous.result = "failed"
    /\ ~EffectUnknown(previous.failure)
    /\ coolingDown /\ sameExecutor

StopsANewAttempt(previous, sameAccount, sameExecutor, coolingDown) ==
    LET rejected == previous.failure.browser # "no" /\ ~previous.failure.retryable
    IN  /\ sameAccount
        /\ previous.result = "failed"
        /\ ~EffectUnknown(previous.failure)
        /\ \/ rejected /\ (previous.failure.code = "credential_rejected" \/ sameExecutor)
           \/ coolingDown /\ sameExecutor

\* unchanged_failed_attempt: the newest record alone is asked.
UnchangedFailedAttempt(a, rev, exec) ==
    StopsANewAttempt(latest[a], latest[a].rev = rev, latest[a].exec = exec,
                     latest[a] # NoRecord /\ clock - latest[a].at < Cooldown)

\* observed_failure: what holds the member, from the ledger and the journal.
ObservedFailure(a) ==
    \/ /\ check[a] >= 0
       /\ ~(cred[a].state = "active" /\ cred[a].at >= check[a])
       /\ ~(latest[a] # NoRecord /\ latest[a].at >= check[a])
    \/ /\ latest[a].result = "failed"
       /\ ~(cred[a].state = "active" /\ cred[a].at >= latest[a].began)

-----------------------------------------------------------------------------
SignInInit ==
    /\ cred = [a \in Accounts |-> [state |-> "disowned", at |-> 0]]
    /\ check = [a \in Accounts |-> -1]
    /\ latest = [a \in Accounts |-> NoRecord]
    /\ claimed = {}
    /\ serial = {}
    /\ job = [p \in Drivers \X Accounts |-> Idle]
    /\ revision = [a \in Accounts |-> 0]
    /\ executor = 0
    /\ run = [a \in Accounts |-> {}]
    /\ clock = 0
    /\ events = 0
    /\ denied = [a \in Accounts |-> 0]
    /\ excused = [a \in Accounts |-> 0]
    /\ refused = [a \in Accounts |-> {}]
    /\ ended = [a \in Accounts |-> "none"]

Phase(d, a, phase) == job' = [job EXCEPT ![<<d, a>>].phase = phase]

Excuse(a) == excused' = [excused EXCEPT ![a] = @ + 1]

EventLeft == events < MaxEvents /\ events' = events + 1

-----------------------------------------------------------------------------
(***************************************************************************)
(* Starting an attempt.                                                    *)
(***************************************************************************)
\* The sweep meets a member whose credential awaits a sign-in: claimed before
\* the task is spawned, skipped while it is claimed already.
ScheduleSignIn(a) ==
    /\ EventLeft
    /\ cred[a].state = "disowned"
    /\ a \notin claimed
    /\ claimed' = claimed \cup {a}
    /\ job' = [job EXCEPT ![<<"sweep", a>>] = [Idle EXCEPT !.phase = "waiting"]]
    /\ UNCHANGED <<cred, check, latest, serial, revision, executor, run, clock,
                   denied, excused, refused, ended>>

LockSerial(a) ==
    /\ job[<<"sweep", a>>].phase = "waiting"
    /\ serial = {}
    /\ serial' = {a}
    /\ Phase("sweep", a, "start")
    /\ UNCHANGED <<cred, check, latest, claimed, revision, executor, run, clock,
                   events, denied, excused, refused, ended>>

\* sign_in_selected_subscription, or `brama subscription login --by weles`:
\* neither the claim nor the lock.
ConsoleSignIn(a) ==
    /\ EventLeft
    /\ job[<<"console", a>>].phase = "idle"
    /\ job' = [job EXCEPT ![<<"console", a>>] = [Idle EXCEPT !.phase = "start"]]
    /\ UNCHANGED <<cred, check, latest, claimed, serial, revision, executor, run,
                   clock, denied, excused, refused, ended>>

-----------------------------------------------------------------------------
(***************************************************************************)
(* How an attempt ends, and what its driver does then.                     *)
(***************************************************************************)
\* Bug: a task that died leaves its member claimed.
SettleKeepingClaim(d, a, how) ==
    IF d = "console" THEN UNCHANGED <<check, claimed, serial, ended>>
    ELSE /\ claimed' = IF how = "panicked" THEN claimed ELSE claimed \ {a}
         /\ serial' = {}
         /\ check' = [check EXCEPT ![a] = IF how = "answered" THEN -1 ELSE clock]
         /\ ended' = [ended EXCEPT ![a] = how]

\* Bug: only an answered sign-in changes the recorded check.
SettleWithoutCheck(d, a, how) ==
    IF d = "console" THEN UNCHANGED <<check, claimed, serial, ended>>
    ELSE /\ claimed' = claimed \ {a}
         /\ serial' = {}
         /\ check' = IF how = "answered" THEN [check EXCEPT ![a] = -1] ELSE check
         /\ ended' = [ended EXCEPT ![a] = how]

\* The scheduled sign-in's task records its check: cleared by any verdict,
\* failed by an error or a panic; the claim and the lock are dropped however
\* it ends.  The console's only says how it ended.
Settle(d, a, how) ==
    IF d = "console" THEN UNCHANGED <<check, claimed, serial, ended>>
    ELSE /\ claimed' = claimed \ {a}
         /\ serial' = {}
         /\ check' = [check EXCEPT ![a] = IF how = "answered" THEN -1 ELSE clock]
         /\ ended' = [ended EXCEPT ![a] = how]

\* verdict: the record is appended, unless the journal refuses it and the
\* answer says so.  Whatever is not the rejection of the current revision
\* takes the place of one the journal held.
Verdict(d, a, result, failure, rev, exec, began) ==
    \/ /\ latest' = [latest EXCEPT ![a] =
            [result |-> result, failure |-> failure, rev |-> rev, exec |-> exec,
             began |-> began, at |-> clock]]
       /\ refused' = [refused EXCEPT ![a] =
            IF failure.code = "credential_rejected" THEN @ \cup {rev} ELSE @]
       /\ IF failure.code = "credential_rejected" /\ rev = revision[a]
            THEN UNCHANGED excused ELSE Excuse(a)
    \/ /\ Excuse(a)
       /\ UNCHANGED <<latest, refused>>

\* A journaled verdict of the attempt, which goes on to the enrolment of an
\* authenticator when it failed for want of a seed, once.
Concludes(d, a, result, failure) ==
    LET j == job[<<d, a>>] IN
    /\ Verdict(d, a, result, failure, j.rev, j.exec, j.began)
    /\ IF failure = MissingSeed /\ ~j.second
         THEN /\ Phase(d, a, "enrolling")
              /\ UNCHANGED <<check, claimed, serial, ended>>
         ELSE /\ job' = [job EXCEPT ![<<d, a>>] = Idle]
              /\ Settle(d, a, "answered")

-----------------------------------------------------------------------------
(***************************************************************************)
(* The attempt.                                                            *)
(***************************************************************************)
\* A refusal before Weles answered anything (no worker, no token, an account
\* neither listed nor recoverable): nothing is journaled.
PreflightFails(d, a) ==
    /\ job[<<d, a>>].phase = "start"
    /\ job' = [job EXCEPT ![<<d, a>>] = Idle]
    /\ Settle(d, a, "error")
    /\ UNCHANGED <<cred, latest, revision, executor, run, clock, events, denied,
                   excused, refused>>

\* Weles answered the resolution with a refusal or an identity that is not
\* the account's: journaled as a failure that names no account revision.
ResolutionRefused(d, a) ==
    /\ job[<<d, a>>].phase = "start"
    /\ Verdict(d, a, "failed", NotResolved, NoRevision, 0, clock)
    /\ job' = [job EXCEPT ![<<d, a>>] = Idle]
    /\ Settle(d, a, "error")
    /\ UNCHANGED <<cred, revision, executor, run, clock, events, denied>>

Resolve(d, a) ==
    /\ job[<<d, a>>].phase = "start"
    /\ job' = [job EXCEPT ![<<d, a>>].phase = "resolved", ![<<d, a>>].rev = revision[a],
                          ![<<d, a>>].exec = executor]
    /\ UNCHANGED <<cred, check, latest, claimed, serial, revision, executor, run,
                   clock, events, denied, excused, refused, ended>>

\* The recorded failure is handed back in place of a run; one for want of a
\* seed still leads to the enrolment.
Replay(d, a) ==
    LET j == job[<<d, a>>] IN
    /\ j.phase = "resolved"
    /\ UnchangedFailedAttempt(a, j.rev, j.exec)
    /\ IF latest[a].failure = MissingSeed /\ ~j.second
         THEN /\ Phase(d, a, "enrolling")
              /\ UNCHANGED <<check, claimed, serial, ended>>
         ELSE /\ job' = [job EXCEPT ![<<d, a>>] = Idle]
              /\ Settle(d, a, "answered")
    /\ UNCHANGED <<cred, latest, revision, executor, run, clock, events, denied,
                   excused, refused>>

\* POST /reauth: Weles joins the run of this account revision or starts one.
AskWeles(d, a) ==
    LET j == job[<<d, a>>] IN
    /\ j.phase = "resolved"
    /\ ~UnchangedFailedAttempt(a, j.rev, j.exec)
    /\ job' = [job EXCEPT ![<<d, a>>].phase = "asked", ![<<d, a>>].began = clock]
    /\ run' = [run EXCEPT ![a] = @ \cup {j.rev}]
    /\ UNCHANGED <<cred, check, latest, claimed, serial, revision, executor, clock,
                   events, denied, excused, refused, ended>>

\* The connection is not accepted: nothing was started.
WelesUnreachable(d, a) ==
    /\ job[<<d, a>>].phase = "resolved"
    /\ ~UnchangedFailedAttempt(a, job[<<d, a>>].rev, job[<<d, a>>].exec)
    /\ Verdict(d, a, "failed", Unreachable, job[<<d, a>>].rev, job[<<d, a>>].exec, clock)
    /\ job' = [job EXCEPT ![<<d, a>>] = Idle]
    /\ Settle(d, a, "answered")
    /\ UNCHANGED <<cred, revision, executor, run, clock, events, denied>>

\* The answer is lost, ends without a result or cannot be read, while the
\* run it is about goes on.
AnswerLost(d, a) ==
    /\ job[<<d, a>>].phase = "asked"
    /\ \E failure \in {Unconfirmed, Unreadable} : Concludes(d, a, "failed", failure)
    /\ UNCHANGED <<cred, revision, executor, run, clock, events, denied>>

\* The run ends, and its answer is on its way to every attempt it carries.
BrowserEnds(a) ==
    \E rev \in run[a], failure \in WelesFailures \cup {NoFailure} :
      LET carried == {d \in Drivers : job[<<d, a>>].phase = "asked" /\ job[<<d, a>>].rev = rev} IN
      /\ run' = [run EXCEPT ![a] = @ \ {rev}]
      /\ job' = [p \in Drivers \X Accounts |->
           IF p[2] = a /\ p[1] \in carried
             THEN [job[p] EXCEPT !.phase = "ended", !.failure = failure]
             ELSE job[p]]
      /\ denied' = [denied EXCEPT ![a] =
           IF failure = Rejected /\ rev = revision[a] THEN @ + 1 ELSE @]
      /\ IF carried = {} THEN Excuse(a) ELSE UNCHANGED excused
      /\ UNCHANGED <<cred, check, latest, claimed, serial, revision, executor, clock,
                     events, refused, ended>>

\* trajectory::refusal: the answer says the account was not signed in.
RunRefused(d, a) ==
    /\ job[<<d, a>>].phase = "ended"
    /\ job[<<d, a>>].failure # NoFailure
    /\ Concludes(d, a, "failed", job[<<d, a>>].failure)
    /\ UNCHANGED <<cred, revision, executor, run, clock, events, denied>>

\* Weles stored a grant: refresh_subscription proves it, and the ledger holds
\* the credential as active, or the verdict says it could not be refreshed.
RefreshPersisted(d, a) ==
    /\ job[<<d, a>>].phase = "ended"
    /\ job[<<d, a>>].failure = NoFailure
    /\ \/ /\ cred' = [cred EXCEPT ![a] = [state |-> "active", at |-> clock]]
          /\ Concludes(d, a, "signed_in", NoFailure)
       \/ /\ cred' = cred
          /\ Concludes(d, a, "failed", NotRefreshed)
    /\ UNCHANGED <<revision, executor, run, clock, events, denied>>

\* enrol_authenticator: a confirmed seed changes the account and the attempt
\* is made once more; anything else is the verdict.
Enrol(d, a) ==
    /\ job[<<d, a>>].phase = "enrolling"
    /\ \/ /\ revision[a] < MaxRevision
          /\ revision' = [revision EXCEPT ![a] = @ + 1]
          /\ denied' = [denied EXCEPT ![a] = 0]
          /\ job' = [job EXCEPT ![<<d, a>>] = [Idle EXCEPT !.phase = "start", !.second = TRUE]]
          /\ UNCHANGED <<check, claimed, serial, latest, excused, refused, ended>>
       \/ /\ Concludes(d, a, "failed", NotEnrolled)
          /\ UNCHANGED <<revision, denied>>
    /\ UNCHANGED <<cred, executor, run, clock, events>>

\* The scheduled sign-in runs in a task of its own: its panic is an error of
\* the join, and the journal gets no verdict.
Panic(a) ==
    /\ job[<<"sweep", a>>].phase \notin {"idle", "waiting"}
    /\ job' = [job EXCEPT ![<<"sweep", a>>] = Idle]
    /\ Settle("sweep", a, "panicked")
    /\ Excuse(a)
    /\ UNCHANGED <<cred, latest, revision, executor, run, clock, events, denied, refused>>

-----------------------------------------------------------------------------
(***************************************************************************)
(* What happens beside the attempts.                                       *)
(***************************************************************************)
\* The process ends and starts again: claims, lock and attempts are gone.
GatewayRestart ==
    /\ EventLeft
    /\ claimed' = {}
    /\ serial' = {}
    /\ job' = [p \in Drivers \X Accounts |-> Idle]
    /\ excused' = [a \in Accounts |-> excused[a] + 1]
    /\ ended' = [a \in Accounts |-> "none"]
    /\ UNCHANGED <<cred, check, latest, revision, executor, run, clock,
                   denied, refused>>

\* A provider disowns the grant (GrantRenewal); nothing else needs a sign-in.
Disown(a) ==
    /\ EventLeft
    /\ cred[a].state = "active"
    /\ cred' = [cred EXCEPT ![a] = [state |-> "disowned", at |-> clock]]
    /\ UNCHANGED <<check, latest, claimed, serial, job, revision, executor, run,
                   clock, denied, excused, refused, ended>>

\* The operator changes the login row Weles signs the account in from.
ChangeLogin(a) ==
    /\ EventLeft
    /\ revision[a] < MaxRevision
    /\ revision' = [revision EXCEPT ![a] = @ + 1]
    /\ denied' = [denied EXCEPT ![a] = 0]
    /\ UNCHANGED <<cred, check, latest, claimed, serial, job, executor, run, clock, excused, refused, ended>>

UpgradeExecutor ==
    /\ EventLeft
    /\ executor < MaxRevision
    /\ executor' = executor + 1
    /\ UNCHANGED <<cred, check, latest, claimed, serial, job, revision, run, clock, denied, excused, refused, ended>>

\* A grant adopted from a pasted code is stored and recorded as signed in;
\* its record carries no account revision and its proof may fail.
HandSignIn(a) ==
    /\ EventLeft
    /\ cred' = [cred EXCEPT ![a] = [state |-> "active", at |-> clock]]
    /\ \E result \in {"signed_in", "failed"} :
         Verdict("console", a, result, NoFailure, NoRevision, 0, clock)
    /\ UNCHANGED <<check, claimed, serial, job, revision, executor, run, clock,
                   denied, ended>>

SignInTick ==
    /\ clock < MaxNow
    /\ clock' = clock + 1
    /\ UNCHANGED <<cred, check, latest, claimed, serial, job, revision, executor, run,
                   events, denied, excused, refused, ended>>

\* The steps of an attempt once it has started.
Attempt(d, a) ==
    \/ PreflightFails(d, a)
    \/ ResolutionRefused(d, a)
    \/ Resolve(d, a)
    \/ Replay(d, a)
    \/ AskWeles(d, a)
    \/ WelesUnreachable(d, a)
    \/ AnswerLost(d, a)
    \/ RunRefused(d, a)
    \/ RefreshPersisted(d, a)
    \/ Enrol(d, a)

SignInNext ==
    \/ \E a \in Accounts :
         \/ ScheduleSignIn(a)
         \/ LockSerial(a)
         \/ ConsoleSignIn(a)
         \/ \E d \in Drivers : Attempt(d, a)
         \/ BrowserEnds(a)
         \/ Panic(a)
         \/ Disown(a)
         \/ ChangeLogin(a)
         \/ HandSignIn(a)
    \/ UpgradeExecutor
    \/ GatewayRestart
    \/ SignInTick

SignInSpec == SignInInit /\ [][SignInNext]_signInVars

-----------------------------------------------------------------------------
(***************************************************************************)
(* Properties.                                                             *)
(***************************************************************************)
\* A credential the provider rejected is put to it again only for a reason
\* the journal cannot hold: on one account revision every driver is rejected
\* at most once, and once more after each attempt whose verdict was lost (a
\* panic, a restart, a lost answer, an append that failed) or took the place
\* of the recorded rejection.
RejectionsExcused ==
    \A a \in Accounts : denied[a] <= Cardinality(Drivers) * (1 + excused[a])

\* A member still awaiting its sign-in, whose newest scheduled one ended with
\* an error or a panic and was followed by no completed one, is reported as
\* held: observed_failure, whichever task died and whatever the console did.
FailedCheckSeen ==
    \A a \in Accounts :
       /\ ended[a] \in {"error", "panicked"}
       /\ cred[a].state = "disowned"
       /\ ~(latest[a].result = "signed_in" /\ latest[a].at >= check[a])
       => ObservedFailure(a)

\* A claim is held by a live task and no other: after every refusal, a panic
\* and a restart the next pass may schedule the member again, and the lock
\* that keeps Weles to one scheduled browser belongs to one of those tasks.
ClaimHeldByTask ==
    /\ claimed = {a \in Accounts : job[<<"sweep", a>>].phase # "idle"}
    /\ serial \subseteq claimed

\* Browser sign-ins, over every interleaving of the sweep's tasks, the console
\* and the command line (sign_in.rs, sign_in/attempt, sign_in/verdict.rs).
SignInSafe == RejectionsExcused /\ FailedCheckSeen /\ ClaimHeldByTask

\* "Repeating a failed provider challenge with unchanged source data cannot
\* repair it.  A new Skarbiec identity revision permits a new, attributable
\* run": no browser is started on an account revision the journal already
\* holds the provider's rejection of.
RejectionStands ==
    [][\A a \in Accounts : (run'[a] \ run[a]) \cap refused[a] = {}]_signInVars

=============================================================================
