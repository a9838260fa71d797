--------------------------- MODULE AccountProofs ----------------------------
(***************************************************************************)
(* The accounts behind the pool, for any number of them: how they are      *)
(* signed in, bought, replenished, discovered and donated. One section per *)
(* component, each with the inductive invariant its property needs, one    *)
(* lemma for each action that takes more than a line, and the theorem at   *)
(* its end.                                                                *)
(***************************************************************************)
EXTENDS SignIn, Acquisition, SavedResets, Enrolment, PoolOverlay, FiniteSetTheorems, TLAPS

-----------------------------------------------------------------------------
(***************************************************************************)
(* Browser sign-in (SignIn). The claims are the running tasks' own, a      *)
(* check moves only forward, and the rejections of an account are paid     *)
(* for: what Weles rejected and what jobs under way may still be told      *)
(* comes to two rounds, one per driver, for each time an unexcused verdict *)
(* could be read.                                                          *)
(***************************************************************************)

\* The phases of a sign-in job and what it carries.
JobPhases == {"idle", "waiting", "start", "resolved", "asked", "ended", "enrolling"}

JobFailures == WelesFailures \cup {NoFailure}

Revisions == Nat \cup {NoRevision}

Jobs == [phase : JobPhases, rev : Revisions, exec : Nat, began : Nat, second : BOOLEAN,
         failure : JobFailures]

\* The types of the records, the checks, the jobs and the counters.
SignInTyped ==
    /\ DOMAIN latest = Accounts
    /\ check \in [Accounts -> Int]
    /\ \A a \in Accounts : latest[a] = NoRecord \/ latest[a].result \in {"signed_in", "failed"}
    /\ job \in [Drivers \X Accounts -> Jobs]
    /\ revision \in [Accounts -> Nat]
    /\ executor \in Nat
    /\ clock \in Nat
    /\ denied \in [Accounts -> Nat]
    /\ excused \in [Accounts -> Nat]
    /\ DOMAIN ended = Accounts

\* A scheduled sign-in that ended without a verdict left its check.
CheckLeft == \A a \in Accounts : ended[a] \in {"error", "panicked"} => check[a] >= 0

\* The newest record is the rejection of the account's current revision.
Stands(a) ==
    latest[a].result = "failed" /\ latest[a].failure = Rejected /\ latest[a].rev = revision[a]

\* What a driver may still add to the rejections before the next excuse.
MayBeDenied(d, a) ==
    LET j == job[<<d, a>>] IN
    IF \/ j.phase = "ended" /\ j.failure = Rejected /\ j.rev = revision[a]
       \/ Stands(a) /\ ~(j.phase = "asked" /\ j.rev = revision[a])
    THEN 0 ELSE 1

\* Rejections Weles gave and the ones jobs under way may still get are paid for.
RoundsPaid(a) ==
    denied[a] + MayBeDenied("sweep", a) + MayBeDenied("console", a) <= 2 * (1 + excused[a])

\* The inductive invariant of sign-in.
SignInInv ==
    /\ SignInTyped /\ ClaimHeldByTask /\ CheckLeft
    /\ \A a \in Accounts : RoundsPaid(a)

\* Two drivers sign in: the sweep and the console.
LEMMA DriverNames ==
    /\ "sweep" \in Drivers /\ "console" \in Drivers /\ Drivers = {"sweep", "console"}
    /\ Cardinality(Drivers) = 2
  <1>1. "sweep" \in Drivers /\ "console" \in Drivers /\ Drivers = {"sweep", "console"}
    BY DEF Drivers
  <1>2. IsFiniteSet({"sweep"}) /\ Cardinality({"sweep"}) = 1
    BY FS_Singleton
  <1>3. Cardinality({"sweep"} \cup {"console"}) = 2
    BY <1>2, FS_AddElement
  <1>4. {"sweep"} \cup {"console"} = Drivers
    BY DEF Drivers
  <1>. QED
    BY <1>1, <1>3, <1>4

\* A job at rest.
LEMMA IdleTyped ==
    /\ Idle \in Jobs /\ Idle.phase = "idle" /\ Idle.second = FALSE
  BY DEF Idle, Jobs, JobPhases, Revisions, JobFailures

\* Nothing of another account moves.
OnlyAt(a) ==
    \A b \in Accounts \ {a} :
        /\ latest'[b] = latest[b] /\ excused'[b] = excused[b] /\ denied'[b] = denied[b]
        /\ revision'[b] = revision[b] /\ \A d \in Drivers : job'[<<d, b>>] = job[<<d, b>>]

\* A step about one account keeps the invariant if it keeps that account's part.
LEMMA Assemble ==
    ASSUME SignInInv, SignInTyped', ClaimHeldByTask', CheckLeft', NEW a \in Accounts, OnlyAt(a),
           RoundsPaid(a)'
    PROVE  SignInInv'
  <1>1. ASSUME NEW b \in Accounts, b # a
        PROVE  RoundsPaid(b)'
    <2>1. RoundsPaid(b)
      BY DEF SignInInv
    <2>2. /\ latest'[b] = latest[b] /\ excused'[b] = excused[b] /\ denied'[b] = denied[b]
          /\ revision'[b] = revision[b] /\ job'[<<"sweep", b>>] = job[<<"sweep", b>>]
          /\ job'[<<"console", b>>] = job[<<"console", b>>]
      BY <1>1, DriverNames DEF OnlyAt
    <2>. QED
      BY <2>1, <2>2 DEF RoundsPaid, MayBeDenied, Stands
  <1>. QED
    BY <1>1 DEF SignInInv

\* The counts of an account are numbers, and one job is denied at most once more.
LEMMA DeniedBound ==
    ASSUME SignInTyped, NEW a \in Accounts
    PROVE  /\ \A d \in Drivers : MayBeDenied(d, a) \in {0, 1}
           /\ denied[a] \in Nat /\ excused[a] \in Nat
  BY DEF MayBeDenied, SignInTyped

\* The same of the next state.
LEMMA DeniedBoundNext ==
    ASSUME SignInTyped', NEW a \in Accounts
    PROVE  /\ \A d \in Drivers : MayBeDenied(d, a)' \in {0, 1}
           /\ denied'[a] \in Nat /\ excused'[a] \in Nat
  BY DEF MayBeDenied, SignInTyped

\* An excuse pays for a rejection of every driver.
LEMMA ExcusePays ==
    ASSUME SignInInv, SignInTyped', NEW a \in Accounts, excused'[a] = excused[a] + 1,
           denied'[a] = denied[a]
    PROVE  RoundsPaid(a)'
  <1>1. SignInTyped /\ RoundsPaid(a)
    BY DEF SignInInv
  <1>2. /\ MayBeDenied("sweep", a) \in {0, 1} /\ MayBeDenied("console", a) \in {0, 1}
        /\ denied[a] \in Nat /\ excused[a] \in Nat
    BY <1>1, DeniedBound, DriverNames
  <1>3. MayBeDenied("sweep", a)' \in {0, 1} /\ MayBeDenied("console", a)' \in {0, 1}
    BY DeniedBoundNext, DriverNames
  <1>. QED
    BY <1>1, <1>2, <1>3 DEF RoundsPaid

\* Without one no driver may be denied that could not before.
LEMMA NothingOwed ==
    ASSUME SignInInv, SignInTyped', NEW a \in Accounts, excused'[a] = excused[a],
           denied'[a] = denied[a],
           \A d \in Drivers : MayBeDenied(d, a)' <= MayBeDenied(d, a)
    PROVE  RoundsPaid(a)'
  <1>1. SignInTyped /\ RoundsPaid(a)
    BY DEF SignInInv
  <1>2. /\ MayBeDenied("sweep", a) \in {0, 1} /\ MayBeDenied("console", a) \in {0, 1}
        /\ denied[a] \in Nat /\ excused[a] \in Nat
    BY <1>1, DeniedBound, DriverNames
  <1>3. MayBeDenied("sweep", a)' \in {0, 1} /\ MayBeDenied("console", a)' \in {0, 1}
    BY DeniedBoundNext, DriverNames
  <1>4. /\ MayBeDenied("sweep", a)' <= MayBeDenied("sweep", a)
        /\ MayBeDenied("console", a)' <= MayBeDenied("console", a)
    BY DriverNames
  <1>. QED
    BY <1>1, <1>2, <1>3, <1>4 DEF RoundsPaid

\* The counting starts again with a revision of the account.
LEMMA NewRevision ==
    ASSUME SignInInv, SignInTyped', NEW a \in Accounts, denied'[a] = 0
    PROVE  RoundsPaid(a)'
  <1>1. MayBeDenied("sweep", a)' \in {0, 1} /\ MayBeDenied("console", a)' \in {0, 1}
        /\ excused'[a] \in Nat
    BY DeniedBoundNext, DriverNames
  <1>. QED
    BY <1>1 DEF RoundsPaid

\* One driver's attempt moves.
JobMoves(d, a) ==
    /\ job' \in [Drivers \X Accounts -> Jobs]
    /\ \A p \in (Drivers \X Accounts) \ {<<d, a>>} : job'[p] = job[p]

\* Writing one job moves that job alone.
LEMMA JobSet ==
    ASSUME SignInTyped, NEW d \in Drivers, NEW a \in Accounts, NEW z \in Jobs,
           job' = [job EXCEPT ![<<d, a>>] = z]
    PROVE  JobMoves(d, a) /\ job'[<<d, a>>] = z
  <1>1. <<d, a>> \in Drivers \X Accounts /\ job \in [Drivers \X Accounts -> Jobs]
    BY DEF SignInTyped
  <1>. QED
    BY <1>1 DEF JobMoves

\* A job that moves leaves the other driver's and the other accounts' jobs.
LEMMA JobsApart ==
    ASSUME NEW d \in Drivers, NEW a \in Accounts, JobMoves(d, a)
    PROVE  /\ \A b \in Accounts \ {a} : \A e \in Drivers : job'[<<e, b>>] = job[<<e, b>>]
           /\ \A e \in Drivers \ {d} : job'[<<e, a>>] = job[<<e, a>>]
  <1>1. \A b \in Accounts \ {a} : \A e \in Drivers : <<e, b>> \in (Drivers \X Accounts) \ {<<d, a>>}
    OBVIOUS
  <1>2. \A e \in Drivers \ {d} : <<e, a>> \in (Drivers \X Accounts) \ {<<d, a>>}
    OBVIOUS
  <1>. QED
    BY <1>1, <1>2 DEF JobMoves

\* The attempt goes on: the claim and the lock stay.
LEMMA ClaimStays ==
    ASSUME SignInInv, NEW d \in Drivers, NEW a \in Accounts, JobMoves(d, a),
           UNCHANGED <<check, claimed, serial, ended>>,
           job[<<d, a>>].phase = "idle" <=> job'[<<d, a>>].phase = "idle"
    PROVE  ClaimHeldByTask' /\ CheckLeft'
  <1>1. \A b \in Accounts : job[<<"sweep", b>>].phase = "idle" <=> job'[<<"sweep", b>>].phase = "idle"
    <2>1. ASSUME NEW b \in Accounts
          PROVE  job[<<"sweep", b>>].phase = "idle" <=> job'[<<"sweep", b>>].phase = "idle"
      <3>1. CASE b = a /\ d = "sweep"
        BY <3>1
      <3>2. CASE ~(b = a /\ d = "sweep")
        <4>1. <<"sweep", b>> \in (Drivers \X Accounts) \ {<<d, a>>}
          BY <3>2, DriverNames
        <4>. QED
          BY <4>1 DEF JobMoves
      <3>. QED
        BY <3>1, <3>2
    <2>. QED
      BY <2>1
  <1>. QED
    BY <1>1 DEF SignInInv, ClaimHeldByTask, CheckLeft

\* The attempt ends: a scheduled one lets the claim and the lock go.
LEMMA ClaimGoes ==
    ASSUME SignInInv, NEW d \in Drivers, NEW a \in Accounts, JobMoves(d, a),
           job'[<<d, a>>].phase = "idle",
           NEW how \in {"answered", "error", "panicked"}, Settle(d, a, how)
    PROVE  /\ ClaimHeldByTask' /\ CheckLeft'
           /\ check' \in [Accounts -> Int] /\ DOMAIN ended' = Accounts
  <1>1. SignInTyped /\ ClaimHeldByTask /\ CheckLeft
    BY DEF SignInInv
  <1>2. CASE d = "console"
    <2>1. \A b \in Accounts : job'[<<"sweep", b>>] = job[<<"sweep", b>>]
      <3>1. \A b \in Accounts : <<"sweep", b>> \in (Drivers \X Accounts) \ {<<d, a>>}
        BY <1>2, DriverNames
      <3>. QED
        BY <3>1 DEF JobMoves
    <2>2. UNCHANGED <<check, claimed, serial, ended>>
      BY <1>2 DEF Settle
    <2>. QED
      BY <1>1, <2>1, <2>2 DEF ClaimHeldByTask, CheckLeft, SignInTyped
  <1>3. CASE d = "sweep"
    <2>1. /\ claimed' = claimed \ {a} /\ serial' = {}
          /\ check' = [check EXCEPT ![a] = IF how = "answered" THEN -1 ELSE clock]
          /\ ended' = [ended EXCEPT ![a] = how]
      BY <1>3 DEF Settle
    <2>2. \A b \in Accounts \ {a} : job'[<<"sweep", b>>] = job[<<"sweep", b>>]
      BY JobsApart, DriverNames
    <2>3. job'[<<"sweep", a>>].phase = "idle"
      BY <1>3
    <2>4. ClaimHeldByTask'
      BY <1>1, <2>1, <2>2, <2>3 DEF ClaimHeldByTask
    <2>5. check' \in [Accounts -> Int] /\ DOMAIN ended' = Accounts
      BY <1>1, <2>1 DEF SignInTyped
    <2>6. CheckLeft'
      BY <1>1, <2>1 DEF SignInTyped, CheckLeft
    <2>. QED
      BY <2>4, <2>5, <2>6
  <1>. QED
    BY <1>2, <1>3, DriverNames

\* An excuse is counted at its account.
LEMMA ExcuseCounts ==
    ASSUME SignInTyped, NEW a \in Accounts, Excuse(a)
    PROVE  /\ excused' \in [Accounts -> Nat] /\ excused'[a] = excused[a] + 1
           /\ \A b \in Accounts \ {a} : excused'[b] = excused[b]
  BY DEF Excuse, SignInTyped

\* What a verdict leaves in the journal.
LEMMA VerdictLeaves ==
    ASSUME SignInTyped, NEW d \in Drivers, NEW a \in Accounts, NEW result \in {"signed_in", "failed"},
           NEW failure, NEW rev, NEW exec, NEW began,
           Verdict(d, a, result, failure, rev, exec, began)
    PROVE  /\ excused' \in [Accounts -> Nat] /\ DOMAIN latest' = Accounts
           /\ \A b \in Accounts : latest'[b] = NoRecord \/ latest'[b].result \in {"signed_in", "failed"}
           /\ \A b \in Accounts \ {a} : excused'[b] = excused[b] /\ latest'[b] = latest[b]
           /\ \/ excused'[a] = excused[a] + 1
              \/ /\ UNCHANGED excused /\ failure.code = "credential_rejected" /\ rev = revision[a]
                 /\ latest'[a].result = result /\ latest'[a].failure = failure /\ latest'[a].rev = rev
  <1> DEFINE x == [result |-> result, failure |-> failure, rev |-> rev, exec |-> exec,
                   began |-> began, at |-> clock]
  <1>1. x.result = result /\ x.failure = failure /\ x.rev = rev
    OBVIOUS
  <1>2. \/ /\ latest' = [latest EXCEPT ![a] = x]
           /\ \/ UNCHANGED excused /\ failure.code = "credential_rejected" /\ rev = revision[a]
              \/ Excuse(a)
        \/ Excuse(a) /\ UNCHANGED latest
    BY DEF Verdict
  <1> HIDE DEF x
  <1>3. CASE Excuse(a) /\ UNCHANGED latest
    BY <1>3, ExcuseCounts DEF SignInTyped
  <1>4. CASE Excuse(a) /\ latest' = [latest EXCEPT ![a] = x]
    BY <1>1, <1>4, ExcuseCounts DEF SignInTyped
  <1>5. CASE /\ UNCHANGED excused /\ failure.code = "credential_rejected" /\ rev = revision[a]
             /\ latest' = [latest EXCEPT ![a] = x]
    BY <1>1, <1>5 DEF SignInTyped
  <1>. QED
    BY <1>2, <1>3, <1>4, <1>5

\* How the steps that follow a driver's attempt at one account are put
\* together: the types, the account the step is at, and what is owed.
LEMMA AttemptMoves ==
    ASSUME SignInInv, NEW d \in Drivers, NEW a \in Accounts, JobMoves(d, a),
           ClaimHeldByTask' /\ CheckLeft', check' \in [Accounts -> Int], DOMAIN ended' = Accounts,
           DOMAIN latest' = Accounts,
           \A b \in Accounts : latest'[b] = NoRecord \/ latest'[b].result \in {"signed_in", "failed"},
           excused' \in [Accounts -> Nat],
           \A b \in Accounts \ {a} : excused'[b] = excused[b] /\ latest'[b] = latest[b],
           UNCHANGED <<revision, executor, clock, denied>>,
           \/ excused'[a] = excused[a] + 1
           \/ excused'[a] = excused[a] /\ \A e \in Drivers : MayBeDenied(e, a)' <= MayBeDenied(e, a)
    PROVE  SignInInv'
  <1>1. SignInTyped
    BY DEF SignInInv
  <1>2. SignInTyped'
    BY <1>1 DEF SignInTyped, JobMoves
  <1>3. OnlyAt(a)
    BY JobsApart DEF OnlyAt
  <1>4. RoundsPaid(a)'
    BY <1>2, ExcusePays, NothingOwed
  <1>. QED
    BY <1>2, <1>3, <1>4, Assemble

\* A driver that is not past a rejection of the current revision and is not
\* let past the recorded one may be denied no more than before.
LEMMA DriverOwes ==
    ASSUME NEW d \in Drivers, NEW a \in Accounts, JobMoves(d, a),
           Stands(a) => Stands(a)', UNCHANGED revision,
           \/ /\ ~(job[<<d, a>>].phase = "ended" /\ job[<<d, a>>].failure = Rejected
                      /\ job[<<d, a>>].rev = revision[a])
              /\ \/ ~Stands(a)
                 \/ ~(job'[<<d, a>>].phase = "asked" /\ job'[<<d, a>>].rev = revision[a])
           \/ Stands(a)' /\ job'[<<d, a>>].phase # "asked"
    PROVE  \A e \in Drivers : MayBeDenied(e, a)' <= MayBeDenied(e, a)
  <1>1. ASSUME NEW e \in Drivers
        PROVE  MayBeDenied(e, a)' <= MayBeDenied(e, a)
    <2>1. MayBeDenied(e, a) \in {0, 1} /\ MayBeDenied(e, a)' \in {0, 1}
      BY DEF MayBeDenied
    <2>2. MayBeDenied(e, a) = 0 => MayBeDenied(e, a)' = 0
      <3>1. CASE e = d
        BY <3>1 DEF MayBeDenied, Stands
      <3>2. CASE e # d
        <4>1. job'[<<e, a>>] = job[<<e, a>>]
          BY <3>2, JobsApart
        <4>. QED
          BY <4>1 DEF MayBeDenied
      <3>. QED
        BY <3>1, <3>2
    <2>. QED
      BY <2>1, <2>2
  <1>. QED
    BY <1>1

\* Only a rejection is coded as one.
LEMMA RejectedCode ==
    /\ Rejected.code = "credential_rejected"
    /\ \A f \in JobFailures : f.code = "credential_rejected" => f = Rejected
    /\ \A f \in {NoFailure, Unreachable, Unconfirmed, Unreadable, NotRefreshed, NotEnrolled,
                 NotResolved} : f.code # "credential_rejected"
    /\ MissingSeed # Rejected
  BY DEF Rejected, JobFailures, WelesFailures, Failure, NoFailure, Unreachable, Unconfirmed,
         Unreadable, NotRefreshed, NotEnrolled, NotResolved, MissingSeed

\* The recorded rejection of its revision stops every later attempt on it.
LEMMA StandsStops ==
    ASSUME NEW a \in Accounts, Stands(a), NEW exec
    PROVE  UnchangedFailedAttempt(a, revision[a], exec)
  BY DEF Stands, UnchangedFailedAttempt, StopsANewAttempt, EffectUnknown, Rejected, Failure

\* The attempt moves on with nothing journaled.
LEMMA GoesOn ==
    ASSUME SignInInv, NEW d \in Drivers, NEW a \in Accounts, NEW z \in Jobs,
           job' = [job EXCEPT ![<<d, a>>] = z], job[<<d, a>>].phase # "idle", z.phase # "idle",
           job[<<d, a>>].phase # "ended",
           ~Stands(a) \/ ~(z.phase = "asked" /\ z.rev = revision[a]),
           UNCHANGED <<check, claimed, serial, ended, latest, excused, revision, executor, clock, denied>>
    PROVE  SignInInv'
  <1>1. SignInTyped /\ JobMoves(d, a) /\ job'[<<d, a>>] = z
    BY JobSet DEF SignInInv
  <1>2. ClaimHeldByTask' /\ CheckLeft'
    BY <1>1, ClaimStays
  <1>3. Stands(a) => Stands(a)'
    BY DEF Stands
  <1>4. \A e \in Drivers : MayBeDenied(e, a)' <= MayBeDenied(e, a)
    BY <1>1, <1>3, DriverOwes
  <1>5. /\ check' \in [Accounts -> Int] /\ DOMAIN ended' = Accounts /\ DOMAIN latest' = Accounts
        /\ \A b \in Accounts : latest'[b] = NoRecord \/ latest'[b].result \in {"signed_in", "failed"}
        /\ excused' \in [Accounts -> Nat]
    BY <1>1 DEF SignInTyped
  <1>. QED
    BY <1>1, <1>2, <1>4, <1>5, AttemptMoves

\* The attempt ends with nothing journaled, before a run answered it.
LEMMA EndsUnrecorded ==
    ASSUME SignInInv, NEW d \in Drivers, NEW a \in Accounts,
           job' = [job EXCEPT ![<<d, a>>] = Idle], job[<<d, a>>].phase # "ended",
           NEW how \in {"answered", "error", "panicked"}, Settle(d, a, how),
           UNCHANGED <<latest, excused, revision, executor, clock, denied>>
    PROVE  SignInInv'
  <1>1. SignInTyped /\ JobMoves(d, a) /\ job'[<<d, a>>] = Idle
    BY JobSet, IdleTyped DEF SignInInv
  <1>2. ClaimHeldByTask' /\ CheckLeft' /\ check' \in [Accounts -> Int] /\ DOMAIN ended' = Accounts
    BY <1>1, ClaimGoes, IdleTyped
  <1>3. Stands(a) => Stands(a)'
    BY DEF Stands
  <1>4. \A e \in Drivers : MayBeDenied(e, a)' <= MayBeDenied(e, a)
    BY <1>1, <1>3, DriverOwes, IdleTyped
  <1>5. /\ DOMAIN latest' = Accounts
        /\ \A b \in Accounts : latest'[b] = NoRecord \/ latest'[b].result \in {"signed_in", "failed"}
        /\ excused' \in [Accounts -> Nat]
    BY <1>1 DEF SignInTyped
  <1>. QED
    BY <1>1, <1>2, <1>4, <1>5, AttemptMoves

\* The attempt ends with its verdict, which is no rejection.
LEMMA EndsRecorded ==
    ASSUME SignInInv, NEW d \in Drivers, NEW a \in Accounts,
           job' = [job EXCEPT ![<<d, a>>] = Idle],
           NEW how \in {"answered", "error", "panicked"}, Settle(d, a, how),
           NEW result \in {"signed_in", "failed"}, NEW failure, failure.code # "credential_rejected",
           NEW rev, NEW exec, NEW began, Verdict(d, a, result, failure, rev, exec, began),
           UNCHANGED <<revision, executor, clock, denied>>
    PROVE  SignInInv'
  <1>1. SignInTyped /\ JobMoves(d, a) /\ job'[<<d, a>>] = Idle
    BY JobSet, IdleTyped DEF SignInInv
  <1>2. ClaimHeldByTask' /\ CheckLeft' /\ check' \in [Accounts -> Int] /\ DOMAIN ended' = Accounts
    BY <1>1, ClaimGoes, IdleTyped
  <1>3. /\ excused' \in [Accounts -> Nat] /\ DOMAIN latest' = Accounts
        /\ \A b \in Accounts : latest'[b] = NoRecord \/ latest'[b].result \in {"signed_in", "failed"}
        /\ \A b \in Accounts \ {a} : excused'[b] = excused[b] /\ latest'[b] = latest[b]
        /\ excused'[a] = excused[a] + 1
    BY <1>1, VerdictLeaves
  <1>. QED
    BY <1>1, <1>2, <1>3, AttemptMoves

\* Concludes: a rejection of the current revision is owed no more once the
\* journal holds it; every other verdict is an excuse.
LEMMA ConcludesSafe ==
    ASSUME SignInInv, NEW d \in Drivers, NEW a \in Accounts,
           NEW result \in {"signed_in", "failed"}, NEW failure,
           job[<<d, a>>].phase # "idle",
           failure.code = "credential_rejected" => failure = Rejected /\ result = "failed",
           Concludes(d, a, result, failure), UNCHANGED <<revision, executor, clock, denied>>
    PROVE  SignInInv'
  <1> DEFINE j == job[<<d, a>>]
  <1>1. SignInTyped /\ j \in Jobs
    BY DEF SignInInv, SignInTyped
  <1>2. Verdict(d, a, result, failure, j.rev, j.exec, j.began)
    BY DEF Concludes
  <1>3. PICK rev, exec, began : Verdict(d, a, result, failure, rev, exec, began)
    BY <1>2
  <1>4. /\ excused' \in [Accounts -> Nat] /\ DOMAIN latest' = Accounts
        /\ \A b \in Accounts : latest'[b] = NoRecord \/ latest'[b].result \in {"signed_in", "failed"}
        /\ \A b \in Accounts \ {a} : excused'[b] = excused[b] /\ latest'[b] = latest[b]
        /\ \/ excused'[a] = excused[a] + 1
           \/ /\ UNCHANGED excused /\ failure.code = "credential_rejected" /\ rev = revision[a]
              /\ latest'[a].result = result /\ latest'[a].failure = failure /\ latest'[a].rev = rev
    BY <1>1, <1>3, VerdictLeaves
  <1>5. \/ excused'[a] = excused[a] + 1
        \/ excused'[a] = excused[a] /\ Stands(a)'
    <2>1. CASE /\ UNCHANGED excused /\ failure.code = "credential_rejected" /\ rev = revision[a]
               /\ latest'[a].result = result /\ latest'[a].failure = failure
               /\ latest'[a].rev = rev
      <3>1. failure = Rejected /\ result = "failed"
        BY <2>1
      <3>2. revision'[a] = revision[a] /\ excused'[a] = excused[a]
        BY <2>1
      <3>3. latest'[a].result = "failed" /\ latest'[a].failure = Rejected /\ latest'[a].rev = revision'[a]
        BY <2>1, <3>1, <3>2
      <3>4. Stands(a)'
        BY <3>3 DEF Stands
      <3>. QED
        BY <3>2, <3>4
    <2>. QED
      BY <1>4, <2>1
  <1>6. CASE job' = [job EXCEPT ![<<d, a>>] = Idle] /\ Settle(d, a, "answered")
    <2>1. JobMoves(d, a) /\ job'[<<d, a>>] = Idle
      BY <1>1, <1>6, JobSet, IdleTyped
    <2>2. ClaimHeldByTask' /\ CheckLeft' /\ check' \in [Accounts -> Int] /\ DOMAIN ended' = Accounts
      BY <1>6, <2>1, ClaimGoes, IdleTyped
    <2>3. Stands(a)' => \A e \in Drivers : MayBeDenied(e, a)' <= MayBeDenied(e, a)
      BY <2>1, DriverOwes, IdleTyped
    <2>. QED
      BY <1>4, <1>5, <2>1, <2>2, <2>3, AttemptMoves
  <1>7. CASE Phase(d, a, "enrolling") /\ UNCHANGED <<check, claimed, serial, ended>>
    <2> DEFINE z == [j EXCEPT !.phase = "enrolling"]
    <2>1. job' = [job EXCEPT ![<<d, a>>] = z] /\ j = job[<<d, a>>]
      BY <1>7 DEF Phase
    <2>2. "enrolling" \in JobPhases
      BY DEF JobPhases
    <2> HIDE DEF j
    <2>3. z \in Jobs /\ z.phase = "enrolling"
      BY <1>1, <2>2 DEF Jobs
    <2> HIDE DEF z
    <2>4. JobMoves(d, a) /\ job'[<<d, a>>] = z
      BY <1>1, <2>1, <2>3, JobSet
    <2>5. ClaimHeldByTask' /\ CheckLeft'
      BY <1>7, <2>3, <2>4, ClaimStays
    <2>6. check' \in [Accounts -> Int] /\ DOMAIN ended' = Accounts
      BY <1>1, <1>7 DEF SignInTyped
    <2>7. Stands(a)' => \A e \in Drivers : MayBeDenied(e, a)' <= MayBeDenied(e, a)
      BY <2>3, <2>4, DriverOwes
    <2>. QED
      BY <1>4, <1>5, <2>4, <2>5, <2>6, <2>7, AttemptMoves
  <1>. QED
    BY <1>6, <1>7 DEF Concludes

\* Resolving the revisions of the account and the executor keeps the invariant.
LEMMA ResolveSafe ==
    ASSUME SignInInv, NEW d \in Drivers, NEW a \in Accounts, Resolve(d, a)
    PROVE  SignInInv'
  <1> DEFINE j == job[<<d, a>>]
             n == revision[a]
             z == [j EXCEPT !.phase = "resolved", !.rev = n, !.exec = executor]
  <1>1. j.phase = "start" /\ job' = [job EXCEPT ![<<d, a>>] = z] /\ j = job[<<d, a>>]
        /\ UNCHANGED <<check, claimed, serial, ended, latest, excused, revision, executor, clock, denied>>
    BY DEF Resolve, SignInInv, SignInTyped
  <1>2. "resolved" \in JobPhases /\ n \in Revisions /\ executor \in Nat /\ j \in Jobs
    BY DEF JobPhases, Revisions, SignInInv, SignInTyped
  <1> HIDE DEF j, n
  <1>3. z \in Jobs /\ z.phase = "resolved"
    BY <1>2 DEF Jobs
  <1> HIDE DEF z
  <1>. QED
    BY <1>1, <1>3, GoesOn

\* Handing back the recorded failure in place of a run keeps the invariant.
LEMMA ReplaySafe ==
    ASSUME SignInInv, NEW d \in Drivers, NEW a \in Accounts, Replay(d, a)
    PROVE  SignInInv'
  <1> DEFINE j == job[<<d, a>>]
             z == [j EXCEPT !.phase = "enrolling"]
  <1>1. j.phase = "resolved" /\ UNCHANGED <<latest, excused, revision, executor, clock, denied>>
    BY DEF Replay
  <1>2. CASE job' = [job EXCEPT ![<<d, a>>] = Idle] /\ Settle(d, a, "answered")
    BY <1>1, <1>2, EndsUnrecorded
  <1>3. CASE Phase(d, a, "enrolling") /\ UNCHANGED <<check, claimed, serial, ended>>
    <2>1. job' = [job EXCEPT ![<<d, a>>] = z] /\ j = job[<<d, a>>]
      BY <1>3 DEF Phase
    <2>2. "enrolling" \in JobPhases /\ j \in Jobs
      BY DEF JobPhases, SignInInv, SignInTyped
    <2> HIDE DEF j
    <2>3. z \in Jobs /\ z.phase = "enrolling"
      BY <2>2 DEF Jobs
    <2> HIDE DEF z
    <2>. QED
      BY <1>1, <1>3, <2>1, <2>3, GoesOn
  <1>. QED
    BY <1>2, <1>3 DEF Replay

\* Asking Weles keeps the invariant.
LEMMA AskWelesSafe ==
    ASSUME SignInInv, NEW d \in Drivers, NEW a \in Accounts, AskWeles(d, a)
    PROVE  SignInInv'
  <1> DEFINE j == job[<<d, a>>]
             z == [j EXCEPT !.phase = "asked", !.began = clock]
  <1>1. j.phase = "resolved" /\ job' = [job EXCEPT ![<<d, a>>] = z] /\ j = job[<<d, a>>]
        /\ UNCHANGED <<check, claimed, serial, ended, latest, excused, revision, executor, clock, denied>>
        /\ ~UnchangedFailedAttempt(a, j.rev, j.exec)
    BY DEF AskWeles
  <1>2. "asked" \in JobPhases /\ clock \in Nat /\ j \in Jobs
    BY DEF JobPhases, SignInInv, SignInTyped
  <1>3. Stands(a) => j.rev # revision[a]
    BY <1>1, StandsStops
  <1> HIDE DEF j
  <1>4. z \in Jobs /\ z.phase = "asked" /\ z.rev = j.rev
    BY <1>2 DEF Jobs
  <1> HIDE DEF z
  <1>. QED
    BY <1>1, <1>3, <1>4, GoesOn

\* A confirmed seed starts the count anew; anything else is the verdict.
LEMMA EnrolSafe ==
    ASSUME SignInInv, NEW d \in Drivers, NEW a \in Accounts, Enrol(d, a)
    PROVE  SignInInv'
  <1>1. job[<<d, a>>].phase = "enrolling" /\ UNCHANGED <<executor, clock>>
    BY DEF Enrol
  <1>2. CASE Concludes(d, a, "failed", NotEnrolled) /\ UNCHANGED <<revision, denied>>
    BY <1>1, <1>2, ConcludesSafe, RejectedCode
  <1>3. CASE /\ revision' = [revision EXCEPT ![a] = @ + 1]
             /\ denied' = [denied EXCEPT ![a] = 0]
             /\ job' = [job EXCEPT ![<<d, a>>] = [Idle EXCEPT !.phase = "start", !.second = TRUE]]
             /\ UNCHANGED <<check, claimed, serial, latest, excused, refused, ended>>
    <2> DEFINE z == [Idle EXCEPT !.phase = "start", !.second = TRUE]
    <2>1. z \in Jobs /\ z.phase = "start"
      BY DEF Idle, Jobs, JobPhases, Revisions, JobFailures
    <2>2. job' = [job EXCEPT ![<<d, a>>] = z]
      BY <1>3
    <2> HIDE DEF z
    <2>3. SignInTyped /\ JobMoves(d, a) /\ job'[<<d, a>>] = z
      BY <2>1, <2>2, JobSet DEF SignInInv
    <2>4. ClaimHeldByTask' /\ CheckLeft'
      BY <1>1, <1>3, <2>1, <2>3, ClaimStays
    <2>5. /\ revision' \in [Accounts -> Nat] /\ denied' \in [Accounts -> Nat] /\ denied'[a] = 0
          /\ \A b \in Accounts \ {a} : revision'[b] = revision[b] /\ denied'[b] = denied[b]
      BY <1>3, <2>3 DEF SignInTyped
    <2>6. SignInTyped'
      BY <1>1, <1>3, <2>3, <2>5 DEF SignInTyped, JobMoves
    <2>7. OnlyAt(a)
      BY <1>3, <2>3, <2>5, JobsApart DEF OnlyAt
    <2>. QED
      BY <2>4, <2>5, <2>6, <2>7, NewRevision, Assemble
  <1>. QED
    BY <1>2, <1>3 DEF Enrol

\* Every step of an attempt that has started keeps the invariant.
LEMMA AttemptSafe ==
    ASSUME SignInInv, NEW d \in Drivers, NEW a \in Accounts, Attempt(d, a)
    PROVE  SignInInv'
  <1>1. CASE PreflightFails(d, a)
    BY <1>1, EndsUnrecorded DEF PreflightFails
  <1>2. CASE ResolutionRefused(d, a)
    <2>1. NotResolved.code # "credential_rejected"
      BY RejectedCode
    <2>. QED
      BY <1>2, <2>1, EndsRecorded DEF ResolutionRefused
  <1>3. CASE WelesUnreachable(d, a)
    <2>1. Unreachable.code # "credential_rejected"
      BY RejectedCode
    <2>. QED
      BY <1>3, <2>1, EndsRecorded DEF WelesUnreachable
  <1>4. CASE AnswerLost(d, a)
    <2>1. PICK failure \in {Unconfirmed, Unreadable} : Concludes(d, a, "failed", failure)
      BY <1>4 DEF AnswerLost
    <2>2. failure.code # "credential_rejected"
      BY <2>1, RejectedCode
    <2>. QED
      BY <1>4, <2>1, <2>2, ConcludesSafe DEF AnswerLost
  <1>5. CASE RunRefused(d, a)
    <2> DEFINE f == job[<<d, a>>].failure
    <2>1. f.code = "credential_rejected" => f = Rejected
      BY RejectedCode DEF SignInInv, SignInTyped, Jobs
    <2>2. Concludes(d, a, "failed", f) /\ job[<<d, a>>].phase = "ended"
          /\ UNCHANGED <<revision, executor, clock, denied>>
      BY <1>5 DEF RunRefused
    <2> HIDE DEF f
    <2>. QED
      BY <2>1, <2>2, ConcludesSafe
  <1>6. CASE RefreshPersisted(d, a)
    <2>1. NoFailure.code # "credential_rejected" /\ NotRefreshed.code # "credential_rejected"
      BY RejectedCode
    <2>2. \/ Concludes(d, a, "signed_in", NoFailure)
          \/ Concludes(d, a, "failed", NotRefreshed)
      BY <1>6 DEF RefreshPersisted
    <2>3. job[<<d, a>>].phase = "ended" /\ UNCHANGED <<revision, executor, clock, denied>>
      BY <1>6 DEF RefreshPersisted
    <2>. QED
      BY <2>1, <2>2, <2>3, ConcludesSafe
  <1>. QED
    BY <1>1, <1>2, <1>3, <1>4, <1>5, <1>6, ResolveSafe, ReplaySafe, AskWelesSafe, EnrolSafe
        DEF Attempt

\* The sweep schedules a job only where it claims the account.
LEMMA ScheduleSafe ==
    ASSUME SignInInv, NEW a \in Accounts, ScheduleSignIn(a)
    PROVE  SignInInv'
  <1> DEFINE z == [Idle EXCEPT !.phase = "waiting"]
  <1>1. z \in Jobs /\ z.phase = "waiting"
    BY DEF Idle, Jobs, JobPhases, Revisions, JobFailures
  <1>2. job' = [job EXCEPT ![<<"sweep", a>>] = z] /\ claimed' = claimed \cup {a} /\ a \notin claimed
        /\ UNCHANGED <<check, serial, ended, latest, excused, revision, executor, clock, denied>>
    BY DEF ScheduleSignIn
  <1> HIDE DEF z
  <1>3. SignInTyped /\ JobMoves("sweep", a) /\ job'[<<"sweep", a>>] = z
    BY <1>1, <1>2, JobSet, DriverNames DEF SignInInv
  <1>4. \A b \in Accounts \ {a} : job'[<<"sweep", b>>] = job[<<"sweep", b>>]
    BY <1>3, JobsApart, DriverNames
  <1>5. job[<<"sweep", a>>].phase = "idle"
    BY <1>2 DEF SignInInv, ClaimHeldByTask
  <1>6. ClaimHeldByTask' /\ CheckLeft'
    BY <1>1, <1>2, <1>3, <1>4 DEF SignInInv, ClaimHeldByTask, CheckLeft
  <1>7. Stands(a) => Stands(a)'
    BY <1>2 DEF Stands
  <1>8. \A e \in Drivers : MayBeDenied(e, a)' <= MayBeDenied(e, a)
    BY <1>1, <1>2, <1>3, <1>5, <1>7, DriverOwes, DriverNames
  <1>9. /\ check' \in [Accounts -> Int] /\ DOMAIN ended' = Accounts /\ DOMAIN latest' = Accounts
        /\ \A b \in Accounts : latest'[b] = NoRecord \/ latest'[b].result \in {"signed_in", "failed"}
        /\ excused' \in [Accounts -> Nat]
    BY <1>2, <1>3 DEF SignInTyped
  <1>. QED
    BY <1>2, <1>3, <1>6, <1>8, <1>9, AttemptMoves, DriverNames

\* Taking the serial lock keeps the invariant.
LEMMA LockSerialSafe ==
    ASSUME SignInInv, NEW a \in Accounts, LockSerial(a)
    PROVE  SignInInv'
  <1> DEFINE j == job[<<"sweep", a>>]
             z == [j EXCEPT !.phase = "start"]
  <1>1. j.phase = "waiting" /\ job' = [job EXCEPT ![<<"sweep", a>>] = z] /\ j = job[<<"sweep", a>>]
        /\ serial' = {a}
        /\ UNCHANGED <<check, claimed, ended, latest, excused, revision, executor, clock, denied>>
    BY DEF LockSerial, Phase
  <1>2. "start" \in JobPhases /\ j \in Jobs
    BY DriverNames DEF JobPhases, SignInInv, SignInTyped
  <1> HIDE DEF j
  <1>3. z \in Jobs /\ z.phase = "start"
    BY <1>2 DEF Jobs
  <1> HIDE DEF z
  <1>4. SignInTyped /\ JobMoves("sweep", a) /\ job'[<<"sweep", a>>] = z
    BY <1>1, <1>3, JobSet, DriverNames DEF SignInInv
  <1>5. \A b \in Accounts \ {a} : job'[<<"sweep", b>>] = job[<<"sweep", b>>]
    BY <1>4, JobsApart, DriverNames
  <1>6. ClaimHeldByTask' /\ CheckLeft'
    BY <1>1, <1>3, <1>4, <1>5 DEF SignInInv, ClaimHeldByTask, CheckLeft
  <1>7. Stands(a) => Stands(a)'
    BY <1>1 DEF Stands
  <1>8. \A e \in Drivers : MayBeDenied(e, a)' <= MayBeDenied(e, a)
    BY <1>1, <1>3, <1>4, <1>7, DriverOwes, DriverNames
  <1>9. /\ check' \in [Accounts -> Int] /\ DOMAIN ended' = Accounts /\ DOMAIN latest' = Accounts
        /\ \A b \in Accounts : latest'[b] = NoRecord \/ latest'[b].result \in {"signed_in", "failed"}
        /\ excused' \in [Accounts -> Nat]
    BY <1>1, <1>4 DEF SignInTyped
  <1>. QED
    BY <1>1, <1>4, <1>6, <1>8, <1>9, AttemptMoves, DriverNames

\* A sign-in from the console keeps the invariant.
LEMMA ConsoleSafe ==
    ASSUME SignInInv, NEW a \in Accounts, ConsoleSignIn(a)
    PROVE  SignInInv'
  <1> DEFINE z == [Idle EXCEPT !.phase = "start"]
  <1>1. z \in Jobs /\ z.phase = "start"
    BY DEF Idle, Jobs, JobPhases, Revisions, JobFailures
  <1>2. job' = [job EXCEPT ![<<"console", a>>] = z] /\ job[<<"console", a>>].phase = "idle"
        /\ UNCHANGED <<check, claimed, serial, ended, latest, excused, revision, executor, clock, denied>>
    BY DEF ConsoleSignIn
  <1> HIDE DEF z
  <1>3. SignInTyped /\ JobMoves("console", a) /\ job'[<<"console", a>>] = z
    BY <1>1, <1>2, JobSet, DriverNames DEF SignInInv
  <1>4. \A b \in Accounts : job'[<<"sweep", b>>] = job[<<"sweep", b>>]
    <2>1. \A b \in Accounts : <<"sweep", b>> \in (Drivers \X Accounts) \ {<<"console", a>>}
      BY DriverNames
    <2>. QED
      BY <1>3, <2>1 DEF JobMoves
  <1>5. ClaimHeldByTask' /\ CheckLeft'
    BY <1>2, <1>4 DEF SignInInv, ClaimHeldByTask, CheckLeft
  <1>6. Stands(a) => Stands(a)'
    BY <1>2 DEF Stands
  <1>7. \A e \in Drivers : MayBeDenied(e, a)' <= MayBeDenied(e, a)
    BY <1>1, <1>2, <1>3, <1>6, DriverOwes, DriverNames
  <1>8. /\ check' \in [Accounts -> Int] /\ DOMAIN ended' = Accounts /\ DOMAIN latest' = Accounts
        /\ \A b \in Accounts : latest'[b] = NoRecord \/ latest'[b].result \in {"signed_in", "failed"}
        /\ excused' \in [Accounts -> Nat]
    BY <1>2, <1>3 DEF SignInTyped
  <1>. QED
    BY <1>2, <1>3, <1>5, <1>7, <1>8, AttemptMoves, DriverNames

\* A task that panics gives its claim up.
LEMMA PanicSafe ==
    ASSUME SignInInv, NEW a \in Accounts, Panic(a)
    PROVE  SignInInv'
  <1>1. job' = [job EXCEPT ![<<"sweep", a>>] = Idle] /\ Settle("sweep", a, "panicked") /\ Excuse(a)
        /\ UNCHANGED <<latest, revision, executor, clock, denied>>
    BY DEF Panic
  <1>2. SignInTyped /\ JobMoves("sweep", a) /\ job'[<<"sweep", a>>] = Idle
    BY <1>1, JobSet, IdleTyped, DriverNames DEF SignInInv
  <1>3. ClaimHeldByTask' /\ CheckLeft' /\ check' \in [Accounts -> Int] /\ DOMAIN ended' = Accounts
    BY <1>1, <1>2, ClaimGoes, IdleTyped, DriverNames
  <1>4. /\ excused' \in [Accounts -> Nat] /\ excused'[a] = excused[a] + 1
        /\ \A b \in Accounts \ {a} : excused'[b] = excused[b]
    BY <1>1, <1>2, ExcuseCounts
  <1>5. /\ DOMAIN latest' = Accounts
        /\ \A b \in Accounts : latest'[b] = NoRecord \/ latest'[b].result \in {"signed_in", "failed"}
    BY <1>1, <1>2 DEF SignInTyped
  <1>. QED
    BY <1>1, <1>2, <1>3, <1>4, <1>5, AttemptMoves, DriverNames

\* A run that ends: with nobody to carry its answer it is an excuse, and a
\* driver it carries a rejection to is denied nothing more.
LEMMA BrowserEndsSafe ==
    ASSUME SignInInv, NEW a \in Accounts, BrowserEnds(a)
    PROVE  SignInInv'
  <1>1. PICK rev \in run[a], failure \in JobFailures :
          LET carried == {d \in Drivers : job[<<d, a>>].phase = "asked" /\ job[<<d, a>>].rev = rev} IN
          /\ job' = [p \in Drivers \X Accounts |->
               IF p[2] = a /\ p[1] \in carried
                 THEN [job[p] EXCEPT !.phase = "ended", !.failure = failure]
                 ELSE job[p]]
          /\ denied' = [denied EXCEPT ![a] =
               IF failure = Rejected /\ rev = revision[a] THEN @ + 1 ELSE @]
          /\ IF carried = {} THEN Excuse(a) ELSE UNCHANGED excused
          /\ UNCHANGED <<check, latest, claimed, serial, revision, executor, clock, ended>>
    BY DEF BrowserEnds, JobFailures
  <1> DEFINE carried == {d \in Drivers : job[<<d, a>>].phase = "asked" /\ job[<<d, a>>].rev = rev}
  <1>2. SignInTyped
    BY DEF SignInInv
  <1>3. ASSUME NEW d \in Drivers, NEW b \in Accounts, ~(b = a /\ d \in carried)
        PROVE  job'[<<d, b>>] = job[<<d, b>>]
    BY <1>1, <1>3
  <1>4. ASSUME NEW d \in carried
        PROVE  /\ job'[<<d, a>>] \in Jobs /\ job'[<<d, a>>].phase = "ended"
               /\ job'[<<d, a>>].failure = failure /\ job'[<<d, a>>].rev = rev
               /\ job[<<d, a>>].phase = "asked" /\ job[<<d, a>>].rev = rev
    <2>1. PICK j \in Jobs : j = job[<<d, a>>]
      BY <1>2 DEF SignInTyped
    <2>2. job'[<<d, a>>] = [j EXCEPT !.phase = "ended", !.failure = failure]
      BY <1>1, <2>1
    <2>3. "ended" \in JobPhases
      BY DEF JobPhases
    <2>4. j.phase = "asked" /\ j.rev = rev
      BY <2>1
    <2>. QED
      BY <1>1, <2>1, <2>2, <2>3, <2>4 DEF Jobs
  <1>5. job' \in [Drivers \X Accounts -> Jobs]
    <2>1. ASSUME NEW d \in Drivers, NEW b \in Accounts
          PROVE  job'[<<d, b>>] \in Jobs
      <3>1. CASE b = a /\ d \in carried
        BY <1>4, <3>1
      <3>2. CASE ~(b = a /\ d \in carried)
        <4>1. job[<<d, b>>] \in Jobs
          BY <1>2 DEF SignInTyped
        <4>. QED
          BY <1>3, <3>2, <4>1
      <3>. QED
        BY <3>1, <3>2
    <2>2. \A p \in Drivers \X Accounts : job'[p] \in Jobs
      BY <2>1
    <2>. QED
      BY <1>1, <2>2
  <1>6. \A b \in Accounts : job[<<"sweep", b>>].phase = "idle" <=> job'[<<"sweep", b>>].phase = "idle"
    BY <1>3, <1>4, DriverNames
  <1>7. ClaimHeldByTask' /\ CheckLeft'
    BY <1>1, <1>6 DEF SignInInv, ClaimHeldByTask, CheckLeft
  <1>8. /\ denied' \in [Accounts -> Nat]
        /\ \A b \in Accounts \ {a} : denied'[b] = denied[b]
        /\ denied'[a] = IF failure = Rejected /\ rev = revision[a] THEN denied[a] + 1 ELSE denied[a]
    <2>1. denied \in [Accounts -> Nat]
      BY <1>2 DEF SignInTyped
    <2>2. CASE failure = Rejected /\ rev = revision[a]
      <3>1. denied' = [denied EXCEPT ![a] = @ + 1]
        BY <1>1, <2>2
      <3>. QED
        BY <2>1, <2>2, <3>1
    <2>3. CASE ~(failure = Rejected /\ rev = revision[a])
      <3>1. denied' = [denied EXCEPT ![a] = @]
        BY <1>1, <2>3
      <3>. QED
        BY <2>1, <2>3, <3>1
    <2>. QED
      BY <2>2, <2>3
  <1>9. /\ excused' \in [Accounts -> Nat]
        /\ \A b \in Accounts \ {a} : excused'[b] = excused[b]
        /\ IF carried = {} THEN excused'[a] = excused[a] + 1 ELSE excused'[a] = excused[a]
    BY <1>1, <1>2, ExcuseCounts DEF SignInTyped
  <1>10. SignInTyped'
    BY <1>1, <1>2, <1>5, <1>8, <1>9 DEF SignInTyped
  <1>11. OnlyAt(a)
    BY <1>1, <1>3, <1>8, <1>9 DEF OnlyAt
  <1>12. latest'[a] = latest[a] /\ revision'[a] = revision[a]
    BY <1>1
  <1> HIDE DEF carried
  <1>13. ASSUME NEW d \in Drivers \ carried
         PROVE  MayBeDenied(d, a)' = MayBeDenied(d, a)
    BY <1>3, <1>12 DEF MayBeDenied, Stands
  <1>14. ASSUME NEW d \in carried
         PROVE  /\ MayBeDenied(d, a)' <= MayBeDenied(d, a)
                /\ failure = Rejected /\ rev = revision[a]
                     => MayBeDenied(d, a)' = 0 /\ MayBeDenied(d, a) = 1
    BY <1>4, <1>12 DEF MayBeDenied, Stands
  <1>15. carried \subseteq Drivers
    BY DEF carried
  <1>16. /\ \A d \in Drivers : MayBeDenied(d, a) \in {0, 1} /\ MayBeDenied(d, a)' \in {0, 1}
         /\ denied[a] \in Nat /\ excused[a] \in Nat /\ RoundsPaid(a)
    BY <1>2, <1>10, DeniedBound, DeniedBoundNext DEF SignInInv
  <1>17. RoundsPaid(a)'
    <2>1. CASE carried = {}
      <3>1. /\ MayBeDenied("sweep", a)' = MayBeDenied("sweep", a)
            /\ MayBeDenied("console", a)' = MayBeDenied("console", a)
        BY <1>13, <2>1, DriverNames
      <3>. QED
        BY <1>8, <1>9, <1>16, <2>1, <3>1, DriverNames DEF RoundsPaid
    <2>2. CASE carried # {}
      <3>1. \A d \in Drivers : MayBeDenied(d, a)' <= MayBeDenied(d, a)
        BY <1>13, <1>14, <1>16
      <3>2. CASE ~(failure = Rejected /\ rev = revision[a])
        BY <1>8, <1>9, <1>10, <2>2, <3>1, <3>2, NothingOwed
      <3>3. CASE failure = Rejected /\ rev = revision[a]
        <4>1. \/ MayBeDenied("sweep", a)' = 0 /\ MayBeDenied("sweep", a) = 1
              \/ MayBeDenied("console", a)' = 0 /\ MayBeDenied("console", a) = 1
          BY <1>14, <1>15, <2>2, <3>3, DriverNames
        <4>2. /\ MayBeDenied("sweep", a)' <= MayBeDenied("sweep", a)
              /\ MayBeDenied("console", a)' <= MayBeDenied("console", a)
          BY <3>1, DriverNames
        <4>3. /\ MayBeDenied("sweep", a) \in {0, 1} /\ MayBeDenied("sweep", a)' \in {0, 1}
              /\ MayBeDenied("console", a) \in {0, 1} /\ MayBeDenied("console", a)' \in {0, 1}
          BY <1>16, DriverNames
        <4>4. denied'[a] = denied[a] + 1 /\ excused'[a] = excused[a]
          BY <1>8, <1>9, <2>2, <3>3
        <4>. QED
          BY <1>16, <4>1, <4>2, <4>3, <4>4 DEF RoundsPaid
      <3>. QED
        BY <3>2, <3>3
    <2>. QED
      BY <2>1, <2>2
  <1>. QED
    BY <1>7, <1>10, <1>11, <1>17, Assemble

\* A restart ends every attempt and excuses every account.
LEMMA RestartSafe ==
    ASSUME SignInInv, GatewayRestart
    PROVE  SignInInv'
  <1>1. /\ claimed' = {} /\ serial' = {} /\ job' = [p \in Drivers \X Accounts |-> Idle]
        /\ excused' = [a \in Accounts |-> excused[a] + 1]
        /\ ended' = [a \in Accounts |-> "none"]
        /\ UNCHANGED <<check, latest, revision, executor, clock, denied>>
    BY DEF GatewayRestart
  <1>2. \A d \in Drivers, a \in Accounts : job'[<<d, a>>] = Idle
    BY <1>1
  <1>3. SignInTyped'
    BY <1>1, IdleTyped DEF SignInInv, SignInTyped
  <1>4. ClaimHeldByTask' /\ CheckLeft'
    BY <1>1, <1>2, IdleTyped, DriverNames DEF ClaimHeldByTask, CheckLeft
  <1>5. \A a \in Accounts : RoundsPaid(a)'
    BY <1>1, <1>3, ExcusePays
  <1>. QED
    BY <1>3, <1>4, <1>5 DEF SignInInv

\* A change of the login starts the counting again.
LEMMA ChangeLoginSafe ==
    ASSUME SignInInv, NEW a \in Accounts, ChangeLogin(a)
    PROVE  SignInInv'
  <1>1. /\ revision' = [revision EXCEPT ![a] = @ + 1] /\ denied' = [denied EXCEPT ![a] = 0]
        /\ UNCHANGED <<check, latest, claimed, serial, job, executor, clock, excused, ended>>
    BY DEF ChangeLogin
  <1>2. SignInTyped
    BY DEF SignInInv
  <1>3. /\ revision' \in [Accounts -> Nat] /\ denied' \in [Accounts -> Nat] /\ denied'[a] = 0
        /\ \A b \in Accounts \ {a} : revision'[b] = revision[b] /\ denied'[b] = denied[b]
    BY <1>1, <1>2 DEF SignInTyped
  <1>4. SignInTyped'
    BY <1>1, <1>2, <1>3 DEF SignInTyped
  <1>5. ClaimHeldByTask' /\ CheckLeft'
    BY <1>1 DEF SignInInv, ClaimHeldByTask, CheckLeft
  <1>6. OnlyAt(a)
    BY <1>1, <1>3 DEF OnlyAt
  <1>. QED
    BY <1>3, <1>4, <1>5, <1>6, NewRevision, Assemble

\* A sign-in by hand is recorded in the place of a rejection.
LEMMA HandSignInSafe ==
    ASSUME SignInInv, NEW a \in Accounts, HandSignIn(a)
    PROVE  SignInInv'
  <1>1. PICK result \in {"signed_in", "failed"} :
          Verdict("console", a, result, NoFailure, NoRevision, 0, clock)
    BY DEF HandSignIn
  <1>2. UNCHANGED <<check, claimed, serial, job, revision, executor, clock, denied, ended>>
    BY DEF HandSignIn
  <1>3. SignInTyped
    BY DEF SignInInv
  <1>4. NoFailure.code # "credential_rejected"
    BY RejectedCode
  <1>5. /\ excused' \in [Accounts -> Nat] /\ DOMAIN latest' = Accounts
        /\ \A b \in Accounts : latest'[b] = NoRecord \/ latest'[b].result \in {"signed_in", "failed"}
        /\ \A b \in Accounts \ {a} : excused'[b] = excused[b] /\ latest'[b] = latest[b]
        /\ excused'[a] = excused[a] + 1
    BY <1>1, <1>3, <1>4, VerdictLeaves, DriverNames
  <1>6. SignInTyped'
    BY <1>2, <1>3, <1>5 DEF SignInTyped
  <1>7. ClaimHeldByTask' /\ CheckLeft'
    BY <1>2 DEF SignInInv, ClaimHeldByTask, CheckLeft
  <1>8. OnlyAt(a)
    BY <1>2, <1>5 DEF OnlyAt
  <1>9. RoundsPaid(a)'
    BY <1>2, <1>5, <1>6, ExcusePays
  <1>. QED
    BY <1>6, <1>7, <1>8, <1>9, Assemble

\* The steps that leave the attempts, the journal and the counts alone.
LEMMA BesideSafe ==
    ASSUME SignInInv, executor' \in Nat, clock' \in Nat,
           UNCHANGED <<check, latest, claimed, serial, job, revision, denied, excused, ended>>
    PROVE  SignInInv'
  <1>1. SignInTyped'
    BY DEF SignInInv, SignInTyped
  <1>2. ClaimHeldByTask' /\ CheckLeft'
    BY DEF SignInInv, ClaimHeldByTask, CheckLeft
  <1>3. \A a \in Accounts : RoundsPaid(a)'
    BY DEF SignInInv, RoundsPaid, MayBeDenied, Stands
  <1>. QED
    BY <1>1, <1>2, <1>3 DEF SignInInv

\* Every step of sign-in keeps the invariant.
LEMMA SignInSteps == SignInInv /\ [SignInNext]_signInVars => SignInInv'
  <1> SUFFICES ASSUME SignInInv, [SignInNext]_signInVars
               PROVE  SignInInv'
    OBVIOUS
  <1>1. executor \in Nat /\ clock \in Nat
    BY DEF SignInInv, SignInTyped
  <1>2. CASE UNCHANGED signInVars
    BY <1>1, <1>2, BesideSafe DEF signInVars
  <1>3. CASE UpgradeExecutor
    BY <1>1, <1>3, BesideSafe DEF UpgradeExecutor
  <1>4. CASE SignInTick
    BY <1>1, <1>4, BesideSafe DEF SignInTick
  <1>5. ASSUME NEW a \in Accounts, Disown(a)
        PROVE  SignInInv'
    BY <1>1, <1>5, BesideSafe DEF Disown
  <1>. QED
    BY <1>2, <1>3, <1>4, <1>5, ScheduleSafe, LockSerialSafe, ConsoleSafe, AttemptSafe,
       BrowserEndsSafe, PanicSafe, ChangeLoginSafe, HandSignInSafe, RestartSafe DEF SignInNext

\* The invariant holds at the start.
LEMMA SignInStarts == SignInInit => SignInInv
  <1> SUFFICES ASSUME SignInInit
               PROVE  SignInInv
    OBVIOUS
  <1>1. \A d \in Drivers, a \in Accounts : job[<<d, a>>] = Idle
    BY DEF SignInInit
  <1>2. SignInTyped
    BY IdleTyped DEF SignInInit, SignInTyped
  <1>3. ClaimHeldByTask /\ CheckLeft
    BY <1>1, IdleTyped, DriverNames DEF SignInInit, ClaimHeldByTask, CheckLeft
  <1>4. ASSUME NEW a \in Accounts
        PROVE  RoundsPaid(a)
    <2>1. MayBeDenied("sweep", a) \in {0, 1} /\ MayBeDenied("console", a) \in {0, 1}
      BY <1>2, DeniedBound, DriverNames
    <2>2. denied[a] = 0 /\ excused[a] = 0
      BY DEF SignInInit
    <2>. QED
      BY <2>1, <2>2 DEF RoundsPaid
  <1>. QED
    BY <1>2, <1>3, <1>4 DEF SignInInv

\* What the invariant says of the rejections and of a check that failed.
LEMMA SignInInvGives == SignInInv => SignInSafe
  <1> SUFFICES ASSUME SignInInv
               PROVE  SignInSafe
    OBVIOUS
  <1>1. SignInTyped
    BY DEF SignInInv
  <1>2. ASSUME NEW a \in Accounts
        PROVE  denied[a] <= Cardinality(Drivers) * (1 + excused[a])
    <2>1. MayBeDenied("sweep", a) \in {0, 1} /\ MayBeDenied("console", a) \in {0, 1}
          /\ denied[a] \in Nat /\ excused[a] \in Nat
      BY <1>1, DeniedBound, DriverNames
    <2>2. denied[a] <= 2 * (1 + excused[a])
      BY <2>1 DEF SignInInv, RoundsPaid
    <2>. QED
      BY <2>2, DriverNames
  <1>3. FailedCheckSeen
    <2> SUFFICES ASSUME NEW a \in Accounts, ended[a] \in {"error", "panicked"},
                        cred[a].state = "disowned",
                        ~(latest[a].result = "signed_in" /\ latest[a].at >= check[a])
                 PROVE  ObservedFailure(a)
      BY DEF FailedCheckSeen
    <2>1. check[a] >= 0 /\ cred[a].state # "active"
      BY DEF SignInInv, CheckLeft
    <2>2. latest[a] = NoRecord \/ latest[a].result \in {"signed_in", "failed"}
      BY <1>1 DEF SignInTyped
    <2>3. CASE latest[a].result = "failed"
      BY <2>1, <2>3 DEF ObservedFailure
    <2>4. CASE latest[a] = NoRecord \/ latest[a].result = "signed_in"
      BY <2>1, <2>4 DEF ObservedFailure
    <2>. QED
      BY <2>2, <2>3, <2>4
  <1>. QED
    BY <1>2, <1>3 DEF SignInSafe, RejectionsExcused, SignInInv

\* Whatever the sweep, the console and the command line interleave, and
\* wherever a task panics or the gateway restarts: a rejected credential is
\* put to the provider again only for a reason the journal cannot hold, a
\* failed check stays visible, and every claim belongs to a live task.
THEOREM SignInsAccounted == SignInSpec => []SignInSafe
  BY SignInStarts, SignInSteps, SignInInvGives, PTL DEF SignInSpec

-----------------------------------------------------------------------------
(***************************************************************************)
(* Acquisition (Acquisition). The bound on the pool is not inductive: an   *)
(* account may be on its way. What may still come is counted with the      *)
(* accounts, and an automatic purchase that nobody resolved is latched in  *)
(* the newest record until an operator runs.                               *)
(***************************************************************************)

\* The phases of a purchase, and what a buyer remembers in it.
BuyPhases == {"idle", "deciding", "decided", "asking", "asked", "bought", "failed"}

BuyerRows == [phase : BuyPhases, trigger : Triggers, ask : Nat]

\* Whether an operator, not the sweep, asked for this purchase.
ByOperator(p) == buyer[p].trigger = "operator"

\* The gateway's purchase is of its own making and in one of these phases.
Automatic(phases) == ~ByOperator("gateway") /\ buyer["gateway"].phase \in phases

\* The types of the pool, the newest record, the buyers and what Weles was asked.
AcquisitionTyped ==
    /\ pool \subseteq Slots /\ IsFiniteSet(AccountsIn(pool))
    /\ newest \in AcquisitionRecords \cup {Nobody}
    /\ buyer \in [Buyers -> BuyerRows]
    /\ IsFiniteSet(weles)
    /\ asks \in Nat
    /\ opRuns \in Nat
    /\ ByOperator("cli")

\* One purchase is one number.
AsksApart ==
    /\ \A p \in Buyers : buyer[p].ask <= asks
    /\ /\ buyer["gateway"].phase \in {"asking", "asked"}
       /\ buyer["cli"].phase \in {"asking", "asked"}
       => buyer["gateway"].ask # buyer["cli"].ask

\* What the automatic triggers left open, and that the newest record says so.
LooseLatched ==
    /\ \A a, b \in loose : a = b
    /\ ~UnresolvedAttempt(newest) => loose = {}
    /\ Automatic({"decided"}) => loose = {}
    /\ Automatic({"asking", "asked", "bought", "failed"}) =>
         loose \subseteq {buyer["gateway"].ask}

\* The accounts that may still come: the purchases at Weles, and the
\* acquisitions that may yet ask for one.
MayAsk(p) ==
    IF \/ buyer[p].phase \in {"decided", "asking"}
       \/ ByOperator(p) /\ buyer[p].phase = "deciding"
    THEN 1 ELSE 0

MayCome == Cardinality(weles) + MayAsk("gateway") + MayAsk("cli")

\* An operator's purchase that ended and is not yet journaled: its record may
\* let the automatic triggers ask once more.
Ended(p) ==
    IF ByOperator(p) /\ buyer[p].phase \in {"bought", "failed"} THEN 1 ELSE 0

\* Those, and the operator's ended purchases not yet journaled.
Unspent == MayCome + Ended("gateway") + Ended("cli")

\* One automatic purchase beside what operators started, and none while the
\* newest record lets one be decided.
Budget ==
    /\ Unspent <= opRuns + 1
    /\ ~UnresolvedAttempt(newest) /\ ~Automatic({"decided"}) => Unspent <= opRuns
    /\ Automatic({"bought"}) => Unspent <= opRuns

\* The pool and what may still join it stay within the allowance and the operator's own runs.
WithinCap == Cardinality(AccountsIn(pool)) + MayCome <= Allowance + opRuns

\* The inductive invariant of acquisition.
AcquisitionInv == AcquisitionTyped /\ AsksApart /\ LooseLatched /\ Budget /\ WithinCap

\* There are two buyers.
LEMMA BuyerNames == "gateway" \in Buyers /\ "cli" \in Buyers /\ Buyers = {"gateway", "cli"}
  BY DEF Buyers

\* One element more.
LEMMA OneMore ==
    ASSUME NEW S, NEW x, IsFiniteSet(S)
    PROVE  /\ IsFiniteSet(S \cup {x}) /\ Cardinality(S \cup {x}) \in Int
           /\ Cardinality(S \cup {x}) <= Cardinality(S) + 1
  <1>1. Cardinality(S) \in Nat
    BY FS_CardinalityType
  <1>2. /\ IsFiniteSet(S \cup {x})
        /\ Cardinality(S \cup {x}) = IF x \in S THEN Cardinality(S) ELSE Cardinality(S) + 1
    BY FS_AddElement
  <1>. QED
    BY <1>1, <1>2

\* Only this process moves.
Moved(p) ==
    /\ buyer' \in [Buyers -> BuyerRows]
    /\ \A q \in Buyers \ {p} : buyer'[q] = buyer[q]

\* The allowance is the larger of the cap and the founders.
LEMMA AllowanceIs ==
    /\ Allowance \in Nat /\ Cap \in Nat
    /\ Cap <= Allowance
    /\ Cardinality(AccountsIn(Founders)) <= Allowance
  <1>1. Cap \in Nat /\ Cardinality(AccountsIn(Founders)) \in Nat
    BY AcquisitionAssumption, FS_CardinalityType DEF AcquisitionAssumption, AccountsIn
  <1>. QED
    BY <1>1 DEF Allowance, CountPastCap

\* The counts are numbers, and no buyer may ask for more than one account.
LEMMA Counts ==
    ASSUME AcquisitionTyped
    PROVE  /\ \A p \in Buyers : MayAsk(p) \in {0, 1} /\ Ended(p) \in {0, 1}
           /\ Cardinality(weles) \in Nat /\ Cardinality(AccountsIn(pool)) \in Nat
           /\ MayCome \in Nat /\ Unspent \in Nat /\ MayCome <= Unspent /\ opRuns \in Nat
  <1>1. /\ \A p \in Buyers : MayAsk(p) \in {0, 1} /\ Ended(p) \in {0, 1}
    BY DEF MayAsk, Ended
  <1>2. Cardinality(weles) \in Nat /\ Cardinality(AccountsIn(pool)) \in Nat /\ opRuns \in Nat
    BY FS_CardinalityType DEF AcquisitionTyped
  <1>3. MayAsk("gateway") \in {0, 1} /\ MayAsk("cli") \in {0, 1} /\ Ended("gateway") \in {0, 1}
        /\ Ended("cli") \in {0, 1}
    BY <1>1, BuyerNames
  <1>4. MayCome \in Nat
    BY <1>2, <1>3 DEF MayCome
  <1>5. Unspent \in Nat /\ MayCome <= Unspent
    BY <1>3, <1>4 DEF Unspent
  <1>. QED
    BY <1>1, <1>2, <1>4, <1>5

\* The same of the next state.
LEMMA CountsNext ==
    ASSUME AcquisitionTyped'
    PROVE  /\ \A p \in Buyers : MayAsk(p)' \in {0, 1} /\ Ended(p)' \in {0, 1}
           /\ Cardinality(weles') \in Nat
  <1>1. /\ \A p \in Buyers : MayAsk(p)' \in {0, 1} /\ Ended(p)' \in {0, 1}
    BY DEF MayAsk, Ended
  <1>2. Cardinality(weles') \in Nat
    BY FS_CardinalityType DEF AcquisitionTyped
  <1>. QED
    BY <1>1, <1>2

\* The sums move by what the one process and Weles moved by.
LEMMA Sums ==
    ASSUME AcquisitionTyped, AcquisitionTyped', NEW p \in Buyers, Moved(p)
    PROVE  /\ MayCome' = MayCome + (Cardinality(weles') - Cardinality(weles))
                            + (MayAsk(p)' - MayAsk(p))
           /\ Unspent' = Unspent + (Cardinality(weles') - Cardinality(weles))
                            + (MayAsk(p)' - MayAsk(p)) + (Ended(p)' - Ended(p))
  <1>1. \A q \in Buyers \ {p} : MayAsk(q)' = MayAsk(q) /\ Ended(q)' = Ended(q)
    BY DEF Moved, MayAsk, Ended, ByOperator
  <1>2. MayCome' = Cardinality(weles') + MayAsk("gateway")' + MayAsk("cli")'
    BY DEF MayCome
  <1>3. Unspent' = MayCome' + Ended("gateway")' + Ended("cli")'
    BY DEF Unspent
  <1>4. CASE p = "gateway"
    <2>1. MayAsk("cli")' = MayAsk("cli") /\ Ended("cli")' = Ended("cli")
      BY <1>1, <1>4, BuyerNames
    <2>2. MayCome' = MayCome + (Cardinality(weles') - Cardinality(weles)) + (MayAsk(p)' - MayAsk(p))
      BY <1>2, <1>4, <2>1, Counts, CountsNext, BuyerNames DEF MayCome
    <2>. QED
      BY <1>2, <1>3, <1>4, <2>1, <2>2, Counts, CountsNext, BuyerNames DEF MayCome, Unspent
  <1>5. CASE p = "cli"
    <2>1. MayAsk("gateway")' = MayAsk("gateway") /\ Ended("gateway")' = Ended("gateway")
      BY <1>1, <1>5, BuyerNames
    <2>2. MayCome' = MayCome + (Cardinality(weles') - Cardinality(weles)) + (MayAsk(p)' - MayAsk(p))
      BY <1>2, <1>5, <2>1, Counts, CountsNext, BuyerNames DEF MayCome
    <2>. QED
      BY <1>2, <1>3, <1>5, <2>1, <2>2, Counts, CountsNext, BuyerNames DEF MayCome, Unspent
  <1>. QED
    BY <1>4, <1>5, BuyerNames

\* A buyer at rest buys nothing.
LEMMA RestsTyped ==
    /\ NotBuying \in BuyerRows /\ NotBuying.phase = "idle" /\ NotBuying.trigger = "operator"
    /\ NotBuying.ask = 0
  BY DEF NotBuying, BuyerRows, BuyPhases, Triggers

\* A process that goes back to rest without a record.
LEMMA GivesUp ==
    ASSUME AcquisitionInv, NEW p \in Buyers, buyer' = [buyer EXCEPT ![p] = NotBuying],
           UNCHANGED <<pool, newest, weles, asks, opRuns, loose>>
    PROVE  AcquisitionInv'
  <1>1. AcquisitionTyped /\ Moved(p) /\ buyer'[p] = NotBuying
    BY RestsTyped DEF AcquisitionInv, AcquisitionTyped, Moved
  <1>2. AcquisitionTyped'
    BY <1>1, RestsTyped, BuyerNames DEF AcquisitionTyped, ByOperator, Moved, AccountsIn
  <1>3. MayAsk(p)' = 0 /\ Ended(p)' = 0
    BY <1>1, RestsTyped DEF MayAsk, Ended, ByOperator
  <1>4. MayCome' <= MayCome /\ Unspent' <= Unspent /\ MayCome' \in Int /\ Unspent' \in Int
    BY <1>1, <1>2, <1>3, Sums, Counts, CountsNext
  <1>5. \A q \in Buyers : buyer'[q].ask <= asks
    BY <1>1, RestsTyped DEF AcquisitionInv, AsksApart, Moved, AcquisitionTyped
  <1>6. AsksApart'
    BY <1>1, <1>5, RestsTyped, BuyerNames DEF AcquisitionInv, AsksApart, Moved
  <1>7. /\ p = "gateway" => \A S : ~(~ByOperator("gateway") /\ buyer["gateway"].phase \in S)'
        /\ p = "cli" => buyer'["gateway"] = buyer["gateway"]
    BY <1>1, RestsTyped, BuyerNames DEF ByOperator, Moved
  <1>8. LooseLatched'
    BY <1>7, BuyerNames DEF AcquisitionInv, LooseLatched, Automatic, UnresolvedAttempt, ByOperator
  <1>9. Budget'
    <2>1. Unspent' <= opRuns' + 1
      BY <1>1, <1>4, Counts DEF AcquisitionInv, Budget
    <2>2. Automatic({"bought"})' => Unspent' <= opRuns'
      <3>1. Automatic({"bought"})' => Automatic({"bought"})
        BY <1>7, BuyerNames DEF Automatic, ByOperator
      <3>. QED
        BY <1>1, <1>4, <3>1, Counts DEF AcquisitionInv, Budget
    <2>3. (~UnresolvedAttempt(newest) /\ ~Automatic({"decided"}))' => Unspent' <= opRuns'
      <3>1. CASE p = "gateway" /\ Automatic({"decided"})
        <4>1. MayAsk(p) = 1 /\ Ended(p) \in {0, 1}
          BY <3>1, <1>1, Counts DEF Automatic, MayAsk
        <4>. QED
          BY <1>1, <1>2, <1>3, <4>1, Sums, Counts, CountsNext DEF AcquisitionInv, Budget
      <3>2. CASE ~Automatic({"decided"})
        BY <1>1, <1>4, <3>2, Counts DEF AcquisitionInv, Budget, UnresolvedAttempt
      <3>3. CASE p = "cli" /\ Automatic({"decided"})
        BY <1>7, <3>3 DEF Automatic, ByOperator
      <3>. QED
        BY <3>1, <3>2, <3>3, BuyerNames
    <2>. QED
      BY <2>1, <2>2, <2>3 DEF Budget
  <1>10. WithinCap'
    BY <1>1, <1>4, Counts, AllowanceIs DEF AcquisitionInv, WithinCap, AccountsIn
  <1>. QED
    BY <1>2, <1>6, <1>8, <1>9, <1>10 DEF AcquisitionInv

\* A process that goes back to rest with a record of how its purchase ended.
LEMMA ConcludesKeeps ==
    ASSUME AcquisitionInv, NEW p \in Buyers, NEW result \in {"failed", "acquired"},
           buyer[p].phase \in {"asking", "asked", "bought", "failed"},
           result = "acquired" => buyer[p].phase = "bought",
           RecordAcquisition(p, buyer[p].ask, result),
           buyer' = [buyer EXCEPT ![p] = NotBuying], UNCHANGED <<pool, weles, asks, opRuns>>
    PROVE  AcquisitionInv'
  <1>1. AcquisitionTyped /\ Moved(p) /\ buyer'[p] = NotBuying /\ buyer[p] \in BuyerRows
    BY RestsTyped DEF AcquisitionInv, AcquisitionTyped, Moved
  <1>2. /\ newest' \in AcquisitionRecords /\ newest'.result = result
    BY <1>1 DEF RecordAcquisition, AcquisitionRecords, BuyerRows
  <1>3. AcquisitionTyped'
    BY <1>1, <1>2, RestsTyped, BuyerNames DEF AcquisitionTyped, ByOperator, Moved, AccountsIn
  <1>4. MayAsk(p)' = 0 /\ Ended(p)' = 0
    BY <1>1, RestsTyped DEF MayAsk, Ended, ByOperator
  <1>5. MayCome' <= MayCome /\ Unspent' <= Unspent /\ MayCome' \in Int /\ Unspent' \in Int
    BY <1>1, <1>3, <1>4, Sums, Counts, CountsNext
  <1>6. \A q \in Buyers : buyer'[q].ask <= asks
    BY <1>1, RestsTyped DEF AcquisitionInv, AsksApart, Moved, AcquisitionTyped
  <1>7. AsksApart'
    BY <1>1, <1>6, RestsTyped, BuyerNames DEF AcquisitionInv, AsksApart, Moved
  <1>8. /\ p = "gateway" => \A S : ~(~ByOperator("gateway") /\ buyer["gateway"].phase \in S)'
        /\ p = "cli" => buyer'["gateway"] = buyer["gateway"]
        /\ ByOperator("cli")
    BY <1>1, RestsTyped, BuyerNames DEF ByOperator, Moved, AcquisitionTyped
  <1>9. UnresolvedAttempt(newest)' <=> result = "failed"
    BY <1>2, NobodyAssumption DEF UnresolvedAttempt
  <1>10. LooseLatched'
    <2>1. CASE ByOperator(p)
      <3>1. loose' = {}
        BY <2>1 DEF RecordAcquisition, ByOperator
      <3>. QED
        BY <3>1 DEF LooseLatched
    <2>2. CASE ~ByOperator(p)
      <3>1. p = "gateway" /\ loose \subseteq {buyer[p].ask}
        BY <1>8, <2>2, BuyerNames DEF AcquisitionInv, LooseLatched, Automatic
      <3>2. loose' = IF result = "acquired" THEN loose \ {buyer[p].ask} ELSE loose
        BY <2>2 DEF RecordAcquisition, ByOperator
      <3>. QED
        BY <1>8, <1>9, <3>1, <3>2 DEF LooseLatched, Automatic
    <2>. QED
      BY <2>1, <2>2
  <1>11. Budget'
    <2>1. Unspent' <= opRuns' + 1
      BY <1>1, <1>5, Counts DEF AcquisitionInv, Budget
    <2>2. Automatic({"bought"})' => Unspent' <= opRuns'
      <3>1. Automatic({"bought"})' => Automatic({"bought"})
        BY <1>8, BuyerNames DEF Automatic, ByOperator
      <3>. QED
        BY <1>1, <1>5, <3>1, Counts DEF AcquisitionInv, Budget
    <2>3. CASE result = "failed"
      BY <1>9, <2>1, <2>2, <2>3 DEF Budget
    <2>4. CASE result = "acquired" /\ ByOperator(p)
      <3>1. Ended(p) = 1 /\ MayAsk(p) \in {0, 1}
        BY <1>1, <2>4, Counts DEF Ended
      <3>2. Unspent' <= opRuns'
        BY <1>1, <1>3, <1>4, <3>1, Sums, Counts, CountsNext DEF AcquisitionInv, Budget
      <3>. QED
        BY <2>1, <3>2 DEF Budget
    <2>5. CASE result = "acquired" /\ ~ByOperator(p)
      <3>1. Automatic({"bought"})
        BY <1>8, <2>5, BuyerNames DEF Automatic
      <3>2. Unspent' <= opRuns'
        BY <1>1, <1>5, <3>1, Counts DEF AcquisitionInv, Budget
      <3>. QED
        BY <2>1, <3>2 DEF Budget
    <2>. QED
      BY <2>3, <2>4, <2>5
  <1>12. WithinCap'
    BY <1>1, <1>5, Counts, AllowanceIs DEF AcquisitionInv, WithinCap, AccountsIn
  <1>. QED
    BY <1>3, <1>7, <1>10, <1>11, <1>12 DEF AcquisitionInv

\* A purchase that ends, failed or with an account, leaves the invariant.
LEMMA FinishSafe ==
    ASSUME AcquisitionInv, NEW p \in Buyers, NEW result \in {"failed", "acquired"},
           buyer[p].phase \in {"asking", "asked", "bought", "failed"},
           result = "acquired" => buyer[p].phase = "bought",
           FinishPurchase(p, result), UNCHANGED <<pool, weles, asks, opRuns>>
    PROVE  AcquisitionInv'
  BY GivesUp, ConcludesKeeps DEF FinishPurchase

\* Beginning to decide keeps the invariant.
LEMMA AcquireSafe ==
    ASSUME AcquisitionInv, NEW p \in Buyers, NEW trigger \in Triggers, Acquire(p, trigger)
    PROVE  AcquisitionInv'
  <1> DEFINE z == [NotBuying EXCEPT !.phase = "deciding", !.trigger = trigger]
  <1>1. z \in BuyerRows /\ z.phase = "deciding" /\ z.trigger = trigger /\ z.ask = 0
    BY DEF NotBuying, BuyerRows, BuyPhases
  <1>2. /\ buyer' = [buyer EXCEPT ![p] = z] /\ buyer[p].phase = "idle"
        /\ trigger # "operator" => p = "gateway"
        /\ opRuns' = IF trigger = "operator" THEN opRuns + 1 ELSE opRuns
        /\ UNCHANGED <<pool, newest, weles, asks, loose>>
    BY DEF Acquire
  <1> HIDE DEF z
  <1>3. AcquisitionTyped /\ Moved(p) /\ buyer'[p] = z
    BY <1>1, <1>2 DEF AcquisitionInv, AcquisitionTyped, Moved
  <1>4. ByOperator("cli")'
    BY <1>1, <1>2, <1>3, BuyerNames DEF AcquisitionTyped, ByOperator, Moved
  <1>5. AcquisitionTyped'
    BY <1>2, <1>3, <1>4 DEF AcquisitionTyped, Moved, AccountsIn
  <1>6. /\ MayAsk(p) = 0 /\ Ended(p) = 0 /\ Ended(p)' = 0
        /\ MayAsk(p)' = IF trigger = "operator" THEN 1 ELSE 0
    BY <1>1, <1>2, <1>3 DEF MayAsk, Ended, ByOperator
  <1>7. PICK d \in {0, 1} : opRuns' = opRuns + d /\ MayCome' = MayCome + d /\ Unspent' = Unspent + d
    <2>1. CASE trigger = "operator"
      BY <1>2, <1>3, <1>5, <1>6, <2>1, Sums, Counts, CountsNext
    <2>2. CASE trigger # "operator"
      BY <1>2, <1>3, <1>5, <1>6, <2>2, Sums, Counts, CountsNext
    <2>. QED
      BY <2>1, <2>2
  <1>8. \A q \in Buyers : buyer'[q].ask <= asks
    BY <1>1, <1>3 DEF AcquisitionInv, AsksApart, Moved, AcquisitionTyped
  <1>9. AsksApart'
    BY <1>1, <1>2, <1>3, <1>8, BuyerNames DEF AcquisitionInv, AsksApart, Moved
  <1>10. /\ p = "gateway" => ~Automatic({"decided"})' /\ ~Automatic({"bought"})'
         /\ p = "gateway" => ~Automatic({"asking", "asked", "bought", "failed"})'
         /\ p = "gateway" => ~Automatic({"decided"})
         /\ p = "cli" => buyer'["gateway"] = buyer["gateway"]
    BY <1>1, <1>2, <1>3, BuyerNames DEF Automatic, Moved
  <1>11. LooseLatched'
    BY <1>2, <1>10, BuyerNames
        DEF AcquisitionInv, LooseLatched, Automatic, UnresolvedAttempt, ByOperator
  <1>12. /\ Automatic({"decided"})' <=> Automatic({"decided"})
         /\ Automatic({"bought"})' => Automatic({"bought"})
         /\ UnresolvedAttempt(newest)' <=> UnresolvedAttempt(newest)
    BY <1>2, <1>10, BuyerNames DEF Automatic, ByOperator, UnresolvedAttempt
  <1>13. Budget'
    <2>1. Unspent \in Nat /\ opRuns \in Nat
      BY <1>3, Counts
    <2>2. Unspent <= opRuns + 1 => Unspent' <= opRuns' + 1
      BY <1>7, <2>1
    <2>3. Unspent <= opRuns => Unspent' <= opRuns'
      BY <1>7, <2>1
    <2>. QED
      BY <1>12, <2>2, <2>3 DEF AcquisitionInv, Budget
  <1>14. WithinCap'
    BY <1>2, <1>3, <1>7, Counts, AllowanceIs
       DEF AcquisitionInv, WithinCap, AccountsIn
  <1>. QED
    BY <1>5, <1>9, <1>11, <1>13, <1>14 DEF AcquisitionInv

\* A decision counts against the cap from here on.
LEMMA DecideSafe ==
    ASSUME AcquisitionInv, NEW p \in Buyers, DecideShortage(p)
    PROVE  AcquisitionInv'
  <1> DEFINE y == buyer[p]
             z == [y EXCEPT !.phase = "decided"]
  <1>1. y.phase = "deciding" /\ y \in BuyerRows /\ buyer' = [buyer EXCEPT ![p] = z]
        /\ UNCHANGED <<pool, newest, weles, asks, opRuns, loose>> /\ y = buyer[p]
    BY DEF DecideShortage, AcquisitionInv, AcquisitionTyped
  <1>2. /\ ~ByOperator(p) => ~UnresolvedAttempt(newest)
        /\ ~CapReached(pool)
    BY DEF DecideShortage, Decides, ByOperator
  <1>3. "decided" \in BuyPhases
    BY DEF BuyPhases
  <1> HIDE DEF y
  <1>4. z \in BuyerRows /\ z.phase = "decided" /\ z.trigger = y.trigger /\ z.ask = y.ask
    BY <1>1, <1>3 DEF BuyerRows
  <1> HIDE DEF z
  <1>5. AcquisitionTyped /\ Moved(p) /\ buyer'[p] = z
    BY <1>1, <1>4 DEF AcquisitionInv, AcquisitionTyped, Moved
  <1>6. ByOperator("cli")' /\ (ByOperator(p)' <=> ByOperator(p)) /\ ByOperator("cli")
    BY <1>1, <1>4, <1>5, BuyerNames DEF AcquisitionTyped, ByOperator, Moved
  <1>7. AcquisitionTyped'
    BY <1>1, <1>5, <1>6 DEF AcquisitionTyped, Moved, AccountsIn
  <1>8. /\ MayAsk(p) = (IF ByOperator(p) THEN 1 ELSE 0) /\ Ended(p) = 0 /\ Ended(p)' = 0
        /\ MayAsk(p)' = 1
    BY <1>1, <1>4, <1>5 DEF MayAsk, Ended, ByOperator
  <1>9. \A q \in Buyers : buyer'[q].ask <= asks
    BY <1>1, <1>4, <1>5 DEF AcquisitionInv, AsksApart, Moved
  <1>10. AsksApart'
    BY <1>1, <1>4, <1>5, <1>9, BuyerNames DEF AcquisitionInv, AsksApart, Moved
  <1>11. CASE ByOperator(p)
    <2>1. MayCome' = MayCome /\ Unspent' = Unspent
      BY <1>1, <1>5, <1>7, <1>8, <1>11, Sums, Counts, CountsNext
    <2>2. /\ Automatic({"decided"})' <=> Automatic({"decided"})
          /\ Automatic({"bought"})' => Automatic({"bought"})
          /\ Automatic({"asking", "asked", "bought", "failed"})' =>
               /\ Automatic({"asking", "asked", "bought", "failed"})
               /\ buyer'["gateway"] = buyer["gateway"]
          /\ UnresolvedAttempt(newest)' <=> UnresolvedAttempt(newest)
      BY <1>1, <1>4, <1>5, <1>6, <1>11, BuyerNames
          DEF Automatic, ByOperator, UnresolvedAttempt, Moved
    <2>3. LooseLatched'
      BY <1>1, <2>2 DEF AcquisitionInv, LooseLatched
    <2>4. Budget' /\ WithinCap'
      BY <1>1, <2>1, <2>2 DEF AcquisitionInv, Budget, WithinCap, AccountsIn
    <2>. QED
      BY <1>7, <1>10, <2>3, <2>4 DEF AcquisitionInv
  <1>12. CASE ~ByOperator(p)
    <2>1. p = "gateway" /\ ~UnresolvedAttempt(newest) /\ ~Automatic({"decided"}) /\ Automatic({"decided"})'
          /\ ~Automatic({"bought"})' /\ ~Automatic({"asking", "asked", "bought", "failed"})'
      BY <1>1, <1>2, <1>4, <1>5, <1>6, <1>12, BuyerNames DEF Automatic
    <2>2. LooseLatched'
      BY <1>1, <2>1 DEF AcquisitionInv, LooseLatched
    <2>3. Unspent <= opRuns /\ Unspent' = Unspent + 1 /\ MayCome' = MayCome + 1
      BY <1>1, <1>5, <1>7, <1>8, <1>12, <2>1, Sums, Counts, CountsNext DEF AcquisitionInv, Budget
    <2>4. Budget'
      BY <1>1, <1>5, <2>1, <2>3, Counts DEF Budget
    <2>5. Cardinality(AccountsIn(pool)) < Cap
      BY <1>2, <1>5, Counts, AcquisitionAssumption DEF CapReached, AcquisitionAssumption
    <2>6. WithinCap'
      BY <1>1, <1>5, <2>3, <2>5, Counts, AllowanceIs DEF WithinCap, AccountsIn
    <2>. QED
      BY <1>7, <1>10, <2>2, <2>4, <2>6 DEF AcquisitionInv
  <1>. QED
    BY <1>11, <1>12

\* Journaling a request spends the decision that was taken for it.
LEMMA RequestSafe ==
    ASSUME AcquisitionInv, NEW p \in Buyers, RequestPurchase(p)
    PROVE  AcquisitionInv'
  <1> DEFINE y == buyer[p]
             n == asks + 1
             z == [y EXCEPT !.phase = "asking", !.ask = n]
  <1>1. y.phase = "decided" /\ y \in BuyerRows /\ buyer' = [buyer EXCEPT ![p] = z]
        /\ UNCHANGED <<pool, weles, opRuns>> /\ y = buyer[p] /\ asks' = n
        /\ RecordAcquisition(p, n, "requested")
    BY DEF RequestPurchase, AcquisitionInv, AcquisitionTyped
  <1>2. "asking" \in BuyPhases /\ n \in Nat /\ asks < n /\ asks \in Nat
    BY DEF BuyPhases, AcquisitionInv, AcquisitionTyped
  <1> HIDE DEF y, n
  <1>3. z \in BuyerRows /\ z.phase = "asking" /\ z.trigger = y.trigger /\ z.ask = n
    BY <1>1, <1>2 DEF BuyerRows
  <1> HIDE DEF z
  <1>4. AcquisitionTyped /\ Moved(p) /\ buyer'[p] = z
    BY <1>1, <1>3 DEF AcquisitionInv, AcquisitionTyped, Moved
  <1>5. ByOperator("cli")' /\ (ByOperator(p)' <=> ByOperator(p)) /\ ByOperator("cli")
    BY <1>1, <1>3, <1>4, BuyerNames DEF AcquisitionTyped, ByOperator, Moved
  <1>6. newest' \in AcquisitionRecords /\ newest'.result = "requested"
    BY <1>1, <1>2 DEF RecordAcquisition, AcquisitionRecords, BuyerRows
  <1>7. UnresolvedAttempt(newest)'
    BY <1>6, NobodyAssumption DEF UnresolvedAttempt
  <1>8. AcquisitionTyped'
    BY <1>1, <1>2, <1>4, <1>5, <1>6 DEF AcquisitionTyped, Moved, AccountsIn
  <1>9. /\ MayAsk(p) = 1 /\ Ended(p) = 0 /\ Ended(p)' = 0 /\ MayAsk(p)' = 1
    BY <1>1, <1>3, <1>4 DEF MayAsk, Ended, ByOperator
  <1>10. MayCome' = MayCome /\ Unspent' = Unspent
    BY <1>1, <1>4, <1>8, <1>9, Sums, Counts, CountsNext
  <1>11. \A q \in Buyers \ {p} : buyer'[q] = buyer[q] /\ buyer[q].ask \in Nat /\ buyer[q].ask <= asks
    BY <1>4 DEF AcquisitionInv, AsksApart, Moved, AcquisitionTyped, BuyerRows
  <1>12. \A q \in Buyers : buyer'[q].ask <= n
    BY <1>2, <1>3, <1>4, <1>11
  <1>13. \A q \in Buyers \ {p} : buyer'[q].ask # buyer'[p].ask
    BY <1>2, <1>3, <1>4, <1>11
  <1>14. AsksApart'
    BY <1>1, <1>12, <1>13, BuyerNames DEF AsksApart
  <1>15. /\ Automatic({"bought"})' => Automatic({"bought"})
         /\ ~ByOperator(p) => p = "gateway" /\ Automatic({"decided"})
    BY <1>1, <1>3, <1>4, <1>5, BuyerNames DEF Automatic, ByOperator, Moved
  <1>16. LooseLatched'
    <2>1. CASE ByOperator(p)
      BY <1>1, <2>1 DEF RecordAcquisition, ByOperator, LooseLatched
    <2>2. CASE ~ByOperator(p)
      <3>1. loose = {} /\ p = "gateway"
        BY <1>15, <2>2 DEF AcquisitionInv, LooseLatched
      <3>2. loose' = {n}
        BY <1>1, <2>2, <3>1 DEF RecordAcquisition, ByOperator
      <3>3. ~Automatic({"decided"})'
        BY <1>3, <1>4, <3>1 DEF Automatic
      <3>. QED
        BY <1>3, <1>4, <1>7, <3>1, <3>2, <3>3 DEF LooseLatched
    <2>. QED
      BY <2>1, <2>2
  <1>17. Budget' /\ WithinCap'
    BY <1>1, <1>7, <1>10, <1>15 DEF AcquisitionInv, Budget, WithinCap, AccountsIn
  <1>. QED
    BY <1>8, <1>14, <1>16, <1>17 DEF AcquisitionInv

\* Asking Weles moves what may come from the buyer to Weles.
LEMMA AskSafe ==
    ASSUME AcquisitionInv, NEW p \in Buyers, AskPurchase(p)
    PROVE  AcquisitionInv'
  <1> DEFINE y == buyer[p]
             z == [y EXCEPT !.phase = "asked"]
  <1>1. y.phase = "asking" /\ y \in BuyerRows /\ buyer' = [buyer EXCEPT ![p] = z]
        /\ UNCHANGED <<pool, newest, asks, opRuns, loose>> /\ y = buyer[p]
        /\ weles' = weles \cup {buyer[p].ask}
    BY DEF AskPurchase, AcquisitionInv, AcquisitionTyped
  <1>2. "asked" \in BuyPhases
    BY DEF BuyPhases
  <1> HIDE DEF y
  <1>3. z \in BuyerRows /\ z.phase = "asked" /\ z.trigger = y.trigger /\ z.ask = y.ask
    BY <1>1, <1>2 DEF BuyerRows
  <1> HIDE DEF z
  <1>4. AcquisitionTyped /\ Moved(p) /\ buyer'[p] = z
    BY <1>1, <1>3 DEF AcquisitionInv, AcquisitionTyped, Moved
  <1>5. ByOperator("cli")' /\ (ByOperator(p)' <=> ByOperator(p)) /\ ByOperator("cli")
    BY <1>1, <1>3, <1>4, BuyerNames DEF AcquisitionTyped, ByOperator, Moved
  <1>6. /\ IsFiniteSet(weles') /\ Cardinality(weles') \in Int
        /\ Cardinality(weles') <= Cardinality(weles) + 1
    BY <1>1, <1>4, OneMore DEF AcquisitionTyped
  <1>7. AcquisitionTyped'
    BY <1>1, <1>4, <1>5, <1>6 DEF AcquisitionTyped, Moved, AccountsIn
  <1>8. MayAsk(p) = 1 /\ Ended(p) = 0 /\ Ended(p)' = 0 /\ MayAsk(p)' = 0
    BY <1>1, <1>3, <1>4 DEF MayAsk, Ended, ByOperator
  <1>9. MayCome' <= MayCome /\ Unspent' <= Unspent /\ MayCome' \in Int /\ Unspent' \in Int
    BY <1>4, <1>6, <1>7, <1>8, Sums, Counts, CountsNext
  <1>10. \A q \in Buyers : buyer'[q].ask = buyer[q].ask
    BY <1>1, <1>3, <1>4 DEF Moved
  <1>11. \A q \in Buyers : buyer'[q].phase \in {"asking", "asked"} => buyer[q].phase \in {"asking", "asked"}
    BY <1>1, <1>3, <1>4 DEF Moved
  <1>12. AsksApart'
    BY <1>1, <1>10, <1>11, BuyerNames DEF AcquisitionInv, AsksApart
  <1>13. /\ Automatic({"decided"})' <=> Automatic({"decided"})
         /\ Automatic({"bought"})' => Automatic({"bought"})
         /\ Automatic({"asking", "asked", "bought", "failed"})' =>
              Automatic({"asking", "asked", "bought", "failed"})
         /\ UnresolvedAttempt(newest)' <=> UnresolvedAttempt(newest)
    BY <1>1, <1>3, <1>4, <1>5, BuyerNames DEF Automatic, ByOperator, UnresolvedAttempt, Moved
  <1>14. LooseLatched'
    BY <1>1, <1>10, <1>13, BuyerNames DEF AcquisitionInv, LooseLatched
  <1>15. Budget'
    BY <1>1, <1>4, <1>9, <1>13, Counts DEF AcquisitionInv, Budget
  <1>16. WithinCap'
    BY <1>1, <1>4, <1>9, Counts, AllowanceIs
       DEF AcquisitionInv, WithinCap, AccountsIn
  <1>. QED
    BY <1>7, <1>12, <1>14, <1>15, <1>16 DEF AcquisitionInv

\* A purchase ends at Weles: whoever still waits for it, one process at most,
\* hears of it.
LEMMA WelesEnds ==
    ASSUME AcquisitionInv, NEW ask \in weles, NEW heard \in {"bought", "failed"},
           weles' = weles \ {ask},
           buyer' = [p \in Buyers |->
             IF buyer[p].phase = "asked" /\ buyer[p].ask = ask
               THEN [buyer[p] EXCEPT !.phase = heard] ELSE buyer[p]],
           UNCHANGED <<newest, asks, opRuns, loose>>,
           pool' \subseteq Slots, IsFiniteSet(AccountsIn(pool')),
           Cardinality(AccountsIn(pool')) <= Cardinality(AccountsIn(pool)) + 1
    PROVE  AcquisitionInv'
  <1> DEFINE Waits(p) == buyer[p].phase = "asked" /\ buyer[p].ask = ask
  <1>1. AcquisitionTyped /\ heard \in BuyPhases
    BY DEF AcquisitionInv, BuyPhases
  <1>2. ASSUME NEW p \in Buyers
        PROVE  /\ buyer'[p] \in BuyerRows /\ buyer'[p].trigger = buyer[p].trigger
               /\ buyer'[p].ask = buyer[p].ask
               /\ buyer'[p].phase = (IF Waits(p) THEN heard ELSE buyer[p].phase)
               /\ ~Waits(p) => buyer'[p] = buyer[p]
    <2> DEFINE y == buyer[p]
    <2>1. y \in BuyerRows /\ buyer'[p] = IF y.phase = "asked" /\ y.ask = ask
                                           THEN [y EXCEPT !.phase = heard] ELSE y
      BY <1>1 DEF AcquisitionTyped
    <2>2. y = buyer[p]
      OBVIOUS
    <2> HIDE DEF y
    <2>. QED
      BY <1>1, <2>1, <2>2 DEF BuyerRows
  <1>3. buyer' \in [Buyers -> BuyerRows]
    <2>1. buyer' = [p \in Buyers |-> buyer'[p]]
      OBVIOUS
    <2>. QED
      BY <1>2, <2>1
  <1> HIDE DEF Waits
  <1>4. \A p \in Buyers : ByOperator(p)' <=> ByOperator(p)
    BY <1>2 DEF ByOperator
  <1>5. IsFiniteSet(weles') /\ Cardinality(weles') = Cardinality(weles) - 1
    BY <1>1, FS_RemoveElement DEF AcquisitionTyped
  <1>6. AccountsIn(pool)' = AccountsIn(pool')
    BY DEF AccountsIn
  <1>7. AcquisitionTyped'
    BY <1>1, <1>3, <1>4, <1>5, <1>6, BuyerNames DEF AcquisitionTyped
  <1>8. \A p \in Buyers : MayAsk(p)' = MayAsk(p)
    BY <1>2, <1>4 DEF MayAsk, Waits
  <1>9. \A p \in Buyers : Ended(p)' = Ended(p) + (IF Waits(p) /\ ByOperator(p) THEN 1 ELSE 0)
    BY <1>2, <1>4 DEF Ended, Waits
  <1>10. ~(Waits("gateway") /\ Waits("cli"))
    BY DEF AcquisitionInv, AsksApart, Waits
  <1>11. MayCome' = MayCome - 1
    <2>1. MayAsk("gateway")' = MayAsk("gateway") /\ MayAsk("cli")' = MayAsk("cli")
      BY <1>8, BuyerNames
    <2>. QED
      BY <1>1, <1>5, <2>1, Counts, BuyerNames DEF MayCome
  <1>12. Unspent' = Unspent - 1 + (Ended("gateway")' - Ended("gateway"))
                                + (Ended("cli")' - Ended("cli"))
    BY <1>1, <1>7, <1>11, Counts, CountsNext, BuyerNames DEF Unspent
  <1>13. /\ Unspent' \in Int /\ Unspent' <= Unspent
         /\ Waits("gateway") /\ ~ByOperator("gateway") => Unspent' = Unspent - 1
    <2>1. /\ Ended("gateway")' = Ended("gateway")
                 + (IF Waits("gateway") /\ ByOperator("gateway") THEN 1 ELSE 0)
          /\ Ended("cli")' = Ended("cli") + (IF Waits("cli") /\ ByOperator("cli") THEN 1 ELSE 0)
      BY <1>9, BuyerNames
    <2>. QED
      BY <1>1, <1>10, <1>12, <2>1, Counts, BuyerNames
  <1>14. AsksApart'
    BY <1>2, BuyerNames DEF AcquisitionInv, AsksApart, Waits
  <1>15. /\ Automatic({"decided"})' <=> Automatic({"decided"})
         /\ Automatic({"asking", "asked", "bought", "failed"})' =>
              Automatic({"asking", "asked", "bought", "failed"})
         /\ UnresolvedAttempt(newest)' <=> UnresolvedAttempt(newest)
         /\ Automatic({"bought"})' =>
              Automatic({"bought"}) \/ (Waits("gateway") /\ ~ByOperator("gateway"))
    BY <1>2, <1>4, BuyerNames DEF Automatic, UnresolvedAttempt, Waits
  <1>16. LooseLatched'
    BY <1>2, <1>15, BuyerNames DEF AcquisitionInv, LooseLatched
  <1>17. Budget'
    BY <1>1, <1>13, <1>15, Counts DEF AcquisitionInv, Budget
  <1>18. WithinCap'
    <2>1. Cardinality(AccountsIn(pool')) \in Nat
      BY FS_CardinalityType
    <2>. QED
      BY <1>1, <1>6, <1>11, <2>1, Counts, AllowanceIs
         DEF AcquisitionInv, WithinCap
  <1>. QED
    BY <1>7, <1>14, <1>16, <1>17, <1>18 DEF AcquisitionInv

\* Weles answers an ask by one account or by none.
LEMMA WelesSafe ==
    ASSUME AcquisitionInv, NEW ask \in weles, WelesBuys(ask) \/ WelesFails(ask)
    PROVE  AcquisitionInv'
  <1>1. AcquisitionTyped /\ Cardinality(AccountsIn(pool)) \in Nat
    BY Counts DEF AcquisitionInv
  <1>2. CASE WelesFails(ask)
    <2>1. /\ pool' \subseteq Slots /\ IsFiniteSet(AccountsIn(pool'))
          /\ Cardinality(AccountsIn(pool')) <= Cardinality(AccountsIn(pool)) + 1
      BY <1>1, <1>2 DEF WelesFails, AcquisitionTyped
    <2>. QED
      BY <1>2, <2>1, WelesEnds DEF WelesFails
  <1>3. CASE WelesBuys(ask)
    <2>1. PICK m \in Slots : pool' = pool \cup {m}
      BY <1>3 DEF WelesBuys
    <2> DEFINE S == AccountsIn(pool)
               x == AccountOf[m]
    <2>2. AccountsIn(pool') = S \cup {x} /\ IsFiniteSet(S)
      BY <1>1, <2>1 DEF AccountsIn, AcquisitionTyped
    <2> HIDE DEF S, x
    <2>3. IsFiniteSet(S \cup {x}) /\ Cardinality(S \cup {x}) <= Cardinality(S) + 1
      BY <2>2, OneMore
    <2>4. /\ pool' \subseteq Slots /\ IsFiniteSet(AccountsIn(pool'))
          /\ Cardinality(AccountsIn(pool')) <= Cardinality(AccountsIn(pool)) + 1
      BY <1>1, <2>1, <2>2, <2>3 DEF AcquisitionTyped, S
    <2>. QED
      BY <1>3, <2>4, WelesEnds DEF WelesBuys
  <1>. QED
    BY <1>2, <1>3

\* Every step of acquisition keeps the invariant.
LEMMA AcquisitionSteps ==
    ASSUME AcquisitionInv, [AcquisitionNext]_acquisitionVars
    PROVE  AcquisitionInv'
  <1>1. CASE UNCHANGED <<pool, newest, buyer, weles, asks, opRuns, loose>>
    BY <1>1
        DEF AcquisitionInv, AcquisitionTyped, AsksApart, LooseLatched, Budget, WithinCap, MayCome,
                Unspent, MayAsk, Ended, Automatic, ByOperator, UnresolvedAttempt, AccountsIn
  <1>2. CASE UNCHANGED acquisitionVars \/ SessionsMove \/ \E m \in Slots : PlansMove(m)
    BY <1>1, <1>2 DEF acquisitionVars, SessionsMove, PlansMove
  <1>3. ASSUME NEW p \in Buyers, RefuseAcquisition(p) \/ Unjournaled(p) \/ BuyerStops(p)
        PROVE  AcquisitionInv'
    BY <1>3, GivesUp DEF RefuseAcquisition, Unjournaled, BuyerStops
  <1>4. ASSUME NEW p \in Buyers, NotAsked(p) \/ PurchaseUnconfirmed(p)
        PROVE  AcquisitionInv'
    BY <1>4, FinishSafe DEF NotAsked, PurchaseUnconfirmed
  <1>5. ASSUME NEW p \in Buyers, ConcludePurchase(p)
        PROVE  AcquisitionInv'
    BY <1>5, FinishSafe DEF ConcludePurchase
  <1>. QED
    BY <1>2, <1>3, <1>4, <1>5, AcquireSafe, DecideSafe, RequestSafe, AskSafe, WelesSafe
       DEF AcquisitionNext

\* The invariant holds at the start: the pool begins within its cap.
LEMMA AcquisitionStarts ==
    ASSUME AcquisitionInit
    PROVE  AcquisitionInv
  <1>1. /\ buyer = [p \in Buyers |-> NotBuying] /\ pool = Founders /\ weles = {} /\ asks = 0
        /\ opRuns = 0 /\ loose = {} /\ newest = Nobody
    BY DEF AcquisitionInit
  <1>2. /\ buyer["gateway"] = NotBuying /\ buyer["cli"] = NotBuying
        /\ buyer \in [Buyers -> BuyerRows] /\ \A p \in Buyers : buyer[p] = NotBuying
    BY <1>1, BuyerNames, RestsTyped
  <1>3. /\ pool \subseteq Slots /\ IsFiniteSet(AccountsIn(pool)) 
        /\ Cardinality(AccountsIn(pool)) <= Allowance
    BY <1>1, AllowanceIs, AcquisitionAssumption DEF AccountsIn, AcquisitionAssumption
  <1>4. IsFiniteSet(weles) /\ Cardinality(weles) = 0
    BY <1>1, FS_EmptySet
  <1>5. AcquisitionTyped
    BY <1>1, <1>2, <1>3, <1>4, RestsTyped DEF AcquisitionTyped, ByOperator
  <1>6. AsksApart
    BY <1>1, <1>2, RestsTyped DEF AsksApart
  <1>7. LooseLatched
    BY <1>1, <1>2, RestsTyped DEF LooseLatched, Automatic, ByOperator
  <1>8. MayCome = 0 /\ Unspent = 0
    BY <1>2, <1>4, RestsTyped DEF MayCome, Unspent, MayAsk, Ended
  <1>9. Budget
    BY <1>1, <1>8 DEF Budget
  <1>10. WithinCap
    BY <1>1, <1>3, <1>5, <1>8, Counts, AllowanceIs DEF WithinCap
  <1>. QED
    BY <1>5, <1>6, <1>7, <1>9, <1>10 DEF AcquisitionInv

\* Whatever stops, is lost or comes late, one purchase at most is loose, and
\* the pool grows past the cap by operators' own acquisitions alone.
THEOREM SpendingHeld == AcquisitionSpec => []AcquisitionSafe
  <1>1. AcquisitionInv => AcquisitionSafe
    <2> SUFFICES ASSUME AcquisitionInv
                 PROVE  AcquisitionSafe
      OBVIOUS
    <2>1. Cardinality(loose) <= 1
      <3>1. CASE loose = {}
        BY <3>1, FS_EmptySet
      <3>2. CASE loose # {}
        <4>1. PICK a \in loose : TRUE
          BY <3>2
        <4>2. loose = {a}
          BY <4>1 DEF AcquisitionInv, LooseLatched
        <4>. QED
          BY <4>2, FS_Singleton
      <3>. QED
        BY <3>1, <3>2
    <2>2. Cardinality(AccountsIn(pool)) <= Allowance + opRuns
      BY Counts, AllowanceIs DEF AcquisitionInv, WithinCap
    <2>. QED
      BY <2>1, <2>2 DEF AcquisitionSafe, OneLoosePurchase, CapHeld
  <1>. QED
    BY <1>1, AcquisitionStarts, AcquisitionSteps, PTL DEF AcquisitionSpec

-----------------------------------------------------------------------------
(***************************************************************************)
(* Plan resets (SavedResets). Whoever is between the lock and its release  *)
(* holds the member's lock, and what it knows of the journal is still so:  *)
(* nobody else writes it.                                                  *)
(***************************************************************************)

\* The phases of a redemption and the states the journal knows.
RedeemPhases == {"idle", "locked", "offered", "journaled", "sent"}

ResetStates ==
    {"none", "requested", "refused", "unconfirmed", "redeemed", "consumption_observed"}

\* What an offer says of a credit, a journal row, a redeemer and a request sent.
CreditRows == [id : CreditIds, left : Int, observable : BOOLEAN, usable : BOOLEAN,
               needsLimit : BOOLEAN]

Redemptions == [state : ResetStates, credit : CreditIds \cup {Free}, before : Int]

RedeemerRows ==
    [phase : RedeemPhases, member : Subscribers \cup {Free}, automatic : BOOLEAN,
     offer : SUBSET CreditRows, credit : CreditIds \cup {Free}, sending : Nat]

\* A redemption as the provider saw it.
SentRows == [n : Nat, credit : CreditIds]

\* The types of the stock, the journal, the locks and the redeemers.
ResetsTyped ==
    /\ stock \in [Subscribers -> [CreditIds -> Int]]
    /\ redemption \in [Subscribers -> Redemptions]
    /\ resetLock \in [Subscribers -> Redeemers \cup {Free}]
    /\ redeemer \in [Redeemers -> RedeemerRows]
    /\ sent \in [Subscribers -> SUBSET SentRows]
    /\ sends \in [Subscribers -> Nat]
    /\ outside \in [Subscribers -> Nat]

\* What is unsettled at the provider is the redemption the journal holds open,
\* and the credit it names still has the uses the journal counted.
OpenAsJournaled(m) ==
    outside[m] = 0 =>
        /\ \A r, k \in sent[m] : r = k
        /\ \A r \in sent[m] : /\ UnresolvedReset(redemption[m])
                              /\ r.credit = redemption[m].credit
                              /\ stock[m][r.credit] = redemption[m].before

\* A process at work holds its member's lock; the report it read is not
\* behind the provider, and says what the provider has when no redemption is
\* open; what it journaled is what it sends, and what it sent is all that is
\* unsettled.
HolderKnows(p) ==
    LET x == redeemer[p]
        m == x.member
    IN  /\ x.phase # "idle" => m \in Subscribers /\ resetLock[m] = p
        /\ x.phase = "offered" /\ outside[m] = 0 =>
             \A c \in x.offer :
                /\ c.left >= stock[m][c.id]
                /\ ~UnresolvedReset(redemption[m]) => c.left = stock[m][c.id]
        /\ x.phase = "journaled" => x.credit \in CreditIds
        /\ x.phase = "journaled" /\ outside[m] = 0 =>
             /\ sent[m] = {}
             /\ redemption[m].state = "requested"
             /\ x.credit = redemption[m].credit
             /\ stock[m][x.credit] = redemption[m].before
        /\ x.phase = "sent" /\ outside[m] = 0 => \A r \in sent[m] : r.n = x.sending

\* The inductive invariant of plan resets.
ResetsInv ==
    /\ ResetsTyped
    /\ \A m \in Subscribers : OpenAsJournaled(m)
    /\ \A p \in Redeemers : HolderKnows(p)


\* A member at which nothing the invariant reads moved.
Still(m) ==
    /\ sent'[m] = sent[m] /\ redemption'[m] = redemption[m] /\ stock'[m] = stock[m]
    /\ outside'[m] = outside[m] /\ resetLock'[m] = resetLock[m]

\* Where nothing moves, what is open stays as journaled.
LEMMA StillOpen ==
    ASSUME NEW m \in Subscribers, Still(m), OpenAsJournaled(m)
    PROVE  OpenAsJournaled(m)'
  BY DEF Still, OpenAsJournaled, UnresolvedReset

\* A redeemer that does not move knows what it knew, if its member does not move.
LEMMA StillKnows ==
    ASSUME NEW q \in Redeemers, redeemer'[q] = redeemer[q], HolderKnows(q),
           redeemer[q].phase # "idle" => Still(redeemer[q].member)
    PROVE  HolderKnows(q)'
  <1>1. CASE redeemer[q].phase = "idle"
    BY <1>1 DEF HolderKnows
  <1>2. CASE redeemer[q].phase # "idle"
    BY <1>2 DEF HolderKnows, Still, UnresolvedReset
  <1>. QED
    BY <1>1, <1>2

\* A step of the process that holds a member's lock, or takes it, touches no
\* other process and no other member.
LEMMA HolderMoves ==
    ASSUME ResetsInv, ResetsTyped', NEW p \in Redeemers, NEW m \in Subscribers,
           resetLock[m] \in {p, Free},
           \A q \in Redeemers \ {p} : redeemer'[q] = redeemer[q],
           \A n \in Subscribers \ {m} : Still(n),
           OpenAsJournaled(m)', HolderKnows(p)'
    PROVE  ResetsInv'
  <1>1. ASSUME NEW n \in Subscribers
        PROVE  OpenAsJournaled(n)'
    BY <1>1, StillOpen DEF ResetsInv
  <1>2. ASSUME NEW q \in Redeemers, q # p
        PROVE  HolderKnows(q)'
    <2>1. HolderKnows(q) /\ redeemer'[q] = redeemer[q]
      BY <1>2 DEF ResetsInv
    <2>2. redeemer[q].phase # "idle" => redeemer[q].member \in Subscribers \ {m}
      BY <1>2, <2>1, ResetAssumption DEF HolderKnows, ResetAssumption
    <2>3. redeemer[q].phase # "idle" => Still(redeemer[q].member)
      BY <2>2
    <2>. QED
      BY <2>1, <2>3, StillKnows
  <1>. QED
    BY <1>1, <1>2 DEF ResetsInv

\* A redeemer at rest, and one that begins.
LEMMA RestingTyped ==
    ASSUME NEW m \in Subscribers, NEW a \in BOOLEAN
    PROVE  LET x == [Resting EXCEPT !.phase = "locked", !.member = m, !.automatic = a]
           IN  /\ Resting \in RedeemerRows /\ Resting.phase = "idle"
               /\ x \in RedeemerRows /\ x.phase = "locked" /\ x.member = m
  <1>1. Resting \in RedeemerRows /\ Resting.phase = "idle"
    BY DEF Resting, RedeemerRows, RedeemPhases
  <1>2. "locked" \in RedeemPhases
    BY DEF RedeemPhases
  <1> HIDE DEF Resting
  <1>. QED
    BY <1>1, <1>2 DEF RedeemerRows

\* The holder at work.
LEMMA AtWork ==
    ASSUME ResetsInv, NEW p \in Redeemers, redeemer[p].phase # "idle"
    PROVE  LET m == redeemer[p].member
           IN  /\ m \in Subscribers /\ resetLock[m] = p
               /\ redeemer[p] \in RedeemerRows /\ redemption[m] \in Redemptions
               /\ stock[m] \in [CreditIds -> Int] /\ sent[m] \in SUBSET SentRows
               /\ sends[m] \in Nat /\ outside[m] \in Nat
               /\ OpenAsJournaled(m) /\ HolderKnows(p)
  BY DEF ResetsInv, HolderKnows, ResetsTyped

\* The step writes the journal of one member, and what is sent for it.
OfMember(m) ==
    /\ redemption' \in [Subscribers -> Redemptions]
    /\ sent' \in [Subscribers -> SUBSET SentRows]
    /\ sends' \in [Subscribers -> Nat]
    /\ UNCHANGED <<stock, outside>>
    /\ \A n \in Subscribers \ {m} : redemption'[n] = redemption[n] /\ sent'[n] = sent[n]

\* The call ends with the member's record and what the provider holds as the
\* step left them.
LEMMA EndKeeps ==
    ASSUME ResetsInv, NEW p \in Redeemers, redeemer[p].phase # "idle", EndRedemption(p),
           NEW m \in Subscribers, m = redeemer[p].member, OfMember(m), OpenAsJournaled(m)'
    PROVE  ResetsInv'
  <1>1. resetLock[m] = p
    BY AtWork
  <1>2. Resting \in RedeemerRows /\ Resting.phase = "idle"
    BY RestingTyped
  <1>3. /\ redeemer' = [redeemer EXCEPT ![p] = Resting]
        /\ resetLock' = [resetLock EXCEPT ![m] = Free]
    BY DEF EndRedemption
  <1>4. ResetsTyped
    BY DEF ResetsInv
  <1>5. /\ redeemer' \in [Redeemers -> RedeemerRows] /\ redeemer'[p] = Resting
        /\ resetLock' \in [Subscribers -> Redeemers \cup {Free}]
        /\ \A q \in Redeemers \ {p} : redeemer'[q] = redeemer[q]
        /\ \A n \in Subscribers \ {m} : resetLock'[n] = resetLock[n]
    BY <1>2, <1>3, <1>4 DEF ResetsTyped
  <1>6. ResetsTyped'
    BY <1>4, <1>5 DEF ResetsTyped, OfMember
  <1>7. \A n \in Subscribers \ {m} : Still(n)
    BY <1>5 DEF Still, OfMember
  <1>8. HolderKnows(p)'
    BY <1>2, <1>5 DEF HolderKnows
  <1>. QED
    BY <1>1, <1>5, <1>6, <1>7, <1>8, HolderMoves

\* The call ends with nothing journaled.
LEMMA EndUnchanged ==
    ASSUME ResetsInv, NEW p \in Redeemers, redeemer[p].phase # "idle", EndRedemption(p),
           UNCHANGED <<stock, redemption, sent, sends, outside>>
    PROVE  ResetsInv'
  <1>1. PICK m \in Subscribers : m = redeemer[p].member /\ OpenAsJournaled(m)
    BY AtWork
  <1>2. OfMember(m) /\ OpenAsJournaled(m)'
    BY <1>1 DEF ResetsInv, ResetsTyped, OfMember, OpenAsJournaled
  <1>. QED
    BY <1>1, <1>2, EndKeeps

\* The holder goes on: its lock stays.
LEMMA HolderGoesOn ==
    ASSUME ResetsInv, NEW p \in Redeemers, NEW m \in Subscribers, resetLock[m] = p,
           redeemer' \in [Redeemers -> RedeemerRows], UNCHANGED resetLock,
           \A q \in Redeemers \ {p} : redeemer'[q] = redeemer[q],
           OfMember(m), OpenAsJournaled(m)', HolderKnows(p)'
    PROVE  ResetsInv'
  <1>1. ResetsTyped'
    BY DEF ResetsInv, ResetsTyped, OfMember
  <1>2. \A n \in Subscribers \ {m} : Still(n)
    BY DEF Still, OfMember
  <1>. QED
    BY <1>1, <1>2, HolderMoves

\* Taking the member's lock keeps the invariant.
LEMMA LockMemberSafe ==
    ASSUME ResetsInv, NEW p \in Redeemers, NEW m \in Subscribers, NEW automatic \in BOOLEAN,
           LockMember(p, m, automatic)
    PROVE  ResetsInv'
  <1> DEFINE x == [Resting EXCEPT !.phase = "locked", !.member = m, !.automatic = automatic]
  <1>1. x \in RedeemerRows /\ x.phase = "locked" /\ x.member = m
    BY RestingTyped
  <1>2. /\ redeemer' = [redeemer EXCEPT ![p] = x]
        /\ resetLock[m] = Free /\ resetLock' = [resetLock EXCEPT ![m] = p]
        /\ UNCHANGED <<stock, redemption, sent, sends, outside>>
    BY DEF LockMember
  <1> HIDE DEF x
  <1>3. /\ redeemer' \in [Redeemers -> RedeemerRows] /\ redeemer'[p] = x
        /\ \A q \in Redeemers \ {p} : redeemer'[q] = redeemer[q]
        /\ resetLock' \in [Subscribers -> Redeemers \cup {Free}] /\ resetLock'[m] = p
        /\ \A n \in Subscribers \ {m} : resetLock'[n] = resetLock[n]
    BY <1>1, <1>2 DEF ResetsInv, ResetsTyped
  <1>4. ResetsTyped' /\ \A n \in Subscribers \ {m} : Still(n)
    BY <1>2, <1>3 DEF ResetsInv, ResetsTyped, Still
  <1>5. OpenAsJournaled(m)'
    BY <1>2 DEF ResetsInv, OpenAsJournaled
  <1>6. HolderKnows(p)'
    BY <1>1, <1>3 DEF HolderKnows
  <1>. QED
    BY <1>2, <1>3, <1>4, <1>5, <1>6, HolderMoves

\* A credit as the provider lists it.
LEMMA CreditTyped ==
    ASSUME NEW c \in CreditIds, NEW left \in Int, NEW o \in BOOLEAN, NEW u \in BOOLEAN,
           NEW l \in BOOLEAN
    PROVE  LET d == Credit(c, left, o, u, l)
           IN  d \in CreditRows /\ d.id = c /\ d.left = left
  BY DEF Credit, CreditRows

\* Every report says of a credit the uses the provider has.
LEMMA OffersTrue ==
    ASSUME ResetsInv, NEW m \in Subscribers, NEW offer \in Offers(m)
    PROVE  offer \in SUBSET CreditRows /\ \A c \in offer : c.left = stock[m][c.id]
  <1>1. PICK uses \in [CreditIds -> Int] : uses = stock[m]
    BY DEF ResetsInv, ResetsTyped
  <1>2. \/ offer = CodexOffer(uses)
        \/ \E next \in CreditIds : offer = CedarOffer(uses, next)
        \/ \E only \in CreditIds : offer = JuniperOffer(uses, only)
    BY <1>1 DEF Offers
  <1>3. \A d \in offer : \E c \in CreditIds, o, u, l \in BOOLEAN : d = Credit(c, uses[c], o, u, l)
    <2>1. \A c \in CreditIds : (uses[c] > 0) \in BOOLEAN
      OBVIOUS
    <2>2. CASE offer = CodexOffer(uses)
      BY <2>1, <2>2, Zenon DEF CodexOffer
    <2>3. ASSUME NEW next \in CreditIds, offer = CedarOffer(uses, next)
          PROVE  \A d \in offer : \E c \in CreditIds, o, u, l \in BOOLEAN : d = Credit(c, uses[c], o, u, l)
      <3>1. \A c \in CreditIds : (uses[c] > 0 /\ c = next) \in BOOLEAN
        OBVIOUS
      <3>. QED
        BY <2>3, <3>1, Zenon DEF CedarOffer
    <2>4. ASSUME NEW only \in CreditIds, offer = JuniperOffer(uses, only)
          PROVE  \A d \in offer : \E c \in CreditIds, o, u, l \in BOOLEAN : d = Credit(c, uses[c], o, u, l)
      BY <2>1, <2>4, Zenon DEF JuniperOffer
    <2>. QED
      BY <1>2, <2>2, <2>3, <2>4
  <1>4. ASSUME NEW d \in offer
        PROVE  d \in CreditRows /\ d.left = stock[m][d.id]
    <2>1. PICK c \in CreditIds, o \in BOOLEAN, u \in BOOLEAN, l \in BOOLEAN : d = Credit(c, uses[c], o, u, l)
      BY <1>3
    <2>2. uses[c] \in Int
      BY <1>1
    <2>3. d \in CreditRows /\ d.id = c /\ d.left = uses[c]
      BY <2>1, <2>2, CreditTyped
    <2>. QED
      BY <1>1, <2>3
  <1>. QED
    BY <1>4

\* Reading the offer keeps the invariant.
LEMMA ReadOfferSafe ==
    ASSUME ResetsInv, NEW p \in Redeemers, ReadOffer(p)
    PROVE  ResetsInv'
  <1> DEFINE y == redeemer[p]
  <1>1. y.phase = "locked"
    BY DEF ReadOffer
  <1>2. PICK m \in Subscribers :
           /\ m = redeemer[p].member /\ resetLock[m] = p /\ y \in RedeemerRows
           /\ OpenAsJournaled(m) /\ stock[m] \in [CreditIds -> Int]
    BY <1>1, AtWork
  <1>3. PICK offer \in Offers(m) :
            redeemer' = [redeemer EXCEPT ![p].phase = "offered", ![p].offer = offer]
    BY <1>2 DEF ReadOffer
  <1>4. offer \in SUBSET CreditRows /\ \A c \in offer : c.left = stock[m][c.id]
    BY <1>3, OffersTrue
  <1> DEFINE x == [y EXCEPT !.phase = "offered", !.offer = offer]
  <1>5. redeemer' = [redeemer EXCEPT ![p] = x] /\ y.member = m
    BY <1>2, <1>3 DEF ResetsInv, ResetsTyped
  <1>6. "offered" \in RedeemPhases
    BY DEF RedeemPhases
  <1> HIDE DEF y
  <1>7. x \in RedeemerRows /\ x.phase = "offered" /\ x.member = m /\ x.offer = offer
    BY <1>2, <1>4, <1>5, <1>6 DEF RedeemerRows
  <1> HIDE DEF x
  <1>8. /\ redeemer' \in [Redeemers -> RedeemerRows] /\ redeemer'[p] = x
        /\ \A q \in Redeemers \ {p} : redeemer'[q] = redeemer[q]
    BY <1>5, <1>7 DEF ResetsInv, ResetsTyped
  <1>9. OfMember(m) /\ OpenAsJournaled(m)' /\ UNCHANGED <<resetLock, stock, redemption>>
    BY <1>2 DEF ReadOffer, ResetsInv, ResetsTyped, OfMember, OpenAsJournaled
  <1>10. \A c \in offer : c.left >= stock[m][c.id]
    BY <1>2, <1>4 DEF CreditRows
  <1>11. HolderKnows(p)'
    BY <1>2, <1>4, <1>7, <1>8, <1>9, <1>10 DEF HolderKnows
  <1>. QED
    BY <1>2, <1>8, <1>9, <1>11, HolderGoesOn

\* A report that shows the credit used can only be read once the provider
\* settled what was sent.
LEMMA ReconcileResetSafe ==
    ASSUME ResetsInv, NEW p \in Redeemers, Reconcile(p)
    PROVE  ResetsInv'
  <1>1. redeemer[p].phase = "offered" /\ EndRedemption(p) /\ UNCHANGED <<stock, sent, sends, outside>>
    BY DEF Reconcile
  <1>2. PICK m \in Subscribers :
           /\ m = redeemer[p].member /\ redeemer[p] \in RedeemerRows /\ OpenAsJournaled(m)
           /\ HolderKnows(p) /\ redemption[m] \in Redemptions /\ stock[m] \in [CreditIds -> Int]
           /\ sent[m] \in SUBSET SentRows
    BY <1>1, AtWork
  <1>3. CASE UNCHANGED redemption
    BY <1>1, <1>3, EndUnchanged
  <1>4. ASSUME NEW c \in redeemer[p].offer, c.id = redemption[m].credit,
               c.left < redemption[m].before,
               redemption' = [redemption EXCEPT ![m].state = "consumption_observed"]
        PROVE  ResetsInv'
    <2>1. c \in CreditRows
      BY <1>2 DEF RedeemerRows
    <2>2. outside[m] = 0 => c.left >= stock[m][c.id]
      BY <1>1, <1>2 DEF HolderKnows
    <2>3. outside[m] = 0 => sent[m] = {}
      BY <1>2, <1>4, <2>1, <2>2 DEF OpenAsJournaled, Redemptions, CreditRows
    <2> DEFINE y == redemption[m]
               x == [y EXCEPT !.state = "consumption_observed"]
    <2>4. redemption' = [redemption EXCEPT ![m] = x] /\ y \in Redemptions
      BY <1>2, <1>4
    <2>5. "consumption_observed" \in ResetStates
      BY DEF ResetStates
    <2> HIDE DEF y
    <2>6. x \in Redemptions
      BY <2>4, <2>5 DEF Redemptions
    <2> HIDE DEF x
    <2>7. OfMember(m)
      BY <1>1, <2>4, <2>6 DEF OfMember, ResetsInv, ResetsTyped
    <2>8. OpenAsJournaled(m)'
      BY <1>1, <2>3 DEF OpenAsJournaled
    <2>. QED
      BY <1>1, <1>2, <2>7, <2>8, EndKeeps
  <1>. QED
    BY <1>2, <1>3, <1>4 DEF Reconcile

\* With no redemption open nothing is unsettled, and the credit that is
\* journaled has the uses the report gave it.
LEMMA ChooseCreditSafe ==
    ASSUME ResetsInv, NEW p \in Redeemers, ChooseCredit(p)
    PROVE  ResetsInv'
  <1> DEFINE y == redeemer[p]
  <1>1. y.phase = "offered" /\ UNCHANGED <<stock, sent, sends, outside>>
    BY DEF ChooseCredit
  <1>2. PICK m \in Subscribers :
           /\ m = y.member /\ y \in RedeemerRows /\ OpenAsJournaled(m) /\ resetLock[m] = p
           /\ HolderKnows(p) /\ sent[m] \in SUBSET SentRows
    BY <1>1, AtWork
  <1>3. ~UnresolvedReset(redemption[m])
    BY <1>2 DEF ChooseCredit
  <1>4. PICK c \in Choose(m, y.offer, y.automatic), state \in {"requested", "refused"},
             written \in BOOLEAN :
           /\ redemption' = [redemption EXCEPT ![m] =
                [state |-> state, credit |-> c.id, before |-> c.left]]
           /\ \/ /\ state = "requested"
                 /\ redeemer' = [redeemer EXCEPT ![p].phase = "journaled", ![p].credit = c.id]
                 /\ UNCHANGED resetLock
              \/ EndRedemption(p)
    BY <1>2 DEF ChooseCredit
  <1>5. c \in y.offer
    BY DEF Choose
  <1>6. c \in CreditRows
    BY <1>2, <1>5 DEF RedeemerRows
  <1> DEFINE x == [state |-> state, credit |-> c.id, before |-> c.left]
  <1>7. state \in ResetStates
    BY DEF ResetStates
  <1>8. /\ x \in Redemptions /\ x.state = state /\ x.credit = c.id /\ x.before = c.left
        /\ c.id \in CreditIds /\ redemption' = [redemption EXCEPT ![m] = x]
    BY <1>4, <1>6, <1>7 DEF Redemptions, CreditRows
  <1> HIDE DEF x
  <1>9. OfMember(m) /\ redemption'[m] = x
    BY <1>1, <1>8 DEF OfMember, ResetsInv, ResetsTyped
  <1>10. outside[m] = 0 => sent[m] = {} /\ c.left = stock[m][c.id]
    BY <1>1, <1>2, <1>3, <1>5 DEF OpenAsJournaled, HolderKnows
  <1>11. OpenAsJournaled(m)'
    BY <1>1, <1>10 DEF OpenAsJournaled
  <1>12. CASE EndRedemption(p)
    BY <1>1, <1>2, <1>9, <1>11, <1>12, EndKeeps
  <1>13. CASE /\ state = "requested"
              /\ redeemer' = [redeemer EXCEPT ![p].phase = "journaled", ![p].credit = c.id]
              /\ UNCHANGED resetLock
    <2> DEFINE i == c.id
               z == [y EXCEPT !.phase = "journaled", !.credit = i]
    <2>1. redeemer' = [redeemer EXCEPT ![p] = z] /\ i = c.id /\ i \in CreditIds
      BY <1>8, <1>13 DEF ResetsInv, ResetsTyped
    <2>2. "journaled" \in RedeemPhases
      BY DEF RedeemPhases
    <2> HIDE DEF y, i
    <2>3. z \in RedeemerRows /\ z.phase = "journaled" /\ z.credit = i /\ z.member = m
      BY <1>2, <2>1, <2>2 DEF RedeemerRows
    <2> HIDE DEF z
    <2>4. /\ redeemer' \in [Redeemers -> RedeemerRows] /\ redeemer'[p] = z
          /\ \A q \in Redeemers \ {p} : redeemer'[q] = redeemer[q]
      BY <2>1, <2>3 DEF ResetsInv, ResetsTyped
    <2>5. /\ redeemer'[p].phase = "journaled" /\ redeemer'[p].credit = c.id
          /\ redeemer'[p].member = m /\ resetLock'[m] = p
      BY <1>2, <1>13, <2>1, <2>3, <2>4
    <2>6. /\ redemption'[m].state = "requested" /\ redemption'[m].credit = c.id
          /\ redemption'[m].before = c.left /\ c.id \in CreditIds
      BY <1>8, <1>9, <1>13
    <2>7. outside'[m] = 0 => sent'[m] = {} /\ c.left = stock'[m][c.id]
      BY <1>1, <1>10
    <2>8. HolderKnows(p)'
      BY <2>5, <2>6, <2>7 DEF HolderKnows
    <2>. QED
      BY <1>2, <1>9, <1>11, <1>13, <2>4, <2>8, HolderGoesOn
  <1>. QED
    BY <1>4, <1>12, <1>13

\* Sending goes out under the lock, for the credit that is journaled.
LEMMA SendSafe ==
    ASSUME ResetsInv, NEW p \in Redeemers, SendRedemption(p)
    PROVE  ResetsInv'
  <1> DEFINE y == redeemer[p]
  <1>1. y.phase = "journaled" /\ UNCHANGED <<stock, redemption, resetLock, outside>>
    BY DEF SendRedemption
  <1>2. PICK m \in Subscribers :
           /\ m = y.member /\ y \in RedeemerRows /\ OpenAsJournaled(m) /\ resetLock[m] = p
           /\ HolderKnows(p) /\ sent[m] \in SUBSET SentRows /\ sends[m] \in Nat
    BY <1>1, AtWork
  <1> DEFINE n == sends[m] + 1
             new == [n |-> n, credit |-> y.credit]
             z == [y EXCEPT !.phase = "sent", !.sending = n]
  <1>3. /\ sends' = [sends EXCEPT ![m] = n] /\ sent' = [sent EXCEPT ![m] = sent[m] \cup {new}]
        /\ redeemer' = [redeemer EXCEPT ![p] = z]
    BY <1>2 DEF SendRedemption, ResetsInv, ResetsTyped
  <1>4. /\ y.credit \in CreditIds
        /\ outside[m] = 0 =>
             /\ sent[m] = {} /\ redemption[m].state = "requested"
             /\ y.credit = redemption[m].credit /\ stock[m][y.credit] = redemption[m].before
    BY <1>1, <1>2 DEF HolderKnows
  <1>5. n \in Nat /\ "sent" \in RedeemPhases
    BY <1>2 DEF RedeemPhases
  <1> HIDE DEF n, y
  <1>6. new \in SentRows /\ new.n = n /\ new.credit = y.credit
    BY <1>4, <1>5 DEF SentRows
  <1>7. z \in RedeemerRows /\ z.phase = "sent" /\ z.sending = n /\ z.member = m
    BY <1>2, <1>5 DEF RedeemerRows
  <1> HIDE DEF new, z
  <1>8. /\ redeemer' \in [Redeemers -> RedeemerRows] /\ redeemer'[p] = z
        /\ \A q \in Redeemers \ {p} : redeemer'[q] = redeemer[q]
    BY <1>3, <1>7 DEF ResetsInv, ResetsTyped
  <1>9. OfMember(m) /\ sent'[m] = sent[m] \cup {new}
    BY <1>1, <1>2, <1>3, <1>5, <1>6 DEF OfMember, ResetsInv, ResetsTyped
  <1>10. OpenAsJournaled(m)'
    BY <1>1, <1>4, <1>6, <1>9 DEF OpenAsJournaled, UnresolvedReset
  <1>11. HolderKnows(p)'
    BY <1>1, <1>2, <1>4, <1>6, <1>7, <1>8, <1>9 DEF HolderKnows
  <1>. QED
    BY <1>1, <1>2, <1>8, <1>9, <1>10, <1>11, HolderGoesOn

\* The answer: the record of the member's redemption is closed only when
\* nothing of it is unsettled any more.
LEMMA AnsweredSafe ==
    ASSUME ResetsInv, NEW p \in Redeemers, RedemptionAnswered(p)
    PROVE  ResetsInv'
  <1>1. redeemer[p].phase = "sent" /\ EndRedemption(p) /\ UNCHANGED <<stock, sends, outside>>
    BY DEF RedemptionAnswered
  <1>2. PICK m \in Subscribers :
           /\ m = redeemer[p].member /\ OpenAsJournaled(m) /\ HolderKnows(p)
           /\ redemption[m] \in Redemptions /\ sent[m] \in SUBSET SentRows
    BY <1>1, AtWork
  <1> DEFINE mine == {r \in sent[m] : r.n = redeemer[p].sending}
  <1>3. outside[m] = 0 => sent[m] \subseteq mine
    BY <1>1, <1>2 DEF HolderKnows
  <1>4. CASE UNCHANGED <<redemption, sent>>
    BY <1>1, <1>4, EndUnchanged
  <1>5. ASSUME NEW state \in {"redeemed", "refused", "unconfirmed"},
               redemption' = [redemption EXCEPT ![m].state = state],
               \/ state = "redeemed" /\ mine = {} /\ UNCHANGED sent
               \/ state = "refused" /\ sent' = [sent EXCEPT ![m] = sent[m] \ mine]
               \/ state = "unconfirmed" /\ UNCHANGED sent
        PROVE  ResetsInv'
    <2> DEFINE y == redemption[m]
               x == [y EXCEPT !.state = state]
    <2>1. redemption' = [redemption EXCEPT ![m] = x] /\ y \in Redemptions /\ y = redemption[m]
      BY <1>2, <1>5
    <2>2. state \in ResetStates
      BY DEF ResetStates
    <2> HIDE DEF y
    <2>3. x \in Redemptions /\ x.state = state /\ x.credit = y.credit /\ x.before = y.before
      BY <2>1, <2>2 DEF Redemptions
    <2> HIDE DEF x
    <2>4. /\ sent' \in [Subscribers -> SUBSET SentRows] /\ sent'[m] \in SUBSET sent[m]
          /\ \A n \in Subscribers \ {m} : sent'[n] = sent[n]
          /\ outside[m] = 0 /\ state # "unconfirmed" => sent'[m] = {}
      BY <1>2, <1>3, <1>5 DEF ResetsInv, ResetsTyped
    <2>5. OfMember(m) /\ redemption'[m] = x
      BY <1>1, <2>1, <2>3, <2>4 DEF OfMember, ResetsInv, ResetsTyped
    <2>6. OpenAsJournaled(m)'
      BY <1>1, <1>2, <1>5, <2>1, <2>3, <2>4, <2>5 DEF OpenAsJournaled, UnresolvedReset
    <2>. QED
      BY <1>1, <1>2, <2>5, <2>6, EndKeeps
  <1>. QED
    BY <1>2, <1>4, <1>5 DEF RedemptionAnswered

\* The provider's own steps: what it settles leaves nothing unsettled, and
\* what the holder spends is no longer told apart.
LEMMA ProviderSafe ==
    ASSUME ResetsInv, NEW m \in Subscribers, ProviderApplies(m)
    PROVE  ResetsInv'
  <1>1. PICK r \in sent[m] :
           /\ sent' = [sent EXCEPT ![m] = sent[m] \ {r}]
           /\ stock' = [stock EXCEPT ![m][r.credit] = stock[m][r.credit] - 1]
           /\ UNCHANGED <<redemption, resetLock, redeemer, sends, outside>>
    BY DEF ProviderApplies
  <1>2. /\ stock[m] \in [CreditIds -> Int] /\ sent[m] \in SUBSET SentRows /\ OpenAsJournaled(m)
        /\ ResetsTyped
    BY DEF ResetsInv, ResetsTyped
  <1>3. r.credit \in CreditIds
    BY <1>1, <1>2 DEF SentRows
  <1> DEFINE x == [stock[m] EXCEPT ![r.credit] = stock[m][r.credit] - 1]
  <1>4. stock' = [stock EXCEPT ![m] = x] /\ x \in [CreditIds -> Int]
    BY <1>1, <1>2, <1>3 DEF ResetsTyped
  <1>5. \A c \in CreditIds : x[c] <= stock[m][c]
    BY <1>2, <1>3
  <1> HIDE DEF x
  <1>6. /\ ResetsTyped' /\ stock'[m] = x /\ sent'[m] \subseteq sent[m]
        /\ \A n \in Subscribers \ {m} : stock'[n] = stock[n] /\ sent'[n] = sent[n]
    BY <1>1, <1>2, <1>4 DEF ResetsTyped
  <1>7. outside[m] = 0 => sent'[m] = {} /\ UnresolvedReset(redemption[m])
    BY <1>1, <1>2 DEF OpenAsJournaled, ResetsTyped
  <1>8. \A n \in Subscribers \ {m} : Still(n)
    BY <1>1, <1>6 DEF Still
  <1>9. ASSUME NEW n \in Subscribers
        PROVE  OpenAsJournaled(n)'
    <2>1. CASE n = m
      BY <1>1, <1>7, <2>1 DEF OpenAsJournaled
    <2>. QED
      BY <2>1, <1>8, StillOpen DEF ResetsInv
  <1>10. ASSUME NEW q \in Redeemers
         PROVE  HolderKnows(q)'
    <2>1. HolderKnows(q) /\ redeemer[q] \in RedeemerRows
      BY DEF ResetsInv, ResetsTyped
    <2>2. CASE redeemer[q].phase # "idle" /\ redeemer[q].member = m
      <3>1. redeemer[q].phase = "journaled" => outside[m] # 0
        BY <1>1, <2>1, <2>2 DEF HolderKnows
      <3>2. ASSUME redeemer[q].phase = "offered", outside[m] = 0, NEW c \in redeemer[q].offer
            PROVE  c.left >= x[c.id]
        <4>1. c.left >= stock[m][c.id] /\ c \in CreditRows
          BY <2>1, <2>2, <3>2 DEF HolderKnows, RedeemerRows
        <4>. QED
          BY <1>2, <1>4, <1>5, <4>1 DEF CreditRows
      <3>. QED
        BY <1>1, <1>6, <1>7, <2>1, <2>2, <3>1, <3>2 DEF HolderKnows
    <2>3. CASE redeemer[q].phase = "idle" \/ redeemer[q].member # m
      <3>1. redeemer[q].phase # "idle" => Still(redeemer[q].member)
        BY <1>8, <2>1, <2>3 DEF HolderKnows
      <3>. QED
        BY <1>1, <2>1, <3>1, StillKnows
    <2>. QED
      BY <2>2, <2>3
  <1>. QED
    BY <1>6, <1>9, <1>10 DEF ResetsInv

\* The account's holder may spend a credit elsewhere.
LEMMA HolderSpendsSafe ==
    ASSUME ResetsInv, NEW m \in Subscribers, HolderSpends(m)
    PROVE  ResetsInv'
  <1>1. PICK c \in CreditIds :
           /\ stock' = [stock EXCEPT ![m][c] = stock[m][c] - 1]
           /\ outside' = [outside EXCEPT ![m] = outside[m] + 1]
           /\ UNCHANGED <<redemption, resetLock, redeemer, sent, sends>>
    BY DEF HolderSpends
  <1>2. ResetsTyped
    BY DEF ResetsInv
  <1> DEFINE x == [stock[m] EXCEPT ![c] = stock[m][c] - 1]
  <1>3. stock' = [stock EXCEPT ![m] = x] /\ x \in [CreditIds -> Int]
    BY <1>1, <1>2 DEF ResetsTyped
  <1> HIDE DEF x
  <1>4. /\ ResetsTyped' /\ outside'[m] # 0
        /\ \A n \in Subscribers \ {m} : stock'[n] = stock[n] /\ outside'[n] = outside[n]
    BY <1>1, <1>2, <1>3 DEF ResetsTyped
  <1>5. \A n \in Subscribers \ {m} : Still(n)
    BY <1>1, <1>4 DEF Still
  <1>6. ASSUME NEW n \in Subscribers
        PROVE  OpenAsJournaled(n)'
    <2>1. CASE n = m
      BY <1>4, <2>1 DEF OpenAsJournaled
    <2>. QED
      BY <2>1, <1>5, StillOpen DEF ResetsInv
  <1>7. ASSUME NEW q \in Redeemers
        PROVE  HolderKnows(q)'
    <2>1. HolderKnows(q)
      BY DEF ResetsInv
    <2>2. CASE redeemer[q].phase # "idle" /\ redeemer[q].member = m
      BY <1>1, <1>4, <2>1, <2>2 DEF HolderKnows
    <2>3. CASE redeemer[q].phase = "idle" \/ redeemer[q].member # m
      <3>1. redeemer[q].phase # "idle" => Still(redeemer[q].member)
        BY <1>5, <2>1, <2>3 DEF HolderKnows
      <3>. QED
        BY <1>1, <2>1, <3>1, StillKnows
    <2>. QED
      BY <2>2, <2>3
  <1>. QED
    BY <1>4, <1>6, <1>7 DEF ResetsInv

\* Every step of a redemption keeps the invariant.
LEMMA ResetsSteps ==
    ASSUME ResetsInv, [SavedResetsNext]_resetVars
    PROVE  ResetsInv'
  <1>1. CASE UNCHANGED <<stock, redemption, resetLock, redeemer, sent, sends, outside>>
    BY <1>1 DEF ResetsInv, ResetsTyped, OpenAsJournaled, HolderKnows, UnresolvedReset
  <1>2. CASE SetPolicy \/ ClearPolicy \/ UNCHANGED resetVars \/ \E m \in Subscribers : PlanLimited(m)
    BY <1>1, <1>2 DEF SetPolicy, ClearPolicy, resetVars, PlanLimited
  <1>3. ASSUME NEW p \in Redeemers, RefuseOffer(p) \/ RedeemerStops(p)
        PROVE  ResetsInv'
    <2>1. redeemer[p].phase # "idle" /\ EndRedemption(p) /\ UNCHANGED <<stock, redemption, sent, sends, outside>>
      BY <1>3 DEF RefuseOffer, RedeemerStops
    <2>. QED
      BY <2>1, EndUnchanged
  <1>. QED
    BY <1>2, <1>3, LockMemberSafe, ReadOfferSafe, ReconcileResetSafe, ChooseCreditSafe, SendSafe,
       AnsweredSafe, ProviderSafe, HolderSpendsSafe DEF SavedResetsNext

\* The invariant holds at the start.
LEMMA ResetsStart ==
    ASSUME SavedResetsInit
    PROVE  ResetsInv
  <1>1. NoRedemption \in Redemptions
    BY DEF NoRedemption, Redemptions, ResetStates
  <1>2. Resting \in RedeemerRows /\ Resting.phase = "idle"
    BY DEF Resting, RedeemerRows, RedeemPhases
  <1>3. ResetsTyped
    BY <1>1, <1>2 DEF SavedResetsInit, ResetsTyped
  <1>4. \A m \in Subscribers : OpenAsJournaled(m)
    BY DEF SavedResetsInit, OpenAsJournaled
  <1>5. \A p \in Redeemers : HolderKnows(p)
    BY <1>2 DEF SavedResetsInit, HolderKnows
  <1>. QED
    BY <1>3, <1>4, <1>5 DEF ResetsInv

\* However processes stop, answers come late and records are not written, a
\* redemption whose fate is unknown is not followed by another of the member.
THEOREM RedeemedOnce == SavedResetsSpec => []OneRedemptionAtATime
  <1>1. ResetsInv => OneRedemptionAtATime
    BY DEF ResetsInv, OpenAsJournaled, OneRedemptionAtATime
  <1>. QED
    BY <1>1, ResetsStart, ResetsSteps, PTL DEF SavedResetsSpec

-----------------------------------------------------------------------------
(***************************************************************************)
(* Account discovery and enrolment (Enrolment). What a run took from the   *)
(* pending file is in the file, in its hands or settled, whatever step of  *)
(* it fails.                                                               *)
(***************************************************************************)

\* The phases of an enrolment run.
EnrolPhases == {"idle", "receipts", "listing", "enrolling", "registering", "registered",
                "unregistered"}

\* Between two steps of one account's registration.
Registering == {"registering", "registered", "unregistered"}

\* A person or nobody.
Someone == Persons \cup {NoPerson}

\* What an observation says, and what a run remembers.
Observations == [account : Persons, source : {"harness", "receipt"}]

EnrollerRows == [phase : EnrolPhases, mails : SUBSET Mails, read : SUBSET Persons,
                 todo : SUBSET Observations, members : [Coordinates -> Someone],
                 done : SUBSET Coordinates, at : Someone, errors : BOOLEAN, failed : BOOLEAN]

\* The types of the pending file, its lock, the items, the rows and the runs.
EnrolmentTyped ==
    /\ pendingFile \in SUBSET Observations
    /\ pendingLock \in Enrollers \cup {NoPerson}
    /\ item \in [Coordinates -> Someone]
    /\ row \in [Coordinates -> Someone]
    /\ enroller \in [Enrollers -> EnrollerRows]
    /\ noted \in SUBSET Persons
    /\ settled \in SUBSET Persons

\* Whoever enrols holds the pending file's lock, and only it.
EnrollerHoldsFile == \A p \in Enrollers : enroller[p].phase # "idle" <=> pendingLock = p

\* What became of a pending observation in the run of enroller e.
ObservationAnswered(e, o, known) ==
    \/ o \in e.todo
    \/ e.failed
    \/ o.account \in known
    \/ e.phase \in Registering /\ e.at = o.account

\* Until the run goes through its observations it has answered none; from
\* then on each is still to do, in error, settled or under way, and an id the
\* run has done belongs to the account that was settled under it.
RunAccounts(e) ==
    /\ e.phase \in {"receipts", "listing"} => e.done = {} /\ ~e.failed
    /\ e.phase = "listing" => e.todo = pendingFile
    /\ e.phase \in Registering \cup {"enrolling"} =>
          /\ \A o \in pendingFile : ObservationAnswered(e, o, settled)
          /\ \A i \in e.done : e.failed \/ row[i] \in settled
    /\ e.phase \in Registering => e.at \in Persons /\ row[IdOf[e.at]] = e.at

\* A donation under way names an account and that account's id.
DonorKnown == donor = NoDonor \/ \E a \in Persons : donor = [id |-> IdOf[a], account |-> a]

\* The inductive invariant of enrolment.
EnrolmentInv ==
    /\ EnrolmentTyped
    /\ EnrollerHoldsFile
    /\ NothingForgotten
    /\ \A p \in Enrollers : RunAccounts(enroller[p])

-----------------------------------------------------------------------------
\* An enroller at rest has nothing to account for.
LEMMA RestingAccounts == ASSUME NEW e, e.phase = "idle" PROVE RunAccounts(e)
BY DEF RunAccounts, Registering

\* An enrollment that ended, or did not begin, is a row.
LEMMA NotEnrollingTyped == NotEnrolling \in EnrollerRows /\ NotEnrolling.phase = "idle"
<1>1. [i \in Coordinates |-> NoPerson] \in [Coordinates -> Someone]
  BY DEF Someone
<1> DEFINE f == [i \in Coordinates |-> NoPerson]
<1> HIDE DEF f
<1>2. f \in [Coordinates -> Someone]
  BY <1>1 DEF f
<1>3. NoPerson \in Someone
  BY DEF Someone
<1>4. NotEnrolling = [phase |-> "idle", mails |-> {}, read |-> {}, todo |-> {}, members |-> f,
                      done |-> {}, at |-> NoPerson, errors |-> FALSE, failed |-> FALSE]
  BY DEF NotEnrolling, f
<1> QED BY <1>2, <1>3, <1>4 DEF EnrollerRows, EnrolPhases

\* One enroller moves: it holds the lock, or takes it, and nobody else is at
\* work.
LEMMA EnrollerMoves ==
    ASSUME EnrolmentInv, NEW p \in Enrollers, NEW e \in EnrollerRows,
           enroller' = [enroller EXCEPT ![p] = e],
           pendingLock \in {p, NoPerson},
           pendingLock' = IF e.phase = "idle" THEN NoPerson ELSE p,
           pendingFile' \in SUBSET Observations, item' \in [Coordinates -> Someone],
           row' \in [Coordinates -> Someone], noted' \in SUBSET Persons,
           settled' \in SUBSET Persons, NothingForgotten', RunAccounts(e)'
    PROVE  EnrolmentInv'
<1>1. enroller \in [Enrollers -> EnrollerRows]
  BY DEF EnrolmentInv, EnrolmentTyped
<1>2. /\ enroller' \in [Enrollers -> EnrollerRows]
      /\ enroller'[p] = e /\ \A q \in Enrollers \ {p} : enroller'[q] = enroller[q]
  BY <1>1
<1>3. EnrolmentTyped'
  BY <1>2 DEF EnrolmentTyped
<1>4. \A q \in Enrollers \ {p} : enroller[q].phase = "idle"
  BY EnrolmentAssumption DEF EnrolmentInv, EnrollerHoldsFile
<1>5. EnrollerHoldsFile'
  BY <1>2, <1>4, EnrolmentAssumption DEF EnrollerHoldsFile
<1>6. ASSUME NEW q \in Enrollers PROVE RunAccounts(enroller[q])'
  <2>1. CASE q = p
    BY <1>2, <2>1 DEF RunAccounts, ObservationAnswered
  <2>2. CASE q # p
    BY <1>2, <1>4, <2>2 DEF RunAccounts, Registering
  <2> QED BY <2>1, <2>2
<1> QED BY <1>3, <1>5, <1>6 DEF EnrolmentInv

\* An enrolment ends, having written nothing else or the pending file.
LEMMA ReleaseKeeps ==
    ASSUME EnrolmentInv, NEW p \in Enrollers, enroller[p].phase # "idle", Release(p),
           pendingFile' \in SUBSET Observations, NothingForgotten',
           UNCHANGED <<item, row, noted, settled>>
    PROVE  EnrolmentInv'
<1>1. pendingLock = p
  BY DEF EnrolmentInv, EnrollerHoldsFile
<1>2. PICK e \in EnrollerRows : e = NotEnrolling
  BY NotEnrollingTyped
<1>3. e.phase = "idle" /\ enroller' = [enroller EXCEPT ![p] = e] /\ pendingLock' = NoPerson
  BY <1>2, NotEnrollingTyped DEF Release
<1>4. RunAccounts(e)'
  BY <1>3 DEF RunAccounts, Registering
<1> QED BY <1>1, <1>3, <1>4, EnrollerMoves DEF EnrolmentInv, EnrolmentTyped

\* A pending file that loses nothing, with what it gained noted, forgets
\* nothing.
LEMMA RetainedForgetsNothing ==
    ASSUME EnrolmentInv, NEW found \in SUBSET Persons, NEW source \in {"harness", "receipt"},
           pendingFile' = Retained(found, source), noted' = noted \cup found,
           settled' = settled
    PROVE  /\ pendingFile' \in SUBSET Observations /\ noted' \in SUBSET Persons
           /\ NothingForgotten'
<1>1. \A a \in found : /\ Observation(a, source) \in Observations
                       /\ Observation(a, source) \in pendingFile'
                       /\ Observation(a, source).account = a
  BY DEF Retained, Observation, Observations
<1>2. pendingFile \subseteq pendingFile'
  BY DEF Retained
<1>3. pendingFile' \in SUBSET Observations /\ noted' \in SUBSET Persons
  BY <1>1 DEF Retained, EnrolmentInv, EnrolmentTyped
<1>4. NothingForgotten'
  BY <1>1, <1>2 DEF NothingForgotten, EnrolmentInv
<1> QED BY <1>3, <1>4

\* A step that changes neither the file nor what was noted forgets nothing.
LEMMA QuietForgetsNothing ==
    ASSUME NothingForgotten, UNCHANGED <<pendingFile, noted>>, settled \subseteq settled'
    PROVE  NothingForgotten'
BY DEF NothingForgotten

-----------------------------------------------------------------------------
\* The start of an enrolment notes what the harnesses said.
LEMMA BeginSafe ==
    ASSUME EnrolmentInv, NEW p \in Enrollers, NEW report \in HarnessSays,
           BeginEnrolment(p, report)
    PROVE  EnrolmentInv'
<1> DEFINE z == [NotEnrolling EXCEPT !.phase = "receipts", !.mails = Mails,
                                     !.errors = report.errors]
<1>1. /\ z \in EnrollerRows /\ z.phase = "receipts" /\ z.done = {} /\ ~z.failed
  <2>1. report.errors \in BOOLEAN
    BY DEF HarnessSays
  <2>2. NotEnrolling.done = {} /\ ~NotEnrolling.failed
    BY DEF NotEnrolling
  <2>3. PICK w \in EnrollerRows : w = NotEnrolling
    BY NotEnrollingTyped
  <2> QED BY <2>1, <2>2, <2>3 DEF EnrollerRows, EnrolPhases
<1>2. enroller' = [enroller EXCEPT ![p] = z] /\ pendingLock = NoPerson /\ pendingLock' = p
  BY DEF BeginEnrolment
<1>3. report.seen \in SUBSET Persons
  BY DEF HarnessSays
<1>4. /\ pendingFile' \in SUBSET Observations /\ noted' \in SUBSET Persons
      /\ NothingForgotten'
  BY <1>3, RetainedForgetsNothing DEF BeginEnrolment
<1> HIDE DEF z
<1>5. PICK e \in EnrollerRows : e = z
  BY <1>1
<1>6. RunAccounts(e)'
  BY <1>1, <1>5 DEF RunAccounts, Registering
<1>7. UNCHANGED <<item, row, settled>>
  BY DEF BeginEnrolment
<1> QED BY <1>1, <1>2, <1>4, <1>5, <1>6, <1>7, EnrollerMoves
      DEF EnrolmentInv, EnrolmentTyped

\* Reading the mailboxes changes only what the run has read.
LEMMA ReceiptsSafe ==
    ASSUME EnrolmentInv, NEW p \in Enrollers, NEW m \in Mails,
           \/ ReadReceipt(p, m)
           \/ \E route \in BOOLEAN : ReceiptUnread(p, m, route)
    PROVE  EnrolmentInv'
<1>1. PICK x \in EnrollerRows : x = enroller[p]
  BY DEF EnrolmentInv, EnrolmentTyped
<1>2. x.phase = "receipts" /\ x.done = {} /\ ~x.failed /\ pendingLock = p
  BY <1>1 DEF ReadReceipt, ReceiptUnread, EnrolmentInv, EnrollerHoldsFile, RunAccounts
<1>3. UNCHANGED <<pendingFile, pendingLock, item, row, noted, settled>>
  BY DEF ReadReceipt, ReceiptUnread
<1>4. PICK e \in EnrollerRows : /\ enroller' = [enroller EXCEPT ![p] = e]
                                /\ e.phase = "receipts" /\ e.done = {} /\ ~e.failed
  <2>1. CASE ReadReceipt(p, m)
    <3> DEFINE z == [x EXCEPT !.mails = @ \ {m}, !.read = @ \cup ReceiptOf[m]]
    <3>1. ReceiptOf[m] \in SUBSET Persons
      BY EnrolmentAssumption
    <3>2. z \in EnrollerRows /\ z.phase = x.phase /\ z.done = x.done /\ z.failed = x.failed
      BY <3>1 DEF EnrollerRows
    <3>3. enroller' = [enroller EXCEPT ![p] = z]
      BY <1>1, <2>1 DEF ReadReceipt
    <3> QED BY <1>2, <3>2, <3>3
  <2>2. ASSUME NEW route \in BOOLEAN, ReceiptUnread(p, m, route)
        PROVE  \E e \in EnrollerRows : /\ enroller' = [enroller EXCEPT ![p] = e]
                                       /\ e.phase = "receipts" /\ e.done = {} /\ ~e.failed
    <3> DEFINE z == [x EXCEPT !.mails = IF route THEN {} ELSE @ \ {m}, !.errors = TRUE]
    <3>2. z \in EnrollerRows /\ z.phase = x.phase /\ z.done = x.done /\ z.failed = x.failed
      BY DEF EnrollerRows
    <3>3. enroller' = [enroller EXCEPT ![p] = z]
      BY <1>1, <2>2 DEF ReceiptUnread
    <3> QED BY <1>2, <3>2, <3>3
  <2> QED BY <2>1, <2>2
<1>5. RunAccounts(e)'
  BY <1>4 DEF RunAccounts, Registering
<1>6. NothingForgotten'
  BY <1>3, QuietForgetsNothing DEF EnrolmentInv
<1> QED BY <1>2, <1>3, <1>4, <1>5, <1>6, EnrollerMoves DEF EnrolmentInv, EnrolmentTyped

\* The receipts are noted, or the call ends with the file as it was.
LEMMA RetainReceiptsSafe ==
    ASSUME EnrolmentInv, NEW p \in Enrollers, RetainReceipts(p)
    PROVE  EnrolmentInv'
<1>1. PICK x \in EnrollerRows : x = enroller[p]
  BY DEF EnrolmentInv, EnrolmentTyped
<1>2. x.phase = "receipts" /\ x.done = {} /\ ~x.failed /\ pendingLock = p
  BY <1>1 DEF RetainReceipts, EnrolmentInv, EnrollerHoldsFile, RunAccounts
<1>3. UNCHANGED <<item, row, settled>>
  BY DEF RetainReceipts
<1>4. CASE Release(p) /\ UNCHANGED <<pendingFile, noted>>
  <2>1. NothingForgotten' /\ pendingFile' \in SUBSET Observations
    BY <1>3, <1>4, QuietForgetsNothing DEF EnrolmentInv, EnrolmentTyped
  <2> QED BY <1>1, <1>2, <1>3, <1>4, <2>1, ReleaseKeeps
<1>5. CASE ~(Release(p) /\ UNCHANGED <<pendingFile, noted>>)
  <2>1. /\ pendingFile' = Retained(x.read, "receipt") /\ noted' = noted \cup x.read
        /\ enroller' = [enroller EXCEPT ![p].phase = "listing", ![p].todo = pendingFile']
        /\ pendingLock' = pendingLock
    BY <1>1, <1>5 DEF RetainReceipts
  <2>2. x.read \in SUBSET Persons
    BY DEF EnrollerRows
  <2>3. /\ pendingFile' \in SUBSET Observations /\ noted' \in SUBSET Persons
        /\ NothingForgotten'
    BY <1>3, <2>1, <2>2, RetainedForgetsNothing
  <2>4. PICK file \in SUBSET Observations : file = pendingFile'
    BY <2>3
  <2> DEFINE z == [x EXCEPT !.phase = "listing", !.todo = file]
  <2>5. /\ z \in EnrollerRows /\ z.phase = "listing" /\ z.todo = file
        /\ z.done = x.done /\ z.failed = x.failed
    BY DEF EnrollerRows, EnrolPhases
  <2>6. enroller' = [enroller EXCEPT ![p] = z]
    BY <1>1, <2>1, <2>4
  <2> HIDE DEF z
  <2>7. PICK e \in EnrollerRows : e = z
    BY <2>5
  <2>8. RunAccounts(e)'
    BY <1>2, <2>4, <2>5, <2>7 DEF RunAccounts, Registering
  <2> QED BY <1>2, <1>3, <2>1, <2>3, <2>5, <2>6, <2>7, <2>8, EnrollerMoves
        DEF EnrolmentInv, EnrolmentTyped
<1> QED BY <1>4, <1>5

-----------------------------------------------------------------------------
\* The members are listed, those removed taken out with their rows.
LEMMA ReconcileSafe ==
    ASSUME EnrolmentInv, NEW p \in Enrollers, ReconcileMembers(p)
    PROVE  EnrolmentInv'
<1>1. PICK x \in EnrollerRows : x = enroller[p]
  BY DEF EnrolmentInv, EnrolmentTyped
<1>2. /\ x.phase = "listing" /\ x.done = {} /\ ~x.failed /\ x.todo = pendingFile
      /\ pendingLock = p
  BY <1>1 DEF ReconcileMembers, EnrolmentInv, EnrollerHoldsFile, RunAccounts
<1>3. UNCHANGED <<pendingFile, noted, settled>>
  BY DEF ReconcileMembers
<1>4. NothingForgotten' /\ pendingFile' \in SUBSET Observations
  BY <1>3, QuietForgetsNothing DEF EnrolmentInv, EnrolmentTyped
<1>5. CASE Release(p) /\ UNCHANGED <<item, row>>
  BY <1>1, <1>2, <1>3, <1>4, <1>5, ReleaseKeeps
<1>6. CASE ~(Release(p) /\ UNCHANGED <<item, row>>)
  <2>1. PICK gone : /\ RemoveItems(gone)
                    /\ row' = [i \in Coordinates |-> IF i \in gone THEN NoPerson ELSE row[i]]
                    /\ enroller' = [enroller EXCEPT ![p].phase = "enrolling",
                                                    ![p].members = item']
                    /\ pendingLock' = pendingLock
    BY <1>6 DEF ReconcileMembers
  <2>2. item' \in [Coordinates -> Someone] /\ row' \in [Coordinates -> Someone]
    <3>1. /\ \A i \in Coordinates : item[i] \in Someone /\ row[i] \in Someone
          /\ NoPerson \in Someone
      BY DEF EnrolmentInv, EnrolmentTyped, Someone
    <3> QED BY <2>1, <3>1 DEF RemoveItems
  <2>3. PICK f \in [Coordinates -> Someone] : f = item'
    BY <2>2
  <2> DEFINE z == [x EXCEPT !.phase = "enrolling", !.members = f]
  <2>4. /\ z \in EnrollerRows /\ z.phase = "enrolling" /\ z.todo = x.todo
        /\ z.done = x.done /\ z.failed = x.failed
    BY DEF EnrollerRows, EnrolPhases
  <2>5. enroller' = [enroller EXCEPT ![p] = z]
    BY <1>1, <2>1, <2>3
  <2> HIDE DEF z
  <2>6. PICK e \in EnrollerRows : e = z
    BY <2>4
  <2>7. RunAccounts(e)'
    BY <1>2, <1>3, <2>4, <2>6 DEF RunAccounts, Registering, ObservationAnswered
  <2> QED BY <1>2, <1>3, <1>4, <2>1, <2>2, <2>4, <2>5, <2>6, <2>7, EnrollerMoves
        DEF EnrolmentInv, EnrolmentTyped
<1> QED BY <1>5, <1>6

\* A refused observation leaves the run in error, and the file as it is.
LEMMA RefuseSafe ==
    ASSUME EnrolmentInv, NEW p \in Enrollers, NEW o, RefuseObservation(p, o)
    PROVE  EnrolmentInv'
<1>1. PICK x \in EnrollerRows : x = enroller[p]
  BY DEF EnrolmentInv, EnrolmentTyped
<1>2. /\ x.phase = "enrolling" /\ pendingLock = p
  BY <1>1 DEF RefuseObservation, EnrolmentInv, EnrollerHoldsFile
<1>3. UNCHANGED <<pendingFile, pendingLock, item, row, noted, settled>>
  BY DEF RefuseObservation
<1> DEFINE z == [x EXCEPT !.todo = @ \ {o}, !.failed = TRUE]
<1>4. z \in EnrollerRows /\ z.phase = "enrolling" /\ z.failed
  BY <1>2 DEF EnrollerRows
<1>5. enroller' = [enroller EXCEPT ![p] = z]
  BY <1>1 DEF RefuseObservation
<1> HIDE DEF z
<1>6. PICK e \in EnrollerRows : e = z
  BY <1>4
<1>7. RunAccounts(e)'
  BY <1>4, <1>6 DEF RunAccounts, Registering, ObservationAnswered
<1>8. NothingForgotten'
  BY <1>3, QuietForgetsNothing DEF EnrolmentInv
<1> QED BY <1>2, <1>3, <1>4, <1>5, <1>6, <1>7, <1>8, EnrollerMoves
      DEF EnrolmentInv, EnrolmentTyped

\* An account's row is recorded; an id the run did already is the same
\* account's, since the row names it.
LEMMA SettleSafe ==
    ASSUME EnrolmentInv, NEW p \in Enrollers, NEW o \in enroller[p].todo,
           SettleDiscovered(p, o)
    PROVE  EnrolmentInv'
<1>1. PICK x \in EnrollerRows : x = enroller[p]
  BY DEF EnrolmentInv, EnrolmentTyped
<1>2. /\ x.phase = "enrolling" /\ pendingLock = p
      /\ \A q \in pendingFile : ObservationAnswered(x, q, settled)
      /\ \A i \in x.done : x.failed \/ row[i] \in settled
  BY <1>1 DEF SettleDiscovered, EnrolmentInv, EnrollerHoldsFile, RunAccounts
<1>3. UNCHANGED <<pendingFile, pendingLock, item, noted, settled>>
  BY DEF SettleDiscovered
<1>4. PICK a \in Persons : a = o.account
  BY <1>1 DEF EnrollerRows, Observations
<1>5. PICK i \in Coordinates : i = IdOf[a]
  BY DEF Coordinates
<1>6. row[i] \in {NoPerson, a} /\ row' = [row EXCEPT ![i] = a]
  BY <1>4, <1>5 DEF SettleDiscovered, EnrolRefused
<1>7. row \in [Coordinates -> Someone] /\ NoPerson \notin settled
  BY EnrolmentAssumption DEF EnrolmentInv, EnrolmentTyped
<1>8. /\ row' \in [Coordinates -> Someone] /\ row'[i] = a
      /\ \A j \in Coordinates \ {i} : row'[j] = row[j]
  BY <1>6, <1>7 DEF Someone
<1>9. PICK s \in {"enrolling", "registered", "registering"} :
         s = IF i \in x.done THEN "enrolling"
             ELSE IF Existing(p, a) THEN "registered" ELSE "registering"
  OBVIOUS
<1>10. PICK t \in Someone : t = IF i \in x.done THEN NoPerson ELSE a
  BY DEF Someone
<1> DEFINE z == [x EXCEPT !.todo = @ \ {o}, !.at = t, !.phase = s]
<1>11. /\ z \in EnrollerRows /\ z.phase = s /\ z.at = t /\ z.todo = x.todo \ {o}
       /\ z.done = x.done /\ z.failed = x.failed
  BY <1>9 DEF EnrollerRows, EnrolPhases
<1>12. enroller' = [enroller EXCEPT ![p] = z]
  BY <1>1, <1>4, <1>5, <1>9, <1>10 DEF SettleDiscovered
<1> HIDE DEF z
<1>13. PICK e \in EnrollerRows : e = z
  BY <1>11
<1>14. i \in x.done => x.failed \/ a \in settled
  BY <1>2, <1>6, <1>7
<1>15. \A q \in pendingFile : ObservationAnswered(e, q, settled)
  BY <1>2, <1>4, <1>9, <1>10, <1>11, <1>13, <1>14 DEF ObservationAnswered, Registering
<1>16. \A j \in e.done : e.failed \/ row'[j] \in settled
  <2>1. e.done \subseteq Coordinates
    BY DEF EnrollerRows
  <2> QED BY <1>2, <1>8, <1>11, <1>13, <1>14, <2>1
<1>17. e.phase \in Registering => e.at \in Persons /\ row'[IdOf[e.at]] = e.at
  BY <1>5, <1>8, <1>9, <1>10, <1>11, <1>13 DEF Registering
<1>18. RunAccounts(e)'
  <2>1. \A q \in pendingFile' : ObservationAnswered(e, q, settled')
    BY <1>3, <1>15
  <2> QED BY <1>3, <1>9, <1>11, <1>13, <1>16, <1>17, <2>1
        DEF RunAccounts, Registering, ObservationAnswered
<1>19. NothingForgotten'
  BY <1>3, QuietForgetsNothing DEF EnrolmentInv
<1>20. e.phase # "idle"
  BY <1>9, <1>11, <1>13
<1> QED BY <1>2, <1>3, <1>8, <1>12, <1>13, <1>18, <1>19, <1>20, EnrollerMoves
      DEF EnrolmentInv, EnrolmentTyped

\* The item is written beside what is there, or the router refuses it.
LEMMA RegisterSafe ==
    ASSUME EnrolmentInv, NEW p \in Enrollers, RegisterItem(p) \/ RegistrationFails(p)
    PROVE  EnrolmentInv'
<1>1. PICK x \in EnrollerRows : x = enroller[p]
  BY DEF EnrolmentInv, EnrolmentTyped
<1>2. x.phase = "registering" /\ pendingLock = p /\ RunAccounts(x)
  BY <1>1 DEF RegisterItem, RegistrationFails, EnrolmentInv, EnrollerHoldsFile
<1>3. UNCHANGED <<pendingFile, pendingLock, row, noted, settled>>
  BY DEF RegisterItem, RegistrationFails
<1>4. x.at \in Persons
  BY <1>2 DEF RunAccounts, Registering
<1>5. item' \in [Coordinates -> Someone]
  <2>1. item \in [Coordinates -> Someone]
    BY DEF EnrolmentInv, EnrolmentTyped
  <2>2. CASE RegistrationFails(p)
    BY <2>1, <2>2 DEF RegistrationFails
  <2>3. CASE RegisterItem(p)
    <3>1. PICK i \in Coordinates : i = IdOf[x.at]
      BY <1>4 DEF Coordinates
    <3>2. item' = [item EXCEPT ![i] = IF item[i] = NoPerson THEN x.at ELSE item[i]]
      BY <1>1, <2>3, <3>1 DEF RegisterItem, SetIfAbsent
    <3>3. x.at \in Someone
      BY <1>4 DEF Someone
    <3> QED BY <2>1, <3>2, <3>3
  <2> QED BY <2>2, <2>3
<1>6. PICK s \in {"registered", "unregistered"} :
         enroller' = [enroller EXCEPT ![p].phase = s]
  BY DEF RegisterItem, RegistrationFails
<1> DEFINE z == [x EXCEPT !.phase = s]
<1>7. /\ z \in EnrollerRows /\ z.phase = s /\ z.at = x.at /\ z.todo = x.todo
      /\ z.done = x.done /\ z.failed = x.failed
  BY <1>6 DEF EnrollerRows, EnrolPhases
<1>8. enroller' = [enroller EXCEPT ![p] = z]
  BY <1>1, <1>6
<1> HIDE DEF z
<1>9. PICK e \in EnrollerRows : e = z
  BY <1>7
<1>10. RunAccounts(e)'
  <2>1. /\ \A o \in pendingFile : ObservationAnswered(x, o, settled)
        /\ \A i \in x.done : x.failed \/ row[i] \in settled
        /\ x.at \in Persons /\ row[IdOf[x.at]] = x.at
    BY <1>2 DEF RunAccounts, Registering
  <2>2. \A o \in pendingFile : ObservationAnswered(e, o, settled)
    BY <1>2, <1>6, <1>7, <1>9, <2>1 DEF ObservationAnswered, Registering
  <2>3. \A o \in pendingFile' : ObservationAnswered(e, o, settled')
    BY <1>3, <2>2
  <2> QED BY <1>3, <1>6, <1>7, <1>9, <2>1, <2>3
        DEF RunAccounts, Registering, ObservationAnswered
<1>11. NothingForgotten'
  BY <1>3, QuietForgetsNothing DEF EnrolmentInv
<1>12. e.phase # "idle"
  BY <1>6, <1>7, <1>9
<1> QED BY <1>2, <1>3, <1>5, <1>8, <1>9, <1>10, <1>11, <1>12, EnrollerMoves
      DEF EnrolmentInv, EnrolmentTyped

\* The outcome of a registration is recorded: settled, or the run in error.
LEMMA RecordSafe ==
    ASSUME EnrolmentInv, NEW p \in Enrollers, RecordRegistration(p)
    PROVE  EnrolmentInv'
<1>1. PICK x \in EnrollerRows : x = enroller[p]
  BY DEF EnrolmentInv, EnrolmentTyped
<1>2. x.phase \in {"registered", "unregistered"} /\ pendingLock = p /\ RunAccounts(x)
  BY <1>1 DEF RecordRegistration, EnrolmentInv, EnrollerHoldsFile
<1>3. UNCHANGED <<pendingFile, pendingLock, item, row, noted>>
  BY DEF RecordRegistration
<1>4. PICK a \in Persons : a = x.at
  BY <1>2 DEF RunAccounts, Registering
<1>5. PICK i \in Coordinates : i = IdOf[a]
  BY DEF Coordinates
<1>6. PICK ok \in BOOLEAN : ok <=> x.phase = "registered"
  OBVIOUS
<1>7. settled' = IF ok THEN settled \cup {a} ELSE settled
  BY <1>1, <1>4, <1>6 DEF RecordRegistration
<1>8. settled \subseteq settled' /\ settled' \in SUBSET Persons /\ (ok => a \in settled')
  BY <1>7 DEF EnrolmentInv, EnrolmentTyped
<1>9. PICK bad \in BOOLEAN : bad = (x.failed \/ ~ok)
  OBVIOUS
<1> DEFINE z == [x EXCEPT !.phase = "enrolling", !.at = NoPerson, !.done = @ \cup {i},
                          !.failed = bad]
<1>10. /\ z \in EnrollerRows /\ z.phase = "enrolling" /\ z.todo = x.todo
       /\ z.done = x.done \cup {i} /\ z.failed = bad
  BY DEF EnrollerRows, EnrolPhases, Someone
<1>11. enroller' = [enroller EXCEPT ![p] = z]
  <2>1. x.failed \in BOOLEAN
    BY DEF EnrollerRows
  <2>2. (x.failed \/ ~(x.phase = "registered")) = bad
    BY <1>6, <1>9, <2>1
  <2>3. enroller' = [enroller EXCEPT ![p] = [x EXCEPT !.phase = "enrolling", !.at = NoPerson,
                        !.done = @ \cup {i}, !.failed = @ \/ ~(x.phase = "registered")]]
    BY <1>1, <1>4, <1>5 DEF RecordRegistration
  <2> QED BY <2>2, <2>3
<1> HIDE DEF z
<1>12. PICK e \in EnrollerRows : e = z
  BY <1>10
<1>13. /\ \A o \in pendingFile : ObservationAnswered(x, o, settled)
       /\ \A j \in x.done : x.failed \/ row[j] \in settled
       /\ row[i] = a
  BY <1>2, <1>4, <1>5 DEF RunAccounts, Registering
<1>14. \A o \in pendingFile : ObservationAnswered(e, o, settled')
  <2> SUFFICES ASSUME NEW o \in pendingFile PROVE ObservationAnswered(e, o, settled')
    OBVIOUS
  <2>1. o \in x.todo \/ x.failed \/ o.account \in settled \/ a = o.account
    BY <1>4, <1>13 DEF ObservationAnswered
  <2>2. o \in e.todo \/ e.failed \/ o.account \in settled'
    BY <1>8, <1>9, <1>10, <1>12, <2>1
  <2> QED BY <2>2 DEF ObservationAnswered
<1>15. \A j \in e.done : e.failed \/ row[j] \in settled'
  BY <1>8, <1>9, <1>10, <1>12, <1>13
<1>16. RunAccounts(e)'
  <2>1. \A o \in pendingFile' : ObservationAnswered(e, o, settled')
    BY <1>3, <1>14
  <2> QED BY <1>3, <1>10, <1>12, <1>15, <2>1 DEF RunAccounts, Registering, ObservationAnswered
<1>17. NothingForgotten'
  BY <1>3, <1>8, QuietForgetsNothing DEF EnrolmentInv
<1> QED BY <1>2, <1>3, <1>8, <1>10, <1>11, <1>12, <1>16, <1>17, EnrollerMoves
      DEF EnrolmentInv, EnrolmentTyped

\* The file is emptied only by a run that was in error nowhere.
LEMMA EndSafe ==
    ASSUME EnrolmentInv, NEW p \in Enrollers, EndEnrolment(p)
    PROVE  EnrolmentInv'
<1>1. PICK x \in EnrollerRows : x = enroller[p]
  BY DEF EnrolmentInv, EnrolmentTyped
<1>2. x.phase = "enrolling" /\ x.todo = {} /\ RunAccounts(x)
  BY <1>1 DEF EndEnrolment, EnrolmentInv
<1>3. UNCHANGED <<item, row, noted, settled>> /\ Release(p)
  BY DEF EndEnrolment
<1>4. pendingFile' = IF x.failed THEN pendingFile ELSE {}
  BY <1>1 DEF EndEnrolment, Reconciled
<1>5. pendingFile' \in SUBSET Observations
  BY <1>4 DEF EnrolmentInv, EnrolmentTyped
<1>6. NothingForgotten'
  <2>1. CASE x.failed
    BY <1>3, <1>4, <2>1, QuietForgetsNothing DEF EnrolmentInv
  <2>2. CASE ~x.failed
    <3>1. \A o \in pendingFile : o.account \in settled
      BY <1>2, <2>2 DEF RunAccounts, Registering, ObservationAnswered
    <3> QED BY <1>3, <3>1 DEF NothingForgotten, EnrolmentInv
  <2> QED BY <2>1, <2>2
<1>7. enroller[p].phase # "idle"
  BY <1>1, <1>2
<1> QED BY <1>3, <1>5, <1>6, <1>7, ReleaseKeeps

\* A process that stops leaves the file as it is.
LEMMA StopsSafe ==
    ASSUME EnrolmentInv, NEW p \in Enrollers, EnrollerStops(p)
    PROVE  EnrolmentInv'
<1>1. NothingForgotten' /\ pendingFile' \in SUBSET Observations
  BY QuietForgetsNothing DEF EnrollerStops, EnrolmentInv, EnrolmentTyped
<1> QED BY <1>1, ReleaseKeeps DEF EnrollerStops

\* The owner and the donors touch no run and no file of it.
LEMMA OutsideSafe ==
    ASSUME EnrolmentInv,
           \/ \E i \in Coordinates, what \in {"retired", "removed", "free"} : OwnerMarks(i, what)
           \/ \E a \in Persons : DonationReads(a)
           \/ DonationPuts
           \/ UNCHANGED enrolmentVars,
           DonorKnown
    PROVE  EnrolmentInv'
<1>1. UNCHANGED <<pendingFile, pendingLock, row, enroller, noted, settled>>
  BY DEF OwnerMarks, DonationReads, DonationPuts, enrolmentVars
<1>2. item \in [Coordinates -> Someone]
  BY DEF EnrolmentInv, EnrolmentTyped
<1>3. item' \in [Coordinates -> Someone]
  <2>1. CASE item' = item
    BY <1>2, <2>1
  <2>2. CASE item' # item
    <3>1. /\ donor # NoDonor /\ item' = [item EXCEPT ![donor.id] = donor.account]
      BY <2>2 DEF OwnerMarks, DonationReads, DonationPuts, SetAlways, enrolmentVars
    <3>2. donor.id \in Coordinates /\ donor.account \in Someone
      BY <3>1 DEF DonorKnown, Someone, Coordinates
    <3> QED BY <1>2, <3>1, <3>2
  <2> QED BY <2>1, <2>2
<1>4. EnrolmentTyped' /\ EnrollerHoldsFile'
  BY <1>1, <1>3 DEF EnrolmentInv, EnrolmentTyped, EnrollerHoldsFile
<1>5. NothingForgotten'
  BY <1>1 DEF EnrolmentInv, NothingForgotten
<1>6. \A p \in Enrollers : RunAccounts(enroller[p])'
  BY <1>1 DEF EnrolmentInv, RunAccounts, ObservationAnswered
<1> QED BY <1>4, <1>5, <1>6 DEF EnrolmentInv

-----------------------------------------------------------------------------
\* A donation under way names an account and its id.
LEMMA DonorStep ==
    ASSUME DonorKnown, [EnrolmentNext]_enrolmentVars
    PROVE  DonorKnown'
<1>1. \/ donor' = donor
      \/ donor' = NoDonor
      \/ \E a \in Persons : donor' = [id |-> IdOf[a], account |-> a]
  BY DEF EnrolmentNext, BeginEnrolment, ReadReceipt, ReceiptUnread, RetainReceipts,
         ReconcileMembers, RefuseObservation, SettleDiscovered, RegisterItem,
         RegistrationFails, RecordRegistration, EndEnrolment, EnrollerStops, OwnerMarks,
         DonationReads, DonationPuts, Fenced, enrolmentVars
<1> QED BY <1>1 DEF DonorKnown, Coordinates

\* Every step keeps the invariant.
LEMMA EnrolmentSteps ==
    ASSUME EnrolmentInv, DonorKnown, [EnrolmentNext]_enrolmentVars
    PROVE  EnrolmentInv'
BY BeginSafe, ReceiptsSafe, RetainReceiptsSafe, ReconcileSafe, RefuseSafe, SettleSafe,
   RegisterSafe, RecordSafe, EndSafe, StopsSafe, OutsideSafe
   DEF EnrolmentNext

\* No step but a donation gives an item another account.
LEMMA StepRenamesNothing ==
    ASSUME EnrolmentInv, [EnrolmentNext]_enrolmentVars
    PROVE  DiscoveryRenamesNothing
<1> SUFFICES ASSUME donor' = donor, NEW i \in Coordinates, item[i] # NoPerson
             PROVE  item'[i] \in {item[i], NoPerson}
  BY DEF DiscoveryRenamesNothing
<1>1. item \in [Coordinates -> Someone]
  BY DEF EnrolmentInv, EnrolmentTyped
<1>2. \/ item' = item
      \/ \E p \in Enrollers : RegisterItem(p)
      \/ \E gone : RemoveItems(gone)
  BY DEF EnrolmentNext, BeginEnrolment, ReadReceipt, ReceiptUnread, RetainReceipts,
         ReconcileMembers, RefuseObservation, SettleDiscovered,
         RegistrationFails, RecordRegistration, EndEnrolment, EnrollerStops, OwnerMarks,
         DonationReads, DonationPuts, enrolmentVars
<1>3. ASSUME NEW p \in Enrollers, RegisterItem(p) PROVE item'[i] \in {item[i], NoPerson}
  <2>1. \E j, a : item' = [item EXCEPT ![j] = IF @ = NoPerson THEN a ELSE @]
    BY <1>3 DEF RegisterItem, SetIfAbsent
  <2>2. PICK j, a : item' = [item EXCEPT ![j] = IF @ = NoPerson THEN a ELSE @]
    BY <2>1
  <2> QED BY <1>1, <2>2
<1>4. ASSUME NEW gone, RemoveItems(gone) PROVE item'[i] \in {item[i], NoPerson}
  BY <1>4 DEF RemoveItems
<1> QED BY <1>2, <1>3, <1>4

\* The invariant holds before the first enrolment.
LEMMA EnrolmentStarts == EnrolmentInit => EnrolmentInv /\ DonorKnown
<1> SUFFICES ASSUME EnrolmentInit PROVE EnrolmentInv /\ DonorKnown
  OBVIOUS
<1>1. \A p \in Enrollers : enroller[p] = NotEnrolling
  BY DEF EnrolmentInit
<1>2. enroller \in [Enrollers -> EnrollerRows]
  BY NotEnrollingTyped DEF EnrolmentInit
<1>3. EnrolmentTyped
  BY <1>2 DEF EnrolmentInit, EnrolmentTyped, Someone
<1>4. EnrollerHoldsFile
  BY <1>1, NotEnrollingTyped, EnrolmentAssumption DEF EnrolmentInit, EnrollerHoldsFile
<1>5. \A p \in Enrollers : RunAccounts(enroller[p])
  BY <1>1, NotEnrollingTyped, RestingAccounts
<1> QED BY <1>3, <1>4, <1>5 DEF EnrolmentInit, EnrolmentInv, NothingForgotten, DonorKnown

\* Whatever stops, fails, is refused or races it, enrolment forgets no
\* account it noted and gives no item that names an account another one.
THEOREM EnrolmentForgetsNothing == EnrolmentSpec => EnrolmentSafe
<1>1. ASSUME EnrolmentInv, DonorKnown, [EnrolmentNext]_enrolmentVars
      PROVE  NothingForgotten' /\ DiscoveryRenamesNothing
  BY <1>1, EnrolmentSteps, StepRenamesNothing DEF EnrolmentInv
<1>2. EnrolmentInv /\ DonorKnown /\ [EnrolmentNext]_enrolmentVars => EnrolmentInv' /\ DonorKnown'
  BY EnrolmentSteps, DonorStep
<1> QED BY EnrolmentStarts, <1>1, <1>2, PTL DEF EnrolmentSpec, EnrolmentSafe

-----------------------------------------------------------------------------
(***************************************************************************)
(* Membership pages (PoolOverlay). The code of a sign-in page is presented *)
(* to the provider at most once, for any number of handlers, members and   *)
(* pages. What makes it inductive is that a page is somebody's until its   *)
(* code is presented: it is open, or one handler completes it, and then it *)
(* is nobody else's.                                                       *)
(***************************************************************************)

\* What the overlay says of the members, and what a handler remembers.
Rows == Nat \cup {NoOne, "donation"}

Seen == [MemberIds -> Rows]

Stages == {"idle", "drawing", "banking", "adding", "exchanging", "storing", "proving",
           "failing", "unbanking", "donating", "removing", "dropping"}

Outcomes == {"none", "page", "taken", "refused", "unchanged", "signed in", "unproved",
             "failed", "unwritable", "left banked", "donated", "retired"}

Requests == [stage : Stages, id : MemberIds \cup {NoOne}, page : Nat, joining : BOOLEAN,
             banked : BOOLEAN, read : BOOLEAN, seen : Seen, outcome : Outcomes]

Pages == [id : MemberIds \cup {NoOne}, joining : BOOLEAN]

\* The types of the overlay, the pages and the handlers.
OverlayTypeOK ==
    /\ overlay \in Seen
    /\ pages \in [PageNumbers -> Pages]
    /\ drawn \in 0..MaxPages
    /\ presented \in [PageNumbers -> Nat]
    /\ request \in [Handlers -> Requests]

\* A completion that has its page and has not presented its code.
Completing(x) == x.stage \in {"banking", "adding", "exchanging"}

\* Its page is closed and unspent, and no other completion's.
PageIsTheirs ==
    /\ \A h \in Handlers : Completing(request[h]) =>
          /\ request[h].page \in PageNumbers
          /\ request[h].page <= drawn
          /\ presented[request[h].page] = 0
          /\ pages[request[h].page] = NoPage
    /\ \A h, k \in Handlers :
          Completing(request[h]) /\ Completing(request[k]) /\ request[h].page = request[k].page
             => h = k

\* An open page was drawn, is an account's and unspent; one not drawn yet is
\* unspent too.
OpenUnspent ==
    /\ \A n \in PageNumbers : pages[n] # NoPage =>
          n <= drawn /\ presented[n] = 0 /\ pages[n].id \in MemberIds
    /\ \A n \in PageNumbers : n > drawn => presented[n] = 0

\* A page is drawn for a member.
DrawsForMember == \A h \in Handlers : request[h].stage = "drawing" => request[h].id \in MemberIds

\* The inductive invariant of the overlay.
OverlayInv ==
    /\ OverlayTypeOK
    /\ PageIsTheirs
    /\ OpenUnspent
    /\ DrawsForMember
    /\ CodeSpentOnce

\* What the assumptions say of the constants.
LEMMA OverlayFacts ==
    /\ NoOne \notin MemberIds
    /\ NoOne \notin Nat
    /\ MaxPages \in Nat
    /\ PageNumbers \subseteq Nat
  BY OverlayAssumption DEF PageNumbers

\* A handler at rest and a page that is closed.
LEMMA RestTypes ==
    /\ AtRest \in Requests
    /\ AtRest.seen \in Seen
    /\ AtRest.stage = "idle"
    /\ NoPage \in Pages
<1>1. [i \in MemberIds |-> NoOne] \in Seen
  BY DEF Seen, Rows
<1>2. AtRest \in Requests
  <2>1. ASSUME NEW s \in Seen
        PROVE  [stage |-> "idle", id |-> NoOne, page |-> 0, joining |-> FALSE,
                banked |-> FALSE, read |-> FALSE, seen |-> s, outcome |-> "none"] \in Requests
    BY DEF Requests, Stages, Outcomes
  <2> QED BY <1>1, <2>1 DEF AtRest
<1>3. NoPage \in Pages
  BY DEF NoPage, Pages
<1> QED BY <1>1, <1>2, <1>3 DEF AtRest

\* What To, Answer, AddRow and ReadOverlay leave of a handler's record.
LEMMA RestedTypes ==
    ASSUME OverlayTypeOK, NEW h \in Handlers
    PROVE  /\ Rested(h) \in Requests
           /\ Rested(h).stage = request[h].stage
           /\ Rested(h).page = request[h].page
           /\ Rested(h).id = request[h].id
<1>1. request[h] \in Requests /\ AtRest.seen \in Seen
  BY RestTypes DEF OverlayTypeOK
<1>2. ASSUME NEW x \in Requests, NEW s \in Seen
      PROVE  /\ [x EXCEPT !.read = FALSE, !.seen = s] \in Requests
             /\ [x EXCEPT !.read = FALSE, !.seen = s].stage = x.stage
             /\ [x EXCEPT !.read = FALSE, !.seen = s].page = x.page
             /\ [x EXCEPT !.read = FALSE, !.seen = s].id = x.id
  BY DEF Requests
<1> QED BY <1>1, <1>2 DEF Rested

\* A handler that goes on to another stage keeps the rest.
LEMMA StagedTypes ==
    ASSUME NEW x \in Requests, NEW s \in Stages
    PROVE  /\ [x EXCEPT !.stage = s] \in Requests
           /\ [x EXCEPT !.stage = s].stage = s
           /\ [x EXCEPT !.stage = s].page = x.page
           /\ [x EXCEPT !.stage = s].id = x.id
  BY DEF Requests

\* A handler that answers is at rest.
LEMMA AnsweredTypes ==
    ASSUME NEW x \in Requests, NEW o \in Outcomes
    PROVE  /\ [x EXCEPT !.stage = "idle", !.outcome = o] \in Requests
           /\ [x EXCEPT !.stage = "idle", !.outcome = o].stage = "idle"
<1>1. [x EXCEPT !.stage = "idle", !.outcome = o] \in Requests
  <2>1. "idle" \in Stages
    BY DEF Stages
  <2> QED BY <2>1 DEF Requests
<1>2. [x EXCEPT !.stage = "idle", !.outcome = o].stage = "idle"
  BY DEF Requests
<1> QED BY <1>1, <1>2

\* A handler's step that leaves the pages and their codes alone, and after
\* which it completes no page it did not complete before.
LEMMA QuietStep ==
    ASSUME OverlayInv, NEW h \in Handlers, NEW x \in Requests,
           request' = [request EXCEPT ![h] = x],
           overlay' \in Seen,
           UNCHANGED <<pages, drawn, presented>>,
           Completing(x) => Completing(request[h]) /\ x.page = request[h].page,
           x.stage = "drawing" => x.id \in MemberIds
    PROVE  OverlayInv'
<1>1. request' \in [Handlers -> Requests]
      /\ request'[h] = x /\ \A k \in Handlers : k # h => request'[k] = request[k]
  BY DEF OverlayInv, OverlayTypeOK
<1>2. OverlayTypeOK'
  BY <1>1 DEF OverlayInv, OverlayTypeOK
<1>3. \A k \in Handlers : Completing(request'[k]) =>
          Completing(request[k]) /\ request'[k].page = request[k].page
  BY <1>1
<1>4. PageIsTheirs'
  BY <1>3 DEF OverlayInv, PageIsTheirs
<1>5. OpenUnspent' /\ CodeSpentOnce'
  BY DEF OverlayInv, OpenUnspent, CodeSpentOnce
<1>6. DrawsForMember'
  BY <1>1 DEF OverlayInv, DrawsForMember
<1> QED BY <1>2, <1>4, <1>5, <1>6 DEF OverlayInv

\* An answer that touches no page keeps the invariant.
LEMMA AnswerQuiet ==
    ASSUME OverlayInv, NEW h \in Handlers, NEW o \in Outcomes, Answer(h, o),
           overlay' \in Seen, UNCHANGED <<pages, drawn, presented>>
    PROVE  OverlayInv'
<1> DEFINE x == [Rested(h) EXCEPT !.stage = "idle", !.outcome = o]
<1>1. x \in Requests /\ x.stage = "idle"
  BY RestedTypes, AnsweredTypes DEF OverlayInv
<1>2. request' = [request EXCEPT ![h] = x]
  BY DEF Answer
<1>3. ~Completing(x) /\ x.stage # "drawing"
  BY <1>1 DEF Completing
<1> HIDE DEF x
<1> QED BY <1>1, <1>2, <1>3, QuietStep

\* Going on to another stage without touching a page keeps the invariant.
LEMMA ToQuiet ==
    ASSUME OverlayInv, NEW h \in Handlers, NEW s \in Stages, To(h, s),
           overlay' \in Seen, UNCHANGED <<pages, drawn, presented>>,
           s \in {"banking", "adding", "exchanging"} => Completing(request[h]),
           s # "drawing"
    PROVE  OverlayInv'
<1> DEFINE x == [Rested(h) EXCEPT !.stage = s]
<1>1. x \in Requests /\ x.stage = s /\ x.page = request[h].page
  BY RestedTypes, StagedTypes DEF OverlayInv
<1>2. request' = [request EXCEPT ![h] = x]
  BY DEF To
<1>3. (Completing(x) => Completing(request[h])) /\ x.stage # "drawing"
  BY <1>1 DEF Completing
<1> HIDE DEF x
<1> QED BY <1>1, <1>2, <1>3, QuietStep

\* A donation, a retirement, a sign-in begun and a completion start from
\* AtRest.
LEMMA StartTypes ==
    ASSUME NEW s \in Stages, NEW i \in MemberIds,
           NEW y, y = [AtRest EXCEPT !.stage = s, !.id = i]
    PROVE  /\ y \in Requests
           /\ y.stage = s
<1> DEFINE x == AtRest
<1>0. x \in Requests /\ y = [x EXCEPT !.stage = s, !.id = i]
  BY RestTypes
<1> HIDE DEF x
<1> QED BY <1>0 DEF Requests

\* A row written over what a handler read is a row file again.
LEMMA WriteTypes ==
    ASSUME OverlayTypeOK, NEW h \in Handlers, NEW entry \in Rows, WriteOverlay(h, entry)
    PROVE  overlay' \in Seen
<1>1. request[h].seen \in Seen
  BY DEF OverlayTypeOK, Requests
<1> QED BY <1>1 DEF WriteOverlay, Seen

\* Beginning a sign-in by hand keeps the invariant.
LEMMA BeginKeeps ==
    ASSUME OverlayInv, NEW h \in Handlers, NEW id \in MemberIds, NEW joining \in BOOLEAN,
           BeginHandSignIn(h, id, joining)
    PROVE  OverlayInv'
<1> DEFINE x == [AtRest EXCEPT !.stage = "drawing", !.id = id, !.joining = joining]
<1>0. "drawing" \in Stages
  BY DEF Stages
<1>1. x \in Requests /\ x.stage = "drawing" /\ x.id = id
  <2> DEFINE r == AtRest
             y == [r EXCEPT !.stage = "drawing", !.id = id, !.joining = joining]
  <2>1. r \in Requests /\ x = y
    BY RestTypes
  <2> HIDE DEF r, x
  <2>2. y \in Requests /\ y.stage = "drawing" /\ y.id = id
    BY <1>0, <2>1 DEF Requests
  <2> QED BY <2>1, <2>2
<1>2. request' = [request EXCEPT ![h] = x]
      /\ overlay' \in Seen /\ UNCHANGED <<pages, drawn, presented>>
  BY DEF BeginHandSignIn, OverlayInv, OverlayTypeOK
<1>3. ~Completing(x)
  BY <1>1 DEF Completing
<1> HIDE DEF x
<1> QED BY <1>1, <1>2, <1>3, QuietStep

\* Beginning a donation or a retirement keeps the invariant.
LEMMA StartsKeep ==
    ASSUME OverlayInv, NEW h \in Handlers, NEW id \in MemberIds,
           Donate(h, id) \/ RetireMember(h, id)
    PROVE  OverlayInv'
<1>1. PICK s \in {"donating", "removing"} :
         request' = [request EXCEPT ![h] = [AtRest EXCEPT !.stage = s, !.id = id]]
  BY DEF Donate, RetireMember
<1> DEFINE x == [AtRest EXCEPT !.stage = s, !.id = id]
<1>0. s \in Stages
  BY DEF Stages
<1>2. x \in Requests /\ x.stage = s
  <2>1. x = [AtRest EXCEPT !.stage = s, !.id = id]
    OBVIOUS
  <2> HIDE DEF x
  <2> QED BY <1>0, <2>1, StartTypes
<1>3. overlay' \in Seen /\ UNCHANGED <<pages, drawn, presented>>
  BY DEF Donate, RetireMember, OverlayInv, OverlayTypeOK
<1>4. ~Completing(x) /\ x.stage # "drawing"
  BY <1>2 DEF Completing
<1>5. request' = [request EXCEPT ![h] = x]
  BY <1>1
<1> HIDE DEF x
<1> QED BY <1>2, <1>3, <1>4, <1>5, QuietStep

\* The new page is fresh, and the account's old one is closed.
LEMMA DrawKeeps ==
    ASSUME OverlayInv, NEW h \in Handlers, DrawPage(h)
    PROVE  OverlayInv'
<1> USE OverlayFacts
<1> DEFINE page == [id |-> request[h].id, joining |-> request[h].joining]
           x == [Rested(h) EXCEPT !.stage = "idle", !.outcome = "page"]
           new == drawn + 1
<1>1. /\ new \in PageNumbers
      /\ drawn' = new
      /\ drawn' \in 0..MaxPages
      /\ request[h].id \in MemberIds
      /\ UNCHANGED <<overlay, presented>>
  BY DEF DrawPage, OverlayInv, OverlayTypeOK, DrawsForMember, PageNumbers
<1>2. page \in Pages /\ page # NoPage /\ page.id = request[h].id
  <2>1. request[h].joining \in BOOLEAN
    BY DEF OverlayInv, OverlayTypeOK, Requests
  <2> QED BY <1>1, <2>1 DEF Pages, NoPage
<1>3. x \in Requests /\ x.stage = "idle" /\ request' = [request EXCEPT ![h] = x]
  BY RestedTypes, AnsweredTypes DEF OverlayInv, Outcomes, DrawPage, Answer
<1> HIDE DEF page, x
<1>4. /\ Replaced(request[h].id) \in [PageNumbers -> Pages]
      /\ \A n \in PageNumbers : Replaced(request[h].id)[n] =
            IF pages[n].id = request[h].id THEN NoPage ELSE pages[n]
  BY RestTypes DEF Replaced, OverlayInv, OverlayTypeOK
<1>5. pages' = [Replaced(request[h].id) EXCEPT ![new] = page]
  BY DEF DrawPage, page
<1>6. /\ pages' \in [PageNumbers -> Pages]
      /\ pages'[new] = page
      /\ \A n \in PageNumbers : n # new =>
            pages'[n] = IF pages[n].id = request[h].id THEN NoPage ELSE pages[n]
  BY <1>1, <1>2, <1>4, <1>5
<1>7. /\ request' \in [Handlers -> Requests]
      /\ request'[h] = x
      /\ \A k \in Handlers : k # h => request'[k] = request[k]
  BY <1>3 DEF OverlayInv, OverlayTypeOK
<1>8. OverlayTypeOK'
  BY <1>1, <1>6, <1>7 DEF OverlayInv, OverlayTypeOK
<1>9. \A k \in Handlers : Completing(request'[k]) => k # h /\ Completing(request[k])
         /\ request'[k] = request[k]
  BY <1>3, <1>7 DEF Completing
<1>10. PageIsTheirs'
  <2>1. ASSUME NEW k \in Handlers, Completing(request'[k])
        PROVE  /\ request'[k].page \in PageNumbers
               /\ request'[k].page <= drawn'
               /\ presented'[request'[k].page] = 0
               /\ pages'[request'[k].page] = NoPage
    <3>1. /\ request[k].page \in PageNumbers
          /\ request[k].page <= drawn
          /\ presented[request[k].page] = 0
          /\ pages[request[k].page] = NoPage
          /\ request'[k] = request[k]
      BY <1>9, <2>1 DEF OverlayInv, PageIsTheirs
    <3>2. request[k].page # new
      BY <3>1 DEF OverlayInv, OverlayTypeOK
    <3>3. pages'[request[k].page] = NoPage
      <4> DEFINE q == request[k].page
      <4>1. q \in PageNumbers /\ q # new /\ pages[q] = NoPage
        BY <3>1, <3>2
      <4> HIDE DEF q, new
      <4>2. pages'[q] = IF pages[q].id = request[h].id THEN NoPage ELSE pages[q]
        BY <1>6, <4>1
      <4>3. pages'[q] = NoPage
        BY <4>1, <4>2
      <4> QED BY <4>3 DEF q
    <3>4. request[k].page <= drawn'
      <4>1. drawn \in Nat /\ request[k].page \in Nat
        BY <3>1 DEF OverlayInv, OverlayTypeOK, PageNumbers
      <4> QED BY <1>1, <3>1, <4>1
    <3> QED BY <1>1, <3>1, <3>3, <3>4
  <2> QED BY <1>9, <2>1 DEF OverlayInv, PageIsTheirs
<1>11. OpenUnspent'
  <2>1. ASSUME NEW n \in PageNumbers, pages'[n] # NoPage
        PROVE  n <= drawn' /\ presented'[n] = 0 /\ pages'[n].id \in MemberIds
    BY <1>1, <1>2, <1>6, <2>1 DEF OverlayInv, OverlayTypeOK, OpenUnspent
  <2>2. ASSUME NEW n \in PageNumbers, n > drawn' PROVE presented'[n] = 0
    BY <1>1, <2>2 DEF OverlayInv, OverlayTypeOK, OpenUnspent
  <2> QED BY <2>1, <2>2 DEF OpenUnspent
<1>12. DrawsForMember'
  BY <1>3, <1>7 DEF OverlayInv, DrawsForMember
<1>13. CodeSpentOnce'
  <2>1. ASSUME NEW m \in PageNumbers, NEW n \in PageNumbers, pages'[m] # NoPage,
               pages'[m].id = pages'[n].id
        PROVE  m = n
    <3>1. pages'[m].id # NoOne
      BY <1>11, <2>1 DEF OpenUnspent
    <3>2. pages'[n] # NoPage
      BY <2>1, <3>1 DEF NoPage
    <3> QED
      BY <1>2, <1>6, <2>1, <3>2 DEF OverlayInv, CodeSpentOnce
  <2> QED BY <1>1, <2>1 DEF OverlayInv, CodeSpentOnce
<1> QED BY <1>8, <1>10, <1>11, <1>12, <1>13 DEF OverlayInv

\* The page taken is nobody's but the handler's that took it.
LEMMA TakeKeeps ==
    ASSUME OverlayInv, NEW h \in Handlers, NEW n \in PageNumbers, TakePage(h, n)
    PROVE  OverlayInv'
<1> USE OverlayFacts
<1> DEFINE s == IF pages[n].joining THEN "banking" ELSE "exchanging"
           x == [AtRest EXCEPT !.id = pages[n].id, !.page = n, !.joining = pages[n].joining,
                               !.stage = s]
<1>1. /\ pages[n] # NoPage
      /\ n <= drawn /\ presented[n] = 0 /\ pages[n].id \in MemberIds
      /\ pages[n].joining \in BOOLEAN
      /\ ~Completing(request[h])
  BY DEF TakePage, OverlayInv, OverlayTypeOK, OpenUnspent, Pages, Completing
<1>2. x \in Requests /\ x.page = n /\ Completing(x) /\ x.stage # "drawing"
  <2>1. s \in Stages /\ s \in {"banking", "exchanging"}
    BY DEF Stages
  <2>2. n \in Nat
    OBVIOUS
  <2> HIDE DEF s
  <2>3. x \in Requests /\ x.page = n /\ x.stage = s
    <3> DEFINE r == AtRest
               y == [r EXCEPT !.id = pages[n].id, !.page = n, !.joining = pages[n].joining,
                              !.stage = s]
    <3>1. r \in Requests /\ x = y
      BY RestTypes
    <3> HIDE DEF r, x
    <3>2. y \in Requests /\ y.page = n /\ y.stage = s
      BY <1>1, <2>1, <2>2, <3>1 DEF Requests
    <3> QED BY <3>1, <3>2
  <2> QED BY <2>1, <2>3 DEF Completing
<1>3. request' = [request EXCEPT ![h] = x]
  BY DEF TakePage, CompletePage
<1> HIDE DEF x
<1>4. /\ request' \in [Handlers -> Requests]
      /\ request'[h] = x
      /\ \A k \in Handlers : k # h => request'[k] = request[k]
  BY <1>2, <1>3 DEF OverlayInv, OverlayTypeOK
<1>5. /\ pages' \in [PageNumbers -> Pages]
      /\ pages'[n] = NoPage
      /\ \A m \in PageNumbers : m # n => pages'[m] = pages[m]
      /\ UNCHANGED <<overlay, drawn, presented>>
  BY RestTypes DEF TakePage, OverlayInv, OverlayTypeOK
<1>6. OverlayTypeOK'
  BY <1>4, <1>5 DEF OverlayInv, OverlayTypeOK
<1>7. \A k \in Handlers : k # h /\ Completing(request[k]) => request[k].page # n
  BY <1>1 DEF OverlayInv, PageIsTheirs
<1>8. PageIsTheirs'
  <2>1. ASSUME NEW k \in Handlers, Completing(request'[k])
        PROVE  /\ request'[k].page \in PageNumbers
               /\ request'[k].page <= drawn'
               /\ presented'[request'[k].page] = 0
               /\ pages'[request'[k].page] = NoPage
    <3>1. CASE k = h
      BY <1>1, <1>2, <1>4, <1>5, <3>1
    <3>2. CASE k # h
      BY <1>4, <1>5, <1>7, <2>1, <3>2 DEF OverlayInv, PageIsTheirs
    <3> QED BY <3>1, <3>2
  <2>2. ASSUME NEW j \in Handlers, NEW k \in Handlers, Completing(request'[j]),
               Completing(request'[k]), request'[j].page = request'[k].page
        PROVE  j = k
    BY <1>2, <1>4, <1>7, <2>2 DEF OverlayInv, PageIsTheirs
  <2> QED BY <2>1, <2>2 DEF PageIsTheirs
<1>9. OpenUnspent' /\ CodeSpentOnce'
  BY <1>5 DEF OverlayInv, OpenUnspent, CodeSpentOnce, NoPage
<1>10. DrawsForMember'
  BY <1>2, <1>4 DEF OverlayInv, DrawsForMember
<1> QED BY <1>6, <1>8, <1>9, <1>10 DEF OverlayInv

\* The code of the handler's page, unspent until now, is spent, and the
\* handler is past it.
LEMMA PresentKeeps ==
    ASSUME OverlayInv, NEW h \in Handlers, NEW answer \in {"issued", "refused", "lost"},
           Present(h, answer)
    PROVE  OverlayInv'
<1> USE OverlayFacts
<1> DEFINE p == request[h].page
<1>1. /\ Completing(request[h])
      /\ p \in PageNumbers /\ p <= drawn /\ presented[p] = 0 /\ pages[p] = NoPage
      /\ \A k \in Handlers : k # h /\ Completing(request[k]) => request[k].page # p
  BY DEF Present, Completing, OverlayInv, PageIsTheirs
<1>2. PICK x \in Requests : /\ x.stage \in {"storing", "idle", "failing"}
                            /\ request' = [request EXCEPT ![h] = x]
  <2>1. CASE answer = "issued"
    <3>1. To(h, "storing")
      BY <2>1 DEF Present
    <3>2. /\ [Rested(h) EXCEPT !.stage = "storing"] \in Requests
          /\ [Rested(h) EXCEPT !.stage = "storing"].stage = "storing"
      BY RestedTypes, StagedTypes DEF OverlayInv, Stages
    <3> QED BY <3>1, <3>2 DEF To
  <2>2. CASE answer = "lost"
    <3>1. To(h, "failing")
      BY <2>2 DEF Present
    <3>2. /\ [Rested(h) EXCEPT !.stage = "failing"] \in Requests
          /\ [Rested(h) EXCEPT !.stage = "failing"].stage = "failing"
      BY RestedTypes, StagedTypes DEF OverlayInv, Stages
    <3> QED BY <3>1, <3>2 DEF To
  <2>3. CASE answer = "refused"
    <3>1. Answer(h, "refused")
      BY <2>3 DEF Present
    <3>2. /\ [Rested(h) EXCEPT !.stage = "idle", !.outcome = "refused"] \in Requests
          /\ [Rested(h) EXCEPT !.stage = "idle", !.outcome = "refused"].stage = "idle"
      BY RestedTypes, AnsweredTypes DEF OverlayInv, Outcomes
    <3> QED BY <3>1, <3>2 DEF Answer
  <2> QED BY <2>1, <2>2, <2>3
<1>3. /\ request' \in [Handlers -> Requests]
      /\ request'[h] = x
      /\ \A k \in Handlers : k # h => request'[k] = request[k]
  BY <1>2 DEF OverlayInv, OverlayTypeOK
<1>4. /\ presented' \in [PageNumbers -> Nat]
      /\ presented'[p] = 1
      /\ \A m \in PageNumbers : m # p => presented'[m] = presented[m]
      /\ UNCHANGED <<overlay, drawn, pages>>
  BY <1>1 DEF Present, OverlayInv, OverlayTypeOK
<1>5. OverlayTypeOK'
  BY <1>3, <1>4 DEF OverlayInv, OverlayTypeOK
<1>6. \A k \in Handlers : Completing(request'[k]) =>
         k # h /\ Completing(request[k]) /\ request'[k] = request[k]
  BY <1>2, <1>3 DEF Completing
<1>7. PageIsTheirs'
  <2>1. ASSUME NEW k \in Handlers, Completing(request'[k])
        PROVE  /\ request'[k].page \in PageNumbers
               /\ request'[k].page <= drawn'
               /\ presented'[request'[k].page] = 0
               /\ pages'[request'[k].page] = NoPage
    <3>1. k # h /\ Completing(request[k]) /\ request'[k] = request[k]
      BY <1>6, <2>1
    <3>2. /\ request[k].page \in PageNumbers
          /\ request[k].page <= drawn
          /\ presented[request[k].page] = 0
          /\ pages[request[k].page] = NoPage
      BY <3>1 DEF OverlayInv, PageIsTheirs
    <3> QED BY <1>1, <1>4, <3>1, <3>2
  <2> QED BY <1>6, <2>1 DEF OverlayInv, PageIsTheirs
<1>8. OpenUnspent'
  <2>1. ASSUME NEW m \in PageNumbers, m > drawn PROVE m # p
    BY <1>1, <2>1 DEF OverlayInv, OverlayTypeOK
  <2> QED BY <1>1, <1>4, <2>1 DEF OverlayInv, OpenUnspent
<1>9. CodeSpentOnce'
  <2>1. \A m \in PageNumbers : presented'[m] <= 1
    BY <1>4 DEF OverlayInv, OverlayTypeOK, CodeSpentOnce
  <2>2. \A m, n \in PageNumbers :
           pages[m] # NoPage /\ pages[m].id = pages[n].id => m = n
    BY DEF OverlayInv, CodeSpentOnce
  <2> QED BY <1>4, <2>1, <2>2 DEF CodeSpentOnce
<1>10. DrawsForMember'
  BY <1>2, <1>3 DEF OverlayInv, DrawsForMember
<1> QED BY <1>5, <1>7, <1>8, <1>9, <1>10 DEF OverlayInv

\* The stages and outcomes the actions name.
LEMMA StagesNamed ==
    /\ {"adding", "exchanging", "storing", "proving", "failing", "unbanking", "dropping"} \subseteq Stages
    /\ {"taken", "refused", "unchanged", "signed in", "unproved", "failed", "unwritable",
        "left banked", "donated", "retired"} \subseteq Outcomes
  BY DEF Stages, Outcomes

\* A step on the way to or past the exchange.
LEMMA SignInKeeps ==
    ASSUME OverlayInv, NEW h \in Handlers,
           Bank(h) \/ ForeignPaste(h) \/ StoreGrant(h) \/ ProveGrant(h) \/ FailSignIn(h)
    PROVE  OverlayInv'
<1>1. overlay' \in Seen /\ UNCHANGED <<pages, drawn, presented>>
  BY DEF Bank, ForeignPaste, StoreGrant, ProveGrant, FailSignIn, OverlayInv, OverlayTypeOK
<1>2. CASE Bank(h)
  <2>1. Completing(request[h])
    BY <1>2 DEF Bank, Completing
  <2>2. Answer(h, "taken") \/ To(h, "adding")
    BY <1>2 DEF Bank
  <2> QED BY <1>1, <2>1, <2>2, StagesNamed, AnswerQuiet, ToQuiet
<1>3. CASE ForeignPaste(h)
  <2>1. To(h, "failing")
    BY <1>3 DEF ForeignPaste
  <2> QED BY <1>1, <2>1, StagesNamed, ToQuiet
<1>4. CASE StoreGrant(h)
  <2>1. Answer(h, "unchanged") \/ To(h, "failing") \/ To(h, "proving")
    BY <1>4 DEF StoreGrant
  <2> QED BY <1>1, <2>1, StagesNamed, AnswerQuiet, ToQuiet
<1>5. CASE ProveGrant(h)
  <2>1. Answer(h, "signed in") \/ Answer(h, "unproved") \/ To(h, "failing")
    BY <1>5 DEF ProveGrant
  <2> QED BY <1>1, <2>1, StagesNamed, AnswerQuiet, ToQuiet
<1>6. CASE FailSignIn(h)
  <2>1. To(h, "unbanking") \/ Answer(h, "failed")
    BY <1>6 DEF FailSignIn
  <2> QED BY <1>1, <2>1, StagesNamed, AnswerQuiet, ToQuiet
<1> QED BY <1>2, <1>3, <1>4, <1>5, <1>6

\* Reading the overlay keeps the invariant.
LEMMA ReadKeeps ==
    ASSUME OverlayInv, NEW h \in Handlers, ReadOverlay(h)
    PROVE  OverlayInv'
<1> DEFINE x == [request[h] EXCEPT !.seen = overlay, !.read = TRUE]
<1>1. request[h] \in Requests /\ overlay \in Seen
  BY DEF OverlayInv, OverlayTypeOK
<1>2. ASSUME NEW r \in Requests, NEW s \in Seen
      PROVE  /\ [r EXCEPT !.seen = s, !.read = TRUE] \in Requests
             /\ [r EXCEPT !.seen = s, !.read = TRUE].stage = r.stage
             /\ [r EXCEPT !.seen = s, !.read = TRUE].page = r.page
  BY DEF Requests
<1>3. x \in Requests /\ x.stage = request[h].stage /\ x.page = request[h].page
  BY <1>1, <1>2
<1>4. request' = [request EXCEPT ![h] = x]
  BY DEF ReadOverlay, OverlayInv, OverlayTypeOK
<1>5. overlay' \in Seen /\ UNCHANGED <<pages, drawn, presented>>
  BY <1>1 DEF ReadOverlay
<1>6. (Completing(x) => Completing(request[h])) /\ x.stage # "drawing"
  BY <1>3 DEF Completing, ReadOverlay, OverlayStages
<1> HIDE DEF x
<1> QED BY <1>3, <1>4, <1>5, <1>6, QuietStep

\* Adding the row keeps the invariant.
LEMMA AddKeeps ==
    ASSUME OverlayInv, NEW h \in Handlers, AddRow(h)
    PROVE  OverlayInv'
<1>1. UNCHANGED <<pages, drawn, presented>> /\ Completing(request[h])
  BY DEF AddRow, Completing
<1>2. CASE Answer(h, "unwritable") /\ UNCHANGED overlay
  <2>1. overlay' \in Seen
    BY <1>2 DEF OverlayInv, OverlayTypeOK
  <2> QED BY <1>1, <1>2, <2>1, StagesNamed, AnswerQuiet
<1>3. CASE /\ WriteOverlay(h, request[h].page)
           /\ request' = [request EXCEPT ![h] = [Rested(h) EXCEPT !.stage = "exchanging",
                                                                  !.banked = TRUE]]
  <2> DEFINE x == [Rested(h) EXCEPT !.stage = "exchanging", !.banked = TRUE]
  <2>1. request[h].page \in Rows
    BY DEF OverlayInv, OverlayTypeOK, Requests, Rows
  <2>2. overlay' \in Seen
    BY <1>3, <2>1, WriteTypes DEF OverlayInv
  <2>3. x \in Requests /\ x.stage = "exchanging" /\ x.page = request[h].page
    <3> DEFINE r == Rested(h)
               y == [r EXCEPT !.stage = "exchanging", !.banked = TRUE]
    <3>1. r \in Requests /\ r.page = request[h].page /\ x = y /\ "exchanging" \in Stages
      BY RestedTypes, StagesNamed DEF OverlayInv
    <3> HIDE DEF r, x
    <3>2. y \in Requests /\ y.stage = "exchanging" /\ y.page = r.page
      BY <3>1 DEF Requests
    <3> QED BY <3>1, <3>2
  <2>4. x.stage # "drawing" /\ request' = [request EXCEPT ![h] = x]
    BY <1>3, <2>3
  <2> HIDE DEF x
  <2> QED BY <1>1, <2>2, <2>3, <2>4, QuietStep
<1> QED BY <1>2, <1>3 DEF AddRow

\* The other writes of the overlay and of the grants.
LEMMA RowsKeep ==
    ASSUME OverlayInv, NEW h \in Handlers,
           UnbankRow(h) \/ DonateRow(h) \/ RemoveRow(h) \/ DropGrant(h)
    PROVE  OverlayInv'
<1>1. UNCHANGED <<pages, drawn, presented>>
  BY DEF UnbankRow, DonateRow, RemoveRow, DropGrant
<1>2. UNCHANGED overlay \/ WriteOverlay(h, NoOne) \/ WriteOverlay(h, "donation")
  BY DEF UnbankRow, DonateRow, RemoveRow, DropGrant
<1>3. overlay' \in Seen
  <2>1. NoOne \in Rows /\ "donation" \in Rows
    BY DEF Rows
  <2> QED BY <1>2, <2>1, WriteTypes DEF OverlayInv, OverlayTypeOK
<1>4. \/ Answer(h, "failed") \/ Answer(h, "left banked") \/ Answer(h, "donated")
      \/ Answer(h, "unwritable") \/ Answer(h, "retired") \/ To(h, "dropping")
  BY DEF UnbankRow, DonateRow, RemoveRow, DropGrant
<1>5. CASE To(h, "dropping")
  BY <1>1, <1>3, <1>5, StagesNamed, ToQuiet
<1>6. CASE ~To(h, "dropping")
  BY <1>1, <1>3, <1>4, <1>6, StagesNamed, AnswerQuiet
<1> QED BY <1>5, <1>6

\* Every handler is at rest and no page is open: what is left to show is
\* that the codes spent stay spent once.
LEMMA RestartKeeps ==
    ASSUME OverlayInv, RestartGateway
    PROVE  OverlayInv'
<1>1. /\ request' = [h \in Handlers |-> AtRest]
      /\ pages' = [n \in PageNumbers |-> NoPage]
      /\ UNCHANGED <<overlay, drawn, presented>>
  BY DEF RestartGateway
<1>2. OverlayTypeOK'
  BY <1>1, RestTypes DEF OverlayInv, OverlayTypeOK
<1>3. \A h \in Handlers : request'[h].stage = "idle"
  BY <1>1, RestTypes
<1>4. PageIsTheirs' /\ DrawsForMember'
  BY <1>3 DEF PageIsTheirs, DrawsForMember, Completing
<1>5. OpenUnspent'
  BY <1>1 DEF OverlayInv, OpenUnspent
<1>6. CodeSpentOnce'
  BY <1>1 DEF OverlayInv, CodeSpentOnce
<1> QED BY <1>2, <1>4, <1>5, <1>6 DEF OverlayInv

\* A step that touches none of it keeps the invariant.
LEMMA UntouchedKeeps ==
    ASSUME OverlayInv, UNCHANGED <<overlay, pages, drawn, presented, request>>
    PROVE  OverlayInv'
  BY DEF OverlayInv, OverlayTypeOK, PageIsTheirs, OpenUnspent, DrawsForMember, CodeSpentOnce

\* The invariant holds at the start.
LEMMA OverlayStarts == OverlayInit => OverlayInv
<1> SUFFICES ASSUME OverlayInit PROVE OverlayInv
  OBVIOUS
<1>1. overlay \in Seen
  BY DEF OverlayInit, Seen, Rows
<1>2. OverlayTypeOK
  BY <1>1, RestTypes, OverlayFacts DEF OverlayInit, OverlayTypeOK
<1>3. \A h \in Handlers : request[h].stage = "idle"
  BY RestTypes DEF OverlayInit
<1>4. PageIsTheirs /\ DrawsForMember
  BY <1>3 DEF PageIsTheirs, DrawsForMember, Completing
<1>5. OpenUnspent /\ CodeSpentOnce
  BY DEF OverlayInit, OpenUnspent, CodeSpentOnce
<1> QED BY <1>2, <1>4, <1>5 DEF OverlayInv

\* Every step keeps the invariant.
LEMMA OverlayStep == OverlayInv /\ [OverlayNext]_overlayVars => OverlayInv'
<1> SUFFICES ASSUME OverlayInv, [OverlayNext]_overlayVars PROVE OverlayInv'
  OBVIOUS
<1>1. CASE \E h \in Handlers, id \in MemberIds, joining \in BOOLEAN :
              BeginHandSignIn(h, id, joining)
  BY <1>1, BeginKeeps
<1>2. CASE \E h \in Handlers, n \in PageNumbers : TakePage(h, n)
  BY <1>2, TakeKeeps
<1>3. CASE \E h \in Handlers, id \in MemberIds : Donate(h, id) \/ RetireMember(h, id)
  BY <1>3, StartsKeep
<1>4. CASE \E h \in Handlers, answer \in {"issued", "refused", "lost"} : Present(h, answer)
  BY <1>4, PresentKeeps
<1>5. CASE \E h \in Handlers : DrawPage(h)
  BY <1>5, DrawKeeps
<1>6. CASE \E h \in Handlers :
              Bank(h) \/ ForeignPaste(h) \/ StoreGrant(h) \/ ProveGrant(h) \/ FailSignIn(h)
  BY <1>6, SignInKeeps
<1>7. CASE \E h \in Handlers : ReadOverlay(h) \/ AddRow(h)
  BY <1>7, ReadKeeps, AddKeeps
<1>8. CASE \E h \in Handlers : UnbankRow(h) \/ DonateRow(h) \/ RemoveRow(h) \/ DropGrant(h)
  BY <1>8, RowsKeep
<1>9. CASE (\E id \in MemberIds : ReinstateMember(id)) \/ UNCHANGED overlayVars
  BY <1>9, UntouchedKeeps DEF ReinstateMember, overlayVars
<1>10. CASE RestartGateway
  BY <1>10, RestartKeeps
<1> QED BY <1>1, <1>2, <1>3, <1>4, <1>5, <1>6, <1>7, <1>8, <1>9, <1>10 DEF OverlayNext

\* complete_admin_manual_sign_in: whatever completions race, and whatever is
\* begun again or restarted, a page's code is presented at most once and an
\* account has at most one page open.
THEOREM SpentOnce == OverlaySpec => []CodeSpentOnce
<1>1. OverlayInv => CodeSpentOnce
  BY DEF OverlayInv
<1> QED BY <1>1, OverlayStarts, OverlayStep, PTL DEF OverlaySpec

=============================================================================
