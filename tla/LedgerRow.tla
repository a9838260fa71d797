----------------------------- MODULE LedgerRow ------------------------------
(***************************************************************************)
(* One subscription's row of the usage ledger and what each record_*       *)
(* function makes of it.  A row that was never written is None.            *)
(*                                                                         *)
(* Kept of a row: how many calls were measured, where the grant stands     *)
(* (the credential), until when it may not be spent and for what (the      *)
(* block), and the newest verdicts of the two checks.  Token totals, plan  *)
(* windows and what discovery, sign-in checks and resets note beside them  *)
(* decide nothing here and are left out.                                   *)
(***************************************************************************)
EXTENDS Integers

CONSTANTS
    Causes,      \* sentences a refusal or a retirement is recorded with
    BlockTime,   \* REAUTHORIZATION_BLOCK_MS: the half hour of a refused grant
    None         \* Option::None

CredentialState == {"active", "needs_reauthorization", "disabled"}

Credentials == [state : CredentialState, cause : Causes \cup {None},
                at : Int, expires : Int \cup {None}]

Credential(s, c, t, e) == [state |-> s, cause |-> c, at |-> t, expires |-> e]

Blocks == [until : Int, why : {"rate_limited", "quota_exhausted", "unauthorized"}]

BlockUntil(t, w) == [until |-> t, why |-> w]

Verdicts == {"ok", "failed"}

\* A completion's verdict; in files from before usage_check existed the
\* verdict of a usage report may stand in its place.
Probes == {"completion", "usage_report"} \X Verdicts

Rows == [calls : Nat, credential : Credentials \cup {None},
         block : Blocks \cup {None}, check : Verdicts \cup {None},
         probe : Probes \cup {None}]

\* None is no instant, no sentence, no state, no verdict and no row.
ASSUME RowAssumption ==
    /\ BlockTime \in Nat
    /\ None \notin Int \cup Causes \cup CredentialState \cup Verdicts
    /\ None \notin Rows

Default == [calls |-> 0, credential |-> None, block |-> None, check |-> None,
            probe |-> None]

\* entry(id).or_default()
Entry(r) == IF r = None THEN Default ELSE r

WithCredential(r, c) == [Entry(r) EXCEPT !.credential = c]

WithBlock(r, b) == [Entry(r) EXCEPT !.block = b]

StateOf(r) == IF Entry(r).credential = None THEN None ELSE Entry(r).credential.state

ExpiryOf(r) == IF Entry(r).credential = None THEN None ELSE Entry(r).credential.expires

Disowned(r) == StateOf(r) = "needs_reauthorization"

-----------------------------------------------------------------------------
(***************************************************************************)
(* What a provider call writes.                                            *)
(***************************************************************************)
Counted(r) == [Entry(r) EXCEPT !.calls = @ + 1]

\* An answer is proof that the grant is accepted: it clears any block and a
\* recorded refusal, not a retirement.
Answered(r, now) ==
    IF Disowned(r)
      THEN WithCredential(WithBlock(r, None), Credential("active", None, now, ExpiryOf(r)))
      ELSE WithBlock(r, None)

\* record_call_from
Called(r, ok, now) == IF ok THEN Answered(Counted(r), now) ELSE Counted(r)

\* record_block, given the reset the provider named: none named in the
\* future records no block.
Blocked(r, until, why, now) ==
    IF until > now THEN WithBlock(r, BlockUntil(until, why)) ELSE r

\* record_reported_block: the instant a harness was given, as it reported it.
Reported(r, until) == WithBlock(r, BlockUntil(until, "rate_limited"))

\* record_reset_unblocked
ResetUnblocked(r) ==
    IF r # None /\ Entry(r).block # None /\ Entry(r).block.why # "quota_exhausted"
      THEN WithBlock(r, None) ELSE r

-----------------------------------------------------------------------------
(***************************************************************************)
(* Where the grant stands.                                                 *)
(***************************************************************************)
\* The block a recorded refusal left is dropped with the refusal.
Unrefused(r) == IF Disowned(r) THEN WithBlock(r, None) ELSE Entry(r)

Unchanged(r, expires, refreshed) ==
    /\ ~refreshed
    /\ StateOf(r) = "active"
    /\ Entry(r).credential.cause = None
    /\ Entry(r).credential.expires = expires

\* record_credential_active: a grant read or replaced in working order.
Active(r, expires, refreshed, now) ==
    IF Unchanged(r, expires, refreshed) THEN r
    ELSE WithCredential(Unrefused(r), Credential("active", None, now, expires))

\* record_credential_signed_in
SignedIn(r, now) == WithCredential(Unrefused(r), Credential("active", None, now, None))

\* record_credential_disabled
Disabled(r, cause, now) ==
    WithCredential(r, Credential("disabled", cause, now, ExpiryOf(r)))

\* record_credential_reinstated
Reinstated(r, cause, now) ==
    WithCredential(r, Credential("needs_reauthorization", cause, now, ExpiryOf(r)))

\* refusal_recorded_at_ms: an identical refusal keeps the instant it got.
Established(r, cause, now) ==
    IF Disowned(r) /\ Entry(r).credential.cause = cause
      THEN Entry(r).credential.at ELSE now

\* record_reauthorization_needed
Refused(r, cause, now) ==
    WithBlock(WithCredential(r, Credential("needs_reauthorization", cause,
                                           Established(r, cause, now), ExpiryOf(r))),
              BlockUntil(now + BlockTime, "unauthorized"))

\* record_discovered_account, for an account nothing holds a grant of.
Discovered(r, cause, now) ==
    IF Entry(r).credential = None
      THEN WithCredential(r, Credential("needs_reauthorization", cause, now, None))
      ELSE Entry(r)

-----------------------------------------------------------------------------
(***************************************************************************)
(* The two checks, and what readers make of a row.                         *)
(***************************************************************************)
\* record_probe
Probed(r, verdict) == [Entry(r) EXCEPT !.probe = <<"completion", verdict>>]

\* record_plan_usage, _unpublished and _failure
UsageChecked(r, verdict) == [Entry(r) EXCEPT !.check = verdict]

\* Loading brings a usage verdict kept in the probe's place forward.
Migrated(r) ==
    IF r = None THEN r
    ELSE IF r.check = None /\ r.probe # None /\ r.probe[1] = "usage_report"
           THEN [r EXCEPT !.check = r.probe[2]] ELSE r

\* plan_usage_check
PlanUsageCheck(r) == Entry(Migrated(r)).check

\* is_blocked
IsBlocked(r, now) == Entry(r).block # None /\ Entry(r).block.until > now

\* awaiting_sign_in_cause
AwaitingSignIn(r) == StateOf(r) \in {"needs_reauthorization", "disabled"}

\* standing_refusal
StandingRefusal(r, now) ==
    CASE AwaitingSignIn(r) -> "reauthorization_required"
      [] ~AwaitingSignIn(r) /\ ~IsBlocked(r, now) -> None
      [] OTHER -> IF Entry(r).block.why = "quota_exhausted"
                    THEN "quota_exhausted" ELSE "rate_limited"

\* credential_refresh_hint
RefreshHint(r, now) ==
    CASE AwaitingSignIn(r) -> "awaiting_sign_in"
      [] ~AwaitingSignIn(r) /\ ExpiryOf(r) # None /\ ExpiryOf(r) > now -> "not_due"
      [] OTHER -> "read"

=============================================================================
