---------------------------- MODULE PoolVerdict -----------------------------
(***************************************************************************)
(* The class of the one refusal a walk is answered with.  Sentences are    *)
(* left out: the rotation, the HTTP edge and the clients decide from the   *)
(* class alone.                                                            *)
(***************************************************************************)
EXTENDS LedgerRow

\* What a provider's answer to one call is read as; "other" refuses this
\* request in particular.
ProviderAnswers ==
    {"ok", "authentication", "rate_limited", "quota_exhausted", "other"}

\* The refusals the gateway makes on its own account.
GatewayRefusals ==
    {"unavailable", "unauthorized", "reauthorize", "dependency", "invalid",
     "unauthenticated"}

Classes == ProviderAnswers \cup GatewayRefusals

\* refused_credential
RefusedCredential(answer) == answer = "authentication"

\* exhausted_credential
ExhaustedCredential(answer) == answer \in {"rate_limited", "quota_exhausted"}

\* What one walk of a pool saw (PoolObservations).
Observations ==
    {"auth_rejection", "reauthorization_block", "unredeemable_credential",
     "rate_limit_block", "quota_exhausted_block"}

NeedsAuthorization(saw) ==
    saw \cap {"auth_rejection", "reauthorization_block", "unredeemable_credential"} # {}

\* A failure below the walk is an outage a wait repairs or a broken chain of
\* authorization.
Faults == {"outage", "broken"}

CredentialRefusalClass(fault) ==
    IF fault = "outage" THEN "dependency" ELSE "unauthorized"

PoolEmptyClass(saw) ==
    IF saw \cap {"auth_rejection", "reauthorization_block"} # {} THEN "reauthorize"
    ELSE IF "unredeemable_credential" \in saw THEN "unauthorized"
    ELSE "unavailable"

\* emptied_pool_refusal, given the newest failure below the walk and the
\* last rate or quota refusal a provider gave in it.
EmptiedClass(saw, fault, limit) ==
    IF limit # None THEN limit
    ELSE IF "rate_limit_block" \in saw THEN "unavailable"
    ELSE IF /\ "quota_exhausted_block" \in saw
            /\ fault = None
            /\ ~NeedsAuthorization(saw) THEN "quota_exhausted"
    ELSE IF fault # None THEN CredentialRefusalClass(fault)
    ELSE PoolEmptyClass(saw)

\* walked_class, of the classes a selector's candidates were refused with.
WalkedClass(classes) ==
    IF "quota_exhausted" \in classes THEN "quota_exhausted"
    ELSE IF "rate_limited" \in classes THEN "rate_limited"
    ELSE IF "unavailable" \in classes \/ classes \cap {"unauthorized", "reauthorize"} = {}
      THEN "unavailable"
    ELSE IF "unauthorized" \in classes THEN "unauthorized"
    ELSE "reauthorize"

=============================================================================
