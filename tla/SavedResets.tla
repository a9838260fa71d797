---------------------------- MODULE SavedResets -----------------------------
(***************************************************************************)
(* Redeeming a saved reset of a member's plan: the maintenance pass, an    *)
(* acquisition that uses saved capacity first, and an operator's command,  *)
(* in processes that share the journal and one lock file per member.       *)
(*                                                                         *)
(* A redemption is journaled before it is sent and when its answer is      *)
(* known.  The provider applies what it was sent, at once, late or never,  *)
(* and the account's holder may spend a credit outside Brama.              *)
(***************************************************************************)
EXTENDS Integers, FiniteSets

CONSTANTS
    Redeemers,   \* processes that redeem
    Subscribers, \* the members of the pool
    CreditIds,   \* the credits a provider's report names
    Expiring,    \* the ones whose expiry is within the salvage horizon
    Keeps,       \* what an operator's policy may keep back (keep_credits)
    MaxSends,    \* bound of the redemptions sent for a member
    MaxOutside,  \* bound of the credits spent outside Brama
    Free         \* nobody holds the lock; no policy is stated

ASSUME ResetAssumption ==
    /\ Expiring \subseteq CreditIds
    /\ Keeps \subseteq Nat
    /\ MaxSends \in Nat
    /\ MaxOutside \in Nat
    /\ Free \notin Redeemers \cup Keeps

\* Codex lists single credits, Claude's cedar grants of several uses, its
\* juniper one use whose consumption no report shows.
ResetProtocols == {"codex", "cedar", "juniper"}

VARIABLES
    protocol,    \* how each member's provider reports and redeems
    stock,       \* the uses left of each credit, at the provider
    stated,      \* the operator's saved-reset policy, or Free
    redemption,  \* the newest reset record the journal holds of each member
    resetLock,   \* who holds each member's lock file
    redeemer,    \* what each process is doing
    sent,        \* redemptions the provider was sent and has not settled
    sends,       \* how many redemptions were sent for each member
    outside,     \* credits the holder spent himself
    limited      \* how long each member's plan stays at its limit

resetVars == <<protocol, stock, stated, redemption, resetLock, redeemer, sent, sends,
               outside, limited>>

NoRedemption == [state |-> "none", credit |-> Free, before |-> 0]

Resting == [phase |-> "idle", member |-> Free, automatic |-> FALSE, offer |-> {},
            credit |-> Free, sending |-> 0]

\* Bug: an unconfirmed redemption counts as ended.
UnresolvedRequestedOnly(record) == record.state = "requested"

\* ResetState::unresolved
UnresolvedReset(record) == record.state \in {"requested", "unconfirmed"}

-----------------------------------------------------------------------------
(***************************************************************************)
(* The report of a member's saved resets, as its provider's protocol has   *)
(* it: a set of credits.                                                   *)
(***************************************************************************)
Credit(id, left, observable, usable, needsLimit) ==
    [id |-> id, left |-> left, observable |-> observable, usable |-> usable,
     needsLimit |-> needsLimit]

\* codex::parse: one use until the credit is redeemed.
CodexOffer(uses) ==
    {Credit(c, uses[c], TRUE, uses[c] > 0, FALSE) : c \in CreditIds}

\* claude::cedar: a grant is usable while it is the next one, and only at a
\* limit.
CedarOffer(uses, next) ==
    {Credit(c, uses[c], TRUE, uses[c] > 0 /\ c = next, TRUE) : c \in CreditIds}

\* claude::juniper: one use, available or not.
JuniperOffer(uses, only) ==
    {Credit(only, uses[only], FALSE, uses[only] > 0, TRUE)}

\* adapter::plan::resets::read: what the member's report may say now.
Offers(m) ==
    CASE protocol[m] = "codex" -> {CodexOffer(stock[m])}
      [] protocol[m] = "cedar" -> {CedarOffer(stock[m], next) : next \in CreditIds}
      [] OTHER -> {JuniperOffer(stock[m], only) : only \in CreditIds \ Expiring}

\* blocked_until: the plan's exhausted windows and how long they last.
LimitStands(m) == limited[m] # "no"

\* ResetOffer::available_count
Available(offer) == Cardinality({c \in offer : c.left > 0})

\* choose: a usable credit, one that expires before one that does not; for an
\* automatic run only an expiring one, or one beyond those the operator keeps
\* when the member stays blocked long enough.
Choose(m, offer, automatic) ==
    LET credits == {c \in offer : c.usable /\ (c.needsLimit => LimitStands(m))}
        first == {c \in credits : c.id \in Expiring \/ \A d \in credits : d.id \notin Expiring}
    IN  IF ~automatic THEN first
        ELSE {c \in first : \/ c.id \in Expiring
                            \/ /\ stated # Free /\ Available(offer) > stated
                               /\ limited[m] = "long"}

-----------------------------------------------------------------------------
SavedResetsInit ==
    /\ protocol \in [Subscribers -> ResetProtocols]
    /\ stock = [m \in Subscribers |-> [c \in CreditIds |-> 1]]
    /\ stated = Free
    /\ redemption = [m \in Subscribers |-> NoRedemption]
    /\ resetLock = [m \in Subscribers |-> Free]
    /\ redeemer = [p \in Redeemers |-> Resting]
    /\ sent = [m \in Subscribers |-> {}]
    /\ sends = [m \in Subscribers |-> 0]
    /\ outside = [m \in Subscribers |-> 0]
    /\ limited = [m \in Subscribers |-> "long"]

\* settings::set and clear, under the policy file's own lock.
SetPolicy ==
    /\ stated' \in Keeps
    /\ UNCHANGED <<protocol, stock, redemption, resetLock, redeemer, sent, sends, outside, limited>>

ClearPolicy ==
    /\ stated # Free
    /\ stated' = Free
    /\ UNCHANGED <<protocol, stock, redemption, resetLock, redeemer, sent, sends, outside, limited>>

\* run: the lock file is tried and the member found in the vault; what the run
\* reads next it reads under the lock.  Maintenance asks automatically, for
\* the providers the operator stated a policy for.
LockMember(p, m, automatic) ==
    /\ redeemer[p].phase = "idle"
    /\ automatic => stated # Free
    /\ resetLock[m] = Free
    /\ resetLock' = [resetLock EXCEPT ![m] = p]
    /\ redeemer' = [redeemer EXCEPT ![p] = [Resting EXCEPT !.phase = "locked", !.member = m,
                                                            !.automatic = automatic]]
    /\ UNCHANGED <<protocol, stock, stated, redemption, sent, sends, outside, limited>>

\* The call returns or its process stops: the lock file is let go.
EndRedemption(p) ==
    /\ resetLock' = [resetLock EXCEPT ![redeemer[p].member] = Free]
    /\ redeemer' = [redeemer EXCEPT ![p] = Resting]

\* refresh: the report is read afresh, with the member's own grant.
ReadOffer(p) ==
    /\ redeemer[p].phase = "locked"
    /\ \E offer \in Offers(redeemer[p].member) :
         redeemer' = [redeemer EXCEPT ![p].phase = "offered", ![p].offer = offer]
    /\ UNCHANGED <<protocol, stock, stated, redemption, resetLock, sent, sends, outside, limited>>

\* A retired member, a borrowed grant, a report that cannot be read, windows
\* too old to decide on, a policy that cannot be read: nothing is journaled.
RefuseOffer(p) ==
    /\ redeemer[p].phase \in {"locked", "offered"}
    /\ EndRedemption(p)
    /\ UNCHANGED <<protocol, stock, stated, redemption, sent, sends, outside, limited>>

\* An unresolved redemption is reconciled by a report that shows its credit
\* used, and otherwise refuses every other one.
Reconcile(p) ==
    LET m == redeemer[p].member
        consumed == \E c \in redeemer[p].offer : /\ c.id = redemption[m].credit
                                                 /\ c.observable
                                                 /\ c.left < redemption[m].before
    IN  /\ redeemer[p].phase = "offered"
        /\ UnresolvedReset(redemption[m])
        /\ IF consumed
             THEN redemption' = [redemption EXCEPT ![m].state = "consumption_observed"]
             ELSE UNCHANGED redemption
        /\ EndRedemption(p)
        /\ UNCHANGED <<protocol, stock, stated, sent, sends, outside, limited>>

\* The credit is chosen and its request prepared: journaled as requested
\* before it is sent, or as refused when it cannot be prepared.  A ledger that
\* cannot be written ends the call with the request journaled and not sent.
ChooseCredit(p) ==
    LET m == redeemer[p].member IN
    /\ redeemer[p].phase = "offered"
    /\ ~UnresolvedReset(redemption[m])
    /\ \E c \in Choose(m, redeemer[p].offer, redeemer[p].automatic),
         state \in {"requested", "refused"}, written \in BOOLEAN :
         /\ redemption' = [redemption EXCEPT ![m] =
              [state |-> state, credit |-> c.id, before |-> c.left]]
         /\ IF state = "requested" /\ written
              THEN /\ redeemer' = [redeemer EXCEPT ![p].phase = "journaled", ![p].credit = c.id]
                   /\ UNCHANGED resetLock
              ELSE EndRedemption(p)
    /\ UNCHANGED <<protocol, stock, stated, sent, sends, outside, limited>>

\* PreparedRedemption::exchange
SendRedemption(p) ==
    LET m == redeemer[p].member IN
    /\ redeemer[p].phase = "journaled"
    /\ sends[m] < MaxSends
    /\ sends' = [sends EXCEPT ![m] = @ + 1]
    /\ sent' = [sent EXCEPT ![m] = @ \cup {[n |-> sends[m] + 1, credit |-> redeemer[p].credit]}]
    /\ redeemer' = [redeemer EXCEPT ![p].phase = "sent", ![p].sending = sends[m] + 1]
    /\ UNCHANGED <<protocol, stock, stated, redemption, resetLock, outside, limited>>

\* The provider applies what it was sent while a use is left.
ProviderApplies(m) ==
    \E r \in sent[m] :
       /\ stock[m][r.credit] > 0
       /\ sent' = [sent EXCEPT ![m] = @ \ {r}]
       /\ stock' = [stock EXCEPT ![m][r.credit] = @ - 1]
       /\ limited' = [limited EXCEPT ![m] = "no"]
       /\ UNCHANGED <<protocol, stated, redemption, resetLock, redeemer, sends, outside>>

\* The answer: applied; stated by Codex as not applied; anything else, or no
\* answer at all, is unconfirmed.  Its record may not be written.
RedemptionAnswered(p) ==
    LET m == redeemer[p].member
        mine == {r \in sent[m] : r.n = redeemer[p].sending}
        Outcome(state) == redemption' = [redemption EXCEPT ![m].state = state]
    IN
    /\ redeemer[p].phase = "sent"
    /\ \/ mine = {} /\ Outcome("redeemed") /\ UNCHANGED sent
       \/ /\ mine # {} /\ protocol[m] = "codex"
          /\ Outcome("refused")
          /\ sent' = [sent EXCEPT ![m] = @ \ mine]
       \/ Outcome("unconfirmed") /\ UNCHANGED sent
       \/ UNCHANGED <<redemption, sent>>
    /\ EndRedemption(p)
    /\ UNCHANGED <<protocol, stock, stated, sends, outside, limited>>

RedeemerStops(p) ==
    /\ redeemer[p].phase \notin {"idle", "locked", "offered"}
    /\ EndRedemption(p)
    /\ UNCHANGED <<protocol, stock, stated, redemption, sent, sends, outside, limited>>

HolderSpends(m) ==
    /\ outside[m] < MaxOutside
    /\ outside' = [outside EXCEPT ![m] = @ + 1]
    /\ \E c \in CreditIds : /\ stock[m][c] > 0
                            /\ stock' = [stock EXCEPT ![m][c] = @ - 1]
    /\ UNCHANGED <<protocol, stated, redemption, resetLock, redeemer, sent, sends, limited>>

PlanLimited(m) ==
    /\ \E l \in {"no", "soon", "long"} \ {limited[m]} : limited' = [limited EXCEPT ![m] = l]
    /\ UNCHANGED <<protocol, stock, stated, redemption, resetLock, redeemer, sent, sends, outside>>

SavedResetsNext ==
    \/ \E p \in Redeemers :
         \/ \E m \in Subscribers, automatic \in BOOLEAN : LockMember(p, m, automatic)
         \/ ReadOffer(p) \/ RefuseOffer(p) \/ Reconcile(p) \/ ChooseCredit(p)
         \/ SendRedemption(p) \/ RedemptionAnswered(p) \/ RedeemerStops(p)
    \/ \E m \in Subscribers : ProviderApplies(m) \/ HolderSpends(m) \/ PlanLimited(m)
    \/ SetPolicy
    \/ ClearPolicy

SavedResetsSpec == SavedResetsInit /\ [][SavedResetsNext]_resetVars

-----------------------------------------------------------------------------
\* A redemption whose fate is unknown is not followed by another: unless the
\* holder spends credits himself, which a report cannot tell from Brama's own
\* redemption, the provider never holds two unsettled ones of a member,
\* whatever stopped, answered late or could not be journaled.
OneRedemptionAtATime ==
    \A m \in Subscribers : outside[m] = 0 => \A r, k \in sent[m] : r = k

=============================================================================
