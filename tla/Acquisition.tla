---------------------------- MODULE Acquisition -----------------------------
(***************************************************************************)
(* Buying an account when the pool cannot serve.                           *)
(*                                                                         *)
(* The gateway decides it on its own (a maintenance pass, a lease nobody   *)
(* can be given) and an operator asks for it, in the gateway or through    *)
(* the command line, a process of its own.  A process makes one            *)
(* acquisition at a time; the processes share the vault, the journal and   *)
(* Weles, which goes on with a purchase whether or not anybody hears of    *)
(* it.  A purchase is journaled before it is asked for and when it ends.   *)
(***************************************************************************)
EXTENDS Integers, FiniteSets

CONSTANTS
    Slots,      \* members that are or may come to be in the pool
    Founders,   \* the members the pool starts with
    AccountOf,  \* the account each member declares; several may declare one
    Readings,   \* what may be known of a member's plan
    Cap,        \* the operator's account cap
    MaxAsks,    \* bound of the purchases asked for
    MaxRuns,    \* bound of the acquisitions an operator starts
    Nobody      \* no record yet

ASSUME AcquisitionAssumption ==
    /\ Founders \subseteq Slots /\ IsFiniteSet({AccountOf[m] : m \in Founders})
    /\ DOMAIN AccountOf = Slots
    /\ Readings \subseteq [blocked : BOOLEAN, awaiting : BOOLEAN, relayed : BOOLEAN,
                           answers : BOOLEAN, windows : SUBSET {"used", "open", "passed"},
                           tier : {"stated", "other", "unstated"}]
    /\ Cap \in Nat
    /\ MaxAsks \in Nat
    /\ MaxRuns \in Nat

Buyers == {"gateway", "cli"}

Triggers == {"operator", "maintenance", "sessions_full", "no_usable_member"}

\* What the journal keeps of an acquisition.
AcquisitionRecords == [ask : Nat, result : {"requested", "acquired", "failed"}, by : Triggers]

ASSUME NobodyAssumption == Nobody \notin AcquisitionRecords

VARIABLES
    pool,      \* the members the vault lists for the provider, unretired
    reading,   \* what the ledger and a fresh report hold of each member
    full,      \* every usable subscription carries its limit of sessions
    newest,    \* the newest acquisition record of the journal
    buyer,     \* the acquisition each process is making
    weles,     \* the purchases Weles is making
    asks,      \* how many purchases were asked for
    opRuns,    \* how many acquisitions operators started
    loose      \* history: automatic purchases asked for since an operator's
               \* record, that did not end acquired

acquisitionVars == <<pool, reading, full, newest, buyer, weles, asks, opRuns, loose>>

NotBuying == [phase |-> "idle", trigger |-> "operator", ask |-> 0]

-----------------------------------------------------------------------------
(***************************************************************************)
(* decide.                                                                 *)
(***************************************************************************)
\* Bug: only a recorded failure stops the automatic triggers.
UnresolvedFailedOnly(record) == record # Nobody /\ record.result = "failed"

\* unresolved_attempt: the newest record failed or was never answered.
UnresolvedAttempt(record) == record # Nobody /\ record.result \in {"failed", "requested"}

\* pool_state::accounts: members that declare one account are one account.
AccountsIn(members) == {AccountOf[m] : m \in members}

\* Bug: the account that fills the cap is followed by one more.
CountPastCap(members) == Cardinality(AccountsIn(members)) > Cap

CapReached(members) == Cardinality(AccountsIn(members)) >= Cap

\* from_windows: a window past its reset says nothing, one at its limit
\* spends the plan, and a report that names none cannot be read.
FromWindows(windows) ==
    CASE windows = {} -> "unread"
      [] "used" \in windows -> "spent"
      [] OTHER -> "available"

\* pool_state::standing: a recorded block first; a member awaiting its sign-in
\* is judged by what a harness relayed; otherwise the report is read afresh.
Standing(m) ==
    LET r == reading[m] IN
    CASE r.blocked -> "spent"
      [] ~r.blocked /\ r.awaiting -> IF r.relayed THEN FromWindows(r.windows) ELSE "unread"
      [] OTHER -> IF r.answers THEN FromWindows(r.windows) ELSE "unread"

\* pool_tier: the one plan tier the members' grants state.
PoolTier(members) == {reading[m].tier : m \in members} \ {"unstated"}

\* The shortage the standings and the leases show, or none: a lease refused
\* for full subscriptions asks the leases, everything else the plans.
ShortageOf(trigger) ==
    IF trigger = "sessions_full" THEN (IF full THEN "sessions_full" ELSE "none")
    ELSE IF \E m \in pool : Standing(m) = "available" THEN "none"
    ELSE IF pool # {} /\ \A m \in pool : Standing(m) = "spent" THEN "spent"
    ELSE "unusable"

\* Everything decide reads.  A read that fails and saved capacity that is not
\* confirmed refuse besides.
Decides(trigger) ==
    /\ trigger # "operator" => ~UnresolvedAttempt(newest)
    /\ ~CapReached(pool)
    /\ ShortageOf(trigger) # "none"
    /\ Cardinality(PoolTier(pool)) = 1

-----------------------------------------------------------------------------
AcquisitionInit ==
    /\ pool = Founders
    /\ reading \in [Slots -> {r \in Readings : r.windows = {"used"} /\ r.tier = "stated"}]
    /\ full = FALSE
    /\ newest = Nobody
    /\ buyer = [p \in Buyers |-> NotBuying]
    /\ weles = {}
    /\ asks = 0
    /\ opRuns = 0
    /\ loose = {}

\* acquire_account and maintenance_pass: IN_FLIGHT is tried, and a second
\* acquisition of the process refused while it is held.
Acquire(p, trigger) ==
    /\ buyer[p].phase = "idle"
    /\ IF trigger = "operator"
         THEN opRuns < MaxRuns /\ opRuns' = opRuns + 1
         ELSE p = "gateway" /\ opRuns' = opRuns
    /\ buyer' = [buyer EXCEPT ![p] = [NotBuying EXCEPT !.phase = "deciding", !.trigger = trigger]]
    /\ UNCHANGED <<pool, reading, full, newest, weles, asks, loose>>

RefuseAcquisition(p) ==
    /\ buyer[p].phase = "deciding"
    /\ buyer' = [buyer EXCEPT ![p] = NotBuying]
    /\ UNCHANGED <<pool, reading, full, newest, weles, asks, opRuns, loose>>

DecideShortage(p) ==
    /\ buyer[p].phase = "deciding"
    /\ Decides(buyer[p].trigger)
    /\ buyer' = [buyer EXCEPT ![p].phase = "decided"]
    /\ UNCHANGED <<pool, reading, full, newest, weles, asks, opRuns, loose>>

\* record_subscription_acquisition: what the newest record is now.
RecordAcquisition(p, ask, result) ==
    LET by == buyer[p].trigger IN
    /\ newest' = [ask |-> ask, result |-> result, by |-> by]
    /\ loose' = IF by = "operator" THEN {}
                ELSE IF result = "requested" THEN loose \cup {ask}
                ELSE IF result = "acquired" THEN loose \ {ask} ELSE loose

\* buy: the request is journaled and then asked for; one that cannot be
\* journaled is not made.
RequestPurchase(p) ==
    /\ buyer[p].phase = "decided"
    /\ asks < MaxAsks
    /\ asks' = asks + 1
    /\ RecordAcquisition(p, asks + 1, "requested")
    /\ buyer' = [buyer EXCEPT ![p].phase = "asking", ![p].ask = asks + 1]
    /\ UNCHANGED <<pool, reading, full, weles, opRuns>>

Unjournaled(p) ==
    /\ buyer[p].phase = "decided"
    /\ buyer' = [buyer EXCEPT ![p] = NotBuying]
    /\ UNCHANGED <<pool, reading, full, newest, weles, asks, opRuns, loose>>

\* finish: the verdict is journaled, unless the append fails and the record
\* of the request stays the newest of this purchase.
FinishPurchase(p, result) ==
    /\ \/ RecordAcquisition(p, buyer[p].ask, result)
       \/ UNCHANGED <<newest, loose>>
    /\ buyer' = [buyer EXCEPT ![p] = NotBuying]

\* No worker, no token: Weles was not asked.
NotAsked(p) ==
    /\ buyer[p].phase = "asking"
    /\ FinishPurchase(p, "failed")
    /\ UNCHANGED <<pool, reading, full, weles, asks, opRuns>>

AskPurchase(p) ==
    /\ buyer[p].phase = "asking"
    /\ weles' = weles \cup {buyer[p].ask}
    /\ buyer' = [buyer EXCEPT ![p].phase = "asked"]
    /\ UNCHANGED <<pool, reading, full, newest, asks, opRuns, loose>>

\* The answer is lost or says nothing of this request, while Weles goes on.
PurchaseUnconfirmed(p) ==
    /\ buyer[p].phase = "asked"
    /\ FinishPurchase(p, "failed")
    /\ UNCHANGED <<pool, reading, full, weles, asks, opRuns>>

\* Weles banks the account it bought, or gives the purchase up; whoever still
\* waits for that request hears which.
WelesBuys(ask) ==
    /\ ask \in weles
    /\ weles' = weles \ {ask}
    /\ \E m \in Slots \ pool : pool' = pool \cup {m}
    /\ buyer' = [p \in Buyers |->
         IF buyer[p].phase = "asked" /\ buyer[p].ask = ask
           THEN [buyer[p] EXCEPT !.phase = "bought"] ELSE buyer[p]]
    /\ UNCHANGED <<reading, full, newest, asks, opRuns, loose>>

WelesFails(ask) ==
    /\ ask \in weles
    /\ weles' = weles \ {ask}
    /\ buyer' = [p \in Buyers |->
         IF buyer[p].phase = "asked" /\ buyer[p].ask = ask
           THEN [buyer[p] EXCEPT !.phase = "failed"] ELSE buyer[p]]
    /\ UNCHANGED <<pool, reading, full, newest, asks, opRuns, loose>>

\* The answer of this request names its account and member, and a refresh
\* proves the grant; an answer that does not, or a grant that does not, fails.
ConcludePurchase(p) ==
    /\ \/ buyer[p].phase = "bought" /\ FinishPurchase(p, "acquired")
       \/ buyer[p].phase \in {"bought", "failed"} /\ FinishPurchase(p, "failed")
    /\ UNCHANGED <<pool, reading, full, weles, asks, opRuns>>

-----------------------------------------------------------------------------
\* A process stops: its acquisition is gone, what it journaled and what Weles
\* does are not.
BuyerStops(p) ==
    /\ buyer[p].phase # "idle"
    /\ buyer' = [buyer EXCEPT ![p] = NotBuying]
    /\ UNCHANGED <<pool, reading, full, newest, weles, asks, opRuns, loose>>

\* Plans are spent and come back, grants are disowned, sessions come and go.
PlansMove(m) ==
    /\ m \in pool
    /\ \E r \in Readings \ {reading[m]} : reading' = [reading EXCEPT ![m] = r]
    /\ UNCHANGED <<pool, full, newest, buyer, weles, asks, opRuns, loose>>

SessionsMove ==
    /\ full' = ~full
    /\ UNCHANGED <<pool, reading, newest, buyer, weles, asks, opRuns, loose>>

AcquisitionNext ==
    \/ \E p \in Buyers :
         \/ \E trigger \in Triggers : Acquire(p, trigger)
         \/ RefuseAcquisition(p) \/ DecideShortage(p) \/ RequestPurchase(p) \/ Unjournaled(p) \/ NotAsked(p)
         \/ AskPurchase(p) \/ PurchaseUnconfirmed(p) \/ ConcludePurchase(p) \/ BuyerStops(p)
    \/ \E ask \in weles : WelesBuys(ask) \/ WelesFails(ask)
    \/ \E m \in Slots : PlansMove(m)
    \/ SessionsMove

AcquisitionSpec == AcquisitionInit /\ [][AcquisitionNext]_acquisitionVars

-----------------------------------------------------------------------------
(***************************************************************************)
(* Properties.                                                             *)
(***************************************************************************)
\* "After an automatic attempt that failed or never answered, the pass stops
\* buying until an operator runs the acquisition again, because each attempt
\* can spend money": since an operator's record, at most one purchase nobody
\* knows the end of was asked for automatically, also when the process that
\* asked for it stopped or could not journal how it ended.
OneLoosePurchase == Cardinality(loose) <= 1

\* The cap, or what the pool started with when the cap was set below it.
Allowance ==
    IF CountPastCap(Founders) THEN Cardinality(AccountsIn(Founders)) ELSE Cap

\* The pool grows past the operator's cap by no more accounts than operators
\* started acquisitions for: an automatic purchase still at Weles is never
\* followed by another automatic one that counts the pool without it.  A pool
\* that starts past the cap grows by operators' acquisitions alone.
CapHeld == Cardinality(AccountsIn(pool)) <= Allowance + opRuns

\* What the acquisition may spend (acquisition/mod.rs, purchase).
AcquisitionSafe == OneLoosePurchase /\ CapHeld

=============================================================================
