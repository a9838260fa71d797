---------------------------- MODULE LeaseRegister ---------------------------
(***************************************************************************)
(* The lease register: which live session runs on which pool member.       *)
(*                                                                         *)
(* A task is one call of take, release or report, in some gateway.  Every  *)
(* gateway of a state directory shares the register file leases.json,      *)
(* which is read, decided on and replaced whole under its exclusive lock;  *)
(* the usage ledger it consults is memory of the gateway's own process,    *)
(* written through to one shared file that is read only at start.          *)
(*                                                                         *)
(* Which of the members carrying the fewest sessions is given depends on   *)
(* plan fractions and a shuffle; any of them may be.                       *)
(***************************************************************************)
EXTENDS Integers, FiniteSets

CONSTANTS
    Tasks,       \* calls, each handled by one gateway
    Gateways,    \* Brama processes on one state directory
    GatewayOf,   \* the gateway of a task
    Sessions,    \* session ids
    Agents,      \* agents that prove their identity
    Providers,
    Members,     \* subscription ids
    ProviderOf,  \* the provider a member belongs to
    Limit,       \* sessions_cap: sessions one member of a provider carries
    MaxTime,     \* bound of the clock
    None         \* Option::None: the console as caller, no task, no lease

ASSUME LeaseAssumption ==
    /\ GatewayOf \in [Tasks -> Gateways]
    /\ ProviderOf \in [Members -> Providers]
    /\ Limit \in [Providers -> Nat]
    /\ MaxTime \in Nat
    /\ None \notin Tasks \cup Sessions \cup Agents \cup Providers \cup Members

Instants == 0 .. MaxTime

Callers == Agents \cup {None}

Leases == [session : Sessions, member : Members, agent : Callers, at : Instants]

\* The lease id "<session>@<provider>@<taken_at_ms>": it names no agent.
LeaseId(l) == <<l.session, ProviderOf[l.member], l.at>>

Ids == Sessions \X Providers \X Instants

ASSUME IdAssumption == None \notin Ids

\* What a call names; a field it does not name is None.
Calls == [session : Sessions \cup {None}, provider : Providers \cup {None},
          agent : Callers, id : Ids \cup {None}, until : Int]

Asking(s, p, a, i, u) ==
    [session |-> s, provider |-> p, agent |-> a, id |-> i, until |-> u]

NoCall == Asking(None, None, None, None, 0)

VARIABLES
    register,  \* leases.json: the live leases
    lock,      \* the task holding leases.lock, or None
    listed,    \* the vault: the members list_all_subscriptions returns active
    retired,   \* the journal: the members is_retired answers yes for
    blocked,   \* blocked_until_ms in each gateway's ledger, 0 for none
    ledgerFile,\* the blocks last written to the shared ledger file
    now,       \* the clock
    pc,        \* where each task stands
    call,      \* what each task was asked
    entries,   \* the inventory a take listed before it waited for the lock
    seen,      \* the register as each task read it
    chosen,    \* the lease a take decided on, or None
    retaken,   \* whether a take runs again after an acquisition
    todo       \* the leases a report has still to block and release

sharedVars == <<register, lock, listed, retired, blocked, ledgerFile, now>>
taskVars == <<pc, call, entries, seen, chosen, retaken, todo>>
vars == <<sharedVars, taskVars>>

Stages == {"idle", "listed", "admitting", "persisting", "short",
           "naming", "ending", "reporting"}

TypeOK ==
    /\ register \in SUBSET Leases
    /\ lock \in Tasks \cup {None}
    /\ listed \in SUBSET Members
    /\ retired \in SUBSET Members
    /\ blocked \in [Gateways -> [Members -> Int]]
    /\ ledgerFile \in [Members -> Int]
    /\ now \in Instants
    /\ pc \in [Tasks -> Stages]
    /\ call \in [Tasks -> Calls]
    /\ entries \in [Tasks -> SUBSET Members]
    /\ seen \in [Tasks -> SUBSET Leases]
    /\ chosen \in [Tasks -> Leases \cup {None}]
    /\ retaken \in [Tasks -> BOOLEAN]
    /\ todo \in [Tasks -> SUBSET Leases]

Init ==
    /\ register = {}
    /\ lock = None
    /\ listed \in SUBSET Members
    /\ retired = {}
    /\ blocked = [g \in Gateways |-> [m \in Members |-> 0]]
    /\ ledgerFile = [m \in Members |-> 0]
    /\ now = 0
    /\ pc = [t \in Tasks |-> "idle"]
    /\ call = [t \in Tasks |-> NoCall]
    /\ entries = [t \in Tasks |-> {}]
    /\ seen = [t \in Tasks |-> {}]
    /\ chosen = [t \in Tasks |-> None]
    /\ retaken = [t \in Tasks |-> FALSE]
    /\ todo = [t \in Tasks |-> {}]

-----------------------------------------------------------------------------
(***************************************************************************)
(* Pure parts.                                                             *)
(***************************************************************************)
\* The console (None) may act on every lease, an agent on the ones it took.
BelongsTo(l, agent) == agent = None \/ l.agent = agent

OnMember(leases, m) == {l \in leases : l.member = m}

Carried(leases, m) == Cardinality(OnMember(leases, m))

\* The session's own lease that a repeated take gets back.
Standing(leases, c) ==
    {l \in leases : /\ l.session = c.session
                    /\ ProviderOf[l.member] = c.provider
                    /\ BelongsTo(l, c.agent)}

\* The members of the listed entries that the journal and the ledger of
\* this gateway let a session run on.  unfit are the members the ledger
\* refuses for anything but a reported block: a sign-in owed, a spent plan
\* window, a block of the gateway's own dispatches.
Usable(t, unfit) ==
    {m \in entries[t] \ unfit : /\ ProviderOf[m] = call[t].provider
                                /\ m \notin retired
                                /\ blocked[GatewayOf[t]][m] <= now}

\* Bug: the limit is tested after the new session is counted out.
WithRoomPastLimit(t, unfit) ==
    {m \in Usable(t, unfit) : Carried(seen[t], m) <= Limit[call[t].provider]}

\* Members below the operator's limit.
WithRoom(t, unfit) ==
    {m \in Usable(t, unfit) : Carried(seen[t], m) < Limit[call[t].provider]}

\* The first of the members in the order of fewest_then_freshest.
Fewest(t, unfit) ==
    {m \in WithRoom(t, unfit) :
        \A n \in Usable(t, unfit) : Carried(seen[t], m) <= Carried(seen[t], n)}

\* What a release names: a lease id, or every lease of a session.
Named(l, c) == LeaseId(l) = c.id \/ l.session = c.session

-----------------------------------------------------------------------------
(***************************************************************************)
(* Shared machinery of the calls.                                          *)
(***************************************************************************)
\* Bug: a mutex of one process guards the register of all of them.
LockGrantedPerProcess(t) ==
    IF lock = None THEN TRUE ELSE GatewayOf[lock] # GatewayOf[t]

\* held_beside on leases.json.
LockGranted(t) == lock = None

Release(t) == lock' = IF lock = t THEN None ELSE lock

\* The call returns: nothing of it is left but what it wrote.
Return(t) ==
    /\ pc' = [pc EXCEPT ![t] = "idle"]
    /\ call' = [call EXCEPT ![t] = NoCall]
    /\ entries' = [entries EXCEPT ![t] = {}]
    /\ seen' = [seen EXCEPT ![t] = {}]
    /\ chosen' = [chosen EXCEPT ![t] = None]
    /\ retaken' = [retaken EXCEPT ![t] = FALSE]
    /\ todo' = [todo EXCEPT ![t] = {}]

poolVars == <<listed, retired, blocked, ledgerFile, now>>

-----------------------------------------------------------------------------
(***************************************************************************)
(* take: the inventory is listed, then the register is read, a standing    *)
(* lease answered or a member chosen, and the register replaced, all of    *)
(* that under the lock.                                                    *)
(***************************************************************************)
TakeList(t) ==
    /\ pc[t] = "idle"
    /\ \E s \in Sessions, p \in Providers, a \in Callers :
          call' = [call EXCEPT ![t] = Asking(s, p, a, None, 0)]
    /\ entries' = [entries EXCEPT ![t] = listed]
    /\ pc' = [pc EXCEPT ![t] = "listed"]
    /\ UNCHANGED <<sharedVars, seen, chosen, retaken, todo>>

TakeHold(t) ==
    /\ pc[t] = "listed"
    /\ LockGranted(t)
    /\ lock' = t
    /\ seen' = [seen EXCEPT ![t] = register]
    /\ pc' = [pc EXCEPT ![t] = "admitting"]
    /\ UNCHANGED <<register, poolVars, call, entries, chosen, retaken, todo>>

\* The session's standing lease is answered; nothing is written.
TakeStanding(t) ==
    /\ pc[t] = "admitting"
    /\ Standing(seen[t], call[t]) # {}
    /\ Return(t)
    /\ Release(t)
    /\ UNCHANGED <<register, poolVars>>

\* NoUsableMember or PoolFull: the caller's handler starts an acquisition
\* for the shortage, but only after the first take.
TakeRefused(t) ==
    /\ pc[t] = "admitting"
    /\ Standing(seen[t], call[t]) = {}
    /\ \E unfit \in SUBSET Members : WithRoom(t, unfit) = {}
    /\ Release(t)
    /\ \/ /\ ~retaken[t]
          /\ pc' = [pc EXCEPT ![t] = "short"]
          /\ seen' = [seen EXCEPT ![t] = {}]
          /\ entries' = [entries EXCEPT ![t] = {}]
          /\ UNCHANGED <<call, chosen, retaken, todo>>
       \/ retaken[t] /\ Return(t)
    /\ UNCHANGED <<register, poolVars>>

\* Bug: a session's restarted harness is not recognised.
ChooseAnyway(t) ==
    /\ pc[t] = "admitting"
    /\ \E unfit \in SUBSET Members : \E m \in Fewest(t, unfit) :
          chosen' = [chosen EXCEPT ![t] =
                        [session |-> call[t].session, member |-> m,
                         agent |-> call[t].agent, at |-> now]]
    /\ pc' = [pc EXCEPT ![t] = "persisting"]
    /\ UNCHANGED <<sharedVars, call, entries, seen, retaken, todo>>

TakeChoose(t) ==
    /\ pc[t] = "admitting"
    /\ Standing(seen[t], call[t]) = {}
    /\ \E unfit \in SUBSET Members : \E m \in Fewest(t, unfit) :
          chosen' = [chosen EXCEPT ![t] =
                        [session |-> call[t].session, member |-> m,
                         agent |-> call[t].agent, at |-> now]]
    /\ pc' = [pc EXCEPT ![t] = "persisting"]
    /\ UNCHANGED <<sharedVars, call, entries, seen, retaken, todo>>

TakePersist(t) ==
    /\ pc[t] = "persisting"
    /\ register' = seen[t] \cup {chosen[t]}
    /\ Return(t)
    /\ Release(t)
    /\ UNCHANGED poolVars

\* Bug: every refused take may buy again.
RetakeForgotten(t) ==
    /\ pc[t] = "short"
    /\ entries' = [entries EXCEPT ![t] = listed]
    /\ pc' = [pc EXCEPT ![t] = "listed"]
    /\ UNCHANGED <<sharedVars, call, seen, chosen, retaken, todo>>

\* The acquisition bought an account: the lease is taken once more.
Retake(t) ==
    /\ pc[t] = "short"
    /\ entries' = [entries EXCEPT ![t] = listed]
    /\ retaken' = [retaken EXCEPT ![t] = TRUE]
    /\ pc' = [pc EXCEPT ![t] = "listed"]
    /\ UNCHANGED <<sharedVars, call, seen, chosen, todo>>

\* The acquisition bought nothing: the first refusal is the answer.
AcquireRefused(t) ==
    /\ pc[t] = "short"
    /\ Return(t)
    /\ UNCHANGED sharedVars

-----------------------------------------------------------------------------
(***************************************************************************)
(* release: by lease id or by session, all of it or nothing.               *)
(***************************************************************************)
ReleaseAsk(t) ==
    /\ pc[t] = "idle"
    /\ \E a \in Callers :
          \/ \E i \in Ids :
                call' = [call EXCEPT ![t] = Asking(None, None, a, i, 0)]
          \/ \E s \in Sessions :
                call' = [call EXCEPT ![t] = Asking(s, None, a, None, 0)]
    /\ pc' = [pc EXCEPT ![t] = "naming"]
    /\ UNCHANGED <<sharedVars, entries, seen, chosen, retaken, todo>>

ReleaseHold(t) ==
    /\ pc[t] = "naming"
    /\ LockGranted(t)
    /\ lock' = t
    /\ seen' = [seen EXCEPT ![t] = register]
    /\ pc' = [pc EXCEPT ![t] = "ending"]
    /\ UNCHANGED <<register, poolVars, call, entries, chosen, retaken, todo>>

\* Bug: foreign leases are ended with the caller's own.
ForeignIgnored(t) == {}

Foreign(t) == {l \in seen[t] : Named(l, call[t]) /\ ~BelongsTo(l, call[t].agent)}

\* A named lease of another identity refuses the release, and the report
\* that asked for it, whole.
ReleaseForeign(t) ==
    /\ pc[t] = "ending"
    /\ Foreign(t) # {}
    /\ Return(t)
    /\ Release(t)
    /\ UNCHANGED <<register, poolVars>>

ReleasePersist(t) ==
    /\ pc[t] = "ending"
    /\ Foreign(t) = {}
    /\ register' = {l \in seen[t] : ~Named(l, call[t])}
    /\ IF todo[t] = {}
       THEN Return(t)
       ELSE /\ pc' = [pc EXCEPT ![t] = "reporting"]
            /\ seen' = [seen EXCEPT ![t] = {}]
            /\ UNCHANGED <<call, entries, chosen, retaken, todo>>
    /\ Release(t)
    /\ UNCHANGED poolVars

-----------------------------------------------------------------------------
(***************************************************************************)
(* report: the leases of the session are read under the lock, which is     *)
(* given up; each one's member is then blocked in this gateway's ledger    *)
(* and the lease released by its id.                                       *)
(***************************************************************************)
ReportRead(t) ==
    /\ pc[t] = "idle"
    /\ LockGranted(t)
    /\ \E s \in Sessions, p \in Providers, a \in Callers, u \in Instants :
          LET c == Asking(s, p, a, None, u)
          IN /\ u > now
             /\ Standing(register, c) # {}
             /\ call' = [call EXCEPT ![t] = c]
             /\ todo' = [todo EXCEPT ![t] = Standing(register, c)]
    /\ pc' = [pc EXCEPT ![t] = "reporting"]
    /\ UNCHANGED <<sharedVars, entries, seen, chosen, retaken>>

\* Bug: the lease is released before its member is known to be refused.
ReportUnblocked(t) ==
    /\ pc[t] = "reporting"
    /\ \E l \in todo[t] :
          /\ call' = [call EXCEPT ![t] =
                         Asking(None, @.provider, @.agent, LeaseId(l), @.until)]
          /\ todo' = [todo EXCEPT ![t] = @ \ {l}]
    /\ pc' = [pc EXCEPT ![t] = "naming"]
    /\ UNCHANGED <<sharedVars, entries, seen, chosen, retaken>>

ReportBlock(t) ==
    LET g == GatewayOf[t] IN
    /\ pc[t] = "reporting"
    /\ \E l \in todo[t] :
          /\ blocked' = [blocked EXCEPT ![g][l.member] = call[t].until]
          /\ call' = [call EXCEPT ![t] =
                         Asking(None, @.provider, @.agent, LeaseId(l), @.until)]
          /\ todo' = [todo EXCEPT ![t] = @ \ {l}]
    /\ ledgerFile' = blocked'[g]
    /\ pc' = [pc EXCEPT ![t] = "naming"]
    /\ UNCHANGED <<register, lock, listed, retired, now,
                   entries, seen, chosen, retaken>>

-----------------------------------------------------------------------------
(***************************************************************************)
(* Errors, and everything around the register.                             *)
(***************************************************************************)
\* The inventory, the lock file, the register, the journal or the write
\* fails: the call is refused as Unavailable with the file as it was.
Unavailable(t) ==
    /\ pc[t] # "idle"
    /\ Return(t)
    /\ Release(t)
    /\ UNCHANGED <<register, poolVars>>

\* A gateway dies and starts again: its calls are gone, the lock with them,
\* and its ledger is read from the file.
Restart(g) ==
    LET gone == {t \in Tasks : GatewayOf[t] = g} IN
    /\ pc' = [t \in Tasks |-> IF t \in gone THEN "idle" ELSE pc[t]]
    /\ call' = [t \in Tasks |-> IF t \in gone THEN NoCall ELSE call[t]]
    /\ entries' = [t \in Tasks |-> IF t \in gone THEN {} ELSE entries[t]]
    /\ seen' = [t \in Tasks |-> IF t \in gone THEN {} ELSE seen[t]]
    /\ chosen' = [t \in Tasks |-> IF t \in gone THEN None ELSE chosen[t]]
    /\ retaken' = [t \in Tasks |-> IF t \in gone THEN FALSE ELSE retaken[t]]
    /\ todo' = [t \in Tasks |-> IF t \in gone THEN {} ELSE todo[t]]
    /\ lock' = IF lock \in gone THEN None ELSE lock
    /\ blocked' = [blocked EXCEPT ![g] = ledgerFile]
    /\ UNCHANGED <<register, listed, retired, ledgerFile, now>>

\* An account is enrolled in the vault or leaves it.
VaultChanges(m) ==
    /\ listed' = IF m \in listed THEN listed \ {m} ELSE listed \cup {m}
    /\ UNCHANGED <<register, lock, retired, blocked, ledgerFile, now, taskVars>>

\* A retirement or a reinstatement is appended to the journal.
JournalChanges(m) ==
    /\ retired' = IF m \in retired THEN retired \ {m} ELSE retired \cup {m}
    /\ UNCHANGED <<register, lock, listed, blocked, ledgerFile, now, taskVars>>

Tick ==
    /\ now < MaxTime
    /\ now' = now + 1
    /\ UNCHANGED <<register, lock, listed, retired, blocked, ledgerFile, taskVars>>

Step(t) ==
    \/ TakeStanding(t) \/ TakeRefused(t) \/ TakeChoose(t) \/ TakePersist(t)
    \/ Retake(t) \/ AcquireRefused(t)
    \/ ReleaseForeign(t) \/ ReleasePersist(t)
    \/ ReportBlock(t)

Hold(t) == TakeHold(t) \/ ReleaseHold(t)

Ask(t) == TakeList(t) \/ ReleaseAsk(t) \/ ReportRead(t)

Environment ==
    \/ \E m \in Members : VaultChanges(m) \/ JournalChanges(m)
    \/ Tick

Next ==
    \/ \E t \in Tasks : Ask(t) \/ Hold(t) \/ Step(t) \/ Unavailable(t)
    \/ \E g \in Gateways : Restart(g)
    \/ Environment

Spec == Init /\ [][Next]_vars

(***************************************************************************)
(* A call that was started takes its next step, and a waiter is granted a  *)
(* lock that keeps becoming free.  An acquisition ends one way or the      *)
(* other; no error is assumed to happen.                                   *)
(***************************************************************************)
FairSpec == Spec /\ \A t \in Tasks : WF_vars(Step(t)) /\ SF_vars(Hold(t))

-----------------------------------------------------------------------------
(***************************************************************************)
(* No member carries more live sessions than the operator stated, however  *)
(* many gateways admit at once (register::take).                           *)
(***************************************************************************)
WithinLimit ==
    \A m \in Members : Carried(register, m) <= Limit[ProviderOf[m]]

(***************************************************************************)
(* A session holds one lease per provider and identity: a restarted        *)
(* harness or a repeated call is not charged to a second member.           *)
(***************************************************************************)
OneStanding ==
    \A k, l \in register :
        /\ k.session = l.session
        /\ ProviderOf[k.member] = ProviderOf[l.member]
        /\ k.agent = l.agent
        => k = l

(***************************************************************************)
(* The parts of the inductive invariant.                                   *)
(***************************************************************************)
Deciding == {"admitting", "persisting", "ending"}

HoldInv == \A t \in Tasks : pc[t] \in Deciding <=> lock = t

FreshInv == \A t \in Tasks : pc[t] \in Deciding => seen[t] = register

AskedInv ==
    \A t \in Tasks : pc[t] \in {"listed", "admitting", "persisting", "short"} =>
        call[t].session \in Sessions /\ call[t].provider \in Providers

\* The lease l can be added to the register.
Fits(l) ==
    /\ l \in Leases
    /\ Carried(register, l.member) < Limit[ProviderOf[l.member]]
    /\ \A k \in register :
          ~ /\ k.session = l.session
            /\ ProviderOf[k.member] = ProviderOf[l.member]
            /\ k.agent = l.agent

ChosenInv == \A t \in Tasks : pc[t] = "persisting" => Fits(chosen[t])

(***************************************************************************)
(* Whoever decides about the register holds its lock and still sees it as  *)
(* it is, and a lease about to be written fits it (register::take and      *)
(* register::locked under held).                                           *)
(***************************************************************************)
LeaseInv ==
    /\ HoldInv
    /\ FreshInv
    /\ AskedInv
    /\ ChosenInv
    /\ IsFiniteSet(register)
    /\ WithinLimit
    /\ OneStanding

(***************************************************************************)
(* A lease leaves the register only through a release that names it, asked *)
(* by the identity that took it or by the console: no concurrent take,     *)
(* release, failure or restart loses one (register::locked).               *)
(***************************************************************************)
EndedOnlyByOwner ==
    [][\A l \in register \ register' :
          \E t \in Tasks : /\ pc[t] = "ending"
                           /\ Named(l, call[t])
                           /\ BelongsTo(l, call[t].agent)]_register

(***************************************************************************)
(* The register implements LeaseTable: however the steps of gateways, the  *)
(* failures and the restarts interleave, each take and each release shows  *)
(* in leases.json as one atomic change of one table, or not at all         *)
(* (register::take, register::release).                                    *)
(***************************************************************************)
Table == INSTANCE LeaseTable WITH table <- register, Identities <- Callers,
                                  Console <- None

ActsAsTable == Table!TableSpec

(***************************************************************************)
(* A call that started is answered: nobody waits for the register for      *)
(* good, and a shortage is not bought for again and again by one take.     *)
(***************************************************************************)
Answered == \A t \in Tasks : pc[t] # "idle" ~> pc[t] = "idle"

=============================================================================
