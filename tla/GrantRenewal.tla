---------------------------- MODULE GrantRenewal ----------------------------
(***************************************************************************)
(* Redeeming and replacing the OAuth grant of one subscription.            *)
(*                                                                         *)
(* Callers of a process reach the vault's grant on four paths: a request   *)
(* that uses it (use), a request whose token the provider refused          *)
(* (forced), the sweep that renews ahead of expiry (ahead), and the        *)
(* operator's or a sign-in's deliberate retry (retry).  A replacement runs *)
(* under the process's OAUTH_REFRESH_LOCK: the vault is read again, the    *)
(* provider is asked, the new grant is stored, the ledger told.  Sign-ins  *)
(* write the vault without that lock.                                      *)
(*                                                                         *)
(* Grants are numbered as they are issued.  Of the ledger only where the   *)
(* grant stands is kept; UsageLedger models the rest of it.                *)
(***************************************************************************)
EXTENDS Naturals

CONSTANTS
    Processes,   \* Brama processes over one vault: the gateway, a command
    Callers,     \* tasks that redeem or renew
    Host,        \* the process a caller runs in
    MaxGrant,    \* bound of the grants ever issued
    MaxCrash,    \* bound of the crashes of a process
    None

ASSUME RenewalAssumption ==
    /\ Host \in [Callers -> Processes]
    /\ MaxGrant \in Nat
    /\ MaxCrash \in Nat
    /\ None \notin Nat
    /\ None \notin Callers

Grants == 0 .. MaxGrant

States == {"active", "needs_reauthorization", "disabled"}

Modes == {"use", "forced", "ahead", "retry"}

\* Inside the lock.
Locked == {"locked", "asking", "storing", "stored"}

Places == {"idle", "read", "gate", "lock", "done"} \cup Locked

VARIABLES
    vault,      \* the grant the subscription's vault item holds
    legacy,     \* what the first grant is: a grant, a harness's, or no grant
    issued,     \* how many grants were issued after the first
    alive,      \* grants whose refresh token the provider accepts
    fresh,      \* grants whose access token has not expired
    standing,   \* each process's ledger: where the grant stands
    recorded,   \* the ledger file's copy of it
    adopting,   \* processes that stored a sign-in and have not recorded it
    lock,       \* each process's OAUTH_REFRESH_LOCK
    pc, mode,   \* where a caller is, and on which path
    held,       \* the grant a caller presents to the provider
    new,        \* the grant the provider answered it with
    answer,     \* what a caller returned: a grant or None
    stored,     \* history: grants the vault held at some time
    burnt,      \* history: grants the provider invalidated and the vault replaced
    refused,    \* history: grants the provider disowned when they were presented
    crashes     \* how often a process died

provider == <<issued, alive, fresh>>
ledger == <<standing, recorded>>
caller == <<pc, mode, held, new, answer>>
history == <<stored, burnt, refused>>
vars == <<vault, legacy, provider, ledger, adopting, lock, caller, history, crashes>>

TypeOK ==
    /\ vault \in Grants
    /\ legacy \in {"grant", "borrowed", "metadata"}
    /\ issued \in Grants
    /\ alive \in SUBSET Grants
    /\ fresh \in SUBSET Grants
    /\ standing \in [Processes -> States]
    /\ recorded \in States
    /\ adopting \in SUBSET Processes
    /\ lock \in [Processes -> Callers \cup {None}]
    /\ pc \in [Callers -> Places]
    /\ mode \in [Callers -> Modes]
    /\ held \in [Callers -> Grants \cup {None}]
    /\ new \in [Callers -> Grants \cup {None}]
    /\ answer \in [Callers -> Grants \cup {None}]
    /\ stored \in SUBSET Grants
    /\ burnt \in SUBSET Grants
    /\ refused \in SUBSET Grants
    /\ crashes \in [Processes -> 0 .. MaxCrash]

Init ==
    /\ vault = 0
    /\ legacy \in {"grant", "borrowed", "metadata"}
    /\ issued = 0
    /\ alive = IF legacy = "metadata" THEN {} ELSE {0}
    /\ fresh = alive
    /\ standing = [p \in Processes |-> "active"]
    /\ recorded = "active"
    /\ adopting = {}
    /\ lock = [p \in Processes |-> None]
    /\ pc = [c \in Callers |-> "idle"]
    /\ mode = [c \in Callers |-> "use"]
    /\ held = [c \in Callers |-> None]
    /\ new = [c \in Callers |-> None]
    /\ answer = [c \in Callers |-> None]
    /\ stored = {0}
    /\ burnt = {}
    /\ refused = {}
    /\ crashes = [p \in Processes |-> 0]

-----------------------------------------------------------------------------
(***************************************************************************)
(* Readings of a stored grant, and the ledger.                             *)
(***************************************************************************)
\* unusable_document: sign-in metadata where a grant belongs.
Unusable(g) == g = 0 /\ legacy = "metadata"

\* is_borrowed
Borrowed(g) == g = 0 /\ legacy = "borrowed"

\* needs_refresh: a document that states no expiry never needs one.
NeedsRefresh(g) == g \notin fresh /\ ~Unusable(g)

Record(p, s) ==
    /\ standing' = [standing EXCEPT ![p] = s]
    /\ recorded' = s

\* awaiting_sign_in_cause
AwaitingSignIn(p) == standing[p] # "active"

Goto(c, place) == pc' = [pc EXCEPT ![c] = place]

\* The caller ends, with a grant or, refused, with none.
Return(c, g) ==
    /\ Goto(c, "done")
    /\ answer' = [answer EXCEPT ![c] = g]
    /\ held' = [held EXCEPT ![c] = None]
    /\ new' = [new EXCEPT ![c] = None]
    /\ mode' = [mode EXCEPT ![c] = "use"]

Unlock(c) == lock' = [lock EXCEPT ![Host[c]] = None]

Move(c, place) ==
    /\ Goto(c, place)
    /\ UNCHANGED <<mode, held, new, answer>>

-----------------------------------------------------------------------------
(***************************************************************************)
(* Before the lock.                                                        *)
(***************************************************************************)
Begin(c, m, place) ==
    /\ pc[c] \in {"idle", "done"}
    /\ Goto(c, place)
    /\ mode' = [mode EXCEPT ![c] = m]
    /\ answer' = [answer EXCEPT ![c] = None]
    /\ UNCHANGED <<held, new, vault, legacy, provider, ledger, adopting, lock, history, crashes>>

\* subscription_credential
StartUse(c) == Begin(c, "use", "read")

\* refresh_subscription_credential
StartForced(c) == Begin(c, "forced", "gate")

\* retry_disowned_subscription_credential
StartRetry(c) == Begin(c, "retry", "lock")

\* InFlight::claim: one renewal ahead of expiry at a time.
Claimed(p) ==
    \E d \in Callers : /\ Host[d] = p
                       /\ mode[d] = "ahead"
                       /\ pc[d] \notin {"idle", "done"}

\* The sweep's turn: a grant that awaits a sign-in is left to one.
StartAhead(c) ==
    /\ ~AwaitingSignIn(Host[c])
    /\ ~Claimed(Host[c])
    /\ Begin(c, "ahead", "read")

\* The vault answers no read: nothing is known, nothing recorded.
ReadFails(c) ==
    /\ pc[c] = "read"
    /\ Return(c, None)
    /\ UNCHANGED <<vault, legacy, provider, ledger, adopting, lock, history, crashes>>

ReadUse(c) ==
    /\ pc[c] = "read"
    /\ mode[c] = "use"
    /\ \/ /\ ~Borrowed(vault) /\ ~NeedsRefresh(vault)
          /\ Return(c, vault)
       \/ /\ Borrowed(vault) \/ NeedsRefresh(vault)
          /\ Move(c, "gate")
    /\ UNCHANGED <<vault, legacy, provider, ledger, adopting, lock, history, crashes>>

\* refresh_subscription_credential_ahead up to the refresh.
ReadAhead(c) ==
    /\ pc[c] = "read"
    /\ mode[c] = "ahead"
    /\ \/ /\ Unusable(vault)
          /\ Record(Host[c], "needs_reauthorization")
          /\ Return(c, None)
       \/ /\ ~Unusable(vault) /\ ~NeedsRefresh(vault)
          /\ Record(Host[c], "active")
          /\ Return(c, None)
       \/ /\ NeedsRefresh(vault)
          /\ Move(c, "gate")
          /\ UNCHANGED ledger
    /\ UNCHANGED <<vault, legacy, provider, adopting, lock, history, crashes>>

\* awaiting::refusal, read before the lock is waited for.
Gate(c) ==
    /\ pc[c] = "gate"
    /\ IF AwaitingSignIn(Host[c]) THEN Return(c, None) ELSE Move(c, "lock")
    /\ UNCHANGED <<vault, legacy, provider, ledger, adopting, lock, history, crashes>>

-----------------------------------------------------------------------------
(***************************************************************************)
(* Under the lock.                                                         *)
(***************************************************************************)
\* Bug: the rotation is not single-flight.
LockAnyway(c) ==
    /\ pc[c] = "lock"
    /\ lock' = [lock EXCEPT ![Host[c]] = c]
    /\ Move(c, "locked")
    /\ UNCHANGED <<vault, legacy, provider, ledger, adopting, history, crashes>>

Lock(c) ==
    /\ pc[c] = "lock"
    /\ lock[Host[c]] = None
    /\ lock' = [lock EXCEPT ![Host[c]] = c]
    /\ Move(c, "locked")
    /\ UNCHANGED <<vault, legacy, provider, ledger, adopting, history, crashes>>

RereadFails(c) ==
    /\ pc[c] = "locked"
    /\ Return(c, None)
    /\ Unlock(c)
    /\ UNCHANGED <<vault, legacy, provider, ledger, adopting, history, crashes>>

\* A harness's grant is neither used nor rotated.
RefuseBorrowed(c) ==
    /\ pc[c] = "locked"
    /\ Borrowed(vault)
    /\ Record(Host[c], "needs_reauthorization")
    /\ Return(c, None)
    /\ Unlock(c)
    /\ UNCHANGED <<vault, legacy, provider, adopting, history, crashes>>

\* A concurrent refresh already replaced the grant.
FoundFresh(c) ==
    /\ pc[c] = "locked"
    /\ ~Borrowed(vault)
    /\ mode[c] = "use"
    /\ ~NeedsRefresh(vault)
    /\ Return(c, vault)
    /\ Unlock(c)
    /\ UNCHANGED <<vault, legacy, provider, ledger, adopting, history, crashes>>

\* The grant read under the lock is presented to the provider.
Present(c) ==
    /\ pc[c] = "locked"
    /\ ~Borrowed(vault)
    /\ mode[c] # "use" \/ NeedsRefresh(vault)
    /\ Goto(c, "asking")
    /\ held' = [held EXCEPT ![c] = vault]
    /\ UNCHANGED <<mode, new, answer, vault, legacy, provider, ledger, adopting, lock, history, crashes>>

\* The provider accepts the refresh token, and keeps or invalidates it.
Rotate(g, keeps) ==
    /\ g \in alive
    /\ issued < MaxGrant
    /\ issued' = issued + 1
    /\ alive' = (IF keeps THEN alive ELSE alive \ {g}) \cup {issued + 1}
    /\ fresh' = fresh \cup {issued + 1}

Answered(c) ==
    /\ pc[c] = "asking"
    /\ \E keeps \in BOOLEAN : Rotate(held[c], keeps)
    /\ new' = [new EXCEPT ![c] = issued + 1]
    /\ Goto(c, "storing")
    /\ UNCHANGED <<mode, held, answer, vault, legacy, ledger, adopting, lock, history, crashes>>

\* Bug: an invalid_grant is taken for a passing failure.
DisownedUnrecorded(c) ==
    /\ pc[c] = "asking"
    /\ held[c] \notin alive
    /\ Return(c, None)
    /\ Unlock(c)
    /\ UNCHANGED <<vault, legacy, provider, ledger, adopting, history, crashes>>

\* RefreshRefusal::Definitive: the provider disowns the grant, or the stored
\* document is none.
Disowned(c) ==
    /\ pc[c] = "asking"
    /\ held[c] \notin alive
    /\ Record(Host[c], "needs_reauthorization")
    /\ Return(c, None)
    /\ Unlock(c)
    /\ refused' = refused \cup {held[c]}
    /\ UNCHANGED <<vault, legacy, provider, adopting, stored, burnt, crashes>>

\* RefreshRefusal::Transient: no answer came back.  The provider may have
\* rotated the grant all the same.
Transient(c) ==
    /\ pc[c] = "asking"
    /\ \/ Rotate(held[c], FALSE)
       \/ UNCHANGED provider
    /\ Return(c, None)
    /\ Unlock(c)
    /\ UNCHANGED <<vault, legacy, ledger, adopting, history, crashes>>

\* put_subscription_credential
Store(c) ==
    /\ pc[c] = "storing"
    /\ vault' = new[c]
    /\ stored' = stored \cup {new[c]}
    /\ burnt' = burnt \cup ({held[c]} \ alive)
    /\ Move(c, "stored")
    /\ UNCHANGED <<legacy, provider, ledger, adopting, lock, refused, crashes>>

\* Bug: a rotation that could not be stored is spent from memory.
StoreFailsSpent(c) ==
    /\ pc[c] = "storing"
    /\ Record(Host[c], "needs_reauthorization")
    /\ Return(c, new[c])
    /\ Unlock(c)
    /\ UNCHANGED <<vault, legacy, provider, adopting, history, crashes>>

\* The vault refuses the write: the new grant is dropped.
StoreFails(c) ==
    /\ pc[c] = "storing"
    /\ Record(Host[c], "needs_reauthorization")
    /\ Return(c, None)
    /\ Unlock(c)
    /\ UNCHANGED <<vault, legacy, provider, adopting, history, crashes>>

\* Bug: the lock outlives the caller that stored a grant.
FinishLocked(c) ==
    /\ pc[c] = "stored"
    /\ Record(Host[c], "active")
    /\ Return(c, new[c])
    /\ UNCHANGED <<vault, legacy, provider, adopting, lock, history, crashes>>

\* record_credential_active, unless the new token's expiry is unreadable.
Finish(c) ==
    /\ pc[c] = "stored"
    /\ \/ Record(Host[c], "active") /\ Return(c, new[c])
       \/ UNCHANGED ledger /\ Return(c, None)
    /\ Unlock(c)
    /\ UNCHANGED <<vault, legacy, provider, adopting, history, crashes>>

-----------------------------------------------------------------------------
(***************************************************************************)
(* What happens beside the callers.                                        *)
(***************************************************************************)
\* A sign-in, by hand or by Weles, stores a grant of its own.
SignIn(p) ==
    /\ issued < MaxGrant
    /\ p \notin adopting
    /\ issued' = issued + 1
    /\ alive' = alive \cup {issued + 1}
    /\ fresh' = fresh \cup {issued + 1}
    /\ vault' = issued + 1
    /\ stored' = stored \cup {issued + 1}
    /\ adopting' = adopting \cup {p}
    /\ UNCHANGED <<legacy, ledger, lock, caller, burnt, refused, crashes>>

\* record_credential_signed_in
SignedIn(p) ==
    /\ p \in adopting
    /\ Record(p, "active")
    /\ adopting' = adopting \ {p}
    /\ UNCHANGED <<vault, legacy, provider, lock, caller, history, crashes>>

\* An answer to a request is proof of the grant behind its token.
CallSucceeds(p) ==
    /\ standing[p] = "needs_reauthorization"
    /\ fresh # {}
    /\ Record(p, "active")
    /\ UNCHANGED <<vault, legacy, provider, adopting, lock, caller, history, crashes>>

Retire(p) ==
    /\ Record(p, "disabled")
    /\ UNCHANGED <<vault, legacy, provider, adopting, lock, caller, history, crashes>>

Reinstate(p) ==
    /\ standing[p] = "disabled"
    /\ Record(p, "needs_reauthorization")
    /\ UNCHANGED <<vault, legacy, provider, adopting, lock, caller, history, crashes>>

Expire(g) ==
    /\ g \in fresh
    /\ fresh' = fresh \ {g}
    /\ UNCHANGED <<issued, alive, vault, legacy, ledger, adopting, lock, caller, history, crashes>>

\* The provider revokes a grant on its own.
Revoke(g) ==
    /\ g \in alive
    /\ alive' = alive \ {g}
    /\ UNCHANGED <<issued, fresh, vault, legacy, ledger, adopting, lock, caller, history, crashes>>

\* A process dies and is started again: its callers, its lock and a sign-in
\* it had not recorded are gone, its ledger is read from the file.
Crash(p) ==
    /\ crashes[p] < MaxCrash
    /\ crashes' = [crashes EXCEPT ![p] = @ + 1]
    /\ lock' = [lock EXCEPT ![p] = None]
    /\ pc' = [c \in Callers |-> IF Host[c] = p THEN "idle" ELSE pc[c]]
    /\ mode' = [c \in Callers |-> IF Host[c] = p THEN "use" ELSE mode[c]]
    /\ held' = [c \in Callers |-> IF Host[c] = p THEN None ELSE held[c]]
    /\ new' = [c \in Callers |-> IF Host[c] = p THEN None ELSE new[c]]
    /\ answer' = [c \in Callers |-> IF Host[c] = p THEN None ELSE answer[c]]
    /\ standing' = [standing EXCEPT ![p] = recorded]
    /\ adopting' = adopting \ {p}
    /\ UNCHANGED <<recorded, vault, legacy, provider, history>>

Call(c) ==
    \/ StartUse(c) \/ StartForced(c) \/ StartRetry(c) \/ StartAhead(c)
    \/ ReadFails(c) \/ ReadUse(c) \/ ReadAhead(c) \/ Gate(c)
    \/ Lock(c) \/ RereadFails(c) \/ RefuseBorrowed(c) \/ FoundFresh(c)
    \/ Present(c) \/ Answered(c) \/ Disowned(c) \/ Transient(c)
    \/ Store(c) \/ StoreFails(c) \/ Finish(c)

Next ==
    \/ \E c \in Callers : Call(c)
    \/ \E p \in Processes : \/ SignIn(p) \/ SignedIn(p) \/ CallSucceeds(p)
                            \/ Retire(p) \/ Reinstate(p) \/ Crash(p)
    \/ \E g \in Grants : Expire(g) \/ Revoke(g)

Spec == Init /\ [][Next]_vars

\* A caller that has begun.
Step(c) ==
    \/ ReadFails(c) \/ ReadUse(c) \/ ReadAhead(c) \/ Gate(c)
    \/ RereadFails(c) \/ RefuseBorrowed(c) \/ FoundFresh(c) \/ Present(c)
    \/ Answered(c) \/ Disowned(c) \/ Transient(c)
    \/ Store(c) \/ StoreFails(c) \/ Finish(c)

\* Tasks are scheduled, and tokio's mutex is handed over in the order it was
\* waited for, so a waiter is not passed over for ever.
Scheduled == \A c \in Callers : WF_vars(Step(c)) /\ SF_vars(Lock(c))

\* The sweep runs again and again, tokens expire, and neither the vault nor
\* the provider fails every time it is asked.
Swept ==
    /\ \A c \in Callers : SF_vars(StartAhead(c)) /\ SF_vars(ReadAhead(c))
                          /\ SF_vars(Present(c)) /\ SF_vars(Disowned(c))
                          /\ SF_vars(RefuseBorrowed(c))
    /\ \A g \in Grants : WF_vars(Expire(g))

FairSpec == Spec /\ Scheduled

SweptSpec == FairSpec /\ Swept

-----------------------------------------------------------------------------
(***************************************************************************)
(* Properties.                                                             *)
(***************************************************************************)
\* A grant the vault does not hold escapes to no caller: what a caller
\* returns was stored first.
NoneUnpersisted == \A c \in Callers : answer[c] # None => answer[c] \in stored

\* A waiter reads what a concurrent refresh wrote: a grant whose replacement
\* is in the vault is not presented again.
BurntNotPresented == \A c \in Callers : pc[c] = "asking" => held[c] \notin burnt

\* Each part of the invariant that makes the rotation single-flight: the
\* caller inside the lock holds it, the vault holds no grant that was
\* replaced, and a new grant is nobody's until it is stored.
LockHeld == \A c \in Callers : pc[c] \in Locked => lock[Host[c]] = c

VaultCurrent ==
    /\ vault \in stored /\ vault \notin burnt
    /\ \A g \in burnt \cup {vault} : g <= issued

NewUnspent ==
    \A c \in Callers :
        /\ pc[c] \in {"asking", "storing", "stored"} =>
              held[c] # None /\ held[c] <= issued
        /\ pc[c] \in {"storing", "stored"} =>
              new[c] # None /\ new[c] <= issued /\ new[c] # held[c] /\ new[c] \notin burnt
        /\ pc[c] = "stored" => new[c] \in stored

(***************************************************************************)
(* What one process's refresh lock guarantees: no caller returns a grant   *)
(* the vault never held, and none presents a grant that a refresh already  *)
(* replaced.                                                               *)
(***************************************************************************)
RenewalInv ==
    /\ TypeOK
    /\ LockHeld
    /\ VaultCurrent
    /\ NewUnspent
    /\ NoneUnpersisted
    /\ BurntNotPresented

\* Whatever becomes of the lock's holder - a refusal, a failed write, an
\* unreadable vault - a caller that waits for the lock is answered.
WaiterAnswered ==
    \A c \in Callers : pc[c] = "lock" ~> pc[c] \in {"idle", "done"}

\* A grant that died unnoticed, in a crash between the rotation and its
\* write or in an answer that was lost, is found out: the ledger calls for a
\* sign-in unless a living grant is stored first.
DeadGrantNoticed ==
    \A p \in Processes :
        (vault \notin alive) ~> (vault \in alive \/ standing[p] # "active")

=============================================================================
