-------------------------- MODULE MembershipRemoval -------------------------
(***************************************************************************)
(* Members leaving and re-entering the pool while sessions lease them.     *)
(*                                                                         *)
(* A remover is one reconcile (account discovery), forget_member or        *)
(* reinstate_member call.  Reconciliation journals a member's removal,     *)
(* reads the journal back, looks at the lease register again and only then *)
(* takes the member out of the vault; forget_member looks at the register  *)
(* and then journals.  Neither holds the register's lock past its look.    *)
(*                                                                         *)
(* The takes, releases and reports are LeaseRegister's; retirement by an   *)
(* owner or by a refused fresh token, enrolment and what the vault's owner *)
(* does to it are the environment.                                         *)
(***************************************************************************)
EXTENDS LeaseRegister

CONSTANTS
    Removers,     \* calls that change membership
    RemoverOf     \* the gateway of such a call

ASSUME RemovalAssumption == RemoverOf \in [Removers -> Gateways]

VARIABLES
    stage,       \* where each remover stands
    subject,     \* the member it is about, or None
    looked,      \* the leases reconcile read before it started
    reinstated   \* removers whose subject was reinstated after they journaled it

removalVars == <<stage, subject, looked, reinstated>>
allVars == <<vars, removalVars>>

RemovalStages == {"idle", "reconciling", "journaled", "confirmed", "removing",
                  "unlisted", "unleased", "returning"}

RemovalTypeOK ==
    /\ TypeOK
    /\ stage \in [Removers -> RemovalStages]
    /\ subject \in [Removers -> Members \cup {None}]
    /\ looked \in [Removers -> SUBSET Leases]
    /\ reinstated \in SUBSET Removers

RemovalInit ==
    /\ Init
    /\ stage = [r \in Removers |-> "idle"]
    /\ subject = [r \in Removers |-> None]
    /\ looked = [r \in Removers |-> {}]
    /\ reinstated = {}

\* The call ends, refused or done.
End(r) ==
    /\ stage' = [stage EXCEPT ![r] = "idle"]
    /\ subject' = [subject EXCEPT ![r] = None]
    /\ looked' = [looked EXCEPT ![r] = {}]
    /\ reinstated' = reinstated \ {r}

Goto(r, s) == stage' = [stage EXCEPT ![r] = s]

\* usage::remove_subscription drops the member's row, its block with it, and
\* writes the ledger of this gateway out whole.
DropRow(r, m) ==
    LET g == RemoverOf[r] IN
    /\ blocked' = [blocked EXCEPT ![g][m] = 0]
    /\ ledgerFile' = blocked'[g]

-----------------------------------------------------------------------------
(***************************************************************************)
(* reconcile.  Which members are obsolete follows from recorded accounts;  *)
(* any member may be one.                                                  *)
(***************************************************************************)
ReconcileRead(r) ==
    /\ stage[r] = "idle"
    /\ lock = None
    /\ looked' = [looked EXCEPT ![r] = register]
    /\ Goto(r, "reconciling")
    /\ UNCHANGED <<vars, subject, reinstated>>

ReconcileJournal(r, m) ==
    /\ stage[r] = "reconciling"
    /\ OnMember(looked[r], m) = {}
    /\ retired' = retired \cup {m}
    /\ subject' = [subject EXCEPT ![r] = m]
    /\ reinstated' = reinstated \ {r}
    /\ Goto(r, "journaled")
    /\ UNCHANGED <<register, lock, listed, blocked, ledgerFile, now, taskVars, looked>>

\* Nothing obsolete is left, or a lease stood on the next one from the start.
ReconcileEnd(r) ==
    /\ stage[r] = "reconciling"
    /\ End(r)
    /\ UNCHANGED vars

\* The journal is read back: a removal that does not stand is refused.
ReconcileConfirm(r) ==
    /\ stage[r] = "journaled"
    /\ \/ /\ subject[r] \in retired
          /\ Goto(r, "confirmed")
          /\ UNCHANGED <<subject, looked, reinstated>>
       \/ subject[r] \notin retired /\ End(r)
    /\ UNCHANGED vars

\* Bug: the leases read at the start are taken for the leases of now.
RecheckStale(r) == OnMember(looked[r], subject[r]) = {}

\* leases::live under its lock.
RecheckFree(r) == lock = None /\ OnMember(register, subject[r]) = {}

ReconcileRecheck(r) ==
    /\ stage[r] = "confirmed"
    /\ RecheckFree(r)
    /\ Goto(r, "removing")
    /\ UNCHANGED <<vars, subject, looked, reinstated>>

\* "a session acquired its lease during reconciliation": retired, not removed.
ReconcileLeased(r) ==
    /\ stage[r] = "confirmed"
    /\ lock = None
    /\ OnMember(register, subject[r]) # {}
    /\ End(r)
    /\ UNCHANGED vars

ReconcileRemove(r) ==
    /\ stage[r] = "removing"
    /\ listed' = listed \ {subject[r]}
    /\ DropRow(r, subject[r])
    /\ subject' = [subject EXCEPT ![r] = None]
    /\ reinstated' = reinstated \ {r}
    /\ Goto(r, "reconciling")
    /\ UNCHANGED <<register, lock, retired, now, taskVars, looked>>

-----------------------------------------------------------------------------
(***************************************************************************)
(* forget_member: only for a member the vault does not list.               *)
(***************************************************************************)
ForgetList(r, m) ==
    /\ stage[r] = "idle"
    /\ m \notin listed
    /\ subject' = [subject EXCEPT ![r] = m]
    /\ Goto(r, "unlisted")
    /\ UNCHANGED <<vars, looked, reinstated>>

ForgetLook(r) ==
    /\ stage[r] = "unlisted"
    /\ lock = None
    /\ \/ /\ OnMember(register, subject[r]) = {}
          /\ Goto(r, "unleased")
          /\ UNCHANGED <<subject, looked, reinstated>>
       \/ OnMember(register, subject[r]) # {} /\ End(r)
    /\ UNCHANGED vars

ForgetJournal(r) ==
    /\ stage[r] = "unleased"
    /\ retired' = retired \cup {subject[r]}
    /\ DropRow(r, subject[r])
    /\ End(r)
    /\ UNCHANGED <<register, lock, listed, now, taskVars>>

-----------------------------------------------------------------------------
(***************************************************************************)
(* reinstate_member: for a listed member the journal calls retired.        *)
(***************************************************************************)
ReinstateList(r, m) ==
    /\ stage[r] = "idle"
    /\ m \in listed
    /\ m \in retired
    /\ subject' = [subject EXCEPT ![r] = m]
    /\ Goto(r, "returning")
    /\ UNCHANGED <<vars, looked, reinstated>>

ReinstateJournal(r) ==
    /\ stage[r] = "returning"
    /\ retired' = retired \ {subject[r]}
    /\ stage' = [stage EXCEPT ![r] = "idle"]
    /\ subject' = [subject EXCEPT ![r] = None]
    /\ looked' = [looked EXCEPT ![r] = {}]
    /\ reinstated' = reinstated \cup
          {q \in Removers : subject[q] = subject[r]
                            /\ stage[q] \in {"journaled", "confirmed", "removing"}}
    /\ UNCHANGED <<register, lock, listed, blocked, ledgerFile, now, taskVars>>

\* A read or a write fails, or the gateway of the call stopped.
RemovalFails(r) ==
    /\ stage[r] # "idle"
    /\ End(r)
    /\ UNCHANGED vars

\* An owner retires a member, or its fresh token was refused.
Retire(m) ==
    /\ retired' = retired \cup {m}
    /\ UNCHANGED <<register, lock, listed, blocked, ledgerFile, now, taskVars>>

Remove(r) ==
    \/ ReconcileRead(r) \/ ReconcileEnd(r) \/ ReconcileConfirm(r)
    \/ ReconcileRecheck(r) \/ ReconcileLeased(r) \/ ReconcileRemove(r)
    \/ ForgetLook(r) \/ ForgetJournal(r) \/ ReinstateJournal(r) \/ RemovalFails(r)
    \/ \E m \in Members :
          ReconcileJournal(r, m) \/ ForgetList(r, m) \/ ReinstateList(r, m)

LeaseStep ==
    \/ \E t \in Tasks : Ask(t) \/ Hold(t) \/ Step(t) \/ Unavailable(t)
    \/ \E g \in Gateways : Restart(g)
    \/ \E m \in Members : VaultChanges(m) \/ Retire(m)
    \/ Tick

RemovalNext ==
    \/ LeaseStep /\ UNCHANGED removalVars
    \/ \E r \in Removers : Remove(r)

RemovalSpec == RemovalInit /\ [][RemovalNext]_allVars

-----------------------------------------------------------------------------
(***************************************************************************)
(* Reconciliation takes a member out of the vault only while no session    *)
(* leases it, although takes it never sees run beside it: a take that read *)
(* the journal too early still holds the lock the second look waits for.   *)
(* The one exception is an operator who reinstated the member meanwhile.   *)
(***************************************************************************)
RemovalSparesLeased ==
    \A r \in Removers :
        stage[r] = "removing" /\ r \notin reinstated
            => OnMember(register, subject[r]) = {}

(***************************************************************************)
(* What forget/mod.rs says: forget_member refuses "a member a live session *)
(* still leases".                                                          *)
(***************************************************************************)
ForgetSparesLeased ==
    \A r \in Removers :
        stage[r] = "unleased" => OnMember(register, subject[r]) = {}

=============================================================================
