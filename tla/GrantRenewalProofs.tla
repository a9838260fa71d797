------------------------- MODULE GrantRenewalProofs -------------------------
(***************************************************************************)
(* One process, any number of callers and grants: the refresh lock makes   *)
(* the rotation single-flight, and no grant escapes that was not stored.   *)
(*                                                                         *)
(* RenewalInv is inductive.  A caller inside the lock is the only one      *)
(* there (LockHeld), so the grant it read from the vault is one nothing    *)
(* has replaced (VaultCurrent), and the one it was answered with is one    *)
(* nobody has spent (NewUnspent).  One lemma per step of a caller.         *)
(***************************************************************************)
EXTENDS GrantRenewal, TLAPS

USE RenewalAssumption DEF RenewalAssumption, Grants, States, Places, Locked, Modes,
                          provider, ledger, history, caller

\* A caller begins: it holds no grant and returns none yet.
LEMMA BeginKeeps ==
    ASSUME NEW p, Processes = {p}, RenewalInv, NEW c \in Callers, NEW m \in Modes, NEW place \in {"read", "gate", "lock"},
           Begin(c, m, place)
    PROVE  RenewalInv'
  <1>0. TypeOK /\ \A d \in Callers : Host[d] = p
    BY DEF RenewalInv
  <1>1. TypeOK'
    BY <1>0 DEF Begin, Goto, TypeOK
  <1>2. LockHeld' /\ VaultCurrent' /\ NewUnspent'
    BY <1>0 DEF Begin, Goto, RenewalInv, TypeOK, LockHeld, VaultCurrent, NewUnspent
  <1>3. NoneUnpersisted' /\ BurntNotPresented'
    BY <1>0 DEF Begin, Goto, RenewalInv, TypeOK, VaultCurrent, NoneUnpersisted,
                BurntNotPresented
  <1>. QED
    BY <1>1, <1>2, <1>3 DEF RenewalInv

\* A vault that answers no read.
LEMMA ReadFailsKeeps ==
    ASSUME NEW p, Processes = {p}, RenewalInv, NEW c \in Callers, ReadFails(c)
    PROVE  RenewalInv'
  <1>0. TypeOK /\ \A d \in Callers : Host[d] = p
    BY DEF RenewalInv
  <1>1. TypeOK'
    BY <1>0 DEF ReadFails, Return, Goto, TypeOK
  <1>2. LockHeld' /\ VaultCurrent' /\ NewUnspent'
    BY <1>0 DEF ReadFails, Return, Goto, RenewalInv, TypeOK, LockHeld, VaultCurrent, NewUnspent
  <1>3. NoneUnpersisted' /\ BurntNotPresented'
    BY <1>0 DEF ReadFails, Return, Goto, RenewalInv, TypeOK, VaultCurrent, NoneUnpersisted,
                BurntNotPresented
  <1>. QED
    BY <1>1, <1>2, <1>3 DEF RenewalInv

\* A request's grant is the vault's, which was stored.
LEMMA ReadUseKeeps ==
    ASSUME NEW p, Processes = {p}, RenewalInv, NEW c \in Callers, ReadUse(c)
    PROVE  RenewalInv'
  <1>0. TypeOK /\ \A d \in Callers : Host[d] = p
    BY DEF RenewalInv
  <1>1. TypeOK'
    BY <1>0 DEF ReadUse, Return, Move, Goto, TypeOK
  <1>2. LockHeld' /\ VaultCurrent' /\ NewUnspent'
    BY <1>0 DEF ReadUse, Return, Move, Goto, RenewalInv, TypeOK, LockHeld, VaultCurrent, NewUnspent
  <1>3. NoneUnpersisted' /\ BurntNotPresented'
    BY <1>0 DEF ReadUse, Return, Move, Goto, RenewalInv, TypeOK, VaultCurrent, NoneUnpersisted,
                BurntNotPresented
  <1>. QED
    BY <1>1, <1>2, <1>3 DEF RenewalInv

\* The sweep reads, and records what it read.
LEMMA ReadAheadKeeps ==
    ASSUME NEW p, Processes = {p}, RenewalInv, NEW c \in Callers, ReadAhead(c)
    PROVE  RenewalInv'
  <1>0. TypeOK /\ \A d \in Callers : Host[d] = p
    BY DEF RenewalInv
  <1>1. TypeOK'
    BY <1>0 DEF ReadAhead, Return, Move, Goto, Record, TypeOK
  <1>2. LockHeld' /\ VaultCurrent' /\ NewUnspent'
    BY <1>0 DEF ReadAhead, Return, Move, Goto, Record, RenewalInv, TypeOK, LockHeld, VaultCurrent, NewUnspent
  <1>3. NoneUnpersisted' /\ BurntNotPresented'
    BY <1>0 DEF ReadAhead, Return, Move, Goto, Record, RenewalInv, TypeOK, VaultCurrent, NoneUnpersisted,
                BurntNotPresented
  <1>. QED
    BY <1>1, <1>2, <1>3 DEF RenewalInv

\* The gate looks at the ledger alone.
LEMMA GateKeeps ==
    ASSUME NEW p, Processes = {p}, RenewalInv, NEW c \in Callers, Gate(c)
    PROVE  RenewalInv'
  <1>0. TypeOK /\ \A d \in Callers : Host[d] = p
    BY DEF RenewalInv
  <1>1. TypeOK'
    BY <1>0 DEF Gate, Return, Move, Goto, TypeOK
  <1>2. LockHeld' /\ VaultCurrent' /\ NewUnspent'
    BY <1>0 DEF Gate, Return, Move, Goto, RenewalInv, TypeOK, LockHeld, VaultCurrent, NewUnspent
  <1>3. NoneUnpersisted' /\ BurntNotPresented'
    BY <1>0 DEF Gate, Return, Move, Goto, RenewalInv, TypeOK, VaultCurrent, NoneUnpersisted,
                BurntNotPresented
  <1>. QED
    BY <1>1, <1>2, <1>3 DEF RenewalInv

\* Only a free lock is taken.
LEMMA LockKeeps ==
    ASSUME NEW p, Processes = {p}, RenewalInv, NEW c \in Callers, Lock(c)
    PROVE  RenewalInv'
  <1>0. TypeOK /\ \A d \in Callers : Host[d] = p
    BY DEF RenewalInv
  <1>1. TypeOK'
    BY <1>0 DEF Lock, Move, Goto, TypeOK
  <1>2. LockHeld' /\ VaultCurrent' /\ NewUnspent'
    BY <1>0 DEF Lock, Move, Goto, RenewalInv, TypeOK, LockHeld, VaultCurrent, NewUnspent
  <1>3. NoneUnpersisted' /\ BurntNotPresented'
    BY <1>0 DEF Lock, Move, Goto, RenewalInv, TypeOK, VaultCurrent, NoneUnpersisted,
                BurntNotPresented
  <1>. QED
    BY <1>1, <1>2, <1>3 DEF RenewalInv

\* Refused under the lock: an unreadable vault.
LEMMA RereadFailsKeeps ==
    ASSUME NEW p, Processes = {p}, RenewalInv, NEW c \in Callers, RereadFails(c)
    PROVE  RenewalInv'
  <1>0. TypeOK /\ \A d \in Callers : Host[d] = p
    BY DEF RenewalInv
  <1>1. TypeOK'
    BY <1>0 DEF RereadFails, Return, Goto, Unlock, TypeOK
  <1>2. LockHeld' /\ VaultCurrent' /\ NewUnspent'
    BY <1>0 DEF RereadFails, Return, Goto, Unlock, RenewalInv, TypeOK, LockHeld, VaultCurrent, NewUnspent
  <1>3. NoneUnpersisted' /\ BurntNotPresented'
    BY <1>0 DEF RereadFails, Return, Goto, Unlock, RenewalInv, TypeOK, VaultCurrent, NoneUnpersisted,
                BurntNotPresented
  <1>. QED
    BY <1>1, <1>2, <1>3 DEF RenewalInv

\* Refused under the lock: a harness's grant.
LEMMA RefuseBorrowedKeeps ==
    ASSUME NEW p, Processes = {p}, RenewalInv, NEW c \in Callers, RefuseBorrowed(c)
    PROVE  RenewalInv'
  <1>0. TypeOK /\ \A d \in Callers : Host[d] = p
    BY DEF RenewalInv
  <1>1. TypeOK'
    BY <1>0 DEF RefuseBorrowed, Return, Goto, Unlock, Record, TypeOK
  <1>2. LockHeld' /\ VaultCurrent' /\ NewUnspent'
    BY <1>0 DEF RefuseBorrowed, Return, Goto, Unlock, Record, RenewalInv, TypeOK, LockHeld, VaultCurrent, NewUnspent
  <1>3. NoneUnpersisted' /\ BurntNotPresented'
    BY <1>0 DEF RefuseBorrowed, Return, Goto, Unlock, Record, RenewalInv, TypeOK, VaultCurrent, NoneUnpersisted,
                BurntNotPresented
  <1>. QED
    BY <1>1, <1>2, <1>3 DEF RenewalInv

\* The grant another caller stored.
LEMMA FoundFreshKeeps ==
    ASSUME NEW p, Processes = {p}, RenewalInv, NEW c \in Callers, FoundFresh(c)
    PROVE  RenewalInv'
  <1>0. TypeOK /\ \A d \in Callers : Host[d] = p
    BY DEF RenewalInv
  <1>1. TypeOK'
    BY <1>0 DEF FoundFresh, Return, Goto, Unlock, TypeOK
  <1>2. LockHeld' /\ VaultCurrent' /\ NewUnspent'
    BY <1>0 DEF FoundFresh, Return, Goto, Unlock, RenewalInv, TypeOK, LockHeld, VaultCurrent, NewUnspent
  <1>3. NoneUnpersisted' /\ BurntNotPresented'
    BY <1>0 DEF FoundFresh, Return, Goto, Unlock, RenewalInv, TypeOK, VaultCurrent, NoneUnpersisted,
                BurntNotPresented
  <1>. QED
    BY <1>1, <1>2, <1>3 DEF RenewalInv

\* What is presented is the vault's grant, which nothing replaced.
LEMMA PresentKeeps ==
    ASSUME NEW p, Processes = {p}, RenewalInv, NEW c \in Callers, Present(c)
    PROVE  RenewalInv'
  <1>0. TypeOK /\ \A d \in Callers : Host[d] = p
    BY DEF RenewalInv
  <1>1. TypeOK'
    BY <1>0 DEF Present, Goto, TypeOK
  <1>2. LockHeld'
    BY <1>0 DEF Present, Goto, RenewalInv, TypeOK, LockHeld
  <1>3. VaultCurrent'
    BY <1>0 DEF Present, Goto, RenewalInv, TypeOK, NewUnspent, VaultCurrent
  <1>4. NewUnspent'
    BY <1>0 DEF Present, Goto, RenewalInv, TypeOK, LockHeld, VaultCurrent, NewUnspent
  <1>5. NoneUnpersisted'
    BY <1>0 DEF Present, Goto, RenewalInv, TypeOK, NewUnspent, NoneUnpersisted
  <1>6. BurntNotPresented'
    BY <1>0 DEF Present, Goto, RenewalInv, TypeOK, LockHeld, VaultCurrent, BurntNotPresented
  <1>. QED
    BY <1>1, <1>2, <1>3, <1>4, <1>5, <1>6 DEF RenewalInv

\* A new grant has a number nobody holds.
LEMMA AnsweredKeeps ==
    ASSUME NEW p, Processes = {p}, RenewalInv, NEW c \in Callers, Answered(c)
    PROVE  RenewalInv'
  <1>0. TypeOK /\ \A d \in Callers : Host[d] = p
    BY DEF RenewalInv
  <1>1. TypeOK'
    <2>1. issued + 1 \in Grants /\ issued' = issued + 1
      BY <1>0 DEF Answered, Rotate, TypeOK
    <2>2. alive' \in SUBSET Grants /\ fresh' \in SUBSET Grants
      BY <1>0, <2>1 DEF Answered, Rotate, TypeOK
    <2>3. pc' \in [Callers -> Places] /\ new' \in [Callers -> Grants \cup {None}]
      BY <1>0, <2>1 DEF Answered, Goto, TypeOK
    <2>. QED
      BY <1>0, <2>1, <2>2, <2>3 DEF Answered, TypeOK
  <1>2. LockHeld'
    BY <1>0 DEF Answered, Goto, Rotate, RenewalInv, TypeOK, LockHeld
  <1>3. VaultCurrent'
    BY <1>0 DEF Answered, Goto, Rotate, RenewalInv, TypeOK, NewUnspent, VaultCurrent
  <1>4. NewUnspent'
    BY <1>0 DEF Answered, Goto, Rotate, RenewalInv, TypeOK, LockHeld, VaultCurrent, NewUnspent
  <1>5. NoneUnpersisted'
    BY <1>0 DEF Answered, Goto, Rotate, RenewalInv, TypeOK, NewUnspent, NoneUnpersisted
  <1>6. BurntNotPresented'
    BY <1>0 DEF Answered, Goto, Rotate, RenewalInv, TypeOK, LockHeld, VaultCurrent, BurntNotPresented
  <1>. QED
    BY <1>1, <1>2, <1>3, <1>4, <1>5, <1>6 DEF RenewalInv

\* Refused by the provider.
LEMMA DisownedKeeps ==
    ASSUME NEW p, Processes = {p}, RenewalInv, NEW c \in Callers, Disowned(c)
    PROVE  RenewalInv'
  <1>0. TypeOK /\ \A d \in Callers : Host[d] = p
    BY DEF RenewalInv
  <1>1. TypeOK'
    <2>1. held[c] \in Grants
      BY <1>0 DEF Disowned, RenewalInv, NewUnspent, TypeOK
    <2>. QED
      BY <1>0, <2>1 DEF Disowned, Return, Goto, Unlock, Record, TypeOK
  <1>2. LockHeld' /\ VaultCurrent' /\ NewUnspent'
    BY <1>0 DEF Disowned, Return, Goto, Unlock, Record, RenewalInv, TypeOK, LockHeld, VaultCurrent, NewUnspent
  <1>3. NoneUnpersisted' /\ BurntNotPresented'
    BY <1>0 DEF Disowned, Return, Goto, Unlock, Record, RenewalInv, TypeOK, VaultCurrent, NoneUnpersisted,
                BurntNotPresented
  <1>. QED
    BY <1>1, <1>2, <1>3 DEF RenewalInv

\* Without an answer, whatever the provider did.
LEMMA TransientKeeps ==
    ASSUME NEW p, Processes = {p}, RenewalInv, NEW c \in Callers, Transient(c)
    PROVE  RenewalInv'
  <1>0. TypeOK /\ \A d \in Callers : Host[d] = p
    BY DEF RenewalInv
  <1>1. TypeOK'
    <2>1. issued' \in Grants /\ alive' \in SUBSET Grants /\ fresh' \in SUBSET Grants
      <3>1. CASE Rotate(held[c], FALSE)
        <4>1. issued + 1 \in Grants
          BY <1>0, <3>1 DEF Rotate, TypeOK
        <4>. QED
          BY <1>0, <3>1, <4>1 DEF Rotate, TypeOK
      <3>2. CASE UNCHANGED provider
        BY <1>0, <3>2 DEF TypeOK
      <3>. QED
        BY <3>1, <3>2 DEF Transient
    <2>2. /\ pc' \in [Callers -> Places] /\ mode' \in [Callers -> Modes]
          /\ held' \in [Callers -> Grants \cup {None}]
          /\ new' \in [Callers -> Grants \cup {None}]
          /\ answer' \in [Callers -> Grants \cup {None}]
          /\ lock' \in [Processes -> Callers \cup {None}]
      BY <1>0 DEF Transient, Return, Goto, Unlock, TypeOK
    <2>. QED
      BY <1>0, <2>1, <2>2 DEF Transient, TypeOK
  <1>2. LockHeld'
    BY <1>0 DEF Transient, Return, Goto, Unlock, Rotate, RenewalInv, TypeOK, LockHeld
  <1>3. VaultCurrent'
    BY <1>0 DEF Transient, Return, Goto, Unlock, Rotate, RenewalInv, TypeOK, NewUnspent, VaultCurrent
  <1>4. NewUnspent'
    BY <1>0 DEF Transient, Return, Goto, Unlock, Rotate, RenewalInv, TypeOK, LockHeld, VaultCurrent, NewUnspent
  <1>5. NoneUnpersisted'
    BY <1>0 DEF Transient, Return, Goto, Unlock, Rotate, RenewalInv, TypeOK, NewUnspent, NoneUnpersisted
  <1>6. BurntNotPresented'
    BY <1>0 DEF Transient, Return, Goto, Unlock, Rotate, RenewalInv, TypeOK, LockHeld, VaultCurrent, BurntNotPresented
  <1>. QED
    BY <1>1, <1>2, <1>3, <1>4, <1>5, <1>6 DEF RenewalInv

\* The caller inside the lock is alone there, so nobody is presenting the
\* grant that becomes burnt and nobody else waits to store.
LEMMA StoreKeeps ==
    ASSUME NEW p, Processes = {p}, RenewalInv, NEW c \in Callers, Store(c)
    PROVE  RenewalInv'
  <1>0. TypeOK /\ \A d \in Callers : Host[d] = p
    BY DEF RenewalInv
  <1>1. TypeOK'
    <2>1. held[c] \in Grants /\ new[c] \in Grants
      BY <1>0 DEF Store, RenewalInv, NewUnspent, TypeOK
    <2>. QED
      BY <1>0, <2>1 DEF Store, Move, Goto, TypeOK
  <1>2. LockHeld'
    BY <1>0 DEF Store, Move, Goto, RenewalInv, TypeOK, LockHeld
  <1>3. VaultCurrent'
    BY <1>0 DEF Store, Move, Goto, RenewalInv, TypeOK, NewUnspent, VaultCurrent
  <1>4. NewUnspent'
    BY <1>0 DEF Store, Move, Goto, RenewalInv, TypeOK, LockHeld, VaultCurrent, NewUnspent
  <1>5. NoneUnpersisted'
    BY <1>0 DEF Store, Move, Goto, RenewalInv, TypeOK, NewUnspent, NoneUnpersisted
  <1>6. BurntNotPresented'
    BY <1>0 DEF Store, Move, Goto, RenewalInv, TypeOK, LockHeld, VaultCurrent, BurntNotPresented
  <1>. QED
    BY <1>1, <1>2, <1>3, <1>4, <1>5, <1>6 DEF RenewalInv

\* A new grant that could not be stored is returned to nobody.
LEMMA StoreFailsKeeps ==
    ASSUME NEW p, Processes = {p}, RenewalInv, NEW c \in Callers, StoreFails(c)
    PROVE  RenewalInv'
  <1>0. TypeOK /\ \A d \in Callers : Host[d] = p
    BY DEF RenewalInv
  <1>1. TypeOK'
    BY <1>0 DEF StoreFails, Return, Goto, Unlock, Record, TypeOK
  <1>2. LockHeld' /\ VaultCurrent' /\ NewUnspent'
    BY <1>0 DEF StoreFails, Return, Goto, Unlock, Record, RenewalInv, TypeOK, LockHeld, VaultCurrent, NewUnspent
  <1>3. NoneUnpersisted' /\ BurntNotPresented'
    BY <1>0 DEF StoreFails, Return, Goto, Unlock, Record, RenewalInv, TypeOK, VaultCurrent, NoneUnpersisted,
                BurntNotPresented
  <1>. QED
    BY <1>1, <1>2, <1>3 DEF RenewalInv

\* The grant returned is the one stored.
LEMMA FinishKeeps ==
    ASSUME NEW p, Processes = {p}, RenewalInv, NEW c \in Callers, Finish(c)
    PROVE  RenewalInv'
  <1>0. TypeOK /\ \A d \in Callers : Host[d] = p
    BY DEF RenewalInv
  <1>1. TypeOK'
    BY <1>0 DEF Finish, Return, Goto, Unlock, Record, TypeOK
  <1>2. LockHeld'
    BY <1>0 DEF Finish, Return, Goto, Unlock, Record, RenewalInv, TypeOK, LockHeld
  <1>3. VaultCurrent'
    BY <1>0 DEF Finish, Return, Goto, Unlock, Record, RenewalInv, TypeOK, NewUnspent, VaultCurrent
  <1>4. NewUnspent'
    BY <1>0 DEF Finish, Return, Goto, Unlock, Record, RenewalInv, TypeOK, LockHeld, VaultCurrent, NewUnspent
  <1>5. NoneUnpersisted'
    BY <1>0 DEF Finish, Return, Goto, Unlock, Record, RenewalInv, TypeOK, NewUnspent, NoneUnpersisted
  <1>6. BurntNotPresented'
    BY <1>0 DEF Finish, Return, Goto, Unlock, Record, RenewalInv, TypeOK, LockHeld, VaultCurrent, BurntNotPresented
  <1>. QED
    BY <1>1, <1>2, <1>3, <1>4, <1>5, <1>6 DEF RenewalInv

-----------------------------------------------------------------------------
\* A sign-in stores a grant with a number nobody holds.
LEMMA SignInKeeps ==
    ASSUME NEW p, Processes = {p}, RenewalInv, SignIn(p)
    PROVE  RenewalInv'
  <1>0. TypeOK
    BY DEF RenewalInv
  <1>1. TypeOK'
    <2>1. issued + 1 \in Grants
      BY <1>0 DEF SignIn, TypeOK
    <2>. QED
      BY <1>0, <2>1 DEF SignIn, TypeOK
  <1>2. LockHeld' /\ VaultCurrent' /\ NewUnspent'
    BY <1>0 DEF SignIn, RenewalInv, TypeOK, LockHeld, VaultCurrent, NewUnspent
  <1>3. NoneUnpersisted' /\ BurntNotPresented'
    BY <1>0 DEF SignIn, RenewalInv, TypeOK, NoneUnpersisted, BurntNotPresented
  <1>. QED
    BY <1>1, <1>2, <1>3 DEF RenewalInv

\* A crash leaves nobody inside the lock.
LEMMA CrashKeeps ==
    ASSUME NEW p, Processes = {p}, RenewalInv, Crash(p)
    PROVE  RenewalInv'
  <1>0. TypeOK /\ \A d \in Callers : Host[d] = p
    BY DEF RenewalInv
  <1>1. TypeOK'
    BY <1>0 DEF Crash, TypeOK
  <1>2. \A d \in Callers : pc'[d] = "idle" /\ answer'[d] = None
    BY <1>0 DEF Crash
  <1>3. VaultCurrent'
    BY DEF Crash, RenewalInv, VaultCurrent
  <1>. QED
    BY <1>1, <1>2, <1>3 DEF RenewalInv, LockHeld, NewUnspent, NoneUnpersisted, BurntNotPresented

\* What only the ledger or the provider's record of old grants sees.
LEMMA BesideKeeps ==
    ASSUME NEW p, Processes = {p}, RenewalInv,
           \/ SignedIn(p) \/ CallSucceeds(p) \/ Retire(p) \/ Reinstate(p)
           \/ \E g \in Grants : Expire(g) \/ Revoke(g)
    PROVE  RenewalInv'
  <1>0. TypeOK
    BY DEF RenewalInv
  <1>1. TypeOK'
    BY <1>0 DEF SignedIn, CallSucceeds, Retire, Reinstate, Expire, Revoke, Record, TypeOK
  <1>2. UNCHANGED <<vault, issued, lock, caller, history>>
    BY DEF SignedIn, CallSucceeds, Retire, Reinstate, Expire, Revoke
  <1>. QED
    BY <1>1, <1>2 DEF RenewalInv, LockHeld, VaultCurrent, NewUnspent, NoneUnpersisted,
                      BurntNotPresented

\* Every step, a stutter included.
LEMMA RenewalStep ==
    ASSUME NEW p, Processes = {p}, RenewalInv, [Next]_vars
    PROVE  RenewalInv'
  <1>1. ASSUME NEW c \in Callers, Call(c) PROVE RenewalInv'
    <2>1. CASE StartUse(c) \/ StartForced(c) \/ StartRetry(c) \/ StartAhead(c)
      BY <2>1, BeginKeeps DEF StartUse, StartForced, StartRetry, StartAhead
    <2>. QED
      BY <1>1, <2>1, ReadFailsKeeps, ReadUseKeeps, ReadAheadKeeps, GateKeeps, LockKeeps,
         RereadFailsKeeps, RefuseBorrowedKeeps, FoundFreshKeeps, PresentKeeps,
         AnsweredKeeps, DisownedKeeps, TransientKeeps, StoreKeeps, StoreFailsKeeps,
         FinishKeeps DEF Call
  <1>2. CASE UNCHANGED vars
    BY <1>2 DEF vars, RenewalInv, TypeOK, LockHeld, VaultCurrent, NewUnspent,
                NoneUnpersisted, BurntNotPresented
  <1>. QED
    BY <1>1, <1>2, SignInKeeps, CrashKeeps, BesideKeeps DEF Next

(***************************************************************************)
(* For any callers of one process, any number of rotations, sign-ins,      *)
(* failed writes and crashes: RenewalInv, and with it that no caller       *)
(* returns a grant the vault never held and none presents a grant that a   *)
(* refresh already replaced.                                               *)
(***************************************************************************)
THEOREM RenewalInvariant ==
    ASSUME NEW CONSTANT p, Processes = {p}
    PROVE  Spec => []RenewalInv
  <1>1. Init => RenewalInv
    BY DEF Init, RenewalInv, TypeOK, LockHeld, VaultCurrent, NewUnspent, NoneUnpersisted,
           BurntNotPresented
  <1>2. RenewalInv /\ [Next]_vars => RenewalInv'
    BY RenewalStep
  <1>. QED
    BY <1>1, <1>2, PTL DEF Spec

\* What broker.rs promises at the final-use boundary: no unpersisted rotation
\* escapes to a caller.
COROLLARY NoneUnpersistedEver ==
    ASSUME NEW CONSTANT p, Processes = {p}
    PROVE  Spec => []NoneUnpersisted
  <1>1. RenewalInv => NoneUnpersisted
    BY DEF RenewalInv
  <1>. QED
    BY <1>1, RenewalInvariant, PTL

=============================================================================
