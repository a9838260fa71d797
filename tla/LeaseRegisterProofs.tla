------------------------ MODULE LeaseRegisterProofs -------------------------
(***************************************************************************)
(* Proofs about LeaseRegister for any number of gateways, calls, sessions, *)
(* agents, providers and members: no member carries more sessions than its *)
(* limit, no identity's session holds two leases on a provider, and no     *)
(* lease is lost that its owner or the console did not end.  The last      *)
(* sections are about MembershipRemoval, that a removal spares a member    *)
(* somebody leases, and about LeaseReport, that a gateway's leases avoid   *)
(* the members it was told are refused.                                    *)
(***************************************************************************)
EXTENDS MembershipRemoval, LeaseReport, FiniteSetTheorems, TLAPS

(***************************************************************************)
(* A returning call leaves well-typed task state behind.                   *)
(***************************************************************************)
LEMMA ReturnTyped ==
    ASSUME TypeOK, NEW t \in Tasks, Return(t)
    PROVE  /\ pc' \in [Tasks -> Stages]
           /\ call' \in [Tasks -> Calls]
           /\ entries' \in [Tasks -> SUBSET Members]
           /\ seen' \in [Tasks -> SUBSET Leases]
           /\ chosen' \in [Tasks -> Leases \cup {None}]
           /\ retaken' \in [Tasks -> BOOLEAN]
           /\ todo' \in [Tasks -> SUBSET Leases]
<1>1. NoCall \in Calls
  BY DEF NoCall, Asking, Calls, Callers
<1>2. /\ pc' \in [Tasks -> Stages]
      /\ call' \in [Tasks -> Calls]
      /\ entries' \in [Tasks -> SUBSET Members]
      /\ seen' \in [Tasks -> SUBSET Leases]
  BY <1>1 DEF TypeOK, Return, Stages
<1>3. /\ chosen' \in [Tasks -> Leases \cup {None}]
      /\ todo' \in [Tasks -> SUBSET Leases]
  BY DEF TypeOK, Return
<1>4. retaken' \in [Tasks -> BOOLEAN]
  BY DEF TypeOK, Return
<1> QED
  BY <1>2, <1>3, <1>4

(***************************************************************************)
(* What a lease id names is an id.                                         *)
(***************************************************************************)
LEMMA LeaseIdTyped ==
    ASSUME NEW l \in Leases
    PROVE  LeaseId(l) \in Ids
BY LeaseAssumption DEF Leases, LeaseId, Ids

(***************************************************************************)
(* Types with what a take needs to keep them: its call names a session and *)
(* a provider, and the lease it is about to write is one.                  *)
(***************************************************************************)
TypedInv ==
    /\ TypeOK
    /\ AskedInv
    /\ \A t \in Tasks : pc[t] = "persisting" => chosen[t] \in Leases

(***************************************************************************)
(* A returning call no longer asks for anything.                           *)
(***************************************************************************)
LEMMA ReturnAsked ==
    ASSUME TypedInv, NEW t \in Tasks, Return(t)
    PROVE  /\ AskedInv'
           /\ \A u \in Tasks : pc'[u] = "persisting" => chosen'[u] \in Leases
<1>1. pc'[t] = "idle" /\ \A u \in Tasks \ {t} : pc'[u] = pc[u]
  BY DEF TypedInv, TypeOK, Return
<1>2. \A u \in Tasks \ {t} : call'[u] = call[u] /\ chosen'[u] = chosen[u]
  BY DEF TypedInv, TypeOK, Return
<1> QED
  BY <1>1, <1>2 DEF TypedInv, AskedInv

(***************************************************************************)
(* Every step of every call, restart and change around them keeps types.   *)
(***************************************************************************)
LEMMA TypedStep ==
    ASSUME TypedInv, [Next]_vars
    PROVE  TypedInv'
<1> USE DEF poolVars, sharedVars, taskVars
<1>1. CASE UNCHANGED vars
  BY <1>1 DEF vars, TypedInv, TypeOK, AskedInv
<1>2. ASSUME NEW t \in Tasks, TakeList(t) PROVE TypedInv'
  <2>1. PICK s \in Sessions, p \in Providers, a \in Callers :
           call' = [call EXCEPT ![t] =
                      Asking(s, p, a, None, 0)]
    BY <1>2 DEF TakeList
  <2>2. /\ call' \in [Tasks -> Calls]
        /\ call'[t].session = s /\ call'[t].provider = p
        /\ \A u \in Tasks \ {t} : call'[u] = call[u]
    BY <2>1 DEF TypedInv, TypeOK, Asking, Calls
  <2>3. TypeOK'
    BY <1>2, <2>2 DEF TakeList, TypedInv, TypeOK, Stages
  <2>4. pc'[t] = "listed" /\ \A u \in Tasks \ {t} : pc'[u] = pc[u]
    BY <1>2 DEF TakeList, TypedInv, TypeOK
  <2> QED
    BY <1>2, <2>2, <2>3, <2>4 DEF TakeList, TypedInv, AskedInv
<1>3. ASSUME NEW t \in Tasks, TakeHold(t) \/ ReleaseHold(t) PROVE TypedInv'
  <2>1. TypeOK'
    BY <1>3 DEF TakeHold, ReleaseHold, TypedInv, TypeOK, Stages
  <2> QED
    BY <1>3, <2>1 DEF TakeHold, ReleaseHold, TypedInv, TypeOK, AskedInv
<1>4. ASSUME NEW t \in Tasks,
             TakeStanding(t) \/ ReleaseForeign(t) \/ Unavailable(t)
      PROVE  TypedInv'
  <2>1. TypeOK'
    BY <1>4, ReturnTyped
       DEF TakeStanding, ReleaseForeign, Unavailable, Release, TypedInv, TypeOK
  <2> QED
    BY <1>4, <2>1, ReturnAsked DEF TakeStanding, ReleaseForeign, Unavailable, TypedInv
<1>5. ASSUME NEW t \in Tasks, TakeRefused(t) PROVE TypedInv'
  <2>1. CASE ~retaken[t]
    <3>1. TypeOK'
      BY <1>5, <2>1 DEF TakeRefused, Release, TypedInv, TypeOK, Stages
    <3> QED
      BY <1>5, <2>1, <3>1 DEF TakeRefused, TypedInv, TypeOK, AskedInv
  <2>2. CASE retaken[t]
    <3>1. TypeOK'
      BY <1>5, <2>2, ReturnTyped DEF TakeRefused, Release, TypedInv, TypeOK
    <3> QED
      BY <1>5, <2>2, <3>1, ReturnAsked DEF TakeRefused, TypedInv
  <2> QED
    BY <2>1, <2>2
<1>6. ASSUME NEW t \in Tasks, TakeChoose(t) PROVE TypedInv'
  <2>1. PICK m \in Members :
           chosen' = [chosen EXCEPT ![t] =
                        [session |-> call[t].session, member |-> m,
                         agent |-> call[t].agent, at |-> now]]
    BY <1>6 DEF TakeChoose, Fewest, WithRoom, Usable, TypedInv, TypeOK
  <2>2. chosen'[t] \in Leases /\ chosen' \in [Tasks -> Leases \cup {None}]
    <3>1. call[t].session \in Sessions /\ call[t].agent \in Callers /\ now \in Instants
      BY <1>6 DEF TakeChoose, TypedInv, TypeOK, AskedInv, Calls
    <3> QED
      BY <2>1, <3>1 DEF TypedInv, TypeOK, Leases
  <2>3. TypeOK'
    BY <1>6, <2>2 DEF TakeChoose, TypedInv, TypeOK, Stages
  <2> QED
    BY <1>6, <2>1, <2>2, <2>3 DEF TakeChoose, TypedInv, TypeOK, AskedInv
<1>7. ASSUME NEW t \in Tasks, TakePersist(t) PROVE TypedInv'
  <2>1. register' \in SUBSET Leases
    BY <1>7 DEF TakePersist, TypedInv, TypeOK
  <2>2. TypeOK'
    BY <1>7, <2>1, ReturnTyped DEF TakePersist, Release, TypedInv, TypeOK
  <2> QED
    BY <1>7, <2>2, ReturnAsked DEF TakePersist, TypedInv
<1>8. ASSUME NEW t \in Tasks, Retake(t) PROVE TypedInv'
  <2>1. retaken' \in [Tasks -> BOOLEAN]
    BY <1>8 DEF Retake, TypedInv, TypeOK
  <2>2. TypeOK'
    BY <1>8, <2>1 DEF Retake, TypedInv, TypeOK, Stages
  <2> QED
    BY <1>8, <2>2 DEF Retake, TypedInv, TypeOK, AskedInv
<1>9. ASSUME NEW t \in Tasks, AcquireRefused(t) PROVE TypedInv'
  <2>1. TypeOK'
    BY <1>9, ReturnTyped DEF AcquireRefused, TypedInv, TypeOK
  <2> QED
    BY <1>9, <2>1, ReturnAsked DEF AcquireRefused, TypedInv
<1>10. ASSUME NEW t \in Tasks, ReleaseAsk(t) PROVE TypedInv'
  <2>1. \A a \in Callers :
           /\ \A i \in Ids : Asking(None, None, a, i, 0) \in Calls
           /\ \A s \in Sessions : Asking(s, None, a, None, 0) \in Calls
    BY DEF Asking, Calls
  <2>5. PICK a \in Callers :
           \/ \E i \in Ids : call' = [call EXCEPT ![t] = Asking(None, None, a, i, 0)]
           \/ \E s \in Sessions :
                 call' = [call EXCEPT ![t] = Asking(s, None, a, None, 0)]
    BY <1>10 DEF ReleaseAsk
  <2>2. \E c \in Calls : call' = [call EXCEPT ![t] = c]
    <3>1. CASE \E i \in Ids :
                  call' = [call EXCEPT ![t] = Asking(None, None, a, i, 0)]
      BY <2>1, <3>1
    <3>2. CASE \E s \in Sessions :
                  call' = [call EXCEPT ![t] = Asking(s, None, a, None, 0)]
      BY <2>1, <3>2
    <3> QED
      BY <2>5, <3>1, <3>2
  <2>4. call' \in [Tasks -> Calls] /\ \A u \in Tasks \ {t} : call'[u] = call[u]
    BY <2>2 DEF TypedInv, TypeOK
  <2>3. TypeOK'
    BY <1>10, <2>4 DEF ReleaseAsk, TypedInv, TypeOK, Stages
  <2> QED
    BY <1>10, <2>4, <2>3 DEF ReleaseAsk, TypedInv, TypeOK, AskedInv
<1>11. ASSUME NEW t \in Tasks, ReleasePersist(t) PROVE TypedInv'
  <2>1. register' \in SUBSET Leases
    BY <1>11 DEF ReleasePersist, TypedInv, TypeOK
  <2>2. CASE todo[t] = {}
    <3>1. TypeOK'
      BY <1>11, <2>1, <2>2, ReturnTyped DEF ReleasePersist, Release, TypedInv, TypeOK
    <3> QED
      BY <1>11, <2>2, <3>1, ReturnAsked DEF ReleasePersist, TypedInv
  <2>3. CASE todo[t] # {}
    <3>1. TypeOK'
      BY <1>11, <2>1, <2>3 DEF ReleasePersist, Release, TypedInv, TypeOK, Stages
    <3> QED
      BY <1>11, <2>3, <3>1 DEF ReleasePersist, TypedInv, TypeOK, AskedInv
  <2> QED
    BY <2>2, <2>3
<1>12. ASSUME NEW t \in Tasks, ReportRead(t) PROVE TypedInv'
  <2>1. PICK s \in Sessions, p \in Providers, a \in Callers, w \in Instants :
           LET c == Asking(s, p, a, None, w)
           IN /\ call' = [call EXCEPT ![t] = c]
              /\ todo' = [todo EXCEPT ![t] = Standing(register, c)]
    BY <1>12 DEF ReportRead
  <2>2. /\ call' \in [Tasks -> Calls]
        /\ todo' \in [Tasks -> SUBSET Leases]
        /\ \A u \in Tasks \ {t} : call'[u] = call[u]
    BY <2>1, LeaseAssumption DEF TypedInv, TypeOK, Asking, Calls, Standing, Instants
  <2>3. TypeOK'
    BY <1>12, <2>2 DEF ReportRead, TypedInv, TypeOK, Stages
  <2> QED
    BY <1>12, <2>2, <2>3 DEF ReportRead, TypedInv, TypeOK, AskedInv
<1>13. ASSUME NEW t \in Tasks, ReportBlock(t) PROVE TypedInv'
  <2>1. PICK l \in todo[t] :
           /\ blocked' = [blocked EXCEPT ![GatewayOf[t]][l.member] = call[t].until]
           /\ call' = [call EXCEPT ![t] =
                          Asking(None, @.provider, @.agent, LeaseId(l), @.until)]
           /\ todo' = [todo EXCEPT ![t] = @ \ {l}]
    BY <1>13 DEF ReportBlock
  <2>2. l \in Leases /\ l.member \in Members /\ LeaseId(l) \in Ids
    BY LeaseIdTyped DEF TypedInv, TypeOK, Leases
  <2>3. blocked' \in [Gateways -> [Members -> Int]]
    BY <2>1, <2>2 DEF TypedInv, TypeOK, Calls
  <2>4. ledgerFile' \in [Members -> Int]
    BY <1>13, <2>3, LeaseAssumption DEF ReportBlock
  <2>5. /\ call' \in [Tasks -> Calls]
        /\ \A u \in Tasks \ {t} : call'[u] = call[u]
    BY <2>1, <2>2 DEF TypedInv, TypeOK, Calls, Asking
  <2>6. TypeOK'
    BY <1>13, <2>1, <2>3, <2>4, <2>5 DEF ReportBlock, TypedInv, TypeOK, Stages
  <2> QED
    BY <1>13, <2>5, <2>6 DEF ReportBlock, TypedInv, TypeOK, AskedInv
<1>14. ASSUME NEW g \in Gateways, Restart(g) PROVE TypedInv'
  <2>1. NoCall \in Calls
    BY DEF NoCall, Asking, Calls, Callers
  <2>2. /\ pc' \in [Tasks -> Stages] /\ call' \in [Tasks -> Calls]
        /\ entries' \in [Tasks -> SUBSET Members]
        /\ seen' \in [Tasks -> SUBSET Leases]
        /\ chosen' \in [Tasks -> Leases \cup {None}]
        /\ todo' \in [Tasks -> SUBSET Leases]
        /\ lock' \in Tasks \cup {None}
        /\ blocked' \in [Gateways -> [Members -> Int]]
    BY <1>14, <2>1 DEF Restart, TypedInv, TypeOK, Stages
  <2>3. retaken' \in [Tasks -> BOOLEAN]
    BY <1>14 DEF Restart, TypedInv, TypeOK
  <2>4. TypeOK'
    BY <1>14, <2>2, <2>3 DEF Restart, TypedInv, TypeOK
  <2> QED
    BY <1>14, <2>4 DEF Restart, TypedInv, TypeOK, AskedInv
<1>15. ASSUME Environment PROVE TypedInv'
  <2>1. TypeOK'
    BY <1>15, LeaseAssumption
       DEF Environment, VaultChanges, JournalChanges, Tick, TypedInv, TypeOK, Instants
  <2> QED
    BY <1>15, <2>1 DEF Environment, VaultChanges, JournalChanges, Tick, TypedInv, AskedInv
<1> QED
  BY <1>1, <1>2, <1>3, <1>4, <1>5, <1>6, <1>7, <1>8, <1>9, <1>10, <1>11, <1>12,
     <1>13, <1>14, <1>15 DEF Next, Ask, Hold, Step

(***************************************************************************)
(* A register nobody has asked of yet is well typed.                       *)
(***************************************************************************)
LEMMA InitTyped == Init => TypedInv
<1>1. NoCall \in Calls /\ 0 \in Instants
  BY LeaseAssumption DEF NoCall, Asking, Calls, Callers, Instants
<1> QED
  BY <1>1 DEF Init, TypedInv, TypeOK, AskedInv, Stages

(***************************************************************************)
(* Every reachable state is well typed.                                    *)
(***************************************************************************)
THEOREM TypeCorrect == Spec => [](TypeOK /\ TypedInv)
<1>1. Init => TypedInv
  BY InitTyped
<1>2. TypedInv /\ [Next]_vars => TypedInv'
  BY TypedStep
<1>3. TypedInv => TypeOK
  BY DEF TypedInv
<1> QED
  BY <1>1, <1>2, <1>3, PTL DEF Spec

(***************************************************************************)
(* The inductive invariant.  The calls that decide hold the lock, so there *)
(* is at most one of them.                                                 *)
(***************************************************************************)
LEMMA OneDecider ==
    ASSUME HoldInv, NEW t \in Tasks, pc[t] \in Deciding
    PROVE  lock = t /\ \A u \in Tasks \ {t} : pc[u] \notin Deciding
BY DEF HoldInv

(***************************************************************************)
(* A step that leaves the register as it is keeps what is said about it.   *)
(***************************************************************************)
LEMMA RegisterKept ==
    ASSUME LeaseInv, UNCHANGED register
    PROVE  /\ IsFiniteSet(register)' /\ WithinLimit' /\ OneStanding'
           /\ \A l : Fits(l) <=> Fits(l)'
BY DEF LeaseInv, WithinLimit, OneStanding, Fits, Carried, OnMember

(***************************************************************************)
(* A call that ends without a write keeps the invariant.                   *)
(***************************************************************************)
LEMMA ReturnKeeps ==
    ASSUME TypedInv, TypedInv', LeaseInv, NEW t \in Tasks, Return(t), Release(t),
           UNCHANGED register
    PROVE  LeaseInv'
<1>1. /\ pc'[t] = "idle"
      /\ \A u \in Tasks \ {t} : /\ pc'[u] = pc[u] /\ seen'[u] = seen[u]
                               /\ chosen'[u] = chosen[u]
  BY DEF TypedInv, TypeOK, Return
<1>2. HoldInv'
  BY <1>1, LeaseAssumption DEF LeaseInv, HoldInv, Release, Deciding
<1>3. FreshInv'
  BY <1>1 DEF LeaseInv, FreshInv, Deciding
<1>4. ChosenInv'
  BY <1>1, RegisterKept DEF LeaseInv, ChosenInv
<1> QED
  BY <1>2, <1>3, <1>4, RegisterKept DEF LeaseInv, TypedInv

(***************************************************************************)
(* A call that moves on between stages that do not hold the lock keeps the *)
(* invariant.                                                              *)
(***************************************************************************)
LEMMA WaitingKeeps ==
    ASSUME TypedInv, TypedInv', LeaseInv, NEW t \in Tasks,
           pc[t] \notin Deciding, NEW s \in Stages \ Deciding,
           pc' = [pc EXCEPT ![t] = s],
           UNCHANGED <<register, lock, seen, chosen>>
    PROVE  LeaseInv'
<1>1. pc'[t] = s /\ \A u \in Tasks \ {t} : pc'[u] = pc[u]
  BY DEF TypedInv, TypeOK
<1>2. HoldInv' /\ FreshInv'
  BY <1>1 DEF LeaseInv, HoldInv, FreshInv
<1>3. ChosenInv'
  BY <1>1, RegisterKept DEF LeaseInv, ChosenInv, Deciding
<1> QED
  BY <1>2, <1>3, RegisterKept DEF LeaseInv, TypedInv

(***************************************************************************)
(* Taking the lock and reading the register keeps the invariant.           *)
(***************************************************************************)
LEMMA HoldKeeps ==
    ASSUME TypedInv, TypedInv', LeaseInv, NEW t \in Tasks, Hold(t)
    PROVE  LeaseInv'
<1>1. /\ lock = None /\ lock' = t
      /\ pc'[t] \in {"admitting", "ending"} /\ seen'[t] = register
      /\ \A u \in Tasks \ {t} : pc'[u] = pc[u]
      /\ UNCHANGED <<register, chosen>>
  BY DEF Hold, TakeHold, ReleaseHold, LockGranted, TypedInv, TypeOK, poolVars
<1>2. \A u \in Tasks : pc[u] \notin Deciding
  BY <1>1, LeaseAssumption DEF LeaseInv, HoldInv
<1>3. HoldInv' /\ FreshInv'
  BY <1>1, <1>2 DEF HoldInv, FreshInv, Deciding
<1>4. ChosenInv'
  BY <1>1, <1>2, RegisterKept DEF LeaseInv, ChosenInv, Deciding
<1> QED
  BY <1>1, <1>3, <1>4, RegisterKept DEF LeaseInv, TypedInv

(***************************************************************************)
(* The lease a take chose fits the register it still holds.                *)
(***************************************************************************)
LEMMA ChooseKeeps ==
    ASSUME TypedInv, TypedInv', LeaseInv, NEW t \in Tasks, TakeChoose(t)
    PROVE  LeaseInv'
<1> USE DEF poolVars, sharedVars
<1>1. PICK unfit \in SUBSET Members :
         \E m \in Fewest(t, unfit) :
            chosen' = [chosen EXCEPT ![t] =
                         [session |-> call[t].session, member |-> m,
                          agent |-> call[t].agent, at |-> now]]
  BY DEF TakeChoose
<1>2. PICK m \in Fewest(t, unfit) :
         chosen' = [chosen EXCEPT ![t] =
                      [session |-> call[t].session, member |-> m,
                       agent |-> call[t].agent, at |-> now]]
  BY <1>1
<1>3. /\ pc[t] = "admitting" /\ seen[t] = register /\ lock = t
      /\ pc'[t] = "persisting"
      /\ \A u \in Tasks \ {t} : pc'[u] = pc[u] /\ pc[u] \notin Deciding
  BY DEF TakeChoose, TypedInv, TypeOK, LeaseInv, HoldInv, FreshInv, Deciding
<1>4. /\ m \in Members /\ ProviderOf[m] = call[t].provider
      /\ Carried(register, m) < Limit[ProviderOf[m]]
  BY <1>3 DEF Fewest, WithRoom, Usable, TypedInv, TypeOK
<1>5. /\ chosen'[t].session = call[t].session /\ chosen'[t].member = m
      /\ chosen'[t].agent = call[t].agent
  BY <1>2 DEF TypedInv, TypeOK
<1>6. \A k \in register : ~ /\ k.session = chosen'[t].session
                            /\ ProviderOf[k.member] = ProviderOf[chosen'[t].member]
                            /\ k.agent = chosen'[t].agent
  <2>1. Standing(register, call[t]) = {}
    BY <1>3 DEF TakeChoose
  <2> QED
    BY <1>4, <1>5, <2>1 DEF Standing, BelongsTo
<1>7. register' = register /\ chosen'[t] \in Leases
  BY <1>3 DEF TakeChoose, TypedInv
<1>8. Fits(chosen[t])'
  BY <1>4, <1>5, <1>6, <1>7 DEF Fits, Carried, OnMember
<1>9. HoldInv' /\ FreshInv'
  BY <1>3 DEF TakeChoose, LeaseInv, HoldInv, FreshInv, Deciding
<1>10. ChosenInv'
  BY <1>3, <1>8 DEF ChosenInv, Deciding
<1> QED
  BY <1>7, <1>9, <1>10, RegisterKept DEF LeaseInv, TypedInv

(***************************************************************************)
(* Writing a lease that fits keeps the limit and the one standing lease.   *)
(***************************************************************************)
LEMMA PersistKeeps ==
    ASSUME TypedInv, TypedInv', LeaseInv, NEW t \in Tasks, TakePersist(t)
    PROVE  LeaseInv'
<1> DEFINE l == chosen[t]
<1>1. /\ register' = register \cup {l} /\ Fits(l) /\ lock = t
      /\ pc[t] \in Deciding
  BY DEF TakePersist, LeaseInv, HoldInv, FreshInv, ChosenInv, Deciding
<1>2. /\ pc'[t] = "idle" /\ lock' = None
      /\ \A u \in Tasks \ {t} : pc'[u] = pc[u] /\ pc[u] \notin Deciding
  BY <1>1, OneDecider DEF TakePersist, Return, Release, TypedInv, TypeOK, LeaseInv
<1>3. HoldInv' /\ FreshInv' /\ ChosenInv'
  BY <1>2, LeaseAssumption DEF HoldInv, FreshInv, ChosenInv, Deciding
<1>4. IsFiniteSet(register)'
  BY <1>1, FS_AddElement DEF LeaseInv
<1>5. ASSUME NEW m \in Members
      PROVE  Carried(register', m) <= Limit[ProviderOf[m]]
  <2>1. /\ IsFiniteSet(OnMember(register, m))
        /\ Cardinality(OnMember(register, m)) \in Nat
    <3>1. OnMember(register, m) \in SUBSET register
      BY DEF OnMember
    <3> QED
      BY <3>1, FS_Subset, FS_CardinalityType DEF LeaseInv
  <2>2. Limit[ProviderOf[m]] \in Nat
    BY LeaseAssumption
  <2>3. CASE l.member # m
    <3>1. OnMember(register', m) = OnMember(register, m)
      BY <1>1, <2>3 DEF OnMember
    <3> QED
      BY <3>1 DEF Carried, LeaseInv, WithinLimit
  <2>4. CASE l.member = m
    <3>1. OnMember(register', m) = OnMember(register, m) \cup {l}
      BY <1>1, <2>4 DEF OnMember
    <3>2. Cardinality(OnMember(register', m)) <= Cardinality(OnMember(register, m)) + 1
      <4>1. Cardinality(OnMember(register, m) \cup {l}) =
               IF l \in OnMember(register, m)
               THEN Cardinality(OnMember(register, m))
               ELSE Cardinality(OnMember(register, m)) + 1
        BY <2>1, FS_AddElement
      <4> QED
        BY <2>1, <3>1, <4>1
    <3>3. Cardinality(OnMember(register', m)) \in Nat
      BY <2>1, <3>1, FS_AddElement, FS_CardinalityType
    <3> QED
      BY <1>1, <2>1, <2>2, <2>4, <3>2, <3>3 DEF Fits, Carried
  <2> QED
    BY <2>3, <2>4
<1>6. WithinLimit'
  BY <1>5 DEF WithinLimit
<1>7. OneStanding'
  BY <1>1 DEF LeaseInv, OneStanding, Fits
<1> QED
  BY <1>3, <1>4, <1>6, <1>7 DEF LeaseInv, TypedInv

(***************************************************************************)
(* Ending leases keeps the invariant.                                      *)
(***************************************************************************)
LEMMA ReleaseKeeps ==
    ASSUME TypedInv, TypedInv', LeaseInv, NEW t \in Tasks, ReleasePersist(t)
    PROVE  LeaseInv'
<1>1. /\ register' \in SUBSET register /\ lock = t /\ pc[t] \in Deciding
  BY DEF ReleasePersist, LeaseInv, HoldInv, FreshInv, Deciding
<1>2. /\ pc'[t] \in {"idle", "reporting"} /\ lock' = None
      /\ \A u \in Tasks \ {t} : pc'[u] = pc[u] /\ pc[u] \notin Deciding
  BY <1>1, OneDecider DEF ReleasePersist, Return, Release, TypedInv, TypeOK, LeaseInv
<1>3. HoldInv' /\ FreshInv' /\ ChosenInv'
  BY <1>2, LeaseAssumption DEF HoldInv, FreshInv, ChosenInv, Deciding
<1>4. IsFiniteSet(register)'
  BY <1>1, FS_Subset DEF LeaseInv
<1>5. ASSUME NEW m \in Members
      PROVE  Carried(register', m) <= Limit[ProviderOf[m]]
  <2>1. /\ OnMember(register, m) \in SUBSET register
        /\ OnMember(register', m) \in SUBSET OnMember(register, m)
    BY <1>1 DEF OnMember
  <2>2. IsFiniteSet(OnMember(register, m))
    BY <2>1, FS_Subset DEF LeaseInv
  <2>3. IsFiniteSet(OnMember(register', m))
    BY <2>1, <2>2, FS_Subset
  <2>4. /\ Carried(register', m) <= Carried(register, m)
        /\ Carried(register', m) \in Nat /\ Carried(register, m) \in Nat
    BY <2>1, <2>2, <2>3, FS_Subset, FS_CardinalityType DEF Carried
  <2>5. Limit[ProviderOf[m]] \in Nat /\ Carried(register, m) <= Limit[ProviderOf[m]]
    BY LeaseAssumption DEF LeaseInv, WithinLimit
  <2> QED
    BY <2>4, <2>5
<1>6. WithinLimit'
  BY <1>5 DEF WithinLimit
<1>7. OneStanding'
  BY <1>1 DEF LeaseInv, OneStanding
<1> QED
  BY <1>3, <1>4, <1>6, <1>7 DEF LeaseInv, TypedInv

(***************************************************************************)
(* A restarted gateway's calls are gone and its lock with them.            *)
(***************************************************************************)
LEMMA RestartKeeps ==
    ASSUME TypedInv, TypedInv', LeaseInv, NEW g \in Gateways, Restart(g)
    PROVE  LeaseInv'
<1>1. /\ UNCHANGED register
      /\ \A t \in Tasks :
            IF GatewayOf[t] = g
            THEN pc'[t] = "idle"
            ELSE pc'[t] = pc[t] /\ seen'[t] = seen[t] /\ chosen'[t] = chosen[t]
      /\ lock' = IF lock \in Tasks /\ GatewayOf[lock] = g THEN None ELSE lock
  BY DEF Restart
<1>2. HoldInv'
  BY <1>1, LeaseAssumption DEF LeaseInv, HoldInv, Deciding, TypedInv, TypeOK
<1>3. FreshInv'
  BY <1>1 DEF LeaseInv, FreshInv, Deciding
<1>4. ChosenInv'
  BY <1>1, RegisterKept DEF LeaseInv, ChosenInv
<1> QED
  BY <1>1, <1>2, <1>3, <1>4, RegisterKept DEF LeaseInv, TypedInv

(***************************************************************************)
(* Every step keeps the inductive invariant.                               *)
(***************************************************************************)
LEMMA LeaseStepKeeps ==
    ASSUME TypedInv, TypedInv', LeaseInv, [Next]_vars
    PROVE  LeaseInv'
<1> USE DEF poolVars, sharedVars, taskVars
<1>1. CASE UNCHANGED vars
  <2>1. HoldInv' /\ FreshInv'
    BY <1>1 DEF vars, LeaseInv, HoldInv, FreshInv
  <2>2. ChosenInv'
    BY <1>1, RegisterKept DEF vars, LeaseInv, ChosenInv
  <2> QED
    BY <1>1, <2>1, <2>2, RegisterKept DEF vars, LeaseInv, TypedInv
<1>2. ASSUME Environment PROVE LeaseInv'
  <2>1. UNCHANGED <<register, lock, pc, seen, chosen>>
    BY <1>2 DEF Environment, VaultChanges, JournalChanges, Tick
  <2>2. HoldInv' /\ FreshInv'
    BY <2>1 DEF LeaseInv, HoldInv, FreshInv
  <2>3. ChosenInv'
    BY <2>1, RegisterKept DEF LeaseInv, ChosenInv
  <2> QED
    BY <2>1, <2>2, <2>3, RegisterKept DEF LeaseInv, TypedInv
<1>3. ASSUME NEW t \in Tasks, Ask(t) PROVE LeaseInv'
  <2>1. PICK s \in {"listed", "naming", "reporting"} : pc' = [pc EXCEPT ![t] = s]
    BY <1>3 DEF Ask, TakeList, ReleaseAsk, ReportRead
  <2>2. pc[t] \notin Deciding /\ s \in Stages \ Deciding
    BY <1>3 DEF Ask, TakeList, ReleaseAsk, ReportRead, Stages, Deciding
  <2>3. UNCHANGED <<register, lock, seen, chosen>>
    BY <1>3 DEF Ask, TakeList, ReleaseAsk, ReportRead
  <2> QED
    BY <2>1, <2>2, <2>3, WaitingKeeps
<1>4. ASSUME NEW t \in Tasks, Hold(t) PROVE LeaseInv'
  BY <1>4, HoldKeeps
<1>5. ASSUME NEW t \in Tasks,
             TakeStanding(t) \/ ReleaseForeign(t) \/ Unavailable(t)
      PROVE  LeaseInv'
  BY <1>5, ReturnKeeps DEF TakeStanding, ReleaseForeign, Unavailable
<1>6. ASSUME NEW t \in Tasks, TakeRefused(t) PROVE LeaseInv'
  <2>1. CASE retaken[t]
    BY <1>6, <2>1, ReturnKeeps DEF TakeRefused
  <2>2. CASE ~retaken[t]
    <3>1. /\ pc[t] \in Deciding /\ pc'[t] = "short" /\ UNCHANGED <<register, chosen>>
          /\ \A u \in Tasks \ {t} : pc'[u] = pc[u]
      BY <1>6, <2>2 DEF TakeRefused, TypedInv, TypeOK, Deciding
    <3>2. lock' = None /\ \A u \in Tasks \ {t} : pc[u] \notin Deciding
      BY <1>6, <3>1, OneDecider DEF TakeRefused, Release, LeaseInv
    <3>3. HoldInv' /\ FreshInv'
      BY <3>1, <3>2, LeaseAssumption DEF HoldInv, FreshInv, Deciding
    <3>4. ChosenInv'
      BY <3>1, <3>2 DEF ChosenInv, Deciding
    <3> QED
      BY <3>1, <3>3, <3>4, RegisterKept DEF LeaseInv, TypedInv
  <2> QED
    BY <2>1, <2>2
<1>7. ASSUME NEW t \in Tasks, TakeChoose(t) PROVE LeaseInv'
  BY <1>7, ChooseKeeps
<1>8. ASSUME NEW t \in Tasks, TakePersist(t) PROVE LeaseInv'
  BY <1>8, PersistKeeps
<1>9. ASSUME NEW t \in Tasks, ReleasePersist(t) PROVE LeaseInv'
  BY <1>9, ReleaseKeeps
<1>10. ASSUME NEW t \in Tasks, Retake(t) \/ ReportBlock(t) PROVE LeaseInv'
  <2>1. PICK s \in {"listed", "naming"} : pc' = [pc EXCEPT ![t] = s]
    BY <1>10 DEF Retake, ReportBlock
  <2>2. pc[t] \notin Deciding /\ s \in Stages \ Deciding
    BY <1>10 DEF Retake, ReportBlock, Stages, Deciding
  <2>3. UNCHANGED <<register, lock, seen, chosen>>
    BY <1>10 DEF Retake, ReportBlock
  <2> QED
    BY <2>1, <2>2, <2>3, WaitingKeeps
<1>11. ASSUME NEW t \in Tasks, AcquireRefused(t) PROVE LeaseInv'
  <2>1. pc[t] # "idle" /\ lock # t
    BY <1>11 DEF AcquireRefused, LeaseInv, HoldInv, Deciding
  <2>2. Release(t)
    BY <1>11, <2>1 DEF AcquireRefused, Release
  <2> QED
    BY <1>11, <2>2, ReturnKeeps DEF AcquireRefused
<1>12. ASSUME NEW g \in Gateways, Restart(g) PROVE LeaseInv'
  BY <1>12, RestartKeeps
<1> QED
  BY <1>1, <1>2, <1>3, <1>4, <1>5, <1>6, <1>7, <1>8, <1>9, <1>10, <1>11, <1>12
     DEF Next, Step

(***************************************************************************)
(* An empty register that nobody holds satisfies the invariant.            *)
(***************************************************************************)
LEMMA InitLeases == Init => LeaseInv
<1> SUFFICES ASSUME Init PROVE LeaseInv
  OBVIOUS
<1>1. HoldInv /\ FreshInv /\ AskedInv /\ ChosenInv /\ OneStanding
  BY LeaseAssumption
     DEF Init, HoldInv, FreshInv, AskedInv, ChosenInv, OneStanding, Deciding
<1>2. IsFiniteSet(register)
  BY FS_EmptySet DEF Init
<1>3. WithinLimit
  <2>1. ASSUME NEW m \in Members PROVE Carried(register, m) <= Limit[ProviderOf[m]]
    <3>1. OnMember(register, m) = {}
      BY DEF Init, OnMember
    <3>2. Carried(register, m) = 0
      BY <3>1, FS_EmptySet DEF Carried
    <3> QED
      BY <3>2, LeaseAssumption
  <2> QED
    BY <2>1 DEF WithinLimit
<1> QED
  BY <1>1, <1>2, <1>3 DEF LeaseInv

(***************************************************************************)
(* The inductive invariant holds in every reachable state.                 *)
(***************************************************************************)
THEOREM LeaseInvariant == Spec => []LeaseInv
<1>1. Init => LeaseInv
  BY InitLeases
<1>2. TypedInv /\ TypedInv' /\ LeaseInv /\ [Next]_vars => LeaseInv'
  BY LeaseStepKeeps
<1> QED
  BY <1>1, <1>2, TypeCorrect, PTL DEF Spec

(***************************************************************************)
(* No member ever carries more sessions than the operator stated.          *)
(***************************************************************************)
THEOREM LimitKept == Spec => []WithinLimit
<1>1. LeaseInv => WithinLimit
  BY DEF LeaseInv
<1> QED
  BY <1>1, LeaseInvariant, PTL

(***************************************************************************)
(* A session never holds two leases of one identity on one provider.       *)
(***************************************************************************)
THEOREM StandingUnique == Spec => []OneStanding
<1>1. LeaseInv => OneStanding
  BY DEF LeaseInv
<1> QED
  BY <1>1, LeaseInvariant, PTL

(***************************************************************************)
(* A lease leaves the register only through a release naming it that its   *)
(* owner or the console asked for.                                         *)
(***************************************************************************)
THEOREM LeaseKept == Spec => EndedOnlyByOwner
<1>1. ASSUME TypedInv, LeaseInv, [Next]_vars
      PROVE  [\A l \in register \ register' :
                 \E t \in Tasks : /\ pc[t] = "ending"
                                  /\ Named(l, call[t])
                                  /\ BelongsTo(l, call[t].agent)]_register
  <2> USE DEF poolVars, sharedVars, taskVars
  <2>1. ASSUME NEW t \in Tasks, TakePersist(t) PROVE register \subseteq register'
    BY <1>1, <2>1 DEF TakePersist, LeaseInv, FreshInv, Deciding
  <2>2. ASSUME NEW t \in Tasks, ReleasePersist(t)
        PROVE  \A l \in register \ register' :
                  /\ pc[t] = "ending"
                  /\ Named(l, call[t])
                  /\ BelongsTo(l, call[t].agent)
    BY <1>1, <2>2 DEF ReleasePersist, Foreign, LeaseInv, FreshInv, Deciding
  <2>3. \/ \E t \in Tasks : TakePersist(t) \/ ReleasePersist(t)
        \/ UNCHANGED register
    BY <1>1 DEF Next, Ask, Hold, Step, Environment, vars, TakeList, ReleaseAsk,
       ReportRead, TakeHold, ReleaseHold, TakeStanding, TakeRefused, TakeChoose,
       Retake, AcquireRefused, ReleaseForeign, ReportBlock, Unavailable, Restart,
       VaultChanges, JournalChanges, Tick
  <2> QED
    BY <2>1, <2>2, <2>3
<1> QED
  BY <1>1, TypeCorrect, LeaseInvariant, PTL DEF Spec, EndedOnlyByOwner

(***************************************************************************)
(* A release names a session or a lease id, never both.                    *)
(***************************************************************************)
NamingInv ==
    \A t \in Tasks : pc[t] \in {"naming", "ending"} =>
        call[t].session = None \/ call[t].id = None

\* A call is built with one of the two, and no step adds the other.
LEMMA NamingStep ==
    ASSUME TypedInv, NamingInv, [Next]_vars
    PROVE  NamingInv'
<1> USE DEF poolVars, sharedVars, taskVars
<1> SUFFICES ASSUME NEW u \in Tasks, pc'[u] \in {"naming", "ending"}
             PROVE  call'[u].session = None \/ call'[u].id = None
  BY DEF NamingInv
<1>1. ASSUME pc[u] \in {"naming", "ending"}, call'[u] = call[u]
      PROVE  call'[u].session = None \/ call'[u].id = None
  BY <1>1 DEF NamingInv
<1>2. CASE UNCHANGED vars
  BY <1>1, <1>2 DEF vars
<1>3. ASSUME NEW t \in Tasks, Ask(t)
      PROVE  call'[u].session = None \/ call'[u].id = None
  <2>1. CASE u # t
    BY <1>1, <1>3, <2>1 DEF Ask, TakeList, ReleaseAsk, ReportRead, TypedInv, TypeOK
  <2>2. CASE u = t
    BY <1>3, <2>2 DEF Ask, TakeList, ReleaseAsk, ReportRead, TypedInv, TypeOK, Asking
  <2> QED
    BY <2>1, <2>2
<1>4. ASSUME NEW t \in Tasks, Hold(t)
      PROVE  call'[u].session = None \/ call'[u].id = None
  BY <1>1, <1>4 DEF Hold, TakeHold, ReleaseHold, TypedInv, TypeOK
<1>5. ASSUME NEW t \in Tasks, Return(t)
      PROVE  call'[u].session = None \/ call'[u].id = None
  BY <1>1, <1>5 DEF Return, TypedInv, TypeOK
<1>6. ASSUME NEW t \in Tasks, ReportBlock(t)
      PROVE  call'[u].session = None \/ call'[u].id = None
  <2>1. CASE u # t
    BY <1>1, <1>6, <2>1 DEF ReportBlock, TypedInv, TypeOK
  <2>2. CASE u = t
    BY <1>6, <2>2 DEF ReportBlock, TypedInv, TypeOK, Asking
  <2> QED
    BY <2>1, <2>2
<1>7. ASSUME NEW t \in Tasks, Step(t) \/ Unavailable(t)
      PROVE  call'[u].session = None \/ call'[u].id = None
  <2>1. CASE TakeStanding(t) \/ AcquireRefused(t) \/ ReleaseForeign(t)
             \/ TakePersist(t) \/ Unavailable(t)
    BY <1>5, <2>1 DEF TakeStanding, AcquireRefused, ReleaseForeign, TakePersist,
       Unavailable
  <2>2. CASE TakeRefused(t) \/ ReleasePersist(t)
    BY <1>1, <1>5, <2>2 DEF TakeRefused, ReleasePersist, TypedInv, TypeOK
  <2>3. CASE TakeChoose(t) \/ Retake(t)
    BY <1>1, <2>3 DEF TakeChoose, Retake, TypedInv, TypeOK
  <2> QED
    BY <1>6, <1>7, <2>1, <2>2, <2>3 DEF Step
<1>8. ASSUME NEW g \in Gateways, Restart(g)
      PROVE  call'[u].session = None \/ call'[u].id = None
  BY <1>1, <1>8 DEF Restart
<1>9. CASE Environment
  BY <1>1, <1>9 DEF Environment, VaultChanges, JournalChanges, Tick
<1> QED
  BY <1>2, <1>3, <1>4, <1>7, <1>8, <1>9 DEF Next

(***************************************************************************)
(* The lease a take writes is a grant of the table: it was chosen against  *)
(* the register as it still is, because its task holds the lock.           *)
(***************************************************************************)
LEMMA PersistGrants ==
    ASSUME LeaseInv, NEW t \in Tasks, TakePersist(t)
    PROVE  \E l \in Leases : Table!Grant(l)
<1> DEFINE l == chosen[t]
<1>1. Fits(l) /\ register' = register \cup {l}
  BY DEF TakePersist, LeaseInv, FreshInv, ChosenInv, Deciding
<1>2. l \in Leases
  BY <1>1 DEF Fits
<1>3. \A k \in register : ~Table!SameClaim(k, l)
  BY <1>1 DEF Fits, Table!SameClaim
<1>4. Cardinality({k \in register : k.member = l.member}) < Limit[ProviderOf[l.member]]
  BY <1>1 DEF Fits, Carried, OnMember
<1>5. Table!Cardinality({k \in register : k.member = l.member})
         = Cardinality({k \in register : k.member = l.member})
  BY Zenon DEF Cardinality, Table!Cardinality
<1>6. Table!Grant(l)
  BY <1>1, <1>3, <1>4, <1>5 DEF Table!Grant
<1> QED
  BY <1>2, <1>6

(***************************************************************************)
(* A release ends what it names, by session or by lease id, or nothing     *)
(* where it names nothing; no named lease is another identity's.           *)
(***************************************************************************)
LEMMA ReleaseEnds ==
    ASSUME TypedInv, LeaseInv, NamingInv, NEW t \in Tasks, ReleasePersist(t)
    PROVE  Table!Change \/ UNCHANGED register
<1> DEFINE c == call[t]
           named == {l \in register : Named(l, c)}
<1>1. register' = register \ named
  BY DEF ReleasePersist, LeaseInv, FreshInv, Deciding
<1>2. c.agent = None \/ \A l \in named : l.agent = c.agent
  BY DEF ReleasePersist, Foreign, BelongsTo, LeaseInv, FreshInv, Deciding
<1>3. c \in Calls /\ register \subseteq Leases
  BY DEF TypedInv, TypeOK
<1>4. c.agent \in Callers
  BY <1>3 DEF Calls
<1>5. \A l \in register : l.session # None /\ LeaseId(l) # None
  BY <1>3, LeaseAssumption, IdAssumption, LeaseIdTyped DEF Leases
<1>6. CASE c.session # None
  <2>1. c.session \in Sessions /\ c.id = None
    BY <1>3, <1>6 DEF Calls, NamingInv, ReleasePersist
  <2>2. named = Table!OfSession(c.session)
    BY <1>5, <2>1 DEF Named, Table!OfSession
  <2>3. Table!End(named, c.agent)
    BY <1>1, <1>2 DEF Table!End
  <2> QED
    BY <1>4, <2>1, <2>2, <2>3 DEF Table!Change
<1>7. CASE c.session = None /\ named # {}
  <2>1. PICK k \in register : Named(k, c)
    BY <1>7
  <2>2. LeaseId(k) = c.id
    BY <1>5, <1>7, <2>1 DEF Named
  <2>3. named = Table!SameId(k)
    BY <1>5, <1>7, <2>2 DEF Named, LeaseId, Table!SameId, Table!OfSession
  <2>4. Table!End(named, c.agent)
    BY <1>1, <1>2 DEF Table!End
  <2> QED
    BY <1>4, <2>3, <2>4 DEF Table!Change
<1>8. CASE named = {}
  BY <1>1, <1>8
<1> QED
  BY <1>6, <1>7, <1>8

(***************************************************************************)
(* The register implements the table: every step of every gateway, failure *)
(* and restart included, is one change of LeaseTable or leaves it alone    *)
(* (register::take, register::release).                                    *)
(***************************************************************************)
THEOREM RegisterIsTable == Spec => ActsAsTable
<1>1. Init => Table!Empty /\ NamingInv
  BY DEF Init, Table!Empty, NamingInv
<1>2. ASSUME TypedInv, LeaseInv, NamingInv, [Next]_vars
      PROVE  [Table!Change]_register
  <2> USE DEF poolVars, sharedVars, taskVars
  <2>1. ASSUME NEW t \in Tasks, TakePersist(t) PROVE Table!Change
    BY <1>2, <2>1, PersistGrants DEF Table!Change
  <2>2. ASSUME NEW t \in Tasks, ReleasePersist(t)
        PROVE  Table!Change \/ UNCHANGED register
    BY <1>2, <2>2, ReleaseEnds
  <2>3. \/ \E t \in Tasks : TakePersist(t) \/ ReleasePersist(t)
        \/ UNCHANGED register
    BY <1>2 DEF Next, Ask, Hold, Step, Environment, vars, TakeList, ReleaseAsk,
       ReportRead, TakeHold, ReleaseHold, TakeStanding, TakeRefused, TakeChoose,
       Retake, AcquireRefused, ReleaseForeign, ReportBlock, Unavailable, Restart,
       VaultChanges, JournalChanges, Tick
  <2> QED
    BY <2>1, <2>2, <2>3
<1>3. TypedInv /\ NamingInv /\ [Next]_vars => NamingInv'
  BY NamingStep
<1> QED
  BY <1>1, <1>2, <1>3, TypeCorrect, LeaseInvariant, PTL
     DEF Spec, ActsAsTable, Table!TableSpec

-----------------------------------------------------------------------------
(***************************************************************************)
(* Membership removal. The leases change only by LeaseRegister's steps, so *)
(* what is proved above holds beside a removal; what is added is known of  *)
(* each removal from its journal entry to its end.                         *)
(***************************************************************************)

(***************************************************************************)
(* A removal reconciliation journaled stands until somebody reinstates the *)
(* member; from the second look on nobody leases the member and no take    *)
(* that chose it is still to write, since a take reads the journal under   *)
(* the lock the look waited for.                                           *)
(***************************************************************************)
RetiredOrReinstated(r) ==
    stage[r] \in {"journaled", "confirmed", "removing"} /\ r \notin reinstated
        => subject[r] \in retired

\* At the removal nobody leases the member, and no take of it is still to write.
SparedInv(r) ==
    stage[r] = "removing" /\ r \notin reinstated
        => /\ OnMember(register, subject[r]) = {}
           /\ \A t \in Tasks : pc[t] = "persisting" => chosen[t].member # subject[r]

\* A remover past its listing has a subject.
SubjectKnown(r) == stage[r] \in {"idle", "reconciling"} \/ subject[r] \in Members

\* What is known of one removal.
RemoverInv(r) == SubjectKnown(r) /\ RetiredOrReinstated(r) /\ SparedInv(r)

\* The inductive invariant of removal beside the leases.
RemovalInv ==
    /\ TypedInv
    /\ LeaseInv
    /\ RemovalTypeOK
    /\ \A r \in Removers : RemoverInv(r)

(***************************************************************************)
(* The lease steps of the composition are steps of the lease register: a   *)
(* retirement is a change of the journal.                                  *)
(***************************************************************************)
LEMMA LeaseStepIsNext == ASSUME LeaseStep PROVE [Next]_vars
<1>1. ASSUME NEW m \in Members, Retire(m) PROVE [Next]_vars
  <2>1. CASE m \in retired
    <3>1. retired \cup {m} = retired
      BY <2>1
    <3> QED BY <1>1, <3>1 DEF Retire, vars, sharedVars, taskVars
  <2>2. CASE m \notin retired
    <3>1. JournalChanges(m)
      BY <1>1, <2>2 DEF Retire, JournalChanges
    <3> QED BY <3>1 DEF Next, Environment
  <2> QED BY <2>1, <2>2
<1> QED BY <1>1 DEF LeaseStep, Next, Environment

(***************************************************************************)
(* What a lease step does to the register and to the takes about to write: *)
(* a lease appears only as the one a deciding take chose, and a take       *)
(* chooses no member that is retired.                                      *)
(***************************************************************************)
LeaseSpares(m) ==
    /\ OnMember(register, m) = {}
    /\ \A t \in Tasks : pc[t] = "persisting" => chosen[t].member # m

\* A step that adds no lease and no choice spares a member that was spared.
LEMMA QuietSpares ==
    ASSUME NEW m, LeaseSpares(m), register' \subseteq register,
           \A u \in Tasks : pc'[u] = "persisting" => pc[u] = "persisting" /\ chosen'[u] = chosen[u]
    PROVE  LeaseSpares(m)'
BY DEF LeaseSpares, OnMember

\* A retired member that is spared stays so: no take chooses it.
LEMMA LeaseStepSpares ==
    ASSUME TypedInv, LeaseInv, LeaseStep, NEW m \in retired, LeaseSpares(m)
    PROVE  LeaseSpares(m)'
<1> USE DEF poolVars, sharedVars, taskVars
<1>1. ASSUME NEW t \in Tasks, Ask(t) PROVE LeaseSpares(m)'
  BY <1>1, QuietSpares DEF Ask, TakeList, ReleaseAsk, ReportRead, TypedInv, TypeOK
<1>2. ASSUME NEW t \in Tasks, Hold(t) PROVE LeaseSpares(m)'
  BY <1>2, QuietSpares DEF Hold, TakeHold, ReleaseHold, TypedInv, TypeOK
<1>3. ASSUME NEW t \in Tasks, Return(t), register' \subseteq register PROVE LeaseSpares(m)'
  BY <1>3, QuietSpares DEF Return, TypedInv, TypeOK
<1>4. ASSUME NEW t \in Tasks,
             \/ TakeStanding(t) \/ AcquireRefused(t) \/ ReleaseForeign(t) \/ Unavailable(t)
      PROVE  LeaseSpares(m)'
  BY <1>3, <1>4 DEF TakeStanding, AcquireRefused, ReleaseForeign, Unavailable
<1>5. ASSUME NEW t \in Tasks, TakeRefused(t) PROVE LeaseSpares(m)'
  BY <1>3, <1>5, QuietSpares DEF TakeRefused, TypedInv, TypeOK
<1>6. ASSUME NEW t \in Tasks, TakeChoose(t) PROVE LeaseSpares(m)'
  <2>1. PICK unfit \in SUBSET Members : \E n \in Fewest(t, unfit) :
           chosen' = [chosen EXCEPT ![t] =
                        [session |-> call[t].session, member |-> n,
                         agent |-> call[t].agent, at |-> now]]
    BY <1>6 DEF TakeChoose
  <2>2. PICK n \in Fewest(t, unfit) :
           chosen' = [chosen EXCEPT ![t] =
                        [session |-> call[t].session, member |-> n,
                         agent |-> call[t].agent, at |-> now]]
    BY <2>1
  <2>3. n # m
    BY <2>2 DEF Fewest, WithRoom, Usable
  <2>4. chosen'[t].member = n /\ \A u \in Tasks \ {t} : chosen'[u] = chosen[u] /\ pc'[u] = pc[u]
    BY <1>6, <2>2 DEF TakeChoose, TypedInv, TypeOK
  <2> QED BY <1>6, <2>3, <2>4 DEF TakeChoose, LeaseSpares
<1>7. ASSUME NEW t \in Tasks, TakePersist(t) PROVE LeaseSpares(m)'
  <2>1. register' = register \cup {chosen[t]} /\ chosen[t].member # m
    BY <1>7 DEF TakePersist, LeaseInv, FreshInv, Deciding, LeaseSpares
  <2>2. OnMember(register', m) = {}
    BY <2>1 DEF LeaseSpares, OnMember
  <2>3. \A u \in Tasks : pc'[u] = "persisting" => pc[u] = "persisting" /\ chosen'[u] = chosen[u]
    BY <1>7 DEF TakePersist, Return, TypedInv, TypeOK
  <2> QED BY <2>2, <2>3 DEF LeaseSpares
<1>8. ASSUME NEW t \in Tasks, ReleasePersist(t) PROVE LeaseSpares(m)'
  <2>1. register' \subseteq register
    BY <1>8 DEF ReleasePersist, LeaseInv, FreshInv, Deciding
  <2>2. \A u \in Tasks : pc'[u] = "persisting" => pc[u] = "persisting" /\ chosen'[u] = chosen[u]
    BY <1>8 DEF ReleasePersist, Return, TypedInv, TypeOK
  <2> QED BY <2>1, <2>2, QuietSpares
<1>9. ASSUME NEW t \in Tasks, Retake(t) \/ ReportBlock(t) PROVE LeaseSpares(m)'
  BY <1>9, QuietSpares DEF Retake, ReportBlock, TypedInv, TypeOK
<1>10. ASSUME NEW g \in Gateways, Restart(g) PROVE LeaseSpares(m)'
  <2>1. \A u \in Tasks : pc'[u] = "persisting" => pc[u] = "persisting" /\ chosen'[u] = chosen[u]
    BY <1>10 DEF Restart
  <2> QED BY <1>10, <2>1, QuietSpares DEF Restart
<1>11. ASSUME Tick \/ \E n \in Members : VaultChanges(n) \/ Retire(n) PROVE LeaseSpares(m)'
  BY <1>11, QuietSpares DEF Tick, VaultChanges, Retire
<1> QED BY <1>1, <1>2, <1>4, <1>5, <1>6, <1>7, <1>8, <1>9, <1>10, <1>11 DEF LeaseStep, Step

\* No lease step brings a retired member back.
LEMMA LeaseStepRetired == ASSUME LeaseStep PROVE retired \subseteq retired'
BY DEF LeaseStep, Ask, TakeList, ReleaseAsk, ReportRead, Hold, TakeHold, ReleaseHold, Step,
       TakeStanding, TakeRefused, TakeChoose, TakePersist, Retake, AcquireRefused,
       ReleaseForeign, ReleasePersist, ReportBlock, Unavailable, Restart, VaultChanges, Retire,
       Tick, poolVars, sharedVars

\* A step of the leases alone.
LEMMA LeaseStepKeepsRemoval ==
    ASSUME RemovalInv, LeaseStep, UNCHANGED removalVars PROVE RemovalInv'
<1>1. TypedInv' /\ LeaseInv'
  BY LeaseStepIsNext, TypedStep, LeaseStepKeeps DEF RemovalInv
<1>2. RemovalTypeOK'
  BY <1>1 DEF RemovalInv, RemovalTypeOK, TypedInv, removalVars
<1>3. ASSUME NEW r \in Removers PROVE RemoverInv(r)'
  <2>1. SubjectKnown(r)' /\ RetiredOrReinstated(r)'
    BY LeaseStepRetired DEF RemovalInv, RemoverInv, SubjectKnown, RetiredOrReinstated, removalVars
  <2>2. SUFFICES ASSUME stage[r] = "removing", r \notin reinstated
                 PROVE  LeaseSpares(subject[r])'
    BY <2>1 DEF RemoverInv, SparedInv, LeaseSpares, removalVars
  <2>3. subject[r] \in retired /\ LeaseSpares(subject[r])
    BY <2>2 DEF RemovalInv, RemoverInv, SubjectKnown, RetiredOrReinstated, SparedInv, LeaseSpares
  <2>4. PICK m \in retired : m = subject[r]
    BY <2>3
  <2>5. LeaseSpares(m)'
    BY <2>3, <2>4, LeaseStepSpares DEF RemovalInv
  <2> QED BY <2>4, <2>5 DEF LeaseSpares, removalVars
<1> QED BY <1>1, <1>2, <1>3 DEF RemovalInv

-----------------------------------------------------------------------------
\* A remover's step leaves the register, its lock and its calls alone.
LEMMA RemoverKeepsLeases ==
    ASSUME RemovalInv, UNCHANGED <<register, lock, now, taskVars>>,
           listed' \in SUBSET Members, retired' \in SUBSET Members,
           blocked' \in [Gateways -> [Members -> Int]], ledgerFile' \in [Members -> Int]
    PROVE  TypedInv' /\ LeaseInv' /\ TypeOK'
<1> USE DEF taskVars
<1>1. TypedInv'
  BY DEF RemovalInv, TypedInv, TypeOK, AskedInv
<1>2. HoldInv' /\ FreshInv'
  BY DEF RemovalInv, LeaseInv, HoldInv, FreshInv
<1>3. ChosenInv'
  BY RegisterKept DEF RemovalInv, LeaseInv, ChosenInv
<1> QED BY <1>1, <1>2, <1>3, RegisterKept DEF RemovalInv, LeaseInv, TypedInv

\* The others' parts of the invariant when one remover moves on and the
\* journal loses nothing.
LEMMA OthersSpared ==
    ASSUME RemovalInv, NEW r \in Removers, NEW q \in Removers, q # r,
           retired \subseteq retired', UNCHANGED <<register, pc, chosen>>,
           stage'[q] = stage[q], subject'[q] = subject[q],
           q \in reinstated' <=> q \in reinstated
    PROVE  RemoverInv(q)'
BY DEF RemovalInv, RemoverInv, SubjectKnown, RetiredOrReinstated, SparedInv, OnMember

\* A remover that moves to a stage before its removal, or ends.
LEMMA MovesSpared ==
    ASSUME RemovalInv, NEW r \in Removers, NEW s \in RemovalStages, NEW x \in Members \cup {None},
           retired \subseteq retired', UNCHANGED <<register, lock, now, taskVars>>,
           stage' = [stage EXCEPT ![r] = s], subject' = [subject EXCEPT ![r] = x],
           reinstated' \in {reinstated, reinstated \ {r}},
           looked' \in [Removers -> SUBSET Leases],
           TypedInv', LeaseInv', TypeOK',
           RemoverInv(r)'
    PROVE  RemovalInv'
<1>1. RemovalTypeOK'
  BY DEF RemovalInv, RemovalTypeOK
<1>2. ASSUME NEW q \in Removers, q # r PROVE RemoverInv(q)'
  <2>1. stage'[q] = stage[q] /\ subject'[q] = subject[q]
    BY <1>2 DEF RemovalInv, RemovalTypeOK
  <2>2. q \in reinstated' <=> q \in reinstated
    BY <1>2
  <2> QED BY <1>2, <2>1, <2>2, OthersSpared DEF taskVars
<1> QED BY <1>1, <1>2 DEF RemovalInv

\* A row dropped from the ledger is still a ledger.
LEMMA DropRowTyped ==
    ASSUME RemovalInv, NEW r \in Removers, NEW m, DropRow(r, m)
    PROVE  blocked' \in [Gateways -> [Members -> Int]] /\ ledgerFile' \in [Members -> Int]
<1>1. PICK g \in Gateways : g = RemoverOf[r]
  BY RemovalAssumption
<1>2. blocked \in [Gateways -> [Members -> Int]]
  BY DEF RemovalInv, RemovalTypeOK, TypeOK
<1>3. blocked' = [blocked EXCEPT ![g][m] = 0] /\ ledgerFile' = blocked'[g]
  BY <1>1 DEF DropRow
<1>4. [blocked[g] EXCEPT ![m] = 0] \in [Members -> Int]
  <2>1. PICK f \in [Members -> Int] : f = blocked[g]
    BY <1>2
  <2>2. [f EXCEPT ![m] = 0] \in [Members -> Int]
    <3>1. CASE m \in Members
      BY <3>1
    <3>2. CASE m \notin Members
      <4>1. [f EXCEPT ![m] = 0] = f
        BY <3>2
      <4> QED BY <4>1
    <3> QED BY <3>1, <3>2
  <2> QED BY <2>1, <2>2
<1>5. blocked' = [blocked EXCEPT ![g] = [blocked[g] EXCEPT ![m] = 0]]
  BY <1>3
<1> QED BY <1>2, <1>3, <1>4, <1>5

\* Every step of a remover but the reinstatement keeps the invariant.
LEMMA RemoveKeeps ==
    ASSUME RemovalInv, NEW r \in Removers, Remove(r), ~ReinstateJournal(r)
    PROVE  RemovalInv'
<1>0. /\ RemovalTypeOK /\ TypeOK /\ LeaseInv /\ TypedInv
  BY DEF RemovalInv, RemovalTypeOK
<1> USE DEF Goto
<1>1. ASSUME UNCHANGED vars PROVE TypedInv' /\ LeaseInv' /\ TypeOK' /\ UNCHANGED <<register, lock, now, taskVars>> /\ retired' = retired
  BY <1>0, <1>1, RemoverKeepsLeases DEF vars, sharedVars, TypeOK
<1>2. ASSUME UNCHANGED vars, End(r) PROVE RemovalInv'
  <2>1. looked' \in [Removers -> SUBSET Leases] /\ stage'[r] = "idle"
    BY <1>0, <1>2 DEF End, RemovalTypeOK
  <2>2. RemoverInv(r)'
    BY <2>1 DEF RemoverInv, SubjectKnown, RetiredOrReinstated, SparedInv
  <2> QED BY <1>1, <1>2, <2>1, <2>2, MovesSpared DEF End, RemovalStages
<1>3. ASSUME UNCHANGED <<vars, reinstated>>, NEW s \in {"reconciling", "unlisted", "unleased", "returning"},
             stage' = [stage EXCEPT ![r] = s], NEW x \in Members \cup {None},
             subject' = [subject EXCEPT ![r] = x],
             looked' \in [Removers -> SUBSET Leases],
             s = "reconciling" \/ x \in Members
      PROVE  RemovalInv'
  <2>1. stage'[r] = s /\ subject'[r] = x
    BY <1>0, <1>3 DEF RemovalTypeOK
  <2>2. RemoverInv(r)'
    BY <1>3, <2>1 DEF RemoverInv, SubjectKnown, RetiredOrReinstated, SparedInv
  <2> QED BY <1>1, <1>3, <2>1, <2>2, MovesSpared DEF RemovalStages
<1>4. PICK x \in Members \cup {None} : x = subject[r]
  BY <1>0 DEF RemovalTypeOK
<1>5. subject = [subject EXCEPT ![r] = x] /\ looked \in [Removers -> SUBSET Leases]
  BY <1>0, <1>4 DEF RemovalTypeOK
<1>6. CASE ReconcileRead(r)
  <2>1. looked' \in [Removers -> SUBSET Leases]
    BY <1>0, <1>6 DEF ReconcileRead, RemovalTypeOK, TypeOK
  <2> QED BY <1>3, <1>5, <1>6, <2>1 DEF ReconcileRead
<1>7. CASE \/ ReconcileEnd(r) \/ ReconcileLeased(r) \/ RemovalFails(r)
  BY <1>2, <1>7 DEF ReconcileEnd, ReconcileLeased, RemovalFails
<1>8. CASE ReconcileConfirm(r)
  <2>1. CASE End(r)
    BY <1>2, <1>8, <2>1 DEF ReconcileConfirm
  <2>2. CASE ~End(r)
    <3>1. /\ subject[r] \in retired /\ stage' = [stage EXCEPT ![r] = "confirmed"]
          /\ UNCHANGED <<vars, subject, looked, reinstated>>
      BY <1>8, <2>2 DEF ReconcileConfirm
    <3>2. stage'[r] = "confirmed"
      BY <1>0, <3>1 DEF RemovalTypeOK
    <3>3. RemoverInv(r)'
      <4>1. subject[r] \in Members
        BY <1>8 DEF ReconcileConfirm, RemovalInv, RemoverInv, SubjectKnown
      <4> QED BY <1>1, <3>1, <3>2, <4>1
            DEF RemoverInv, SubjectKnown, RetiredOrReinstated, SparedInv
    <3> QED BY <1>1, <1>5, <3>1, <3>3, MovesSpared DEF RemovalStages
  <2> QED BY <2>1, <2>2
<1>9. CASE ReconcileRecheck(r)
  <2>1. /\ stage[r] = "confirmed" /\ stage' = [stage EXCEPT ![r] = "removing"]
        /\ lock = None /\ OnMember(register, subject[r]) = {}
        /\ UNCHANGED <<vars, subject, looked, reinstated>>
    BY <1>9 DEF ReconcileRecheck, RecheckFree
  <2>2. stage'[r] = "removing"
    BY <1>0, <2>1 DEF RemovalTypeOK
  <2>3. SubjectKnown(r)' /\ RetiredOrReinstated(r)'
    BY <1>1, <2>1 DEF RemovalInv, RemoverInv, SubjectKnown, RetiredOrReinstated
  <2>4. \A t \in Tasks : pc[t] # "persisting"
    BY <1>0, <2>1, LeaseAssumption DEF LeaseInv, HoldInv, Deciding
  <2>5. SparedInv(r)'
    BY <1>1, <2>1, <2>4 DEF SparedInv, OnMember, taskVars
  <2>6. RemoverInv(r)'
    BY <2>3, <2>5 DEF RemoverInv
  <2> QED BY <1>1, <1>5, <2>1, <2>6, MovesSpared DEF RemovalStages
<1>10. CASE ReconcileRemove(r)
  <2>1. /\ UNCHANGED <<register, lock, retired, now, taskVars, looked>>
        /\ listed' = listed \ {subject[r]} /\ DropRow(r, subject[r])
        /\ stage' = [stage EXCEPT ![r] = "reconciling"]
        /\ subject' = [subject EXCEPT ![r] = None]
        /\ reinstated' = reinstated \ {r}
    BY <1>10 DEF ReconcileRemove
  <2>2. TypedInv' /\ LeaseInv' /\ TypeOK'
    <3>1. listed' \in SUBSET Members /\ retired' \in SUBSET Members
      BY <1>0, <2>1 DEF TypeOK
    <3>2. blocked' \in [Gateways -> [Members -> Int]] /\ ledgerFile' \in [Members -> Int]
      BY <2>1, DropRowTyped
    <3> QED BY <2>1, <3>1, <3>2, RemoverKeepsLeases
  <2>3. stage'[r] = "reconciling"
    BY <1>0, <2>1 DEF RemovalTypeOK
  <2>4. RemoverInv(r)'
    BY <2>3 DEF RemoverInv, SubjectKnown, RetiredOrReinstated, SparedInv
  <2> QED BY <1>5, <2>1, <2>2, <2>4, MovesSpared DEF RemovalStages
<1>11. CASE ForgetLook(r)
  <2>1. CASE End(r)
    BY <1>2, <1>11, <2>1 DEF ForgetLook
  <2>2. CASE ~End(r)
    <3>1. /\ stage' = [stage EXCEPT ![r] = "unleased"]
          /\ UNCHANGED <<vars, subject, looked, reinstated>>
      BY <1>11, <2>2 DEF ForgetLook
    <3>2. x \in Members
      BY <1>4, <1>11 DEF ForgetLook, RemovalInv, RemoverInv, SubjectKnown
    <3> QED BY <1>3, <1>5, <3>1, <3>2
  <2> QED BY <2>1, <2>2
<1>12. CASE ForgetJournal(r)
  <2>1. /\ UNCHANGED <<register, lock, listed, now, taskVars>>
        /\ retired' = retired \cup {subject[r]} /\ DropRow(r, subject[r]) /\ End(r)
        /\ stage[r] = "unleased"
    BY <1>12 DEF ForgetJournal
  <2>2. looked' \in [Removers -> SUBSET Leases] /\ stage'[r] = "idle"
    BY <1>0, <2>1 DEF End, RemovalTypeOK
  <2>3. RemoverInv(r)'
    BY <2>2 DEF RemoverInv, SubjectKnown, RetiredOrReinstated, SparedInv
  <2>4. subject[r] \in Members
    BY <2>1 DEF RemovalInv, RemoverInv, SubjectKnown
  <2>5. TypedInv' /\ LeaseInv' /\ TypeOK'
    <3>1. listed' \in SUBSET Members /\ retired' \in SUBSET Members
      BY <1>0, <2>1, <2>4 DEF TypeOK
    <3>2. blocked' \in [Gateways -> [Members -> Int]] /\ ledgerFile' \in [Members -> Int]
      BY <2>1, DropRowTyped
    <3> QED BY <2>1, <3>1, <3>2, RemoverKeepsLeases
  <2> QED BY <2>1, <2>2, <2>3, <2>5, MovesSpared DEF End, RemovalStages
<1>13. ASSUME NEW m \in Members, ReconcileJournal(r, m) PROVE RemovalInv'
  <2>1. /\ UNCHANGED <<register, lock, listed, blocked, ledgerFile, now, taskVars, looked>>
        /\ retired' = retired \cup {m}
        /\ stage' = [stage EXCEPT ![r] = "journaled"]
        /\ subject' = [subject EXCEPT ![r] = m]
        /\ reinstated' = reinstated \ {r}
    BY <1>13 DEF ReconcileJournal
  <2>2. TypedInv' /\ LeaseInv' /\ TypeOK'
    <3>1. /\ listed' \in SUBSET Members /\ retired' \in SUBSET Members
          /\ blocked' \in [Gateways -> [Members -> Int]] /\ ledgerFile' \in [Members -> Int]
      BY <1>0, <2>1 DEF TypeOK
    <3> QED BY <2>1, <3>1, RemoverKeepsLeases
  <2>3. stage'[r] = "journaled" /\ subject'[r] = m
    BY <1>0, <2>1 DEF RemovalTypeOK
  <2>4. RemoverInv(r)'
    BY <2>1, <2>3 DEF RemoverInv, SubjectKnown, RetiredOrReinstated, SparedInv
  <2> QED BY <1>5, <2>1, <2>2, <2>4, MovesSpared DEF RemovalStages
<1>14. ASSUME NEW m \in Members, ForgetList(r, m) \/ ReinstateList(r, m) PROVE RemovalInv'
  BY <1>3, <1>5, <1>14 DEF ForgetList, ReinstateList
<1> QED BY <1>6, <1>7, <1>8, <1>9, <1>10, <1>11, <1>12, <1>13, <1>14 DEF Remove

\* A reinstatement takes its member off the retired ones and notes every
\* remover that journaled it.
LEMMA ReinstateKeeps ==
    ASSUME RemovalInv, NEW r \in Removers, ReinstateJournal(r)
    PROVE  RemovalInv'
<1>0. RemovalTypeOK /\ TypeOK
  BY DEF RemovalInv, RemovalTypeOK
<1>1. /\ UNCHANGED <<register, lock, listed, blocked, ledgerFile, now, taskVars>>
      /\ retired' = retired \ {subject[r]}
      /\ stage' = [stage EXCEPT ![r] = "idle"]
      /\ subject' = [subject EXCEPT ![r] = None]
      /\ looked' = [looked EXCEPT ![r] = {}]
  BY DEF ReinstateJournal
<1>2. TypedInv' /\ LeaseInv' /\ TypeOK'
  <2>1. /\ listed' \in SUBSET Members /\ retired' \in SUBSET Members
        /\ blocked' \in [Gateways -> [Members -> Int]] /\ ledgerFile' \in [Members -> Int]
    BY <1>0, <1>1 DEF TypeOK
  <2> QED BY <1>1, <2>1, RemoverKeepsLeases
<1>3. reinstated' \in SUBSET Removers /\ reinstated \subseteq reinstated'
  BY <1>0 DEF ReinstateJournal, RemovalTypeOK
<1>4. RemovalTypeOK'
  BY <1>0, <1>1, <1>2, <1>3 DEF RemovalTypeOK, RemovalStages
<1>5. ASSUME NEW q \in Removers PROVE RemoverInv(q)'
  <2>1. CASE q = r
    <3>1. stage'[q] = "idle"
      BY <1>0, <1>1, <2>1 DEF RemovalTypeOK
    <3> QED BY <3>1 DEF RemoverInv, SubjectKnown, RetiredOrReinstated, SparedInv
  <2>2. CASE q # r
    <3>1. stage'[q] = stage[q] /\ subject'[q] = subject[q]
      BY <1>0, <1>1, <2>2 DEF RemovalTypeOK
    <3>2. /\ subject[q] = subject[r] /\ stage[q] \in {"journaled", "confirmed", "removing"}
             => q \in reinstated'
      BY DEF ReinstateJournal
    <3>3. SubjectKnown(q)' /\ RetiredOrReinstated(q)'
      BY <1>1, <1>3, <3>1, <3>2 DEF RemovalInv, RemoverInv, SubjectKnown, RetiredOrReinstated
    <3>4. SparedInv(q)'
      BY <1>1, <1>3, <3>1 DEF RemovalInv, RemoverInv, SubjectKnown, SparedInv, OnMember, taskVars
    <3> QED BY <3>3, <3>4 DEF RemoverInv
  <2> QED BY <2>1, <2>2
<1> QED BY <1>2, <1>4, <1>5 DEF RemovalInv

(***************************************************************************)
(* However many reconciliations, forget and reinstate calls, takes,        *)
(* releases, reports and restarts interleave, reconciliation takes a       *)
(* member out of the vault only while no session leases it, or after its   *)
(* reinstatement.                                                          *)
(***************************************************************************)
THEOREM LeasedSpared == RemovalSpec => []RemovalSparesLeased
<1>1. RemovalInit => RemovalInv
  <2> SUFFICES ASSUME RemovalInit PROVE RemovalInv
    OBVIOUS
  <2>1. TypedInv /\ LeaseInv
    BY InitTyped, InitLeases DEF RemovalInit
  <2>2. RemovalTypeOK
    BY <2>1 DEF RemovalInit, RemovalTypeOK, RemovalStages, TypedInv
  <2> QED BY <2>1, <2>2
      DEF RemovalInit, RemovalInv, RemoverInv, SubjectKnown, RetiredOrReinstated, SparedInv
<1>2. RemovalInv /\ [RemovalNext]_allVars => RemovalInv'
  <2> SUFFICES ASSUME RemovalInv, [RemovalNext]_allVars PROVE RemovalInv'
    OBVIOUS
  <2>1. CASE UNCHANGED allVars
    <3>1. UNCHANGED <<register, lock, listed, retired, blocked, ledgerFile, now, taskVars, removalVars>>
      BY <2>1 DEF allVars, vars, sharedVars
    <3>2. TypedInv' /\ LeaseInv' /\ TypeOK'
      BY <3>1, RemoverKeepsLeases DEF RemovalInv, RemovalTypeOK, TypeOK
    <3>3. RemovalTypeOK'
      BY <3>1, <3>2 DEF RemovalInv, RemovalTypeOK, removalVars
    <3>4. \A r \in Removers : RemoverInv(r)'
      BY <3>1
          DEF RemovalInv, RemoverInv, SubjectKnown, RetiredOrReinstated, SparedInv, OnMember,
          removalVars, taskVars
    <3> QED BY <3>2, <3>3, <3>4 DEF RemovalInv
  <2> QED BY <2>1, LeaseStepKeepsRemoval, RemoveKeeps, ReinstateKeeps DEF RemovalNext
<1>3. RemovalInv => RemovalSparesLeased
  BY DEF RemovalInv, RemoverInv, SubjectKnown, SparedInv, RemovalSparesLeased
<1> QED BY <1>1, <1>2, <1>3, PTL DEF RemovalSpec

-----------------------------------------------------------------------------
(***************************************************************************)
(* Reports.  In one gateway the block of a member is the newest instant    *)
(* told of it, in memory and on file; no take knows a later one; and a     *)
(* lease about to be written was chosen when an instant it knows had       *)
(* passed.                                                                 *)
(***************************************************************************)
ReportTyped ==
    told \in [Members -> Int] /\ knew \in [Tasks -> [Members -> Int]]

BlockIsTold ==
    /\ ledgerFile = told
    /\ \A g \in Gateways : blocked[g] = told

KnewNoLater == \A t \in Tasks, m \in Members : knew[t][m] <= told[m]

ChosenPast ==
    \A t \in Tasks : pc[t] = "persisting" => knew[t][chosen[t].member] <= now

\* The inductive invariant of reports beside the leases.
ReportInv ==
    TypedInv /\ LeaseInv /\ ReportTyped /\ BlockIsTold /\ KnewNoLater /\ ChosenPast

\* One report's block of one lease's member is what is told in that step.
LEMMA BlockTold ==
    ASSUME TypedInv, ReportTyped, NEW t \in Tasks, NEW l \in todo[t],
           pc[t] = "reporting", pc' = [pc EXCEPT ![t] = "naming"],
           todo' = [todo EXCEPT ![t] = @ \ {l}], History
    PROVE  told' = [told EXCEPT ![l.member] = call[t].until]
<1>1. \A u \in Tasks \ {t} : todo[u] \ todo'[u] = {}
  BY DEF TypedInv, TypeOK
<1>2. todo[t] \ todo'[t] = {l} /\ pc'[t] = "naming"
  BY DEF TypedInv, TypeOK
<1>3. Blocking(t) = {l.member} /\ \A u \in Tasks \ {t} : Blocking(u) = {}
  BY <1>1, <1>2 DEF Blocking
<1>4. ASSUME NEW m \in Members
      PROVE  told'[m] = IF m = l.member THEN call[t].until ELSE told[m]
  <2>1. CASE m = l.member
    <3>1. \E u \in Tasks : m \in Blocking(u)
      BY <1>3, <2>1
    <3>2. (CHOOSE u \in Tasks : m \in Blocking(u)) = t
      BY <1>3, <2>1
    <3> QED BY <2>1, <3>1, <3>2 DEF History
  <2>2. CASE m # l.member
    <3>1. ~ \E u \in Tasks : m \in Blocking(u)
      BY <1>3, <2>2
    <3> QED BY <2>2, <3>1 DEF History
  <2> QED BY <2>1, <2>2
<1>5. told' = [m \in Members |-> told'[m]]
  BY DEF History
<1> QED BY <1>4, <1>5 DEF ReportTyped

\* A step in which no report blocks a member tells nothing.
LEMMA NothingTold ==
    ASSUME ReportTyped, History,
           \A t \in Tasks : ~(pc[t] = "reporting" /\ pc'[t] = "naming")
    PROVE  told' = told
<1>1. \A m \in Members : ~ \E t \in Tasks : m \in Blocking(t)
  BY DEF Blocking
<1> QED BY <1>1 DEF History, ReportTyped

\* What a take knows is never later than what is told, and falls but for a
\* take that begins.
LEMMA KnewFalls ==
    ASSUME ReportTyped, KnewNoLater, History, told' \in [Members -> Int],
           told' = told \/ \A t \in Tasks : ~(pc[t] = "idle" /\ pc'[t] = "listed")
    PROVE  /\ ReportTyped' /\ KnewNoLater'
           /\ \A t \in Tasks, m \in Members :
                 pc'[t] # "listed" => knew'[t][m] <= knew[t][m]
<1>1. knew' = [t \in Tasks |-> knew'[t]]
  BY DEF History
<1>2. ASSUME NEW t \in Tasks
      PROVE  /\ knew'[t] \in [Members -> Int]
             /\ \A m \in Members : knew'[t][m] <= told'[m]
             /\ pc'[t] # "listed" => \A m \in Members : knew'[t][m] <= knew[t][m]
  <2>1. CASE pc[t] = "idle" /\ pc'[t] = "listed"
    <3>1. knew'[t] = told /\ told' = told
      BY <2>1 DEF History
    <3> QED BY <2>1, <3>1 DEF ReportTyped
  <2>2. CASE ~(pc[t] = "idle" /\ pc'[t] = "listed")
    <3>1. knew'[t] = [m \in Members |->
                        IF told'[m] < knew[t][m] THEN told'[m] ELSE knew[t][m]]
      BY <2>2 DEF History
    <3>2. \A m \in Members : told'[m] \in Int /\ knew[t][m] \in Int
      BY DEF ReportTyped
    <3> QED BY <3>1, <3>2
  <2> QED BY <2>1, <2>2
<1> QED BY <1>1, <1>2 DEF ReportTyped, KnewNoLater

\* A report's block keeps the invariant: nothing was chosen or begun.
LEMMA BlockKeepsReports ==
    ASSUME ReportInv, TypedInv', LeaseInv', NEW g, Gateways = {g},
           NEW t \in Tasks, ReportBlock(t), History
    PROVE  ReportInv'
<1>1. PICK l \in todo[t] :
         /\ blocked' = [blocked EXCEPT ![GatewayOf[t]][l.member] = call[t].until]
         /\ todo' = [todo EXCEPT ![t] = @ \ {l}]
  BY DEF ReportBlock
<1>2. /\ pc[t] = "reporting" /\ pc' = [pc EXCEPT ![t] = "naming"]
      /\ ledgerFile' = blocked'[GatewayOf[t]] /\ now' = now /\ chosen' = chosen
  BY DEF ReportBlock
<1>3. GatewayOf[t] = g /\ l.member \in Members /\ call[t].until \in Int
  BY LeaseAssumption DEF ReportInv, TypedInv, TypeOK, Leases, Calls
<1>4. told' = [told EXCEPT ![l.member] = call[t].until]
  BY <1>1, <1>2, BlockTold DEF ReportInv
<1>5. told' \in [Members -> Int]
  BY <1>3, <1>4 DEF ReportInv, ReportTyped
<1>6. \A u \in Tasks : pc'[u] = pc[u] \/ pc'[u] = "naming"
  BY <1>2 DEF ReportInv, TypedInv, TypeOK
<1>7. /\ ReportTyped' /\ KnewNoLater'
      /\ \A u \in Tasks, m \in Members : pc'[u] # "listed" => knew'[u][m] <= knew[u][m]
  BY <1>5, <1>6, KnewFalls DEF ReportInv
<1>8. BlockIsTold'
  <2>1. blocked[g] = told /\ g \in DOMAIN blocked
    BY DEF ReportInv, BlockIsTold, TypedInv, TypeOK
  <2>2. blocked'[g] = [blocked[g] EXCEPT ![l.member] = call[t].until]
    BY <1>1, <1>3, <2>1
  <2> QED BY <1>2, <1>3, <1>4, <2>1, <2>2 DEF BlockIsTold
<1>9. ChosenPast'
  <2> SUFFICES ASSUME NEW u \in Tasks, pc'[u] = "persisting"
               PROVE  knew'[u][chosen'[u].member] <= now'
    BY DEF ChosenPast
  <2>1. pc[u] = "persisting" /\ chosen[u] \in Leases
    BY <1>6 DEF ReportInv, TypedInv
  <2>2. chosen[u].member \in Members
    BY <2>1 DEF Leases
  <2>3. knew[u][chosen[u].member] <= now
    BY <2>1 DEF ReportInv, ChosenPast
  <2>4. knew'[u][chosen[u].member] <= knew[u][chosen[u].member]
    BY <1>7, <2>2
  <2>5. /\ knew'[u][chosen[u].member] \in Int /\ knew[u][chosen[u].member] \in Int /\ now \in Int
    BY <1>7, <2>2 DEF ReportInv, ReportTyped, TypedInv, TypeOK, Instants
  <2> QED BY <1>2, <2>3, <2>4, <2>5
<1> QED BY <1>7, <1>8, <1>9 DEF ReportInv

\* A step that tells nothing keeps the invariant, if it leaves the ledger as
\* told and what it chooses is not blocked.
LEMMA QuietKeepsReports ==
    ASSUME ReportInv, TypedInv', LeaseInv', History,
           \A t \in Tasks : ~(pc[t] = "reporting" /\ pc'[t] = "naming"),
           ledgerFile' = ledgerFile, \A g \in Gateways : blocked'[g] = told,
           now <= now',
           \A t \in Tasks : pc'[t] = "persisting" =>
               \/ pc[t] = "persisting" /\ chosen'[t] = chosen[t]
               \/ told[chosen'[t].member] <= now
    PROVE  ReportInv' /\ told' = told
<1>1. told' = told
  BY NothingTold DEF ReportInv
<1>2. /\ ReportTyped' /\ KnewNoLater'
      /\ \A u \in Tasks, m \in Members : pc'[u] # "listed" => knew'[u][m] <= knew[u][m]
  BY <1>1, KnewFalls DEF ReportInv, ReportTyped
<1>3. BlockIsTold'
  BY <1>1 DEF ReportInv, BlockIsTold
<1>4. ChosenPast'
  <2> SUFFICES ASSUME NEW u \in Tasks, pc'[u] = "persisting"
               PROVE  knew'[u][chosen'[u].member] <= now'
    BY DEF ChosenPast
  <2> DEFINE m == chosen'[u].member
  <2>1. m \in Members
    BY DEF TypedInv, Leases
  <2>2. /\ knew'[u][m] \in Int /\ knew[u][m] \in Int /\ told[m] \in Int
        /\ now \in Int /\ now' \in Int
    BY <1>2, <2>1 DEF ReportInv, ReportTyped, TypedInv, TypeOK, Instants
  <2>3. knew'[u][m] <= knew[u][m] /\ knew'[u][m] <= told[m]
    BY <1>1, <1>2, <2>1 DEF KnewNoLater
  <2>4. knew[u][m] <= now \/ told[m] <= now
    BY DEF ReportInv, ChosenPast
  <2> HIDE DEF m
  <2>5. knew'[u][m] <= now'
    BY <2>2, <2>3, <2>4
  <2> QED BY <2>5 DEF m
<1> QED BY <1>1, <1>2, <1>3, <1>4 DEF ReportInv

\* What a take chooses in the only gateway is not blocked.
LEMMA ChoosesUnblocked ==
    ASSUME ReportInv, NEW t \in Tasks, TakeChoose(t)
    PROVE  told[chosen'[t].member] <= now
<1>1. PICK unfit \in SUBSET Members : \E m \in Fewest(t, unfit) :
          chosen' = [chosen EXCEPT ![t] =
                        [session |-> call[t].session, member |-> m,
                         agent |-> call[t].agent, at |-> now]]
  BY DEF TakeChoose
<1>2. PICK m \in Fewest(t, unfit) :
          chosen' = [chosen EXCEPT ![t] =
                        [session |-> call[t].session, member |-> m,
                         agent |-> call[t].agent, at |-> now]]
  BY <1>1
<1>3. chosen'[t].member = m
  BY <1>2 DEF ReportInv, TypedInv, TypeOK
<1>4. blocked[GatewayOf[t]][m] <= now
  BY <1>2 DEF Fewest, WithRoom, Usable
<1>5. blocked[GatewayOf[t]] = told
  BY LeaseAssumption DEF ReportInv, BlockIsTold
<1> QED BY <1>3, <1>4, <1>5

\* Every step of the only gateway keeps the invariant.
LEMMA ReportStep ==
    ASSUME ReportInv, NEW g, Gateways = {g}, [Next /\ History]_<<vars, historyVars>>
    PROVE  ReportInv'
<1> USE DEF poolVars, sharedVars, taskVars
<1>1. TypedInv' /\ LeaseInv'
  BY TypedStep, LeaseStepKeeps DEF ReportInv, vars
<1>2. CASE UNCHANGED <<vars, historyVars>>
  <2>1. UNCHANGED <<told, knew, pc, chosen, now, ledgerFile, blocked>>
    BY <1>2 DEF vars, historyVars
  <2> QED BY <1>1, <2>1 DEF ReportInv, ReportTyped, BlockIsTold, KnewNoLater, ChosenPast
<1>3. CASE Next /\ History
  <2>1. ASSUME NEW t \in Tasks, ReportBlock(t) PROVE ReportInv'
    BY <1>1, <1>3, <2>1, BlockKeepsReports
  <2>2. ASSUME NEW t \in Tasks, TakeChoose(t) PROVE ReportInv'
    <3>1. told[chosen'[t].member] <= now
      BY <2>2, ChoosesUnblocked
    <3>2. /\ \A u \in Tasks : pc'[u] = IF u = t THEN "persisting" ELSE pc[u]
          /\ \A u \in Tasks \ {t} : chosen'[u] = chosen[u]
          /\ now' = now /\ ledgerFile' = ledgerFile /\ blocked' = blocked
      BY <2>2 DEF TakeChoose, ReportInv, TypedInv, TypeOK
    <3>3. \A h \in Gateways : blocked'[h] = told
      BY <3>2 DEF ReportInv, BlockIsTold
    <3>4. now <= now'
      BY <3>2 DEF ReportInv, TypedInv, TypeOK, Instants
    <3> QED BY <1>1, <1>3, <3>1, <3>2, <3>3, <3>4, QuietKeepsReports
  <2>3. ASSUME NEW t \in Tasks,
               \/ Ask(t) \/ Hold(t) \/ Unavailable(t)
               \/ TakeStanding(t) \/ TakeRefused(t) \/ TakePersist(t) \/ Retake(t)
               \/ AcquireRefused(t) \/ ReleaseForeign(t) \/ ReleasePersist(t)
        PROVE  ReportInv'
    <3>1. /\ now' = now /\ ledgerFile' = ledgerFile /\ blocked' = blocked
      BY <2>3 DEF Ask, Hold, TakeList, ReleaseAsk, ReportRead, TakeHold, ReleaseHold,
         Unavailable, TakeStanding, TakeRefused, TakePersist, Retake, AcquireRefused,
         ReleaseForeign, ReleasePersist
    <3>2. /\ \A u \in Tasks \ {t} : pc'[u] = pc[u] /\ chosen'[u] = chosen[u]
          /\ pc'[t] # "persisting" /\ (pc'[t] = "naming" => pc[t] = "idle")
      BY <2>3 DEF Ask, Hold, TakeList, ReleaseAsk, ReportRead, TakeHold, ReleaseHold,
         Unavailable, TakeStanding, TakeRefused, TakePersist, Retake, AcquireRefused,
         ReleaseForeign, ReleasePersist, Return, ReportInv, TypedInv, TypeOK
    <3>3. \A h \in Gateways : blocked'[h] = told
      BY <3>1 DEF ReportInv, BlockIsTold
    <3>4. now <= now'
      BY <3>1 DEF ReportInv, TypedInv, TypeOK, Instants
    <3>5. \A u \in Tasks : ~(pc[u] = "reporting" /\ pc'[u] = "naming")
      BY <3>2
    <3>6. \A u \in Tasks : pc'[u] = "persisting" => pc[u] = "persisting" /\ chosen'[u] = chosen[u]
      BY <3>2
    <3> QED BY <1>1, <1>3, <3>1, <3>3, <3>4, <3>5, <3>6, QuietKeepsReports
  <2>4. ASSUME NEW h \in Gateways, Restart(h) PROVE ReportInv'
    <3>1. /\ \A u \in Tasks : pc'[u] = "idle" \/ (pc'[u] = pc[u] /\ chosen'[u] = chosen[u])
          /\ now' = now /\ ledgerFile' = ledgerFile
          /\ blocked' = [blocked EXCEPT ![h] = ledgerFile]
      BY <2>4 DEF Restart
    <3>2. \A k \in Gateways : blocked'[k] = told
      BY <3>1 DEF ReportInv, BlockIsTold, TypedInv, TypeOK
    <3>3. now <= now'
      BY <3>1 DEF ReportInv, TypedInv, TypeOK, Instants
    <3>4. \A u \in Tasks : ~(pc[u] = "reporting" /\ pc'[u] = "naming")
      BY <3>1
    <3> QED BY <1>1, <1>3, <3>1, <3>2, <3>3, <3>4, QuietKeepsReports
  <2>5. CASE Environment
    <3>1. /\ pc' = pc /\ chosen' = chosen /\ ledgerFile' = ledgerFile /\ blocked' = blocked
          /\ now' = now \/ now' = now + 1
      BY <2>5 DEF Environment, VaultChanges, JournalChanges, Tick
    <3>2. \A h \in Gateways : blocked'[h] = told
      BY <3>1 DEF ReportInv, BlockIsTold
    <3>3. now <= now'
      BY <3>1 DEF ReportInv, TypedInv, TypeOK, Instants
    <3>4. \A u \in Tasks : ~(pc[u] = "reporting" /\ pc'[u] = "naming")
      BY <3>1
    <3> QED BY <1>1, <1>3, <3>1, <3>2, <3>3, <3>4, QuietKeepsReports
  <2> QED BY <1>3, <2>1, <2>2, <2>3, <2>4, <2>5 DEF Next, Step
<1> QED BY <1>2, <1>3

\* A gateway that was told nothing.
LEMMA ReportsStart ==
    ASSUME HistoryInit
    PROVE  ReportInv
<1>1. TypedInv /\ LeaseInv
  BY InitTyped, InitLeases DEF HistoryInit
<1>2. ReportTyped /\ KnewNoLater
  BY DEF HistoryInit, ReportTyped, KnewNoLater
<1>3. BlockIsTold /\ ChosenPast
  BY DEF HistoryInit, Init, BlockIsTold, ChosenPast
<1> QED BY <1>1, <1>2, <1>3 DEF ReportInv

(***************************************************************************)
(* With one gateway on the register, whatever calls, failed steps and      *)
(* restarts come between a report and a take that began after it, the      *)
(* lease is not on the reported member while its report stands             *)
(* (leases/refused.rs).                                                    *)
(***************************************************************************)
THEOREM ReportedAvoided ==
    ASSUME NEW CONSTANT g, Gateways = {g}
    PROVE  HistorySpec => ReportedMemberAvoided
<1>1. HistoryInit => ReportInv
  BY ReportsStart
<1>2. ReportInv /\ [Next /\ History]_<<vars, historyVars>> => ReportInv'
  BY ReportStep
<1>3. ReportInv /\ [Next /\ History]_<<vars, historyVars>>
        => [\A l \in register' \ register : knew[lock][l.member] <= now]_register
  <2> SUFFICES ASSUME ReportInv, [Next /\ History]_<<vars, historyVars>>,
                      NEW l \in register' \ register
               PROVE  knew[lock][l.member] <= now
    OBVIOUS
  <2>1. PICK t \in Tasks : TakePersist(t)
    <3>1. ~ UNCHANGED register /\ Next
      BY DEF vars, sharedVars
    <3>2. ASSUME NEW u \in Tasks, ReleasePersist(u) PROVE register' \subseteq register
      BY <3>2 DEF ReleasePersist, ReportInv, LeaseInv, FreshInv, Deciding
    <3> QED
      BY <3>1, <3>2 DEF Next, Ask, Hold, Step, Environment, TakeList, ReleaseAsk,
         ReportRead, TakeHold, ReleaseHold, TakeStanding, TakeRefused, TakeChoose,
         Retake, AcquireRefused, ReleaseForeign, ReportBlock, Unavailable, Restart,
         VaultChanges, JournalChanges, Tick, poolVars, sharedVars
  <2>2. pc[t] = "persisting" /\ lock = t /\ seen[t] = register
    BY <2>1 DEF TakePersist, ReportInv, LeaseInv, HoldInv, FreshInv, Deciding
  <2>3. l = chosen[t]
    BY <2>1, <2>2 DEF TakePersist
  <2> QED BY <2>2, <2>3 DEF ReportInv, ChosenPast
<1> QED
  BY <1>1, <1>2, <1>3, PTL DEF HistorySpec, ReportedMemberAvoided

=============================================================================
