-------------------------- MODULE AdmissionProofs ---------------------------
(***************************************************************************)
(* Who is let in and what the gateway knows of its pool, for any number of *)
(* callers, agents, publishers and readings. One section per component,    *)
(* each with the inductive invariant its property needs and the theorem at *)
(* its end.                                                                *)
(***************************************************************************)
EXTENDS ReplayGuard, Admission, ModelDiscovery, Listings, TLAPS

-----------------------------------------------------------------------------
(***************************************************************************)
(* Replay guard (ReplayGuard). One signature is let in at most once, and   *)
(* the recorded timestamp never goes back, for any sets of tasks, agents,  *)
(* timestamps and signatures.                                              *)
(***************************************************************************)

(***************************************************************************)
(* What an entry holds stays a replay after another request is admitted.   *)
(***************************************************************************)
LEMMA AdmittedKeeps ==
    ASSUME NEW e \in Accepted, NEW q \in Requests, NEW r \in Requests,
           ~Replayed(e, q), Replayed(e, r)
    PROVE  Replayed(Admitted(e, q), r)
BY GuardAssumption DEF Accepted, Requests, Replayed, Admitted

(***************************************************************************)
(* An admitted request is a replay from then on, and the entry's timestamp *)
(* did not go back.                                                        *)
(***************************************************************************)
LEMMA AdmittedRemembers ==
    ASSUME NEW e \in Accepted, NEW q \in Requests, ~Replayed(e, q)
    PROVE  /\ Replayed(Admitted(e, q), q)
           /\ Admitted(e, q) \in Accepted
           /\ Admitted(e, q).timestamp >= e.timestamp
BY GuardAssumption DEF Accepted, Requests, Replayed, Admitted

(***************************************************************************)
(* A call that returns leaves the others where they are, and holds nothing *)
(* of its own.                                                             *)
(***************************************************************************)
LEMMA LeaveTyped ==
    ASSUME TypeOK, NEW t \in Tasks, Leave(t)
    PROVE  /\ pc' \in [Tasks -> Stages] /\ pc'[t] = "idle"
           /\ request' \in [Tasks -> Requests]
           /\ seen' \in [Tasks -> [Agents -> Accepted]]
           /\ \A s \in Tasks \ {t} :
                 pc'[s] = pc[s] /\ request'[s] = request[s] /\ seen'[s] = seen[s]
<1>1. NoRequest \in Requests
  BY GuardAssumption DEF NoRequest
<1>2. NothingRead \in [Agents -> Accepted]
  BY DEF NothingRead, NothingAccepted, Accepted
<1> QED
  BY <1>1, <1>2 DEF TypeOK, Leave, Stages

(***************************************************************************)
(* Every step of the guard keeps the types of its state.                   *)
(***************************************************************************)
THEOREM TypeCorrect == Spec => []TypeOK
<1>1. Init => TypeOK
  <2>1. NoRequest \in Requests
    BY GuardAssumption DEF NoRequest
  <2>2. NothingRead \in [Agents -> Accepted]
    BY DEF NothingRead, NothingAccepted, Accepted
  <2> QED
    BY <2>1, <2>2, GuardAssumption DEF Init, TypeOK, Stages, NothingRead
<1>2. TypeOK /\ [Next]_vars => TypeOK'
  <2> SUFFICES ASSUME TypeOK, [Next]_vars PROVE TypeOK'
    OBVIOUS
  <2>1. CASE UNCHANGED vars
    BY <2>1 DEF TypeOK, vars
  <2>2. ASSUME NEW t \in Tasks, DecideNew(t) PROVE TypeOK'
    <3>1. /\ seen[t][request[t].agent] \in Accepted
          /\ request[t] \in Requests
          /\ request[t].agent \in Agents
      BY DEF TypeOK, Requests
    <3>2. Admitted(seen[t][request[t].agent], request[t]) \in Accepted
      BY <2>2, <3>1, AdmittedRemembers DEF DecideNew
    <3>3. seen' \in [Tasks -> [Agents -> Accepted]]
      BY <2>2, <3>1, <3>2 DEF DecideNew, TypeOK
    <3> QED
      BY <2>2, <3>3 DEF DecideNew, TypeOK, Stages
  <2>3. ASSUME NEW t \in Tasks, LetIn(t) PROVE TypeOK'
    <3>1. <<request[t].agent, request[t].signature>> \in Agents \X Signatures
      BY DEF TypeOK, Requests
    <3> QED
      BY <2>3, <3>1, LeaveTyped DEF LetIn, TypeOK, Release
  <2>4. ASSUME NEW t \in Tasks, Receive(t) \/ VerifyGenuine(t) \/ HoldAndRead(t) \/ Replace(t)
        PROVE  TypeOK'
    BY <2>4 DEF Receive, VerifyGenuine, HoldAndRead, Replace, TypeOK, Stages
  <2>5. ASSUME NEW t \in Tasks,
               \/ VerifyRefused(t) \/ HoldRefused(t) \/ DecideRefused(t)
               \/ ReplaceRefused(t) \/ Crash(t)
        PROVE  TypeOK'
    BY <2>5, LeaveTyped
       DEF VerifyRefused, HoldRefused, DecideRefused, ReplaceRefused, Crash, TypeOK, Release
  <2> QED
    BY <2>1, <2>2, <2>3, <2>4, <2>5 DEF Next, Authenticate
<1> QED
  BY <1>1, <1>2, PTL DEF Spec

(***************************************************************************)
(* A call that ends without a write (refused or died) leaves the record    *)
(* and everything let in as they were, and frees the lock if it held it.   *)
(***************************************************************************)
LEMMA EndedCallKeeps ==
    ASSUME TypeOK, GuardInv, NEW t \in Tasks,
           Leave(t), Release(t), UNCHANGED <<record, accepted>>
    PROVE  GuardInv'
<1>1. /\ pc'[t] = "idle"
      /\ \A s \in Tasks \ {t} :
            pc'[s] = pc[s] /\ request'[s] = request[s] /\ seen'[s] = seen[s]
  BY LeaveTyped
<1>2. LockInv'
  BY <1>1, GuardAssumption DEF TypeOK, GuardInv, LockInv, Release, InRecord
<1>3. VerifiedInv' /\ ReadInv' /\ AcceptedOnce'
  BY <1>1 DEF GuardInv, VerifiedInv, ReadInv, AcceptedOnce, InRecord
<1>4. StagedInv'
  BY <1>1 DEF GuardInv, StagedInv
<1>5. RememberedInv'
  BY <1>1 DEF GuardInv, RememberedInv
<1> QED
  BY <1>2, <1>3, <1>4, <1>5 DEF GuardInv

(***************************************************************************)
(* A call that moves on without touching the lock, the record or what was  *)
(* read and let in keeps the invariant, as long as it stays outside the    *)
(* record and is queued only with a verified request.                      *)
(***************************************************************************)
LEMMA OutsideKeeps ==
    ASSUME TypeOK, GuardInv, NEW t \in Tasks, NEW stage \in Stages \ InRecord,
           pc[t] \notin InRecord, pc' = [pc EXCEPT ![t] = stage],
           stage = "queued" => request'[t] \in Genuine,
           \A s \in Tasks \ {t} : request'[s] = request[s] /\ seen'[s] = seen[s],
           UNCHANGED <<record, lock, accepted>>
    PROVE  GuardInv'
<1>1. LockInv'
  BY DEF TypeOK, GuardInv, LockInv, InRecord
<1>2. VerifiedInv' /\ ReadInv' /\ AcceptedOnce'
  BY DEF TypeOK, GuardInv, VerifiedInv, ReadInv, AcceptedOnce, InRecord
<1>3. StagedInv'
  BY DEF TypeOK, GuardInv, StagedInv, InRecord
<1>4. RememberedInv'
  BY DEF TypeOK, GuardInv, RememberedInv, InRecord
<1> QED
  BY <1>1, <1>2, <1>3, <1>4 DEF GuardInv

(***************************************************************************)
(* The rename of the staged record keeps the invariant: the record it      *)
(* replaces is the one it was built from.                                  *)
(***************************************************************************)
LEMMA ReplaceKeeps ==
    ASSUME TypeOK, GuardInv, NEW t \in Tasks, Replace(t)
    PROVE  GuardInv'
<1> DEFINE q == request[t]
<1>1. /\ q \in Requests /\ q.agent \in Agents /\ q \in Genuine
      /\ record[q.agent] \in Accepted
      /\ ~Replayed(record[q.agent], q)
      /\ record' = [record EXCEPT ![q.agent] = Admitted(@, q)]
      /\ lock = t
  BY DEF TypeOK, GuardInv, StagedInv, VerifiedInv, LockInv, InRecord, Replace, Requests
<1>2. \A s \in Tasks \ {t} : pc'[s] = pc[s] /\ pc[s] \notin InRecord
  BY <1>1 DEF TypeOK, GuardInv, LockInv, Replace
<1>3. pc'[t] = "replaced"
  BY DEF TypeOK, Replace
<1>4. LockInv' /\ VerifiedInv' /\ ReadInv' /\ StagedInv' /\ AcceptedOnce'
  <2>1. LockInv' /\ VerifiedInv'
    BY <1>1, <1>2, <1>3 DEF GuardInv, LockInv, VerifiedInv, Replace, InRecord
  <2>2. ReadInv' /\ StagedInv' /\ AcceptedOnce'
    BY <1>2, <1>3 DEF GuardInv, ReadInv, StagedInv, AcceptedOnce, Replace, InRecord
  <2> QED
    BY <2>1, <2>2
<1>5. /\ Replayed(record'[q.agent], q)
      /\ accepted'[<<q.agent, q.signature>>] = 0
  BY <1>1, AdmittedRemembers DEF TypeOK, GuardInv, RememberedInv, Replace
<1>6. ASSUME NEW r \in Genuine, accepted[<<r.agent, r.signature>>] # 0
      PROVE  Replayed(record'[r.agent], r)
  <2>1. r \in Requests /\ Replayed(record[r.agent], r)
    BY <1>6, GuardAssumption DEF GuardInv, RememberedInv
  <2>2. CASE r.agent = q.agent
    BY <1>1, <2>1, <2>2, AdmittedKeeps DEF TypeOK
  <2>3. CASE r.agent # q.agent
    BY <1>1, <2>1, <2>3 DEF TypeOK
  <2> QED
    BY <2>2, <2>3
<1>7. RememberedInv'
  BY <1>2, <1>3, <1>5, <1>6 DEF RememberedInv, Replace, InRecord
<1> QED
  BY <1>4, <1>7 DEF GuardInv

(***************************************************************************)
(* Letting a request in keeps the invariant: the record already remembers  *)
(* it, and any other request with its signature states its timestamp.      *)
(***************************************************************************)
LEMMA LetInKeeps ==
    ASSUME TypeOK, GuardInv, NEW t \in Tasks, LetIn(t)
    PROVE  GuardInv'
<1> DEFINE q == request[t]
           k == <<q.agent, q.signature>>
<1>1. /\ q \in Genuine /\ q \in Requests /\ k \in Agents \X Signatures
      /\ Replayed(record[q.agent], q)
      /\ accepted[k] = 0
      /\ accepted' = [accepted EXCEPT ![k] = 1]
      /\ lock = t
  <2>1. q \in Genuine /\ lock = t
    BY DEF GuardInv, VerifiedInv, LockInv, InRecord, LetIn
  <2>2. q \in Requests /\ k \in Agents \X Signatures
    BY DEF TypeOK, Requests
  <2>3. Replayed(record[q.agent], q) /\ accepted[k] = 0
    BY DEF GuardInv, RememberedInv, LetIn
  <2>4. accepted' = [accepted EXCEPT ![k] = 1]
    BY <2>2, <2>3 DEF TypeOK, LetIn
  <2> QED
    BY <2>1, <2>2, <2>3, <2>4
<1>2. \A s \in Tasks \ {t} :
         pc'[s] = pc[s] /\ request'[s] = request[s] /\ pc[s] \notin InRecord
  BY <1>1, LeaveTyped DEF GuardInv, LockInv, LetIn
<1>3. pc'[t] = "idle" /\ lock' = NoTask
  BY <1>1, LeaveTyped DEF LetIn, Release
<1>4. LockInv' /\ VerifiedInv' /\ ReadInv' /\ StagedInv'
  <2>1. LockInv' /\ VerifiedInv'
    BY <1>2, <1>3, GuardAssumption DEF GuardInv, LockInv, VerifiedInv, LetIn, InRecord
  <2>2. ReadInv' /\ StagedInv'
    BY <1>2, <1>3 DEF GuardInv, ReadInv, StagedInv, LetIn, InRecord
  <2> QED
    BY <2>1, <2>2
<1>5. AcceptedOnce'
  BY <1>1 DEF TypeOK, GuardInv, AcceptedOnce
<1>6. ASSUME NEW r \in Genuine, accepted'[<<r.agent, r.signature>>] # 0
      PROVE  Replayed(record'[r.agent], r)
  <2>1. record' = record /\ r \in Requests
    BY GuardAssumption DEF LetIn
  <2>2. CASE r.agent = q.agent /\ r.signature = q.signature
    BY <1>1, <2>1, <2>2, GuardAssumption DEF Replayed
  <2>3. CASE ~(r.agent = q.agent /\ r.signature = q.signature)
    <3>1. accepted[<<r.agent, r.signature>>] # 0
      BY <1>1, <1>6, <2>1, <2>3 DEF TypeOK, Requests
    <3> QED
      BY <2>1, <3>1 DEF GuardInv, RememberedInv
  <2> QED
    BY <2>2, <2>3
<1>7. RememberedInv'
  BY <1>2, <1>3, <1>6 DEF RememberedInv, InRecord
<1> QED
  BY <1>4, <1>5, <1>7 DEF GuardInv

(***************************************************************************)
(* Every step of every caller keeps the inductive invariant.               *)
(***************************************************************************)
LEMMA GuardStep ==
    ASSUME TypeOK, TypeOK', GuardInv, [Next]_vars
    PROVE  GuardInv'
<1>1. CASE UNCHANGED vars
  BY <1>1 DEF vars, GuardInv, LockInv, VerifiedInv, ReadInv, StagedInv,
              RememberedInv, AcceptedOnce
<1>2. ASSUME NEW t \in Tasks, Receive(t) PROVE GuardInv'
  <2>1. pc[t] \notin InRecord /\ "verifying" \in Stages \ InRecord
    BY <1>2 DEF Receive, Stages, InRecord
  <2>2. \A s \in Tasks \ {t} : request'[s] = request[s] /\ seen'[s] = seen[s]
    BY <1>2 DEF Receive, TypeOK
  <2> QED
    BY <1>2, <2>1, <2>2, OutsideKeeps DEF Receive
<1>3. ASSUME NEW t \in Tasks, VerifyGenuine(t) PROVE GuardInv'
  <2>1. pc[t] \notin InRecord /\ "queued" \in Stages \ InRecord
    BY <1>3 DEF VerifyGenuine, Stages, InRecord
  <2> QED
    BY <1>3, <2>1, OutsideKeeps DEF VerifyGenuine
<1>4. ASSUME NEW t \in Tasks, VerifyRefused(t) \/ HoldRefused(t) PROVE GuardInv'
  <2>1. pc[t] \notin InRecord /\ "idle" \in Stages \ InRecord
    BY <1>4 DEF VerifyRefused, HoldRefused, Stages, InRecord
  <2>2. \A s \in Tasks \ {t} : request'[s] = request[s] /\ seen'[s] = seen[s]
    BY <1>4, LeaveTyped DEF VerifyRefused, HoldRefused
  <2> QED
    BY <1>4, <2>1, <2>2, OutsideKeeps DEF VerifyRefused, HoldRefused, Leave
<1>5. ASSUME NEW t \in Tasks, HoldAndRead(t) PROVE GuardInv'
  <2>1. /\ lock = NoTask /\ lock' = t
        /\ pc'[t] = "deciding" /\ seen'[t] = record
        /\ \A s \in Tasks \ {t} : pc'[s] = pc[s] /\ seen'[s] = seen[s]
        /\ \A s \in Tasks : pc[s] \notin InRecord
    BY <1>5, GuardAssumption DEF HoldAndRead, LockGranted, TypeOK, GuardInv, LockInv
  <2>2. LockInv' /\ VerifiedInv'
    BY <1>5, <2>1 DEF HoldAndRead, GuardInv, LockInv, VerifiedInv, InRecord
  <2>3. ReadInv' /\ StagedInv' /\ AcceptedOnce'
    BY <1>5, <2>1 DEF HoldAndRead, GuardInv, ReadInv, StagedInv, AcceptedOnce, InRecord
  <2>4. RememberedInv'
    BY <1>5, <2>1 DEF HoldAndRead, GuardInv, RememberedInv, InRecord
  <2> QED
    BY <2>2, <2>3, <2>4 DEF GuardInv
<1>6. ASSUME NEW t \in Tasks,
             DecideRefused(t) \/ ReplaceRefused(t) \/ Crash(t)
      PROVE  GuardInv'
  BY <1>6, EndedCallKeeps DEF DecideRefused, ReplaceRefused, Crash
<1>7. ASSUME NEW t \in Tasks, DecideNew(t) PROVE GuardInv'
  <2>1. /\ pc'[t] = "replacing" /\ lock = t
        /\ seen[t] = record
        /\ \A s \in Tasks \ {t} : pc'[s] = pc[s] /\ pc[s] \notin InRecord
    BY <1>7 DEF DecideNew, TypeOK, GuardInv, LockInv, ReadInv, InRecord
  <2>2. LockInv' /\ VerifiedInv'
    BY <1>7, <2>1 DEF DecideNew, GuardInv, LockInv, VerifiedInv, InRecord
  <2>3. ReadInv' /\ AcceptedOnce'
    BY <1>7, <2>1 DEF DecideNew, GuardInv, ReadInv, AcceptedOnce, InRecord
  <2>4. StagedInv'
    BY <1>7, <2>1 DEF DecideNew, StagedInv, TypeOK, InRecord
  <2>5. RememberedInv'
    BY <1>7, <2>1 DEF DecideNew, GuardInv, RememberedInv, InRecord
  <2> QED
    BY <2>2, <2>3, <2>4, <2>5 DEF GuardInv
<1>8. ASSUME NEW t \in Tasks, Replace(t) PROVE GuardInv'
  BY <1>8, ReplaceKeeps
<1>9. ASSUME NEW t \in Tasks, LetIn(t) PROVE GuardInv'
  BY <1>9, LetInKeeps
<1> QED
  BY <1>1, <1>2, <1>3, <1>4, <1>5, <1>6, <1>7, <1>8, <1>9 DEF Next, Authenticate

(***************************************************************************)
(* The inductive invariant holds in every reachable state.                 *)
(***************************************************************************)
THEOREM GuardInvariant == Spec => []GuardInv
<1>1. Init => GuardInv
  BY GuardAssumption DEF Init, GuardInv, LockInv, VerifiedInv, ReadInv, StagedInv,
     RememberedInv, AcceptedOnce, InRecord, Requests
<1>2. TypeOK /\ TypeOK' /\ GuardInv /\ [Next]_vars => GuardInv'
  BY GuardStep
<1> QED
  BY <1>1, <1>2, TypeCorrect, PTL DEF Spec

(***************************************************************************)
(* One signature of an agent is let in at most once.                       *)
(***************************************************************************)
THEOREM SignatureOnce == Spec => []AcceptedOnce
<1>1. GuardInv => AcceptedOnce
  BY DEF GuardInv
<1> QED
  BY <1>1, GuardInvariant, PTL

(***************************************************************************)
(* The timestamp recorded for an agent never goes back.                    *)
(***************************************************************************)
THEOREM TimestampKept == Spec => NewestKept
<1>1. ASSUME TypeOK, GuardInv, [Next]_vars
      PROVE  [\A a \in Agents : record'[a].timestamp >= record[a].timestamp]_record
  <2>1. ASSUME NEW t \in Tasks, Replace(t)
        PROVE  \A a \in Agents : record'[a].timestamp >= record[a].timestamp
    <3>1. /\ request[t] \in Requests /\ request[t].agent \in Agents
          /\ record[request[t].agent] \in Accepted
          /\ ~Replayed(record[request[t].agent], request[t])
          /\ record' = [record EXCEPT ![request[t].agent] = Admitted(@, request[t])]
      BY <1>1, <2>1 DEF Replace, TypeOK, GuardInv, StagedInv, Requests
    <3>2. ASSUME NEW a \in Agents PROVE record[a].timestamp \in Int
      <4>1. record[a] \in Accepted
        BY <1>1 DEF TypeOK
      <4>2. record[a].timestamp \in Timestamps \cup {0}
        BY <4>1 DEF Accepted
      <4>3. Timestamps \cup {0} \subseteq Int
        BY GuardAssumption
      <4> QED
        BY <4>2, <4>3
    <3>3. Admitted(record[request[t].agent], request[t]).timestamp
             >= record[request[t].agent].timestamp
      BY <3>1, AdmittedRemembers
    <3>4. ASSUME NEW a \in Agents PROVE record'[a].timestamp >= record[a].timestamp
      <4>1. CASE a = request[t].agent
        BY <3>1, <3>3, <4>1, <1>1 DEF TypeOK
      <4>2. CASE a # request[t].agent
        BY <3>1, <3>2, <4>2, <1>1 DEF TypeOK
      <4> QED
        BY <4>1, <4>2
    <3> QED
      BY <3>4
  <2>2. (\E t \in Tasks : Replace(t)) \/ UNCHANGED record
    BY <1>1 DEF Next, Authenticate, vars, Receive, VerifyGenuine, VerifyRefused,
       HoldAndRead, HoldRefused, DecideNew, DecideRefused, ReplaceRefused, LetIn, Crash
  <2> QED
    BY <2>1, <2>2
<1> QED
  BY <1>1, TypeCorrect, GuardInvariant, PTL DEF Spec, NewestKept

(***************************************************************************)
(* The request about to be let in states the newest moment of its agent:   *)
(* the record it was written to is still the record.                       *)
(***************************************************************************)
NewestInv ==
    \A t \in Tasks : pc[t] = "replaced" => record[request[t].agent].timestamp = request[t].timestamp

LEMMA NewestStep ==
    ASSUME TypeOK, GuardInv, NewestInv, [Next]_vars
    PROVE  NewestInv'
<1>1. ASSUME NEW t \in Tasks, Replace(t) PROVE NewestInv'
  <2> DEFINE q == request[t]
             e == record[q.agent]
  <2>1. /\ q \in Requests /\ q.agent \in Agents /\ e \in Accepted /\ ~Replayed(e, q)
        /\ record' = [record EXCEPT ![q.agent] = Admitted(@, q)] /\ lock = t
    BY <1>1 DEF Replace, TypeOK, GuardInv, StagedInv, LockInv, InRecord, Requests
  <2>2. Admitted(e, q).timestamp = q.timestamp
    BY <2>1, GuardAssumption DEF Accepted, Requests, Replayed, Admitted
  <2>3. record'[q.agent].timestamp = q.timestamp /\ request' = request
    BY <1>1, <2>1, <2>2 DEF Replace, TypeOK
  <2>4. \A s \in Tasks \ {t} : pc'[s] # "replaced"
    BY <1>1, <2>1 DEF Replace, TypeOK, GuardInv, LockInv, InRecord
  <2> QED
    BY <2>3, <2>4 DEF NewestInv
<1>2. ASSUME NEW t \in Tasks, Leave(t), UNCHANGED record PROVE NewestInv'
  BY <1>2, LeaveTyped DEF NewestInv
<1>3. ASSUME NEW t \in Tasks, Receive(t) \/ VerifyGenuine(t) \/ HoldAndRead(t) \/ DecideNew(t)
      PROVE  NewestInv'
  BY <1>3 DEF Receive, VerifyGenuine, HoldAndRead, DecideNew, TypeOK, NewestInv
<1>4. CASE UNCHANGED vars
  BY <1>4 DEF vars, NewestInv
<1> QED
  BY <1>1, <1>2, <1>3, <1>4
     DEF Next, Authenticate, VerifyRefused, HoldRefused, DecideRefused, ReplaceRefused, LetIn, Crash

(***************************************************************************)
(* The guard implements OnceInOrder: every step of every caller, failure   *)
(* and death included, lets one request in that OnceInOrder lets in, or    *)
(* lets nobody in (accept_once).                                           *)
(***************************************************************************)
THEOREM GuardKeepsOrder == Spec => LetInOnceInOrder
<1>1. Init => Order!NobodyIn /\ NewestInv
  BY DEF Init, Order!NobodyIn, NewestInv
<1>2. ASSUME TypeOK, GuardInv, NewestInv, [Next]_vars
      PROVE  [\E r \in Genuine : Order!Let(r)]_accepted
  <2>1. ASSUME NEW t \in Tasks, LetIn(t) PROVE \E r \in Genuine : Order!Let(r)
    <3> DEFINE q == request[t]
               k == <<q.agent, q.signature>>
    <3>1. /\ q \in Genuine /\ q \in Requests /\ k \in Agents \X Signatures
          /\ accepted[k] = 0 /\ record[q.agent].timestamp = q.timestamp
      BY <1>2, <2>1, GuardAssumption
         DEF TypeOK, GuardInv, VerifiedInv, RememberedInv, NewestInv, LetIn, InRecord, Requests
    <3>2. accepted' = [accepted EXCEPT ![k] = 1]
      BY <1>2, <2>1, <3>1 DEF LetIn, TypeOK
    <3>3. ASSUME NEW s \in Genuine, s.agent = q.agent, accepted[<<s.agent, s.signature>>] # 0
          PROVE  s.timestamp <= q.timestamp
      <4>1. Replayed(record[q.agent], s)
        BY <1>2, <3>3 DEF GuardInv, RememberedInv
      <4>2. s.timestamp \in Int /\ q.timestamp \in Int
        BY <3>1, GuardAssumption DEF Requests
      <4> QED
        BY <3>1, <4>1, <4>2 DEF Replayed
    <3>4. Order!Let(q)
      BY <3>1, <3>2, <3>3 DEF Order!Let, Order!OfRequest
    <3> QED
      BY <3>1, <3>4
  <2>2. (\E t \in Tasks : LetIn(t)) \/ UNCHANGED accepted
    BY <1>2 DEF Next, Authenticate, vars, Receive, VerifyGenuine, VerifyRefused,
       HoldAndRead, HoldRefused, DecideNew, DecideRefused, Replace, ReplaceRefused, Crash
  <2> QED
    BY <2>1, <2>2
<1>3. TypeOK /\ GuardInv /\ NewestInv /\ [Next]_vars => NewestInv'
  BY NewestStep
<1> QED
  BY <1>1, <1>2, <1>3, TypeCorrect, GuardInvariant, PTL
     DEF Spec, LetInOnceInOrder, Order!OrderSpec

-----------------------------------------------------------------------------
(***************************************************************************)
(* Request admission (Admission). What a visit carries was true when it    *)
(* was looked up, and nobody is in a gateway that has not started.         *)
(***************************************************************************)

\* The stages of a visit, its answers and what a lookup can say.
VisitStages == {"away", "answered", "skarbiec", "wisent", "organization", "resolved", "handler"}

Answerings == {"none", "upgrade", "misconfigured", "unauthorized", "upstream", "malformed",
               "forbidden", "path refused", "agent refused", "served", "handler refused"}

Lookups == {"unasked", "unconfigured", "unavailable", "resolved", "rejected"}

\* The agents a visit can be credited to, and the record of a visit.
VisitAgents == {c.agent : c \in Declarable} \cup {"own", NoAgent}

VisitRows == [stage : VisitStages, token : AllTokens \cup {NoToken}, path : Paths,
              organization : BOOLEAN, signed : {"none", "own", "other"}, workload : Lookups,
              person : Lookups, honoured : BOOLEAN, scoped : BOOLEAN, agent : VisitAgents,
              answer : Answerings]

\* What a bearer's authorities say of it now.
Honoured(token) == token \in active /\ (token \in PersonTokens => token \in inside)

\* A request under way is answered nothing; while its bearer is put to its
\* authorities, one they still honour was honoured when the request came; and
\* past them an undeclared bearer was.  Membership is asked of a person that
\* Wisent Identity resolved, and an outage is not told as a rejection.
Visited(r) ==
    /\ r.stage # "answered" => r.answer = "none"
    /\ r.stage \in {"skarbiec", "wisent", "organization"} /\ Honoured(r.token) => r.honoured
    /\ r.stage \in {"resolved", "handler"} \/ r.answer = "served"
          => InTable(r.token) # {} \/ r.honoured
    /\ r.stage = "organization" => r.person = "resolved"
    /\ r.answer = "unauthorized" /\ r.workload = "unavailable" => r.person = "resolved"

\* The inductive invariant of admission.
AdmissionInv ==
    /\ skarbiecSet \in {"complete", "none", "partial"}
    /\ table \subseteq Declarable
    /\ visit \in [Visitors -> VisitRows]
    /\ gateway = "starting" => \A v \in Visitors : visit[v] = NoVisit
    /\ \A v \in Visitors : Visited(visit[v])

\* Nobody has come before the gateway serves.
LEMMA AwayVisited ==
    /\ NoVisit \in VisitRows /\ NoVisit.stage = "away" /\ NoVisit.answer = "none"
    /\ NoVisit.workload = "unasked" /\ NoVisit.person = "unasked"
  <1>1. /\ "away" \in VisitStages /\ NoToken \in AllTokens \cup {NoToken} /\ "inference" \in Paths
        /\ "unasked" \in Lookups /\ NoAgent \in VisitAgents /\ "none" \in Answerings
    BY DEF VisitStages, Paths, Lookups, VisitAgents, Answerings
  <1>. QED
    BY <1>1 DEF NoVisit, VisitRows

\* Whoever is in the gateway came after it started.
LEMMA Came ==
    ASSUME AdmissionInv, NEW v \in Visitors, visit[v].stage # "away"
    PROVE  gateway # "starting"
  BY AwayVisited DEF AdmissionInv

\* One request moves and the authorities stand still.
LEMMA VisitMoves ==
    ASSUME AdmissionInv, NEW v \in Visitors, NEW z \in VisitRows,
           visit' = [visit EXCEPT ![v] = z], gateway # "starting", Visited(z),
           UNCHANGED <<gateway, table, skarbiecSet, active, inside>>
    PROVE  AdmissionInv'
  <1>1. visit' \in [Visitors -> VisitRows] /\ table' \subseteq Declarable /\ gateway' # "starting"
    BY DEF AdmissionInv
  <1>2. ASSUME NEW w \in Visitors
        PROVE  Visited(visit'[w])
    <2>1. visit'[w] = IF w = v THEN z ELSE visit[w]
      BY DEF AdmissionInv
    <2>. QED
      BY <2>1 DEF AdmissionInv
  <1>3. ASSUME NEW w \in Visitors
        PROVE  Visited(visit[w])'
    BY <1>2 DEF Visited, InTable, Honoured
  <1>. QED
    BY <1>1, <1>3 DEF AdmissionInv

\* The transport guard, the presented bearer and the start-up table.
LEMMA ArriveSafe ==
    ASSUME AdmissionInv, NEW v \in Visitors, NEW token \in AllTokens \cup {NoToken},
           NEW path \in Paths, NEW organization \in BOOLEAN,
           NEW signed \in {"none", "own", "other"}, NEW peer, NEW readable \in BOOLEAN,
           NEW forwarded, NEW xForwarded,
           Arrive(v, token, path, organization, signed, peer, readable, forwarded, xForwarded)
    PROVE  AdmissionInv'
  <1> DEFINE came == [NoVisit EXCEPT !.token = token, !.path = path,
                         !.organization = organization, !.signed = signed,
                         !.honoured = token \in active
                                      /\ (token \in PersonTokens => token \in inside)]
             refusal == IF readable THEN "upgrade" ELSE "misconfigured"
             c == CHOOSE c \in InTable(token) : TRUE
             guarded == [came EXCEPT !.stage = "answered", !.answer = refusal]
             nobody == [came EXCEPT !.stage = "answered", !.answer = "unauthorized"]
             known == [came EXCEPT !.stage = "resolved", !.agent = c.agent,
                                   !.scoped = c.models # NoScope]
             unknown == [came EXCEPT !.stage = "skarbiec"]
  <1>1. /\ gateway = "serving" /\ UNCHANGED <<gateway, table, skarbiecSet, active, inside>>
        /\ \/ visit' = [visit EXCEPT ![v] = guarded]
           \/ visit' = [visit EXCEPT ![v] = nobody]
           \/ InTable(token) # {} /\ visit' = [visit EXCEPT ![v] = known]
           \/ InTable(token) = {} /\ visit' = [visit EXCEPT ![v] = unknown]
    BY DEF Arrive
  <1>2. /\ came \in VisitRows /\ came.stage = "away" /\ came.answer = "none"
        /\ came.workload = "unasked" /\ came.person = "unasked" /\ came.token = token
        /\ came.honoured = Honoured(token)
    <2>1. Honoured(token) \in BOOLEAN
      BY DEF Honoured
    <2> DEFINE h == Honoured(token)
    <2>2. came = [NoVisit EXCEPT !.token = token, !.path = path, !.organization = organization,
                                 !.signed = signed, !.honoured = h]
      BY DEF Honoured
    <2> HIDE DEF h, came
    <2>3. h \in BOOLEAN
      BY <2>1 DEF h
    <2>4. /\ came \in VisitRows /\ came.stage = "away" /\ came.answer = "none"
          /\ came.workload = "unasked" /\ came.person = "unasked" /\ came.token = token
          /\ came.honoured = h
      BY <2>2, <2>3, AwayVisited DEF VisitRows
    <2>. QED
      BY <2>4 DEF h
  <1>3. /\ refusal \in Answerings /\ refusal \notin {"served", "unauthorized"}
        /\ "answered" \in VisitStages /\ "resolved" \in VisitStages /\ "skarbiec" \in VisitStages
        /\ "unauthorized" \in Answerings /\ (c.models # NoScope) \in BOOLEAN
    BY DEF Answerings, VisitStages
  <1>4. InTable(token) # {} => c.agent \in VisitAgents
    <2>1. InTable(token) # {} => c \in InTable(token)
      OBVIOUS
    <2> HIDE DEF c
    <2>. QED
      BY <2>1 DEF InTable, VisitAgents, AdmissionInv
  <1> HIDE DEF came, refusal, c
  <1>5. guarded \in VisitRows /\ Visited(guarded)
    <2>1. /\ guarded \in VisitRows /\ guarded.stage = "answered" /\ guarded.answer = refusal
      BY <1>2, <1>3 DEF VisitRows
    <2> HIDE DEF guarded
    <2>. QED
      BY <1>3, <2>1 DEF Visited
  <1>6. nobody \in VisitRows /\ Visited(nobody)
    <2>1. /\ nobody \in VisitRows /\ nobody.stage = "answered" /\ nobody.answer = "unauthorized"
          /\ nobody.workload = "unasked"
      BY <1>2, <1>3 DEF VisitRows
    <2> HIDE DEF nobody
    <2>. QED
      BY <2>1 DEF Visited
  <1>7. CASE InTable(token) # {} /\ visit' = [visit EXCEPT ![v] = known]
    <2>1. c.agent \in VisitAgents
      BY <1>4, <1>7
    <2> DEFINE g == c.agent
               b == c.models # NoScope
    <2>2. known = [came EXCEPT !.stage = "resolved", !.agent = g, !.scoped = b]
      OBVIOUS
    <2>3. g \in VisitAgents /\ b \in BOOLEAN
      BY <1>3, <2>1
    <2> HIDE DEF known, g, b
    <2>4. /\ known \in VisitRows /\ known.stage = "resolved" /\ known.answer = "none"
          /\ known.token = token
      BY <1>2, <1>3, <2>2, <2>3 DEF VisitRows
    <2>5. Visited(known)
      BY <1>7, <2>4 DEF Visited
    <2>. QED
      BY <1>1, <1>7, <2>4, <2>5, VisitMoves
  <1>8. CASE visit' = [visit EXCEPT ![v] = unknown]
    <2>1. /\ unknown \in VisitRows /\ unknown.stage = "skarbiec" /\ unknown.answer = "none"
          /\ unknown.token = token /\ unknown.honoured = Honoured(token)
      BY <1>2, <1>3 DEF VisitRows
    <2> HIDE DEF unknown
    <2>2. Visited(unknown)
      BY <2>1 DEF Visited
    <2>. QED
      BY <1>1, <1>8, <2>1, <2>2, VisitMoves
  <1>9. gateway # "starting"
    BY <1>1
  <1> HIDE DEF guarded, nobody, known, unknown
  <1>. QED
    BY <1>1, <1>5, <1>6, <1>7, <1>8, <1>9, VisitMoves

\* Skarbiec, which issued a workload's token.
LEMMA AskSkarbiecSafe ==
    ASSUME AdmissionInv, NEW v \in Visitors, AskSkarbiec(v)
    PROVE  AdmissionInv'
  <1>1. PICK r \in VisitRows : r = visit[v]
    BY DEF AdmissionInv
  <1>2. r.stage = "skarbiec" /\ UNCHANGED <<gateway, table, skarbiecSet, active, inside>> /\ Visited(r)
    BY <1>1 DEF AskSkarbiec, AdmissionInv
  <1>3. gateway # "starting"
    BY <1>1, <1>2, Came
  <1>4. PICK answer \in SkarbiecAnswers(r.token) :
          visit' = [visit EXCEPT ![v] =
             IF answer = "resolved"
             THEN [@ EXCEPT !.stage = "resolved", !.workload = answer, !.scoped = TRUE,
                            !.agent = AgentOf[r.token]]
             ELSE [@ EXCEPT !.stage = "wisent", !.workload = answer]]
    BY <1>1 DEF AskSkarbiec
  <1>5. answer \in Lookups /\ (answer = "resolved" => r.token \in WorkloadTokens \cap active)
    <2>1. answer \in {"unconfigured", "unavailable", Introspection(r.token)}
      BY <1>4 DEF SkarbiecAnswers, AdmissionInv
    <2>. QED
      BY <2>1 DEF Introspection, Lookups
  <1>6. CASE answer = "resolved"
    <2> DEFINE g == AgentOf[r.token]
               z == [r EXCEPT !.stage = "resolved", !.workload = answer, !.scoped = TRUE, !.agent = g]
    <2>1. visit' = [visit EXCEPT ![v] = z]
      BY <1>1, <1>4, <1>6
    <2>2. g \in VisitAgents /\ "resolved" \in VisitStages
      BY <1>5, <1>6, AdmissionAssumption DEF VisitAgents, VisitStages
    <2> HIDE DEF g
    <2>3. /\ z \in VisitRows /\ z.stage = "resolved" /\ z.token = r.token /\ z.answer = r.answer
          /\ z.honoured = r.honoured
      BY <1>5, <2>2 DEF VisitRows
    <2> HIDE DEF z
    <2>4. Honoured(r.token)
      BY <1>5, <1>6, AdmissionAssumption DEF Honoured
    <2>5. Visited(z)
      BY <1>2, <2>3, <2>4 DEF Visited
    <2>. QED
      BY <1>2, <1>3, <2>1, <2>3, <2>5, VisitMoves
  <1>7. CASE answer # "resolved"
    <2> DEFINE z == [r EXCEPT !.stage = "wisent", !.workload = answer]
    <2>1. visit' = [visit EXCEPT ![v] = z]
      BY <1>1, <1>4, <1>7
    <2>2. "wisent" \in VisitStages
      BY DEF VisitStages
    <2>3. /\ z \in VisitRows /\ z.stage = "wisent" /\ z.token = r.token /\ z.answer = r.answer
          /\ z.honoured = r.honoured
      BY <1>5, <2>2 DEF VisitRows
    <2> HIDE DEF z
    <2>4. Visited(z)
      BY <1>2, <2>3 DEF Visited
    <2>. QED
      BY <1>2, <1>3, <2>1, <2>3, <2>4, VisitMoves
  <1>. QED
    BY <1>6, <1>7

\* Wisent Identity, which signed a person in.
LEMMA AskWisentSafe ==
    ASSUME AdmissionInv, NEW v \in Visitors, AskWisent(v)
    PROVE  AdmissionInv'
  <1>1. PICK r \in VisitRows : r = visit[v]
    BY DEF AdmissionInv
  <1>2. r.stage = "wisent" /\ UNCHANGED <<gateway, table, skarbiecSet, active, inside>> /\ Visited(r)
    BY <1>1 DEF AskWisent, AdmissionInv
  <1>3. gateway # "starting"
    BY <1>1, <1>2, Came
  <1>4. PICK answer \in WisentAnswers(r.token) :
          LET asked == [r EXCEPT !.person = answer]
          IN visit' = [visit EXCEPT ![v] =
               CASE answer = "rejected" ->
                      [asked EXCEPT !.stage = "answered", !.answer = Unknown(asked.workload)]
                 [] answer = "unavailable" ->
                      [asked EXCEPT !.stage = "answered", !.answer = "upstream"]
                 [] answer = "resolved" /\ ~asked.organization ->
                      [asked EXCEPT !.stage = "answered", !.answer = "malformed"]
                 [] OTHER -> [asked EXCEPT !.stage = "organization"]]
    BY <1>1 DEF AskWisent
  <1>5. answer \in {"unavailable", "resolved", "rejected"}
    BY <1>4 DEF WisentAnswers
  <1> DEFINE asked == [r EXCEPT !.person = answer]
  <1>6. /\ asked \in VisitRows /\ asked.person = answer /\ asked.token = r.token
        /\ asked.answer = r.answer /\ asked.honoured = r.honoured /\ asked.workload = r.workload
    <2>1. answer \in Lookups
      BY <1>5 DEF Lookups
    <2>. QED
      BY <2>1 DEF VisitRows
  <1>7. PICK said \in Answerings :
          /\ said = "unauthorized" => r.workload # "unavailable"
          /\ said # "served"
          /\ \/ visit' = [visit EXCEPT ![v] = [asked EXCEPT !.stage = "answered", !.answer = said]]
             \/ answer = "resolved" /\ visit' = [visit EXCEPT ![v] = [asked EXCEPT !.stage = "organization"]]
    <2>1. CASE answer = "rejected"
      <3>1. visit' = [visit EXCEPT ![v] = [asked EXCEPT !.stage = "answered",
                                                        !.answer = Unknown(asked.workload)]]
        BY <1>4, <2>1
      <3>2. /\ Unknown(asked.workload) \in Answerings /\ Unknown(asked.workload) # "served"
            /\ Unknown(asked.workload) = "unauthorized" => r.workload # "unavailable"
        BY <1>6 DEF Unknown, Answerings
      <3>. QED
        BY <3>1, <3>2
    <2>2. CASE answer = "unavailable"
      <3>1. visit' = [visit EXCEPT ![v] = [asked EXCEPT !.stage = "answered", !.answer = "upstream"]]
        BY <1>4, <2>2
      <3>2. "upstream" \in Answerings
        BY DEF Answerings
      <3>. QED
        BY <3>1, <3>2
    <2>3. CASE answer = "resolved" /\ ~asked.organization
      <3>1. visit' = [visit EXCEPT ![v] = [asked EXCEPT !.stage = "answered", !.answer = "malformed"]]
        BY <1>4, <2>3
      <3>2. "malformed" \in Answerings
        BY DEF Answerings
      <3>. QED
        BY <3>1, <3>2
    <2>4. CASE answer = "resolved" /\ asked.organization
      <3>1. visit' = [visit EXCEPT ![v] = [asked EXCEPT !.stage = "organization"]]
        BY <1>4, <2>4
      <3>2. "none" \in Answerings
        BY DEF Answerings
      <3>. QED
        BY <2>4, <3>1, <3>2
    <2>. QED
      BY <1>5, <2>1, <2>2, <2>3, <2>4
  <1> HIDE DEF asked
  <1>8. "answered" \in VisitStages /\ "organization" \in VisitStages
    BY DEF VisitStages
  <1>9. CASE visit' = [visit EXCEPT ![v] = [asked EXCEPT !.stage = "answered", !.answer = said]]
    <2> DEFINE z == [asked EXCEPT !.stage = "answered", !.answer = said]
    <2>1. /\ z \in VisitRows /\ z.stage = "answered" /\ z.answer = said /\ z.workload = r.workload
      BY <1>6, <1>7, <1>8 DEF VisitRows
    <2> HIDE DEF z
    <2>2. Visited(z)
      BY <1>7, <2>1 DEF Visited
    <2>3. visit' = [visit EXCEPT ![v] = z]
      BY <1>9 DEF z
    <2>. QED
      BY <1>2, <1>3, <2>1, <2>2, <2>3, VisitMoves
  <1>10. CASE answer = "resolved" /\ visit' = [visit EXCEPT ![v] = [asked EXCEPT !.stage = "organization"]]
    <2> DEFINE z == [asked EXCEPT !.stage = "organization"]
    <2>1. /\ z \in VisitRows /\ z.stage = "organization" /\ z.answer = r.answer /\ z.token = r.token
          /\ z.honoured = r.honoured /\ z.person = answer
      BY <1>6, <1>8 DEF VisitRows
    <2> HIDE DEF z
    <2>2. Visited(z)
      BY <1>2, <1>10, <2>1 DEF Visited
    <2>3. visit' = [visit EXCEPT ![v] = z]
      BY <1>10 DEF z
    <2>. QED
      BY <1>2, <1>3, <2>1, <2>2, <2>3, VisitMoves
  <1>. QED
    BY <1>7, <1>9, <1>10

\* The organization of a resolved person.
LEMMA AskOrganizationSafe ==
    ASSUME AdmissionInv, NEW v \in Visitors, AskOrganization(v)
    PROVE  AdmissionInv'
  <1>1. PICK r \in VisitRows : r = visit[v]
    BY DEF AdmissionInv
  <1>2. r.stage = "organization" /\ UNCHANGED <<gateway, table, skarbiecSet, active, inside>> /\ Visited(r)
    BY <1>1 DEF AskOrganization, AdmissionInv
  <1>3. gateway # "starting"
    BY <1>1, <1>2, Came
  <1>4. PICK answer \in OrganizationAnswers(r.token) :
          visit' = [visit EXCEPT ![v] =
             IF answer = "member" THEN [@ EXCEPT !.stage = "resolved", !.scoped = TRUE]
             ELSE [@ EXCEPT !.stage = "answered", !.answer = answer]]
    BY <1>1 DEF AskOrganization
  <1>5. /\ answer \in {"upstream", "unauthorized", "member", "forbidden"}
        /\ answer = "member" => Honoured(r.token)
    BY <1>4 DEF OrganizationAnswers, Honoured
  <1>6. "answered" \in VisitStages /\ "resolved" \in VisitStages
    BY DEF VisitStages
  <1>7. CASE answer = "member"
    <2> DEFINE z == [r EXCEPT !.stage = "resolved", !.scoped = TRUE]
    <2>1. visit' = [visit EXCEPT ![v] = z]
      BY <1>1, <1>4, <1>7
    <2>2. /\ z \in VisitRows /\ z.stage = "resolved" /\ z.answer = r.answer /\ z.token = r.token
          /\ z.honoured = r.honoured
      BY <1>6 DEF VisitRows
    <2> HIDE DEF z
    <2>3. Visited(z)
      BY <1>2, <1>5, <1>7, <2>2 DEF Visited
    <2>. QED
      BY <1>2, <1>3, <2>1, <2>2, <2>3, VisitMoves
  <1>8. CASE answer # "member"
    <2> DEFINE z == [r EXCEPT !.stage = "answered", !.answer = answer]
    <2>1. visit' = [visit EXCEPT ![v] = z]
      BY <1>1, <1>4, <1>8
    <2>2. answer \in Answerings /\ answer # "served"
      BY <1>5, <1>8 DEF Answerings
    <2>3. /\ z \in VisitRows /\ z.stage = "answered" /\ z.answer = answer /\ z.person = r.person
      BY <1>6, <2>2 DEF VisitRows
    <2> HIDE DEF z
    <2>4. Visited(z)
      BY <1>2, <2>2, <2>3 DEF Visited
    <2>. QED
      BY <1>2, <1>3, <2>1, <2>3, <2>4, VisitMoves
  <1>. QED
    BY <1>7, <1>8

\* A resolved request is answered a refusal or reaches its handler.
LEMMA AdmitSafe ==
    ASSUME AdmissionInv, NEW v \in Visitors, Admit(v)
    PROVE  AdmissionInv'
  <1>1. PICK r \in VisitRows : r = visit[v]
    BY DEF AdmissionInv
  <1>2. r.stage = "resolved" /\ UNCHANGED <<gateway, table, skarbiecSet, active, inside>> /\ Visited(r)
    BY <1>1 DEF Admit, AdmissionInv
  <1>3. gateway # "starting"
    BY <1>1, <1>2, Came
  <1>4. \/ \E said \in {"path refused", "agent refused"} :
             visit' = [visit EXCEPT ![v] = [r EXCEPT !.stage = "answered", !.answer = said]]
        \/ visit' = [visit EXCEPT ![v] = [r EXCEPT !.stage = "handler"]]
    BY <1>1 DEF Admit
  <1>5. "answered" \in VisitStages /\ "handler" \in VisitStages
    BY DEF VisitStages
  <1>6. ASSUME NEW said \in {"path refused", "agent refused"},
               visit' = [visit EXCEPT ![v] = [r EXCEPT !.stage = "answered", !.answer = said]]
        PROVE  AdmissionInv'
    <2> DEFINE z == [r EXCEPT !.stage = "answered", !.answer = said]
    <2>1. said \in Answerings
      BY DEF Answerings
    <2>2. /\ z \in VisitRows /\ z.stage = "answered" /\ z.answer = said
      BY <1>5, <2>1 DEF VisitRows
    <2>3. visit' = [visit EXCEPT ![v] = z]
      BY <1>6
    <2> HIDE DEF z
    <2>4. Visited(z)
      BY <2>2 DEF Visited
    <2>. QED
      BY <1>2, <1>3, <2>2, <2>3, <2>4, VisitMoves
  <1>7. CASE visit' = [visit EXCEPT ![v] = [r EXCEPT !.stage = "handler"]]
    <2> DEFINE z == [r EXCEPT !.stage = "handler"]
    <2>1. /\ z \in VisitRows /\ z.stage = "handler" /\ z.answer = r.answer /\ z.token = r.token
          /\ z.honoured = r.honoured
      BY <1>5 DEF VisitRows
    <2>2. visit' = [visit EXCEPT ![v] = z]
      BY <1>7
    <2> HIDE DEF z
    <2>3. Visited(z)
      BY <1>2, <2>1 DEF Visited
    <2>. QED
      BY <1>2, <1>3, <2>1, <2>2, <2>3, VisitMoves
  <1>. QED
    BY <1>4, <1>6, <1>7

\* The handler serves the request or refuses it.
LEMMA HandleSafe ==
    ASSUME AdmissionInv, NEW v \in Visitors, NEW console, NEW verified,
           Handle(v, console, verified)
    PROVE  AdmissionInv'
  <1>1. PICK r \in VisitRows : r = visit[v]
    BY DEF AdmissionInv
  <1>2. r.stage = "handler" /\ UNCHANGED <<gateway, table, skarbiecSet, active, inside>> /\ Visited(r)
    BY <1>1 DEF Handle, AdmissionInv
  <1>3. gateway # "starting"
    BY <1>1, <1>2, Came
  <1>4. PICK said \in {"served", "handler refused"} :
          visit' = [visit EXCEPT ![v].stage = "answered", ![v].answer = said]
    BY DEF Handle, Answered
  <1> DEFINE z == [r EXCEPT !.stage = "answered", !.answer = said]
  <1>5. visit' = [visit EXCEPT ![v] = z]
    BY <1>1, <1>4 DEF AdmissionInv
  <1>6. said \in Answerings /\ "answered" \in VisitStages
    BY DEF Answerings, VisitStages
  <1>7. /\ z \in VisitRows /\ z.stage = "answered" /\ z.answer = said /\ z.token = r.token
        /\ z.honoured = r.honoured
    BY <1>6 DEF VisitRows
  <1> HIDE DEF z
  <1>8. Visited(z)
    BY <1>2, <1>4, <1>7 DEF Visited
  <1>. QED
    BY <1>2, <1>3, <1>5, <1>7, <1>8, VisitMoves

\* The declaration is read before anybody is served.
LEMMA StartServerSafe ==
    ASSUME AdmissionInv, NEW declared \in SUBSET Declarable, NEW standalone,
           StartServer(declared, standalone)
    PROVE  AdmissionInv'
  <1>1. gateway = "starting" /\ gateway' \in {"serving", "stopped"} /\ table' \in {declared, {}}
        /\ visit' = visit /\ skarbiecSet' = skarbiecSet
    BY DEF StartServer
  <1>2. \A v \in Visitors : visit[v] = NoVisit
    BY <1>1 DEF AdmissionInv
  <1>3. \A v \in Visitors : Visited(visit[v])'
    BY <1>1, <1>2, AwayVisited DEF Visited
  <1>. QED
    BY <1>1, <1>3 DEF AdmissionInv

\* A revocation takes from what an authority honours.
LEMMA RevokeSafe ==
    ASSUME AdmissionInv, NEW token, Revoke(token)
    PROVE  AdmissionInv'
  <1>1. /\ active' \subseteq active /\ inside' \subseteq inside
        /\ UNCHANGED <<gateway, table, skarbiecSet, visit>>
    BY DEF Revoke
  <1>2. ASSUME NEW v \in Visitors
        PROVE  Visited(visit[v])'
    <2>1. Visited(visit[v])
      BY DEF AdmissionInv
    <2>2. PICK r : r = visit[v] /\ r = visit'[v]
      BY <1>1
    <2>3. /\ InTable(r.token)' = InTable(r.token) /\ (Honoured(r.token)' => Honoured(r.token))
      BY <1>1 DEF InTable, Honoured
    <2>. QED
      BY <2>1, <2>2, <2>3 DEF Visited
  <1>. QED
    BY <1>1, <1>2 DEF AdmissionInv

\* Every step of admission keeps the invariant.
LEMMA AdmissionSteps == AdmissionInv /\ [AdmissionNext]_admissionVars => AdmissionInv'
  <1> SUFFICES ASSUME AdmissionInv, [AdmissionNext]_admissionVars
               PROVE  AdmissionInv'
    OBVIOUS
  <1>1. CASE UNCHANGED admissionVars
    BY <1>1 DEF admissionVars, AdmissionInv, Visited, InTable, Honoured
  <1>2. ASSUME NEW v \in Visitors, NEW token \in AllTokens \cup {NoToken}, NEW path \in Paths,
               NEW organization \in BOOLEAN, NEW signed \in {"none", "own", "other"},
               Arrive(v, token, path, organization, signed, "loopback", TRUE, "absent", "absent")
        PROVE  AdmissionInv'
    BY <1>2, ArriveSafe
  <1>3. ASSUME NEW v \in Visitors, NEW peer, NEW readable \in BOOLEAN, NEW forwarded,
               NEW xForwarded,
               Arrive(v, NoToken, "inference", FALSE, "none", peer, readable, forwarded, xForwarded)
        PROVE  AdmissionInv'
    <2>1. NoToken \in AllTokens \cup {NoToken} /\ "inference" \in Paths /\ FALSE \in BOOLEAN
      BY DEF Paths
    <2>. QED
      BY <1>3, <2>1, ArriveSafe
  <1>4. CASE \E declared \in SUBSET Declarable, standalone \in BOOLEAN :
                StartServer(declared, standalone)
    BY <1>4, StartServerSafe
  <1>5. CASE \E v \in Visitors : AskSkarbiec(v) \/ AskWisent(v) \/ AskOrganization(v) \/ Admit(v)
    BY <1>5, AskSkarbiecSafe, AskWisentSafe, AskOrganizationSafe, AdmitSafe
  <1>6. CASE \E v \in Visitors, console, verified \in BOOLEAN : Handle(v, console, verified)
    BY <1>6, HandleSafe
  <1>7. CASE \E token \in AllTokens : Revoke(token)
    BY <1>7, RevokeSafe
  <1>. QED
    BY <1>1, <1>2, <1>3, <1>4, <1>5, <1>6, <1>7 DEF AdmissionNext

\* The invariant holds before the server starts.
LEMMA AdmissionStarts == AdmissionInit => AdmissionInv
  BY AwayVisited DEF AdmissionInit, AdmissionInv, Visited

\* The invariant is more than the property.
LEMMA AdmissionInvGives == AdmissionInv => AdmissionSafe
  <1> SUFFICES ASSUME AdmissionInv
               PROVE  AdmissionSafe
    OBVIOUS
  <1>1. \A v \in Visitors : Visited(visit[v])
    BY DEF AdmissionInv
  <1>. QED
    BY <1>1 DEF AdmissionSafe, RevokedNotServed, OutageNotUnauthorized, Visited

\* Whatever bearers the operator revokes between the calls a request makes,
\* and whichever authorities do not answer: a bearer that was revoked before
\* its request began is never served, and an outage is not told as a 401.
THEOREM RevokedStayOut == AdmissionSpec => []AdmissionSafe
  BY AdmissionStarts, AdmissionSteps, AdmissionInvGives, PTL DEF AdmissionSpec

-----------------------------------------------------------------------------
(***************************************************************************)
(* Model discovery (ModelDiscovery). A walk that reads a publisher holds   *)
(* that publisher's lock, so two reads of one publisher never overlap.     *)
(***************************************************************************)

\* The stages of a discovery, how a publisher fails it, and what it remembers.
WalkStages == {"idle", "walk", "queued", "reading"}

FailureClasses == LedgerRefusals \cup {"cached", "provider_failure", "dependency", "unauthorized"}

Failures == Publishers \X FailureClasses

MemberWalks ==
    [stage : WalkStages, next : Nat \ {0}, landed : SUBSET Publishers, refused : SUBSET Publishers,
     found : SUBSET Publishers, failures : SUBSET Failures]

\* What one walk owes the lock: it reads a member only while it holds the
\* member's lock, and only what no cache has answered since it began.
HoldsLock(w) ==
    /\ walk[w].stage \in {"queued", "reading"} => walk[w].next \in DOMAIN Discovered
    /\ walk[w].stage = "reading" =>
         /\ readLock[At(w)] = w
         /\ At(w) \notin walk[w].landed
         /\ At(w) \notin walk[w].refused

\* The inductive invariant of discovery.
DiscoveryInv ==
    /\ readLock \in [Publishers -> Walks \cup {Unlocked}]
    /\ walk \in [Walks -> MemberWalks]
    /\ \A w \in Walks : HoldsLock(w)

\* A walk that goes on to the next member.
LEMMA AfterTyped ==
    ASSUME DiscoveryInv, NEW w \in Walks, NEW f \in SUBSET Publishers, NEW g \in SUBSET Failures
    PROVE  After(w, f, g) \in MemberWalks /\ After(w, f, g).stage = "walk"
  <1> DEFINE y == walk[w]
             n == y.next + 1
             found == IF w = RoutingWalk THEN y.found \cup f ELSE y.found
             failures == IF w = RoutingWalk THEN y.failures \cup g ELSE y.failures
             x == [y EXCEPT !.next = n, !.stage = "walk", !.found = found, !.failures = failures]
  <1>1. y \in MemberWalks /\ n \in Nat \ {0} /\ found \in SUBSET Publishers /\ failures \in SUBSET Failures
    BY DEF DiscoveryInv, MemberWalks
  <1>2. After(w, f, g) = x
    BY DEF After
  <1>3. "walk" \in WalkStages
    BY DEF WalkStages
  <1> HIDE DEF y, n, found, failures
  <1>4. x \in MemberWalks /\ x.stage = "walk"
    BY <1>1, <1>3 DEF MemberWalks
  <1>. QED
    BY <1>2, <1>4

\* Only this walk moves, and the locks of the others are left alone.
LEMMA WalkMoves ==
    ASSUME DiscoveryInv, NEW w \in Walks, NEW x \in MemberWalks,
           walk' = [walk EXCEPT ![w] = x],
           readLock' \in [Publishers -> Walks \cup {Unlocked}],
           \A p \in Publishers : readLock[p] \in Walks \ {w} => readLock'[p] = readLock[p],
           x.stage \in {"queued", "reading"} => x.next \in DOMAIN Discovered,
           x.stage = "reading" => /\ readLock'[Discovered[x.next]] = w
                                  /\ Discovered[x.next] \notin x.landed
                                  /\ Discovered[x.next] \notin x.refused
    PROVE  DiscoveryInv'
  <1>1. /\ walk' \in [Walks -> MemberWalks] /\ walk'[w] = x
        /\ \A v \in Walks \ {w} : walk'[v] = walk[v]
    BY DEF DiscoveryInv
  <1>2. ASSUME NEW v \in Walks
        PROVE  HoldsLock(v)'
    <2>1. CASE v = w
      BY <1>1, <2>1 DEF HoldsLock, At
    <2>2. CASE v # w
      <3>1. HoldsLock(v) /\ walk'[v] = walk[v]
        BY <1>1, <2>2 DEF DiscoveryInv
      <3>2. walk[v].stage = "reading" => At(v) \in Publishers
        BY <3>1 DEF HoldsLock, At, Publishers
      <3>3. walk[v].stage = "reading" => readLock'[At(v)] = v
        BY <2>2, <3>1, <3>2 DEF HoldsLock
      <3>. QED
        BY <3>1, <3>3 DEF HoldsLock, At
    <2>. QED
      BY <2>1, <2>2
  <1>. QED
    BY <1>1, <1>2 DEF DiscoveryInv

\* A walk that is not at its end is at a publisher.
LEMMA MemberAt ==
    ASSUME DiscoveryInv, NEW w \in Walks,
           \/ walk[w].stage = "walk" /\ walk[w].next <= Len(Discovered)
           \/ walk[w].stage \in {"queued", "reading"}
    PROVE  walk[w].next \in DOMAIN Discovered /\ At(w) \in Publishers
  <1>1. walk[w].next \in DOMAIN Discovered
    BY ModelDiscoveryAssumption DEF DiscoveryInv, HoldsLock, MemberWalks, ModelDiscoveryAssumption
  <1>. QED
    BY <1>1 DEF At, Publishers

\* A walk at rest, and one that begins.
LEMMA RestingTyped ==
    LET x == [Resting EXCEPT !.stage = "walk"] IN
    /\ Resting \in MemberWalks /\ Resting.stage = "idle"
    /\ x \in MemberWalks /\ x.stage = "walk"
  BY DEF Resting, MemberWalks, WalkStages

\* The walk goes on with a member's models or with its failure.
LEMMA GoesOnKeeps ==
    ASSUME DiscoveryInv, NEW w \in Walks, NEW f \in SUBSET Publishers, NEW g \in SUBSET Failures,
           walk' = [walk EXCEPT ![w] = After(w, f, g)], UNCHANGED readLock
    PROVE  DiscoveryInv'
  <1>1. After(w, f, g) \in MemberWalks /\ After(w, f, g).stage = "walk"
    BY AfterTyped
  <1>2. readLock' \in [Publishers -> Walks \cup {Unlocked}]
    BY DEF DiscoveryInv
  <1>. QED
    BY <1>1, <1>2, WalkMoves

\* The walk that read a member lets its lock go; what it read lands.
LEMMA ReadEnds ==
    ASSUME DiscoveryInv, NEW w \in Walks, walk[w].stage = "reading",
           NEW f \in SUBSET Publishers, NEW g \in SUBSET Failures,
           readLock' = [readLock EXCEPT ![At(w)] = Unlocked],
           walk' \in [Walks -> MemberWalks], walk'[w] = After(w, f, g),
           \A v \in Walks \ {w} :
               /\ walk'[v].stage = walk[v].stage /\ walk'[v].next = walk[v].next
               /\ walk'[v].landed \subseteq walk[v].landed \cup {At(w)}
               /\ walk'[v].refused \subseteq walk[v].refused \cup {At(w)}
    PROVE  DiscoveryInv'
  <1>1. At(w) \in Publishers /\ readLock[At(w)] = w
    BY MemberAt DEF DiscoveryInv, HoldsLock
  <1>2. /\ readLock' \in [Publishers -> Walks \cup {Unlocked}]
        /\ \A p \in Publishers \ {At(w)} : readLock'[p] = readLock[p]
    BY <1>1 DEF DiscoveryInv
  <1>3. ASSUME NEW v \in Walks, v # w
        PROVE  HoldsLock(v)'
    <2>1. HoldsLock(v)
      BY DEF DiscoveryInv
    <2>2. At(v)' = At(v)
      BY <1>3 DEF At
    <2>3. walk[v].stage = "reading" => At(v) \in Publishers /\ At(v) # At(w)
      BY <1>1, <1>3, <2>1, MemberAt DEF HoldsLock
    <2>4. walk[v].stage = "reading" => readLock'[At(v)] = v
      BY <1>2, <2>1, <2>3 DEF HoldsLock
    <2>. QED
      BY <1>3, <2>1, <2>2, <2>3, <2>4 DEF HoldsLock
  <1>4. HoldsLock(w)'
    BY AfterTyped DEF HoldsLock
  <1>. QED
    BY <1>2, <1>3, <1>4 DEF DiscoveryInv

\* What lands of one walk is noted by the other, if it began.
LEMMA LandsNoted ==
    ASSUME DiscoveryInv, NEW w \in Walks, NEW p \in Publishers, NEW after \in MemberWalks,
           Lands(w, p, "landed", after) \/ Lands(w, p, "refused", after)
    PROVE  /\ walk' \in [Walks -> MemberWalks] /\ walk'[w] = after
           /\ \A v \in Walks \ {w} :
                 /\ walk'[v].stage = walk[v].stage /\ walk'[v].next = walk[v].next
                 /\ walk'[v].landed \subseteq walk[v].landed \cup {p}
                 /\ walk'[v].refused \subseteq walk[v].refused \cup {p}
  <1>1. walk'[w] = after /\ walk' = [v \in Walks |-> walk'[v]]
    BY DEF Lands
  <1>2. ASSUME NEW v \in Walks, v # w
        PROVE  /\ walk'[v] \in MemberWalks
               /\ walk'[v].stage = walk[v].stage /\ walk'[v].next = walk[v].next
               /\ walk'[v].landed \subseteq walk[v].landed \cup {p}
               /\ walk'[v].refused \subseteq walk[v].refused \cup {p}
    <2> DEFINE y == walk[v]
               a == y.landed \cup {p}
               b == y.refused \cup {p}
    <2>1. \/ walk'[v] = y
          \/ walk'[v] = [y EXCEPT !["landed"] = y["landed"] \cup {p}]
          \/ walk'[v] = [y EXCEPT !["refused"] = y["refused"] \cup {p}]
      BY <1>2 DEF Lands
    <2>2. \/ walk'[v] = y
          \/ walk'[v] = [y EXCEPT !.landed = a]
          \/ walk'[v] = [y EXCEPT !.refused = b]
      BY <2>1
    <2>3. y \in MemberWalks /\ a \in SUBSET Publishers /\ b \in SUBSET Publishers
      BY DEF DiscoveryInv, MemberWalks
    <2>4. a = y.landed \cup {p} /\ b = y.refused \cup {p} /\ y = walk[v]
      OBVIOUS
    <2> HIDE DEF y, a, b
    <2>5. CASE walk'[v] = [y EXCEPT !.landed = a]
      BY <2>3, <2>4, <2>5 DEF MemberWalks
    <2>6. CASE walk'[v] = [y EXCEPT !.refused = b]
      BY <2>3, <2>4, <2>6 DEF MemberWalks
    <2>7. CASE walk'[v] = y
      BY <2>3, <2>4, <2>7
    <2>. QED
      BY <2>2, <2>5, <2>6, <2>7
  <1>. QED
    BY <1>1, <1>2

\* Every step of discovery keeps the invariant.
LEMMA DiscoverySteps ==
    ASSUME DiscoveryInv, [DiscoveryNext]_discoveryVars
    PROVE  DiscoveryInv'
  <1>0. /\ RoutingWalk \in Walks /\ ConsoleWalk \in Walks
        /\ readLock \in [Publishers -> Walks \cup {Unlocked}]
    BY DEF Walks, DiscoveryInv
  <1>1. CASE UNCHANGED <<readLock, walk>>
    BY <1>1 DEF DiscoveryInv, HoldsLock, At
  <1>2. ASSUME NEW p \in Publishers, EntryAges(p)
        PROVE  DiscoveryInv'
    BY <1>1, <1>2 DEF EntryAges
  <1>3. ASSUME NEW w \in Walks, NEW standing \in LedgerRefusals, SkipRefused(w, standing)
        PROVE  DiscoveryInv'
    <2>1. At(w) \in Publishers
      BY <1>3, MemberAt DEF SkipRefused
    <2>2. {<<At(w), standing>>} \in SUBSET Failures
      BY <2>1 DEF Failures, FailureClasses
    <2>3. walk' = [walk EXCEPT ![w] = After(w, {}, {<<At(w), standing>>})] /\ UNCHANGED readLock
      BY <1>3 DEF SkipRefused, Failed
    <2>. QED
      BY <2>2, <2>3, GoesOnKeeps
  <1>4. ASSUME NEW w \in Walks, TakeCached(w)
        PROVE  DiscoveryInv'
    <2>1. At(w) \in Publishers
      BY <1>4, MemberAt DEF TakeCached
    <2>2. walk' = [walk EXCEPT ![w] = After(w, {At(w)}, {})] /\ UNCHANGED readLock
      BY <1>4 DEF TakeCached, Found
    <2>3. {At(w)} \in SUBSET Publishers /\ {} \in SUBSET Failures
      BY <2>1
    <2>. QED
      BY <2>2, <2>3, GoesOnKeeps
  <1>5. ASSUME NEW w \in Walks, WaitForMember(w)
        PROVE  DiscoveryInv'
    <2> DEFINE y == walk[w]
               x == [y EXCEPT !.stage = "queued"]
    <2>1. y \in MemberWalks /\ y.next \in DOMAIN Discovered
      BY <1>5, MemberAt DEF WaitForMember, DiscoveryInv
    <2>2. walk' = [walk EXCEPT ![w] = x] /\ UNCHANGED readLock
      BY <1>5 DEF WaitForMember
    <2> HIDE DEF y
    <2>3. x \in MemberWalks /\ x.stage = "queued" /\ x.next = y.next
      BY <2>1 DEF MemberWalks, WalkStages
    <2> HIDE DEF x
    <2>. QED
      BY <1>0, <2>1, <2>2, <2>3, WalkMoves
  <1>6. ASSUME NEW w \in Walks, LockMemberRead(w)
        PROVE  DiscoveryInv'
    <2> DEFINE p == At(w)
               y == walk[w]
               x == [y EXCEPT !.stage = "reading"]
    <2>1. y.stage = "queued" /\ readLock[p] = Unlocked
      BY <1>6 DEF LockMemberRead
    <2>2. p \in Publishers /\ y.next \in DOMAIN Discovered /\ y \in MemberWalks
      BY <2>1, MemberAt DEF DiscoveryInv
    <2>3. CASE Found(w, p) /\ UNCHANGED readLock
      <3>1. {p} \in SUBSET Publishers /\ {} \in SUBSET Failures
        BY <2>2
      <3>. QED
        BY <2>3, <3>1, GoesOnKeeps DEF Found
    <2>4. CASE Failed(w, p, "cached") /\ UNCHANGED readLock
      <3>1. {<<p, "cached">>} \in SUBSET Failures
        BY <2>2 DEF Failures, FailureClasses
      <3>. QED
        BY <2>4, <3>1, GoesOnKeeps DEF Failed
    <2>5. CASE /\ ReadBefore(w, p) = "nothing"
               /\ readLock' = [readLock EXCEPT ![p] = w]
               /\ walk' = [walk EXCEPT ![w].stage = "reading"]
      <3>1. p \notin y.landed /\ p \notin y.refused
        BY <2>5 DEF ReadBefore, CachedModelsSince, CachedRefusalSince
      <3>2. walk' = [walk EXCEPT ![w] = x] /\ p = Discovered[y.next]
        BY <2>5 DEF At
      <3>3. /\ readLock' \in [Publishers -> Walks \cup {Unlocked}] /\ readLock'[p] = w
            /\ \A o \in Publishers \ {p} : readLock'[o] = readLock[o]
        BY <1>0, <2>2, <2>5
      <3>4. \A o \in Publishers : readLock[o] \in Walks \ {w} => readLock'[o] = readLock[o]
        BY <2>1, <3>3, ModelDiscoveryAssumption DEF ModelDiscoveryAssumption, Walks
      <3> HIDE DEF y, p
      <3>5. /\ x \in MemberWalks /\ x.stage = "reading" /\ x.next = y.next
            /\ x.landed = y.landed /\ x.refused = y.refused
        BY <2>2 DEF MemberWalks, WalkStages
      <3> HIDE DEF x
      <3>. QED
        BY <2>2, <3>1, <3>2, <3>3, <3>4, <3>5, WalkMoves
    <2>. QED
      BY <1>6, <2>3, <2>4, <2>5 DEF LockMemberRead
  <1>7. ASSUME NEW w \in Walks, ReadUnreadable(w)
        PROVE  DiscoveryInv'
    <2> DEFINE a == After(w, {}, {<<At(w), "provider_failure">>})
    <2>1. walk[w].stage = "reading" /\ readLock' = [readLock EXCEPT ![At(w)] = Unlocked]
      BY <1>7 DEF ReadUnreadable
    <2>2. At(w) \in Publishers
      BY <2>1, MemberAt
    <2>3. {<<At(w), "provider_failure">>} \in SUBSET Failures
      BY <2>2 DEF Failures, FailureClasses
    <2>4. a \in MemberWalks
      BY <2>3, AfterTyped
    <2>5. walk' = [walk EXCEPT ![w] = a]
      BY <1>7 DEF ReadUnreadable, Failed
    <2>6. /\ walk' \in [Walks -> MemberWalks] /\ walk'[w] = a
          /\ \A v \in Walks \ {w} : walk'[v] = walk[v]
      BY <2>4, <2>5 DEF DiscoveryInv
    <2>. QED
      BY <2>1, <2>3, <2>6, ReadEnds
  <1>8. ASSUME NEW w \in Walks, NEW declared \in BOOLEAN, ReadModels(w, declared)
        PROVE  DiscoveryInv'
    <2>1. /\ walk[w].stage = "reading" /\ readLock' = [readLock EXCEPT ![At(w)] = Unlocked]
          /\ Lands(w, At(w), "landed", After(w, {At(w)}, {}))
      BY <1>8 DEF ReadModels
    <2>2. At(w) \in Publishers
      BY <2>1, MemberAt
    <2> DEFINE f == {At(w)}
               g == {}
               p == At(w)
    <2>3. f \in SUBSET Publishers /\ g \in SUBSET Failures
      BY <2>2
    <2>4. Lands(w, p, "landed", After(w, f, g)) /\ p \in Publishers
      BY <2>1, <2>2
    <2> HIDE DEF f, g
    <2>5. After(w, f, g) \in MemberWalks
      BY <2>3, AfterTyped
    <2>6. /\ walk' \in [Walks -> MemberWalks] /\ walk'[w] = After(w, f, g)
          /\ \A v \in Walks \ {w} :
                /\ walk'[v].stage = walk[v].stage /\ walk'[v].next = walk[v].next
                /\ walk'[v].landed \subseteq walk[v].landed \cup {p}
                /\ walk'[v].refused \subseteq walk[v].refused \cup {p}
      <3> HIDE DEF p
      <3>. QED
        BY <2>4, <2>5, LandsNoted
    <2>. QED
      BY <2>1, <2>3, <2>6, ReadEnds
  <1>9. ASSUME NEW w \in Walks, NEW declared \in BOOLEAN, NEW class \in {"dependency", "unauthorized"},
               ReadRefused(w, class, declared)
        PROVE  DiscoveryInv'
    <2>1. /\ walk[w].stage = "reading" /\ readLock' = [readLock EXCEPT ![At(w)] = Unlocked]
          /\ Lands(w, At(w), "refused", After(w, {}, {<<At(w), class>>}))
      BY <1>9 DEF ReadRefused
    <2>2. At(w) \in Publishers
      BY <2>1, MemberAt
    <2>3. {<<At(w), class>>} \in SUBSET Failures
      BY <2>2 DEF Failures, FailureClasses
    <2> DEFINE f == {}
               g == {<<At(w), class>>}
               p == At(w)
    <2>4. f \in SUBSET Publishers /\ g \in SUBSET Failures
      BY <2>3
    <2>5. Lands(w, p, "refused", After(w, f, g)) /\ p \in Publishers
      BY <2>1, <2>2
    <2> HIDE DEF f, g
    <2>6. After(w, f, g) \in MemberWalks
      BY <2>4, AfterTyped
    <2>7. /\ walk' \in [Walks -> MemberWalks] /\ walk'[w] = After(w, f, g)
          /\ \A v \in Walks \ {w} :
                /\ walk'[v].stage = walk[v].stage /\ walk'[v].next = walk[v].next
                /\ walk'[v].landed \subseteq walk[v].landed \cup {p}
                /\ walk'[v].refused \subseteq walk[v].refused \cup {p}
      <3> HIDE DEF p
      <3>. QED
        BY <2>5, <2>6, LandsNoted
    <2>. QED
      BY <2>1, <2>4, <2>7, ReadEnds
  <1>10. ASSUME NEW w \in Walks, NEW x \in {Resting, [Resting EXCEPT !.stage = "walk"]},
                walk' = [walk EXCEPT ![w] = x], UNCHANGED readLock
         PROVE  DiscoveryInv'
    <2>1. x \in MemberWalks /\ x.stage \in {"idle", "walk"}
      BY RestingTyped
    <2>. QED
      BY <1>0, <1>10, <2>1, WalkMoves
  <1>11. CASE StartRouting \/ EndRouting \/ StartConsole \/ EndConsole
    BY <1>0, <1>10, <1>11 DEF StartRouting, EndRouting, StartConsole, EndConsole, BeginWalk
  <1>12. CASE UNCHANGED discoveryVars
    BY <1>1, <1>12 DEF discoveryVars
  <1>. QED
    BY <1>2, <1>3, <1>4, <1>5, <1>6, <1>7, <1>8, <1>9, <1>11, <1>12 DEF DiscoveryNext

\* A reason never stands beside availability, so the two forms cannot differ.
LEMMA ViewsAlike == ViewsAgree
  <1> SUFFICES ASSUME NEW console \in BOOLEAN, NEW configured \in SUBSET Publishers,
                      NEW unreadable \in SUBSET Publishers
               PROVE  LET listing == Listing(console, Publishers, configured, unreadable)
                      IN  \A id \in listing.ids :
                            AvailableJeden(listing, id) = AvailableOpenai(listing, id)
    BY DEF ViewsAgree
  <1> DEFINE listing == Listing(console, Publishers, configured, unreadable)
  <1>1. listing.available \cap listing.reasons = {}
    BY DEF Listing, WithoutUnreadable
  <1> HIDE DEF listing
  <1>2. \A id : AvailableJeden(listing, id) = AvailableOpenai(listing, id)
    BY <1>1 DEF AvailableJeden, AvailableOpenai
  <1>. QED
    BY <1>2 DEF listing

\* However the two walks interleave and the caches age, a walk reads a member
\* only for what nothing answered since it began, and the two forms of
\* `/v1/models` agree.
THEOREM DiscoveryCoalesces == DiscoverySpec => []DiscoverySafe
  <1>1. DiscoveryInit => DiscoveryInv
    BY RestingTyped DEF DiscoveryInit, DiscoveryInv, HoldsLock
  <1>2. DiscoveryInv => DiscoverySafe
    BY ViewsAlike DEF DiscoveryInv, HoldsLock, DiscoverySafe, NoQueuedReread
  <1>. QED
    BY <1>1, <1>2, DiscoverySteps, PTL DEF DiscoverySpec

-----------------------------------------------------------------------------
(***************************************************************************)
(* Vault listings (Listings). A reading that returned to somebody before a *)
(* caller asked is not the one that caller is given.                       *)
(***************************************************************************)

\* The stages of a caller and what it remembers.
CallerStages == {"idle", "asking", "raw", "reading", "landed", "failed", "served", "refused"}

CallerRows == [stage : CallerStages, bypass : BOOLEAN, on : ReadingIds \cup {NoReading},
               past : SUBSET ReadingIds, over : SUBSET ReadingIds, stored : BOOLEAN,
               got : ReadingIds \cup {NoReading}]

\* The stored listing and the routing inventory.
StoreRows == [of : ReadingIds \cup {NoReading}, young : BOOLEAN, declared : BOOLEAN]

BoardRows == [result : {"none", "listed", "catalogue", "error"}, refreshing : BOOLEAN]

\* The types of the children, the store, the callers and the inventory.
ListingsTyped ==
    /\ child \in [ReadingIds -> {"none", "running", "read", "failed", "ended", "refused"}]
    /\ started \in Nat
    /\ slot \in ReadingIds \cup {NoReading}
    /\ store \in StoreRows
    /\ caller \in [Callers -> CallerRows]
    /\ board \in BoardRows

\* What returned to somebody before a caller began is over for good, and is
\* neither what this caller joined nor what it is given, unless the store
\* answered it.
Fair(r) ==
    /\ r.over \subseteq Returned
    /\ r.stage \in {"reading", "landed"} => r.on \notin r.over
    /\ r.stage = "served" /\ (r.bypass \/ ~(store.declared \/ r.stored)) => r.got \notin r.over

\* A listing in the slot has returned to nobody, and only a declared age
\* makes a stored one young.
SlotInFlight == slot # NoReading => child[slot] # "ended"
\* A young listing is declared.
YoungDeclared == store.young => store.declared
\* No child is known that was not started.
NoneAhead == \A n \in ReadingIds : n > started => child[n] = "none"

\* The inductive invariant of the listings.
ListingsInv ==
    /\ ListingsTyped /\ SlotInFlight /\ NoneAhead /\ YoungDeclared /\ RefreshPossible
    /\ \A c \in Callers : Fair(caller[c])

\* A caller that asks nothing owes nothing.
LEMMA NotAskingFair ==
    /\ NotAsking \in CallerRows /\ NotAsking.stage = "idle" /\ NotAsking.over = {}
  BY DEF NotAsking, CallerRows, CallerStages

\* What has returned stays returned.
Goes == /\ Returned \subseteq Returned'
        /\ store'.declared = store.declared

\* A caller that does not move is treated as fairly as before.
LEMMA FairStays ==
    ASSUME NEW r \in CallerRows, Fair(r), Goes
    PROVE  Fair(r)'
  BY DEF Fair, Goes

\* One caller moves.
LEMMA CallerMoves ==
    ASSUME ListingsInv, NEW c \in Callers, NEW z \in CallerRows,
           caller' = [caller EXCEPT ![c] = z], Goes, Fair(z)',
           c = Refresher => z.stage # "idle", board' = board
    PROVE  /\ caller' \in [Callers -> CallerRows] /\ RefreshPossible'
           /\ \A d \in Callers : Fair(caller[d])'
  <1>1. caller \in [Callers -> CallerRows] /\ Refresher \in Callers
    BY DEF ListingsInv, ListingsTyped, Callers
  <1>2. ASSUME NEW d \in Callers
        PROVE  Fair(caller[d])'
    <2>1. CASE d = c
      <3>1. caller'[d] = z
        BY <1>1, <2>1
      <3>. QED
        BY <3>1 DEF Fair
    <2>2. CASE d # c
      <3>1. PICK r \in CallerRows : r = caller[d]
        BY <1>1
      <3>2. Fair(r)'
        BY <3>1, FairStays DEF ListingsInv
      <3>3. caller'[d] = r
        BY <1>1, <2>2, <3>1
      <3>. QED
        BY <3>2, <3>3 DEF Fair
    <2>. QED
      BY <2>1, <2>2
  <1>3. RefreshPossible'
    BY <1>1 DEF ListingsInv, RefreshPossible
  <1>. QED
    BY <1>1, <1>2, <1>3

\* The vault's side of the listing stands still while a caller moves.
LEMMA CallerAlone ==
    ASSUME ListingsInv, NEW c \in Callers, NEW z \in CallerRows,
           caller' = [caller EXCEPT ![c] = z], UNCHANGED <<child, started, slot, store, board>>,
           Fair(z), c = Refresher => z.stage # "idle"
    PROVE  ListingsInv'
  <1>1. Goes
    BY DEF Goes, Returned
  <1>2. Fair(z)'
    BY <1>1, FairStays
  <1>3. /\ caller' \in [Callers -> CallerRows] /\ RefreshPossible'
        /\ \A d \in Callers : Fair(caller[d])'
    BY <1>1, <1>2, CallerMoves
  <1>4. ListingsTyped'
    BY <1>3 DEF ListingsInv, ListingsTyped
  <1>5. SlotInFlight' /\ NoneAhead' /\ YoungDeclared'
    BY DEF ListingsInv, SlotInFlight, NoneAhead, YoungDeclared
  <1>. QED
    BY <1>3, <1>4, <1>5 DEF ListingsInv

\* A child moves and nobody with it.
LEMMA ChildAlone ==
    ASSUME ListingsInv, NEW n \in ReadingIds, child[n] = "running",
           NEW s \in {"read", "failed"}, child' = [child EXCEPT ![n] = s],
           UNCHANGED <<started, slot, store, caller, board>>
    PROVE  ListingsInv'
  <1>1. /\ child' \in [ReadingIds -> {"none", "running", "read", "failed", "ended", "refused"}]
        /\ child'[n] = s /\ \A m \in ReadingIds \ {n} : child'[m] = child[m]
    BY DEF ListingsInv, ListingsTyped
  <1>2. Goes
    BY <1>1 DEF Goes, Returned
  <1>3. ListingsTyped' /\ RefreshPossible' /\ YoungDeclared'
    BY <1>1 DEF ListingsInv, ListingsTyped, RefreshPossible, YoungDeclared
  <1>4. SlotInFlight' /\ NoneAhead'
    BY <1>1 DEF ListingsInv, ListingsTyped, SlotInFlight, NoneAhead
  <1>5. ASSUME NEW d \in Callers
        PROVE  Fair(caller[d])'
    <2>1. PICK r \in CallerRows : r = caller[d]
      BY DEF ListingsInv, ListingsTyped
    <2>2. Fair(r)'
      BY <1>2, <2>1, FairStays DEF ListingsInv
    <2>. QED
      BY <2>1, <2>2 DEF Fair
  <1>. QED
    BY <1>3, <1>4, <1>5 DEF ListingsInv

\* raw_listing: what a caller joins or starts has returned to nobody.
LEMMA JoinSafe ==
    ASSUME ListingsInv, NEW c \in Callers, JoinListing(c), UNCHANGED <<store, board>>
    PROVE  ListingsInv'
  <1>1. PICK r \in CallerRows : r = caller[c]
    BY DEF ListingsInv, ListingsTyped
  <1>2. Fair(r)
    BY <1>1 DEF ListingsInv
  <1>3. "reading" \in CallerStages
    BY DEF CallerStages
  <1>4. CASE slot # NoReading
    <2> DEFINE z == [r EXCEPT !.stage = "reading", !.on = slot]
    <2>1. caller' = [caller EXCEPT ![c] = z] /\ UNCHANGED <<child, started, slot>>
      BY <1>1, <1>4 DEF JoinListing, ListingsInv, ListingsTyped
    <2>2. slot \in ReadingIds /\ slot \notin r.over
      BY <1>2, <1>4 DEF ListingsInv, ListingsTyped, SlotInFlight, Fair, Returned
    <2>3. /\ z \in CallerRows /\ z.stage = "reading" /\ z.on = slot /\ z.over = r.over
      BY <1>3, <2>2 DEF CallerRows
    <2> HIDE DEF z
    <2>4. Fair(z)
      BY <1>2, <2>2, <2>3 DEF Fair
    <2>. QED
      BY <2>1, <2>3, <2>4, CallerAlone
  <1>5. CASE slot = NoReading
    <2>0. PICK n : n = started + 1
      OBVIOUS
    <2> DEFINE z == [r EXCEPT !.stage = "reading", !.on = n]
    <2>1. /\ started < MaxReadings /\ started' = n /\ slot' = n
          /\ child' = [child EXCEPT ![n] = "running"]
          /\ caller' = [caller EXCEPT ![c] = z]
      BY <1>1, <1>5, <2>0 DEF JoinListing, ListingsInv, ListingsTyped
    <2>2. n \in ReadingIds /\ child[n] = "none" /\ n \in Nat /\ n > started /\ started \in Nat
      BY <2>0, <2>1, ListingsAssumption DEF ListingsInv, ListingsTyped, NoneAhead, ReadingIds
    <2>3. n \notin r.over
      BY <1>2, <2>2 DEF Fair, Returned
    <2>4. /\ z \in CallerRows /\ z.stage = "reading" /\ z.on = n /\ z.over = r.over
      BY <1>3, <2>2 DEF CallerRows
    <2> HIDE DEF z
    <2>5. /\ child' \in [ReadingIds -> {"none", "running", "read", "failed", "ended", "refused"}]
          /\ child'[n] = "running" /\ \A m \in ReadingIds \ {n} : child'[m] = child[m]
      BY <2>1, <2>2 DEF ListingsInv, ListingsTyped
    <2>6. Goes
      BY <2>2, <2>5 DEF Goes, Returned
    <2>7. Fair(z)'
      <3>1. r.over \subseteq Returned'
        BY <1>2, <2>6 DEF Fair, Goes
      <3>. QED
        BY <2>3, <2>4, <3>1 DEF Fair
    <2>8. /\ caller' \in [Callers -> CallerRows] /\ RefreshPossible'
          /\ \A d \in Callers : Fair(caller[d])'
      BY <2>1, <2>4, <2>6, <2>7, CallerMoves
    <2>9. ListingsTyped' /\ YoungDeclared'
      BY <2>1, <2>2, <2>5, <2>8 DEF ListingsInv, ListingsTyped, YoungDeclared
    <2>10. SlotInFlight'
      BY <2>1, <2>5 DEF SlotInFlight
    <2>11. NoneAhead'
      <3>1. ASSUME NEW m \in ReadingIds, m > n
            PROVE  child'[m] = "none"
        <4>1. m # n /\ m > started
          BY <2>2, <3>1 DEF ReadingIds
        <4>. QED
          BY <2>5, <4>1 DEF ListingsInv, NoneAhead
      <3>. QED
        BY <2>1, <3>1 DEF NoneAhead
    <2>. QED
      BY <2>8, <2>9, <2>10, <2>11 DEF ListingsInv
  <1>. QED
    BY <1>4, <1>5

\* The await of the shared future ends: the listing leaves the slot.
LEMMA LandsSafe ==
    ASSUME ListingsInv, NEW c \in Callers, ListingLands(c)
    PROVE  ListingsInv'
  <1>1. PICK r \in CallerRows : r = caller[c]
    BY DEF ListingsInv, ListingsTyped
  <1>2. PICK n \in ReadingIds \cup {NoReading} : n = r.on
    BY DEF CallerRows
  <1>3. /\ r.stage = "reading" /\ n # NoReading /\ child[n] \in {"read", "ended", "failed", "refused"}
        /\ slot' = SlotAfter(n) /\ UNCHANGED <<started, store, board>>
    BY <1>1, <1>2 DEF ListingLands
  <1>4. n \in ReadingIds
    BY <1>2, <1>3
  <1>5. PICK s \in {"ended", "refused"} :
          /\ child' = [child EXCEPT ![n] = s]
          /\ child[n] = "ended" => s = "ended"
    BY <1>1, <1>2 DEF ListingLands
  <1>6. /\ child' \in [ReadingIds -> {"none", "running", "read", "failed", "ended", "refused"}]
        /\ child'[n] = s /\ \A m \in ReadingIds \ {n} : child'[m] = child[m]
    BY <1>4, <1>5 DEF ListingsInv, ListingsTyped
  <1>7. PICK st \in {"landed", "failed"} : caller' = [caller EXCEPT ![c].stage = st]
    BY DEF ListingLands
  <1> DEFINE z == [r EXCEPT !.stage = st]
  <1>8. caller' = [caller EXCEPT ![c] = z]
    BY <1>1, <1>7 DEF ListingsInv, ListingsTyped
  <1>9. st \in CallerStages
    BY DEF CallerStages
  <1>10. z \in CallerRows /\ z.stage = st /\ z.on = r.on /\ z.over = r.over
    BY <1>9 DEF CallerRows
  <1> HIDE DEF z
  <1>11. Goes
    BY <1>3, <1>5, <1>6 DEF Goes, Returned
  <1>12. Fair(z)'
    <2>1. Fair(r)
      BY <1>1 DEF ListingsInv
    <2>2. r.over \subseteq Returned' /\ r.on \notin r.over
      BY <1>3, <1>11, <2>1 DEF Fair, Goes
    <2>. QED
      BY <1>7, <1>10, <2>2 DEF Fair
  <1>13. /\ caller' \in [Callers -> CallerRows] /\ RefreshPossible'
         /\ \A d \in Callers : Fair(caller[d])'
    BY <1>3, <1>7, <1>8, <1>10, <1>11, <1>12, CallerMoves
  <1>14. ListingsTyped' /\ YoungDeclared'
    BY <1>3, <1>6, <1>13 DEF ListingsInv, ListingsTyped, YoungDeclared, SlotAfter
  <1>15. SlotInFlight' /\ NoneAhead'
    BY <1>3, <1>4, <1>6 DEF ListingsInv, ListingsTyped, SlotInFlight, NoneAhead, SlotAfter
  <1>. QED
    BY <1>13, <1>14, <1>15 DEF ListingsInv

\* live_subscriptions, or a reader of the bare listing, begins.
LEMMA AskSafe ==
    ASSUME ListingsInv, NEW c \in Callers, NEW stage \in {"asking", "raw"}, NEW bypass \in BOOLEAN,
           caller' = [caller EXCEPT ![c] = [NotAsking EXCEPT !.stage = stage, !.bypass = bypass,
                                                        !.past = Past, !.over = Returned]],
           UNCHANGED <<child, started, slot, store, board>>
    PROVE  ListingsInv'
  <1> DEFINE z == [NotAsking EXCEPT !.stage = stage, !.bypass = bypass,
                                    !.past = Past, !.over = Returned]
  <1>1. Past \in SUBSET ReadingIds /\ Returned \in SUBSET ReadingIds /\ stage \in CallerStages
    BY DEF Past, Returned, CallerStages
  <1>2. z \in CallerRows /\ z.stage = stage /\ z.over = Returned
    BY <1>1, NotAskingFair DEF CallerRows
  <1> HIDE DEF z
  <1>3. Fair(z)
    BY <1>2 DEF Fair
  <1>4. caller' = [caller EXCEPT ![c] = z]
    BY DEF z
  <1>. QED
    BY <1>2, <1>3, <1>4, CallerAlone

\* A caller is given a listing, refused, or moves otherwise.
LEMMA ServeSafe ==
    ASSUME ListingsInv, NEW c \in Callers, NEW n \in ReadingIds \cup {NoReading}, Serve(c, n),
           UNCHANGED <<child, started, slot, store, board>>,
           n \notin caller[c].over \/ (~caller[c].bypass /\ (store.declared \/ caller[c].stored))
    PROVE  ListingsInv'
  <1>1. PICK r \in CallerRows : r = caller[c]
    BY DEF ListingsInv, ListingsTyped
  <1> DEFINE z == [r EXCEPT !.stage = "served", !.got = n]
  <1>2. caller' = [caller EXCEPT ![c] = z]
    BY <1>1 DEF Serve, ListingsInv, ListingsTyped
  <1>3. "served" \in CallerStages
    BY DEF CallerStages
  <1>4. /\ z \in CallerRows /\ z.stage = "served" /\ z.got = n /\ z.over = r.over
        /\ z.bypass = r.bypass /\ z.stored = r.stored
    BY <1>3 DEF CallerRows
  <1> HIDE DEF z
  <1>5. Fair(z)
    BY <1>1, <1>4 DEF Fair, ListingsInv
  <1>. QED
    BY <1>2, <1>4, <1>5, CallerAlone

\* A caller may be refused.
LEMMA RefusedSafe ==
    ASSUME ListingsInv, NEW c \in Callers, caller' = [caller EXCEPT ![c].stage = "refused"],
           UNCHANGED <<child, started, slot, store, board>>
    PROVE  ListingsInv'
  <1>1. PICK r \in CallerRows : r = caller[c]
    BY DEF ListingsInv, ListingsTyped
  <1> DEFINE z == [r EXCEPT !.stage = "refused"]
  <1>2. caller' = [caller EXCEPT ![c] = z]
    BY <1>1 DEF ListingsInv, ListingsTyped
  <1>3. "refused" \in CallerStages
    BY DEF CallerStages
  <1>4. z \in CallerRows /\ z.stage = "refused" /\ z.over = r.over
    BY <1>3 DEF CallerRows
  <1> HIDE DEF z
  <1>5. Fair(z)
    BY <1>1, <1>4 DEF Fair, ListingsInv
  <1>. QED
    BY <1>2, <1>4, <1>5, CallerAlone

\* What is stored answers a caller that it may answer.
LEMMA TakeStoredSafe ==
    ASSUME ListingsInv, NEW c \in Callers, TakeStored(c)
    PROVE  ListingsInv'
  <1>1. /\ Serve(c, store.of) /\ UNCHANGED <<child, started, slot, store, board>>
        /\ ~caller[c].bypass /\ (store.young \/ caller[c].stored)
    BY DEF TakeStored, StoredListing
  <1>2. store.young => store.declared
    BY DEF ListingsInv, YoungDeclared
  <1>3. store.of \in ReadingIds \cup {NoReading}
    BY DEF ListingsInv, ListingsTyped, StoreRows
  <1>. QED
    BY <1>1, <1>2, <1>3, ServeSafe

\* A landed listing is given to the caller that waited for it.
LEMMA TakeRawSafe ==
    ASSUME ListingsInv, NEW c \in Callers, TakeRaw(c)
    PROVE  ListingsInv'
  <1>1. UNCHANGED <<child, started, slot, store, board>>
    BY DEF TakeRaw
  <1>2. CASE caller[c].stage = "landed"
    <2>1. Serve(c, caller[c].on)
      BY <1>2 DEF TakeRaw
    <2>2. caller[c].on \notin caller[c].over /\ caller[c].on \in ReadingIds \cup {NoReading}
      BY <1>2 DEF ListingsInv, ListingsTyped, Fair, CallerRows
    <2>. QED
      BY <1>1, <2>1, <2>2, ServeSafe
  <1>3. CASE caller[c].stage # "landed"
    BY <1>1, <1>3, RefusedSafe DEF TakeRaw
  <1>. QED
    BY <1>2, <1>3

\* The holder of the queue stores what it was given for those that wait.
LEMMA StoreSafe ==
    ASSUME ListingsInv, NEW c \in Callers, StoreListing(c)
    PROVE  ListingsInv'
  <1>1. PICK r \in CallerRows : r = caller[c]
    BY DEF ListingsInv, ListingsTyped
  <1>2. /\ r.stage = "landed" /\ UNCHANGED <<child, started, slot, board>>
        /\ store' = [store EXCEPT !.of = r.on, !.young = store.declared]
        /\ caller' = [d \in Callers |->
              IF d = c THEN [r EXCEPT !.stage = "served", !.got = r.on]
              ELSE IF caller[d].stage = "asking" THEN [caller[d] EXCEPT !.stored = TRUE]
              ELSE caller[d]]
    BY <1>1 DEF StoreListing
  <1>3. /\ store' \in StoreRows /\ store'.declared = store.declared
        /\ store'.young = store.declared
    <2>1. r.on \in ReadingIds \cup {NoReading} /\ store \in StoreRows
      BY DEF CallerRows, ListingsInv, ListingsTyped
    <2>. QED
      BY <1>2, <2>1 DEF StoreRows
  <1>4. Goes
    BY <1>2, <1>3 DEF Goes, Returned
  <1>5. "served" \in CallerStages
    BY DEF CallerStages
  <1>6. ASSUME NEW d \in Callers
        PROVE  caller'[d] \in CallerRows /\ Fair(caller[d])'
               /\ (caller[d].stage = "idle" <=> caller'[d].stage = "idle")
    <2>1. PICK q \in CallerRows : q = caller[d]
      BY DEF ListingsInv, ListingsTyped
    <2>2. Fair(q) /\ Fair(q)'
      BY <1>4, <2>1, FairStays DEF ListingsInv
    <2>3. CASE d = c
      <3> DEFINE z == [r EXCEPT !.stage = "served", !.got = r.on]
      <3>1. caller'[d] = z
        BY <1>2, <2>3
      <3>2. z \in CallerRows /\ z.stage = "served" /\ z.got = r.on /\ z.over = r.over
        BY <1>5 DEF CallerRows
      <3> HIDE DEF z
      <3>3. r.on \notin r.over /\ q = r
        BY <1>1, <1>2, <2>1, <2>2, <2>3 DEF Fair
      <3>4. Fair(z)'
        BY <2>2, <3>2, <3>3 DEF Fair
      <3>. QED
        BY <1>1, <1>2, <2>3, <3>1, <3>2, <3>4 DEF Fair
    <2>4. CASE d # c /\ q.stage = "asking"
      <3> DEFINE z == [q EXCEPT !.stored = TRUE]
      <3>1. caller'[d] = z
        BY <1>2, <2>1, <2>4
      <3>2. z \in CallerRows /\ z.stage = "asking" /\ z.over = q.over
        BY <2>4 DEF CallerRows
      <3> HIDE DEF z
      <3>3. Fair(z)'
        BY <2>2, <3>2 DEF Fair
      <3>. QED
        BY <2>1, <2>4, <3>1, <3>2, <3>3 DEF Fair
    <2>5. CASE d # c /\ q.stage # "asking"
      <3>1. caller'[d] = q
        BY <1>2, <2>1, <2>5
      <3>. QED
        BY <2>1, <2>2, <3>1 DEF Fair
    <2>. QED
      BY <2>3, <2>4, <2>5
  <1>7. caller' \in [Callers -> CallerRows]
    BY <1>2, <1>6
  <1>8. ListingsTyped' /\ YoungDeclared'
    BY <1>2, <1>3, <1>7 DEF ListingsInv, ListingsTyped, YoungDeclared
  <1>9. SlotInFlight' /\ NoneAhead'
    BY <1>2 DEF ListingsInv, SlotInFlight, NoneAhead
  <1>10. RefreshPossible'
    BY <1>2, <1>6 DEF ListingsInv, RefreshPossible, Callers
  <1>. QED
    BY <1>6, <1>8, <1>9, <1>10 DEF ListingsInv

\* A caller of the gateway's runtime goes away; the refresh never does.
LEMMA GoneSafe ==
    ASSUME ListingsInv, NEW c \in Askers, CallerGone(c)
    PROVE  ListingsInv'
  <1>1. caller' = [caller EXCEPT ![c] = NotAsking] /\ UNCHANGED <<child, started, slot, store, board>>
    BY DEF CallerGone
  <1>2. c \in Callers /\ c # Refresher
    BY ListingsAssumption DEF Callers
  <1>3. Fair(NotAsking)
    BY NotAskingFair DEF Fair
  <1>. QED
    BY <1>1, <1>2, <1>3, NotAskingFair, CallerAlone

\* The routing inventory's flag is raised with its refresh and lowered with
\* the publication.
LEMMA BoardSafe ==
    ASSUME ListingsInv, NEW z \in CallerRows, caller' = [caller EXCEPT ![Refresher] = z],
           UNCHANGED <<child, started, slot, store>>, board' \in BoardRows, Fair(z),
           board'.refreshing => z.stage # "idle"
    PROVE  ListingsInv'
  <1>1. Goes
    BY DEF Goes, Returned
  <1>2. Refresher \in Callers /\ caller \in [Callers -> CallerRows]
    BY DEF Callers, ListingsInv, ListingsTyped
  <1>3. caller' \in [Callers -> CallerRows] /\ caller'[Refresher] = z
    BY <1>2
  <1>4. ASSUME NEW d \in Callers
        PROVE  Fair(caller[d])'
    <2>1. PICK r \in CallerRows : r = caller'[d]
      BY <1>3
    <2>2. Fair(r)
      <3>1. CASE d = Refresher
        BY <1>3, <2>1, <3>1
      <3>2. CASE d # Refresher
        BY <1>2, <2>1, <3>2 DEF ListingsInv
      <3>. QED
        BY <3>1, <3>2
    <2>3. Fair(r)'
      BY <1>1, <2>2, FairStays
    <2>. QED
      BY <2>1, <2>3 DEF Fair
  <1>5. ListingsTyped' /\ SlotInFlight' /\ NoneAhead' /\ YoungDeclared'
    BY <1>3 DEF ListingsInv, ListingsTyped, SlotInFlight, NoneAhead, YoungDeclared
  <1>6. RefreshPossible'
    BY <1>3 DEF RefreshPossible
  <1>. QED
    BY <1>4, <1>5, <1>6 DEF ListingsInv

\* A request that reads the inventory may start its refresh.
LEMMA RoutingRequestSafe ==
    ASSUME ListingsInv, RoutingRequest
    PROVE  ListingsInv'
  <1> DEFINE z == [NotAsking EXCEPT !.stage = "asking", !.past = Past, !.over = Returned]
  <1>1. /\ caller' = [caller EXCEPT ![Refresher] = z] /\ UNCHANGED <<child, started, slot, store>>
        /\ board' = [board EXCEPT !.refreshing = TRUE]
    BY DEF RoutingRequest
  <1>2. Past \in SUBSET ReadingIds /\ Returned \in SUBSET ReadingIds /\ "asking" \in CallerStages
    BY DEF Past, Returned, CallerStages
  <1>3. z \in CallerRows /\ z.stage = "asking" /\ z.over = Returned
    BY <1>2, NotAskingFair DEF CallerRows
  <1> HIDE DEF z
  <1>4. board' \in BoardRows
    BY <1>1 DEF ListingsInv, ListingsTyped, BoardRows
  <1>5. Fair(z)
    BY <1>3 DEF Fair
  <1>. QED
    BY <1>1, <1>3, <1>4, <1>5, BoardSafe

\* A refresh ends.
LEMMA EndRefreshSafe ==
    ASSUME ListingsInv, NEW catalogue, EndRefresh(catalogue)
    PROVE  ListingsInv'
  <1>1. /\ caller' = [caller EXCEPT ![Refresher] = NotAsking]
        /\ UNCHANGED <<child, started, slot, store>>
        /\ board' = [result |-> RefreshedTo(catalogue), refreshing |-> FALSE]
    BY DEF EndRefresh, PublishInventory
  <1>2. RefreshedTo(catalogue) \in {"none", "listed", "catalogue", "error"}
    BY DEF RefreshedTo
  <1>3. board' \in BoardRows /\ ~board'.refreshing
    BY <1>1, <1>2 DEF BoardRows
  <1>4. Fair(NotAsking)
    BY NotAskingFair DEF Fair
  <1>. QED
    BY <1>1, <1>3, <1>4, NotAskingFair, BoardSafe

\* The declared age passes, or nothing does.
LEMMA AgesSafe ==
    ASSUME ListingsInv, UNCHANGED <<child, started, slot, caller, board>>,
           \/ store' = store
           \/ store' = [store EXCEPT !.young = FALSE]
    PROVE  ListingsInv'
  <1>1. store' \in StoreRows /\ store'.declared = store.declared
        /\ (store'.young => store.young)
    BY DEF ListingsInv, ListingsTyped, StoreRows
  <1>2. Goes
    BY <1>1 DEF Goes, Returned
  <1>3. ListingsTyped' /\ SlotInFlight' /\ NoneAhead' /\ YoungDeclared' /\ RefreshPossible'
    BY <1>1
        DEF ListingsInv, ListingsTyped, SlotInFlight, NoneAhead, YoungDeclared, RefreshPossible
  <1>4. ASSUME NEW d \in Callers
        PROVE  Fair(caller[d])'
    <2>1. PICK r \in CallerRows : r = caller[d]
      BY DEF ListingsInv, ListingsTyped
    <2>2. Fair(r)'
      BY <1>2, <2>1, FairStays DEF ListingsInv
    <2>. QED
      BY <2>1, <2>2 DEF Fair
  <1>. QED
    BY <1>3, <1>4 DEF ListingsInv

\* Every step of the listings keeps the invariant.
LEMMA ListingsSteps == ListingsInv /\ [ListingsNext]_listingVars => ListingsInv'
  <1> SUFFICES ASSUME ListingsInv, [ListingsNext]_listingVars
               PROVE  ListingsInv'
    OBVIOUS
  <1>1. CASE UNCHANGED listingVars
    BY <1>1, AgesSafe DEF listingVars
  <1>2. ASSUME NEW n \in ReadingIds, ChildReads(n) \/ ChildFails(n)
        PROVE  ListingsInv'
    BY <1>2, ChildAlone DEF ChildReads, ChildFails
  <1>3. ASSUME NEW c \in Callers, LockListing(c) \/ JoinRaw(c)
        PROVE  ListingsInv'
    BY <1>3, JoinSafe DEF LockListing, JoinRaw
  <1>4. ASSUME NEW c \in Callers, ListingRefused(c)
        PROVE  ListingsInv'
    BY <1>4, RefusedSafe DEF ListingRefused
  <1>5. ASSUME NEW c \in Askers, AskRaw(c) \/ \E bypass \in BOOLEAN : AskPool(c, bypass)
        PROVE  ListingsInv'
    <2>1. c \in Callers
      BY DEF Callers
    <2>2. CASE AskRaw(c)
      BY <2>1, <2>2, AskSafe DEF AskRaw
    <2>3. ASSUME NEW bypass \in BOOLEAN, AskPool(c, bypass)
          PROVE  ListingsInv'
      BY <2>1, <2>3, AskSafe DEF AskPool
    <2>. QED
      BY <1>5, <2>2, <2>3
  <1>6. CASE ListingAges
    BY <1>6, AgesSafe DEF ListingAges
  <1>. QED
    BY <1>1, <1>2, <1>3, <1>4, <1>5, <1>6, LandsSafe, TakeStoredSafe, StoreSafe, TakeRawSafe,
       GoneSafe, RoutingRequestSafe, EndRefreshSafe DEF ListingsNext

\* The invariant holds at the start.
LEMMA ListingsStart == ListingsInit => ListingsInv
  <1> SUFFICES ASSUME ListingsInit
               PROVE  ListingsInv
    OBVIOUS
  <1>1. PICK declared \in BOOLEAN : store = [of |-> NoReading, young |-> FALSE, declared |-> declared]
    BY DEF ListingsInit
  <1>2. store \in StoreRows /\ YoungDeclared
    BY <1>1 DEF StoreRows, YoungDeclared
  <1>3. board \in BoardRows /\ RefreshPossible
    BY DEF ListingsInit, BoardRows, RefreshPossible
  <1>4. ListingsTyped
    BY <1>2, <1>3, NotAskingFair DEF ListingsInit, ListingsTyped
  <1>5. SlotInFlight /\ NoneAhead
    BY DEF ListingsInit, SlotInFlight, NoneAhead
  <1>6. \A c \in Callers : Fair(caller[c])
    BY NotAskingFair DEF ListingsInit, Fair
  <1>. QED
    BY <1>2, <1>3, <1>4, <1>5, <1>6 DEF ListingsInv

\* However callers join, leave and queue: whoever the store does not answer
\* is never given a listing that had returned before it asked, and the
\* routing inventory's flag is up only while its refresh runs.
THEOREM ListingsShared == ListingsSpec => []ListingsSafe
  <1>1. ListingsInv => ListingsSafe
    BY DEF ListingsInv, ListingsSafe, SharedOnlyInFlight, Fair
  <1>. QED
    BY <1>1, ListingsStart, ListingsSteps, PTL DEF ListingsSpec

=============================================================================
