---------------------------- MODULE ReplayGuard ----------------------------
(***************************************************************************)
(* The signed-agent request guard: authenticate_agent verifies the HMAC of *)
(* one request, and accept_once lets that request in at most once.         *)
(*                                                                         *)
(* A task is one call of authenticate_agent, in any Brama process that     *)
(* shares the state directory (the service and a CLI dispatch do).  The    *)
(* replay record is a file read, decided on and replaced whole under the   *)
(* exclusive lock <record>.lock of core/staging.rs; the operating system   *)
(* frees the lock of a process that dies.                                  *)
(*                                                                         *)
(* A signature is the HMAC of agent, timestamp and body hash, so the guard *)
(* needs no body: a signature of one agent belongs to one timestamp.       *)
(***************************************************************************)
EXTENDS Integers

CONSTANTS
    Tasks,        \* calls of authenticate_agent, each in some Brama process
    Agents,       \* agent ids
    Timestamps,   \* what an agent may sign: whole seconds, an i64
    Signatures,   \* signature texts
    Genuine,      \* the requests whose signature the agent's secret yields
    NoTask

Requests == [agent : Agents, timestamp : Timestamps, signature : Signatures]

(***************************************************************************)
(* The HMAC covers the timestamp (hmac_auth.rs, compute_signature), so one *)
(* genuine signature of an agent states one timestamp.                     *)
(***************************************************************************)
ASSUME GuardAssumption ==
    /\ Requests # {}
    /\ Timestamps \subseteq Int
    /\ Genuine \subseteq Requests
    /\ NoTask \notin Tasks
    /\ \A r, s \in Genuine :
          r.agent = s.agent /\ r.signature = s.signature
            => r.timestamp = s.timestamp

VARIABLES
    record,    \* agent-replay.json: per agent the newest timestamp accepted
               \* and the signatures accepted at it
    lock,      \* the task holding the record's lock, or NoTask
    pc,        \* where each task stands
    request,   \* the request each task authenticates
    seen,      \* the record as each task read it
    accepted   \* how often each signature of an agent was let in

vars == <<record, lock, pc, request, seen, accepted>>

Accepted == [timestamp : Timestamps \cup {0}, signatures : SUBSET Signatures]

(***************************************************************************)
(* Accepted::default(), what an agent without an entry reads as.           *)
(***************************************************************************)
NothingAccepted == [timestamp |-> 0, signatures |-> {}]

Stages == {"idle", "verifying", "queued", "deciding", "replacing", "replaced"}

TypeOK ==
    /\ record \in [Agents -> Accepted]
    /\ lock \in Tasks \cup {NoTask}
    /\ pc \in [Tasks -> Stages]
    /\ request \in [Tasks -> Requests]
    /\ seen \in [Tasks -> [Agents -> Accepted]]
    /\ accepted \in [Agents \X Signatures -> Nat]

\* What a task holds while it authenticates nothing.
NoRequest == CHOOSE r \in Requests : TRUE
NothingRead == [a \in Agents |-> NothingAccepted]

Init ==
    /\ record = [a \in Agents |-> NothingAccepted]
    /\ lock = NoTask
    /\ pc = [t \in Tasks |-> "idle"]
    /\ request = [t \in Tasks |-> NoRequest]
    /\ seen = [t \in Tasks |-> NothingRead]
    /\ accepted = [k \in Agents \X Signatures |-> 0]

-----------------------------------------------------------------------------
(***************************************************************************)
(* Pure parts of accept_once.                                              *)
(***************************************************************************)
\* Bug: the signatures kept at the newest timestamp are not consulted.
ReplayedByClockOnly(entry, r) ==
    r.timestamp < entry.timestamp

\* Bug: the signatures are consulted, the moment is not.
ReplayedBySignatureOnly(entry, r) ==
    r.signature \in entry.signatures

Replayed(entry, r) ==
    \/ r.timestamp < entry.timestamp
    \/ r.timestamp = entry.timestamp /\ r.signature \in entry.signatures

\* The record after r is let in: a later timestamp empties the signatures.
Admitted(entry, r) ==
    IF r.timestamp > entry.timestamp
    THEN [timestamp |-> r.timestamp, signatures |-> {r.signature}]
    ELSE [entry EXCEPT !.signatures = @ \cup {r.signature}]

-----------------------------------------------------------------------------
(***************************************************************************)
(* A request with its three headers reaches some process.                  *)
(***************************************************************************)
Receive(t) ==
    /\ pc[t] = "idle"
    /\ \E r \in Requests : request' = [request EXCEPT ![t] = r]
    /\ pc' = [pc EXCEPT ![t] = "verifying"]
    /\ UNCHANGED <<record, lock, seen, accepted>>

\* The call returns, and what it held goes with it.
Leave(t) ==
    /\ pc' = [pc EXCEPT ![t] = "idle"]
    /\ request' = [request EXCEPT ![t] = NoRequest]
    /\ seen' = [seen EXCEPT ![t] = NothingRead]

\* The agent's secret was read and the HMAC is its own.
VerifyGenuine(t) ==
    /\ pc[t] = "verifying"
    /\ request[t] \in Genuine
    /\ pc' = [pc EXCEPT ![t] = "queued"]
    /\ UNCHANGED <<record, lock, request, seen, accepted>>

\* The HMAC does not match, or the secret could not be read.
VerifyRefused(t) ==
    /\ pc[t] = "verifying"
    /\ Leave(t)
    /\ UNCHANGED <<record, lock, accepted>>

\* Bug: a mutex of one process, which another process does not wait for.
LockGrantedPerProcess ==
    lock \in Tasks \cup {NoTask}

\* held_beside: the lock is granted to one waiter.
LockGranted ==
    lock = NoTask

\* The lock is taken and the record read under it.
HoldAndRead(t) ==
    /\ pc[t] = "queued"
    /\ LockGranted
    /\ lock' = t
    /\ seen' = [seen EXCEPT ![t] = record]
    /\ pc' = [pc EXCEPT ![t] = "deciding"]
    /\ UNCHANGED <<record, request, accepted>>

\* The lock file cannot be opened, or the wait for it failed: refused.
HoldRefused(t) ==
    /\ pc[t] = "queued"
    /\ Leave(t)
    /\ UNCHANGED <<record, lock, accepted>>

Release(t) == lock' = IF lock = t THEN NoTask ELSE lock

\* A replay, or a record that cannot be read: refused, nothing is written.
DecideRefused(t) ==
    /\ pc[t] = "deciding"
    /\ Leave(t)
    /\ Release(t)
    /\ UNCHANGED <<record, accepted>>

DecideNew(t) ==
    LET a == request[t].agent IN
    /\ pc[t] = "deciding"
    /\ ~Replayed(seen[t][a], request[t])
    /\ seen' = [seen EXCEPT ![t][a] = Admitted(@, request[t])]
    /\ pc' = [pc EXCEPT ![t] = "replacing"]
    /\ UNCHANGED <<record, lock, request, accepted>>

\* replace_private renamed the staged record over the old one.
Replace(t) ==
    /\ pc[t] = "replacing"
    /\ record' = seen[t]
    /\ pc' = [pc EXCEPT ![t] = "replaced"]
    /\ UNCHANGED <<lock, request, seen, accepted>>

\* Bug: the lock outlives a failed write.
ReplaceRefusedHolding(t) ==
    /\ pc[t] = "replacing"
    /\ Leave(t)
    /\ UNCHANGED <<record, lock, accepted>>

\* replace_private failed before the rename: refused, the record stands.
ReplaceRefused(t) ==
    /\ pc[t] = "replacing"
    /\ Leave(t)
    /\ Release(t)
    /\ UNCHANGED <<record, accepted>>

\* accept_once returns Ok: the lock is dropped and the request is let in.
LetIn(t) ==
    /\ pc[t] = "replaced"
    /\ accepted' = [accepted EXCEPT
                      ![<<request[t].agent, request[t].signature>>] = @ + 1]
    /\ Leave(t)
    /\ Release(t)
    /\ UNCHANGED record

\* The process of a task dies; its lock goes with it.
Crash(t) ==
    /\ pc[t] # "idle"
    /\ Leave(t)
    /\ Release(t)
    /\ UNCHANGED <<record, accepted>>

Authenticate(t) ==
    \/ VerifyGenuine(t) \/ VerifyRefused(t)
    \/ HoldAndRead(t) \/ HoldRefused(t)
    \/ DecideNew(t) \/ DecideRefused(t)
    \/ Replace(t) \/ ReplaceRefused(t)
    \/ LetIn(t)

Next == \E t \in Tasks : Receive(t) \/ Authenticate(t) \/ Crash(t)

(***************************************************************************)
(* A started call runs to its end, and a waiter is granted a lock that     *)
(* keeps becoming free (the wait in held_beside is a plain flock).  No     *)
(* error path is assumed to be taken.                                      *)
(***************************************************************************)
Fairness ==
    \A t \in Tasks :
        /\ SF_vars(HoldAndRead(t))
        /\ WF_vars(VerifyGenuine(t) \/ VerifyRefused(t))
        /\ WF_vars(DecideNew(t) \/ DecideRefused(t))
        /\ WF_vars(Replace(t) \/ ReplaceRefused(t))
        /\ WF_vars(LetIn(t))

Spec == Init /\ [][Next]_vars

FairSpec == Spec /\ Fairness

-----------------------------------------------------------------------------
(***************************************************************************)
(* The parts of the inductive invariant.  The lock is held exactly while a *)
(* call is between its read and its end, so what the holder read stays     *)
(* true; only verified requests get that far.                              *)
(***************************************************************************)
InRecord == {"deciding", "replacing", "replaced"}

LockInv ==
    \A t \in Tasks : pc[t] \in InRecord <=> lock = t

VerifiedInv ==
    \A t \in Tasks : pc[t] \in InRecord \cup {"queued"} => request[t] \in Genuine

ReadInv ==
    \A t \in Tasks : pc[t] = "deciding" => seen[t] = record

StagedInv ==
    \A t \in Tasks : pc[t] = "replacing" =>
        LET r == request[t] IN
        /\ ~Replayed(record[r.agent], r)
        /\ seen[t] = [record EXCEPT ![r.agent] = Admitted(@, r)]

\* What was let in, or is about to be, reads as a replay from the record on.
RememberedInv ==
    /\ \A r \in Genuine :
          accepted[<<r.agent, r.signature>>] # 0 => Replayed(record[r.agent], r)
    /\ \A t \in Tasks : pc[t] = "replaced" =>
          LET r == request[t] IN
          /\ Replayed(record[r.agent], r)
          /\ accepted[<<r.agent, r.signature>>] = 0

(***************************************************************************)
(* One signature of an agent is let in at most once, whatever processes    *)
(* race on the record and wherever one of them dies (accept_once).         *)
(***************************************************************************)
AcceptedOnce ==
    \A k \in Agents \X Signatures : accepted[k] <= 1

(***************************************************************************)
(* The inductive invariant behind AcceptedOnce: the record a caller read   *)
(* is still the record when it replaces it, and whatever was let in is     *)
(* remembered by the record as a replay (accept_once under held_beside).   *)
(***************************************************************************)
GuardInv ==
    /\ LockInv
    /\ VerifiedInv
    /\ ReadInv
    /\ StagedInv
    /\ RememberedInv
    /\ AcceptedOnce

(***************************************************************************)
(* The timestamp the record keeps for an agent never goes back: no writer  *)
(* replaces the record with one built from an older copy.                  *)
(***************************************************************************)
NewestKept ==
    [][\A a \in Agents : record'[a].timestamp >= record[a].timestamp]_record

(***************************************************************************)
(* The guard implements OnceInOrder: whatever processes race, fail or die, *)
(* and although the record forgets the signatures of earlier moments, each *)
(* signature is let in once, and none after one of the agent's that states *)
(* a later moment (accept_once).                                           *)
(***************************************************************************)
Order == INSTANCE OnceInOrder WITH letIn <- accepted

LetInOnceInOrder == Order!OrderSpec

(***************************************************************************)
(* A request waiting for the record's lock is answered, or its process     *)
(* died: no holder keeps the lock for good (held_beside).                  *)
(***************************************************************************)
WaiterAnswered ==
    \A t \in Tasks : pc[t] = "queued" ~> pc[t] = "idle"

=============================================================================
