---------------------------- MODULE OnceInOrder -----------------------------
(***************************************************************************)
(* What the replay guard promises the handlers behind it: of each agent,   *)
(* every genuine signature is let in at most once, and none after a        *)
(* request that states a later moment.  There is no record here, no lock,  *)
(* no process and no failure; ReplayGuard, which has all of them and       *)
(* remembers the newest moment only, implements this specification.        *)
(***************************************************************************)
EXTENDS Integers

CONSTANTS Agents, Signatures, Genuine

VARIABLE letIn   \* how often each signature of an agent was let in

NobodyIn == letIn = [k \in Agents \X Signatures |-> 0]

OfRequest(r) == <<r.agent, r.signature>>

Let(r) ==
    /\ letIn[OfRequest(r)] = 0
    /\ \A s \in Genuine :
          s.agent = r.agent /\ letIn[OfRequest(s)] # 0 => s.timestamp <= r.timestamp
    /\ letIn' = [letIn EXCEPT ![OfRequest(r)] = 1]

OrderSpec == NobodyIn /\ [][\E r \in Genuine : Let(r)]_letIn

=============================================================================
