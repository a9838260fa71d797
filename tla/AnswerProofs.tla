---------------------------- MODULE AnswerProofs ----------------------------
(***************************************************************************)
(* What a request is routed to and answered with, for any number of        *)
(* requests, channels, editors and questions. One section per component,   *)
(* each with the inductive invariant its property needs and the theorem at *)
(* its end.                                                                *)
(***************************************************************************)
EXTENDS ChatEdge, EventStream, SseFrames, RouteRegistry, ModelCatalog, Readiness,
        FiniteSetTheorems, SequenceTheorems, WellFoundedInduction, TLAPS

-----------------------------------------------------------------------------
(***************************************************************************)
(* Chat edge (ChatEdge). The live calls are the requests that are          *)
(* dispatched, a signed answer is the one kept, and a day that is counted  *)
(* was accepted.                                                           *)
(***************************************************************************)

\* The stages of a chat request and what the edge keeps of one.
ChatStages == {"unsent", "received", "routing", "dispatched", "signing", "served", "refused", "gone"}

ChatRows == [at : ChatStages, body : Bodies \cup {NoAnswer}, once : BOOLEAN, stream : BOOLEAN,
             format : Formats]

\* A request under way has a body.
Bodied(r) == r.at \in {"received", "routing", "dispatched", "signing"} => r.body \in Bodies

\* The types of the requests, the calls, the kept answers and the days.
ChatTyped ==
    /\ chat \in [Chats -> ChatRows]
    /\ \A c \in Chats : Bodied(chat[c])

\* The requests whose call runs.
Dispatched == {c \in Chats : chat[c].at = "dispatched"}

\* The handles that are alive are those of the dispatched calls, the route
\* keeps each of them, and what it published is no more than it saw.
CallsSeen ==
    /\ liveCalls = Dispatched /\ liveCalls \subseteq callHandles /\ IsFiniteSet(liveCalls)
    /\ peak \in Nat /\ carried \in Int /\ refusedBeside \in Int
    /\ Cardinality(liveCalls) <= peak
    /\ carried <= peak
    /\ refusedBeside < peak \/ refusedBeside = -1

\* A signed answer that was sent for a body is the one that is kept for it.
SignedIsKept ==
    /\ keptAnswer \in [Bodies -> Chats \cup {NoAnswer}]
    /\ signedOut \in [Bodies -> SUBSET Chats]
    /\ \A b \in Bodies : signedOut[b] \subseteq {keptAnswer[b]}

\* The inductive invariant of the chat edge.
ChatInv == ChatTyped /\ CallsSeen /\ SignedIsKept /\ CountedWasAccepted

\* A request not yet sent, at any stage.
LEMMA UnsentTyped ==
    Unsent \in ChatRows /\ \A at \in ChatStages : [Unsent EXCEPT !.at = at] \in ChatRows
  <1>1. "unsent" \in ChatStages /\ "chat" \in Formats
    BY DEF ChatStages, Formats
  <1>. QED
    BY <1>1 DEF Unsent, ChatRows

\* One request moves.
LEMMA ChatMoves ==
    ASSUME ChatTyped, NEW c \in Chats, NEW z \in ChatRows, Bodied(z),
           chat' = [chat EXCEPT ![c] = z]
    PROVE  /\ ChatTyped'
           /\ Dispatched' = IF z.at = "dispatched" THEN Dispatched \cup {c} ELSE Dispatched \ {c}
  <1>1. chat' \in [Chats -> ChatRows] /\ chat'[c] = z /\ \A d \in Chats \ {c} : chat'[d] = chat[d]
    BY DEF ChatTyped
  <1>2. \A d \in Chats : Bodied(chat'[d])
    BY <1>1 DEF ChatTyped
  <1>3. ChatTyped'
    BY <1>1, <1>2 DEF ChatTyped, Bodied
  <1>4. CASE z.at = "dispatched"
    <2>1. \A d \in Chats : chat'[d].at = "dispatched" <=> d = c \/ chat[d].at = "dispatched"
      BY <1>1, <1>4
    <2>2. Dispatched' = Dispatched \cup {c}
      BY <2>1 DEF Dispatched
    <2>. QED
      BY <1>3, <1>4, <2>2
  <1>5. CASE z.at # "dispatched"
    <2>1. \A d \in Chats : chat'[d].at = "dispatched" <=> d # c /\ chat[d].at = "dispatched"
      BY <1>1, <1>5
    <2>2. Dispatched' = Dispatched \ {c}
      BY <2>1 DEF Dispatched
    <2>. QED
      BY <1>3, <1>5, <2>2
  <1>. QED
    BY <1>3, <1>4, <1>5

\* A request that is not dispatched goes somewhere else than to dispatch.
LEMMA MovesBeside ==
    ASSUME ChatInv, NEW c \in Chats, chat[c].at # "dispatched", NEW z \in ChatRows, Bodied(z),
           z.at # "dispatched", chat' = [chat EXCEPT ![c] = z],
           UNCHANGED <<liveCalls, callHandles, carried, refusedBeside, peak>>
    PROVE  ChatTyped' /\ CallsSeen'
  <1>1. ChatTyped' /\ Dispatched' = Dispatched \ {c}
    BY ChatMoves DEF ChatInv
  <1>2. Dispatched' = Dispatched
    BY <1>1 DEF Dispatched
  <1>. QED
    BY <1>1, <1>2 DEF ChatInv, CallsSeen

\* Nothing signed, kept, counted or accepted.
LEMMA AnswersStand ==
    ASSUME ChatInv, UNCHANGED <<keptAnswer, signedOut>>
    PROVE  SignedIsKept'
  BY DEF ChatInv, SignedIsKept

\* Days nobody writes stay counted as accepted.
LEMMA CountsStand ==
    ASSUME ChatInv, UNCHANGED <<reportedDays, ledgerDays>>
    PROVE  CountedWasAccepted'
  BY DEF ChatInv, CountedWasAccepted

\* The request of a response is forgotten.
LEMMA RespondedMoves ==
    ASSUME NEW c \in Chats, NEW status, Responded(c, status)
    PROVE  \E z \in ChatRows : /\ z.at \in {"served", "refused"} /\ Bodied(z)
                               /\ chat' = [chat EXCEPT ![c] = z]
  <1>1. PICK at \in {"served", "refused"} : chat' = [chat EXCEPT ![c] = [Unsent EXCEPT !.at = at]]
    BY DEF Responded
  <1> DEFINE z == [Unsent EXCEPT !.at = at]
  <1>2. at \in ChatStages
    BY DEF ChatStages
  <1>3. z \in ChatRows
    BY <1>2, UnsentTyped
  <1>4. z.at = at
    BY DEF Unsent
  <1> HIDE DEF z
  <1>5. chat' = [chat EXCEPT ![c] = z]
    BY <1>1 DEF z
  <1>. QED
    BY <1>3, <1>4, <1>5 DEF Bodied

\* Answering a request that runs no call leaves the calls alone.
LEMMA RespondsBeside ==
    ASSUME ChatInv, NEW c \in Chats, chat[c].at # "dispatched", NEW status, Responded(c, status),
           UNCHANGED <<liveCalls, callHandles, carried, refusedBeside, peak>>
    PROVE  ChatTyped' /\ CallsSeen'
  <1>1. PICK z \in ChatRows : /\ z.at \in {"served", "refused"} /\ Bodied(z)
                              /\ chat' = [chat EXCEPT ![c] = z]
    BY RespondedMoves
  <1>. QED
    BY <1>1, MovesBeside

\* A request goes on where it stands.
LEMMA StageTyped ==
    ASSUME ChatInv, NEW c \in Chats, NEW at \in ChatStages,
           chat[c].at \in {"received", "routing", "dispatched", "signing"},
           chat' = [chat EXCEPT ![c].at = at]
    PROVE  \E z \in ChatRows : z.at = at /\ Bodied(z) /\ chat' = [chat EXCEPT ![c] = z]
  <1>1. PICK r \in ChatRows : r = chat[c]
    BY DEF ChatInv, ChatTyped
  <1>2. r.body \in Bodies
    BY <1>1 DEF ChatInv, ChatTyped, Bodied
  <1> DEFINE z == [r EXCEPT !.at = at]
  <1>3. z \in ChatRows /\ z.at = at /\ z.body = r.body
    BY DEF ChatRows
  <1>4. chat' = [chat EXCEPT ![c] = z]
    BY <1>1 DEF ChatInv, ChatTyped
  <1> HIDE DEF z
  <1>. QED
    BY <1>2, <1>3, <1>4 DEF Bodied

-----------------------------------------------------------------------------
(* A request arrives and is routed.                                        *)

\* A request arrives.
LEMMA SendChatSafe ==
    ASSUME ChatInv, NEW c \in Chats, NEW body \in Bodies, NEW once \in BOOLEAN,
           NEW stream \in BOOLEAN, NEW wire \in Formats, SendChat(c, body, once, stream, wire)
    PROVE  ChatInv'
  <1> DEFINE z == [at |-> "received", body |-> body, once |-> once, stream |-> stream,
                   format |-> wire]
  <1>1. "received" \in ChatStages
    BY DEF ChatStages
  <1>2. z \in ChatRows /\ z.at = "received" /\ z.body = body
    BY <1>1 DEF ChatRows
  <1>3. /\ chat' = [chat EXCEPT ![c] = z] /\ chat[c].at = "unsent"
        /\ UNCHANGED <<liveCalls, callHandles, carried, refusedBeside, peak, keptAnswer, signedOut,
                       reportedDays, ledgerDays>>
    BY DEF SendChat
  <1> HIDE DEF z
  <1>4. Bodied(z)
    BY <1>2 DEF Bodied
  <1>. QED
    BY <1>2, <1>3, <1>4, MovesBeside, AnswersStand, CountsStand DEF ChatInv

\* A request answered from what is kept is given the kept answer.
LEMMA SignedSafe ==
    ASSUME ChatInv, NEW b \in Bodies, NEW k \in Chats, keptAnswer' \in [Bodies -> Chats \cup {NoAnswer}],
           keptAnswer'[b] = k, \A a \in Bodies : keptAnswer[a] # NoAnswer => keptAnswer'[a] = keptAnswer[a],
           \/ signedOut' = [signedOut EXCEPT ![b] = @ \cup {k}]
           \/ signedOut' = signedOut
    PROVE  SignedIsKept'
  <1>1. SignedIsKept
    BY DEF ChatInv
  <1>2. signedOut' \in [Bodies -> SUBSET Chats]
    BY <1>1 DEF SignedIsKept
  <1>3. ASSUME NEW a \in Bodies
        PROVE  signedOut'[a] \subseteq {keptAnswer'[a]}
    <2>1. signedOut[a] \subseteq {keptAnswer[a]} /\ signedOut[a] \subseteq Chats
      BY <1>1 DEF SignedIsKept
    <2>2. signedOut[a] \subseteq {keptAnswer'[a]}
      BY <2>1, ChatAssumption
    <2>3. signedOut'[a] \subseteq signedOut[a] \cup {k} /\ (a # b => signedOut'[a] = signedOut[a])
      BY <1>1 DEF SignedIsKept
    <2>. QED
      BY <2>2, <2>3
  <1>. QED
    BY <1>2, <1>3 DEF SignedIsKept

\* A repeated request is answered from what was kept.
LEMMA RecallKeptSafe ==
    ASSUME ChatInv, NEW c \in Chats, RecallKept(c)
    PROVE  ChatInv'
  <1>1. /\ chat[c].at = "received"
        /\ UNCHANGED <<liveCalls, callHandles, carried, refusedBeside, peak, keptAnswer,
                       reportedDays, ledgerDays>>
    BY DEF RecallKept
  <1>2. PICK b \in Bodies : b = chat[c].body
    BY <1>1 DEF ChatInv, ChatTyped, Bodied
  <1>3. PICK k \in Chats : k = keptAnswer[b]
    BY <1>2 DEF RecallKept, ChatInv, SignedIsKept
  <1>4. /\ \E status \in {200, 500} : Responded(c, status)
        /\ \/ signedOut' = [signedOut EXCEPT ![b] = @ \cup {k}]
           \/ signedOut' = signedOut
    BY <1>2, <1>3 DEF RecallKept, SignedTo
  <1>5. ChatTyped' /\ CallsSeen'
    BY <1>1, <1>4, RespondsBeside
  <1>6. SignedIsKept'
    <2>1. keptAnswer' \in [Bodies -> Chats \cup {NoAnswer}]
      BY <1>1 DEF ChatInv, SignedIsKept
    <2>2. keptAnswer'[b] = k /\ \A a \in Bodies : keptAnswer'[a] = keptAnswer[a]
      BY <1>1, <1>3
    <2>. QED
      BY <1>4, <2>1, <2>2, SignedSafe
  <1>. QED
    BY <1>1, <1>5, <1>6, CountsStand DEF ChatInv

\* A request whose answer was not kept goes on.
LEMMA FindNoneSafe ==
    ASSUME ChatInv, NEW c \in Chats, FindNoneKept(c)
    PROVE  ChatInv'
  <1>1. /\ chat[c].at = "received" /\ chat' = [chat EXCEPT ![c].at = "routing"]
        /\ UNCHANGED <<liveCalls, callHandles, carried, refusedBeside, peak, keptAnswer, signedOut,
                       reportedDays, ledgerDays>>
    BY DEF FindNoneKept
  <1>2. "routing" \in ChatStages
    BY DEF ChatStages
  <1>3. PICK z \in ChatRows : z.at = "routing" /\ Bodied(z) /\ chat' = [chat EXCEPT ![c] = z]
    BY <1>1, <1>2, StageTyped
  <1>. QED
    BY <1>1, <1>3, MovesBeside, AnswersStand, CountsStand DEF ChatInv

\* An accepted request is counted in flight, and the most there were at once
\* with it.
LEMMA AdmitCallSafe ==
    ASSUME ChatInv, NEW c \in Chats, AdmitCall(c)
    PROVE  ChatInv'
  <1>1. /\ chat[c].at = "routing" /\ chat' = [chat EXCEPT ![c].at = "dispatched"]
        /\ liveCalls' = liveCalls \cup {c} /\ callHandles' = callHandles \cup {c}
        /\ peak' = IF Cardinality(liveCalls') > peak THEN Cardinality(liveCalls') ELSE peak
        /\ UNCHANGED <<carried, refusedBeside, keptAnswer, signedOut, reportedDays, ledgerDays>>
    BY DEF AdmitCall
  <1>2. "dispatched" \in ChatStages
    BY DEF ChatStages
  <1>3. PICK z \in ChatRows : z.at = "dispatched" /\ Bodied(z) /\ chat' = [chat EXCEPT ![c] = z]
    BY <1>1, <1>2, StageTyped
  <1>4. ChatTyped' /\ Dispatched' = Dispatched \cup {c}
    BY <1>3, ChatMoves DEF ChatInv
  <1>5. IsFiniteSet(liveCalls')
    BY <1>1, FS_AddElement DEF ChatInv, CallsSeen
  <1>6. Cardinality(liveCalls') \in Nat
    BY <1>5, FS_CardinalityType
  <1>7. CallsSeen
    BY DEF ChatInv
  <1>8. peak' \in Nat /\ Cardinality(liveCalls') <= peak' /\ peak <= peak'
    BY <1>1, <1>6, <1>7 DEF CallsSeen
  <1>9. liveCalls' = Dispatched' /\ liveCalls' \subseteq callHandles'
    BY <1>1, <1>4, <1>7 DEF CallsSeen
  <1>10. carried' <= peak' /\ (refusedBeside' < peak' \/ refusedBeside' = -1)
    BY <1>1, <1>7, <1>8 DEF CallsSeen
  <1>11. CallsSeen'
    BY <1>1, <1>5, <1>7, <1>8, <1>9, <1>10 DEF CallsSeen
  <1>. QED
    BY <1>1, <1>4, <1>11, AnswersStand, CountsStand DEF ChatInv

-----------------------------------------------------------------------------
(* The dispatch ends.                                                      *)

\* What the route counts of the handles it keeps is what is dispatched.
LEMMA InFlightCounts ==
    ASSUME CallsSeen, NEW c \in liveCalls
    PROVE  /\ InFlight(callHandles) = Cardinality(liveCalls)
           /\ InFlight(callHandles \ {c}) = Cardinality(liveCalls) - 1
           /\ Cardinality(liveCalls) \in Nat
           /\ IsFiniteSet(liveCalls \ {c}) /\ Cardinality(liveCalls \ {c}) = Cardinality(liveCalls) - 1
  <1>1. callHandles \cap liveCalls = liveCalls /\ (callHandles \ {c}) \cap liveCalls = liveCalls \ {c}
    BY DEF CallsSeen
  <1>2. IsFiniteSet(liveCalls \ {c}) /\ Cardinality(liveCalls \ {c}) = Cardinality(liveCalls) - 1
    BY FS_RemoveElement DEF CallsSeen
  <1>3. Cardinality(liveCalls) \in Nat
    BY FS_CardinalityType DEF CallsSeen
  <1>. QED
    BY <1>1, <1>2, <1>3 DEF InFlight

\* A settled call leaves the handles, and what is published of it was seen.
LEMMA SettleSafe ==
    ASSUME ChatInv, NEW c \in Chats, chat[c].at = "dispatched",
           NEW how \in {"answered", "capacity", "other"}, Settle(c, how), UNCHANGED peak,
           NEW z \in ChatRows, Bodied(z), z.at # "dispatched", chat' = [chat EXCEPT ![c] = z]
    PROVE  ChatTyped' /\ CallsSeen'
  <1>1. ChatTyped' /\ Dispatched' = Dispatched \ {c}
    BY ChatMoves DEF ChatInv
  <1>2. CallsSeen /\ c \in liveCalls
    BY DEF ChatInv, CallsSeen, Dispatched
  <1>3. /\ InFlight(callHandles) = Cardinality(liveCalls)
        /\ InFlight(callHandles \ {c}) = Cardinality(liveCalls) - 1
        /\ Cardinality(liveCalls) \in Nat
        /\ IsFiniteSet(liveCalls \ {c}) /\ Cardinality(liveCalls \ {c}) = Cardinality(liveCalls) - 1
    BY <1>2, InFlightCounts
  <1>4. callHandles' = (callHandles \cap liveCalls) \ {c} /\ liveCalls' = liveCalls \ {c}
    BY DEF Settle
  <1>5. PICK n \in Nat : n = Cardinality(liveCalls)
    BY <1>3
  <1>6. \/ carried' \in {carried, n} /\ refusedBeside' = refusedBeside
        \/ carried' \in {carried, n - 1} /\ refusedBeside' = n - 1
    <2>1. CASE how = "answered"
      <3>1. carried' = (IF n > carried THEN n ELSE carried) /\ refusedBeside' = refusedBeside
        BY <1>3, <1>5, <2>1 DEF Settle
      <3>. QED
        BY <3>1
    <2>2. CASE how = "capacity"
      <3>1. /\ carried' = (IF carried = -1 \/ carried > n - 1 THEN n - 1 ELSE carried)
            /\ refusedBeside' = n - 1
        BY <1>3, <1>5, <2>2 DEF Settle
      <3>. QED
        BY <3>1
    <2>3. CASE how = "other"
      BY <2>3 DEF Settle
    <2>. QED
      BY <2>1, <2>2, <2>3
  <1>7. /\ peak \in Nat /\ carried \in Int /\ refusedBeside \in Int /\ n <= peak /\ carried <= peak
        /\ refusedBeside < peak \/ refusedBeside = -1
    BY <1>2, <1>5 DEF CallsSeen
  <1>8. /\ carried' \in Int /\ refusedBeside' \in Int /\ carried' <= peak
        /\ refusedBeside' < peak \/ refusedBeside' = -1
    BY <1>6, <1>7
  <1>9. IsFiniteSet(liveCalls') /\ Cardinality(liveCalls') <= peak
    BY <1>3, <1>4, <1>5, <1>7
  <1>10. liveCalls' = Dispatched' /\ liveCalls' \subseteq callHandles'
    BY <1>1, <1>2, <1>4 DEF CallsSeen
  <1>. QED
    BY <1>1, <1>7, <1>8, <1>9, <1>10 DEF CallsSeen

\* A call that is refused ends.
LEMMA RefuseCallSafe ==
    ASSUME ChatInv, NEW c \in Chats, RefuseCall(c)
    PROVE  ChatInv'
  <1>1. /\ chat[c].at = "dispatched"
        /\ UNCHANGED <<peak, keptAnswer, signedOut, reportedDays, ledgerDays>>
    BY DEF RefuseCall
  <1>2. PICK how \in {"capacity", "other"} :
          Settle(c, how) /\ \E status : Responded(c, status)
    BY DEF RefuseCall
  <1>3. PICK z \in ChatRows : /\ z.at \in {"served", "refused"} /\ Bodied(z)
                              /\ chat' = [chat EXCEPT ![c] = z]
    BY <1>2, RespondedMoves
  <1>4. ChatTyped' /\ CallsSeen'
    BY <1>1, <1>2, <1>3, SettleSafe
  <1>. QED
    BY <1>1, <1>4, AnswersStand, CountsStand DEF ChatInv

\* A call that is answered ends.
LEMMA AnswerCallSafe ==
    ASSUME ChatInv, NEW c \in Chats, AnswerCall(c)
    PROVE  ChatInv'
  <1>1. /\ chat[c].at = "dispatched" /\ Settle(c, "answered")
        /\ UNCHANGED <<peak, keptAnswer, signedOut, reportedDays, ledgerDays>>
    BY DEF AnswerCall
  <1>2. \/ chat' = [chat EXCEPT ![c].at = "signing"]
        \/ \E status \in {200, 502} : Responded(c, status)
    BY DEF AnswerCall
  <1>3. "signing" \in ChatStages
    BY DEF ChatStages
  <1>4. \E z \in ChatRows : z.at # "dispatched" /\ Bodied(z) /\ chat' = [chat EXCEPT ![c] = z]
    <2>1. CASE chat' = [chat EXCEPT ![c].at = "signing"]
      BY <1>1, <1>3, <2>1, StageTyped
    <2>2. ASSUME NEW status \in {200, 502}, Responded(c, status)
          PROVE  \E z \in ChatRows : z.at # "dispatched" /\ Bodied(z) /\ chat' = [chat EXCEPT ![c] = z]
      <3>1. PICK z \in ChatRows : /\ z.at \in {"served", "refused"} /\ Bodied(z)
                                  /\ chat' = [chat EXCEPT ![c] = z]
        BY <2>2, RespondedMoves
      <3>. QED
        BY <3>1
    <2>. QED
      BY <1>2, <2>1, <2>2
  <1>5. PICK z \in ChatRows : z.at # "dispatched" /\ Bodied(z) /\ chat' = [chat EXCEPT ![c] = z]
    BY <1>4
  <1>6. ChatTyped' /\ CallsSeen'
    BY <1>1, <1>5, SettleSafe
  <1>. QED
    BY <1>1, <1>6, AnswersStand, CountsStand DEF ChatInv

\* A dropped future takes its handle with it; the route's copy stays, dead.
LEMMA HangUpChatSafe ==
    ASSUME ChatInv, NEW c \in Chats, HangUpCall(c)
    PROVE  ChatInv'
  <1> DEFINE z == [Unsent EXCEPT !.at = "gone"]
  <1>1. /\ chat[c].at = "dispatched" /\ chat' = [chat EXCEPT ![c] = z] /\ liveCalls' = liveCalls \ {c}
        /\ UNCHANGED <<callHandles, carried, refusedBeside, peak, keptAnswer, signedOut,
                       reportedDays, ledgerDays>>
    BY DEF HangUpCall
  <1>2. "gone" \in ChatStages
    BY DEF ChatStages
  <1>3. z \in ChatRows
    BY <1>2, UnsentTyped
  <1>4. z.at = "gone"
    BY DEF Unsent
  <1> HIDE DEF z
  <1>5. Bodied(z)
    BY <1>4 DEF Bodied
  <1>6. ChatTyped' /\ Dispatched' = Dispatched \ {c}
    BY <1>1, <1>3, <1>4, <1>5, ChatMoves DEF ChatInv
  <1>7. CallsSeen /\ c \in liveCalls
    BY <1>1 DEF ChatInv, CallsSeen, Dispatched
  <1>8. /\ Cardinality(liveCalls) \in Nat /\ IsFiniteSet(liveCalls \ {c})
        /\ Cardinality(liveCalls \ {c}) = Cardinality(liveCalls) - 1
    BY <1>7, InFlightCounts
  <1>9. CallsSeen'
    BY <1>1, <1>6, <1>7, <1>8 DEF CallsSeen
  <1>. QED
    BY <1>1, <1>6, <1>9, AnswersStand, CountsStand DEF ChatInv

-----------------------------------------------------------------------------
(* The one signed answer of a body.                                        *)

\* Staging the answer keeps the invariant.
LEMMA StageAnswerSafe ==
    ASSUME ChatInv, NEW c \in Chats, StageAnswer(c)
    PROVE  ChatInv'
  <1>1. /\ chat[c].at = "signing"
        /\ chat' = chat \/ Responded(c, 500)
        /\ UNCHANGED <<liveCalls, callHandles, carried, refusedBeside, peak, keptAnswer, signedOut,
                       reportedDays, ledgerDays>>
    BY DEF StageAnswer
  <1>2. ChatTyped' /\ CallsSeen'
    <2>1. CASE chat' = chat
      BY <1>1, <2>1 DEF ChatInv, ChatTyped, CallsSeen, Dispatched
    <2>2. CASE Responded(c, 500)
      BY <1>1, <2>2, RespondsBeside
    <2>. QED
      BY <1>1, <2>1, <2>2
  <1>. QED
    BY <1>1, <1>2, AnswersStand, CountsStand DEF ChatInv

\* The link keeps the first answer, and that is the one that is sent.
LEMMA KeepFirstSafe ==
    ASSUME ChatInv, NEW c \in Chats, KeepFirst(c)
    PROVE  ChatInv'
  <1>1. /\ chat[c].at = "signing"
        /\ UNCHANGED <<liveCalls, callHandles, carried, refusedBeside, peak, reportedDays, ledgerDays>>
    BY DEF KeepFirst
  <1>2. PICK b \in Bodies : b = chat[c].body
    BY <1>1 DEF ChatInv, ChatTyped, Bodied
  <1>3. PICK k : k = Linked(b, c)
    OBVIOUS
  <1>4. k \in Chats /\ (keptAnswer[b] # NoAnswer => k = keptAnswer[b])
    BY <1>3 DEF Linked, ChatInv, SignedIsKept
  <1>5. keptAnswer' = [keptAnswer EXCEPT ![b] = k]
    BY <1>2, <1>3 DEF KeepFirst
  <1>6. /\ keptAnswer' \in [Bodies -> Chats \cup {NoAnswer}] /\ keptAnswer'[b] = k
        /\ \A a \in Bodies : keptAnswer[a] # NoAnswer => keptAnswer'[a] = keptAnswer[a]
    BY <1>4, <1>5 DEF ChatInv, SignedIsKept
  <1>7. /\ \E status \in {200, 500} : Responded(c, status)
        /\ \/ signedOut' = [signedOut EXCEPT ![b] = @ \cup {k}]
           \/ signedOut' = signedOut
    BY <1>2, <1>6 DEF KeepFirst, SignedTo
  <1>8. ChatTyped' /\ CallsSeen'
    BY <1>1, <1>7, RespondsBeside
  <1>9. SignedIsKept'
    BY <1>4, <1>6, <1>7, SignedSafe
  <1>. QED
    BY <1>1, <1>8, <1>9, CountsStand DEF ChatInv

-----------------------------------------------------------------------------
(* The contribution ledger, a stop of the process, and all steps together. *)

\* Reporting a day, or losing the acceptance, keeps the invariant.
LEMMA ReportSafe ==
    ASSUME ChatInv, NEW d \in Days, LoseAcceptance(d) \/ \E accepted \in BOOLEAN : ReportDay(d, accepted)
    PROVE  ChatInv'
  <1>1. UNCHANGED <<chat, liveCalls, callHandles, carried, refusedBeside, peak, keptAnswer, signedOut>>
    BY DEF LoseAcceptance, ReportDay
  <1>2. CountedWasAccepted'
    BY DEF ChatInv, CountedWasAccepted, LoseAcceptance, ReportDay, CountedReported
  <1>3. ChatTyped' /\ CallsSeen'
    BY <1>1 DEF ChatInv, ChatTyped, CallsSeen, Dispatched
  <1>. QED
    BY <1>1, <1>2, <1>3, AnswersStand DEF ChatInv

\* A process that stops ends its calls.
LEMMA StopProcessSafe ==
    ASSUME ChatInv, StopProcess
    PROVE  ChatInv'
  <1> DEFINE z == [Unsent EXCEPT !.at = "gone"]
  <1>1. /\ chat' = [c \in Chats |-> IF chat[c].at \in {"unsent", "served", "refused"} THEN chat[c] ELSE z]
        /\ liveCalls' = {} /\ callHandles' = {} /\ carried' = -1 /\ refusedBeside' = -1 /\ peak' = 0
        /\ reportedDays' = {} /\ UNCHANGED <<keptAnswer, signedOut, ledgerDays>>
    BY DEF StopProcess
  <1>2. "gone" \in ChatStages
    BY DEF ChatStages
  <1>3. z \in ChatRows
    BY <1>2, UnsentTyped
  <1>4. z.at = "gone"
    BY DEF Unsent
  <1> HIDE DEF z
  <1>5. \A c \in Chats : chat'[c] \in ChatRows /\ chat'[c].at \in {"unsent", "served", "refused", "gone"}
    BY <1>1, <1>3, <1>4 DEF ChatInv, ChatTyped
  <1>6. ChatTyped'
    BY <1>1, <1>5 DEF ChatTyped, Bodied
  <1>7. Dispatched' = {}
    BY <1>5 DEF Dispatched
  <1>8. CallsSeen'
    BY <1>1, <1>7, FS_EmptySet DEF CallsSeen
  <1>9. CountedWasAccepted'
    BY <1>1 DEF CountedWasAccepted
  <1>. QED
    BY <1>1, <1>6, <1>8, <1>9, AnswersStand DEF ChatInv

\* Every step of the chat edge keeps the invariant.
LEMMA ChatSteps == ChatInv /\ [ChatNext]_chatVars => ChatInv'
  <1> SUFFICES ASSUME ChatInv, [ChatNext]_chatVars
               PROVE  ChatInv'
    OBVIOUS
  <1>1. CASE UNCHANGED chatVars
    BY <1>1
        DEF chatVars, ChatInv, ChatTyped, CallsSeen, Dispatched, SignedIsKept, CountedWasAccepted
  <1>2. ASSUME NEW c \in Chats, RefuseMalformed(c) \/ RefuseRoute(c)
        PROVE  ChatInv'
    <2>1. /\ chat[c].at # "dispatched" /\ \E status : Responded(c, status)
          /\ UNCHANGED <<liveCalls, callHandles, carried, refusedBeside, peak, keptAnswer, signedOut,
                         reportedDays, ledgerDays>>
      BY <1>2 DEF RefuseMalformed, RefuseRoute
    <2>. QED
      BY <2>1, RespondsBeside, AnswersStand, CountsStand DEF ChatInv
  <1>3. CASE \E c \in Chats, b \in Bodies, once \in BOOLEAN, stream \in BOOLEAN,
                wire \in Formats : SendChat(c, b, once, stream, wire)
    BY <1>3, SendChatSafe
  <1>. QED
    BY <1>1, <1>2, <1>3, RecallKeptSafe, FindNoneSafe, AdmitCallSafe, RefuseCallSafe,
        AnswerCallSafe,
       HangUpChatSafe, StageAnswerSafe, KeepFirstSafe, ReportSafe, StopProcessSafe DEF ChatNext

\* The invariant holds at the start.
LEMMA ChatStarts == ChatInit => ChatInv
  <1> SUFFICES ASSUME ChatInit
               PROVE  ChatInv
    OBVIOUS
  <1>1. \A c \in Chats : chat[c] = Unsent
    BY DEF ChatInit
  <1>2. Unsent.at = "unsent"
    BY DEF Unsent
  <1>3. ChatTyped
    BY <1>1, <1>2, UnsentTyped DEF ChatInit, ChatTyped, Bodied
  <1>4. Dispatched = {}
    BY <1>1, <1>2 DEF Dispatched
  <1>5. CallsSeen
    BY <1>4, FS_EmptySet DEF ChatInit, CallsSeen
  <1>6. SignedIsKept /\ CountedWasAccepted
    BY DEF ChatInit, SignedIsKept, CountedWasAccepted
  <1>. QED
    BY <1>3, <1>5, <1>6 DEF ChatInv

\* The invariant is more than the property.
LEMMA ChatInvGives == ChatInv => ChatSafe
  <1> SUFFICES ASSUME ChatInv
               PROVE  ChatSafe
    OBVIOUS
  <1>1. OneSignedAnswer
    <2>1. ASSUME NEW b \in Bodies
          PROVE  Cardinality(signedOut[b]) <= 1
      <3>1. PICK k : signedOut[b] \subseteq {k}
        BY DEF ChatInv, SignedIsKept
      <3>2. IsFiniteSet({k}) /\ Cardinality({k}) = 1
        BY FS_Singleton
      <3>3. Cardinality(signedOut[b]) <= Cardinality({k})
        BY <3>1, <3>2, FS_Subset
      <3>. QED
        BY <3>2, <3>3
    <2>. QED
      BY <2>1 DEF OneSignedAnswer
  <1>2. CarriedWasSeen
    <2>1. callHandles \cap liveCalls = Dispatched
      BY DEF ChatInv, CallsSeen
    <2>2. InFlight(callHandles) = Cardinality({c \in Chats : chat[c].at = "dispatched"})
      BY <2>1 DEF InFlight, Dispatched
    <2>. QED
      BY <2>2 DEF ChatInv, CallsSeen, CarriedWasSeen
  <1>. QED
    BY <1>1, <1>2 DEF ChatSafe, ChatInv

\* Whatever requests race, repeat, hang up or are cut by a stop: the signed
\* answers of a body are one, the concurrency published for an alias was
\* seen, and a day counts as reported only when the ledger accepted it.
THEOREM ChatAccounted == ChatSpec => []ChatSafe
  BY ChatStarts, ChatSteps, ChatInvGives, PTL DEF ChatSpec

-----------------------------------------------------------------------------
(***************************************************************************)
(* Streaming pump (EventStream). A completion that was encoded was read:   *)
(* each task on the way has the end of the stream from the task before it. *)
(***************************************************************************)

\* What a channel carries: it holds one item at most.
ItemKinds == {"text", "start", "arguments", "finish", "failed", "done", "none"}

Items == [kind : ItemKinds, call : ToolCalls \cup {0}]

Channels == {<<>>} \cup {<<i>> : i \in Items}

\* The states of the reader, the recorder and the encoder.
ReaderRows == [up : BOOLEAN, owed : Seq(Items), seen : SUBSET (ToolCalls \cup {0}),
               terminal : BOOLEAN]

RecorderRows == [up : BOOLEAN, finished : BOOLEAN, error : BOOLEAN, holding : Items,
                 record : {"none", "answered", "refused"}]

EncoderRows == [here : BOOLEAN, open : Nat, blocks : Seq({"text", "tool"}),
                tool : [ToolCalls -> Nat], lateDelta : BOOLEAN,
                ended : {"no", "failed", "complete"}, accounted : Nat]

\* The types of the three tasks and the two channels.
StreamTyped ==
    /\ recorded \in BOOLEAN
    /\ reader \in ReaderRows
    /\ fromReader \in Channels
    /\ recorder \in RecorderRows
    /\ fromRecorder \in Channels
    /\ encoder \in EncoderRows

\* A Done is on its way from the reader only when the terminal event was read.
DoneRead ==
    /\ \A n \in DOMAIN reader.owed : reader.owed[n].kind = "done" => reader.terminal
    /\ fromReader # <<>> /\ fromReader[1].kind = "done" => reader.terminal
    /\ recorder.finished => reader.terminal

\* The recorder holds a Done it counted, and a failure it saw is the item it
\* holds, the last one it forwards.
DoneHeld ==
    /\ recorder.holding.kind = "done" => recorder.finished
    /\ recorder.up /\ recorder.error => recorder.holding.kind = "failed"
    /\ recorder.record = "answered" => reader.terminal

\* A Done behind the recorder, and a message that ended complete, were
\* recorded as an answer.
DoneRecorded ==
    /\ fromRecorder # <<>> /\ fromRecorder[1].kind = "done"
          => ~recorder.up /\ recorder.record = "answered"
    /\ encoder.ended = "complete"
          => reader.terminal /\ (recorded => ~recorder.up /\ recorder.record = "answered")

\* The inductive invariant of the pump.
StreamInv == StreamTyped /\ DoneRead /\ DoneHeld /\ DoneRecorded

-----------------------------------------------------------------------------
\* What a block does to an encoder keeps its shape and its end.
LEMMA BlocksTyped ==
    ASSUME NEW e \in EncoderRows, NEW kind \in {"text", "tool"}
    PROVE  /\ OpenBlock(e, kind) \in EncoderRows /\ OpenBlock(e, kind).ended = e.ended
           /\ OpenBlock(e, kind).here = e.here
<1>1. Append(e.blocks, kind) \in Seq({"text", "tool"}) /\ Len(e.blocks) + 1 \in Nat
  BY DEF EncoderRows
<1> QED BY <1>1 DEF EncoderRows, OpenBlock, CloseBlock

\* Encoding an item keeps the encoder's shape, and only a Done completes it.
LEMMA EncodedTyped ==
    ASSUME NEW e \in EncoderRows, NEW i \in Items
    PROVE  /\ Encoded(e, i) \in EncoderRows
           /\ Encoded(e, i).ended = "complete" => e.ended = "complete" \/ i.kind = "done"
<1>1. /\ Complete(e) \in EncoderRows /\ Fail(e) \in EncoderRows /\ Fail(e).ended = "failed"
  BY DEF EncoderRows, Complete, CloseBlock, Fail
<1>2. TextBlock(e) \in EncoderRows /\ TextBlock(e).ended = e.ended
  BY BlocksTyped DEF TextBlock
<1>3. ToolBlock(e, i.call) \in EncoderRows /\ ToolBlock(e, i.call).ended = e.ended
  <2> DEFINE o == OpenBlock(e, "tool")
  <2>1. o \in EncoderRows /\ o.ended = e.ended
    BY BlocksTyped
  <2>2. Len(e.blocks) + 1 \in Nat
    BY DEF EncoderRows
  <2> HIDE DEF o
  <2>3. [o EXCEPT !.tool[i.call] = Len(e.blocks) + 1] \in EncoderRows
        /\ [o EXCEPT !.tool[i.call] = Len(e.blocks) + 1].ended = o.ended
    BY <2>1, <2>2 DEF EncoderRows
  <2> QED BY <2>1, <2>3 DEF ToolBlock, o
<1>4. ArgumentBlock(e, i.call) \in EncoderRows
      /\ ArgumentBlock(e, i.call).ended \in {e.ended, "failed"}
  BY <1>1 DEF ArgumentBlock, EncoderRows
<1> QED BY <1>1, <1>2, <1>3, <1>4 DEF Encoded

\* So does telling the statistics.
LEMMA AccountedTyped ==
    ASSUME NEW e \in EncoderRows
    PROVE  Accounted(e) \in EncoderRows /\ Accounted(e).ended = e.ended
<1>1. e.accounted + 1 \in Nat
  BY DEF EncoderRows
<1> DEFINE n == e.accounted + 1
<1> HIDE DEF n
<1>2. [e EXCEPT !.accounted = n] \in EncoderRows /\ [e EXCEPT !.accounted = n].ended = e.ended
  BY <1>1 DEF EncoderRows, n
<1> QED BY <1>2 DEF Accounted, n

-----------------------------------------------------------------------------
\* One event of the provider: what it owes the channel is no Done.
LEMMA ReadEventSafe ==
    ASSUME StreamInv, NEW items \in Seq(Items), NEW done \in BOOLEAN,
           \A n \in DOMAIN items : items[n].kind # "done",
           ReadEvent(items, done)
    PROVE  StreamInv'
<1> DEFINE begun == {items[n].call : n \in {m \in DOMAIN items : items[m].kind = "start"}}
<1>1. \A n \in DOMAIN items : items[n] \in Items
  OBVIOUS
<1>2. begun \subseteq ToolCalls \cup {0}
  BY <1>1 DEF Items
<1> DEFINE r == reader'
<1>3. /\ r \in ReaderRows /\ r.owed = items /\ (reader.terminal => r.terminal)
      /\ r.up = reader.up
  <2>1. r = [reader EXCEPT !.owed = items, !.terminal = @ \/ done, !.seen = @ \cup begun]
    BY DEF ReadEvent
  <2>2. reader \in ReaderRows
    BY DEF StreamInv, StreamTyped
  <2> HIDE DEF begun, r
  <2> QED BY <1>2, <2>1, <2>2 DEF ReaderRows
<1>4. UNCHANGED <<recorded, fromReader, recorder, fromRecorder, encoder>>
  BY DEF ReadEvent
<1> HIDE DEF begun
<1> QED BY <1>3, <1>4 DEF StreamInv, StreamTyped, DoneRead, DoneHeld, DoneRecorded

\* The items of every event are items of the channel, and none is a Done.
LEMMA ReadsTyped ==
    /\ <<Text>> \in Seq(Items) /\ <<Finish>> \in Seq(Items) /\ <<Failure>> \in Seq(Items)
    /\ <<>> \in Seq(Items) /\ NoItem \in Items /\ DoneItem \in Items
    /\ \A i \in ToolCalls : /\ <<Start(i)>> \in Seq(Items) /\ <<Arguments(i)>> \in Seq(Items)
                            /\ <<Start(i), Arguments(i)>> \in Seq(Items)
<1>1. /\ Text \in Items /\ Finish \in Items /\ Failure \in Items /\ NoItem \in Items
      /\ DoneItem \in Items
      /\ \A i \in ToolCalls : Start(i) \in Items /\ Arguments(i) \in Items
  BY DEF Text, Finish, Failure, NoItem, DoneItem, Start, Arguments, Items, ItemKinds
<1> QED BY <1>1

\* Every event of the provider keeps the invariant.
LEMMA ReadsSafe ==
    ASSUME StreamInv,
           \/ ReadText \/ ReadTerminal \/ ReadBroken
           \/ \E i \in ToolCalls : ReadCall(i)
           \/ \E done \in BOOLEAN : ReadFinish(done)
    PROVE  StreamInv'
<1>1. CASE ReadText
  <2>1. \A n \in DOMAIN <<Text>> : <<Text>>[n].kind # "done"
    BY DEF Text
  <2> QED BY <1>1, <2>1, ReadsTyped, ReadEventSafe DEF ReadText
<1>2. CASE ReadTerminal
  <2>1. \A n \in DOMAIN <<>> : <<>>[n].kind # "done"
    OBVIOUS
  <2> QED BY <1>2, <2>1, ReadsTyped, ReadEventSafe DEF ReadTerminal
<1>3. CASE ReadBroken
  <2>1. \A n \in DOMAIN <<Failure>> : <<Failure>>[n].kind # "done"
    BY DEF Failure
  <2> QED BY <1>3, <2>1, ReadsTyped, ReadEventSafe DEF ReadBroken
<1>4. ASSUME NEW i \in ToolCalls, ReadCall(i) PROVE StreamInv'
  <2>1. /\ \A n \in DOMAIN <<Start(i)>> : <<Start(i)>>[n].kind # "done"
        /\ \A n \in DOMAIN <<Arguments(i)>> : <<Arguments(i)>>[n].kind # "done"
        /\ \A n \in DOMAIN <<Start(i), Arguments(i)>> :
              <<Start(i), Arguments(i)>>[n].kind # "done"
    BY DEF Start, Arguments
  <2>2. PICK items \in {<<Start(i)>>, <<Arguments(i)>>, <<Start(i), Arguments(i)>>} :
           ReadEvent(items, FALSE)
    BY <1>4 DEF ReadCall, ChatFragment
  <2>3. items \in Seq(Items) /\ \A n \in DOMAIN items : items[n].kind # "done"
    BY <2>1, <2>2, ReadsTyped
  <2> QED BY <2>2, <2>3, ReadEventSafe
<1>5. ASSUME NEW done \in BOOLEAN, ReadFinish(done) PROVE StreamInv'
  <2>1. \A n \in DOMAIN <<Finish>> : <<Finish>>[n].kind # "done"
    BY DEF Finish
  <2> QED BY <1>5, <2>1, ReadsTyped, ReadEventSafe DEF ReadFinish
<1> QED BY <1>1, <1>2, <1>3, <1>4, <1>5

\* The end of the body owes a Done only when the terminal event was read.
LEMMA ReadEndSafe == ASSUME StreamInv, ReadEnd PROVE StreamInv'
<1>1. PICK items \in {EndOfBody, <<Failure>>} : reader' = [reader EXCEPT !.owed = items]
  BY DEF ReadEnd
<1>2. \/ items = <<Failure>>
      \/ items = <<DoneItem>> /\ reader.terminal
  BY <1>1 DEF EndOfBody
<1>3. /\ items \in Seq(Items)
      /\ \A n \in DOMAIN items : items[n].kind = "done" => reader.terminal
  <2>1. CASE items = <<Failure>>
    BY <2>1, ReadsTyped DEF Failure
  <2>2. CASE items = <<DoneItem>> /\ reader.terminal
    BY <2>2, ReadsTyped
  <2> QED BY <1>2, <2>1, <2>2
<1> DEFINE r == reader'
<1>4. /\ r \in ReaderRows /\ r.owed = items /\ r.terminal = reader.terminal
      /\ r.up = reader.up
  BY <1>1, <1>3 DEF StreamInv, StreamTyped, ReaderRows
<1>5. UNCHANGED <<recorded, fromReader, recorder, fromRecorder, encoder>>
  BY DEF ReadEnd
<1> QED BY <1>3, <1>4, <1>5 DEF StreamInv, StreamTyped, DoneRead, DoneHeld, DoneRecorded

\* Sending the next item, or finding nobody to receive it.
LEMMA SendItemSafe == ASSUME StreamInv, SendItem PROVE StreamInv'
<1> DEFINE r == reader'
           c == fromReader'
<1>1. /\ reader \in ReaderRows /\ reader.owed \in Seq(Items) /\ reader.owed # <<>>
      /\ reader.up
  BY DEF StreamInv, StreamTyped, ReaderRows, SendItem
<1>2. /\ Head(reader.owed) \in Items /\ Head(reader.owed) = reader.owed[1]
      /\ Tail(reader.owed) \in Seq(Items) /\ 1 \in DOMAIN reader.owed
      /\ \A n \in DOMAIN Tail(reader.owed) :
            /\ Tail(reader.owed)[n] = reader.owed[n + 1]
            /\ n + 1 \in DOMAIN reader.owed
  BY <1>1
<1>3. UNCHANGED <<recorded, recorder, fromRecorder, encoder>>
  BY DEF SendItem
<1>4. \/ /\ c = <<Head(reader.owed)>>
         /\ r = [reader EXCEPT !.owed = Tail(@),
                    !.up = Head(reader.owed).kind \notin {"failed", "done"}]
      \/ /\ c = fromReader
         /\ r = [reader EXCEPT !.owed = <<>>, !.up = FALSE]
  BY DEF SendItem
<1> HIDE DEF r, c
<1>5. /\ r \in ReaderRows /\ r.terminal = reader.terminal /\ c \in Channels
      /\ c = fromReader \/ c = <<Head(reader.owed)>>
      /\ r.owed = <<>> \/ r.owed = Tail(reader.owed)
  <2>1. CASE /\ c = <<Head(reader.owed)>>
             /\ r = [reader EXCEPT !.owed = Tail(@),
                        !.up = Head(reader.owed).kind \notin {"failed", "done"}]
    BY <1>1, <1>2, <2>1 DEF ReaderRows, Channels
  <2>2. CASE /\ c = fromReader
             /\ r = [reader EXCEPT !.owed = <<>>, !.up = FALSE]
    <3>1. fromReader \in Channels /\ <<>> \in Seq(Items)
      BY ReadsTyped DEF StreamInv, StreamTyped
    <3> QED BY <1>1, <2>2, <3>1 DEF ReaderRows
  <2> QED BY <1>4, <2>1, <2>2
<1>6. \A n \in DOMAIN r.owed : r.owed[n].kind = "done" => r.terminal
  <2>1. \A n \in DOMAIN reader.owed : reader.owed[n].kind = "done" => reader.terminal
    BY DEF StreamInv, DoneRead
  <2>2. CASE r.owed = <<>>
    BY <2>2
  <2>3. CASE r.owed = Tail(reader.owed)
    BY <1>2, <1>5, <2>1, <2>3
  <2> QED BY <1>5, <2>2, <2>3
<1>7. c # <<>> /\ c[1].kind = "done" => r.terminal
  BY <1>2, <1>5 DEF StreamInv, DoneRead
<1>8. r = reader' /\ c = fromReader'
  BY DEF r, c
<1> QED BY <1>3, <1>5, <1>6, <1>7, <1>8
      DEF StreamInv, StreamTyped, DoneRead, DoneHeld, DoneRecorded

-----------------------------------------------------------------------------
\* The recorder takes an item, or finds the channel closed and records.
LEMMA ReceiveSafe == ASSUME StreamInv, Receive PROVE StreamInv'
<1> DEFINE r == recorder'
           c == fromReader'
<1>1. /\ recorder \in RecorderRows /\ recorder.up /\ recorder.holding = NoItem
      /\ ~recorder.error /\ (recorder.finished => reader.terminal)
      /\ fromReader \in Channels
  BY DEF StreamInv, StreamTyped, DoneRead, DoneHeld, Receive, NoItem
<1>2. UNCHANGED <<recorded, reader, fromRecorder, encoder>>
  BY DEF Receive
<1>3. \/ /\ fromReader # <<>> /\ c = <<>>
         /\ r = [recorder EXCEPT !.holding = fromReader[1],
                    !.error = @ \/ fromReader[1].kind = "failed",
                    !.finished = @ \/ fromReader[1].kind = "done"]
      \/ /\ fromReader = <<>> /\ c = fromReader
         /\ r = Recorded(recorder)
  BY DEF Receive
<1>4. fromReader # <<>> => fromReader[1] \in Items
  BY <1>1 DEF Channels
<1>5. fromReader # <<>> /\ fromReader[1].kind = "done" => reader.terminal
  BY DEF StreamInv, DoneRead
<1> HIDE DEF r, c
<1>6. /\ r \in RecorderRows /\ c = <<>>
      /\ r.finished => reader.terminal
      /\ r.holding.kind = "done" => r.finished
      /\ r.up /\ r.error => r.holding.kind = "failed"
      /\ r.record = "answered" => reader.terminal
  <2>0. recorder.record = "answered" => reader.terminal
    BY DEF StreamInv, DoneHeld
  <2>1. CASE /\ fromReader # <<>> /\ c = <<>>
             /\ r = [recorder EXCEPT !.holding = fromReader[1],
                        !.error = @ \/ fromReader[1].kind = "failed",
                        !.finished = @ \/ fromReader[1].kind = "done"]
    BY <1>1, <1>4, <1>5, <2>0, <2>1 DEF RecorderRows
  <2>2. CASE fromReader = <<>> /\ c = fromReader /\ r = Recorded(recorder)
    BY <1>1, <2>0, <2>2, ReadsTyped DEF Recorded, RecordOf, RecorderRows, NoItem
  <2> QED BY <1>3, <2>1, <2>2
<1>7. ~(encoder.ended = "complete" /\ recorded)
      /\ ~(fromRecorder # <<>> /\ fromRecorder[1].kind = "done")
  BY <1>1 DEF StreamInv, DoneRecorded
<1>8. r = recorder' /\ c = fromReader'
  BY DEF r, c
<1>9. c \in Channels
  BY <1>6 DEF Channels
<1> QED BY <1>2, <1>6, <1>7, <1>8, <1>9
      DEF StreamInv, StreamTyped, DoneRead, DoneHeld, DoneRecorded

\* The recorder forwards what it holds, and records when that was the last.
LEMMA ForwardSafe == ASSUME StreamInv, Forward PROVE StreamInv'
<1> DEFINE r == recorder'
           c == fromRecorder'
<1>1. /\ recorder \in RecorderRows /\ recorder.up /\ recorder.holding \in Items
      /\ recorder.finished => reader.terminal
      /\ recorder.holding.kind = "done" => recorder.finished
      /\ recorder.error => recorder.holding.kind = "failed"
      /\ recorder.record = "answered" => reader.terminal
      /\ fromRecorder \in Channels
  BY DEF StreamInv, StreamTyped, DoneRead, DoneHeld, Forward, RecorderRows
<1>2. UNCHANGED <<recorded, reader, fromReader, encoder>>
  BY DEF Forward
<1>3. \/ /\ c = <<recorder.holding>> /\ recorder.holding.kind \in {"failed", "done"}
         /\ r = Recorded(recorder)
      \/ /\ c = <<recorder.holding>> /\ recorder.holding.kind \notin {"failed", "done"}
         /\ r = [recorder EXCEPT !.holding = NoItem]
      \/ /\ c = fromRecorder
         /\ r = Recorded([recorder EXCEPT !.error = TRUE])
  BY DEF Forward
<1>4. ~(encoder.ended = "complete" /\ recorded)
      /\ ~(fromRecorder # <<>> /\ fromRecorder[1].kind = "done")
  BY <1>1 DEF StreamInv, DoneRecorded
<1> HIDE DEF r, c
<1>5. /\ r \in RecorderRows /\ c \in Channels
      /\ r.finished => reader.terminal
      /\ r.holding.kind = "done" => r.finished
      /\ r.up /\ r.error => r.holding.kind = "failed"
      /\ r.record = "answered" => reader.terminal
      /\ c # <<>> /\ c[1].kind = "done" => ~r.up /\ r.record = "answered"
  <2>1. CASE /\ c = <<recorder.holding>> /\ recorder.holding.kind \in {"failed", "done"}
             /\ r = Recorded(recorder)
    BY <1>1, <2>1, ReadsTyped DEF Recorded, RecordOf, RecorderRows, NoItem, Channels
  <2>2. CASE /\ c = <<recorder.holding>> /\ recorder.holding.kind \notin {"failed", "done"}
             /\ r = [recorder EXCEPT !.holding = NoItem]
    BY <1>1, <2>2, ReadsTyped DEF RecorderRows, NoItem, Channels
  <2>3. CASE /\ c = fromRecorder
             /\ r = Recorded([recorder EXCEPT !.error = TRUE])
    BY <1>1, <1>4, <2>3, ReadsTyped DEF Recorded, RecordOf, RecorderRows, NoItem
  <2> QED BY <1>3, <2>1, <2>2, <2>3
<1>6. r = recorder' /\ c = fromRecorder'
  BY DEF r, c
<1> QED BY <1>2, <1>4, <1>5, <1>6
      DEF StreamInv, StreamTyped, DoneRead, DoneHeld, DoneRecorded

-----------------------------------------------------------------------------
\* The encoder takes an item, or finds the channel closed and fails.
LEMMA PollSafe == ASSUME StreamInv, Poll PROVE StreamInv'
<1> DEFINE e == encoder'
<1>1. encoder \in EncoderRows /\ encoder.ended = "no"
  BY DEF StreamInv, StreamTyped, Poll, EncoderHears
<1>2. UNCHANGED <<recorded, reader, recorder>>
  BY DEF Poll
<1>3. /\ fromReader' \in {fromReader, <<>>} /\ fromRecorder' \in {fromRecorder, <<>>}
  BY DEF Poll
<1>4. \/ /\ Incoming # <<>> /\ e = Accounted(Encoded(encoder, Incoming[1]))
      \/ e = Accounted(Fail(encoder))
  BY DEF Poll
<1>5. Incoming \in Channels
  BY DEF Incoming, StreamInv, StreamTyped
<1>6. Fail(encoder) \in EncoderRows /\ Fail(encoder).ended = "failed"
  BY <1>1 DEF Fail, EncoderRows
<1>7. Incoming # <<>> => Incoming[1] \in Items
  BY <1>5 DEF Channels
<1> HIDE DEF e
<1>8. /\ e \in EncoderRows
      /\ e.ended = "complete" => Incoming # <<>> /\ Incoming[1].kind = "done"
  <2>1. CASE Incoming # <<>> /\ e = Accounted(Encoded(encoder, Incoming[1]))
    <3>1. /\ Encoded(encoder, Incoming[1]) \in EncoderRows
          /\ Encoded(encoder, Incoming[1]).ended = "complete" => Incoming[1].kind = "done"
      BY <1>1, <1>7, <2>1, EncodedTyped
    <3> QED BY <2>1, <3>1, AccountedTyped
  <2>2. CASE e = Accounted(Fail(encoder))
    BY <1>6, <2>2, AccountedTyped
  <2> QED BY <1>4, <2>1, <2>2
<1>9. e.ended = "complete"
         => reader.terminal /\ (recorded => ~recorder.up /\ recorder.record = "answered")
  BY <1>8 DEF Incoming, StreamInv, DoneRead, DoneHeld, DoneRecorded
<1>10. e = encoder'
  BY DEF e
<1>11. fromReader' \in Channels /\ fromRecorder' \in Channels
  BY <1>3 DEF StreamInv, StreamTyped, Channels
<1> QED BY <1>2, <1>3, <1>8, <1>9, <1>10, <1>11
      DEF StreamInv, StreamTyped, DoneRead, DoneHeld, DoneRecorded

\* A caller that hangs up learns nothing more.
LEMMA HangUpSafe == ASSUME StreamInv, HangUp PROVE StreamInv'
<1>1. encoder' \in EncoderRows /\ encoder'.ended = encoder.ended
  BY DEF HangUp, StreamInv, StreamTyped, EncoderRows
<1>2. UNCHANGED <<recorded, reader, fromReader, recorder, fromRecorder>>
  BY DEF HangUp
<1> QED BY <1>1, <1>2 DEF StreamInv, StreamTyped, DoneRead, DoneHeld, DoneRecorded

\* The invariant holds of a stream that just began.
LEMMA StreamStarts == StreamInit => StreamInv
<1> SUFFICES ASSUME StreamInit PROVE StreamInv
  OBVIOUS
<1>1. reader \in ReaderRows /\ reader.owed = <<>>
  BY ReadsTyped DEF StreamInit, ReaderRows
<1>2. /\ recorder \in RecorderRows /\ ~recorder.finished /\ ~recorder.error
      /\ recorder.holding.kind = "none" /\ recorder.record = "none"
  BY ReadsTyped DEF StreamInit, RecorderRows, NoItem
<1>3. encoder \in EncoderRows /\ encoder.ended = "no"
  BY DEF StreamInit, EncoderRows
<1> QED BY <1>1, <1>2, <1>3
      DEF StreamInit, StreamInv, StreamTyped, DoneRead, DoneHeld, DoneRecorded, Channels

\* Every step of the tasks keeps the invariant.
LEMMA StreamSteps == StreamInv /\ [StreamNext]_streamVars => StreamInv'
<1> SUFFICES ASSUME StreamInv, [StreamNext]_streamVars PROVE StreamInv'
  OBVIOUS
<1>1. CASE UNCHANGED streamVars
  BY <1>1 DEF streamVars, StreamInv, StreamTyped, DoneRead, DoneHeld, DoneRecorded
<1>2. CASE StreamNext
  BY <1>2, ReadsSafe, ReadEndSafe, SendItemSafe, ReceiveSafe, ForwardSafe, PollSafe,
     HangUpSafe DEF StreamNext
<1> QED BY <1>1, <1>2

\* A caller reads a complete message only of a generation whose terminal
\* event the provider sent, and the ledger's record agrees with what the
\* caller read, in whatever order the reader, the recorder and the encoder
\* run and wherever the provider fails or the caller hangs up.
THEOREM StreamToldTrue == StreamSpec => []StreamSafe
<1>1. StreamInv => StreamSafe
  BY DEF StreamInv, DoneHeld, DoneRecorded, StreamSafe, CompleteWasFinished,
         LedgerTellsTheSame
<1> QED BY StreamStarts, StreamSteps, <1>1, PTL DEF StreamSpec

-----------------------------------------------------------------------------
(***************************************************************************)
(* Aliases and inference routes (RouteRegistry). A draft that is staged    *)
(* differs from the file in what its edit set out to change and in nothing *)
(* else.                                                                   *)
(***************************************************************************)

\* Where an alias may point, and every deployment a registry can hold.
Pointed == Destinations \cup {NoRoute}

EveryDeployment == UNION (Installed \cup {s.deployments : s \in Offered})

\* The registry's file, and what an edit remembers.
RegistryFiles == [routes : [Aliases -> Pointed], deployments : SUBSET EveryDeployment,
                  categories : BOOLEAN, extra : BOOLEAN]

EditWorks == {"none", "set", "delete", "categorise", "uncategorise", "migrate", "adopt"}

EditRows == [at : {"idle", "review", "wait", "staged"}, work : EditWorks,
             alias : Aliases \cup {NoRoute}, to : Pointed, source : Offered \cup {NoRoute},
             chosen : SUBSET Aliases, replace : BOOLEAN,
             seen : {NoRoute} \cup UNION {[k -> Pointed] : k \in SUBSET Aliases},
             draft : RegistryFiles]

\* The types of the file and the edits.
RegistryTyped ==
    /\ registry \in RegistryFiles
    /\ IsFiniteSet(registry.deployments)
    /\ edit \in [Editors -> EditRows]

\* What an edit is about is known from its start; an adoption that waits or
\* is staged was reviewed.
EditKnown(x) ==
    /\ x.at # "idle" => x.work # "none"
    /\ x.at # "idle" /\ x.work \in {"set", "delete"} => x.alias \in Aliases
    /\ x.at = "review" => x.work = "adopt"
    /\ x.at # "idle" /\ x.work = "adopt" => x.source \in Offered
    /\ x.at \in {"wait", "staged"} /\ x.work = "adopt" =>
          /\ ValidDocument(x.source)
          /\ x.chosen \subseteq Declared(x.source)
          /\ \A a \in x.chosen : ~Disappeared(x.source, a)

\* Whoever staged a file holds the lock, and staged it of the file that is.
DraftStands(e) ==
    edit[e].at = "staged" => fileLock = e /\ edit[e].draft = Edited(edit[e], registry)

\* The inductive invariant of the registry.
RegistryInv ==
    /\ RegistryTyped
    /\ \A e \in Editors : EditKnown(edit[e]) /\ DraftStands(e)
    /\ NoEditLost

-----------------------------------------------------------------------------
\* A set of one that has d is d's.
LEMMA OnlyOne ==
    ASSUME NEW S, IsFiniteSet(S), Cardinality(S) = 1, NEW d \in S
    PROVE  S = {d}
BY FS_Singleton

\* A name that one deployment answers for leads to its endpoint.
LEMMA EndpointFound ==
    ASSUME NEW r, NEW a, r.routes[a] # NoRoute, r.routes[a].kind # "best",
           NEW d, Answering(r, r.routes[a].name) = {d}
    PROVE  EndpointOf(r, a) = d.endpoint
<1>1. Cardinality({d}) = 1
  BY FS_Singleton
<1>2. (CHOOSE c \in {d} : TRUE) = d
  OBVIOUS
<1> QED BY <1>1, <1>2 DEF EndpointOf

\* An endpoint that is found is some deployment's, alone under the name.
LEMMA EndpointIs ==
    ASSUME NEW r, IsFiniteSet(r.deployments), NEW a, EndpointOf(r, a) # NoRoute
    PROVE  /\ r.routes[a] # NoRoute /\ r.routes[a].kind # "best"
           /\ \E d \in r.deployments : Answering(r, r.routes[a].name) = {d}
<1> DEFINE to == r.routes[a]
           found == IF to = NoRoute \/ to.kind = "best" THEN {} ELSE Answering(r, to.name)
<1>1. Cardinality(found) = 1
  BY DEF EndpointOf
<1>2. Cardinality({}) = 0
  BY FS_EmptySet
<1>3. to # NoRoute /\ to.kind # "best"
  BY <1>1, <1>2
<1>4. found = Answering(r, to.name) /\ found \subseteq r.deployments
  BY <1>3 DEF Answering
<1>5. IsFiniteSet(found)
  BY <1>4, FS_Subset
<1>6. PICK d : found = {d}
  BY <1>1, <1>5, FS_Singleton
<1> QED BY <1>3, <1>4, <1>6

\* What an adoption makes of a file, piece by piece.
LEMMA MergedParts ==
    ASSUME NEW x \in EditRows, NEW r \in RegistryFiles, x.source \in Offered
    PROVE  /\ Merged(x, r) \in RegistryFiles
           /\ \A a \in Aliases : Merged(x, r).routes[a] =
                 IF a \in x.chosen /\ Imports(x, r, a) THEN x.source.routes[a] ELSE r.routes[a]
           /\ r.deployments \subseteq Merged(x, r).deployments
           /\ Merged(x, r).deployments \subseteq r.deployments \cup x.source.deployments
           /\ \A a \in x.chosen : Imports(x, r, a) /\ x.source.routes[a].kind = "named" =>
                 WithDeployments(r, x.source, x.source.routes[a].name)
                    \subseteq Merged(x, r).deployments
<1> DEFINE source == x.source
           taken == {a \in x.chosen : Imports(x, r, a)}
           names == {source.routes[a].name : a \in {b \in taken : source.routes[b].kind = "named"}}
           ways == [a \in Aliases |-> IF a \in taken THEN source.routes[a] ELSE r.routes[a]]
           ones == UNION ({r.deployments} \cup {WithDeployments(r, source, n) : n \in names})
<1>1. Merged(x, r) = [r EXCEPT !.routes = ways, !.deployments = ones]
  BY DEF Merged
<1>2. ways \in [Aliases -> Pointed]
  <2>1. \A a \in Aliases : source.routes[a] \in Pointed /\ r.routes[a] \in Pointed
    BY RegistryAssumption DEF RegistryFiles, Pointed
  <2> QED BY <2>1
<1>3. r.deployments \subseteq ones
  OBVIOUS
<1>4. \A n : WithDeployments(r, source, n) \subseteq r.deployments \cup source.deployments
  BY DEF WithDeployments
<1>5. ones \subseteq r.deployments \cup source.deployments
  BY <1>4
<1>6. r.deployments \cup source.deployments \subseteq EveryDeployment
  BY DEF RegistryFiles, EveryDeployment
<1>7. \A a \in Aliases : ways[a] =
         IF a \in x.chosen /\ Imports(x, r, a) THEN source.routes[a] ELSE r.routes[a]
  OBVIOUS
<1>8. \A a \in x.chosen : Imports(x, r, a) /\ source.routes[a].kind = "named" =>
         WithDeployments(r, source, source.routes[a].name) \subseteq ones
  <2> SUFFICES ASSUME NEW a \in x.chosen, Imports(x, r, a), source.routes[a].kind = "named"
               PROVE  WithDeployments(r, source, source.routes[a].name) \subseteq ones
    OBVIOUS
  <2>1. a \in taken
    OBVIOUS
  <2>2. source.routes[a].name \in names
    BY <2>1
  <2> HIDE DEF names
  <2> QED BY <2>2
<1>9. ones \in SUBSET EveryDeployment
  BY <1>5, <1>6
<1> HIDE DEF ways, ones, source, taken, names
<1>10. /\ [r EXCEPT !.routes = ways, !.deployments = ones] \in RegistryFiles
       /\ [r EXCEPT !.routes = ways, !.deployments = ones].routes = ways
       /\ [r EXCEPT !.routes = ways, !.deployments = ones].deployments = ones
  BY <1>2, <1>9 DEF RegistryFiles
<1> USE DEF source
<1> QED BY <1>1, <1>3, <1>5, <1>7, <1>8, <1>10

\* Every edit makes a registry of a registry, and changes the routes it
\* says it changes.
LEMMA EditedTyped ==
    ASSUME NEW x \in EditRows, EditKnown(x), x.at # "idle",
           NEW r \in RegistryFiles, IsFiniteSet(r.deployments)
    PROVE  /\ Edited(x, r) \in RegistryFiles /\ IsFiniteSet(Edited(x, r).deployments)
           /\ \A a \in Aliases \ Changes(x) : Edited(x, r).routes[a] = r.routes[a]
<1>1. CASE x.work = "set"
  <2> DEFINE w == [r.routes EXCEPT ![x.alias] = x.to]
  <2>1. Edited(x, r) = [r EXCEPT !.routes = w] /\ Changes(x) = {x.alias}
    BY <1>1 DEF Edited, Changes
  <2>2. w \in [Aliases -> Pointed] /\ \A a \in Aliases \ {x.alias} : w[a] = r.routes[a]
    BY <1>1 DEF RegistryFiles, EditRows, EditKnown
  <2> HIDE DEF w
  <2>3. /\ [r EXCEPT !.routes = w] \in RegistryFiles /\ [r EXCEPT !.routes = w].routes = w
        /\ [r EXCEPT !.routes = w].deployments = r.deployments
    BY <2>2 DEF RegistryFiles
  <2> QED BY <2>1, <2>2, <2>3
<1>2. CASE x.work = "delete"
  <2> DEFINE w == [r.routes EXCEPT ![x.alias] = NoRoute]
  <2>1. Edited(x, r) = [r EXCEPT !.routes = w] /\ Changes(x) = {x.alias}
    BY <1>2 DEF Edited, Changes
  <2>2. w \in [Aliases -> Pointed] /\ \A a \in Aliases \ {x.alias} : w[a] = r.routes[a]
    BY <1>2 DEF RegistryFiles, Pointed, EditKnown
  <2> HIDE DEF w
  <2>3. /\ [r EXCEPT !.routes = w] \in RegistryFiles /\ [r EXCEPT !.routes = w].routes = w
        /\ [r EXCEPT !.routes = w].deployments = r.deployments
    BY <2>2 DEF RegistryFiles
  <2> QED BY <2>1, <2>2, <2>3
<1>3. CASE x.work \in {"categorise", "uncategorise", "migrate"}
  <2>1. \E f \in BOOLEAN : \/ Edited(x, r) = [r EXCEPT !.categories = f]
                           \/ Edited(x, r) = [r EXCEPT !.extra = f]
    BY <1>3 DEF Edited
  <2> QED BY <2>1 DEF RegistryFiles
<1>4. CASE x.work = "adopt"
  <2>1. Edited(x, r) = Merged(x, r) /\ Changes(x) = x.chosen /\ x.source \in Offered
    BY <1>4 DEF Edited, Changes, EditKnown
  <2>2. IsFiniteSet(r.deployments \cup x.source.deployments)
    BY <2>1, FS_Union, RegistryAssumption
  <2>3. IsFiniteSet(Merged(x, r).deployments)
    BY <2>1, <2>2, MergedParts, FS_Subset
  <2> QED BY <2>1, <2>3, MergedParts
<1> QED BY <1>1, <1>2, <1>3, <1>4 DEF EditRows, EditWorks, EditKnown

\* An adopted alias goes to the deployment its own registry names: that one
\* is added, or it is there already and no other has its name.
LEMMA AdoptedGoesThere ==
    ASSUME NEW x \in EditRows, EditKnown(x), x.at = "staged", x.work = "adopt",
           NEW r \in RegistryFiles, IsFiniteSet(r.deployments),
           IsFiniteSet(Merged(x, r).deployments), Readable(Merged(x, r)),
           NEW a \in x.chosen, Merged(x, r).routes[a] # r.routes[a],
           x.source.routes[a].kind = "named"
    PROVE  EndpointOf(Merged(x, r), a) = EndpointOf(x.source, a)
<1> DEFINE m == Merged(x, r)
           s == x.source
           to == s.routes[a]
<1>1. /\ s \in Offered /\ ValidDocument(s) /\ a \in Aliases /\ to # NoRoute
      /\ ~Disappeared(s, a) /\ IsFiniteSet(s.deployments)
  BY RegistryAssumption DEF EditKnown, Declared, EditRows
<1>2. Imports(x, r, a) /\ m.routes[a] = to
  BY <1>1, MergedParts
<1>3. PICK d \in s.deployments : d.name = to.name
  BY <1>1 DEF Disappeared
<1>4. d \in m.deployments
  <2>1. WithDeployments(r, s, to.name) \subseteq m.deployments
    BY <1>1, <1>2, MergedParts
  <2>2. ~DeploymentConflicts(r, s, to.name)
    BY <1>2 DEF Imports
  <2>3. d \in WithDeployments(r, s, to.name)
    BY <1>3, <2>2 DEF WithDeployments, DeploymentConflicts
  <2> QED BY <2>1, <2>3
<1>5. d \in Answering(m, to.name) /\ d \in Answering(s, to.name)
  BY <1>3, <1>4 DEF Answering
<1>6. Answering(m, to.name) = {d}
  <2>1. a \in Declared(m)
    BY <1>1, <1>2 DEF Declared
  <2>2. Cardinality(Answering(m, to.name)) = 1
    BY <1>2, <2>1 DEF Readable, Resolves
  <2>3. IsFiniteSet(Answering(m, to.name))
    BY FS_Subset DEF Answering
  <2> QED BY <1>5, <2>2, <2>3, OnlyOne
<1>7. Answering(s, to.name) = {d}
  <2>1. a \in Declared(s)
    BY <1>1 DEF Declared
  <2>2. Cardinality(Answering(s, to.name)) = 1
    BY <1>1, <2>1 DEF ValidDocument, Readable, Resolves
  <2>3. IsFiniteSet(Answering(s, to.name))
    BY <1>1, FS_Subset DEF Answering
  <2> QED BY <1>5, <2>2, <2>3, OnlyOne
<1>8. to.kind # "best"
  OBVIOUS
<1> HIDE DEF m, s, to
<1>9. EndpointOf(m, a) = d.endpoint
  <2>1. m.routes[a] # NoRoute /\ m.routes[a].kind # "best" /\ Answering(m, m.routes[a].name) = {d}
    BY <1>1, <1>2, <1>6, <1>8
  <2> QED BY <2>1, EndpointFound
<1>10. EndpointOf(s, a) = d.endpoint
  <2>1. s.routes[a] = to
    BY DEF to
  <2>2. s.routes[a] # NoRoute /\ s.routes[a].kind # "best" /\ Answering(s, s.routes[a].name) = {d}
    BY <1>1, <1>7, <1>8, <2>1
  <2> QED BY <2>2, EndpointFound
<1> QED BY <1>9, <1>10 DEF m, s

\* An alias outside the selection keeps its destination, and its endpoint if
\* it still has one.
LEMMA UnselectedStays ==
    ASSUME NEW x \in EditRows, EditKnown(x), x.at = "staged", x.work = "adopt",
           NEW r \in RegistryFiles, IsFiniteSet(r.deployments),
           IsFiniteSet(Merged(x, r).deployments),
           NEW a \in Aliases \ x.chosen
    PROVE  /\ Merged(x, r).routes[a] = r.routes[a]
           /\ EndpointOf(r, a) # NoRoute =>
                 EndpointOf(Merged(x, r), a) \in {EndpointOf(r, a), NoRoute}
<1> DEFINE m == Merged(x, r)
<1>1. x.source \in Offered
  BY DEF EditKnown
<1>2. m.routes[a] = r.routes[a] /\ r.deployments \subseteq m.deployments
  BY <1>1, MergedParts
<1>3. ASSUME EndpointOf(r, a) # NoRoute, EndpointOf(m, a) # NoRoute
      PROVE  EndpointOf(m, a) = EndpointOf(r, a)
  <2>1. /\ r.routes[a] # NoRoute /\ r.routes[a].kind # "best"
        /\ \E d \in r.deployments : Answering(r, r.routes[a].name) = {d}
    BY <1>3, EndpointIs
  <2>2. PICK d \in r.deployments : Answering(r, r.routes[a].name) = {d}
    BY <2>1
  <2>3. \E c \in m.deployments : Answering(m, m.routes[a].name) = {c}
    BY <1>3, EndpointIs
  <2>4. PICK c \in m.deployments : Answering(m, m.routes[a].name) = {c}
    BY <2>3
  <2>5. d \in Answering(m, m.routes[a].name)
    BY <1>2, <2>2 DEF Answering
  <2>6. c = d
    BY <2>4, <2>5
  <2> HIDE DEF m
  <2>7. m.routes[a] # NoRoute /\ m.routes[a].kind # "best"
    BY <1>2, <2>1
  <2>8. EndpointOf(m, a) = d.endpoint
    BY <2>4, <2>6, <2>7, EndpointFound
  <2>9. EndpointOf(r, a) = d.endpoint
    BY <2>1, <2>2, EndpointFound
  <2> QED BY <2>8, <2>9
<1> QED BY <1>2, <1>3

-----------------------------------------------------------------------------
\* One editor goes on to another row; the file and the lock stand.
LEMMA EditorMoves ==
    ASSUME RegistryInv, NEW e \in Editors, NEW x \in EditRows, EditKnown(x),
           edit' = [edit EXCEPT ![e] = x], UNCHANGED <<registry, intended>>,
           \/ fileLock' = fileLock
           \/ fileLock = NoRoute /\ fileLock' = e
           \/ fileLock = e /\ fileLock' = NoRoute,
           x.at = "staged" => fileLock' = e /\ x.draft = Edited(x, registry)
    PROVE  RegistryInv'
<1>1. edit \in [Editors -> EditRows]
  BY DEF RegistryInv, RegistryTyped
<1>2. /\ edit' \in [Editors -> EditRows] /\ edit'[e] = x
      /\ \A q \in Editors \ {e} : edit'[q] = edit[q]
  BY <1>1
<1>3. RegistryTyped' /\ NoEditLost'
  BY <1>2 DEF RegistryInv, RegistryTyped, NoEditLost
<1>4. ASSUME NEW q \in Editors PROVE EditKnown(edit[q])' /\ DraftStands(q)'
  <2>1. CASE q = e
    BY <1>2, <2>1 DEF DraftStands, EditKnown
  <2>2. CASE q # e
    <3>1. EditKnown(edit[q]) /\ DraftStands(q)
      BY DEF RegistryInv
    <3>2. edit'[q] = edit[q]
      BY <1>2, <2>2
    <3>3. EditKnown(edit[q])'
      BY <3>1, <3>2 DEF EditKnown
    <3>4. DraftStands(q)'
      BY <2>2, <3>1, <3>2, RegistryAssumption DEF DraftStands
    <3> QED BY <3>3, <3>4
  <2> QED BY <2>1, <2>2
<1> QED BY <1>3, <1>4 DEF RegistryInv

\* The resting row.
LEMMA NoEditTyped == NoEdit \in EditRows /\ NoEdit.at = "idle" /\ EditKnown(NoEdit)
<1>1. Fresh \in RegistryFiles
  <2>1. [a \in Aliases |-> NoRoute] \in [Aliases -> Pointed]
    BY DEF Pointed
  <2> QED BY <2>1 DEF Fresh, RegistryFiles
<1> DEFINE f == Fresh
<1> HIDE DEF f
<1>2. f \in RegistryFiles
  BY <1>1 DEF f
<1>3. NoEdit = [at |-> "idle", work |-> "none", alias |-> NoRoute, to |-> NoRoute,
                source |-> NoRoute, chosen |-> {}, replace |-> FALSE, seen |-> NoRoute,
                draft |-> f]
  BY DEF NoEdit, f
<1>4. NoEdit \in EditRows /\ NoEdit.at = "idle"
  BY <1>2, <1>3 DEF EditRows, EditWorks, Pointed
<1> QED BY <1>4 DEF EditKnown

\* An edit ends.
LEMMA EditEnds ==
    ASSUME RegistryInv, NEW e \in Editors, EndEdit(e), UNCHANGED <<registry, intended>>,
           \/ fileLock' = fileLock
           \/ fileLock = e /\ fileLock' = NoRoute
    PROVE  RegistryInv'
BY NoEditTyped, EditorMoves DEF EndEdit

\* An edit begins, of an alias or of nothing in particular.
LEMMA BeginSafe ==
    ASSUME RegistryInv, NEW e \in Editors, NEW work \in EditWorks \ {"none", "adopt"},
           NEW alias \in Aliases \cup {NoRoute}, NEW to \in Pointed,
           work \in {"set", "delete"} => alias \in Aliases, Begin(e, work, alias, to)
    PROVE  RegistryInv'
<1> DEFINE z == [NoEdit EXCEPT !.at = "wait", !.work = work, !.alias = alias, !.to = to]
<1>1. PICK w \in EditRows : w = NoEdit
  BY NoEditTyped
<1>2. z \in EditRows /\ z.at = "wait" /\ z.work = work /\ z.alias = alias
  BY <1>1 DEF EditRows
<1>3. edit' = [edit EXCEPT ![e] = z] /\ UNCHANGED <<registry, fileLock, intended>>
  BY DEF Begin
<1> HIDE DEF z
<1>4. EditKnown(z)
  BY <1>2 DEF EditKnown
<1> QED BY <1>2, <1>3, <1>4, EditorMoves

\* An adoption begins with its review.
LEMMA BeginAdoptionSafe ==
    ASSUME RegistryInv, NEW e \in Editors, NEW source \in Offered,
           NEW chosen \in SUBSET Aliases, NEW replace \in BOOLEAN,
           BeginAdoption(e, source, chosen, replace)
    PROVE  RegistryInv'
<1> DEFINE z == [NoEdit EXCEPT !.at = "review", !.work = "adopt", !.source = source,
                               !.chosen = chosen, !.replace = replace]
<1>1. PICK w \in EditRows : w = NoEdit
  BY NoEditTyped
<1>2. z \in EditRows /\ z.at = "review" /\ z.work = "adopt" /\ z.source = source
  BY <1>1 DEF EditRows, EditWorks
<1>3. edit' = [edit EXCEPT ![e] = z] /\ UNCHANGED <<registry, fileLock, intended>>
  BY DEF BeginAdoption
<1> HIDE DEF z
<1>4. EditKnown(z)
  BY <1>2 DEF EditKnown
<1> QED BY <1>2, <1>3, <1>4, EditorMoves

\* The review goes on with the aliases it keeps, or ends the adoption.
LEMMA ReviewSafe ==
    ASSUME RegistryInv, NEW e \in Editors, ReviewAdoption(e)
    PROVE  RegistryInv'
<1>1. PICK x \in EditRows : x = edit[e] /\ EditKnown(x)
  BY DEF RegistryInv, RegistryTyped
<1>2. x.at = "review" /\ x.work = "adopt" /\ x.source \in Offered
  BY <1>1 DEF ReviewAdoption, EditKnown
<1>3. UNCHANGED <<registry, fileLock, intended>>
  BY DEF ReviewAdoption
<1>4. CASE EndEdit(e)
  BY <1>3, <1>4, EditEnds
<1>5. CASE ~EndEdit(e)
  <2>1. PICK kept \in SUBSET (x.chosen \cap Declared(x.source)) :
           /\ ValidDocument(x.source)
           /\ \A a \in kept : ~Disappeared(x.source, a)
           /\ edit' = [edit EXCEPT ![e].at = "wait", ![e].chosen = kept,
                                   ![e].seen = [a \in kept |-> registry.routes[a]]]
    <3>1. PICK discovered \in BOOLEAN :
             LET source == edit[e].source
                 known == edit[e].chosen \cap Declared(source)
                 kept == {a \in known : ~Refused(source.routes[a], discovered)}
             IN /\ ValidDocument(source)
                /\ \A a \in kept : ~Disappeared(source, a)
                /\ edit' = [edit EXCEPT ![e].at = "wait", ![e].chosen = kept,
                                        ![e].seen = [a \in kept |-> registry.routes[a]]]
      BY <1>5 DEF ReviewAdoption
    <3> QED BY <1>1, <3>1
  <2>2. PICK f \in [kept -> Pointed] : f = [a \in kept |-> registry.routes[a]]
    <3>1. \A a \in kept : registry.routes[a] \in Pointed
      BY <2>1 DEF RegistryInv, RegistryTyped, RegistryFiles, Declared
    <3> QED BY <3>1
  <2>3. kept \in SUBSET Aliases
    BY <2>1 DEF Declared
  <2>4. f \in UNION {[k -> Pointed] : k \in SUBSET Aliases}
    BY <2>2, <2>3
  <2> DEFINE z == [x EXCEPT !.at = "wait", !.chosen = kept, !.seen = f]
  <2>5. /\ z \in EditRows /\ z.at = "wait" /\ z.work = x.work /\ z.source = x.source
        /\ z.chosen = kept
    BY <2>3, <2>4 DEF EditRows
  <2>6. edit' = [edit EXCEPT ![e] = z]
    BY <1>1, <2>1, <2>2
  <2> HIDE DEF z
  <2>7. EditKnown(z)
    BY <1>2, <2>1, <2>5 DEF EditKnown
  <2> QED BY <1>3, <2>5, <2>6, <2>7, EditorMoves
<1> QED BY <1>4, <1>5

\* The file is read and the result staged under the lock.
LEMMA StartEditSafe ==
    ASSUME RegistryInv, NEW e \in Editors, StartEdit(e)
    PROVE  RegistryInv'
<1>1. PICK x \in EditRows : x = edit[e] /\ EditKnown(x)
  BY DEF RegistryInv, RegistryTyped
<1>2. x.at = "wait" /\ fileLock = NoRoute /\ UNCHANGED <<registry, intended>>
  BY <1>1 DEF StartEdit, MayRead
<1>3. CASE EndEdit(e) /\ UNCHANGED fileLock
  BY <1>2, <1>3, EditEnds
<1>4. CASE ~(EndEdit(e) /\ UNCHANGED fileLock)
  <2>1. /\ fileLock' = e
        /\ edit' = [edit EXCEPT ![e].at = "staged", ![e].draft = Edited(x, registry)]
    BY <1>1, <1>4 DEF StartEdit
  <2>2. PICK d \in RegistryFiles : d = Edited(x, registry)
    BY <1>1, <1>2, EditedTyped DEF RegistryInv, RegistryTyped
  <2> DEFINE z == [x EXCEPT !.at = "staged", !.draft = d]
  <2>3. /\ z \in EditRows /\ z.at = "staged" /\ z.draft = d /\ z.work = x.work
        /\ z.alias = x.alias /\ z.to = x.to /\ z.source = x.source /\ z.chosen = x.chosen
        /\ z.replace = x.replace /\ z.seen = x.seen
    BY DEF EditRows
  <2>4. edit' = [edit EXCEPT ![e] = z]
    BY <1>1, <2>1, <2>2
  <2> HIDE DEF z
  <2>5. EditKnown(z)
    BY <1>1, <1>2, <2>3 DEF EditKnown
  <2>6. Edited(z, registry) = Edited(x, registry)
    BY <2>3 DEF Edited, Merged, Imports
  <2> QED BY <1>2, <2>1, <2>2, <2>3, <2>4, <2>5, <2>6, EditorMoves
<1> QED BY <1>3, <1>4

\* What the editor that commits has staged.
LEMMA Committed ==
    ASSUME RegistryInv, NEW e \in Editors, CommitEdit(e), Readable(edit[e].draft)
    PROVE  /\ edit[e] \in EditRows /\ EditKnown(edit[e]) /\ edit[e].at = "staged"
           /\ fileLock = e /\ registry' = Edited(edit[e], registry)
           /\ registry' \in RegistryFiles /\ IsFiniteSet(registry'.deployments)
           /\ \A a \in Aliases \ Changes(edit[e]) : registry'.routes[a] = registry.routes[a]
<1>1. /\ edit[e] \in EditRows /\ EditKnown(edit[e]) /\ edit[e].at = "staged"
      /\ fileLock = e /\ edit[e].draft = Edited(edit[e], registry)
      /\ registry \in RegistryFiles /\ IsFiniteSet(registry.deployments)
  BY DEF CommitEdit, RegistryInv, RegistryTyped, DraftStands
<1>2. registry' = Edited(edit[e], registry)
  BY <1>1 DEF CommitEdit
<1>3. PICK x \in EditRows : x = edit[e]
  BY <1>1
<1>4. PICK r \in RegistryFiles : r = registry
  BY <1>1
<1>5. /\ Edited(x, r) \in RegistryFiles /\ IsFiniteSet(Edited(x, r).deployments)
      /\ \A a \in Aliases \ Changes(x) : Edited(x, r).routes[a] = r.routes[a]
  BY <1>1, <1>3, <1>4, EditedTyped
<1> QED BY <1>1, <1>2, <1>3, <1>4, <1>5

\* The staged file is renamed into place, by the one editor that staged any.
LEMMA CommitSafe ==
    ASSUME RegistryInv, NEW e \in Editors, CommitEdit(e)
    PROVE  RegistryInv'
<1>1. edit[e].at = "staged" /\ fileLock = e /\ fileLock' = NoRoute /\ EndEdit(e)
  BY DEF CommitEdit, RegistryInv, DraftStands
<1>2. CASE ~Readable(edit[e].draft)
  BY <1>1, <1>2, EditEnds DEF CommitEdit
<1>3. CASE Readable(edit[e].draft)
  <2>1. /\ registry' = edit[e].draft
        /\ intended' = [a \in Aliases |-> IF a \in Changes(edit[e]) THEN edit[e].draft.routes[a]
                                          ELSE intended[a]]
    BY <1>3 DEF CommitEdit
  <2>2. /\ registry' \in RegistryFiles /\ IsFiniteSet(registry'.deployments)
        /\ \A a \in Aliases \ Changes(edit[e]) : registry'.routes[a] = registry.routes[a]
    BY <1>3, Committed
  <2>3. NoEditLost'
    <3>1. \A a \in Aliases : intended'[a] = registry'.routes[a]
      BY <2>1, <2>2 DEF RegistryInv, NoEditLost
    <3>2. registry'.routes \in [Aliases -> Pointed]
      BY <2>2 DEF RegistryFiles
    <3>3. intended' = [a \in Aliases |-> intended'[a]]
      BY <2>1
    <3> QED BY <3>1, <3>2, <3>3 DEF NoEditLost
  <2>4. /\ edit' \in [Editors -> EditRows] /\ edit'[e] = NoEdit
        /\ \A q \in Editors \ {e} : edit'[q] = edit[q]
    BY <1>1, NoEditTyped DEF EndEdit, RegistryInv, RegistryTyped
  <2>5. \A q \in Editors \ {e} : edit[q].at # "staged"
    BY <1>1 DEF RegistryInv, DraftStands
  <2>6. \A q \in Editors : edit'[q].at # "staged"
    BY <2>4, <2>5, NoEditTyped
  <2>7. \A q \in Editors : EditKnown(edit[q])'
    <3>1. \A q \in Editors : EditKnown(edit'[q])
      BY <2>4, NoEditTyped DEF RegistryInv
    <3> QED BY <3>1 DEF EditKnown
  <2> QED BY <2>2, <2>3, <2>4, <2>6, <2>7 DEF RegistryInv, RegistryTyped, DraftStands
<1> QED BY <1>2, <1>3

\* An editor that stops loses its lock with its edit.
LEMMA StopEditSafe ==
    ASSUME RegistryInv, NEW e \in Editors, StopEditor(e)
    PROVE  RegistryInv'
BY EditEnds DEF StopEditor

\* Look-ups and capabilities leave the file and its editors alone.
LEMMA LooksSafe ==
    ASSUME RegistryInv,
           \/ \E a \in Aliases : AskRoute(a)
           \/ AskDeclared \/ Diagnose \/ ChangeCapability
           \/ UNCHANGED registryVars
    PROVE  RegistryInv'
<1>1. UNCHANGED <<registry, fileLock, edit, intended>>
  BY DEF AskRoute, AskDeclared, Diagnose, ChangeCapability, registryVars
<1>2. RegistryTyped' /\ NoEditLost'
  BY <1>1 DEF RegistryInv, RegistryTyped, NoEditLost
<1>3. \A e \in Editors : EditKnown(edit[e])' /\ DraftStands(e)'
  BY <1>1 DEF RegistryInv, EditKnown, DraftStands
<1> QED BY <1>2, <1>3 DEF RegistryInv

\* The edits asked for are of aliases and destinations.
LEMMA AskedSafe ==
    ASSUME RegistryInv, NEW e \in Editors,
           \/ \E a \in Aliases, to \in Routable : AdminSetRoute(e, a, to) \/ CommandSetRoute(e, a, to)
           \/ \E a \in Aliases : AdminDeleteRoute(e, a) \/ CommandDeleteRoute(e, a)
           \/ SetCategory(e) \/ DeleteCategory(e) \/ Migrate(e)
    PROVE  RegistryInv'
<1>1. Routable \subseteq Pointed /\ NoRoute \in Pointed
  BY DEF Routable, Pointed, Destinations, Best, Direct
<1>2. PICK work \in EditWorks \ {"none", "adopt"}, alias \in Aliases \cup {NoRoute}, to \in Pointed :
         /\ work \in {"set", "delete"} => alias \in Aliases
         /\ Begin(e, work, alias, to)
  BY <1>1 DEF AdminSetRoute, CommandSetRoute, AdminDeleteRoute, CommandDeleteRoute, SetCategory,
              DeleteCategory, Migrate, EditWorks
<1> QED BY <1>2, BeginSafe

\* Every step keeps the invariant.
LEMMA RegistrySteps ==
    ASSUME RegistryInv, [RegistryNext]_registryVars
    PROVE  RegistryInv'
<1>1. ASSUME NEW e \in Editors, NEW source \in Offered, NEW chosen \in SUBSET Aliases,
             NEW replace \in BOOLEAN,
             AdminAdopt(e, source, chosen, replace) \/ CommandAdopt(e, source, chosen, replace)
      PROVE  RegistryInv'
  BY <1>1, BeginAdoptionSafe DEF AdminAdopt, CommandAdopt
<1> QED BY <1>1, AskedSafe, ReviewSafe, StartEditSafe, CommitSafe, StopEditSafe, LooksSafe
      DEF RegistryNext

\* A step that changes the file under an adoption is that adoption's commit.
LEMMA StepSelectsOnly ==
    ASSUME RegistryInv, [RegistryNext]_registryVars
    PROVE  SelectionOnly
<1> SUFFICES ASSUME NEW e \in Editors, edit[e].work = "adopt", edit[e].at = "staged",
                    registry' # registry
             PROVE  /\ \A a \in edit[e].chosen :
                          LET to == edit[e].source.routes[a]
                          IN registry'.routes[a] # registry.routes[a] /\ to.kind = "named" =>
                                EndpointOf(registry', a) = EndpointOf(edit[e].source, a)
                    /\ \A a \in Aliases \ edit[e].chosen :
                          /\ registry'.routes[a] = registry.routes[a]
                          /\ EndpointOf(registry, a) # NoRoute =>
                                EndpointOf(registry', a) \in {EndpointOf(registry, a), NoRoute}
  BY DEF SelectionOnly
<1>1. PICK q \in Editors : CommitEdit(q)
  BY DEF RegistryNext, AdminSetRoute, CommandSetRoute, AdminDeleteRoute, CommandDeleteRoute,
         SetCategory, DeleteCategory, Migrate, Begin, AdminAdopt, CommandAdopt, BeginAdoption,
         ReviewAdoption, StartEdit, StopEditor, AskRoute, AskDeclared, Diagnose,
         ChangeCapability, registryVars
<1>2. Readable(edit[q].draft)
  BY <1>1 DEF CommitEdit
<1>3. q = e
  BY <1>1, <1>2, Committed DEF RegistryInv, DraftStands
<1>4. PICK x \in EditRows : x = edit[e] /\ EditKnown(x)
  BY DEF RegistryInv, RegistryTyped
<1>5. PICK r \in RegistryFiles : r = registry /\ IsFiniteSet(r.deployments)
  BY DEF RegistryInv, RegistryTyped
<1>6. /\ registry' = Merged(x, r) /\ IsFiniteSet(Merged(x, r).deployments)
      /\ Readable(Merged(x, r))
  <2>1. registry' = Edited(x, r) /\ IsFiniteSet(registry'.deployments)
    BY <1>1, <1>2, <1>3, <1>4, <1>5, Committed
  <2>2. Edited(x, r) = Merged(x, r)
    BY <1>4 DEF Edited
  <2>3. edit[e].draft = registry'
    BY <1>1, <1>2, <1>3 DEF CommitEdit
  <2> QED BY <1>2, <1>3, <2>1, <2>2, <2>3
<1>7. \A a \in x.chosen : Merged(x, r).routes[a] # r.routes[a] /\ x.source.routes[a].kind = "named"
         => EndpointOf(Merged(x, r), a) = EndpointOf(x.source, a)
  BY <1>4, <1>5, <1>6, AdoptedGoesThere
<1>8. \A a \in Aliases \ x.chosen :
         /\ Merged(x, r).routes[a] = r.routes[a]
         /\ EndpointOf(r, a) # NoRoute => EndpointOf(Merged(x, r), a) \in {EndpointOf(r, a), NoRoute}
  BY <1>4, <1>5, <1>6, UnselectedStays
<1> QED BY <1>4, <1>5, <1>6, <1>7, <1>8

\* The invariant holds of an installed registry.
LEMMA RegistryStarts == RegistryInit => RegistryInv
<1> SUFFICES ASSUME RegistryInit PROVE RegistryInv
  OBVIOUS
<1>1. PICK ds \in Installed, extra \in BOOLEAN :
         registry = [Fresh EXCEPT !.routes = [a \in Aliases |->
                                     IF a \in RequiredNames THEN Best ELSE NoRoute],
                                   !.deployments = ds, !.extra = extra]
  BY DEF RegistryInit
<1>2. [a \in Aliases |-> IF a \in RequiredNames THEN Best ELSE NoRoute] \in [Aliases -> Pointed]
  BY DEF Pointed, Destinations, Best
<1>3. ds \in SUBSET EveryDeployment /\ IsFiniteSet(ds)
  BY RegistryAssumption DEF EveryDeployment
<1> DEFINE f == [a \in Aliases |-> IF a \in RequiredNames THEN Best ELSE NoRoute]
<1> HIDE DEF f
<1>4. registry = [routes |-> f, deployments |-> ds, categories |-> FALSE, extra |-> extra]
  BY <1>1 DEF Fresh, f
<1>5. registry \in RegistryFiles /\ IsFiniteSet(registry.deployments)
  BY <1>2, <1>3, <1>4 DEF RegistryFiles, f
<1>6. edit \in [Editors -> EditRows] /\ \A e \in Editors : edit[e] = NoEdit
  BY NoEditTyped DEF RegistryInit
<1>7. \A e \in Editors : EditKnown(edit[e]) /\ DraftStands(e)
  BY <1>6, NoEditTyped DEF DraftStands
<1> QED BY <1>5, <1>6, <1>7 DEF RegistryInit, RegistryInv, RegistryTyped, NoEditLost

\* However many editors edit, adopt, stop and are refused, no confirmed edit
\* is lost, and an adoption does what was selected and no more.
THEOREM RegistryKept == RegistrySpec => RegistrySafe
<1>1. ASSUME RegistryInv, [RegistryNext]_registryVars
      PROVE  RegistryInv' /\ NoEditLost' /\ SelectionOnly
  BY <1>1, RegistrySteps, StepSelectsOnly DEF RegistryInv
<1> QED BY RegistryStarts, <1>1, PTL DEF RegistrySpec, RegistrySafe

(***************************************************************************)
(* The file as one document (RouteDocument). A draft is what its edit      *)
(* makes of the file that is, so its rename is an edit at once; what the   *)
(* abstract edit asks for beside that was checked when the draft was       *)
(* staged, and the file is the same since.                                 *)
(***************************************************************************)

\* A route that is set needs no deployment.
SetRoutable(x) == x.at # "idle" /\ x.work = "set" => x.to \in Routable

\* What a draft was staged for still holds of the file.
DraftPassed(x, r) ==
    x.at = "staged" =>
       /\ x.work = "delete" => r.routes[x.alias] # NoRoute
       /\ x.work = "uncategorise" => r.categories
       /\ x.work = "adopt" => UniqueNames(x.draft)

\* The inductive invariant of the refinement.
DocumentInv ==
    /\ RegistryInv
    /\ \A e \in Editors : SetRoutable(edit[e]) /\ DraftPassed(edit[e], registry)

LEMMA NoEditPassed == SetRoutable(NoEdit) /\ \A r : DraftPassed(NoEdit, r)
BY NoEditTyped DEF SetRoutable, DraftPassed

\* One editor goes on; the file stands, or nobody else has staged a draft.
LEMMA PassedMoves ==
    ASSUME DocumentInv, NEW e \in Editors, NEW x, edit' = [edit EXCEPT ![e] = x],
           registry' = registry \/ \A q \in Editors \ {e} : edit[q].at # "staged",
           SetRoutable(x), DraftPassed(x, registry')
    PROVE  \A q \in Editors : (SetRoutable(edit[q]) /\ DraftPassed(edit[q], registry))'
<1>1. DOMAIN edit = Editors
  BY DEF DocumentInv, RegistryInv, RegistryTyped
<1>2. edit'[e] = x /\ \A q \in Editors \ {e} : edit'[q] = edit[q]
  BY <1>1
<1>3. ASSUME NEW q \in Editors PROVE SetRoutable(edit'[q]) /\ DraftPassed(edit'[q], registry')
  <2>1. CASE q = e
    BY <1>2, <2>1
  <2>2. CASE q # e
    <3>1. SetRoutable(edit[q]) /\ DraftPassed(edit[q], registry) /\ edit'[q] = edit[q]
      BY <1>2, <2>2 DEF DocumentInv
    <3>2. DraftPassed(edit[q], registry')
      BY <2>2, <3>1 DEF DraftPassed
    <3> QED BY <3>1, <3>2
  <2> QED BY <2>1, <2>2
<1> QED BY <1>3 DEF SetRoutable, DraftPassed

LEMMA BegunPassed ==
    ASSUME DocumentInv, NEW e \in Editors, NEW work, NEW alias, NEW to,
           work = "set" => to \in Routable, Begin(e, work, alias, to)
    PROVE  \A q \in Editors : (SetRoutable(edit[q]) /\ DraftPassed(edit[q], registry))'
<1> DEFINE z == [NoEdit EXCEPT !.at = "wait", !.work = work, !.alias = alias, !.to = to]
<1>1. z.at = "wait" /\ z.work = work /\ z.to = to
  BY DEF NoEdit
<1>2. edit' = [edit EXCEPT ![e] = z] /\ registry' = registry
  BY DEF Begin
<1> HIDE DEF z
<1>3. SetRoutable(z) /\ DraftPassed(z, registry')
  BY <1>1 DEF SetRoutable, DraftPassed
<1> QED BY <1>2, <1>3, PassedMoves

LEMMA AdoptionPassed ==
    ASSUME DocumentInv, NEW e \in Editors, NEW source, NEW chosen, NEW replace,
           BeginAdoption(e, source, chosen, replace)
    PROVE  \A q \in Editors : (SetRoutable(edit[q]) /\ DraftPassed(edit[q], registry))'
<1> DEFINE z == [NoEdit EXCEPT !.at = "review", !.work = "adopt", !.source = source,
                               !.chosen = chosen, !.replace = replace]
<1>1. z.at = "review" /\ z.work = "adopt"
  BY DEF NoEdit
<1>2. edit' = [edit EXCEPT ![e] = z] /\ registry' = registry
  BY DEF BeginAdoption
<1> HIDE DEF z
<1>3. SetRoutable(z) /\ DraftPassed(z, registry')
  BY <1>1 DEF SetRoutable, DraftPassed
<1> QED BY <1>2, <1>3, PassedMoves

LEMMA EndedPassed ==
    ASSUME DocumentInv, NEW e \in Editors, EndEdit(e),
           registry' = registry \/ \A q \in Editors \ {e} : edit[q].at # "staged"
    PROVE  \A q \in Editors : (SetRoutable(edit[q]) /\ DraftPassed(edit[q], registry))'
BY NoEditPassed, PassedMoves DEF EndEdit

LEMMA ReviewPassed ==
    ASSUME DocumentInv, NEW e \in Editors, ReviewAdoption(e)
    PROVE  \A q \in Editors : (SetRoutable(edit[q]) /\ DraftPassed(edit[q], registry))'
<1>1. PICK x \in EditRows : x = edit[e] /\ EditKnown(x)
  BY DEF DocumentInv, RegistryInv, RegistryTyped
<1>2. x.work = "adopt" /\ registry' = registry
  BY <1>1 DEF ReviewAdoption, EditKnown
<1>3. CASE EndEdit(e)
  BY <1>2, <1>3, EndedPassed
<1>4. CASE ~EndEdit(e)
  <2>1. PICK kept, f : edit' = [edit EXCEPT ![e].at = "wait", ![e].chosen = kept, ![e].seen = f]
    BY <1>4 DEF ReviewAdoption
  <2> DEFINE z == [x EXCEPT !.at = "wait", !.chosen = kept, !.seen = f]
  <2>2. z.at = "wait" /\ z.work = "adopt"
    BY <1>2 DEF EditRows
  <2>3. edit' = [edit EXCEPT ![e] = z]
    BY <1>1, <2>1
  <2> HIDE DEF z
  <2>4. SetRoutable(z) /\ DraftPassed(z, registry')
    BY <2>2 DEF SetRoutable, DraftPassed
  <2> QED BY <1>2, <2>3, <2>4, PassedMoves
<1> QED BY <1>3, <1>4

LEMMA StartPassed ==
    ASSUME DocumentInv, NEW e \in Editors, StartEdit(e)
    PROVE  \A q \in Editors : (SetRoutable(edit[q]) /\ DraftPassed(edit[q], registry))'
<1>1. PICK x \in EditRows : x = edit[e] /\ SetRoutable(x)
  BY DEF DocumentInv, RegistryInv, RegistryTyped
<1>2. x.at = "wait" /\ registry' = registry
  BY <1>1 DEF StartEdit
<1>3. CASE EndEdit(e)
  BY <1>2, <1>3, EndedPassed
<1>4. CASE ~EndEdit(e)
  <2> DEFINE d == Edited(x, registry)
             z == [x EXCEPT !.at = "staged", !.draft = d]
  <2>1. /\ edit' = [edit EXCEPT ![e].at = "staged", ![e].draft = d]
        /\ x.work = "delete" => registry.routes[x.alias] # NoRoute
        /\ x.work = "uncategorise" => registry.categories
        /\ x.work = "adopt" => UniqueNames(d)
    BY <1>1, <1>4 DEF StartEdit, ValidDocument
  <2> HIDE DEF d
  <2>2. z.at = "staged" /\ z.work = x.work /\ z.alias = x.alias /\ z.to = x.to /\ z.draft = d
    BY DEF EditRows
  <2>3. edit' = [edit EXCEPT ![e] = z]
    BY <1>1, <2>1
  <2> HIDE DEF z
  <2>4. SetRoutable(z) /\ DraftPassed(z, registry')
    BY <1>1, <1>2, <2>1, <2>2 DEF SetRoutable, DraftPassed
  <2> QED BY <1>2, <2>3, <2>4, PassedMoves
<1> QED BY <1>3, <1>4

LEMMA CommitPassed ==
    ASSUME DocumentInv, NEW e \in Editors, CommitEdit(e)
    PROVE  \A q \in Editors : (SetRoutable(edit[q]) /\ DraftPassed(edit[q], registry))'
<1>1. EndEdit(e) /\ \A q \in Editors \ {e} : edit[q].at # "staged"
  BY DEF CommitEdit, DocumentInv, RegistryInv, DraftStands
<1> QED BY <1>1, EndedPassed

LEMMA LooksPassed ==
    ASSUME DocumentInv, UNCHANGED <<registry, edit>>
    PROVE  \A q \in Editors : (SetRoutable(edit[q]) /\ DraftPassed(edit[q], registry))'
BY DEF DocumentInv, SetRoutable, DraftPassed

LEMMA DocumentSteps ==
    ASSUME DocumentInv, [RegistryNext]_registryVars
    PROVE  DocumentInv'
<1>1. RegistryInv'
  BY RegistrySteps DEF DocumentInv
<1> DEFINE Kept == \A q \in Editors : (SetRoutable(edit[q]) /\ DraftPassed(edit[q], registry))'
<1>2. ASSUME NEW e \in Editors, NEW a \in Aliases, NEW to \in Routable,
             AdminSetRoute(e, a, to) \/ CommandSetRoute(e, a, to)
      PROVE  Kept
  BY <1>2, BegunPassed DEF AdminSetRoute, CommandSetRoute
<1>3. ASSUME NEW e \in Editors, NEW a \in Aliases, AdminDeleteRoute(e, a) \/ CommandDeleteRoute(e, a)
      PROVE  Kept
  BY <1>3, BegunPassed DEF AdminDeleteRoute, CommandDeleteRoute
<1>4. ASSUME NEW e \in Editors, SetCategory(e) \/ DeleteCategory(e) \/ Migrate(e)
      PROVE  Kept
  BY <1>4, BegunPassed DEF SetCategory, DeleteCategory, Migrate
<1>5. ASSUME NEW e \in Editors, NEW source \in Offered, NEW chosen \in SUBSET Aliases,
             NEW replace \in BOOLEAN,
             AdminAdopt(e, source, chosen, replace) \/ CommandAdopt(e, source, chosen, replace)
      PROVE  Kept
  BY <1>5, AdoptionPassed DEF AdminAdopt, CommandAdopt
<1>6. ASSUME NEW e \in Editors, StopEditor(e) PROVE Kept
  BY <1>6, EndedPassed DEF StopEditor
<1>7. ASSUME \/ \E a \in Aliases : AskRoute(a)
             \/ AskDeclared \/ Diagnose \/ ChangeCapability
             \/ UNCHANGED registryVars
      PROVE  Kept
  <2>1. UNCHANGED <<registry, edit>>
    BY <1>7 DEF AskRoute, AskDeclared, Diagnose, ChangeCapability, registryVars
  <2> QED BY <2>1, LooksPassed
<1>8. Kept
  <2> HIDE DEF Kept
  <2>1. ASSUME NEW e \in Editors, ReviewAdoption(e) PROVE Kept
    BY <2>1, ReviewPassed DEF Kept
  <2>2. ASSUME NEW e \in Editors, StartEdit(e) PROVE Kept
    BY <2>2, StartPassed DEF Kept
  <2>3. ASSUME NEW e \in Editors, CommitEdit(e) PROVE Kept
    BY <2>3, CommitPassed DEF Kept
  <2> QED BY <1>2, <1>3, <1>4, <1>5, <1>6, <1>7, <2>1, <2>2, <2>3 DEF RegistryNext
<1> QED BY <1>1, <1>8 DEF DocumentInv

-----------------------------------------------------------------------------
\* An adoption adds the deployments its aliases name, and no other: one that
\* is there under such a name is the same.
LEMMA MergedDeployments ==
    ASSUME NEW x \in EditRows, NEW r \in RegistryFiles, x.source \in Offered
    PROVE  LET taken == {a \in x.chosen : Imports(x, r, a)}
           IN Merged(x, r) = [r EXCEPT
                 !.routes = [a \in Aliases |-> IF a \in taken THEN x.source.routes[a] ELSE @[a]],
                 !.deployments = @ \cup Document!NamedBy(x.source, taken)]
<1> DEFINE source == x.source
           taken == {a \in x.chosen : Imports(x, r, a)}
           names == {source.routes[a].name : a \in {b \in taken : source.routes[b].kind = "named"}}
           ways == [a \in Aliases |-> IF a \in taken THEN source.routes[a] ELSE r.routes[a]]
           ones == UNION ({r.deployments} \cup {WithDeployments(r, source, n) : n \in names})
           brought == Document!NamedBy(source, taken)
<1>1. Merged(x, r) = [r EXCEPT !.routes = ways, !.deployments = ones]
  BY DEF Merged
<1>2. \A d : d \in brought <=> d \in source.deployments /\ d.name \in names
  BY DEF Document!NamedBy
<1>3. \A n \in names : ~DeploymentConflicts(r, source, n)
  BY DEF Imports
<1>4. ones \subseteq r.deployments \cup brought
  <2> SUFFICES ASSUME NEW n \in names, NEW d \in WithDeployments(r, source, n)
               PROVE  d \in r.deployments \cup brought
    OBVIOUS
  <2>1. d \in r.deployments \/ (d \in source.deployments /\ d.name = n)
    BY DEF WithDeployments
  <2> HIDE DEF brought, names
  <2> QED BY <1>2, <2>1
<1>5. brought \subseteq ones
  <2> SUFFICES ASSUME NEW d \in brought PROVE d \in ones
    OBVIOUS
  <2>1. d \in source.deployments /\ d.name \in names
    BY <1>2
  <2>2. ~DeploymentConflicts(r, source, d.name)
    BY <1>3, <2>1
  <2>3. d \in WithDeployments(r, source, d.name)
    BY <2>1, <2>2 DEF WithDeployments, DeploymentConflicts
  <2> HIDE DEF names
  <2> QED BY <2>1, <2>3
<1>6. ones = r.deployments \cup brought
  BY <1>4, <1>5
<1> QED BY <1>1, <1>6

\* A file that may be read leaves no alias on a name that does not resolve.
LEMMA ReadableSound ==
    ASSUME Readable(registry)'
    PROVE  Document!Sound'
<1> SUFFICES ASSUME NEW a \in Aliases, registry'.routes[a] # NoRoute,
                    registry'.routes[a].kind = "named"
             PROVE  Document!Cardinality(Document!Under(registry.routes[a].name)') = 1
  BY DEF Document!Sound
<1> DEFINE S == {d \in registry'.deployments : registry'.routes[a].name \in {d.name, d.adapter}}
<1>1. Document!Under(registry.routes[a].name)' = S
  BY DEF Document!Under
<1>2. Cardinality(S) = 1
  BY DEF Readable, Declared, Resolves, Answering
<1> HIDE DEF S
<1>3. Document!Cardinality(S) = Cardinality(S)
  BY Zenon DEF Cardinality, Document!Cardinality
<1> QED BY <1>1, <1>2, <1>3

\* The rename of a draft is one edit of the document.
LEMMA CommitEdits ==
    ASSUME DocumentInv, NEW e \in Editors, CommitEdit(e), Readable(edit[e].draft)
    PROVE  Document!Edit \/ UNCHANGED Document!document
<1>1. PICK x \in EditRows : x = edit[e] /\ EditKnown(x) /\ SetRoutable(x) /\ DraftPassed(x, registry)
  BY DEF DocumentInv, RegistryInv, RegistryTyped
<1>2. PICK r \in RegistryFiles : r = registry
  BY DEF DocumentInv, RegistryInv, RegistryTyped
<1>3. x.at = "staged" /\ registry' = Edited(x, r) /\ x.draft = registry'
  BY <1>1, <1>2, Committed DEF DocumentInv, CommitEdit
<1>4. Document!Sound'
  <2>1. Readable(registry)'
    BY <1>1, <1>3 DEF Readable, Declared, Resolves, Answering
  <2> QED BY <2>1, ReadableSound
<1>5. CASE x.work = "set"
  <2> DEFINE w == [r.routes EXCEPT ![x.alias] = x.to]
  <2>1. x.alias \in Aliases /\ x.to \in Document!Pointable
    BY <1>1, <1>3, <1>5 DEF EditKnown, SetRoutable, Routable, Direct, Best, Document!Pointable,
                            Document!Chosen
  <2>2. registry' = [r EXCEPT !.routes = w]
    BY <1>3, <1>5 DEF Edited
  <2> HIDE DEF w
  <2>3. /\ registry'.routes = w /\ registry'.deployments = r.deployments
        /\ registry'.categories = r.categories /\ registry'.extra = r.extra
    BY <2>2 DEF RegistryFiles
  <2>4. Document!Point(x.alias, x.to)
    BY <1>2, <2>3 DEF Document!Point, w
  <2> QED BY <1>4, <2>1, <2>4 DEF Document!Edit
<1>6. CASE x.work = "delete"
  <2> DEFINE w == [r.routes EXCEPT ![x.alias] = NoRoute]
  <2>1. x.alias \in Aliases /\ r.routes[x.alias] # NoRoute
    BY <1>1, <1>2, <1>3, <1>6 DEF EditKnown, DraftPassed
  <2>2. registry' = [r EXCEPT !.routes = w]
    BY <1>3, <1>6 DEF Edited
  <2> HIDE DEF w
  <2>3. /\ registry'.routes = w /\ registry'.deployments = r.deployments
        /\ registry'.categories = r.categories /\ registry'.extra = r.extra
    BY <2>2 DEF RegistryFiles
  <2>4. Document!Withdraw(x.alias)
    BY <1>2, <2>1, <2>3 DEF Document!Withdraw, w
  <2> QED BY <1>4, <2>1, <2>4 DEF Document!Edit
<1>7. CASE x.work \in {"categorise", "uncategorise"}
  <2>1. PICK f \in BOOLEAN : registry' = [r EXCEPT !.categories = f]
    BY <1>3, <1>7 DEF Edited
  <2>2. /\ registry'.routes = r.routes /\ registry'.deployments = r.deployments
        /\ registry'.categories = f /\ registry'.extra = r.extra /\ r.categories \in BOOLEAN
    BY <2>1 DEF RegistryFiles
  <2>3. CASE f = r.categories
    BY <1>2, <2>2, <2>3 DEF Document!document
  <2>4. CASE f = ~r.categories
    <3>1. Document!Categorise
      BY <1>2, <2>2, <2>4 DEF Document!Categorise
    <3> QED BY <1>4, <3>1 DEF Document!Edit
  <2>5. f = r.categories \/ f = ~r.categories
    BY <2>2, Zenon
  <2> QED BY <2>3, <2>4, <2>5
<1>8. CASE x.work = "migrate"
  <2>1. registry' = [r EXCEPT !.extra = FALSE]
    BY <1>3, <1>8 DEF Edited
  <2>2. /\ registry'.routes = r.routes /\ registry'.deployments = r.deployments
        /\ registry'.categories = r.categories /\ registry'.extra = FALSE
    BY <2>1 DEF RegistryFiles
  <2>3. Document!Strip
    BY <1>2, <2>2 DEF Document!Strip
  <2> QED BY <1>4, <2>3 DEF Document!Edit
<1>9. CASE x.work = "adopt"
  <2> DEFINE source == x.source
             taken == {a \in x.chosen : Imports(x, r, a)}
             ways == [a \in Aliases |-> IF a \in taken THEN source.routes[a] ELSE r.routes[a]]
             ones == r.deployments \cup Document!NamedBy(source, taken)
  <2>1. /\ source \in Offered /\ x.chosen \subseteq Declared(source)
        /\ UniqueNames(registry')
    BY <1>1, <1>3, <1>9 DEF EditKnown, DraftPassed
  <2>2. taken \in SUBSET Aliases /\ \A a \in taken : source.routes[a] # NoRoute
    BY <2>1 DEF Declared
  <2>3. registry' = [r EXCEPT !.routes = ways, !.deployments = ones]
    <3>1. registry' = Merged(x, r)
      BY <1>3, <1>9 DEF Edited
    <3> QED BY <2>1, <3>1, MergedDeployments
  <2>4. /\ registry'.routes = ways /\ registry'.deployments = ones
        /\ registry'.categories = r.categories /\ registry'.extra = r.extra
    <3> HIDE DEF ways, ones
    <3> QED BY <2>3 DEF RegistryFiles
  <2>5. Document!Adopt(source, taken)
    <3>1. \A d, o \in registry'.deployments : d.name = o.name => d = o
      BY <2>1 DEF UniqueNames
    <3> HIDE DEF taken, source
    <3> QED BY <1>2, <2>2, <2>4, <3>1 DEF Document!Adopt
  <2> HIDE DEF taken, source
  <2> QED BY <1>4, <2>1, <2>2, <2>5 DEF Document!Edit
<1> QED BY <1>1, <1>3, <1>5, <1>6, <1>7, <1>8, <1>9 DEF EditRows, EditWorks, EditKnown

\* Every other step leaves the document alone.
LEMMA DocumentEdits ==
    ASSUME DocumentInv, [RegistryNext]_registryVars
    PROVE  Document!Edit \/ UNCHANGED Document!document
<1>1. CASE registry' = registry
  BY <1>1 DEF Document!document
<1>2. CASE registry' # registry
  <2>1. PICK e \in Editors : CommitEdit(e)
    BY <1>2 DEF RegistryNext, AdminSetRoute, CommandSetRoute, AdminDeleteRoute, CommandDeleteRoute,
           SetCategory, DeleteCategory, Migrate, Begin, AdminAdopt, CommandAdopt, BeginAdoption,
           ReviewAdoption, StartEdit, StopEditor, AskRoute, AskDeclared, Diagnose,
           ChangeCapability, registryVars
  <2>2. Readable(edit[e].draft)
    BY <1>2, <2>1 DEF CommitEdit
  <2> QED BY <2>1, <2>2, CommitEdits
<1> QED BY <1>1, <1>2

LEMMA DocumentStarts == RegistryInit => DocumentInv /\ Document!DocumentInit
<1> SUFFICES ASSUME RegistryInit PROVE DocumentInv /\ Document!DocumentInit
  OBVIOUS
<1>1. DocumentInv
  <2>1. RegistryInv /\ \A e \in Editors : edit[e] = NoEdit
    BY RegistryStarts DEF RegistryInit
  <2> QED BY <2>1, NoEditPassed DEF DocumentInv
<1>2. PICK ds \in Installed, extra \in BOOLEAN :
         registry = [Fresh EXCEPT !.routes = [a \in Aliases |->
                                     IF a \in RequiredNames THEN Best ELSE NoRoute],
                                   !.deployments = ds, !.extra = extra]
  BY DEF RegistryInit
<1> DEFINE f == [a \in Aliases |-> IF a \in RequiredNames THEN Best ELSE NoRoute]
<1>3. registry = [routes |-> f, deployments |-> ds, categories |-> FALSE, extra |-> extra]
  BY <1>2 DEF Fresh
<1> HIDE DEF f
<1>4. /\ registry.routes = f /\ registry.deployments = ds
      /\ registry.categories = FALSE /\ registry.extra = extra
  BY <1>3
<1>5. Document!DocumentInit
  BY <1>4 DEF Document!DocumentInit, Document!Chosen, Best, f
<1> QED BY <1>1, <1>5

\* However many editors review, wait, write, stop and are refused, the file
\* changes as one document that whole edits change at once, each of what it
\* said at that moment.
THEOREM RegistryIsDocument == RegistrySpec => EditsAtOnce
<1>1. ASSUME DocumentInv, [RegistryNext]_registryVars
      PROVE  DocumentInv' /\ [Document!Edit]_Document!document
  BY <1>1, DocumentSteps, DocumentEdits
<1> QED BY DocumentStarts, <1>1, PTL DEF RegistrySpec, EditsAtOnce, Document!DocumentSpec

-----------------------------------------------------------------------------
(***************************************************************************)
(* Model catalogue (ModelCatalog). A cold start fetches the catalogue      *)
(* once, for any number of requests, documents and restarts. The property  *)
(* is not inductive by itself: that nothing was loaded beside a reading    *)
(* request needs that whoever reads holds the load lock, and that a        *)
(* refresh runs only beside a document that is loaded.                     *)
(***************************************************************************)

\* What a loader and a copy can hold.
Documents == Nat \cup {NoDocument}

Copies == [document : Documents, live : BOOLEAN, current : BOOLEAN]

CatalogWaits == [stage : {"idle", "queued", "loading", "fetched"}, document : Documents,
          live : BOOLEAN]

\* The types of the copies, the lock and the loaders.
CatalogTypeOK ==
    /\ published \in Nat
    /\ diskCopy \in Documents
    /\ memoryCopy \in Copies
    /\ loadLock \in Loaders \cup {NoDocument}
    /\ wait \in [Loaders -> CatalogWaits]
    /\ refreshing \in BOOLEAN

\* A loader that has the lock.
Reading(w) == wait[w].stage \in {"loading", "fetched"}

\* A loader between the lock and its release holds it.
ReaderHoldsLock == \A w \in Loaders : Reading(w) => loadLock = w

\* A refresh is under way exactly while its flag is set, and only beside a
\* loaded document.
RefreshBesideLoaded ==
    /\ wait[Beside].stage # "idle" => refreshing
    /\ refreshing => Loaded

\* The inductive invariant of the catalogue.
CatalogInv ==
    /\ CatalogTypeOK
    /\ ReaderHoldsLock
    /\ RefreshBesideLoaded
    /\ ColdFetchOnce

\* A load never unloads what is held.
LEMMA LoadKeeps ==
    ASSUME CatalogTypeOK, NEW w \in Loaders
    PROVE  /\ HeldAfter(w) \in Copies
           /\ Loaded => HeldAfter(w).document # NoDocument
<1>1. wait[w].document \in Documents /\ wait[w].live \in BOOLEAN
  BY DEF CatalogTypeOK, CatalogWaits
<1>2. [document |-> wait[w].document, live |-> wait[w].live, current |-> TRUE] \in Copies
  BY <1>1, Zenon DEF Copies
<1>3. HeldAfter(w) \in Copies
  BY <1>2, Zenon DEF CatalogTypeOK, HeldAfter
<1>4. Loaded => HeldAfter(w).document # NoDocument
  BY DEF HeldAfter, Loaded
<1> QED BY <1>3, <1>4

\* A loader that goes on to another stage, has its document, or ends.
LEMMA StageMoves ==
    ASSUME NEW x \in CatalogWaits, NEW s \in {"queued", "loading"}
    PROVE  [x EXCEPT !.stage = s] \in CatalogWaits /\ [x EXCEPT !.stage = s].stage = s
  BY DEF CatalogWaits

\* A loader with its document, and one at rest.
LEMMA WaitTypes ==
    ASSUME NEW d \in Documents, NEW live \in BOOLEAN
    PROVE  [stage |-> "fetched", document |-> d, live |-> live] \in CatalogWaits /\ AtRest \in CatalogWaits
<1>1. [stage |-> "fetched", document |-> d, live |-> live] \in CatalogWaits
  BY DEF CatalogWaits
<1>2. AtRest \in CatalogWaits
  BY DEF CatalogWaits, AtRest, Documents
<1> QED BY <1>1, <1>2

\* One loader's step, whatever it becomes.
LEMMA OneMoves ==
    ASSUME CatalogTypeOK, NEW w \in Loaders, NEW x \in CatalogWaits, wait' = [wait EXCEPT ![w] = x]
    PROVE  /\ wait' \in [Loaders -> CatalogWaits]
           /\ wait'[w] = x
           /\ \A v \in Loaders : v # w => wait'[v] = wait[v]
  BY DEF CatalogTypeOK

\* The invariant holds at the start.
LEMMA CatalogStarts == CatalogInit => CatalogInv
<1> SUFFICES ASSUME CatalogInit PROVE CatalogInv
  OBVIOUS
<1> USE ModelCatalogAssumption
<1>1. Unloaded \in Copies
  BY DEF Unloaded, Copies, Documents
<1>2. AtRest \in CatalogWaits
  BY DEF AtRest, CatalogWaits, Documents
<1>3. CatalogTypeOK
  BY <1>1, <1>2 DEF CatalogInit, CatalogTypeOK, Documents
<1>4. \A w \in Loaders : wait[w].stage = "idle"
  BY DEF CatalogInit, AtRest
<1>5. ~refreshing /\ Beside \in Loaders /\ Requests \subseteq Loaders
  BY DEF CatalogInit, Loaders
<1> QED
  BY <1>3, <1>4, <1>5
  DEF CatalogInv, ReaderHoldsLock, RefreshBesideLoaded, ColdFetchOnce, Reading

\* Every step of the catalogue keeps the invariant.
LEMMA CatalogStep == CatalogInv /\ [CatalogNext]_catalogVars => CatalogInv'
<1> SUFFICES ASSUME CatalogInv, [CatalogNext]_catalogVars PROVE CatalogInv'
  OBVIOUS
<1> USE ModelCatalogAssumption
<1>0. Beside \in Loaders /\ Requests \subseteq Loaders /\ Beside \notin Requests
      /\ NoDocument \notin Loaders
  BY DEF Loaders
<1>1. CASE UNCHANGED catalogVars
  BY <1>1 DEF catalogVars, CatalogInv, CatalogTypeOK, ReaderHoldsLock,
              RefreshBesideLoaded, ColdFetchOnce, Reading, Loaded
<1>2. ASSUME NEW r \in Requests, Snapshot(r) PROVE CatalogInv'
  <2>1. CASE Loaded
    <3>1. wait' = [wait EXCEPT ![Beside] = [wait[Beside] EXCEPT !.stage = "queued"]]
      BY <1>2, <2>1 DEF Snapshot
    <3>2. /\ wait' \in [Loaders -> CatalogWaits]
          /\ wait'[Beside].stage = "queued"
          /\ \A v \in Loaders : v # Beside => wait'[v] = wait[v]
      <4>1. wait[Beside] \in CatalogWaits
        BY <1>0 DEF CatalogInv, CatalogTypeOK
      <4>2. /\ [wait[Beside] EXCEPT !.stage = "queued"] \in CatalogWaits
            /\ [wait[Beside] EXCEPT !.stage = "queued"].stage = "queued"
        BY <4>1, StageMoves
      <4> QED BY <1>0, <3>1, <4>2, OneMoves DEF CatalogInv
    <3>3. refreshing' = TRUE /\ UNCHANGED <<published, diskCopy, memoryCopy, loadLock>>
      BY <1>2, <2>1 DEF Snapshot
    <3> QED
      BY <1>0, <2>1, <3>2, <3>3
      DEF CatalogInv, CatalogTypeOK, ReaderHoldsLock, RefreshBesideLoaded, ColdFetchOnce,
          Reading, Loaded
  <2>2. CASE ~Loaded
    <3>1. wait' = [wait EXCEPT ![r] = [wait[r] EXCEPT !.stage = "queued"]]
      BY <1>2, <2>2 DEF Snapshot
    <3>2. /\ wait' \in [Loaders -> CatalogWaits]
          /\ wait'[r].stage = "queued"
          /\ \A v \in Loaders : v # r => wait'[v] = wait[v]
      <4>1. wait[r] \in CatalogWaits
        BY <1>0 DEF CatalogInv, CatalogTypeOK
      <4>2. /\ [wait[r] EXCEPT !.stage = "queued"] \in CatalogWaits
            /\ [wait[r] EXCEPT !.stage = "queued"].stage = "queued"
        BY <4>1, StageMoves
      <4> QED BY <1>0, <3>1, <4>2, OneMoves DEF CatalogInv
    <3>3. UNCHANGED <<published, diskCopy, memoryCopy, loadLock, refreshing>>
      BY <1>2, <2>2 DEF Snapshot
    <3> QED
      BY <1>0, <3>2, <3>3
      DEF CatalogInv, CatalogTypeOK, ReaderHoldsLock, RefreshBesideLoaded, ColdFetchOnce,
          Reading, Loaded
  <2> QED BY <2>1, <2>2
<1>3. ASSUME NEW w \in Loaders, TakeLoadLock(w) PROVE CatalogInv'
  <2>1. wait[w] \in CatalogWaits /\ NoDocument \in Documents /\ FALSE \in BOOLEAN
    BY DEF CatalogInv, CatalogTypeOK, Documents
  <2>2. \A v \in Loaders : ~Reading(v)
    BY <1>0, <1>3 DEF TakeLoadLock, CatalogInv, ReaderHoldsLock
  <2>3. UNCHANGED <<published, diskCopy, memoryCopy, refreshing>> /\ wait[w].stage = "queued"
    BY <1>3 DEF TakeLoadLock
  <2>4. CASE AlreadyLoaded(w)
    <3>1. wait' = [wait EXCEPT ![w] = AtRest] /\ UNCHANGED loadLock
      BY <1>3, <2>4 DEF TakeLoadLock
    <3>2. /\ wait' \in [Loaders -> CatalogWaits]
          /\ wait'[w].stage = "idle"
          /\ \A v \in Loaders : v # w => wait'[v] = wait[v]
      BY <2>1, <3>1, OneMoves, WaitTypes DEF CatalogInv, AtRest
    <3> QED
      BY <1>0, <2>2, <2>3, <3>1, <3>2
      DEF CatalogInv, CatalogTypeOK, ReaderHoldsLock, RefreshBesideLoaded, ColdFetchOnce,
          Reading, Loaded
  <2>5. CASE ~AlreadyLoaded(w)
    <3>1. wait' = [wait EXCEPT ![w] = [wait[w] EXCEPT !.stage = "loading"]] /\ loadLock' = w
      BY <1>3, <2>5 DEF TakeLoadLock
    <3>2. /\ wait' \in [Loaders -> CatalogWaits]
          /\ wait'[w].stage = "loading"
          /\ \A v \in Loaders : v # w => wait'[v] = wait[v]
      <4>1. wait[w] \in CatalogWaits
        BY <1>0 DEF CatalogInv, CatalogTypeOK
      <4>2. /\ [wait[w] EXCEPT !.stage = "loading"] \in CatalogWaits
            /\ [wait[w] EXCEPT !.stage = "loading"].stage = "loading"
        BY <4>1, StageMoves
      <4> QED BY <1>0, <3>1, <4>2, OneMoves DEF CatalogInv
    <3>3. w \in Requests => ~Loaded /\ ~refreshing
      BY <2>5 DEF AlreadyLoaded, CatalogInv, RefreshBesideLoaded
    <3> QED
      BY <1>0, <2>2, <2>3, <3>1, <3>2, <3>3
      DEF CatalogInv, CatalogTypeOK, ReaderHoldsLock, RefreshBesideLoaded, ColdFetchOnce,
          Reading, Loaded
  <2> QED BY <2>4, <2>5
<1>4. ASSUME NEW w \in Loaders,
             FetchCopy(w) \/ \E written \in BOOLEAN : FetchLive(w, written)
      PROVE  CatalogInv'
  <2>1. PICK d \in Documents, live \in BOOLEAN :
           wait' = [wait EXCEPT ![w] = [stage |-> "fetched", document |-> d, live |-> live]]
    <3>1. diskCopy \in Documents /\ published \in Documents
      BY DEF CatalogInv, CatalogTypeOK, Documents
    <3> QED BY <1>4, <3>1, Zenon DEF FetchCopy, FetchLive
  <2>2. /\ diskCopy' \in Documents
        /\ wait[w].stage = "loading"
        /\ UNCHANGED <<published, memoryCopy, loadLock, refreshing>>
    BY <1>4 DEF FetchCopy, FetchLive, CatalogInv, CatalogTypeOK, Documents
  <2>3. wait[w] \in CatalogWaits
    BY DEF CatalogInv, CatalogTypeOK
  <2>4. /\ wait' \in [Loaders -> CatalogWaits]
        /\ wait'[w].stage = "fetched"
        /\ \A v \in Loaders : v # w => wait'[v] = wait[v]
    BY <2>1, <2>3, OneMoves, WaitTypes DEF CatalogInv
  <2> QED
    BY <1>0, <2>2, <2>4
    DEF CatalogInv, CatalogTypeOK, ReaderHoldsLock, RefreshBesideLoaded, ColdFetchOnce,
        Reading, Loaded
<1>5. ASSUME NEW w \in Loaders, EndLoad(w) PROVE CatalogInv'
  <2>1. wait[w] \in CatalogWaits /\ NoDocument \in Documents /\ FALSE \in BOOLEAN
    BY DEF CatalogInv, CatalogTypeOK, Documents
  <2>2. /\ wait' \in [Loaders -> CatalogWaits]
        /\ wait'[w].stage = "idle"
        /\ \A v \in Loaders : v # w => wait'[v] = wait[v]
    BY <1>5, <2>1, OneMoves, WaitTypes DEF EndLoad, CatalogInv, AtRest
  <2>3. loadLock = w /\ \A v \in Loaders : ~Reading(v)'
    BY <1>5, <2>2 DEF EndLoad, CatalogInv, Reading, ReaderHoldsLock
  <2>4. memoryCopy' \in Copies /\ (Loaded => Loaded')
    BY <1>5, LoadKeeps DEF EndLoad, CatalogInv, Loaded
  <2>5. (wait'[Beside].stage # "idle" => refreshing') /\ (refreshing' => refreshing)
        /\ refreshing' \in BOOLEAN
    BY <1>0, <1>5, <2>2 DEF EndLoad, CatalogInv, CatalogTypeOK, RefreshBesideLoaded
  <2>6. UNCHANGED <<published, diskCopy>> /\ loadLock' = NoDocument
    BY <1>5 DEF EndLoad
  <2> QED
    BY <1>0, <2>2, <2>3, <2>4, <2>5, <2>6
    DEF CatalogInv, CatalogTypeOK, ReaderHoldsLock, RefreshBesideLoaded, ColdFetchOnce,
        Reading
<1>6. CASE CatalogAges
  <2>1. CatalogTypeOK' /\ memoryCopy'.document = memoryCopy.document
    BY <1>6 DEF CatalogAges, CatalogInv, CatalogTypeOK, Copies
  <2> QED
    BY <1>6, <2>1
    DEF CatalogAges, CatalogInv, ReaderHoldsLock, RefreshBesideLoaded, ColdFetchOnce,
        Reading, Loaded
<1>7. CASE NewDocument
  BY <1>7 DEF NewDocument, CatalogInv, CatalogTypeOK, ReaderHoldsLock,
              RefreshBesideLoaded, ColdFetchOnce, Reading, Loaded
<1>8. CASE CatalogRestart
  <2>1. CatalogTypeOK' /\ \A v \in Loaders : wait'[v].stage = "idle"
    BY <1>0, <1>8
        DEF CatalogRestart, AtRest, Unloaded, Documents, Copies, CatalogWaits, CatalogInv, CatalogTypeOK
  <2> QED
    BY <1>0, <1>8, <2>1
    DEF CatalogRestart, CatalogInv, ReaderHoldsLock, RefreshBesideLoaded, ColdFetchOnce,
        Reading
<1> QED
  BY <1>1, <1>2, <1>3, <1>4, <1>5, <1>6, <1>7, <1>8 DEF CatalogNext

\* For any requests, documents and restarts, a request that reads the
\* catalogue document does so while nothing is loaded and no refresh runs
\* (snapshot and load of model_catalog/mod.rs).
THEOREM FetchedOnce == CatalogSpec => []ColdFetchOnce
<1>1. CatalogSpec => []CatalogInv
  BY CatalogStarts, CatalogStep, PTL DEF CatalogSpec
<1>2. CatalogInv => ColdFetchOnce
  BY DEF CatalogInv
<1> QED
  BY <1>1, <1>2, PTL

-----------------------------------------------------------------------------
(***************************************************************************)
(* Readiness (Readiness). A question that listens was registered before it *)
(* read, so the answer it read still stands unless it is woken.            *)
(***************************************************************************)

\* What a question, a report and a call can be.
QuestionStages == {"idle", "listening", "read", "waiting"}
Reports == [kind : {"pending", "interim", "full"}, ready : BOOLEAN, ok : BOOLEAN]
NotifiedParts == [report : Reports, passed : {"none", "ok", "failed"}, standing : SUBSET Calls]
Answers == [notified : NotifiedParts, servable : BOOLEAN, refused : SUBSET Calls]
Waits == [stage : QuestionStages, woken : BOOLEAN, after : SUBSET Answers]
CallStages == {"none", "standing", "stale", "ended"}

\* The types of the report, the sweeps, the calls, the questions and the watcher.
ReadinessTyped ==
    /\ report \in Reports
    /\ sweep \in [Sweeps -> {"idle", "providers"} \cup Findings]
    /\ passed \in {"none", "ok", "failed"}
    /\ servable \in BOOLEAN
    /\ call \in [Calls -> CallStages]
    /\ question \in [Questions -> Waits]
    /\ watcher \in [stage : {"armed", "waiting"}, woken : BOOLEAN, timed : BOOLEAN]

\* A question that has read its answer and was not woken since named what
\* is still notified.
ReadStands(q) ==
    question[q].stage \in {"read", "waiting"} /\ ~question[q].woken =>
        \A named \in question[q].after : named.notified = Notified

\* A watcher that waits beside a call under way has set its timer.
TimerSet == watcher.stage = "waiting" /\ ~watcher.woken /\ Unended # {} => watcher.timed

\* The inductive invariant of readiness.
ReadinessInv ==
    /\ ReadinessTyped
    /\ \A q \in Questions : ReadStands(q)
    /\ TimerSet

\* CHANGED leaves every question that has read its answer woken.
LEMMA ChangedWakes ==
    ASSUME ReadinessInv, Changed
    PROVE  /\ question' \in [Questions -> Waits]
           /\ \A q \in Questions : ReadStands(q)'
           /\ watcher' \in [stage : {"armed", "waiting"}, woken : BOOLEAN, timed : BOOLEAN]
           /\ TimerSet'
  <1>1. /\ question \in [Questions -> Waits]
        /\ watcher \in [stage : {"armed", "waiting"}, woken : BOOLEAN, timed : BOOLEAN]
    BY DEF ReadinessInv, ReadinessTyped
  <1>2. ASSUME NEW q \in Questions
        PROVE  /\ question'[q] \in Waits
               /\ question'[q].stage \in {"read", "waiting"} => question'[q].woken = TRUE
    <2> DEFINE y == question[q]
               x == IF Listens(y.stage) THEN [y EXCEPT !.woken = TRUE] ELSE y
    <2>1. y \in Waits /\ question'[q] = x
      BY <1>1 DEF Changed
    <2> HIDE DEF y
    <2>2. x \in Waits /\ (x.stage \in {"read", "waiting"} => x.woken = TRUE)
      BY <2>1 DEF Listens, Waits
    <2>. QED
      BY <2>1, <2>2
  <1>3. question' = [q \in Questions |-> question'[q]]
    BY DEF Changed
  <1>4. question' \in [Questions -> Waits]
    BY <1>2, <1>3
  <1>5. \A q \in Questions : ReadStands(q)'
    BY <1>2 DEF ReadStands
  <1>6. /\ watcher' \in [stage : {"armed", "waiting"}, woken : BOOLEAN, timed : BOOLEAN]
        /\ watcher'.woken
    BY <1>1 DEF Changed
  <1>. QED
    BY <1>4, <1>5, <1>6 DEF TimerSet

\* A step that changes no notified part, no question and no call's standing.
LEMMA ReadinessQuiet ==
    ASSUME ReadinessInv, Notified' = Notified, UNCHANGED question
    PROVE  \A q \in Questions : ReadStands(q)'
  BY DEF ReadinessInv, ReadStands

\* A reading ends what is past the measure; nothing begins or ceases to stand.
LEMMA EndStaleKeeps ==
    ASSUME ReadinessInv, call' = EndStale, UNCHANGED <<report, passed>>
    PROVE  call' \in [Calls -> CallStages] /\ Notified' = Notified /\ Unended' \subseteq Unended
  <1>1. call \in [Calls -> CallStages]
    BY DEF ReadinessInv, ReadinessTyped
  <1>2. /\ call' \in [Calls -> CallStages]
        /\ \A c \in Calls : call'[c] = IF call[c] = "stale" THEN "ended" ELSE call[c]
    BY <1>1 DEF EndStale, CallStages
  <1>3. \A c \in Calls : (call'[c] # "none") = (call[c] # "none")
    BY <1>2
  <1>4. {c \in Calls : Stands(c)}' = {c \in Calls : Stands(c)}
    BY <1>3 DEF Stands
  <1>. QED
    BY <1>2, <1>4 DEF Notified, Unended

\* An answer is typed and carries what a notification announces.
LEMMA NotifiedTyped ==
    ASSUME ReadinessInv, NEW register
    PROVE  Answer(register) \in Answers /\ Answer(register).notified = Notified
  <1>1. Notified \in NotifiedParts
    BY DEF ReadinessInv, ReadinessTyped, Notified, NotifiedParts
  <1>2. servable \in BOOLEAN
    BY DEF ReadinessInv, ReadinessTyped
  <1>. QED
    BY <1>1, <1>2 DEF Answer, Answers

\* The invariant holds at the start.
LEMMA ReadinessStarts ==
    ASSUME ReadinessInit
    PROVE  ReadinessInv
  <1>1. Asleep \in Waits /\ Asleep.stage = "idle"
    BY DEF Asleep, Waits, QuestionStages
  <1>2. Pending \in Reports /\ "none" \in CallStages
    BY DEF Pending, Reports, CallStages
  <1>3. ReadinessTyped
    BY <1>1, <1>2 DEF ReadinessInit, ReadinessTyped, Watching
  <1>4. \A q \in Questions : ReadStands(q)
    BY <1>1 DEF ReadinessInit, ReadStands
  <1>5. TimerSet
    BY DEF ReadinessInit, TimerSet, Watching
  <1>. QED
    BY <1>3, <1>4, <1>5 DEF ReadinessInv

\* Every step keeps the invariant.
LEMMA ReadinessSteps ==
    ASSUME ReadinessInv, [ReadinessNext]_readinessVars
    PROVE  ReadinessInv'
  <1>0. ReadinessTyped /\ TimerSet
    BY DEF ReadinessInv
  <1>1. ASSUME NEW s \in Sweeps, StartSweep(s)
        PROVE  ReadinessInv'
    <2>1. ReadinessTyped'
      BY <1>0, <1>1 DEF StartSweep, ReadinessTyped
    <2>2. Notified' = Notified /\ TimerSet' /\ UNCHANGED question
      BY <1>0, <1>1 DEF StartSweep, Notified, Stands, TimerSet, Unended
    <2>. QED
      BY <2>1, <2>2, ReadinessQuiet DEF ReadinessInv
  <1>2. ASSUME NEW s \in Sweeps, NEW f \in Findings, PublishInterim(s, f)
        PROVE  ReadinessInv'
    <2>1. Interim(f) \in Reports
      BY DEF Interim, Reports
    <2>2. /\ report' \in Reports /\ sweep' \in [Sweeps -> {"idle", "providers"} \cup Findings]
          /\ UNCHANGED <<passed, servable, call>> /\ Changed
      BY <1>0, <1>2, <2>1 DEF PublishInterim, ReadinessTyped
    <2>. QED
      BY <1>0, <2>2, ChangedWakes DEF ReadinessInv, ReadinessTyped
  <1>3. ASSUME NEW s \in Sweeps, NEW f \in Findings, PublishFull(s, f)
        PROVE  ReadinessInv'
    <2>1. Verdict(sweep[s], f) \in Reports
      BY DEF Verdict, Reports
    <2>2. /\ report' \in Reports /\ sweep' \in [Sweeps -> {"idle", "providers"} \cup Findings]
          /\ UNCHANGED <<passed, servable, call>> /\ Changed
      BY <1>0, <1>3, <2>1 DEF PublishFull, ReadinessTyped
    <2>. QED
      BY <1>0, <2>2, ChangedWakes DEF ReadinessInv, ReadinessTyped
  <1>4. ASSUME NEW ended \in {"ok", "failed"}, RecordMaintenance(ended)
        PROVE  ReadinessInv'
    <2>1. /\ passed' \in {"none", "ok", "failed"} /\ UNCHANGED <<report, sweep, servable, call>>
          /\ Changed
      BY <1>4 DEF RecordMaintenance
    <2>. QED
      BY <1>0, <2>1, ChangedWakes DEF ReadinessInv, ReadinessTyped
  <1>5. ASSUME PoolChanges
        PROVE  ReadinessInv'
    <2>1. ReadinessTyped'
      BY <1>0, <1>5 DEF PoolChanges, ReadinessTyped
    <2>2. Notified' = Notified /\ TimerSet' /\ UNCHANGED question
      BY <1>0, <1>5 DEF PoolChanges, Notified, Stands, TimerSet, Unended
    <2>. QED
      BY <2>1, <2>2, ReadinessQuiet DEF ReadinessInv
  <1>6. ASSUME NEW c \in Calls, BeginCall(c) \/ DropCall(c)
        PROVE  ReadinessInv'
    <2>1. /\ call' \in [Calls -> CallStages] /\ UNCHANGED <<report, sweep, passed, servable>>
          /\ Changed
      BY <1>0, <1>6 DEF BeginCall, DropCall, ReadinessTyped, CallStages
    <2>. QED
      BY <1>0, <2>1, ChangedWakes DEF ReadinessInv, ReadinessTyped
  <1>7. ASSUME NEW c \in Calls, CallStale(c)
        PROVE  ReadinessInv'
    <2>1. /\ call \in [Calls -> CallStages] /\ call[c] = "standing"
          /\ call' = [call EXCEPT ![c] = "stale"]
          /\ UNCHANGED <<report, sweep, passed, servable, question, watcher>>
      BY <1>0, <1>7 DEF CallStale, ReadinessTyped
    <2>2. call' \in [Calls -> CallStages]
      BY <2>1 DEF CallStages
    <2>3. \A d \in Calls : (call'[d] # "none") = (call[d] # "none")
      BY <2>1
    <2>4. {d \in Calls : Stands(d)}' = {d \in Calls : Stands(d)}
      BY <2>3 DEF Stands
    <2>5. Unended' = Unended
      BY <2>1 DEF Unended
    <2>6. Notified' = Notified
      BY <2>1, <2>4 DEF Notified
    <2>7. ReadinessTyped' /\ TimerSet'
      BY <1>0, <2>1, <2>2, <2>5 DEF ReadinessTyped, TimerSet
    <2>. QED
      BY <2>1, <2>6, <2>7, ReadinessQuiet DEF ReadinessInv
  <1>8. ASSUME NEW q \in Questions, Listen(q) \/ ReadAnswer(q)
        PROVE  ReadinessInv'
    <2>1. /\ call' = EndStale /\ UNCHANGED <<report, sweep, passed, servable, watcher>>
      BY <1>8 DEF Listen, ReadAnswer
    <2>2. call' \in [Calls -> CallStages] /\ Notified' = Notified /\ Unended' \subseteq Unended
      BY <2>1, EndStaleKeeps
    <2> DEFINE a == Answer(EndStale)
               y == question[q]
               z == [stage |-> "listening", woken |-> FALSE, after |-> {a}]
               u == [y EXCEPT !.stage = "read"]
    <2>3. a \in Answers /\ a.notified = Notified
      BY NotifiedTyped
    <2>4. y \in Waits /\ Asleep \in Waits /\ Asleep.stage = "idle"
      BY <1>0 DEF ReadinessTyped, Asleep, Waits, QuestionStages
    <2>5. PICK x : /\ question' = [question EXCEPT ![q] = x]
                   /\ \/ x = z
                      \/ x = Asleep
                      \/ x = u /\ y.after = {a}
      BY <1>8 DEF Listen, ReadAnswer
    <2> HIDE DEF a, y
    <2>6. z \in Waits /\ z.stage = "listening"
      BY <2>3 DEF Waits, QuestionStages
    <2>7. u \in Waits /\ u.after = y.after
      BY <2>4 DEF Waits, QuestionStages
    <2> HIDE DEF z, u
    <2>8. x \in Waits /\ (x.stage \in {"read", "waiting"} => x.after = {a})
      BY <2>4, <2>5, <2>6, <2>7
    <2>9. question' \in [Questions -> Waits] /\ question'[q] = x
          /\ \A s \in Questions \ {q} : question'[s] = question[s]
      BY <1>0, <2>5, <2>8 DEF ReadinessTyped
    <2>10. \A s \in Questions : ReadStands(s)'
      BY <2>2, <2>3, <2>8, <2>9 DEF ReadinessInv, ReadStands
    <2>11. ReadinessTyped' /\ TimerSet'
      BY <1>0, <2>1, <2>2, <2>9 DEF ReadinessTyped, TimerSet
    <2>. QED
      BY <2>10, <2>11 DEF ReadinessInv
  <1>9. ASSUME NEW q \in Questions, WaitForChange(q) \/ WakeQuestion(q)
        PROVE  ReadinessInv'
    <2> DEFINE y == question[q]
               u == [y EXCEPT !.stage = "waiting"]
               z == [y EXCEPT !.stage = "listening", !.woken = FALSE]
    <2>1. y \in Waits /\ question \in [Questions -> Waits]
      BY <1>0 DEF ReadinessTyped
    <2>2. UNCHANGED <<report, sweep, passed, servable, call, watcher>>
      BY <1>9 DEF WaitForChange, WakeQuestion
    <2>3. PICK x : /\ question' = [question EXCEPT ![q] = x]
                   /\ (x = u /\ y.stage = "read") \/ x = z
      BY <1>9, <2>1 DEF WaitForChange, WakeQuestion, Waits
    <2>4. ReadStands(q) /\ y = question[q]
      BY DEF ReadinessInv
    <2> HIDE DEF y
    <2>5. u \in Waits /\ u.stage = "waiting" /\ u.woken = y.woken /\ u.after = y.after
      BY <2>1 DEF Waits, QuestionStages
    <2>6. z \in Waits /\ z.stage = "listening"
      BY <2>1 DEF Waits, QuestionStages
    <2> HIDE DEF u, z
    <2>7. question' \in [Questions -> Waits] /\ question'[q] = x
          /\ \A s \in Questions \ {q} : question'[s] = question[s]
      BY <2>1, <2>3, <2>5, <2>6
    <2>8. Notified' = Notified /\ Unended' = Unended
      BY <2>2 DEF Notified, Stands, Unended
    <2>9. ReadStands(q)'
      BY <2>3, <2>4, <2>5, <2>6, <2>7, <2>8 DEF ReadStands
    <2>10. \A s \in Questions : ReadStands(s)'
      BY <2>7, <2>8, <2>9 DEF ReadinessInv, ReadStands
    <2>11. ReadinessTyped' /\ TimerSet'
      BY <1>0, <2>2, <2>7, <2>8 DEF ReadinessTyped, TimerSet
    <2>. QED
      BY <2>10, <2>11 DEF ReadinessInv
  <1>10. ASSUME WatchWaits
         PROVE  ReadinessInv'
    <2>1. /\ watcher' = [watcher EXCEPT !.stage = "waiting", !.timed = Unended # {}]
          /\ UNCHANGED <<report, sweep, passed, servable, call, question>>
      BY <1>10 DEF WatchWaits
    <2>2. /\ watcher' \in [stage : {"armed", "waiting"}, woken : BOOLEAN, timed : BOOLEAN]
          /\ watcher'.timed = (Unended # {})
      BY <1>0, <2>1 DEF ReadinessTyped
    <2>3. Notified' = Notified /\ Unended' = Unended
      BY <2>1 DEF Notified, Stands, Unended
    <2>4. ReadinessTyped' /\ TimerSet'
      BY <1>0, <2>1, <2>2, <2>3 DEF ReadinessTyped, TimerSet
    <2>. QED
      BY <2>1, <2>3, <2>4, ReadinessQuiet DEF ReadinessInv
  <1>11. ASSUME WatchReads
         PROVE  ReadinessInv'
    <2>1. /\ call' = EndStale /\ watcher' = Watching
          /\ UNCHANGED <<report, sweep, passed, servable, question>>
      BY <1>11 DEF WatchReads
    <2>2. call' \in [Calls -> CallStages] /\ Notified' = Notified
      BY <2>1, EndStaleKeeps
    <2>3. ReadinessTyped' /\ TimerSet'
      BY <1>0, <2>1, <2>2 DEF ReadinessTyped, TimerSet, Watching
    <2>. QED
      BY <2>1, <2>2, <2>3, ReadinessQuiet DEF ReadinessInv
  <1>12. CASE UNCHANGED readinessVars
    <2>1. ReadinessTyped' /\ TimerSet' /\ Notified' = Notified /\ UNCHANGED question
      BY <1>0, <1>12 DEF readinessVars, ReadinessTyped, TimerSet, Unended, Notified, Stands
    <2>. QED
      BY <2>1, ReadinessQuiet DEF ReadinessInv
  <1>. QED
    BY <1>1, <1>2, <1>3, <1>4, <1>5, <1>6, <1>7, <1>8, <1>9, <1>10, <1>11, <1>12
       DEF ReadinessNext

\* Whatever sweeps, passes, calls and questions do between a question's
\* reading and its wait, a question that nothing woke waits on what it named,
\* and the loop that ends calls has a timer while it has one to end.
THEOREM ChangeNotSleptThrough == ReadinessSpec => []NoChangeSleptThrough
  <1>1. ReadinessInv => NoChangeSleptThrough
    BY DEF ReadinessInv, ReadStands, TimerSet, NoChangeSleptThrough
  <1>. QED
    BY <1>1, ReadinessStarts, ReadinessSteps, PTL DEF ReadinessSpec

-----------------------------------------------------------------------------
(***************************************************************************)
(* The framer (SseFrames), against the reference reading of the format.    *)
(* Both are walks over the text defined by recursion on the place in it,   *)
(* so the section begins with induction: the property becomes the set of   *)
(* the places it holds at, which needs no operator as a parameter, and     *)
(* what that set leaves out would have a least element.                    *)
(***************************************************************************)

(***************************************************************************)
(* A set of naturals has a least element.                                  *)
(***************************************************************************)
LEMMA LeastNatural ==
    ASSUME NEW T, T \subseteq Nat, T # {}
    PROVE  \E x \in T : \A y \in T : x <= y
<1>1. PICK x \in T : \A y \in T : ~(<<y, x>> \in OpToRel(<, Nat))
  BY NatLessThanWellFounded, WFMin
<1>2. ASSUME NEW y \in T PROVE x <= y
  <2>1. x \in Nat /\ y \in Nat
    OBVIOUS
  <2>2. ~(y < x)
    BY <1>1, <2>1 DEF OpToRel
  <2> QED
    BY <2>1, <2>2
<1> QED
  BY <1>2

(***************************************************************************)
(* Induction up to a bound, with the property as a set.                    *)
(***************************************************************************)
LEMMA InductionTo ==
    ASSUME NEW S, NEW m \in Nat, 0 \in S, \A n \in 0..(m - 1) : n \in S => n + 1 \in S
    PROVE  \A n \in 0..m : n \in S
<1> DEFINE T == {n \in 0..m : n \notin S}
<1>1. SUFFICES ASSUME T # {} PROVE FALSE
  OBVIOUS
<1>2. T \subseteq Nat
  OBVIOUS
<1>3. PICK x \in T : \A y \in T : x <= y
  BY <1>1, <1>2, LeastNatural
<1>4. x # 0 /\ x - 1 \in 0..(m - 1)
  OBVIOUS
<1>5. x - 1 \notin T
  BY <1>3
<1> QED
  BY <1>4, <1>5

(***************************************************************************)
(* A bounded set of naturals has a greatest element.                       *)
(***************************************************************************)
LEMMA GreatestTo ==
    ASSUME NEW m \in Nat, NEW T, T \subseteq 0..m, T # {}
    PROVE  /\ LastOf(T) \in T
           /\ \A y \in T : y <= LastOf(T)
<1> DEFINE R == {n \in 0..m : m - n \in T}
<1>1. ASSUME NEW y \in T PROVE y \in Int /\ m - y \in R
  <2>1. y \in 0..m /\ m - (m - y) = y
    OBVIOUS
  <2> QED
    BY <2>1
<1>2. R \subseteq Nat
  OBVIOUS
<1>3. PICK x \in R : \A y \in R : x <= y
  <2> HIDE DEF R
  <2>1. R # {}
    BY <1>1
  <2> QED
    BY <1>2, <2>1, LeastNatural
<1>4. m - x \in T /\ x \in Int
  BY <1>3
<1>5. ASSUME NEW y \in T PROVE y <= m - x
  <2>1. x <= m - y /\ y \in Int
    BY <1>1, <1>3
  <2> QED
    BY <1>4, <2>1
<1> QED
  BY <1>4, <1>5 DEF LastOf

\* It is the only one.
LEMMA GreatestIs ==
    ASSUME NEW m \in Nat, NEW T, T \subseteq 0..m, NEW x \in T, \A y \in T : y <= x
    PROVE  LastOf(T) = x
<1>1. LastOf(T) \in T /\ \A y \in T : y <= LastOf(T)
  BY GreatestTo
<1>2. LastOf(T) \in Int /\ x \in Int
  <2>1. T \subseteq Int
    OBVIOUS
  <2> QED
    BY <1>1, <2>1, Zenon
<1>3. x <= LastOf(T) /\ LastOf(T) <= x
  BY <1>1
<1> QED
  BY <1>2, <1>3

(***************************************************************************)
(* A walk from a start, one step at a time, exists: what a definition by   *)
(* recursion on the place in a text needs.                                 *)
(***************************************************************************)
Walks(g, m, S, a, step) ==
    g \in [0..m -> S] /\ g[0] = a /\ \A n \in 1..m : g[n] = step[n][g[n - 1]]

LEMMA WalkExists ==
    ASSUME NEW m \in Nat, NEW S, NEW a \in S, NEW step \in [1..m -> [S -> S]]
    PROVE  \E g : Walks(g, m, S, a, step)
<1> DEFINE Walk(g, k) == g[0] = a /\ \A n \in 1..k : g[n] = step[n][g[n - 1]]
           P == {k \in Nat : \E g \in [0..k -> S] : Walk(g, k)}
<1>1. 0 \in P
  <2>1. [n \in 0..0 |-> a] \in [0..0 -> S] /\ Walk([n \in 0..0 |-> a], 0)
    OBVIOUS
  <2> QED
    BY <2>1
<1>2. ASSUME NEW k \in 0..(m - 1), k \in P PROVE k + 1 \in P
  <2>1. PICK g \in [0..k -> S] : Walk(g, k)
    BY <1>2
  <2> DEFINE h == [n \in 0..(k + 1) |-> IF n = k + 1 THEN step[k + 1][g[k]] ELSE g[n]]
  <2>2. h \in [0..(k + 1) -> S]
    <3>1. k \in 0..k /\ k + 1 \in 1..m
      OBVIOUS
    <3>2. step[k + 1][g[k]] \in S
      BY <3>1
    <3>3. \A n \in 0..(k + 1) : n # k + 1 => n \in 0..k
      OBVIOUS
    <3> QED
      BY <3>2, <3>3
  <2>3. h[0] = a
    BY <2>1
  <2>4. ASSUME NEW n \in 1..(k + 1) PROVE h[n] = step[n][h[n - 1]]
    <3>1. CASE n = k + 1
      BY <3>1
    <3>2. CASE n \in 1..k
      BY <2>1, <3>2
    <3> QED
      BY <3>1, <3>2
  <2>5. \E f \in [0..(k + 1) -> S] : Walk(f, k + 1)
    <3>1. Walk(h, k + 1)
      BY <2>3, <2>4
    <3> HIDE DEF h, Walk
    <3> QED
      BY <2>2, <3>1, Zenon
  <2> HIDE DEF Walk
  <2>6. k + 1 \in Nat
    OBVIOUS
  <2> QED
    BY <2>5, <2>6, Zenon
<1>3. m \in P
  <2> HIDE DEF P
  <2>1. \A n \in 0..m : n \in P
    BY <1>1, <1>2, InductionTo
  <2> QED
    BY <2>1
<1> QED
  BY <1>3 DEF Walks

-----------------------------------------------------------------------------
(* The framer's walk.                                                      *)

\* What the framer keeps and yields when it reads a text.
Framers == [buffer : Seq(Chars), event : BOOLEAN, data : Seq(Seq(Chars))]
Events == [named : BOOLEAN, data : Seq(Seq(Chars))]
Walked == [f : Framers, out : Seq(Events)]

LEMMA WithLineTyped ==
    ASSUME NEW f \in Framers, NEW line \in Seq(Chars)
    PROVE  WithLine(f, line) \in Framers /\ Yielded(f, line) \in Seq(Events)
<1>1. WithLine(f, line) \in Framers
  <2>1. [f EXCEPT !.event = TRUE] \in Framers
    BY DEF Framers
  <2>2. [f EXCEPT !.event = FALSE, !.data = <<>>] \in Framers
    <3>1. ASSUME NEW x \in Seq(Seq(Chars))
          PROVE  [f EXCEPT !.event = FALSE, !.data = x] \in Framers
      BY DEF Framers
    <3> QED
      BY <3>1, EmptySeq
  <2>3. [f EXCEPT !.data = Append(@, line)] \in Framers
    <3>1. Append(f.data, line) \in Seq(Seq(Chars))
      BY DEF Framers
    <3> QED
      BY <3>1 DEF Framers
  <2> QED
    BY <2>1, <2>2, <2>3 DEF WithLine
<1>2. Yielded(f, line) \in Seq(Events)
  <2>1. [named |-> f.event, data |-> f.data] \in Events
    BY DEF Framers, Events
  <2> QED
    BY <2>1 DEF Yielded
<1> QED
  BY <1>1, <1>2

LEMMA AdvanceTyped ==
    ASSUME NEW w \in Walked, NEW c \in Chars
    PROVE  Advance(w, c) \in Walked
<1>1. w.f \in Framers /\ w.f.buffer \in Seq(Chars) /\ w.out \in Seq(Events)
  BY DEF Walked, Framers
<1>2. CASE c # "end"
  <2>1. [w.f EXCEPT !.buffer = Append(@, c)] \in Framers
    <3>1. Append(w.f.buffer, c) \in Seq(Chars)
      BY <1>1
    <3> QED
      BY <1>1, <3>1 DEF Framers
  <2> QED
    BY <1>1, <1>2, <2>1 DEF Advance, Walked
<1>3. CASE c = "end"
  <2>1. WithLine(w.f, w.f.buffer) \in Framers /\ Yielded(w.f, w.f.buffer) \in Seq(Events)
    BY <1>1, WithLineTyped
  <2>2. ASSUME NEW f \in Framers PROVE [f EXCEPT !.buffer = <<>>] \in Framers
    <3>1. ASSUME NEW x \in Seq(Chars) PROVE [f EXCEPT !.buffer = x] \in Framers
      BY DEF Framers
    <3> QED
      BY <3>1, EmptySeq
  <2>3. w.out \o Yielded(w.f, w.f.buffer) \in Seq(Events)
    BY <1>1, <2>1
  <2> QED
    BY <1>3, <2>1, <2>2, <2>3 DEF Advance, Walked
<1> QED
  BY <1>2, <1>3

LEMMA FeedWalks ==
    ASSUME NEW f \in Framers, NEW chars \in Seq(Chars)
    PROVE  /\ FeedWalk(f, chars) \in [0..Len(chars) -> Walked]
           /\ FeedWalk(f, chars)[0] = [f |-> f, out |-> <<>>]
           /\ \A n \in 1..Len(chars) :
                 FeedWalk(f, chars)[n] = Advance(FeedWalk(f, chars)[n - 1], chars[n])
<1> DEFINE m == Len(chars)
           a == [f |-> f, out |-> <<>>]
           G(g) == g = [n \in 0..m |-> IF n = 0 THEN a ELSE Advance(g[n - 1], chars[n])]
           W == FeedWalk(f, chars)
<1>1. m \in Nat /\ a \in Walked /\ \A n \in 1..m : chars[n] \in Chars
  BY DEF Walked
<1> HIDE DEF m, a
<1>2. \E g : G(g)
  <2> DEFINE step == [n \in 1..m |-> [w \in Walked |-> Advance(w, chars[n])]]
  <2>1. step \in [1..m -> [Walked -> Walked]]
    BY <1>1, AdvanceTyped
  <2>2. \A n \in 1..m : \A w \in Walked : step[n][w] = Advance(w, chars[n])
    OBVIOUS
  <2> HIDE DEF step
  <2>3. PICK g : Walks(g, m, Walked, a, step)
    BY <1>1, <2>1, WalkExists
  <2>4. g \in [0..m -> Walked] /\ g[0] = a /\ \A n \in 1..m : g[n] = step[n][g[n - 1]]
    BY <2>3 DEF Walks
  <2>5. ASSUME NEW n \in 0..m
        PROVE  g[n] = IF n = 0 THEN a ELSE Advance(g[n - 1], chars[n])
    <3>1. CASE n = 0
      BY <2>4, <3>1
    <3>2. CASE n \in 1..m
      <4>1. g[n - 1] \in Walked
        BY <1>1, <2>4, <3>2
      <4> QED
        BY <2>2, <2>4, <3>2, <4>1
    <3> QED
      BY <1>1, <3>1, <3>2
  <2>6. G(g)
    BY <2>4, <2>5
  <2> QED
    BY <2>6
<1>3. W = CHOOSE g : G(g)
  BY DEF FeedWalk, m, a
<1>4. G(W)
  <2> HIDE DEF G, W
  <2> QED
    BY <1>2, <1>3
<1>5. W[0] = a /\ \A n \in 1..m : W[n] = Advance(W[n - 1], chars[n])
  <2> HIDE DEF W
  <2> QED
    BY <1>1, <1>4
<1>6. \A n \in 0..m : W[n] \in Walked
  <2> HIDE DEF W
  <2> DEFINE P == {n \in Nat : W[n] \in Walked}
  <2>1. 0 \in P
    BY <1>1, <1>5
  <2>2. ASSUME NEW n \in 0..(m - 1), n \in P PROVE n + 1 \in P
    <3>1. n + 1 \in 1..m /\ (n + 1) - 1 = n
      BY <1>1
    <3>2. W[n + 1] = Advance(W[n], chars[n + 1])
      BY <1>5, <3>1
    <3> QED
      BY <1>1, <2>2, <3>1, <3>2, AdvanceTyped
  <2>3. \A n \in 0..m : n \in P
    <3> HIDE DEF P
    <3> QED
      BY <1>1, <2>1, <2>2, InductionTo
  <2> QED
    BY <2>3
<1> QED
  <2>1. W \in [0..m -> Walked]
    <3> HIDE DEF W
    <3> QED
      BY <1>4, <1>6
  <2> QED
    BY <1>5, <2>1 DEF m, a

-----------------------------------------------------------------------------
(* The lines of a text.                                                    *)

LEMMA SubSeqGrows ==
    ASSUME NEW s \in Seq(Chars), NEW i \in 1..Len(s), NEW n \in i..Len(s)
    PROVE  SubSeq(s, i, n) = Append(SubSeq(s, i, n - 1), s[n])
<1> DEFINE a == SubSeq(s, i, n)
           b == SubSeq(s, i, n - 1)
<1>1. /\ a \in Seq(Chars) /\ Len(a) = n - i + 1 /\ \A k \in 1..(n - i + 1) : a[k] = s[i + k - 1]
      /\ b \in Seq(Chars) /\ Len(b) = n - i /\ \A k \in 1..(n - i) : b[k] = s[i + k - 1]
  OBVIOUS
<1>2. i \in Nat /\ n \in Nat /\ i <= n /\ Len(s) \in Nat /\ s[n] \in Chars
  OBVIOUS
<1> HIDE DEF a, b
<1>3. /\ Append(b, s[n]) \in Seq(Chars) /\ Len(Append(b, s[n])) = n - i + 1
      /\ \A k \in 1..(n - i) : Append(b, s[n])[k] = b[k]
      /\ Append(b, s[n])[n - i + 1] = s[n]
  <2>1. /\ Append(b, s[n]) \in Seq(Chars) /\ Len(Append(b, s[n])) = Len(b) + 1
        /\ \A k \in 1..Len(b) : Append(b, s[n])[k] = b[k]
        /\ Append(b, s[n])[Len(b) + 1] = s[n]
    BY <1>1, <1>2, AppendProperties
  <2> QED
    BY <1>1, <1>2, <2>1
<1>4. ASSUME NEW k \in 1..(n - i + 1) PROVE a[k] = Append(b, s[n])[k]
  <2>1. CASE k = n - i + 1
    BY <1>1, <1>2, <1>3, <2>1
  <2>2. CASE k \in 1..(n - i)
    BY <1>1, <1>2, <1>3, <2>2
  <2>3. k = n - i + 1 \/ k \in 1..(n - i)
    BY <1>2
  <2> QED
    BY <2>1, <2>2, <2>3, Zenon
<1>5. a = Append(b, s[n])
  BY <1>1, <1>3, <1>4, SeqEqual
<1> QED
  BY <1>5 DEF a, b

\* Where the line that stands before n begins, and where the last blank ended.
LineStart(chars, n) == LastOf({0} \cup {m \in LineEnds(chars) : m < n})

LEMMA LineStarts ==
    ASSUME NEW chars \in Seq(Chars), NEW n \in 1..(Len(chars) + 1)
    PROVE  /\ LineStart(chars, n) \in 0..(n - 1)
           /\ LineBefore(chars, n) = SubSeq(chars, LineStart(chars, n) + 1, n - 1)
           /\ LineBefore(chars, n) \in Seq(Chars)
<1> DEFINE T == {0} \cup {m \in LineEnds(chars) : m < n}
<1>1. T \subseteq 0..(n - 1) /\ T # {} /\ n - 1 \in Nat
  BY DEF LineEnds
<1>2. LineStart(chars, n) \in 0..(n - 1)
  <2> HIDE DEF T
  <2>1. LastOf(T) \in T
    BY <1>1, GreatestTo
  <2>2. LineStart(chars, n) = LastOf(T)
    BY DEF LineStart, T
  <2> QED
    BY <1>1, <2>1, <2>2
<1>3. LineBefore(chars, n) = SubSeq(chars, LineStart(chars, n) + 1, n - 1)
  BY DEF LineBefore, LineStart
<1>4. LineBefore(chars, n) \in Seq(Chars)
  BY <1>2, <1>3
<1> QED
  BY <1>2, <1>3, <1>4

LEMMA LineGrows ==
    ASSUME NEW chars \in Seq(Chars), NEW n \in 1..Len(chars)
    PROVE  LineBefore(chars, n + 1) =
              IF chars[n] = "end" THEN <<>> ELSE Append(LineBefore(chars, n), chars[n])
<1>1. n \in 1..(Len(chars) + 1) /\ n + 1 \in 1..(Len(chars) + 1) /\ (n + 1) - 1 = n
  OBVIOUS
<1>2. LineBefore(chars, n + 1) = SubSeq(chars, LineStart(chars, n + 1) + 1, n)
  BY <1>1, LineStarts
<1>3. CASE chars[n] = "end"
  <2> DEFINE T == {0} \cup {m \in LineEnds(chars) : m < n + 1}
  <2>1. T \subseteq 0..n /\ n \in T /\ n \in Nat /\ \A m \in T : m <= n
    BY <1>3 DEF LineEnds
  <2>2. LastOf(T) = n
    <3> HIDE DEF T
    <3> QED
      BY <2>1, GreatestIs
  <2>3. LineStart(chars, n + 1) = n
    BY <2>2 DEF LineStart
  <2> QED
    BY <1>2, <1>3, <2>3
<1>4. CASE chars[n] # "end"
  <2>1. \A m \in LineEnds(chars) : m < n + 1 <=> m < n
    BY <1>4 DEF LineEnds
  <2>2. {m \in LineEnds(chars) : m < n + 1} = {m \in LineEnds(chars) : m < n}
    BY <2>1
  <2>3. LineStart(chars, n + 1) = LineStart(chars, n)
    BY <2>2 DEF LineStart
  <2>4. /\ LineStart(chars, n) \in 0..(n - 1)
        /\ LineBefore(chars, n) = SubSeq(chars, LineStart(chars, n) + 1, n - 1)
    BY <1>1, LineStarts
  <2>5. LineStart(chars, n) + 1 \in 1..Len(chars) /\ n \in (LineStart(chars, n) + 1)..Len(chars)
    BY <2>4
  <2> QED
    BY <1>2, <1>4, <2>3, <2>4, <2>5, SubSeqGrows
<1> QED
  BY <1>3, <1>4

LEMMA BlankMoves ==
    ASSUME NEW chars \in Seq(Chars), NEW n \in 1..Len(chars)
    PROVE  BlankBefore(chars, n + 1) =
              IF chars[n] = "end" /\ LineBefore(chars, n) = <<>> THEN n ELSE BlankBefore(chars, n)
<1> DEFINE B(k) == {m \in LineEnds(chars) : m < k /\ LineBefore(chars, m) = <<>>}
<1>1. CASE chars[n] = "end" /\ LineBefore(chars, n) = <<>>
  <2> DEFINE T == {0} \cup B(n + 1)
  <2>1. T \subseteq 0..n /\ n \in T /\ n \in Nat /\ \A m \in T : m <= n
    BY <1>1 DEF LineEnds
  <2>2. LastOf(T) = n
    <3> HIDE DEF T
    <3> QED
      BY <2>1, GreatestIs
  <2> QED
    BY <1>1, <2>2 DEF BlankBefore
<1>2. CASE ~(chars[n] = "end" /\ LineBefore(chars, n) = <<>>)
  <2>1. ASSUME NEW m \in LineEnds(chars), LineBefore(chars, m) = <<>>
        PROVE  m < n + 1 <=> m < n
    BY <1>2, <2>1 DEF LineEnds
  <2>2. B(n + 1) = B(n)
    BY <2>1
  <2> QED
    BY <1>2, <2>2 DEF BlankBefore
<1> QED
  BY <1>1, <1>2

LEMMA BlankBehind ==
    ASSUME NEW chars \in Seq(Chars), NEW n \in 1..(Len(chars) + 1)
    PROVE  BlankBefore(chars, n) \in 0..(n - 1)
<1> DEFINE T == {0} \cup {m \in LineEnds(chars) : m < n /\ LineBefore(chars, m) = <<>>}
<1>1. T \subseteq 0..(n - 1) /\ T # {} /\ n - 1 \in Nat
  BY DEF LineEnds
<1>2. BlankBefore(chars, n) = LastOf(T)
  BY DEF BlankBefore
<1> HIDE DEF T
<1>3. LastOf(T) \in T
  BY <1>1, GreatestTo
<1> QED
  BY <1>1, <1>2, <1>3

-----------------------------------------------------------------------------
(* The events of a text.                                                   *)

\* What one place of the text adds to the data lines before it.
WithPlace(chars, from, d, n) ==
    IF n <= from THEN <<>>
    ELSE IF chars[n] = "end" /\ IsData(LineBefore(chars, n))
         THEN Append(d, LineBefore(chars, n)) ELSE d

LEMMA DataWalks ==
    ASSUME NEW chars \in Seq(Chars), NEW from \in Nat
    PROVE  /\ \A n \in 0..Len(chars) : DataFrom(chars, from)[n] \in Seq(Seq(Chars))
           /\ DataFrom(chars, from)[0] = <<>>
           /\ \A n \in 1..Len(chars) : DataFrom(chars, from)[n] =
                 WithPlace(chars, from, DataFrom(chars, from)[n - 1], n)
<1> DEFINE m == Len(chars)
           D == DataFrom(chars, from)
           Lines == Seq(Seq(Chars))
           G(g) == g = [n \in 0..m |-> WithPlace(chars, from, g[n - 1], n)]
<1>1. m \in Nat /\ <<>> \in Lines
  BY EmptySeq
<1>2. ASSUME NEW d \in Lines, NEW n \in 1..m
      PROVE  WithPlace(chars, from, d, n) \in Lines
  <2>1. n \in 1..(Len(chars) + 1)
    OBVIOUS
  <2>2. LineBefore(chars, n) \in Seq(Chars)
    BY <2>1, LineStarts
  <2>3. Append(d, LineBefore(chars, n)) \in Lines
    BY <2>2, AppendProperties
  <2> QED
    BY <1>1, <2>3 DEF WithPlace
<1> HIDE DEF m, Lines
<1>3. \E g : G(g)
  <2> DEFINE step == [n \in 1..m |-> [d \in Lines |-> WithPlace(chars, from, d, n)]]
  <2>1. step \in [1..m -> [Lines -> Lines]]
    BY <1>2
  <2>2. \A n \in 1..m : \A d \in Lines : step[n][d] = WithPlace(chars, from, d, n)
    OBVIOUS
  <2> HIDE DEF step
  <2>3. PICK g : Walks(g, m, Lines, <<>>, step)
    BY <1>1, <2>1, WalkExists
  <2>4. g \in [0..m -> Lines] /\ g[0] = <<>> /\ \A n \in 1..m : g[n] = step[n][g[n - 1]]
    BY <2>3 DEF Walks
  <2>5. ASSUME NEW n \in 0..m PROVE g[n] = WithPlace(chars, from, g[n - 1], n)
    <3>1. CASE n = 0
      BY <2>4, <3>1 DEF WithPlace
    <3>2. CASE n \in 1..m
      <4>1. g[n - 1] \in Lines
        BY <1>1, <2>4, <3>2
      <4> QED
        BY <2>2, <2>4, <3>2, <4>1
    <3> QED
      BY <1>1, <3>1, <3>2
  <2>6. G(g)
    BY <2>4, <2>5
  <2> QED
    BY <2>6
<1>4. D = CHOOSE g : G(g)
  BY DEF DataFrom, m, WithPlace
<1>5. G(D)
  <2> HIDE DEF G, D
  <2> QED
    BY <1>3, <1>4
<1>6. D[0] = <<>> /\ \A n \in 1..m : D[n] = WithPlace(chars, from, D[n - 1], n)
  <2> HIDE DEF D
  <2>1. 0 \in 0..m /\ \A n \in 1..m : n \in 0..m
    BY <1>1
  <2>2. D[0] = WithPlace(chars, from, D[0 - 1], 0)
    BY <1>5, <2>1
  <2>3. D[0] = <<>>
    BY <2>2 DEF WithPlace
  <2> QED
    BY <1>5, <2>1, <2>3
<1>7. \A n \in 0..m : D[n] \in Lines
  <2> HIDE DEF D, G
  <2> DEFINE P == {n \in Nat : D[n] \in Lines}
  <2>1. 0 \in P
    BY <1>1, <1>6
  <2>2. ASSUME NEW n \in 0..(m - 1), n \in P PROVE n + 1 \in P
    <3>1. n + 1 \in 1..m /\ (n + 1) - 1 = n /\ n + 1 \in Nat
      BY <1>1
    <3>2. D[n + 1] = WithPlace(chars, from, D[n], n + 1)
      BY <1>6, <3>1
    <3> QED
      BY <1>2, <2>2, <3>1, <3>2
  <2>3. \A n \in 0..m : n \in P
    <3> HIDE DEF P
    <3> QED
      BY <1>1, <2>1, <2>2, InductionTo
  <2> QED
    BY <2>3
<1> QED
  BY <1>6, <1>7 DEF m, Lines

LEMMA EventTyped ==
    ASSUME NEW chars \in Seq(Chars), NEW n \in 1..(Len(chars) + 1)
    PROVE  EventBefore(chars, n) \in Events
<1>1. BlankBefore(chars, n) \in Nat /\ n - 1 \in 0..Len(chars)
  BY BlankBehind
<1>2. DataFrom(chars, BlankBefore(chars, n))[n - 1] \in Seq(Seq(Chars))
  BY <1>1, DataWalks
<1> QED
  BY <1>2 DEF EventBefore, Events

\* What one place of the text adds to the events before it.
WithBlank(chars, e, n) ==
    IF chars[n] = "end" /\ LineBefore(chars, n) = <<>> /\ EventBefore(chars, n).data # <<>>
    THEN Append(e, EventBefore(chars, n)) ELSE e

LEMMA EventsWalk ==
    ASSUME NEW chars \in Seq(Chars)
    PROVE  /\ EventsUpTo(chars)[0] = <<>>
           /\ \A n \in 1..Len(chars) :
                 EventsUpTo(chars)[n] = WithBlank(chars, EventsUpTo(chars)[n - 1], n)
<1> DEFINE m == Len(chars)
           E == EventsUpTo(chars)
           Yields == Seq(Events)
           G(g) == g = [n \in 0..m |-> IF n = 0 THEN <<>> ELSE WithBlank(chars, g[n - 1], n)]
<1>1. m \in Nat /\ <<>> \in Yields
  BY EmptySeq
<1>2. ASSUME NEW e \in Yields, NEW n \in 1..m
      PROVE  WithBlank(chars, e, n) \in Yields
  <2>1. n \in 1..(Len(chars) + 1)
    OBVIOUS
  <2>2. Append(e, EventBefore(chars, n)) \in Yields
    BY <2>1, EventTyped, AppendProperties
  <2> QED
    BY <2>2 DEF WithBlank
<1> HIDE DEF m, Yields
<1>3. \E g : G(g)
  <2> DEFINE step == [n \in 1..m |-> [e \in Yields |-> WithBlank(chars, e, n)]]
  <2>1. step \in [1..m -> [Yields -> Yields]]
    BY <1>2
  <2>2. \A n \in 1..m : \A e \in Yields : step[n][e] = WithBlank(chars, e, n)
    OBVIOUS
  <2> HIDE DEF step
  <2>3. PICK g : Walks(g, m, Yields, <<>>, step)
    BY <1>1, <2>1, WalkExists
  <2>4. g \in [0..m -> Yields] /\ g[0] = <<>> /\ \A n \in 1..m : g[n] = step[n][g[n - 1]]
    BY <2>3 DEF Walks
  <2>5. ASSUME NEW n \in 0..m
        PROVE  g[n] = IF n = 0 THEN <<>> ELSE WithBlank(chars, g[n - 1], n)
    <3>1. CASE n = 0
      BY <2>4, <3>1
    <3>2. CASE n \in 1..m
      <4>1. g[n - 1] \in Yields
        BY <1>1, <2>4, <3>2
      <4> QED
        BY <2>2, <2>4, <3>2, <4>1
    <3> QED
      BY <1>1, <3>1, <3>2
  <2>6. G(g)
    BY <2>4, <2>5
  <2> QED
    BY <2>6
<1>4. E = CHOOSE g : G(g)
  BY DEF EventsUpTo, m, WithBlank
<1>5. G(E)
  <2> HIDE DEF G, E
  <2> QED
    BY <1>3, <1>4
<1>6. E[0] = <<>> /\ \A n \in 1..m : E[n] = WithBlank(chars, E[n - 1], n)
  <2> HIDE DEF E
  <2> QED
    BY <1>1, <1>5
<1> QED
  BY <1>6 DEF m

-----------------------------------------------------------------------------
(* What the framer holds is what the format reads up to the same place.    *)

\* The framer and its events agree with the text read so far.
Agrees(w, chars, n) ==
    /\ w.f.buffer = LineBefore(chars, n + 1)
    /\ w.f.event = EventBefore(chars, n + 1).named
    /\ w.f.data = EventBefore(chars, n + 1).data
    /\ w.out = EventsUpTo(chars)[n]

LEMMA AgreesAtStart ==
    ASSUME NEW chars \in Seq(Chars)
    PROVE  Agrees([f |-> Empty, out |-> <<>>], chars, 0)
<1>1. 1 \in 1..(Len(chars) + 1) /\ Len(chars) \in Nat
  OBVIOUS
<1>2. LineBefore(chars, 1) = <<>> /\ BlankBefore(chars, 1) = 0
  <2>1. LineStart(chars, 1) \in 0..(1 - 1) /\ BlankBefore(chars, 1) \in 0..(1 - 1)
    BY <1>1, LineStarts, BlankBehind
  <2>2. LineBefore(chars, 1) = SubSeq(chars, LineStart(chars, 1) + 1, 1 - 1)
    BY <1>1, LineStarts
  <2> QED
    BY <2>1, <2>2
<1>3. EventBefore(chars, 1).data = <<>>
  <2>1. DataFrom(chars, 0)[0] = <<>>
    BY DataWalks
  <2> QED
    BY <1>2, <2>1 DEF EventBefore
<1>4. EventBefore(chars, 1).named = FALSE
  BY DEF EventBefore, LineEnds
<1>5. EventsUpTo(chars)[0] = <<>>
  BY EventsWalk
<1> DEFINE w == [f |-> Empty, out |-> <<>>]
<1>6. w.f.buffer = <<>> /\ ~w.f.event /\ w.f.data = <<>> /\ w.out = <<>> /\ w.f.event = FALSE
  BY DEF Empty
<1>7. 0 + 1 = 1
  OBVIOUS
<1> HIDE DEF w
<1>8. Agrees(w, chars, 0)
  BY <1>2, <1>3, <1>4, <1>5, <1>6, <1>7, Zenon DEF Agrees
<1> QED
  BY <1>8 DEF w

LEMMA EventMoves ==
    ASSUME NEW chars \in Seq(Chars), NEW n \in 1..Len(chars)
    PROVE  LET line == LineBefore(chars, n)
               e == EventBefore(chars, n)
               next == EventBefore(chars, n + 1)
           IN IF chars[n] # "end" THEN next.named = e.named /\ next.data = e.data
              ELSE IF line = <<>> THEN next.named = FALSE /\ next.data = <<>>
              ELSE /\ next.named = (e.named \/ IsName(line))
                   /\ next.data = IF IsData(line) THEN Append(e.data, line) ELSE e.data
<1> DEFINE line == LineBefore(chars, n)
           e == EventBefore(chars, n)
           next == EventBefore(chars, n + 1)
           b == BlankBefore(chars, n)
<1>1. b \in 0..(n - 1) /\ b \in Nat /\ n \in Nat /\ n + 1 \in Nat /\ (n + 1) - 1 = n
  BY BlankBehind
<1>2. e.data = DataFrom(chars, b)[n - 1]
  BY DEF EventBefore
<1>3. e.named = \E m \in LineEnds(chars) : b < m /\ m < n /\ IsName(LineBefore(chars, m))
  BY DEF EventBefore
<1>4. CASE chars[n] = "end" /\ line = <<>>
  <2>1. BlankBefore(chars, n + 1) = n
    BY <1>4, BlankMoves
  <2>2. next.data = <<>>
    <3>1. next.data = DataFrom(chars, n)[n]
      BY <1>1, <2>1 DEF EventBefore
    <3>2. DataFrom(chars, n)[n] = WithPlace(chars, n, DataFrom(chars, n)[n - 1], n)
      BY <1>1, DataWalks
    <3> QED
      BY <1>1, <3>1, <3>2 DEF WithPlace
  <2>3. next.named = FALSE
    BY <1>1, <2>1 DEF EventBefore, LineEnds
  <2> QED
    BY <1>4, <2>2, <2>3
<1>5. CASE ~(chars[n] = "end" /\ line = <<>>)
  <2>1. BlankBefore(chars, n + 1) = b
    BY <1>5, BlankMoves
  <2>2. next.data = WithPlace(chars, b, e.data, n)
    <3>1. next.data = DataFrom(chars, b)[n]
      BY <1>1, <2>1 DEF EventBefore
    <3>2. DataFrom(chars, b)[n] = WithPlace(chars, b, DataFrom(chars, b)[n - 1], n)
      BY <1>1, DataWalks
    <3> QED
      BY <1>2, <3>1, <3>2
  <2>3. ~(n <= b)
    BY <1>1
  <2>4. next.data = IF chars[n] = "end" /\ IsData(line) THEN Append(e.data, line) ELSE e.data
    BY <2>2, <2>3 DEF WithPlace
  <2>5. next.named = \E m \in LineEnds(chars) : b < m /\ m < n + 1 /\ IsName(LineBefore(chars, m))
    BY <2>1 DEF EventBefore
  <2>6. CASE chars[n] # "end"
    <3>1. \A m \in LineEnds(chars) : m < n + 1 <=> m < n
      BY <2>6 DEF LineEnds
    <3>2. next.named = e.named
      BY <1>3, <2>5, <3>1
    <3> QED
      BY <2>4, <2>6, <3>2
  <2>7. CASE chars[n] = "end"
    <3>1. \A m \in LineEnds(chars) : m < n + 1 <=> m < n \/ m = n
      BY DEF LineEnds
    <3>2. n \in LineEnds(chars) /\ b < n
      BY <1>1, <2>7 DEF LineEnds
    <3>3. next.named = (e.named \/ IsName(line))
      BY <1>3, <2>5, <3>1, <3>2, Zenon
    <3> QED
      BY <1>5, <2>4, <2>7, <3>3
  <2> QED
    BY <2>6, <2>7
<1> QED
  BY <1>4, <1>5

\* What a line does to the framer's name and data.
LEMMA LineSets ==
    ASSUME NEW f \in Framers, NEW line \in Seq(Chars)
    PROVE  LET g == WithLine(f, line)
           IN IF line = <<>> THEN g.event = FALSE /\ g.data = <<>>
              ELSE /\ g.event = (f.event \/ IsName(line))
                   /\ g.data = IF IsData(line) THEN Append(f.data, line) ELSE f.data
<1>1. CASE line = <<>>
  BY <1>1 DEF WithLine, Framers
<1>2. CASE line # <<>> /\ line[1] = "e"
  <2>1. WithLine(f, line) = [f EXCEPT !.event = TRUE]
    BY <1>2 DEF WithLine
  <2>2. IsName(line) /\ ~IsData(line)
    BY <1>2 DEF IsName, IsData
  <2> QED
    BY <1>2, <2>1, <2>2 DEF Framers
<1>3. CASE line # <<>> /\ line[1] # "e" /\ line[1] # "d"
  <2>1. WithLine(f, line) = f
    BY <1>3 DEF WithLine
  <2>2. ~IsName(line) /\ ~IsData(line)
    BY <1>3 DEF IsName, IsData
  <2> QED
    BY <1>3, <2>1, <2>2 DEF Framers
<1>4. CASE line # <<>> /\ line[1] = "d"
  <2>1. WithLine(f, line) = [f EXCEPT !.data = Append(@, line)]
    BY <1>4 DEF WithLine
  <2>2. ~IsName(line) /\ IsData(line)
    BY <1>4 DEF IsName, IsData
  <2> QED
    BY <1>4, <2>1, <2>2 DEF Framers
<1> QED
  BY <1>1, <1>2, <1>3, <1>4

LEMMA AgreesNext ==
    ASSUME NEW chars \in Seq(Chars), NEW n \in 1..Len(chars), NEW w \in Walked,
           Agrees(w, chars, n - 1)
    PROVE  Agrees(Advance(w, chars[n]), chars, n)
<1> DEFINE line == LineBefore(chars, n)
           e == EventBefore(chars, n)
           next == EventBefore(chars, n + 1)
           c == chars[n]
           v == Advance(w, c)
<1>1. (n - 1) + 1 = n /\ n \in 1..(Len(chars) + 1) /\ c \in Chars
  OBVIOUS
<1>2. w.f.buffer = line /\ w.f.event = e.named /\ w.f.data = e.data /\ w.out = EventsUpTo(chars)[n - 1]
  BY <1>1 DEF Agrees
<1>3. /\ w.f \in Framers /\ w.out \in Seq(Events) /\ line \in Seq(Chars)
      /\ e.named \in BOOLEAN
  BY <1>1, LineStarts, EventTyped DEF Walked, Events
<1>4. EventsUpTo(chars)[n] = WithBlank(chars, EventsUpTo(chars)[n - 1], n)
  BY EventsWalk
<1>5. CASE c # "end"
  <2>1. v.f = [w.f EXCEPT !.buffer = Append(@, c)] /\ v.out = w.out
    BY <1>5 DEF Advance
  <2>2. v.f.buffer = Append(line, c) /\ v.f.event = e.named /\ v.f.data = e.data
    BY <1>2, <1>3, <2>1 DEF Framers
  <2>3. LineBefore(chars, n + 1) = Append(line, c) /\ next.named = e.named /\ next.data = e.data
    BY <1>5, LineGrows, EventMoves
  <2>4. v.out = EventsUpTo(chars)[n]
    BY <1>2, <1>4, <1>5, <2>1 DEF WithBlank
  <2> QED
    BY <2>2, <2>3, <2>4 DEF Agrees
<1>6. CASE c = "end"
  <2> DEFINE g == WithLine(w.f, line)
  <2>1. v.f = [g EXCEPT !.buffer = <<>>] /\ v.out = w.out \o Yielded(w.f, line)
    BY <1>2, <1>6 DEF Advance
  <2>2. g \in Framers
    BY <1>3, WithLineTyped
  <2>3. v.f.buffer = <<>> /\ v.f.event = g.event /\ v.f.data = g.data
    BY <2>1, <2>2 DEF Framers
  <2>4. LineBefore(chars, n + 1) = <<>>
    BY <1>6, LineGrows
  <2>5. v.f.event = next.named /\ v.f.data = next.data
    <3>1. CASE line = <<>>
      <4>1. next.named = FALSE /\ next.data = <<>>
        BY <1>6, <3>1, EventMoves
      <4>2. g.event = FALSE /\ g.data = <<>>
        BY <1>3, <3>1, LineSets
      <4> QED
        BY <2>3, <4>1, <4>2
    <3>2. CASE line # <<>>
      <4>1. /\ next.named = (e.named \/ IsName(line))
            /\ next.data = IF IsData(line) THEN Append(e.data, line) ELSE e.data
        BY <1>6, <3>2, EventMoves
      <4>2. /\ g.event = (w.f.event \/ IsName(line))
            /\ g.data = IF IsData(line) THEN Append(w.f.data, line) ELSE w.f.data
        BY <1>3, <3>2, LineSets
      <4> QED
        BY <1>2, <2>3, <4>1, <4>2, Zenon
    <3> QED
      BY <3>1, <3>2
  <2>6. v.out = EventsUpTo(chars)[n]
    <3>1. CASE line = <<>> /\ e.data # <<>>
      <4>1. Yielded(w.f, line) = <<[named |-> e.named, data |-> e.data]>>
        BY <1>2, <3>1 DEF Yielded
      <4>2. e = [named |-> e.named, data |-> e.data] /\ e \in Events
        BY <1>1, EventTyped DEF EventBefore
      <4>3. v.out = Append(w.out, e)
        BY <1>3, <2>1, <4>1, <4>2, AppendIsConcat
      <4> QED
        BY <1>2, <1>4, <1>6, <3>1, <4>3 DEF WithBlank
    <3>2. CASE ~(line = <<>> /\ e.data # <<>>)
      <4>1. Yielded(w.f, line) = <<>>
        BY <1>2, <3>2 DEF Yielded
      <4>2. v.out = w.out
        BY <1>3, <2>1, <4>1, ConcatEmptySeq
      <4> QED
        BY <1>2, <1>4, <3>2, <4>2 DEF WithBlank
    <3> QED
      BY <3>1, <3>2
  <2> QED
    BY <2>3, <2>4, <2>5, <2>6 DEF Agrees
<1> QED
  BY <1>5, <1>6

LEMMA EmptyTyped == Empty \in Framers
<1>1. ASSUME NEW x \in Seq(Chars), NEW y \in Seq(Seq(Chars))
      PROVE  [buffer |-> x, event |-> FALSE, data |-> y] \in Framers
  BY DEF Framers
<1>2. <<>> \in Seq(Chars) /\ <<>> \in Seq(Seq(Chars))
  BY EmptySeq
<1> QED
  BY <1>1, <1>2 DEF Empty

\* The whole text fed at once.
LEMMA WalkAgrees ==
    ASSUME NEW chars \in Seq(Chars), NEW n \in 0..Len(chars)
    PROVE  Agrees(FeedWalk(Empty, chars)[n], chars, n)
<1> DEFINE W == FeedWalk(Empty, chars)
           P == {k \in Nat : Agrees(W[k], chars, k)}
<1>1. Empty \in Framers /\ Len(chars) \in Nat
  BY EmptyTyped
<1>2. /\ W \in [0..Len(chars) -> Walked]
      /\ W[0] = [f |-> Empty, out |-> <<>>]
      /\ \A k \in 1..Len(chars) : W[k] = Advance(W[k - 1], chars[k])
  BY <1>1, FeedWalks
<1> HIDE DEF W
<1>3. 0 \in P
  BY <1>2, AgreesAtStart
<1>4. ASSUME NEW k \in 0..(Len(chars) - 1), k \in P PROVE k + 1 \in P
  <2>1. k + 1 \in 1..Len(chars) /\ (k + 1) - 1 = k /\ k + 1 \in Nat /\ k \in 0..Len(chars)
    BY <1>1
  <2>2. W[k + 1] = Advance(W[k], chars[k + 1]) /\ W[k] \in Walked
    BY <1>2, <2>1
  <2>3. Agrees(W[k], chars, k)
    BY <1>4
  <2>4. Agrees(W[k + 1], chars, k + 1)
    BY <2>1, <2>2, <2>3, AgreesNext
  <2> QED
    BY <2>1, <2>4
<1>5. \A k \in 0..Len(chars) : k \in P
  <2> HIDE DEF P
  <2> QED
    BY <1>1, <1>3, <1>4, InductionTo
<1> QED
  BY <1>5 DEF W

-----------------------------------------------------------------------------
(* Chunks.                                                                 *)

LEMMA YieldsAssociate ==
    ASSUME NEW a \in Seq(Events), NEW b \in Seq(Events), NEW c \in Seq(Events)
    PROVE  a \o (b \o c) = (a \o b) \o c
BY ConcatAssociative

\* A framer that starts where another stands goes on as the other does.
LEMMA AdvanceAlike ==
    ASSUME NEW v \in Walked, NEW w \in Walked, NEW before \in Seq(Events), NEW c \in Chars,
           v.f = w.f, before \o v.out = w.out
    PROVE  /\ Advance(v, c).f = Advance(w, c).f
           /\ before \o Advance(v, c).out = Advance(w, c).out
<1>1. CASE c # "end"
  BY <1>1 DEF Advance
<1>2. CASE c = "end"
  <2> DEFINE y == Yielded(w.f, w.f.buffer)
  <2>1. w.f \in Framers /\ w.f.buffer \in Seq(Chars) /\ v.out \in Seq(Events)
    BY DEF Walked, Framers
  <2>2. y \in Seq(Events)
    BY <2>1, WithLineTyped
  <2>3. Advance(v, c).f = Advance(w, c).f
    BY <1>2 DEF Advance
  <2>4. Advance(v, c).out = v.out \o y /\ Advance(w, c).out = w.out \o y
    BY <1>2 DEF Advance
  <2> HIDE DEF y
  <2>5. before \o (v.out \o y) = (before \o v.out) \o y
    BY <2>1, <2>2, YieldsAssociate
  <2> QED
    BY <2>3, <2>4, <2>5
<1> QED
  BY <1>1, <1>2

\* A chunk fed where the last one ended leaves the framer where the whole
\* text leaves it.
LEMMA ChunkFed ==
    ASSUME NEW chars \in Seq(Chars), NEW at \in 0..Len(chars),
           NEW n \in Nat, at + n <= Len(chars)
    PROVE  LET W == FeedWalk(Empty, chars)
               fedNow == Feed(W[at].f, SubSeq(chars, at + 1, at + n))
           IN fedNow.f = W[at + n].f /\ W[at].out \o fedNow.out = W[at + n].out
<1> DEFINE W == FeedWalk(Empty, chars)
           chunk == SubSeq(chars, at + 1, at + n)
           V == FeedWalk(W[at].f, chunk)
<1>1. /\ W \in [0..Len(chars) -> Walked]
      /\ \A k \in 1..Len(chars) : W[k] = Advance(W[k - 1], chars[k])
  BY EmptyTyped, FeedWalks
<1>2. /\ chunk \in Seq(Chars) /\ Len(chunk) = n
      /\ \A k \in 1..n : chunk[k] = chars[at + k]
  OBVIOUS
<1> HIDE DEF W, chunk
<1>4. W[at] \in Walked /\ W[at].f \in Framers /\ W[at].out \in Seq(Events)
  <2>1. W[at] \in Walked
    BY <1>1
  <2> QED
    BY <2>1 DEF Walked
<1>5. /\ V \in [0..n -> Walked]
      /\ V[0] = [f |-> W[at].f, out |-> <<>>]
      /\ \A k \in 1..n : V[k] = Advance(V[k - 1], chunk[k])
  BY <1>2, <1>4, FeedWalks
<1> HIDE DEF V
<1> DEFINE P == {k \in Nat : V[k].f = W[at + k].f /\ W[at].out \o V[k].out = W[at + k].out}
<1>6. 0 \in P
  <2>1. at + 0 = at
    OBVIOUS
  <2>2. V[0].f = W[at].f /\ V[0].out = <<>>
    BY <1>5
  <2>3. W[at].out \o <<>> = W[at].out
    BY <1>4, ConcatEmptySeq
  <2> QED
    BY <2>1, <2>2, <2>3
<1>7. ASSUME NEW k \in 0..(n - 1), k \in P PROVE k + 1 \in P
  <2>1. /\ k \in 0..n /\ k + 1 \in 1..n /\ (k + 1) - 1 = k /\ k + 1 \in Nat
        /\ at + k \in 0..Len(chars) /\ at + (k + 1) \in 1..Len(chars)
        /\ (at + (k + 1)) - 1 = at + k
    OBVIOUS
  <2>2. V[k] \in Walked /\ W[at + k] \in Walked
    BY <1>1, <1>5, <2>1
  <2>3. V[k + 1] = Advance(V[k], chars[at + (k + 1)])
    BY <1>2, <1>5, <2>1
  <2>4. W[at + (k + 1)] = Advance(W[at + k], chars[at + (k + 1)])
    BY <1>1, <2>1
  <2>5. chars[at + (k + 1)] \in Chars
    BY <2>1
  <2>6. V[k].f = W[at + k].f /\ W[at].out \o V[k].out = W[at + k].out
    BY <1>7
  <2>7. /\ V[k + 1].f = W[at + (k + 1)].f
        /\ W[at].out \o V[k + 1].out = W[at + (k + 1)].out
    <3> DEFINE v == V[k]
               w == W[at + k]
               before == W[at].out
               c == chars[at + (k + 1)]
    <3>1. v \in Walked /\ w \in Walked /\ before \in Seq(Events) /\ c \in Chars
      BY <1>4, <2>2, <2>5
    <3>2. v.f = w.f /\ before \o v.out = w.out
      BY <2>6
    <3> HIDE DEF v, w, before, c
    <3>3. /\ Advance(v, c).f = Advance(w, c).f
          /\ before \o Advance(v, c).out = Advance(w, c).out
      BY <3>1, <3>2, AdvanceAlike
    <3> QED
      BY <2>3, <2>4, <3>3 DEF v, w, before, c
  <2> QED
    BY <2>1, <2>7
<1>8. \A k \in 0..n : k \in P
  <2> HIDE DEF P
  <2> QED
    BY <1>6, <1>7, InductionTo
<1>9. n \in P
  <2> HIDE DEF P
  <2> QED
    BY <1>8
<1>10. Feed(W[at].f, chunk) = V[n]
  BY <1>2 DEF Feed, V
<1>11. /\ Feed(W[at].f, chunk).f = W[at + n].f
       /\ W[at].out \o Feed(W[at].f, chunk).out = W[at + n].out
  BY <1>9, <1>10
<1> QED
  BY <1>11 DEF W, chunk

-----------------------------------------------------------------------------
(* Characters.                                                             *)

LEMMA WithByteTyped ==
    ASSUME NEW chunk \in Seq(Bytes), NEW n \in 1..Len(chunk), NEW text \in Seq(Chars),
           n > 1 => text # <<>>
    PROVE  WithByte(chunk, text, n) \in Seq(Chars) /\ WithByte(chunk, text, n) # <<>>
<1>1. CASE chunk[n] = "tail" /\ n > 1 /\ chunk[n - 1] = "lead"
  <2>1. Len(text) \in Nat /\ Len(text) # 0
    BY <1>1, EmptySeq
  <2>2. SubSeq(text, 1, Len(text) - 1) \in Seq(Chars) /\ "wide" \in Chars
    BY <2>1 DEF Chars
  <2>3. /\ Append(SubSeq(text, 1, Len(text) - 1), "wide") \in Seq(Chars)
        /\ Append(SubSeq(text, 1, Len(text) - 1), "wide") # <<>>
    BY <2>2, AppendProperties
  <2> QED
    BY <1>1, <2>3 DEF WithByte
<1>2. CASE ~(chunk[n] = "tail" /\ n > 1 /\ chunk[n - 1] = "lead")
  <2> DEFINE c == IF chunk[n] \in {"lead", "tail"} THEN "replaced" ELSE chunk[n]
  <2>1. chunk[n] \in Bytes
    OBVIOUS
  <2>2. c \in Chars
    BY <2>1 DEF Bytes, Chars
  <2>3. WithByte(chunk, text, n) = Append(text, c)
    BY <1>2 DEF WithByte
  <2> HIDE DEF c
  <2>4. Append(text, c) \in Seq(Chars) /\ Append(text, c) # <<>>
    BY <2>2, AppendProperties
  <2> QED
    BY <2>3, <2>4
<1> QED
  BY <1>1, <1>2

LEMMA DecodingWalks ==
    ASSUME NEW chunk \in Seq(Bytes)
    PROVE  /\ Decoding(chunk)[0] = <<>>
           /\ \A n \in 1..Len(chunk) :
                 Decoding(chunk)[n] = WithByte(chunk, Decoding(chunk)[n - 1], n)
           /\ \A n \in 0..Len(chunk) :
                 /\ Decoding(chunk)[n] \in Seq(Chars)
                 /\ n > 0 => Decoding(chunk)[n] # <<>>
<1> DEFINE m == Len(chunk)
           D == Decoding(chunk)
           Texts == Seq(Chars)
           some == <<"wide">>
           Read(t, n) == IF n > 1 /\ t = <<>> THEN some ELSE WithByte(chunk, t, n)
           G(g) == g = [n \in 0..m |-> IF n = 0 THEN <<>> ELSE WithByte(chunk, g[n - 1], n)]
<1>1. m \in Nat /\ <<>> \in Texts /\ some \in Texts /\ some # <<>>
  BY EmptySeq DEF Chars
<1>2. ASSUME NEW t \in Texts, NEW n \in 1..m
      PROVE  Read(t, n) \in Texts /\ Read(t, n) # <<>>
  <2>1. CASE n > 1 /\ t = <<>>
    BY <1>1, <2>1
  <2>2. CASE ~(n > 1 /\ t = <<>>)
    BY <2>2, WithByteTyped
  <2> QED
    BY <2>1, <2>2
<1> HIDE DEF m, some, Texts
<1>3. \E g : G(g) /\ g \in [0..m -> Texts] /\ \A n \in 1..m : g[n] # <<>>
  <2> DEFINE step == [n \in 1..m |-> [t \in Texts |-> Read(t, n)]]
  <2>1. step \in [1..m -> [Texts -> Texts]]
    BY <1>2
  <2>2. \A n \in 1..m : \A t \in Texts : step[n][t] = Read(t, n)
    OBVIOUS
  <2> HIDE DEF step
  <2>3. PICK g : Walks(g, m, Texts, <<>>, step)
    BY <1>1, <2>1, WalkExists
  <2>4. g \in [0..m -> Texts] /\ g[0] = <<>> /\ \A n \in 1..m : g[n] = step[n][g[n - 1]]
    BY <2>3 DEF Walks
  <2>5. ASSUME NEW n \in 1..m PROVE g[n] = Read(g[n - 1], n) /\ g[n - 1] \in Texts
    <3>1. g[n - 1] \in Texts
      BY <1>1, <2>4
    <3> QED
      BY <2>2, <2>4, <3>1
  <2>6. ASSUME NEW n \in 1..m PROVE g[n] # <<>>
    BY <1>2, <2>5
  <2>7. ASSUME NEW n \in 1..m PROVE g[n] = WithByte(chunk, g[n - 1], n)
    <3>1. n > 1 => g[n - 1] # <<>>
      <4>1. n > 1 => n - 1 \in 1..m
        BY <1>1
      <4> QED
        BY <2>6, <4>1
    <3> QED
      BY <2>5, <3>1
  <2>8. ASSUME NEW n \in 0..m
        PROVE  g[n] = IF n = 0 THEN <<>> ELSE WithByte(chunk, g[n - 1], n)
    <3>1. n # 0 => n \in 1..m
      BY <1>1
    <3> QED
      BY <2>4, <2>7, <3>1
  <2>9. G(g)
    BY <2>4, <2>8
  <2> QED
    BY <2>4, <2>6, <2>9
<1>4. D = CHOOSE g : G(g)
  BY DEF Decoding, m
<1>5. G(D)
  <2> HIDE DEF G, D
  <2> QED
    BY <1>3, <1>4
<1> HIDE DEF D
<1>6. D[0] = <<>> /\ \A n \in 1..m : D[n] = WithByte(chunk, D[n - 1], n)
  BY <1>1, <1>5
<1>7. \A n \in 0..m : D[n] \in Texts /\ (n > 0 => D[n] # <<>>)
  <2> HIDE DEF G
  <2> DEFINE P == {n \in Nat : D[n] \in Texts /\ (n > 0 => D[n] # <<>>)}
  <2>1. 0 \in P
    BY <1>1, <1>6
  <2>2. ASSUME NEW n \in 0..(m - 1), n \in P PROVE n + 1 \in P
    <3>1. n + 1 \in 1..Len(chunk) /\ (n + 1) - 1 = n /\ n + 1 \in Nat /\ n \in Nat
      BY <1>1 DEF m
    <3>2. D[n + 1] = WithByte(chunk, D[n], n + 1)
      BY <1>6, <3>1 DEF m
    <3>3. D[n] \in Seq(Chars) /\ (n + 1 > 1 => D[n] # <<>>)
      BY <2>2, <3>1 DEF Texts
    <3>4. WithByte(chunk, D[n], n + 1) \in Seq(Chars) /\ WithByte(chunk, D[n], n + 1) # <<>>
      BY <3>1, <3>3, WithByteTyped
    <3> QED
      BY <3>1, <3>2, <3>4 DEF Texts
  <2>3. \A n \in 0..m : n \in P
    <3> HIDE DEF P
    <3> QED
      BY <1>1, <2>1, <2>2, InductionTo
  <2> QED
    BY <2>3
<1> QED
  BY <1>6, <1>7 DEF D, m, Texts

LEMMA TextsAssociate ==
    ASSUME NEW a \in Seq(Chars), NEW b \in Seq(Chars), NEW c \in Chars
    PROVE  a \o Append(b, c) = Append(a \o b, c)
<1>1. Append(b, c) = b \o <<c>> /\ Append(a \o b, c) = (a \o b) \o <<c>> /\ <<c>> \in Seq(Chars)
  BY AppendIsConcat
<1> QED
  BY <1>1, ConcatAssociative

LEMMA Beginning ==
    ASSUME NEW s \in Seq(Chars), NEW n \in 0..Len(s)
    PROVE  /\ SubSeq(s, 1, n) \in Seq(Chars) /\ Len(SubSeq(s, 1, n)) = n
           /\ \A k \in 1..n : SubSeq(s, 1, n)[k] = s[k]
OBVIOUS

LEMMA FrontOfConcat ==
    ASSUME NEW a \in Seq(Chars), NEW b \in Seq(Chars), b # <<>>
    PROVE  SubSeq(a \o b, 1, Len(a \o b) - 1) = a \o SubSeq(b, 1, Len(b) - 1)
<1> DEFINE s == SubSeq(a \o b, 1, Len(a \o b) - 1)
           f == SubSeq(b, 1, Len(b) - 1)
           t == a \o f
<1>1. Len(a) \in Nat /\ Len(b) \in Nat /\ Len(b) # 0
  BY EmptySeq
<1>2. a \o b \in Seq(Chars) /\ Len(a \o b) = Len(a) + Len(b)
  OBVIOUS
<1>3. s \in Seq(Chars) /\ Len(s) = Len(a) + Len(b) - 1
      /\ \A k \in 1..(Len(a) + Len(b) - 1) : s[k] = (a \o b)[k]
  BY <1>1, <1>2
<1>4. f \in Seq(Chars) /\ Len(f) = Len(b) - 1 /\ \A k \in 1..(Len(b) - 1) : f[k] = b[k]
  <2>1. Len(b) - 1 \in 0..Len(b)
    BY <1>1
  <2> QED
    BY <2>1, Beginning
<1> HIDE DEF s, f
<1>5. t \in Seq(Chars) /\ Len(t) = Len(a) + Len(b) - 1
  <2>1. f \in Seq(Chars)
    BY <1>4
  <2>2. t \in Seq(Chars) /\ Len(t) = Len(a) + Len(f)
    BY <2>1
  <2> QED
    BY <1>1, <1>4, <2>2
<1>6. ASSUME NEW k \in 1..(Len(a) + Len(b) - 1) PROVE s[k] = t[k]
  <2>1. CASE k <= Len(a)
    BY <1>1, <1>3, <1>4, <2>1
  <2>2. CASE k > Len(a)
    <3>1. k - Len(a) \in 1..(Len(b) - 1)
      BY <1>1, <2>2
    <3>2. (a \o b)[k] = b[k - Len(a)] /\ t[k] = f[k - Len(a)]
      BY <1>1, <1>4, <2>2, <3>1
    <3> QED
      BY <1>3, <1>4, <3>1, <3>2
  <2>3. k <= Len(a) \/ k > Len(a)
    BY <1>1
  <2> QED
    BY <2>1, <2>2, <2>3, Zenon
<1> HIDE DEF t
<1>7. s = t
  BY <1>3, <1>5, <1>6, SeqEqual
<1> QED
  BY <1>7 DEF s, t, f

\* A chunk that begins where a character does is decoded as it is in the body.
LEMMA CutBetween ==
    ASSUME NEW body \in Seq(Bytes), NEW at \in 0..Len(body), NEW n \in Nat,
           at + n <= Len(body), at = 0 \/ body[at] # "lead"
    PROVE  Decoding(body)[at + n] =
              Decoding(body)[at] \o Decoded(SubSeq(body, at + 1, at + n))
<1> DEFINE chunk == SubSeq(body, at + 1, at + n)
           B == Decoding(body)
           C == Decoding(chunk)
           P == {k \in Nat : B[at + k] = B[at] \o C[k]}
<1>1. /\ chunk \in Seq(Bytes) /\ Len(chunk) = n
      /\ \A k \in 1..n : chunk[k] = body[at + k]
  OBVIOUS
<1>2. /\ \A k \in 1..Len(body) : B[k] = WithByte(body, B[k - 1], k)
      /\ \A k \in 0..Len(body) : B[k] \in Seq(Chars)
  BY DecodingWalks
<1> HIDE DEF chunk
<1>3. /\ C[0] = <<>>
      /\ \A k \in 1..n : C[k] = WithByte(chunk, C[k - 1], k)
      /\ \A k \in 0..n : C[k] \in Seq(Chars) /\ (k > 0 => C[k] # <<>>)
  BY <1>1, DecodingWalks
<1> HIDE DEF B, C
<1>4. 0 \in P
  <2>1. B[at] \in Seq(Chars) /\ at + 0 = at
    BY <1>2
  <2>2. B[at] \o C[0] = B[at]
    BY <1>3, <2>1, ConcatEmptySeq
  <2> QED
    BY <2>1, <2>2
<1>5. ASSUME NEW k \in 0..(n - 1), k \in P PROVE k + 1 \in P
  <2> DEFINE j == at + k
             b == B[at]
             c == C[k]
             byte == body[j + 1]
  <2>1. /\ k \in 0..n /\ k + 1 \in 1..n /\ (k + 1) - 1 = k /\ k + 1 \in Nat
        /\ j + 1 \in 1..Len(body) /\ (j + 1) - 1 = j /\ at + (k + 1) = j + 1
        /\ j \in 0..Len(body)
    OBVIOUS
  <2>2. B[j + 1] = WithByte(body, B[j], j + 1) /\ C[k + 1] = WithByte(chunk, C[k], k + 1)
    BY <1>2, <1>3, <2>1
  <2>3. b \in Seq(Chars) /\ c \in Seq(Chars) /\ B[j] = b \o c
    BY <1>2, <1>3, <1>5, <2>1
  <2>4. chunk[k + 1] = byte /\ byte \in Bytes /\ (k > 0 => chunk[k] = body[j] /\ c # <<>>)
    <3>1. chunk[k + 1] = body[at + (k + 1)]
      BY <1>1, <2>1
    <3>2. byte \in Bytes
      BY <2>1
    <3>3. k > 0 => k \in 1..n
      BY <2>1
    <3>4. k > 0 => chunk[k] = body[j] /\ c # <<>>
      BY <1>1, <1>3, <2>1, <3>3
    <3> QED
      BY <2>1, <3>1, <3>2, <3>4
  <2>5. (j + 1 > 1 /\ body[j] = "lead") <=> (k + 1 > 1 /\ chunk[k] = "lead")
    <3>1. CASE k = 0
      BY <3>1
    <3>2. CASE k > 0
      BY <2>4, <3>2
    <3> QED
      BY <3>1, <3>2
  <2>6. CASE byte = "tail" /\ k + 1 > 1 /\ chunk[k] = "lead"
    <3>1. B[j + 1] = Append(SubSeq(b \o c, 1, Len(b \o c) - 1), "wide")
      BY <2>1, <2>2, <2>3, <2>5, <2>6 DEF WithByte
    <3>2. C[k + 1] = Append(SubSeq(c, 1, Len(c) - 1), "wide")
      BY <2>1, <2>2, <2>4, <2>6 DEF WithByte
    <3>3. SubSeq(b \o c, 1, Len(b \o c) - 1) = b \o SubSeq(c, 1, Len(c) - 1)
      <4>1. c # <<>>
        BY <2>4, <2>6
      <4> QED
        BY <2>3, <4>1, FrontOfConcat
    <3>4. SubSeq(c, 1, Len(c) - 1) \in Seq(Chars) /\ "wide" \in Chars
      BY <2>3 DEF Chars
    <3>5. b \o Append(SubSeq(c, 1, Len(c) - 1), "wide")
             = Append(b \o SubSeq(c, 1, Len(c) - 1), "wide")
      BY <2>3, <3>4, TextsAssociate
    <3> QED
      BY <2>1, <3>1, <3>2, <3>3, <3>5
  <2>7. CASE ~(byte = "tail" /\ k + 1 > 1 /\ chunk[k] = "lead")
    <3> DEFINE x == IF byte \in {"lead", "tail"} THEN "replaced" ELSE byte
    <3>1. B[j + 1] = Append(b \o c, x)
      BY <2>1, <2>2, <2>3, <2>5, <2>7 DEF WithByte
    <3>2. C[k + 1] = Append(c, x)
      BY <2>1, <2>2, <2>4, <2>7 DEF WithByte
    <3>3. x \in Chars
      BY <2>4 DEF Bytes, Chars
    <3>4. b \o Append(c, x) = Append(b \o c, x)
      <4> HIDE DEF b, c, x
      <4> QED
        BY <2>3, <3>3, TextsAssociate
    <3> QED
      BY <2>1, <3>1, <3>2, <3>4
  <2> QED
    BY <2>6, <2>7
<1>6. \A k \in 0..n : k \in P
  <2> HIDE DEF P
  <2> QED
    BY <1>4, <1>5, InductionTo
<1>7. n \in P
  <2> HIDE DEF P
  <2> QED
    BY <1>6
<1> QED
  BY <1>1, <1>7 DEF Decoded, B, C, chunk

\* The part of a text between what stands before it and what stands after.
LEMMA Between ==
    ASSUME NEW a \in Seq(Chars), NEW b \in Seq(Chars), NEW c \in Seq(Chars)
    PROVE  LET s == (a \o b) \o c
           IN /\ s \in Seq(Chars) /\ Len(a) + Len(b) <= Len(s)
              /\ SubSeq(s, Len(a) + 1, Len(a) + Len(b)) = b
<1> DEFINE s == (a \o b) \o c
           t == SubSeq(s, Len(a) + 1, Len(a) + Len(b))
<1>1. Len(a) \in Nat /\ Len(b) \in Nat /\ Len(c) \in Nat
  OBVIOUS
<1>2. a \o b \in Seq(Chars) /\ Len(a \o b) = Len(a) + Len(b)
      /\ \A k \in 1..Len(b) : (a \o b)[Len(a) + k] = b[k]
  BY <1>1
<1>3. s \in Seq(Chars) /\ Len(s) = Len(a) + Len(b) + Len(c)
  BY <1>1, <1>2
<1>4. ASSUME NEW k \in 1..Len(b) PROVE s[Len(a) + k] = b[k]
  <2>1. Len(a) + k \in 1..Len(a \o b)
    BY <1>1, <1>2
  <2>2. s[Len(a) + k] = (a \o b)[Len(a) + k]
    BY <1>2, <2>1
  <2> QED
    BY <1>2, <2>2
<1> HIDE DEF s
<1>5. t \in Seq(Chars) /\ Len(t) = Len(b) /\ \A k \in 1..Len(b) : t[k] = s[Len(a) + k]
  BY <1>1, <1>3
<1> HIDE DEF t
<1>6. t = b
  <2>1. \A k \in 1..Len(b) : t[k] = b[k]
    BY <1>4, <1>5
  <2> QED
    BY <1>5, <2>1, SeqEqual
<1> QED
  BY <1>1, <1>3, <1>6 DEF s, t

\* How many characters the bytes fed so far have made.
CharsFed == Len(Decoding(bodyBytes)[fed])

\* The inductive invariant: fed up to some byte, in chunks that cut no
\* character, the framer stands where the whole text fed at once has it there.
FramesInv ==
    /\ bodyBytes \in Seq(Bytes)
    /\ fed \in 0..Len(bodyBytes)
    /\ torn \in BOOLEAN
    /\ ~torn =>
          /\ fed = 0 \/ bodyBytes[fed] # "lead"
          /\ framer = FeedWalk(Empty, Decoded(bodyBytes))[CharsFed].f
          /\ framed = FeedWalk(Empty, Decoded(bodyBytes))[CharsFed].out

LEMMA FeedKeeps ==
    ASSUME FramesInv, NEW n \in Nat, n > 0, FeedChunk(n)
    PROVE  FramesInv'
<1> DEFINE body == bodyBytes
           chunk == SubSeq(body, fed + 1, fed + n)
           rest == SubSeq(body, fed + n + 1, Len(body))
           fedNow == Feed(framer, Decoded(chunk))
<1>1. /\ fed + n <= Len(body) /\ fed' = fed + n /\ bodyBytes' = body
      /\ framer' = fedNow.f /\ framed' = framed \o fedNow.out
      /\ torn' = (torn \/ body[fed + n] = "lead")
  BY DEF FeedChunk
<1>2. body \in Seq(Bytes) /\ fed \in 0..Len(body) /\ torn \in BOOLEAN /\ Len(body) \in Nat
  BY DEF FramesInv
<1>3. /\ fed + n \in 0..Len(body) /\ fed + n # 0 /\ Len(body) - (fed + n) \in Nat
      /\ (fed + n) + (Len(body) - (fed + n)) = Len(body) /\ chunk \in Seq(Bytes)
      /\ rest \in Seq(Bytes)
  BY <1>1, <1>2
<1>4. torn' \in BOOLEAN
  BY <1>1, <1>2
<1>5. ASSUME ~torn'
      PROVE  LET W == FeedWalk(Empty, Decoded(body))
                 p == Len(Decoding(body)[fed + n])
             IN framer' = W[p].f /\ framed' = W[p].out /\ body[fed + n] # "lead"
  <2> DEFINE a == Decoding(body)[fed]
             b == Decoded(chunk)
             c == Decoded(rest)
             whole == Decoded(body)
             W == FeedWalk(Empty, whole)
  <2>1. ~torn /\ body[fed + n] # "lead"
    BY <1>1, <1>2, <1>5
  <2>2. /\ fed = 0 \/ body[fed] # "lead"
        /\ framer = W[Len(a)].f /\ framed = W[Len(a)].out
    BY <2>1 DEF FramesInv, CharsFed
  <2>3. a \in Seq(Chars) /\ b \in Seq(Chars) /\ c \in Seq(Chars)
    <3>1. Len(chunk) \in 0..Len(chunk) /\ Len(rest) \in 0..Len(rest)
      BY <1>3
    <3> HIDE DEF chunk, rest
    <3> QED
      BY <1>2, <1>3, <3>1, DecodingWalks DEF Decoded
  <2>4. Decoding(body)[fed + n] = a \o b
    BY <1>1, <1>2, <2>2, CutBetween
  <2>5. whole = (a \o b) \o c
    <3> DEFINE at == fed + n
               k == Len(body) - at
    <3>1. at \in 0..Len(body) /\ k \in Nat /\ at + k = Len(body) /\ body[at] # "lead"
      BY <1>3, <2>1
    <3>2. rest = SubSeq(body, at + 1, at + k)
      BY <3>1
    <3> HIDE DEF at, k, rest
    <3>3. at + k <= Len(body)
      BY <1>2, <3>1
    <3>4. Decoding(body)[at + k] = Decoding(body)[at] \o Decoded(SubSeq(body, at + 1, at + k))
      BY <1>2, <3>1, <3>3, CutBetween
    <3>5. Decoding(body)[Len(body)] = Decoding(body)[at] \o c
      BY <3>1, <3>2, <3>4
    <3> QED
      BY <2>4, <3>5 DEF Decoded, at
  <2> HIDE DEF a, b, c, whole
  <2>6. /\ whole \in Seq(Chars) /\ Len(a) + Len(b) <= Len(whole)
        /\ SubSeq(whole, Len(a) + 1, Len(a) + Len(b)) = b
    BY <2>3, <2>5, Between
  <2>7. Len(a) \in Nat /\ Len(b) \in Nat /\ Len(a \o b) = Len(a) + Len(b)
    BY <2>3
  <2>8. Len(a) \in 0..Len(whole)
    BY <2>6, <2>7
  <2>9. LET now == Feed(W[Len(a)].f, b)
        IN now.f = W[Len(a) + Len(b)].f /\ W[Len(a)].out \o now.out = W[Len(a) + Len(b)].out
    BY <2>6, <2>7, <2>8, ChunkFed
  <2>10. fedNow = Feed(W[Len(a)].f, b)
    BY <2>2 DEF b
  <2> QED
    BY <1>1, <2>1, <2>2, <2>4, <2>7, <2>9, <2>10 DEF whole
<1> QED
  BY <1>1, <1>2, <1>3, <1>4, <1>5 DEF FramesInv, CharsFed

(***************************************************************************)
(* Wherever the network cut a body of any length, if it cut no character   *)
(* in two, the framer yields the events the format reads in the body's     *)
(* text, names and data lines whole (SseFramer::feed).                     *)
(***************************************************************************)
THEOREM EventsWhole == FramesSpec => []WholeEvents
<1>1. FramesInit => FramesInv
  <2> SUFFICES ASSUME FramesInit PROVE FramesInv
    OBVIOUS
  <2>1. PICK n \in 0..MaxBytes : bodyBytes \in [1..n -> Bytes]
    BY DEF FramesInit
  <2>2. bodyBytes \in Seq(Bytes)
    BY <2>1, FramesAssumption
  <2>3. Decoding(bodyBytes)[0] = <<>> /\ Decoded(bodyBytes) \in Seq(Chars)
    <3>1. Len(bodyBytes) \in 0..Len(bodyBytes)
      BY <2>2
    <3> QED
      BY <2>2, <3>1, DecodingWalks DEF Decoded
  <2>4. FeedWalk(Empty, Decoded(bodyBytes))[0] = [f |-> Empty, out |-> <<>>]
    BY <2>3, EmptyTyped, FeedWalks
  <2>5. fed = 0 /\ torn = FALSE /\ framer = Empty /\ framed = <<>>
    BY DEF FramesInit
  <2>6. CharsFed = 0
    BY <2>3, <2>5 DEF CharsFed
  <2>7. 0 \in 0..Len(bodyBytes)
    BY <2>2
  <2>8. /\ framer = FeedWalk(Empty, Decoded(bodyBytes))[CharsFed].f
        /\ framed = FeedWalk(Empty, Decoded(bodyBytes))[CharsFed].out
    <3>1. FeedWalk(Empty, Decoded(bodyBytes))[CharsFed] = [f |-> Empty, out |-> <<>>]
      BY <2>4, <2>6
    <3> QED
      BY <2>5, <3>1
  <2> HIDE DEF CharsFed
  <2> QED
    BY <2>2, <2>5, <2>7, <2>8 DEF FramesInv
<1>2. FramesInv /\ [FramesNext]_frameVars => FramesInv'
  <2> SUFFICES ASSUME FramesInv, [FramesNext]_frameVars PROVE FramesInv'
    OBVIOUS
  <2>1. CASE UNCHANGED frameVars
    BY <2>1 DEF FramesInv, frameVars, CharsFed
  <2>2. ASSUME NEW n \in 1..MaxBytes, FeedChunk(n) PROVE FramesInv'
    <3>1. n \in Nat /\ n > 0
      BY FramesAssumption
    <3> QED
      BY <2>2, <3>1, FeedKeeps
  <2> QED
    BY <2>1, <2>2 DEF FramesNext
<1>3. FramesInv => WholeEvents
  <2> SUFFICES ASSUME FramesInv, fed = Len(bodyBytes), ~torn
               PROVE  framed = EventsOf(Decoded(bodyBytes))
    BY DEF WholeEvents
  <2>1. bodyBytes \in Seq(Bytes) /\ fed \in 0..Len(bodyBytes)
    BY DEF FramesInv
  <2>2. Decoded(bodyBytes) \in Seq(Chars) /\ CharsFed = Len(Decoded(bodyBytes))
    BY <2>1, DecodingWalks DEF Decoded, CharsFed
  <2>3. CharsFed \in 0..Len(Decoded(bodyBytes))
    BY <2>2
  <2>4. FeedWalk(Empty, Decoded(bodyBytes))[CharsFed].out = EventsUpTo(Decoded(bodyBytes))[CharsFed]
    BY <2>2, <2>3, WalkAgrees DEF Agrees
  <2> QED
    BY <2>2, <2>4 DEF FramesInv, EventsOf
<1> QED
  BY <1>1, <1>2, <1>3, PTL DEF FramesSpec

=============================================================================
