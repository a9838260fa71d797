--------------------------- MODULE RotationProofs ---------------------------
(***************************************************************************)
(* Proofs about Rotation for any number of requests, members, providers    *)
(* and routes and any clock: the attempts a request states are the calls   *)
(* it paid for, no member an answer of this request emptied is asked       *)
(* again, and an emptied pool's verdict held at some moment of the walk.   *)
(*                                                                         *)
(* RotationInv is a conjunction of one part per request (RequestInv) with  *)
(* the types.  Each action has a lemma that shows the part of the request  *)
(* it moves; lemma Moves adds the others, whose parts a step of another    *)
(* request leaves alone or, for the history of verdicts, only lets grow.   *)
(***************************************************************************)
EXTENDS Rotation, TLAPS

\* The stages of a walk over one route, and those in which it is at a member.
Visiting == {"redeem", "call", "refresh", "retry", "verdict", "retire", "disable",
             "rejected", "committed"} \cup Reading

\* A request that walks a route, one that ended, and the members still ahead of it.
Walking == {"sizing", "roster", "member"} \cup Visiting

Ended == {"answered", "committed"}

\* The members still ahead of a walk.
Ahead(w) == {w.lead} \cup w.live \cup w.blocked

\* What a request has paid for so far.
Settled(a, total, n) == IF a.streaming THEN total <= n ELSE total = n

\* The attempts a request states are the calls it paid for, at each stage.
PaidFor(stage, a, k, w, ans, n) ==
    /\ stage \in Ended => ans \in Answers /\ Settled(a, ans.attempts, n)
    /\ stage \notin Ended => ans = None
    /\ stage = "idle" => n = 0 /\ k.attempts = 0 /\ w.attempts = 0
    /\ stage \notin Ended \cup {"idle"} =>
         Settled(a, k.attempts + w.attempts, n) /\ (~a.selector => k.attempts = 0)
    /\ stage \in {"routing", "sizing", "roster"} => w.attempts = 0
    /\ stage \in {"refresh", "retry", "verdict"} => w.attempts >= 1

\* The provider a walk asks has not emptied before.
Unasked(stage, k, w) ==
    stage \in Walking => w.route \in Routes /\ RouteOf[w.route] \notin k.emptied

\* A member that could be waited for.
Waitable(st, m) == st[m] \notin {{}, {"owed"}}

\* The request is about to read the verdict of this member.
Read(stage, w, m) == stage \in Reading /\ w.at = m

\* What a walk knows of its members held at some moment since it began.
WatchedFor(stage, w, st, rows, t) ==
    /\ stage \in Visiting => w.at \in Members
    /\ stage \in {"sizing", "roster"} => st = Unwatched /\ w.saw = {} /\ w.at = None
    /\ stage = "member" => Following(w) # {} \/ w.saw # {} \/ w.limit # None
    /\ stage \in Reading => Standing(rows[w.at], t) \in st[w.at]
    /\ stage = "spent" => Waitable(st, w.at)
    /\ stage \in Walking =>
         /\ "rate_limit_block" \in w.saw => \E m \in Members : Waitable(st, m)
         /\ \A m \in Members : st[m] = {"rate_limited"} /\ ~Read(stage, w, m)
                                 => "rate_limit_block" \in w.saw
    /\ stage \in Walking \ {"sizing", "roster"} =>
         \A m \in Members \cap Ahead(w) : st[m] = {} /\ m # w.at

\* What is known of one request.
RequestInv(r) ==
    /\ PaidFor(pc[r], ask[r], ranked[r], walk[r], answer[r], paid[r])
    /\ Unasked(pc[r], ranked[r], walk[r])
    /\ WatchedFor(pc[r], walk[r], stood[r], ledger, now)

\* The inductive invariant of rotation.
RotationInv ==
    /\ RotationTypeOK
    /\ \A r \in Requests : RequestInv(r)

-----------------------------------------------------------------------------
(***************************************************************************)
(* The rows a walk reads and writes.                                       *)
(***************************************************************************)
\* A row is its own entry.
LEMMA RowEntry ==
    ASSUME NEW r \in Rows
    PROVE  Entry(r) = r
  BY RowAssumption DEF RowAssumption, Entry

\* The entry of a member without a row is a row.
LEMMA EntryRow ==
    ASSUME NEW r \in Rows \cup {None}
    PROVE  Entry(r) \in Rows
  BY DEF Entry, Rows, Default

\* Replacing the credential keeps a row.
LEMMA CredentialPut ==
    ASSUME NEW r \in Rows \cup {None}, NEW c \in Credentials \cup {None}
    PROVE  WithCredential(r, c) \in Rows
  BY EntryRow DEF WithCredential, Rows

\* Replacing the block keeps a row.
LEMMA BlockPut ==
    ASSUME NEW r \in Rows \cup {None}, NEW b \in Blocks \cup {None}
    PROVE  WithBlock(r, b) \in Rows
  BY EntryRow DEF WithBlock, Rows

\* The credential a record_* function builds is one, and it is not None.
LEMMA CredentialTyped ==
    ASSUME NEW s \in CredentialState, NEW c \in Causes \cup {None}, NEW t \in Int,
           NEW e \in Int \cup {None}
    PROVE  Credential(s, c, t, e) \in Credentials /\ Credential(s, c, t, e).state = s
  BY DEF Credential, Credentials

\* The fields of a row are typed.
LEMMA FieldsTyped ==
    ASSUME NEW r \in Rows \cup {None}
    PROVE  /\ StateOf(r) \in CredentialState \cup {None}
           /\ ExpiryOf(r) \in Int \cup {None}
           /\ Entry(r).block \in Blocks \cup {None}
  <1>1. Entry(r) \in Rows
    BY EntryRow
  <1>2. Entry(r).credential \in Credentials \cup {None} /\ Entry(r).block \in Blocks \cup {None}
    BY <1>1 DEF Rows
  <1>. QED
    BY <1>2 DEF StateOf, ExpiryOf, Credentials

\* A row with the credential a record_* function builds.
LEMMA CredentialStated ==
    ASSUME NEW r \in Rows \cup {None}, NEW s \in CredentialState, NEW c \in Causes \cup {None},
           NEW t \in Int, NEW e \in Int \cup {None}
    PROVE  WithCredential(r, Credential(s, c, t, e)) \in Rows
  BY CredentialPut, CredentialTyped

\* The credential states the proofs name.
LEMMA Literals ==
    /\ {"active", "needs_reauthorization", "disabled"} \subseteq CredentialState
    /\ None \notin CredentialState
  BY RowAssumption DEF RowAssumption, CredentialState

\* Clearing a refusal leaves a row.
LEMMA UnrefusedRow ==
    ASSUME NEW r \in Rows
    PROVE  Unrefused(r) \in Rows
  BY BlockPut, RowEntry DEF Unrefused

\* A grant in working order is recorded in a row.
LEMMA ActiveRow ==
    ASSUME NEW r \in Rows, NEW t \in Int
    PROVE  Active(r, None, TRUE, t) \in Rows /\ SignedIn(r, t) \in Rows
  <1>1. Unrefused(r) \in Rows
    BY UnrefusedRow
  <1> DEFINE s == WithCredential(Unrefused(r), Credential("active", None, t, None))
  <1>2. s \in Rows
    BY <1>1, CredentialStated, Literals
  <1>3. Active(r, None, TRUE, t) = s /\ SignedIn(r, t) = s
    BY DEF Active, Unchanged, SignedIn
  <1>. QED
    BY <1>2, <1>3

\* A refusal is recorded in a row.
LEMMA RefusedRow ==
    ASSUME NEW r \in Rows, NEW t \in Int, NEW c \in Causes
    PROVE  Refused(r, c, t) \in Rows
  <1>1. Disowned(r) => Entry(r).credential \in Credentials
    BY EntryRow, Literals DEF Disowned, StateOf, Rows
  <1>2. Established(r, c, t) \in Int
    BY <1>1 DEF Established, Credentials
  <1> DEFINE d == Credential("needs_reauthorization", c, Established(r, c, t), ExpiryOf(r))
  <1> DEFINE s == WithCredential(r, d)
  <1>3. s \in Rows
    BY <1>2, FieldsTyped, CredentialStated, Literals
  <1>4. BlockUntil(t + BlockTime, "unauthorized") \in Blocks
    BY RowAssumption DEF RowAssumption, BlockUntil, Blocks
  <1>5. Refused(r, c, t) = WithBlock(s, BlockUntil(t + BlockTime, "unauthorized"))
    BY DEF Refused
  <1> HIDE DEF s
  <1>. QED
    BY <1>3, <1>4, <1>5, BlockPut

\* An answer is recorded in a row.
LEMMA AnsweredRow ==
    ASSUME NEW r \in Rows, NEW t \in Int
    PROVE  Answered(r, t) \in Rows
  <1> DEFINE b == WithBlock(r, None)
  <1>1. b \in Rows
    BY BlockPut
  <1> DEFINE s == WithCredential(b, Credential("active", None, t, ExpiryOf(r)))
  <1>2. Answered(r, t) = IF Disowned(r) THEN s ELSE b
    BY DEF Answered
  <1> HIDE DEF b
  <1>3. s \in Rows
    BY <1>1, FieldsTyped, CredentialStated, Literals
  <1> HIDE DEF s
  <1>. QED
    BY <1>1, <1>2, <1>3

\* A block or a report is recorded in a row.
LEMMA BlockedRow ==
    ASSUME NEW r \in Rows, NEW u \in Int, NEW t \in Int,
           NEW why \in {"rate_limited", "quota_exhausted"}
    PROVE  Blocked(r, u, why, t) \in Rows /\ Reported(r, u) \in Rows
  <1>1. BlockUntil(u, why) \in Blocks /\ BlockUntil(u, "rate_limited") \in Blocks
    BY DEF BlockUntil, Blocks
  <1>. QED
    BY <1>1, BlockPut DEF Blocked, Reported

\* So are a retirement and a reinstatement.
LEMMA OwnersRow ==
    ASSUME NEW r \in Rows, NEW t \in Int, NEW c \in Causes
    PROVE  Disabled(r, c, t) \in Rows /\ Reinstated(r, c, t) \in Rows
  BY FieldsTyped, CredentialStated, Literals DEF Disabled, Reinstated

\* The cause a refusal names is one of the causes.
LEMMA CauseTyped == Cause \in Causes
  BY RotationAssumption DEF Cause, RotationAssumption

\* What a walk keeps of a row is a row.
LEMMA KeptRow ==
    ASSUME NEW row \in Rows \cup {None}
    PROVE  Kept(row) \in Rows
  <1> DEFINE c == IF AwaitingSignIn(row) THEN Credential(StateOf(row), Cause, 0, None) ELSE None
  <1>1. AwaitingSignIn(row) => StateOf(row) \in CredentialState
    BY Literals DEF AwaitingSignIn
  <1>2. AwaitingSignIn(row) => Credential(StateOf(row), Cause, 0, None) \in Credentials
    BY <1>1, CauseTyped DEF Credential, Credentials
  <1>3. Kept(row) = WithCredential(row, c)
    BY DEF Kept, WithCredential
  <1>4. c \in Credentials \cup {None}
    BY <1>2
  <1> HIDE DEF c
  <1>. QED
    BY <1>3, <1>4, CredentialPut

\* How a member stands, and what makes it stand so.
LEMMA StandingTyped ==
    ASSUME NEW row \in Rows, NEW t \in Int
    PROVE  /\ Standing(row, t) \in Standings
           /\ Standing(row, t) = "owed" <=> Disowned(row)
           /\ Standing(row, t) = "rate_limited" =>
                 ~(IsBlocked(row, t) /\ row.block.why = "quota_exhausted")
  <1>1. Entry(row) = row /\ row.block \in Blocks \cup {None}
    BY RowEntry, FieldsTyped
  <1>2. IsBlocked(row, t) => row.block.why \in {"rate_limited", "quota_exhausted", "unauthorized"}
    BY <1>1 DEF IsBlocked, Blocks
  <1>. QED
    BY <1>2 DEF Standing, Standings

-----------------------------------------------------------------------------
(***************************************************************************)
(* One step, seen by the request that takes it and by the others.          *)
(***************************************************************************)
\* What a step may do to what was noted of a request that does not move.
Grown(s) ==
    \A n \in Members :
        /\ stood[s][n] \subseteq stood'[s][n]
        /\ ~Read(pc[s], walk[s], n) => stood'[s][n] = stood[s][n]
        /\ Read(pc[s], walk[s], n) => Standing(ledger'[n], now') \in stood'[s][n]

\* The history of verdicts is typed.
StoodTyped == stood \in [Requests -> [Members -> SUBSET Standings]]

\* A step that touches neither rows nor clock grows nothing.
LEMMA Quiet ==
    ASSUME RotationInv, NEW s \in Requests, ledger' = ledger, now' = now,
           stood'[s] = stood[s]
    PROVE  Grown(s)
  BY DEF RotationInv, RequestInv, WatchedFor, Grown, Read

\* The same, for any notes that grew only where a block is being read.
LEMMA WatchGrows ==
    ASSUME NEW st \in [Members -> SUBSET Standings], NEW tt \in [Members -> SUBSET Standings],
           NEW stage, NEW w, NEW old, NEW rows, NEW was, NEW t,
           WatchedFor(stage, w, st, old, was),
           \A n \in Members : st[n] \subseteq tt[n],
           \A n \in Members : ~Read(stage, w, n) => tt[n] = st[n],
           \A n \in Members : Read(stage, w, n) => Standing(rows[n], t) \in tt[n]
    PROVE  WatchedFor(stage, w, tt, rows, t)
  <1>4. \A n \in Members : Waitable(st, n) => Waitable(tt, n)
    BY DEF Waitable
  <1>5. stage \in {"sizing", "roster"} => tt = Unwatched
    <2>1. stage \in {"sizing", "roster"} => st = Unwatched /\ \A n \in Members : ~Read(stage, w, n)
      BY DEF WatchedFor, Read, Reading
    <2>. QED
      BY <2>1 DEF Unwatched
  <1>6. stage \in Reading => w.at \in Members
    BY DEF WatchedFor, Visiting
  <1>7. stage = "spent" => w.at \in Members
    BY <1>6 DEF Reading
  <1>8. WatchedFor(stage, w, tt, rows, t)
    <2>1. /\ stage \in Visiting => w.at \in Members
          /\ stage \in {"sizing", "roster"} => tt = Unwatched /\ w.saw = {} /\ w.at = None
          /\ stage = "member" => Following(w) # {} \/ w.saw # {} \/ w.limit # None
      BY <1>5 DEF WatchedFor
    <2>2. /\ stage \in Reading => Standing(rows[w.at], t) \in tt[w.at]
          /\ stage = "spent" => Waitable(tt, w.at)
      BY <1>4, <1>6, <1>7 DEF WatchedFor, Read
    <2>3. stage \in Walking =>
            ("rate_limit_block" \in w.saw => \E m \in Members : Waitable(tt, m))
      BY <1>4 DEF WatchedFor
    <2>4. stage \in Walking =>
            \A m \in Members : tt[m] = {"rate_limited"} /\ ~Read(stage, w, m)
                                 => "rate_limit_block" \in w.saw
      BY DEF WatchedFor
    <2>5. stage \in Walking \ {"sizing", "roster"} =>
            \A m \in Members \cap Ahead(w) : tt[m] = {} /\ m # w.at
      <3>1. SUFFICES ASSUME stage \in Walking \ {"sizing", "roster"}, NEW m \in Members,
                            m \in Ahead(w)
                     PROVE  tt[m] = {} /\ m # w.at
        OBVIOUS
      <3>2. st[m] = {} /\ m # w.at
        BY <3>1 DEF WatchedFor
      <3>3. ~Read(stage, w, m)
        BY <3>2 DEF Read
      <3>. QED
        BY <3>2, <3>3
    <2>. QED
      BY <2>1, <2>2, <2>3, <2>4, <2>5 DEF WatchedFor
  <1>. QED
    BY <1>8

\* A request that does not move keeps its part of the invariant.
LEMMA OthersKeep ==
    ASSUME RotationInv, NEW s \in Requests, Grown(s), StoodTyped',
           pc'[s] = pc[s], ask'[s] = ask[s], ranked'[s] = ranked[s], walk'[s] = walk[s],
           answer'[s] = answer[s], paid'[s] = paid[s]
    PROVE  RequestInv(s)'
  <1>1. RequestInv(s) /\ StoodTyped
    BY DEF RotationInv, RotationTypeOK, StoodTyped
  <1>2. /\ PaidFor(pc[s], ask[s], ranked[s], walk[s], answer[s], paid[s])'
        /\ Unasked(pc[s], ranked[s], walk[s])'
    BY <1>1 DEF RequestInv, PaidFor, Settled, Unasked
  <1>3. WatchedFor(pc[s], walk[s], stood'[s], ledger', now')
    <2>1. /\ stood[s] \in [Members -> SUBSET Standings] /\ stood'[s] \in [Members -> SUBSET Standings]
          /\ WatchedFor(pc[s], walk[s], stood[s], ledger, now)
      BY <1>1 DEF StoodTyped, RequestInv
    <2>2. \A n \in Members :
            /\ stood[s][n] \subseteq stood'[s][n]
            /\ ~Read(pc[s], walk[s], n) => stood'[s][n] = stood[s][n]
            /\ Read(pc[s], walk[s], n) => Standing(ledger'[n], now') \in stood'[s][n]
      BY DEF Grown
    <2>. QED
      BY <2>1, <2>2, WatchGrows
  <1>. QED
    BY <1>2, <1>3 DEF RequestInv

\* The ledger, the journal and the clock are typed.
WorldTyped ==
    /\ ledger \in [Members -> Rows]
    /\ retired \in SUBSET Members
    /\ listed \in (SUBSET Members) \cup {None}
    /\ now \in 0 .. MaxTime /\ asked \in 0 .. MaxAsked /\ outside \in 0 .. MaxOutside
    /\ owing \in SUBSET ({"retire", "reinstate"} \X Members)

\* A step of request r: everybody else's state is left alone.
Alone(r) ==
    /\ \A s \in Requests \ {r} :
          /\ pc'[s] = pc[s] /\ ask'[s] = ask[s] /\ ranked'[s] = ranked[s]
          /\ walk'[s] = walk[s] /\ answer'[s] = answer[s] /\ paid'[s] = paid[s]
    /\ pc' \in [Requests -> Stages] /\ ask' \in [Requests -> Asks \cup {None}]
    /\ ranked' \in [Requests -> Ranks] /\ walk' \in [Requests -> Walks]
    /\ answer' \in [Requests -> Answers \cup {None}] /\ paid' \in [Requests -> Nat]

\* What a step keeps besides the request that takes it.
Around(r) ==
    /\ WorldTyped' /\ StoodTyped'
    /\ \A s \in Requests \ {r} : Grown(s)

\* A step of one request that keeps its own part, and the world around it, keeps the invariant.
LEMMA Moves ==
    ASSUME RotationInv, NEW r \in Requests, Alone(r), Around(r), RequestInv(r)'
    PROVE  RotationInv'
  <1>1. ASSUME NEW s \in Requests, s # r
        PROVE  RequestInv(s)'
    BY <1>1, OthersKeep DEF Alone, Around
  <1>2. RotationTypeOK'
    BY DEF RotationTypeOK, WorldTyped, StoodTyped, Alone, Around
  <1>. QED
    BY <1>1, <1>2 DEF RotationInv, Around

\* A written row: what was noted of the reading requests grows by how the
\* member now stands.
LEMMA Wrote ==
    ASSUME RotationInv, NEW m \in Members, NEW row \in Rows, SetRow(m, row), now' = now
    PROVE  /\ ledger' \in [Members -> Rows]
           /\ StoodTyped'
           /\ \A s \in Requests : Grown(s)
  <1>1. /\ ledger \in [Members -> Rows] /\ StoodTyped /\ now \in Int
    BY RotationAssumption DEF RotationInv, RotationTypeOK, StoodTyped, RotationAssumption
  <1>2. ledger' = [ledger EXCEPT ![m] = Kept(row)] /\ Watch(ledger', now)
    BY DEF SetRow
  <1>3. Kept(row) \in Rows
    BY KeptRow
  <1>4. ledger' \in [Members -> Rows]
    BY <1>1, <1>2, <1>3
  <1>6. \A n \in Members : Standing(ledger'[n], now) \in Standings
    BY <1>1, <1>4, StandingTyped
  <1>7. StoodTyped'
    BY <1>1, <1>2, <1>6 DEF Watch, StoodTyped
  <1>8. \A s \in Requests : Grown(s)
    BY <1>1, <1>2 DEF Watch, Grown, Read, StoodTyped
  <1>. QED
    BY <1>4, <1>7, <1>8

-----------------------------------------------------------------------------
(***************************************************************************)
(* The ways a walk goes on.                                                *)
(***************************************************************************)
\* What the invariant says of one request before a step.
LEMMA Here ==
    ASSUME RotationInv, NEW r \in Requests
    PROVE  /\ pc[r] \in Stages /\ ask[r] \in Asks \cup {None} /\ ranked[r] \in Ranks
           /\ walk[r] \in Walks /\ answer[r] \in Answers \cup {None} /\ paid[r] \in Nat
           /\ stood[r] \in [Members -> SUBSET Standings]
           /\ PaidFor(pc[r], ask[r], ranked[r], walk[r], answer[r], paid[r])
           /\ Unasked(pc[r], ranked[r], walk[r])
           /\ WatchedFor(pc[r], walk[r], stood[r], ledger, now)
           /\ WorldTyped /\ StoodTyped
  BY DEF RotationInv, RotationTypeOK, RequestInv, WorldTyped, StoodTyped

\* What a step leaves alone, as Moves wants it.
LEMMA Same ==
    ASSUME RotationInv, NEW r \in Requests
    PROVE  /\ pc = [pc EXCEPT ![r] = pc[r]]
           /\ ask = [ask EXCEPT ![r] = ask[r]]
           /\ ranked = [ranked EXCEPT ![r] = ranked[r]]
           /\ walk = [walk EXCEPT ![r] = walk[r]]
           /\ answer = [answer EXCEPT ![r] = answer[r]]
           /\ paid = [paid EXCEPT ![r] = paid[r]]
  BY DEF RotationInv, RotationTypeOK

\* Nothing is noted of a request outside a walk.
LEMMA NotWalking ==
    ASSUME NEW stage \in {"idle", "routing", "answered"}, NEW k, NEW w, NEW st, NEW rows,
           NEW t
    PROVE  Unasked(stage, k, w) /\ WatchedFor(stage, w, st, rows, t)
  BY DEF Unasked, WatchedFor, Walking, Visiting, Reading

\* A walk that stays at its member, and reads no block.
LEMMA StaysAt ==
    ASSUME NEW stage \in Visiting \ Reading, NEW next \in Visiting \ Reading,
           NEW v, NEW w, NEW st, NEW old, NEW was, NEW rows, NEW t,
           WatchedFor(stage, v, st, old, was),
           w.at = v.at, w.saw = v.saw, w.lead = v.lead, w.live = v.live, w.blocked = v.blocked
    PROVE  WatchedFor(next, w, st, rows, t)
  <1>1. /\ v.at \in Members
        /\ "rate_limit_block" \in v.saw => \E m \in Members : Waitable(st, m)
        /\ \A m \in Members : st[m] = {"rate_limited"} => "rate_limit_block" \in v.saw
        /\ \A m \in Members \cap Ahead(v) : st[m] = {} /\ m # v.at
    BY DEF WatchedFor, Walking, Read, Visiting, Reading
  <1>2. Ahead(w) = Ahead(v)
    BY DEF Ahead
  <1>3. "rate_limit_block" \in w.saw => \E m \in Members : Waitable(st, m)
    BY <1>1 DEF Waitable
  <1>4. next \notin Reading \cup {"sizing", "roster", "member", "spent"}
    BY DEF Visiting, Reading
  <1>. QED
    BY <1>1, <1>2, <1>3, <1>4 DEF WatchedFor

\* A walk that leaves its member with something seen, or a limit met.
LEMMA GoesOn ==
    ASSUME NEW stage \in Visiting, NEW v, NEW w, NEW st, NEW old, NEW was, NEW rows,
           NEW t,
           WatchedFor(stage, v, st, old, was),
           w.at = None, v.saw \subseteq w.saw, w.lead = v.lead, w.live = v.live,
           w.blocked = v.blocked, w.saw # {} \/ w.limit # None,
           "rate_limit_block" \in w.saw \ v.saw => \E m \in Members : Waitable(st, m),
           stage \in Reading /\ st[v.at] = {"rate_limited"} => "rate_limit_block" \in w.saw
    PROVE  WatchedFor("member", w, st, rows, t)
  <1>1. /\ "rate_limit_block" \in v.saw => \E m \in Members : Waitable(st, m)
        /\ \A m \in Members : st[m] = {"rate_limited"} /\ ~Read(stage, v, m)
                                => "rate_limit_block" \in v.saw
        /\ \A m \in Members \cap Ahead(v) : st[m] = {}
    BY DEF WatchedFor, Walking, Visiting, Reading
  <1>2. Ahead(w) = Ahead(v)
    BY DEF Ahead
  <1>3. "rate_limit_block" \in w.saw => \E m \in Members : Waitable(st, m)
    BY <1>1 DEF Waitable
  <1>4. \A m \in Members : st[m] = {"rate_limited"} => "rate_limit_block" \in w.saw
    BY <1>1 DEF Read
  <1>5. "member" \notin Visiting /\ "member" \notin Reading
    BY DEF Visiting, Reading
  <1>6. \A m \in Members : m # w.at
    BY RotationAssumption DEF RotationAssumption
  <1>. QED
    BY <1>1, <1>2, <1>3, <1>4, <1>5, <1>6 DEF WatchedFor

\* The stages the proofs name.
LEMMA StageTyped ==
    /\ Visiting \subseteq Stages /\ Reading \subseteq Stages
    /\ {"idle", "routing", "sizing", "roster", "member", "answered"} \subseteq Stages
  BY DEF Stages, Visiting, Reading

\* The bill of a request that makes no call and is not answered.
LEMMA BillStands ==
    ASSUME NEW stage, NEW next, NEW a, NEW k, NEW l, NEW v, NEW w, NEW ans, NEW n,
           PaidFor(stage, a, k, v, ans, n), stage \notin Ended \cup {"idle"},
           next \notin Ended \cup {"idle"},
           k.attempts = l.attempts, v.attempts = w.attempts,
           next \in {"routing", "sizing", "roster"} => w.attempts = 0,
           next \in {"refresh", "retry", "verdict"} => w.attempts >= 1
    PROVE  PaidFor(next, a, l, w, ans, n)
  BY DEF PaidFor

\* The walk a member is left with (NextOne).
LEMMA LeftWalk ==
    ASSUME NEW w \in Walks
    PROVE  LET x == [w EXCEPT !.at = None, !.got = None, !.fresh = FALSE]
           IN  /\ x \in Walks /\ x.at = None /\ x.saw = w.saw /\ x.lead = w.lead
               /\ x.live = w.live /\ x.blocked = w.blocked /\ x.limit = w.limit
               /\ x.attempts = w.attempts /\ x.route = w.route
  BY DEF Walks

\* NextOne keeps the invariant whatever the step wrote.
LEMMA NextOneKeeps ==
    ASSUME RotationInv, NEW r \in Requests, pc[r] \in Visiting \ {"committed"},
           NEW w \in Walks, NextOne(r, w),
           UNCHANGED <<ask, ranked, answer, paid>>, Around(r), stood'[r] = stood[r],
           walk[r].saw \subseteq w.saw, w.lead = walk[r].lead, w.live = walk[r].live,
           w.blocked = walk[r].blocked, w.attempts = walk[r].attempts, w.route = walk[r].route,
           w.saw # {} \/ w.limit # None,
           "rate_limit_block" \in w.saw \ walk[r].saw
             => \E m \in Members : Waitable(stood[r], m),
           pc[r] \in Reading /\ stood[r][walk[r].at] = {"rate_limited"}
             => "rate_limit_block" \in w.saw
    PROVE  RotationInv'
  <1> DEFINE x == [w EXCEPT !.at = None, !.got = None, !.fresh = FALSE]
  <1>1. /\ x \in Walks /\ x.at = None /\ x.saw = w.saw /\ x.lead = w.lead
        /\ x.live = w.live /\ x.blocked = w.blocked /\ x.limit = w.limit
        /\ x.attempts = w.attempts /\ x.route = w.route
    BY LeftWalk
  <1>2. pc' = [pc EXCEPT ![r] = "member"] /\ walk' = [walk EXCEPT ![r] = x]
    BY DEF NextOne, Goto
  <1> HIDE DEF x
  <1>3. PaidFor("member", ask[r], ranked[r], x, answer[r], paid[r])
    <2>1. pc[r] \notin Ended \cup {"idle"} /\ "member" \notin Ended \cup {"idle"}
      BY DEF Ended, Visiting, Reading
    <2>. QED
      BY <1>1, <2>1, Here, BillStands
  <1>4. Unasked("member", ranked[r], x)
    BY <1>1, Here DEF Unasked, Walking
  <1>5. WatchedFor("member", x, stood'[r], ledger', now')
    BY <1>1, Here, GoesOn DEF Around
  <1>6. "member" \in Stages
    BY StageTyped
  <1>7. Alone(r) /\ pc'[r] = "member" /\ walk'[r] = x
    BY <1>1, <1>2, <1>6 DEF Alone, RotationInv, RotationTypeOK
  <1>8. RequestInv(r)'
    BY <1>3, <1>4, <1>5, <1>7 DEF RequestInv
  <1>. QED
    BY <1>7, <1>8, Moves

\* A step to another stage at the same member, with d calls made in it.
LEMMA StaysKeeps ==
    ASSUME RotationInv, NEW r \in Requests, pc[r] \in Visiting \ (Reading \cup {"committed"}),
           NEW next \in Visiting \ (Reading \cup {"committed"}), NEW x \in Walks, NEW d \in {0, 1},
           pc' = [pc EXCEPT ![r] = next], walk' = [walk EXCEPT ![r] = x],
           paid' = [paid EXCEPT ![r] = paid[r] + d], UNCHANGED <<ask, ranked, answer>>, Around(r),
           stood'[r] = stood[r], x.at = walk[r].at, x.saw = walk[r].saw, x.lead = walk[r].lead,
           x.live = walk[r].live, x.blocked = walk[r].blocked, x.route = walk[r].route,
           x.attempts = walk[r].attempts + d,
           next \in {"refresh", "retry", "verdict"} => x.attempts >= 1
    PROVE  RotationInv'
  <1>1. /\ walk[r].attempts \in Nat /\ ranked[r].attempts \in Nat /\ paid[r] \in Nat
    BY Here DEF Walks, Ranks
  <1>2. /\ pc[r] \notin Ended \cup {"idle"} /\ next \notin Ended \cup {"idle"}
        /\ next \notin {"routing", "sizing", "roster"}
    BY DEF Ended, Visiting, Reading
  <1>3. PaidFor(next, ask[r], ranked[r], x, answer[r], paid[r] + d)
    BY <1>1, <1>2, Here DEF PaidFor, Settled
  <1>4. Unasked(next, ranked[r], x)
    BY Here DEF Unasked, Walking
  <1>5. WatchedFor(next, x, stood'[r], ledger', now')
    BY Here, StaysAt DEF Around
  <1>6. next \in Stages
    BY StageTyped
  <1>7. Alone(r) /\ pc'[r] = next /\ walk'[r] = x /\ paid'[r] = paid[r] + d
    BY <1>1, <1>6 DEF Alone, RotationInv, RotationTypeOK
  <1>8. RequestInv(r)'
    BY <1>3, <1>4, <1>5, <1>7 DEF RequestInv
  <1>. QED
    BY <1>7, <1>8, Moves

\* A walk not begun has paid for nothing.
LEMMA NoneWalk ==
    /\ NoWalk \in Walks /\ NoWalk.attempts = 0 /\ NoWalk.saw = {}
    /\ NoRanked \in Ranks /\ NoRanked.attempts = 0
  BY DEF NoWalk, Walks, NoRanked, Ranks

\* A route's refusal: noted by a selector, the answer of a named route.
LEMMA RefusalKeeps ==
    ASSUME RotationInv, NEW r \in Requests, pc[r] \in Walking \ {"committed"},
           NEW class \in Classes, NEW n \in Nat, NEW emptied \in BOOLEAN,
           RouteRefused(r, class, n, emptied), UNCHANGED <<ask, paid>>, Around(r),
           Settled(ask[r], n, walk[r].attempts)
    PROVE  RotationInv'
  <1>1. /\ walk[r].attempts \in Nat /\ ranked[r] \in Ranks /\ ranked[r].attempts \in Nat
        /\ paid[r] \in Nat
    BY Here DEF Walks, Ranks
  <1>2. /\ answer[r] = None /\ Settled(ask[r], ranked[r].attempts + walk[r].attempts, paid[r])
        /\ ~ask[r].selector => ranked[r].attempts = 0
    <2>1. pc[r] \notin Ended \cup {"idle"}
      BY DEF Ended, Walking, Visiting, Reading
    <2>. QED
      BY <2>1, Here DEF PaidFor
  <1>3. Settled(ask[r], ranked[r].attempts + n, paid[r])
    BY <1>1, <1>2 DEF Settled
  <1>4. walk' = [walk EXCEPT ![r] = NoWalk] /\ NoWalk \in Walks
    BY NoneWalk DEF RouteRefused
  <1>5. CASE ask[r].selector
    <2> DEFINE p == IF emptied THEN {RouteOf[walk[r].route]} ELSE {}
    <2> DEFINE k == [ranked[r] EXCEPT !.attempts = @ + n, !.classes = @ \cup {class},
                                      !.emptied = @ \cup p]
    <2>1. walk[r].route \in Routes
      BY Here DEF Unasked
    <2>2. p \in SUBSET Providers
      BY <2>1 DEF Providers
    <2>3. ranked' = [ranked EXCEPT ![r] = k]
      <3>1. ranked' = [ranked EXCEPT ![r].attempts = @ + n, ![r].classes = @ \cup {class},
                                     ![r].emptied = @ \cup p]
        BY <1>5 DEF RouteRefused
      <3>. QED
        BY <3>1, <1>1 DEF RotationInv, RotationTypeOK, Ranks
    <2> HIDE DEF p
    <2>4. k \in Ranks /\ k.attempts = ranked[r].attempts + n
      <3> DEFINE j == ranked[r]
                 a == j.attempts + n
                 c == j.classes \cup {class}
                 e == j.emptied \cup p
      <3>1. a \in Nat /\ c \in SUBSET Classes /\ e \in SUBSET Providers /\ j \in Ranks
        BY <1>1, <2>2 DEF Ranks
      <3>2. k = [j EXCEPT !.attempts = a, !.classes = c, !.emptied = e]
        OBVIOUS
      <3>3. a = ranked[r].attempts + n
        OBVIOUS
      <3> HIDE DEF j, a, c, e, k
      <3>4. k \in Ranks /\ k.attempts = a
        BY <3>1, <3>2 DEF Ranks
      <3>. QED
        BY <3>3, <3>4
    <2> HIDE DEF k
    <2>5. pc' = [pc EXCEPT ![r] = "routing"] /\ answer' = answer
      BY <1>5 DEF RouteRefused, Goto
    <2>6. "routing" \in Stages
      BY StageTyped
    <2>7. /\ Alone(r) /\ pc'[r] = "routing" /\ walk'[r] = NoWalk /\ ranked'[r] = k
          /\ answer'[r] = None /\ ask'[r] = ask[r] /\ paid'[r] = paid[r]
      BY <1>2, <1>4, <2>3, <2>4, <2>5, <2>6 DEF Alone, RotationInv, RotationTypeOK
    <2>8. PaidFor("routing", ask[r], k, NoWalk, None, paid[r])
      <3>1. k.attempts + NoWalk.attempts = ranked[r].attempts + n /\ NoWalk.attempts = 0
        BY <1>1, <2>4, NoneWalk
      <3>2. Settled(ask[r], k.attempts + NoWalk.attempts, paid[r])
        BY <1>3, <3>1
      <3>. QED
        BY <1>5, <3>1, <3>2 DEF PaidFor, Ended
    <2>9. RequestInv(r)'
      BY <2>7, <2>8, NotWalking DEF RequestInv
    <2>. QED
      BY <2>7, <2>9, Moves
  <1>6. CASE ~ask[r].selector
    <2> DEFINE ans == [class |-> class, attempts |-> n]
    <2>1. ans \in Answers /\ ans.attempts = n
      BY DEF Answers
    <2>2. /\ pc' = [pc EXCEPT ![r] = "answered"] /\ answer' = [answer EXCEPT ![r] = ans]
          /\ ranked' = ranked
      BY <1>6 DEF RouteRefused, Goto
    <2> HIDE DEF ans
    <2>3. "answered" \in Stages
      BY StageTyped
    <2>4. /\ Alone(r) /\ pc'[r] = "answered" /\ walk'[r] = NoWalk /\ ranked'[r] = ranked[r]
          /\ answer'[r] = ans /\ ask'[r] = ask[r] /\ paid'[r] = paid[r]
      BY <1>4, <2>1, <2>2, <2>3 DEF Alone, RotationInv, RotationTypeOK
    <2>5. Settled(ask[r], n, paid[r])
      BY <1>1, <1>2, <1>3, <1>6
    <2>6. PaidFor("answered", ask[r], ranked[r], NoWalk, ans, paid[r])
      BY <2>1, <2>5 DEF PaidFor, Ended
    <2>7. RequestInv(r)'
      BY <2>4, <2>6, NotWalking DEF RequestInv
    <2>. QED
      BY <2>4, <2>7, Moves
  <1>. QED
    BY <1>5, <1>6

\* A provider's answer served, with the one call that got it.
LEMMA ServedKeeps ==
    ASSUME RotationInv, NEW r \in Requests, pc[r] \in {"call", "retry"}, NEW x \in Walks,
           Served(r, walk[r].attempts + 1), walk' = [walk EXCEPT ![r] = x],
           paid' = [paid EXCEPT ![r] = paid[r] + 1], UNCHANGED <<ask, ranked>>, Around(r),
           stood'[r] = stood[r], x.at = walk[r].at, x.saw = walk[r].saw, x.lead = walk[r].lead,
           x.live = walk[r].live, x.blocked = walk[r].blocked, x.route = walk[r].route
    PROVE  RotationInv'
  <1>1. walk[r].attempts \in Nat /\ ranked[r].attempts \in Nat /\ paid[r] \in Nat
    BY Here DEF Walks, Ranks
  <1> DEFINE n == ranked[r].attempts + (walk[r].attempts + 1)
             ans == [class |-> "ok", attempts |-> n]
             next == IF ask[r].streaming THEN "committed" ELSE "answered"
  <1>2. n \in Nat /\ Settled(ask[r], n, paid[r] + 1)
    <2>1. pc[r] \notin Ended \cup {"idle"}
      BY DEF Ended
    <2>2. Settled(ask[r], ranked[r].attempts + walk[r].attempts, paid[r])
      BY <2>1, Here DEF PaidFor
    <2>. QED
      BY <1>1, <2>2 DEF Settled
  <1>3. answer' = [answer EXCEPT ![r] = ans] /\ pc' = [pc EXCEPT ![r] = next]
    BY DEF Served, Goto
  <1> HIDE DEF n
  <1>4. ans \in Answers /\ ans.attempts = n
    BY <1>2 DEF Answers, Classes, ProviderAnswers
  <1>5. next \in {"committed", "answered"} /\ next \in Stages /\ next \in Ended
    BY DEF Stages, Ended
  <1> HIDE DEF ans, next
  <1>6. /\ Alone(r) /\ pc'[r] = next /\ walk'[r] = x /\ ranked'[r] = ranked[r]
        /\ answer'[r] = ans /\ ask'[r] = ask[r] /\ paid'[r] = paid[r] + 1
    BY <1>1, <1>3, <1>4, <1>5 DEF Alone, RotationInv, RotationTypeOK
  <1>7. PaidFor(next, ask[r], ranked[r], x, ans, paid[r] + 1)
    BY <1>2, <1>4, <1>5 DEF PaidFor, Ended
  <1>8. Unasked(next, ranked[r], x) /\ WatchedFor(next, x, stood'[r], ledger', now')
    <2>1. CASE next = "answered"
      BY <2>1, NotWalking
    <2>2. CASE next = "committed"
      <3>1. /\ next \in Visiting \ Reading /\ pc[r] \in Visiting \ Reading
        BY <2>2 DEF Visiting, Reading
      <3>2. Unasked(next, ranked[r], x)
        BY <3>1, Here DEF Unasked, Walking
      <3>3. WatchedFor(next, x, stood'[r], ledger', now')
        BY <3>1, Here, StaysAt DEF Around
      <3>. QED
        BY <3>2, <3>3
    <2>. QED
      BY <1>5, <2>1, <2>2
  <1>9. RequestInv(r)'
    BY <1>6, <1>7, <1>8 DEF RequestInv
  <1>. QED
    BY <1>6, <1>9, Moves

-----------------------------------------------------------------------------
(***************************************************************************)
(* What the steps of a request leave around it.                            *)
(***************************************************************************)
LEMMA QuietAround ==
    ASSUME RotationInv, NEW r \in Requests, UNCHANGED <<ledger, listed, now, outside, owing>>,
           retired' \in SUBSET Members,
           asked' \in 0 .. MaxAsked, StoodTyped', \A s \in Requests \ {r} : stood'[s] = stood[s]
    PROVE  Around(r)
  <1>1. WorldTyped
    BY Here
  <1>2. WorldTyped'
    BY <1>1 DEF WorldTyped
  <1>3. \A s \in Requests \ {r} : Grown(s)
    BY Quiet
  <1>. QED
    BY <1>2, <1>3 DEF Around

\* Writing one row leaves the world typed.
LEMMA WroteAround ==
    ASSUME RotationInv, NEW r \in Requests, NEW m \in Members, NEW row \in Rows, SetRow(m, row),
           UNCHANGED <<retired, listed, now, asked, outside, owing>>
    PROVE  Around(r) /\ (pc[r] \notin Reading => stood'[r] = stood[r])
  <1>1. /\ ledger' \in [Members -> Rows] /\ StoodTyped'
        /\ \A s \in Requests : Grown(s)
    BY Wrote
  <1>2. WorldTyped /\ StoodTyped
    BY Here
  <1>3. WorldTyped'
    BY <1>1, <1>2 DEF WorldTyped
  <1>4. pc[r] \notin Reading => stood'[r] = stood[r]
    <2>1. pc[r] \notin Reading => \A n \in Members : stood'[r][n] = stood[r][n]
      BY <1>1 DEF Grown, Read
    <2>2. /\ stood[r] \in [Members -> SUBSET Standings]
          /\ stood'[r] \in [Members -> SUBSET Standings]
      BY <1>1, <1>2 DEF StoodTyped
    <2>. QED
      BY <2>1, <2>2
  <1>. QED
    BY <1>1, <1>3, <1>4 DEF Around

\* What is written into the ledger by a walk, a probe, a renewal, a sign-in,
\* a report or the owner is a row.
LEMMA RowsTyped ==
    ASSUME RotationInv, NEW m \in Members
    PROVE  /\ ledger[m] \in Rows
           /\ Active(ledger[m], None, TRUE, now) \in Rows
           /\ SignedIn(ledger[m], now) \in Rows
           /\ Answered(ledger[m], now) \in Rows
           /\ Refused(ledger[m], Cause, now) \in Rows
           /\ \A t \in Resets : Reported(ledger[m], t) \in Rows
           /\ \A got : Recorded(m, got) \in Rows
           /\ Disabled(ledger[m], Cause, now) \in Rows
           /\ Reinstated(ledger[m], Cause, now) \in Rows
           /\ now \in Int
  <1>1. ledger[m] \in Rows /\ now \in Int
    BY RotationAssumption DEF RotationInv, RotationTypeOK, RotationAssumption
  <1>2. \A t \in Resets : t \in Int
    BY RotationAssumption DEF RotationAssumption
  <1>3. \A t \in Resets : Reported(ledger[m], t) \in Rows
    BY <1>1, <1>2, BlockedRow
  <1>4. Answered(ledger[m], now) \in Rows
    BY <1>1, AnsweredRow
  <1>5. \A got : Recorded(m, got) \in Rows
    BY <1>1, <1>4 DEF Recorded
  <1>6. /\ Refused(ledger[m], Cause, now) \in Rows
        /\ Disabled(ledger[m], Cause, now) \in Rows
        /\ Reinstated(ledger[m], Cause, now) \in Rows
    BY <1>1, RefusedRow, OwnersRow, CauseTyped
  <1>7. Active(ledger[m], None, TRUE, now) \in Rows /\ SignedIn(ledger[m], now) \in Rows
    BY <1>1, ActiveRow
  <1>. QED
    BY <1>1, <1>3, <1>4, <1>5, <1>6, <1>7

-----------------------------------------------------------------------------
(***************************************************************************)
(* One lemma per action.                                                   *)
(***************************************************************************)
LEMMA StartKeeps ==
    ASSUME RotationInv, NEW r \in Requests, Start(r)
    PROVE  RotationInv'
  <1>1. PICK a \in Asks, routes \in SUBSET Routes :
            ask' = [ask EXCEPT ![r] = a] /\ ranked' = [ranked EXCEPT ![r].left = routes]
    BY DEF Start
  <1>2. /\ pc[r] = "idle" /\ asked' = asked + 1 /\ asked < MaxAsked
        /\ pc' = [pc EXCEPT ![r] = "routing"]
        /\ UNCHANGED <<ledger, retired, listed, now, outside, owing, walk, answer, paid, stood>>
    BY DEF Start, Arrives, Goto, pool
  <1>3. /\ paid[r] = 0 /\ ranked[r] \in Ranks /\ ranked[r].attempts = 0 /\ walk[r].attempts = 0
        /\ answer[r] = None
    BY <1>2, Here DEF PaidFor, Ended
  <1>4. Around(r)
    <2>1. asked' \in 0 .. MaxAsked /\ StoodTyped' /\ retired \in SUBSET Members
      BY <1>2, Here, RotationAssumption DEF WorldTyped, StoodTyped, RotationAssumption
    <2>. QED
      BY <1>2, <2>1, QuietAround
  <1> DEFINE j == ranked[r]
             k == [j EXCEPT !.left = routes]
  <1>5. ranked' = [ranked EXCEPT ![r] = k]
    BY <1>1
  <1>6. j \in Ranks /\ j.attempts = 0
    BY <1>3
  <1> HIDE DEF j
  <1>7. k \in Ranks /\ k.attempts = 0
    BY <1>6 DEF Ranks
  <1> HIDE DEF k
  <1>8. "routing" \in Stages
    BY StageTyped
  <1>9. /\ Alone(r) /\ pc'[r] = "routing" /\ ask'[r] = a /\ ranked'[r] = k
        /\ walk'[r] = walk[r] /\ answer'[r] = None /\ paid'[r] = 0
    BY <1>1, <1>2, <1>3, <1>5, <1>7, <1>8 DEF Alone, RotationInv, RotationTypeOK
  <1>10. PaidFor("routing", a, k, walk[r], None, 0)
    BY <1>3, <1>7 DEF PaidFor, Ended, Settled
  <1>11. RequestInv(r)'
    BY <1>9, <1>10, NotWalking DEF RequestInv
  <1>. QED
    BY <1>4, <1>9, <1>11, Moves

\* A declined request ends unpaid.
LEMMA DeclinedKeeps ==
    ASSUME RotationInv, NEW r \in Requests, Declined(r)
    PROVE  RotationInv'
  <1>1. PICK a \in Asks, class \in GatewayRefusals \cup {"rate_limited", "quota_exhausted"} :
            /\ ask' = [ask EXCEPT ![r] = a]
            /\ answer' = [answer EXCEPT ![r] = [class |-> class, attempts |-> 0]]
    BY DEF Declined
  <1>2. /\ pc[r] = "idle" /\ asked' = asked + 1 /\ asked < MaxAsked
        /\ pc' = [pc EXCEPT ![r] = "answered"]
        /\ UNCHANGED <<ledger, retired, listed, now, outside, owing, ranked, walk, paid, stood>>
    BY DEF Declined, Arrives, Goto, pool
  <1>3. paid[r] = 0
    BY <1>2, Here DEF PaidFor
  <1>4. Around(r)
    <2>1. asked' \in 0 .. MaxAsked /\ StoodTyped' /\ retired \in SUBSET Members
      BY <1>2, Here, RotationAssumption DEF WorldTyped, StoodTyped, RotationAssumption
    <2>. QED
      BY <1>2, <2>1, QuietAround
  <1>5. class \in Classes
    BY DEF Classes, ProviderAnswers
  <1> DEFINE ans == [class |-> class, attempts |-> 0]
  <1>6. ans \in Answers /\ ans.attempts = 0
    BY <1>5 DEF Answers
  <1>7. answer' = [answer EXCEPT ![r] = ans]
    BY <1>1
  <1> HIDE DEF ans
  <1>8. "answered" \in Stages
    BY StageTyped
  <1>9. /\ Alone(r) /\ pc'[r] = "answered" /\ ask'[r] = a /\ ranked'[r] = ranked[r]
        /\ walk'[r] = walk[r] /\ answer'[r] = ans /\ paid'[r] = 0
    BY <1>1, <1>2, <1>3, <1>6, <1>7, <1>8 DEF Alone, RotationInv, RotationTypeOK
  <1>10. PaidFor("answered", a, ranked[r], walk[r], ans, 0)
    BY <1>6 DEF PaidFor, Ended, Settled
  <1>11. RequestInv(r)'
    BY <1>9, <1>10, NotWalking DEF RequestInv
  <1>. QED
    BY <1>4, <1>9, <1>11, Moves

\* Going on to the next route carries the attempts over.
LEMMA NextRouteKeeps ==
    ASSUME RotationInv, NEW r \in Requests, NextRoute(r)
    PROVE  RotationInv'
  <1>1. PICK x \in ranked[r].left :
            /\ ranked' = [ranked EXCEPT ![r].left = @ \ {x}]
            /\ IF RouteOf[x] \in ranked[r].emptied
                 THEN UNCHANGED <<pc, walk, stood>>
                 ELSE /\ walk' = [walk EXCEPT ![r] = [NoWalk EXCEPT !.route = x]]
                      /\ stood' = [stood EXCEPT ![r] = Unwatched]
                      /\ Goto(r, "sizing")
    BY DEF NextRoute
  <1>2. /\ pc[r] = "routing"
        /\ UNCHANGED <<ledger, retired, listed, now, asked, outside, owing, ask, answer, paid>>
    BY DEF NextRoute, pool, world
  <1> DEFINE j == ranked[r]
             k == [j EXCEPT !.left = @ \ {x}]
  <1>3. j \in Ranks /\ x \in Routes
    BY Here DEF Ranks
  <1>4. ranked' = [ranked EXCEPT ![r] = k]
    BY <1>1
  <1>5. k \in Ranks /\ k.attempts = ranked[r].attempts /\ k.emptied = ranked[r].emptied
    <2>1. j.attempts = ranked[r].attempts /\ j.emptied = ranked[r].emptied
      OBVIOUS
    <2> HIDE DEF j
    <2>. QED
      BY <1>3, <2>1 DEF Ranks
  <1>6. /\ PaidFor("routing", ask[r], ranked[r], walk[r], answer[r], paid[r])
        /\ retired \in SUBSET Members /\ asked' \in 0 .. MaxAsked /\ StoodTyped
    BY <1>2, Here DEF WorldTyped
  <1>7. "routing" \notin Ended \cup {"idle"} /\ "sizing" \notin Ended \cup {"idle"}
    BY DEF Ended
  <1> HIDE DEF k
  <1>8. CASE RouteOf[x] \in ranked[r].emptied
    <2>1. UNCHANGED <<pc, walk, stood>>
      BY <1>1, <1>8
    <2>2. Around(r)
      BY <1>2, <1>6, <2>1, QuietAround DEF StoodTyped
    <2>3. /\ Alone(r) /\ pc'[r] = "routing" /\ ranked'[r] = k /\ walk'[r] = walk[r]
          /\ ask'[r] = ask[r] /\ answer'[r] = answer[r] /\ paid'[r] = paid[r]
      BY <1>2, <1>4, <1>5, <2>1 DEF Alone, RotationInv, RotationTypeOK
    <2>4. PaidFor("routing", ask[r], k, walk[r], answer[r], paid[r])
      <3>1. walk[r].attempts = 0
        BY <1>6 DEF PaidFor
      <3>. QED
        BY <1>5, <1>6, <1>7, <3>1, BillStands
    <2>5. RequestInv(r)'
      BY <2>3, <2>4, NotWalking DEF RequestInv
    <2>. QED
      BY <2>2, <2>3, <2>5, Moves
  <1>9. CASE RouteOf[x] \notin ranked[r].emptied
    <2> DEFINE w == [NoWalk EXCEPT !.route = x]
    <2>1. /\ walk' = [walk EXCEPT ![r] = w] /\ stood' = [stood EXCEPT ![r] = Unwatched]
          /\ pc' = [pc EXCEPT ![r] = "sizing"]
      BY <1>1, <1>9 DEF Goto
    <2>2. w \in Walks /\ w.attempts = 0 /\ w.saw = {} /\ w.route = x /\ w.at = None
      BY <1>3 DEF Walks, NoWalk
    <2> HIDE DEF w
    <2>3. Unwatched \in [Members -> SUBSET Standings]
      BY DEF Unwatched
    <2>4. StoodTyped' /\ stood'[r] = Unwatched /\ \A s \in Requests \ {r} : stood'[s] = stood[s]
      BY <1>6, <2>1, <2>3 DEF StoodTyped
    <2>5. Around(r)
      BY <1>2, <1>6, <2>4, QuietAround
    <2>6. "sizing" \in Stages
      BY StageTyped
    <2>7. /\ Alone(r) /\ pc'[r] = "sizing" /\ ranked'[r] = k /\ walk'[r] = w
          /\ ask'[r] = ask[r] /\ answer'[r] = answer[r] /\ paid'[r] = paid[r]
      BY <1>2, <1>4, <1>5, <2>1, <2>2, <2>6 DEF Alone, RotationInv, RotationTypeOK
    <2>8. PaidFor("sizing", ask[r], k, w, answer[r], paid[r])
      <3>1. walk[r].attempts = 0
        BY <1>6 DEF PaidFor
      <3>. QED
        BY <1>5, <1>6, <1>7, <2>2, <3>1, BillStands
    <2>9. Unasked("sizing", k, w)
      BY <1>3, <1>5, <1>9, <2>2 DEF Unasked
    <2>10. WatchedFor("sizing", w, Unwatched, ledger', now')
      <3>1. "sizing" \notin Visiting /\ "sizing" \notin Reading
        BY DEF Visiting, Reading
      <3>2. \A m \in Members : Unwatched[m] # {"rate_limited"}
        BY DEF Unwatched
      <3>. QED
        BY <2>2, <3>1, <3>2 DEF WatchedFor
    <2>11. RequestInv(r)'
      BY <2>4, <2>7, <2>8, <2>9, <2>10 DEF RequestInv
    <2>. QED
      BY <2>5, <2>7, <2>11, Moves
  <1>. QED
    BY <1>8, <1>9

\* A request with no route left ends with what it paid for.
LEMMA NoRouteLeftKeeps ==
    ASSUME RotationInv, NEW r \in Requests, NoRouteLeft(r)
    PROVE  RotationInv'
  <1> DEFINE class == WalkedClass(ranked[r].classes)
             n == ranked[r].attempts
             ans == [class |-> class, attempts |-> n]
  <1>1. /\ pc[r] = "routing" /\ answer' = [answer EXCEPT ![r] = ans]
        /\ pc' = [pc EXCEPT ![r] = "answered"]
        /\ UNCHANGED <<ledger, retired, listed, now, asked, outside, owing, ask, ranked, walk, paid, stood>>
    BY DEF NoRouteLeft, Goto, pool, world
  <1>2. class \in Classes
    BY DEF WalkedClass, Classes, ProviderAnswers, GatewayRefusals
  <1>3. n \in Nat /\ paid[r] \in Nat /\ walk[r].attempts = 0
    <2>1. ranked[r] \in Ranks /\ paid[r] \in Nat
      BY Here
    <2>2. walk[r].attempts = 0
      BY <1>1, Here DEF PaidFor
    <2>. QED
      BY <2>1, <2>2 DEF Ranks
  <1>4. Settled(ask[r], n, paid[r])
    <2>1. "routing" \notin Ended \cup {"idle"}
      BY DEF Ended
    <2>2. Settled(ask[r], n + walk[r].attempts, paid[r])
      BY <1>1, <2>1, Here DEF PaidFor
    <2>3. n + walk[r].attempts = n
      BY <1>3
    <2>. QED
      BY <2>2, <2>3
  <1> HIDE DEF class, n
  <1>5. ans \in Answers /\ ans.attempts = n
    BY <1>2, <1>3 DEF Answers
  <1> HIDE DEF ans
  <1>6. Around(r)
    BY <1>1, Here, QuietAround DEF StoodTyped, WorldTyped
  <1>7. "answered" \in Stages
    BY StageTyped
  <1>8. /\ Alone(r) /\ pc'[r] = "answered" /\ ask'[r] = ask[r] /\ ranked'[r] = ranked[r]
        /\ walk'[r] = walk[r] /\ answer'[r] = ans /\ paid'[r] = paid[r]
    BY <1>1, <1>5, <1>7 DEF Alone, RotationInv, RotationTypeOK
  <1>9. PaidFor("answered", ask[r], ranked[r], walk[r], ans, paid[r])
    BY <1>4, <1>5 DEF PaidFor, Ended
  <1>10. RequestInv(r)'
    BY <1>8, <1>9, NotWalking DEF RequestInv
  <1>. QED
    BY <1>6, <1>8, <1>10, Moves

\* The walk has made no call yet, so a refusal states none.
LEMMA EarlyRefusal ==
    ASSUME RotationInv, NEW r \in Requests, pc[r] \in {"sizing", "roster"}
    PROVE  /\ pc[r] \in Walking \ {"committed"}
           /\ Settled(ask[r], 0, walk[r].attempts)
  <1>1. walk[r].attempts = 0
    BY Here DEF PaidFor
  <1>. QED
    BY <1>1 DEF Settled, Walking

\* Sizing the walk keeps the invariant.
LEMMA SizeKeeps ==
    ASSUME RotationInv, NEW r \in Requests, Size(r)
    PROVE  RotationInv'
  <1>1. /\ pc[r] = "sizing"
        /\ UNCHANGED <<ledger, retired, listed, now, asked, outside, owing, ask, paid, stood>>
    BY DEF Size, pool, world
  <1>2. Around(r)
    BY <1>1, Here, QuietAround DEF StoodTyped, WorldTyped
  <1>3. CASE Goto(r, "roster") /\ UNCHANGED <<ranked, walk, answer>>
    <2>1. "roster" \in Stages
      BY StageTyped
    <2>2. /\ Alone(r) /\ pc'[r] = "roster" /\ ranked'[r] = ranked[r] /\ walk'[r] = walk[r]
          /\ ask'[r] = ask[r] /\ answer'[r] = answer[r] /\ paid'[r] = paid[r] /\ stood'[r] = stood[r]
      BY <1>1, <1>3, <2>1 DEF Alone, Goto, RotationInv, RotationTypeOK
    <2>3. PaidFor("roster", ask[r], ranked[r], walk[r], answer[r], paid[r])
      BY <1>1, Here DEF PaidFor, Ended
    <2>4. Unasked("roster", ranked[r], walk[r])
      BY <1>1, Here DEF Unasked, Walking
    <2>5. WatchedFor("roster", walk[r], stood[r], ledger', now')
      <3>1. "sizing" \in Walking /\ "roster" \notin Visiting /\ "roster" \notin Reading
        BY DEF Walking, Visiting, Reading
      <3>2. stood[r] = Unwatched /\ walk[r].saw = {} /\ walk[r].at = None
        BY <1>1, Here DEF WatchedFor
      <3>3. \A m \in Members : Unwatched[m] # {"rate_limited"}
        BY DEF Unwatched
      <3>. QED
        BY <3>1, <3>2, <3>3 DEF WatchedFor
    <2>6. RequestInv(r)'
      BY <2>2, <2>3, <2>4, <2>5 DEF RequestInv
    <2>. QED
      BY <1>2, <2>2, <2>6, Moves
  <1>4. CASE \E class \in {"invalid", "dependency"} : RouteRefused(r, class, 0, FALSE)
    <2>1. PICK class \in {"invalid", "dependency"} : RouteRefused(r, class, 0, FALSE)
      BY <1>4
    <2>2. class \in Classes
      BY DEF Classes, GatewayRefusals
    <2>. QED
      BY <1>1, <1>2, <2>1, <2>2, EarlyRefusal, RefusalKeeps
  <1>. QED
    BY <1>3, <1>4 DEF Size

\* A pool that is empty before it is walked pays for nothing.
LEMMA NoRosterKeeps ==
    ASSUME RotationInv, NEW r \in Requests, NoRoster(r)
    PROVE  RotationInv'
  <1>1. /\ pc[r] = "roster"
        /\ UNCHANGED <<ledger, retired, listed, now, asked, outside, owing, ask, paid, stood>>
    BY DEF NoRoster, pool, world
  <1>2. Around(r)
    BY <1>1, Here, QuietAround DEF StoodTyped, WorldTyped
  <1>3. PICK class \in {"dependency", "invalid", "unauthorized"} : RouteRefused(r, class, 0, TRUE)
    BY DEF NoRoster
  <1>4. class \in Classes
    BY DEF Classes, GatewayRefusals
  <1>. QED
    BY <1>1, <1>2, <1>3, <1>4, EarlyRefusal, RefusalKeeps

\* A roster over members that may be billed has a first one.
LEMMA RosterFirst ==
    ASSUME NEW rows \in SUBSET Members, rows # {}, NEW open \in SUBSET rows,
           NEW lead \in open \cup {None}, NEW w,
           w.lead = lead, w.live = open \ {lead}, w.blocked = rows \ open
    PROVE  Following(w) # {}
  <1>1. None \notin Members
    BY RotationAssumption DEF RotationAssumption
  <1>. QED
    BY <1>1 DEF Following

\* Reading the roster begins the watch of its members.
LEMMA ReadRosterKeeps ==
    ASSUME RotationInv, NEW r \in Requests, ReadRoster(r)
    PROVE  RotationInv'
  <1>1. /\ pc[r] = "roster" /\ listed # None /\ Eligible(r) # {}
        /\ pc' = [pc EXCEPT ![r] = "member"]
        /\ UNCHANGED <<ledger, retired, listed, now, asked, outside, owing, ask, ranked, answer, paid, stood>>
    BY DEF ReadRoster, Goto, world
  <1>2. PICK full \in BOOLEAN : walk' = [walk EXCEPT ![r] = Roster(r, full)]
    BY DEF ReadRoster
  <1> DEFINE rows == Eligible(r)
             pin == Pinned(ask[r].agent, RouteOf[walk[r].route])
             open == {m \in rows : ~IsBlocked(ledger[m], now)}
             lead == IF pin \in open /\ ~full THEN pin ELSE None
             live == open \ {lead}
             shut == rows \ open
             v == walk[r]
             w == [v EXCEPT !.lead = lead, !.live = live, !.blocked = shut]
  <1>3. Roster(r, full) = w
    BY DEF Roster
  <1>4. rows \in SUBSET Members /\ rows # {} /\ open \in SUBSET rows /\ lead \in open \cup {None}
    BY <1>1, Here DEF Eligible, WorldTyped
  <1>5. v \in Walks /\ stood[r] = Unwatched /\ v.saw = {} /\ v.at = None
    BY <1>1, Here DEF WatchedFor
  <1>6. live = open \ {lead} /\ shut = rows \ open
    OBVIOUS
  <1>7. v.attempts = walk[r].attempts /\ v.route = walk[r].route
    OBVIOUS
  <1> HIDE DEF rows, open, lead, live, shut, v, pin
  <1>8. lead \in Members \cup {None} /\ live \in SUBSET Members /\ shut \in SUBSET Members
    BY <1>4, <1>6
  <1>9. /\ w \in Walks /\ w.lead = lead /\ w.live = live /\ w.blocked = shut /\ w.saw = {}
        /\ w.attempts = v.attempts /\ w.route = v.route /\ w.at = v.at
    BY <1>5, <1>8 DEF Walks
  <1> HIDE DEF w
  <1>10. Following(w) # {}
    BY <1>4, <1>6, <1>9, RosterFirst
  <1>11. "member" \in Stages
    BY StageTyped
  <1>12. /\ Alone(r) /\ pc'[r] = "member" /\ walk'[r] = w /\ ask'[r] = ask[r]
         /\ ranked'[r] = ranked[r] /\ answer'[r] = answer[r] /\ paid'[r] = paid[r]
         /\ stood'[r] = stood[r]
    BY <1>1, <1>2, <1>3, <1>9, <1>11 DEF Alone, RotationInv, RotationTypeOK
  <1>13. PaidFor("member", ask[r], ranked[r], w, answer[r], paid[r])
    <2>1. "member" \notin Ended \cup {"idle"} /\ "roster" \notin Ended \cup {"idle"}
      BY DEF Ended
    <2>. QED
      BY <1>1, <1>7, <1>9, <2>1, Here, BillStands
  <1>14. Unasked("member", ranked[r], w)
    BY <1>1, <1>7, <1>9, Here DEF Unasked, Walking
  <1>15. WatchedFor("member", w, stood[r], ledger', now')
    <2>1. "member" \notin Visiting /\ "member" \notin Reading
      BY DEF Visiting, Reading
    <2>2. \A m \in Members : stood[r][m] = {}
      BY <1>5 DEF Unwatched
    <2>3. \A m \in Members : m # w.at
      BY <1>5, <1>9, RotationAssumption DEF RotationAssumption
    <2>. QED
      BY <1>9, <1>10, <2>1, <2>2, <2>3 DEF WatchedFor
  <1>16. RequestInv(r)'
    BY <1>12, <1>13, <1>14, <1>15 DEF RequestInv
  <1>17. Around(r)
    BY <1>1, Here, QuietAround DEF StoodTyped, WorldTyped
  <1>. QED
    BY <1>12, <1>16, <1>17, Moves

\* Going on to the next member keeps the invariant.
LEMMA NextMemberKeeps ==
    ASSUME RotationInv, NEW r \in Requests, NextMember(r)
    PROVE  RotationInv'
  <1>1. /\ pc[r] = "member"
        /\ UNCHANGED <<ledger, retired, listed, now, asked, outside, owing, ask, ranked, answer, paid>>
    BY DEF NextMember, pool, world
  <1>2. PICK m \in Following(walk[r]) :
            /\ walk' = [walk EXCEPT ![r] = At(@, m)]
            /\ IF IsBlocked(ledger[m], now)
                 THEN /\ Goto(r, "blocked")
                      /\ stood' = [stood EXCEPT ![r][m] = {Standing(ledger[m], now)}]
                 ELSE Goto(r, "redeem") /\ stood' = stood
    BY DEF NextMember
  <1> DEFINE v == walk[r]
             st == stood[r]
             live == v.live \ {m}
             shut == v.blocked \ {m}
             w == [v EXCEPT !.lead = None, !.live = live, !.blocked = shut, !.at = m]
             stage == IF IsBlocked(ledger[m], now) THEN "blocked" ELSE "redeem"
             tt == IF IsBlocked(ledger[m], now)
                     THEN [st EXCEPT ![m] = {Standing(ledger[m], now)}] ELSE st
  <1>3. walk' = [walk EXCEPT ![r] = w]
    BY <1>2 DEF At
  <1>4. /\ v \in Walks /\ st \in [Members -> SUBSET Standings]
        /\ PaidFor("member", ask[r], ranked[r], v, answer[r], paid[r])
        /\ Unasked("member", ranked[r], v)
        /\ WatchedFor("member", v, st, ledger, now)
    BY <1>1, Here
  <1>5. pc' = [pc EXCEPT ![r] = stage] /\ stood' = [stood EXCEPT ![r] = tt]
    BY <1>2, Here DEF Goto, StoodTyped
  <1>6. m \in Following(v)
    OBVIOUS
  <1>7. live = v.live \ {m} /\ shut = v.blocked \ {m}
    OBVIOUS
  <1>8. v.lead \in Members \cup {None} /\ v.live \in SUBSET Members /\ v.blocked \in SUBSET Members
    BY <1>4 DEF Walks
  <1>9. m \in Members /\ m \in Ahead(v)
    BY <1>6, <1>8 DEF Following, Ahead
  <1>10. Standing(ledger[m], now) \in Standings
    BY <1>9, RowsTyped, StandingTyped
  <1>11. /\ stage \in {"blocked", "redeem"}
         /\ stage = "blocked" => tt = [st EXCEPT ![m] = {Standing(ledger[m], now)}]
         /\ stage = "redeem" => tt = st
    OBVIOUS
  <1>12. v = walk[r] /\ st = stood[r]
    OBVIOUS
  <1> HIDE DEF v, live, shut, st, stage, tt
  <1>13. /\ w \in Walks /\ w.lead = None /\ w.live = live /\ w.blocked = shut /\ w.saw = v.saw
         /\ w.attempts = v.attempts /\ w.route = v.route /\ w.at = m
    BY <1>4, <1>7, <1>8, <1>9 DEF Walks
  <1> HIDE DEF w
  <1>14. st[m] = {} /\ \A n \in Members \cap Ahead(w) : st[n] = {} /\ n # m
    <2>1. \A n \in Members \cap Ahead(v) : st[n] = {}
      BY <1>4 DEF WatchedFor, Walking
    <2>2. None \notin Members
      BY RotationAssumption DEF RotationAssumption
    <2>3. \A n \in Members \cap Ahead(w) : n \in Ahead(v) /\ n # m
      BY <1>7, <1>13, <2>2 DEF Ahead
    <2>. QED
      BY <1>9, <2>1, <2>3
  <1>15. /\ tt \in [Members -> SUBSET Standings]
         /\ \A n \in Members \ {m} : tt[n] = st[n]
         /\ stage = "blocked" => tt[m] = {Standing(ledger[m], now)}
         /\ stage = "redeem" => tt[m] = {}
    <2>1. CASE stage = "blocked"
      BY <1>4, <1>9, <1>10, <1>11, <2>1
    <2>2. CASE stage = "redeem"
      BY <1>4, <1>11, <1>14, <2>2
    <2>. QED
      BY <1>11, <2>1, <2>2
  <1>16. WatchedFor(stage, w, tt, ledger, now)
    <2>1. /\ "rate_limit_block" \in v.saw => \E n \in Members : Waitable(st, n)
          /\ \A n \in Members : st[n] = {"rate_limited"} => "rate_limit_block" \in v.saw
      BY <1>4 DEF WatchedFor, Walking, Read, Reading
    <2>2. \A n \in Members : Waitable(st, n) => Waitable(tt, n)
      BY <1>14, <1>15 DEF Waitable
    <2>3. \A n \in Members : tt[n] = {"rate_limited"} /\ ~Read(stage, w, n)
                                => "rate_limit_block" \in w.saw
      BY <1>11, <1>13, <1>15, <2>1 DEF Read, Reading
    <2>4. \A n \in Members \cap Ahead(w) : tt[n] = {} /\ n # w.at
      BY <1>13, <1>14, <1>15
    <2>5. stage \in Reading => Standing(ledger[w.at], now) \in tt[w.at]
      BY <1>11, <1>13, <1>15 DEF Reading
    <2>6. stage \notin {"sizing", "roster", "member", "disable", "spent"}
      BY <1>11
    <2>7. "rate_limit_block" \in w.saw => \E n \in Members : Waitable(tt, n)
      BY <1>13, <2>1, <2>2
    <2>. QED
      BY <1>9, <1>13, <2>3, <2>4, <2>5, <2>6, <2>7 DEF WatchedFor
  <1>17. stage \in Visiting /\ stage \in Stages /\ stage \notin Ended \cup {"idle"}
    BY <1>11 DEF Visiting, Reading, Stages, Ended
  <1>18. PaidFor(stage, ask[r], ranked[r], w, answer[r], paid[r])
    <2>1. "member" \notin Ended \cup {"idle"}
      BY DEF Ended
    <2>2. stage \notin {"routing", "sizing", "roster", "refresh", "retry", "verdict"}
      BY <1>11
    <2>. QED
      BY <1>4, <1>13, <1>17, <2>1, <2>2, BillStands
  <1>19. Unasked(stage, ranked[r], w)
    BY <1>4, <1>13, <1>17 DEF Unasked, Walking
  <1>20. /\ Alone(r) /\ pc'[r] = stage /\ walk'[r] = w /\ ask'[r] = ask[r]
         /\ ranked'[r] = ranked[r] /\ answer'[r] = answer[r] /\ paid'[r] = paid[r]
    BY <1>1, <1>3, <1>5, <1>13, <1>17 DEF Alone, RotationInv, RotationTypeOK
  <1>21. StoodTyped' /\ stood'[r] = tt /\ \A s \in Requests \ {r} : stood'[s] = stood[s]
    BY <1>5, <1>15, Here DEF StoodTyped
  <1>22. RequestInv(r)'
    BY <1>1, <1>16, <1>18, <1>19, <1>20, <1>21 DEF RequestInv
  <1>23. Around(r)
    BY <1>1, <1>21, Here, QuietAround DEF WorldTyped
  <1>. QED
    BY <1>20, <1>22, <1>23, Moves

\* A walk with one more thing seen.
LEMMA SawWalk ==
    ASSUME NEW v \in Walks, NEW what \in Observations
    PROVE  LET w == [v EXCEPT !.saw = @ \cup {what}]
           IN  /\ w \in Walks /\ w.saw = v.saw \cup {what} /\ w.lead = v.lead /\ w.live = v.live
               /\ w.blocked = v.blocked /\ w.attempts = v.attempts /\ w.route = v.route
  BY DEF Walks

\* Saw: the step after which a walk has seen one thing more.
LEMMA SawKeeps ==
    ASSUME RotationInv, NEW r \in Requests, pc[r] \in Visiting \ {"committed"},
           NEW what \in Observations, Saw(r, what),
           UNCHANGED <<ledger, retired, listed, now, asked, outside, owing, ask, ranked, answer, paid, stood>>,
           what = "rate_limit_block" => \E m \in Members : Waitable(stood[r], m),
           pc[r] \in Reading /\ stood[r][walk[r].at] = {"rate_limited"}
             => what = "rate_limit_block"
    PROVE  RotationInv'
  <1>1. Around(r) /\ walk[r] \in Walks
    BY Here, QuietAround DEF StoodTyped, WorldTyped
  <1> DEFINE v == walk[r]
             w == [v EXCEPT !.saw = @ \cup {what}]
  <1>2. NextOne(r, w)
    BY DEF Saw
  <1>3. v = walk[r] /\ v \in Walks
    BY <1>1
  <1> HIDE DEF v
  <1>4. /\ w \in Walks /\ w.saw = v.saw \cup {what} /\ w.lead = v.lead /\ w.live = v.live
        /\ w.blocked = v.blocked /\ w.attempts = v.attempts /\ w.route = v.route
    BY <1>3, SawWalk
  <1> HIDE DEF w
  <1>5. /\ walk[r].saw \subseteq w.saw /\ w.saw # {}
        /\ "rate_limit_block" \in w.saw \ walk[r].saw => what = "rate_limit_block"
    BY <1>3, <1>4
  <1>. QED
    BY <1>1, <1>2, <1>3, <1>4, <1>5, NextOneKeeps

\* Reading whether the member needs reauthorization keeps the invariant.
LEMMA ReadReauthorizationKeeps ==
    ASSUME RotationInv, NEW r \in Requests, ReadReauthorization(r)
    PROVE  RotationInv'
  <1> DEFINE m == walk[r].at
             row == ledger[m]
  <1>1. /\ pc[r] = "blocked"
        /\ UNCHANGED <<ledger, retired, listed, now, asked, outside, owing, ask, ranked, answer, paid, stood>>
    BY DEF ReadReauthorization, pool, world
  <1>2. "blocked" \in Visiting /\ "blocked" \in Reading /\ "spent" \in Visiting /\ "spent" \in Reading
    BY DEF Visiting, Reading
  <1>3. m \in Members /\ Standing(row, now) \in stood[r][m]
    BY <1>1, <1>2, Here DEF WatchedFor
  <1>4. row \in Rows /\ now \in Int
    BY <1>3, RowsTyped
  <1>5. Standing(row, now) = "owed" <=> Disowned(row)
    BY <1>4, StandingTyped
  <1>6. CASE Disowned(row)
    <2>1. Standing(row, now) = "owed"
      BY <1>5, <1>6
    <2>2. stood[r][m] # {"rate_limited"}
      BY <1>3, <2>1
    <2>3. Saw(r, "reauthorization_block")
      BY <1>6 DEF ReadReauthorization
    <2>4. "reauthorization_block" \in Observations
      BY DEF Observations
    <2>5. pc[r] \in Visiting \ {"committed"}
      BY <1>1, <1>2
    <2>. QED
      BY <1>1, <2>2, <2>3, <2>4, <2>5, SawKeeps
  <1>7. CASE ~Disowned(row)
    <2>1. pc' = [pc EXCEPT ![r] = "spent"] /\ UNCHANGED walk
      BY <1>7 DEF ReadReauthorization, Goto
    <2>2. Waitable(stood[r], m)
      BY <1>3, <1>5, <1>7 DEF Waitable
    <2>3. "spent" \in Stages
      BY <1>2, StageTyped
    <2>4. /\ Alone(r) /\ pc'[r] = "spent" /\ walk'[r] = walk[r] /\ ask'[r] = ask[r]
          /\ ranked'[r] = ranked[r] /\ answer'[r] = answer[r] /\ paid'[r] = paid[r]
      BY <1>1, <2>1, <2>3 DEF Alone, RotationInv, RotationTypeOK
    <2>5. PaidFor("spent", ask[r], ranked[r], walk[r], answer[r], paid[r])
      BY <1>1, Here DEF PaidFor, Ended
    <2>6. Unasked("spent", ranked[r], walk[r])
      BY <1>1, <1>2, Here DEF Unasked, Walking
    <2>7. WatchedFor("spent", walk[r], stood[r], ledger, now)
      <3>1. WatchedFor("blocked", walk[r], stood[r], ledger, now)
        BY <1>1, Here
      <3>2. \A n : Read("spent", walk[r], n) <=> Read("blocked", walk[r], n)
        BY <1>2 DEF Read
      <3>3. "blocked" \in Walking /\ "spent" \in Walking
        BY <1>2 DEF Walking
      <3>. QED
        BY <1>2, <1>3, <2>2, <3>1, <3>2, <3>3 DEF WatchedFor
    <2>8. RequestInv(r)'
      BY <1>1, <2>4, <2>5, <2>6, <2>7 DEF RequestInv
    <2>9. Around(r)
      BY <1>1, Here, QuietAround DEF StoodTyped, WorldTyped
    <2>. QED
      BY <2>4, <2>8, <2>9, Moves
  <1>. QED
    BY <1>6, <1>7

\* Reading whether the member is spent keeps the invariant.
LEMMA ReadSpentKeeps ==
    ASSUME RotationInv, NEW r \in Requests, ReadSpent(r)
    PROVE  RotationInv'
  <1> DEFINE m == walk[r].at
             row == ledger[m]
             spent == IsBlocked(row, now) /\ row.block.why = "quota_exhausted"
             what == IF spent THEN "quota_exhausted_block" ELSE "rate_limit_block"
  <1>1. /\ pc[r] = "spent" /\ Saw(r, what)
        /\ UNCHANGED <<ledger, retired, listed, now, asked, outside, owing, ask, ranked, answer, paid, stood>>
    BY DEF ReadSpent, pool, world
  <1>2. "spent" \in Visiting /\ "spent" \in Reading
    BY DEF Visiting, Reading
  <1>3. m \in Members /\ Standing(row, now) \in stood[r][m] /\ Waitable(stood[r], m)
    BY <1>1, <1>2, Here DEF WatchedFor
  <1>4. row \in Rows /\ now \in Int
    BY <1>3, RowsTyped
  <1>5. Standing(row, now) = "rate_limited" => ~spent
    BY <1>4, StandingTyped
  <1>6. stood[r][m] = {"rate_limited"} => what = "rate_limit_block"
    BY <1>3, <1>5
  <1>7. what \in Observations /\ pc[r] \in Visiting \ {"committed"}
    BY <1>1, <1>2 DEF Observations
  <1> HIDE DEF what
  <1>. QED
    BY <1>1, <1>3, <1>6, <1>7, SawKeeps

\* A rejected member is noted and the walk goes on.
LEMMA RejectedKeeps ==
    ASSUME RotationInv, NEW r \in Requests, Rejected(r)
    PROVE  RotationInv'
  <1>1. /\ pc[r] = "rejected" /\ Saw(r, "auth_rejection")
        /\ UNCHANGED <<ledger, retired, listed, now, asked, outside, owing, ask, ranked, answer, paid, stood>>
    BY DEF Rejected, pool, world
  <1>2. "rejected" \in Visiting \ {"committed"} /\ "rejected" \notin Reading
    BY DEF Visiting, Reading
  <1>3. "auth_rejection" \in Observations
    BY DEF Observations
  <1>. QED
    BY <1>1, <1>2, <1>3, SawKeeps

\* A request at a member is at a member.
LEMMA AtMember ==
    ASSUME RotationInv, NEW r \in Requests, pc[r] \in Visiting
    PROVE  walk[r].at \in Members
  BY Here DEF WatchedFor

\* A provider call, of a stored credential or of the one the refresh made.
LEMMA CallKeeps ==
    ASSUME RotationInv, NEW r \in Requests, pc[r] \in {"call", "retry"},
           NEW got \in ProviderAnswers, NEW fresh \in BOOLEAN, NEW next \in {"refresh", "verdict"},
           Asked(r, got, fresh),
           IF got = "ok" THEN Served(r, walk[r].attempts + 1)
             ELSE Goto(r, next) /\ UNCHANGED <<pins, answer>>,
           UNCHANGED <<retired, listed, world, ask, ranked>>
    PROVE  RotationInv'
  <1>1. UNCHANGED <<now, asked, outside, owing>>
    BY DEF world
  <1>2. pc[r] \in Visiting \ (Reading \cup {"committed"})
    BY DEF Visiting, Reading
  <1>3. Around(r) /\ stood'[r] = stood[r]
    <2>1. CASE ask[r].streaming
      <3>1. UNCHANGED <<ledger, stood>>
        BY <2>1 DEF Asked, Record
      <3>. QED
        BY <1>1, <3>1, Here, QuietAround DEF StoodTyped, WorldTyped
    <2>2. CASE ~ask[r].streaming
      <3>1. SetRow(walk[r].at, Recorded(walk[r].at, got))
        BY <2>2 DEF Asked, Record
      <3>2. walk[r].at \in Members
        BY <1>2, AtMember
      <3>3. Recorded(walk[r].at, got) \in Rows
        BY <3>2, RowsTyped
      <3>. QED
        BY <1>1, <1>2, <3>1, <3>2, <3>3, WroteAround
    <2>. QED
      BY <2>1, <2>2
  <1> DEFINE v == walk[r]
             n == v.attempts + 1
             x == [v EXCEPT !.attempts = n, !.got = got, !.fresh = fresh]
  <1>4. walk \in [Requests -> Walks] /\ v \in Walks /\ v.attempts \in Nat
    BY DEF RotationInv, RotationTypeOK, Walks
  <1>5. walk' = [walk EXCEPT ![r] = x] /\ paid' = [paid EXCEPT ![r] = paid[r] + 1]
    BY <1>4 DEF Asked, Walks
  <1>6. n \in Nat /\ n = v.attempts + 1 /\ n >= 1 /\ v = walk[r]
    BY <1>4
  <1> HIDE DEF v, n
  <1>7. /\ x \in Walks /\ x.at = v.at /\ x.saw = v.saw /\ x.lead = v.lead /\ x.live = v.live
        /\ x.blocked = v.blocked /\ x.route = v.route /\ x.attempts = n
    BY <1>4, <1>6 DEF Walks
  <1> HIDE DEF x
  <1>8. CASE got = "ok"
    <2>1. Served(r, walk[r].attempts + 1)
      BY <1>8
    <2>. QED
      BY <1>3, <1>5, <1>6, <1>7, <2>1, ServedKeeps
  <1>9. CASE got # "ok"
    <2>1. pc' = [pc EXCEPT ![r] = next] /\ UNCHANGED answer
      BY <1>9 DEF Goto
    <2>2. next \in Visiting \ (Reading \cup {"committed"}) /\ next # "disable"
      BY DEF Visiting, Reading
    <2>3. x.attempts = walk[r].attempts + 1 /\ x.attempts >= 1
      BY <1>6, <1>7
    <2>4. /\ x.at = walk[r].at /\ x.saw = walk[r].saw /\ x.lead = walk[r].lead
          /\ x.live = walk[r].live /\ x.blocked = walk[r].blocked /\ x.route = walk[r].route
      BY <1>6, <1>7
    <2>. QED
      BY <1>2, <1>3, <1>5, <1>7, <2>1, <2>2, <2>3, <2>4, StaysKeeps
  <1>. QED
    BY <1>8, <1>9

\* A call, and its retry, is paid for as it is made.
LEMMA CallRetryKeep ==
    ASSUME RotationInv, NEW r \in Requests, Call(r) \/ Retry(r)
    PROVE  RotationInv'
  <1>1. CASE Call(r)
    <2>1. PICK got \in ProviderAnswers :
            /\ Asked(r, got, FALSE)
            /\ IF got = "ok" THEN Served(r, walk[r].attempts + 1)
               ELSE /\ Goto(r, IF RefusedCredential(got) THEN "refresh" ELSE "verdict")
                    /\ UNCHANGED <<pins, answer>>
      BY <1>1 DEF Call
    <2>2. pc[r] = "call" /\ UNCHANGED <<retired, listed, world, ask, ranked>>
      BY <1>1 DEF Call
    <2>3. (IF RefusedCredential(got) THEN "refresh" ELSE "verdict") \in {"refresh", "verdict"}
      OBVIOUS
    <2>. QED
      BY <2>1, <2>2, <2>3, CallKeeps
  <1>2. CASE Retry(r)
    <2>1. PICK got \in ProviderAnswers :
            /\ Asked(r, got, RefusedCredential(got))
            /\ IF got = "ok" THEN Served(r, walk[r].attempts + 1)
               ELSE Goto(r, "verdict") /\ UNCHANGED <<pins, answer>>
      BY <1>2 DEF Retry
    <2>2. pc[r] = "retry" /\ UNCHANGED <<retired, listed, world, ask, ranked>>
      BY <1>2 DEF Retry
    <2>3. RefusedCredential(got) \in BOOLEAN
      BY DEF RefusedCredential
    <2>. QED
      BY <2>1, <2>2, <2>3, CallKeeps
  <1>. QED
    BY <1>1, <1>2

\* A step to another stage that makes no call and leaves the walk alone.
LEMMA GotoKeeps ==
    ASSUME RotationInv, NEW r \in Requests, pc[r] \in Visiting \ (Reading \cup {"committed"}),
           NEW next \in Visiting \ (Reading \cup {"committed"}), Goto(r, next),
           UNCHANGED <<ask, ranked, walk, answer, paid>>, Around(r), stood'[r] = stood[r],
           next \in {"refresh", "retry", "verdict"} => walk[r].attempts >= 1
    PROVE  RotationInv'
  <1>1. walk[r] \in Walks /\ walk[r].attempts \in Nat /\ paid[r] \in Nat
    BY Here DEF Walks
  <1>2. /\ walk' = [walk EXCEPT ![r] = walk[r]] /\ paid' = [paid EXCEPT ![r] = paid[r] + 0]
        /\ walk[r].attempts = walk[r].attempts + 0
    BY <1>1, Same
  <1>3. pc' = [pc EXCEPT ![r] = next]
    BY DEF Goto
  <1>. QED
    BY <1>1, <1>2, <1>3, StaysKeeps

\* Redeeming a reset keeps the invariant.
LEMMA RedeemKeeps ==
    ASSUME RotationInv, NEW r \in Requests, Redeem(r)
    PROVE  RotationInv'
  <1> DEFINE m == walk[r].at
  <1>1. /\ pc[r] = "redeem"
        /\ UNCHANGED <<retired, listed, now, asked, outside, owing, ask, ranked, answer, paid>>
    BY DEF Redeem, pool, world
  <1>2. "redeem" \in Visiting \ (Reading \cup {"committed"})
    BY DEF Visiting, Reading
  <1>3. m \in Members
    BY <1>1, <1>2, AtMember
  <1>4. CASE /\ \E row \in {ledger[m], Active(ledger[m], None, TRUE, now)} : SetRow(m, row)
             /\ Goto(r, "call") /\ UNCHANGED walk
    <2>1. PICK row \in {ledger[m], Active(ledger[m], None, TRUE, now)} : SetRow(m, row)
      BY <1>4
    <2>2. row \in Rows
      BY <1>3, RowsTyped
    <2>3. Around(r) /\ stood'[r] = stood[r]
      BY <1>1, <1>2, <1>3, <2>1, <2>2, WroteAround
    <2>4. "call" \in Visiting \ (Reading \cup {"committed"})
      BY DEF Visiting, Reading
    <2>. QED
      BY <1>1, <1>2, <1>4, <2>3, <2>4, GotoKeeps
  <1>5. CASE \E row \in {ledger[m], Refused(ledger[m], Cause, now)}, f \in Faults :
               /\ SetRow(m, row)
               /\ NextOne(r, [walk[r] EXCEPT !.saw = @ \cup {"unredeemable_credential"},
                                             !.fault = f])
    <2> DEFINE v == walk[r]
               saw == v.saw \cup {"unredeemable_credential"}
    <2>1. PICK row \in {ledger[m], Refused(ledger[m], Cause, now)}, f \in Faults :
            /\ SetRow(m, row)
            /\ NextOne(r, [v EXCEPT !.saw = saw, !.fault = f])
      BY <1>5
    <2>2. row \in Rows
      BY <1>3, RowsTyped
    <2>3. Around(r) /\ stood'[r] = stood[r]
      BY <1>1, <1>2, <1>3, <2>1, <2>2, WroteAround
    <2> DEFINE w == [v EXCEPT !.saw = saw, !.fault = f]
    <2>4. v \in Walks /\ saw \in SUBSET Observations /\ v = walk[r]
      BY Here DEF Walks, Observations
    <2>5. saw = v.saw \cup {"unredeemable_credential"} /\ NextOne(r, w)
      BY <2>1
    <2> HIDE DEF v, saw
    <2>6. /\ w \in Walks /\ w.saw = saw /\ w.lead = v.lead /\ w.live = v.live
          /\ w.blocked = v.blocked /\ w.attempts = v.attempts /\ w.route = v.route
      BY <2>4 DEF Walks
    <2> HIDE DEF w
    <2>7. /\ walk[r].saw \subseteq w.saw /\ w.saw # {} /\ "rate_limit_block" \notin w.saw \ walk[r].saw
      BY <2>4, <2>5, <2>6
    <2>8. pc[r] \in Visiting \ {"committed"} /\ pc[r] \notin Reading
      BY <1>1, <1>2
    <2>9. /\ w.lead = walk[r].lead /\ w.live = walk[r].live /\ w.blocked = walk[r].blocked
          /\ w.attempts = walk[r].attempts /\ w.route = walk[r].route
      BY <2>4, <2>6
    <2>. QED
      BY <1>1, <2>3, <2>5, <2>6, <2>7, <2>8, <2>9, NextOneKeeps
  <1>. QED
    BY <1>4, <1>5 DEF Redeem

\* Refreshing the grant keeps the invariant.
LEMMA RefreshKeeps ==
    ASSUME RotationInv, NEW r \in Requests, Refresh(r)
    PROVE  RotationInv'
  <1> DEFINE m == walk[r].at
  <1>1. /\ pc[r] = "refresh"
        /\ UNCHANGED <<retired, listed, now, asked, outside, owing, ask, ranked, answer, paid>>
    BY DEF Refresh, pool, world
  <1>2. /\ {"refresh", "retry", "verdict"} \subseteq Visiting \ (Reading \cup {"committed"})
    BY DEF Visiting, Reading
  <1>3. m \in Members /\ walk[r].attempts >= 1
    BY <1>1, <1>2, AtMember, Here DEF PaidFor
  <1>4. CASE SetRow(m, Active(ledger[m], None, TRUE, now)) /\ Goto(r, "retry") /\ UNCHANGED walk
    <2>1. Around(r) /\ stood'[r] = stood[r]
      BY <1>1, <1>2, <1>3, <1>4, RowsTyped, WroteAround
    <2>. QED
      BY <1>1, <1>2, <1>3, <1>4, <2>1, GotoKeeps
  <1>5. CASE \E row \in {ledger[m], Refused(ledger[m], Cause, now)}, f \in Faults :
               /\ SetRow(m, row)
               /\ Goto(r, "verdict")
               /\ walk' = [walk EXCEPT ![r].fault = f]
    <2> DEFINE v == walk[r]
    <2>1. PICK row \in {ledger[m], Refused(ledger[m], Cause, now)}, f \in Faults :
            /\ SetRow(m, row)
            /\ pc' = [pc EXCEPT ![r] = "verdict"]
            /\ walk' = [walk EXCEPT ![r] = [v EXCEPT !.fault = f]]
      BY <1>5 DEF Goto
    <2>2. row \in Rows
      BY <1>3, RowsTyped
    <2>3. Around(r) /\ stood'[r] = stood[r]
      BY <1>1, <1>2, <1>3, <2>1, <2>2, WroteAround
    <2> DEFINE x == [v EXCEPT !.fault = f]
    <2>4. v \in Walks /\ v = walk[r] /\ walk' = [walk EXCEPT ![r] = x] /\ v.attempts \in Nat
      BY <2>1, Here DEF Walks
    <2> HIDE DEF v
    <2>5. /\ x \in Walks /\ x.at = v.at /\ x.saw = v.saw /\ x.lead = v.lead /\ x.live = v.live
          /\ x.blocked = v.blocked /\ x.attempts = v.attempts /\ x.route = v.route
      BY <2>4 DEF Walks
    <2> HIDE DEF x
    <2>6. /\ paid' = [paid EXCEPT ![r] = paid[r] + 0] /\ x.attempts = walk[r].attempts + 0
          /\ x.attempts >= 1
      BY <1>1, <1>3, <2>4, <2>5, Same, Here
    <2>7. /\ x.at = walk[r].at /\ x.saw = walk[r].saw /\ x.lead = walk[r].lead
          /\ x.live = walk[r].live /\ x.blocked = walk[r].blocked /\ x.route = walk[r].route
      BY <2>4, <2>5
    <2>. QED
      BY <1>1, <1>2, <2>1, <2>3, <2>4, <2>5, <2>6, <2>7, StaysKeeps
  <1>. QED
    BY <1>4, <1>5 DEF Refresh

\* Retiring a member keeps the invariant.
LEMMA RetireKeeps ==
    ASSUME RotationInv, NEW r \in Requests, Retire(r)
    PROVE  RotationInv'
  <1>1. /\ pc[r] = "retire"
        /\ UNCHANGED <<ledger, listed, now, asked, outside, owing, ask, ranked, walk, answer, paid, stood>>
    BY DEF Retire, world
  <1>2. {"retire", "disable", "rejected"} \subseteq Visiting \ (Reading \cup {"committed"})
    BY DEF Visiting, Reading
  <1>3. walk[r].at \in Members
    BY <1>1, <1>2, AtMember
  <1>4. PICK next \in {"disable", "rejected"} :
          /\ Goto(r, next)
          /\ retired' = IF next = "disable" THEN retired \cup {walk[r].at} ELSE retired
    BY DEF Retire
  <1>5. retired' \in SUBSET Members
    BY <1>3, <1>4, Here DEF WorldTyped
  <1>6. Around(r)
    BY <1>1, <1>5, Here, QuietAround DEF StoodTyped, WorldTyped
  <1>. QED
    BY <1>1, <1>2, <1>4, <1>5, <1>6, GotoKeeps

\* Disabling a member keeps the invariant.
LEMMA DisableKeeps ==
    ASSUME RotationInv, NEW r \in Requests, Disable(r)
    PROVE  RotationInv'
  <1>1. /\ pc[r] = "disable" /\ Goto(r, "rejected")
        /\ SetRow(walk[r].at, Disabled(ledger[walk[r].at], Cause, now))
        /\ UNCHANGED <<retired, listed, now, asked, outside, owing, ask, ranked, walk, answer, paid>>
    BY DEF Disable, pool, world
  <1>2. {"disable", "rejected"} \subseteq Visiting \ (Reading \cup {"committed"})
    BY DEF Visiting, Reading
  <1>3. walk[r].at \in Members
    BY <1>1, <1>2, AtMember
  <1>4. Disabled(ledger[walk[r].at], Cause, now) \in Rows
    BY <1>3, RowsTyped
  <1>5. Around(r) /\ stood'[r] = stood[r]
    BY <1>1, <1>2, <1>3, <1>4, WroteAround
  <1>. QED
    BY <1>1, <1>2, <1>5, GotoKeeps

\* The verdict of a call keeps the invariant.
LEMMA VerdictKeeps ==
    ASSUME RotationInv, NEW r \in Requests, Verdict(r)
    PROVE  RotationInv'
  <1> DEFINE v == walk[r]
             m == v.at
  <1>1. /\ pc[r] = "verdict" /\ UNCHANGED <<retired, listed, now, asked, outside, owing, ask, paid>>
    BY DEF Verdict, pool, world
  <1>2. {"verdict", "retire", "rejected"} \subseteq Visiting \ (Reading \cup {"committed"})
    BY DEF Visiting, Reading
  <1>3. m \in Members /\ v.attempts >= 1 /\ v \in Walks /\ v.attempts \in Nat
    BY <1>1, <1>2, AtMember, Here DEF PaidFor, Walks
  <1>4. ASSUME NEW got, SetRow(m, Recorded(m, got))
        PROVE  Around(r) /\ stood'[r] = stood[r]
    BY <1>1, <1>2, <1>3, <1>4, RowsTyped, WroteAround
  <1>5. CASE /\ Goto(r, IF v.fresh THEN "retire" ELSE "rejected")
             /\ SetRow(m, Recorded(m, v.got)) /\ UNCHANGED <<walk, ranked, answer>>
    <2>1. (IF v.fresh THEN "retire" ELSE "rejected") \in {"retire", "rejected"}
      OBVIOUS
    <2>. QED
      BY <1>1, <1>2, <1>4, <1>5, <2>1, GotoKeeps
  <1>6. CASE /\ \E n \in (IF ask[r].streaming THEN {0, 1} ELSE {v.attempts}) :
                    RouteRefused(r, "other", n, FALSE)
             /\ SetRow(m, Recorded(m, v.got))
    <2>1. PICK n \in (IF ask[r].streaming THEN {0, 1} ELSE {v.attempts}) :
                    RouteRefused(r, "other", n, FALSE)
      BY <1>6
    <2>2. n \in Nat /\ Settled(ask[r], n, walk[r].attempts)
      BY <1>3, <2>1 DEF Settled
    <2>3. "other" \in Classes /\ pc[r] \in Walking \ {"committed"}
      BY <1>1 DEF Classes, ProviderAnswers, Walking, Visiting
    <2>4. Around(r) /\ UNCHANGED <<ask, paid>>
      BY <1>1, <1>4, <1>6
    <2>. QED
      BY <2>1, <2>2, <2>3, <2>4, RefusalKeeps
  <1>7. CASE /\ ExhaustedCredential(v.got)
             /\ \E until \in Resets \cup {now} :
                  SetRow(m, Blocked(Recorded(m, v.got), until, v.got, now))
             /\ NextOne(r, [v EXCEPT !.limit = v.got])
             /\ UNCHANGED <<ranked, answer>>
    <2> DEFINE got == v.got
               w == [v EXCEPT !.limit = got]
    <2>1. PICK until \in Resets \cup {now} : SetRow(m, Blocked(Recorded(m, v.got), until, v.got, now))
      BY <1>7
    <2>2. got \in {"rate_limited", "quota_exhausted"} /\ v.got = got /\ NextOne(r, w)
      BY <1>7 DEF ExhaustedCredential
    <2>3. Recorded(m, v.got) = ledger[m]
      BY <2>2 DEF Recorded
    <2>4. Blocked(ledger[m], until, got, now) \in Rows
      <3>1. now \in Int /\ ledger[m] \in Rows
        BY <1>3, RowsTyped
      <3>2. Resets \subseteq Int
        BY RotationAssumption DEF RotationAssumption
      <3>3. until \in Int
        BY <2>1, <3>1, <3>2
      <3>. QED
        BY <2>2, <3>1, <3>3, BlockedRow
    <2>5. Around(r) /\ stood'[r] = stood[r]
      BY <1>1, <1>2, <1>3, <2>1, <2>2, <2>3, <2>4, WroteAround
    <2>6. v = walk[r]
      OBVIOUS
    <2> HIDE DEF v, got
    <2>7. /\ w \in Walks /\ w.limit = got /\ w.saw = v.saw /\ w.lead = v.lead /\ w.live = v.live
          /\ w.blocked = v.blocked /\ w.attempts = v.attempts /\ w.route = v.route
      BY <1>3, <2>2 DEF Walks
    <2> HIDE DEF w
    <2>8. w.limit # None
      BY <2>2, <2>7, RotationAssumption DEF RotationAssumption, Classes, ProviderAnswers
    <2>9. /\ walk[r].saw \subseteq w.saw /\ "rate_limit_block" \notin w.saw \ walk[r].saw
          /\ w.lead = walk[r].lead /\ w.live = walk[r].live /\ w.blocked = walk[r].blocked
          /\ w.attempts = walk[r].attempts /\ w.route = walk[r].route
      BY <2>6, <2>7
    <2>10. /\ pc[r] \in Visiting \ {"committed"} /\ pc[r] \notin Reading
           /\ UNCHANGED <<ask, ranked, answer, paid>>
      BY <1>1, <1>2, <1>7
    <2>. QED
      BY <2>2, <2>5, <2>7, <2>8, <2>9, <2>10, NextOneKeeps
  <1>. QED
    BY <1>5, <1>6, <1>7 DEF Verdict

\* The class of an emptied pool is a class.
LEMMA EmptiedTyped ==
    ASSUME NEW saw, NEW fault, NEW limit \in {None, "rate_limited", "quota_exhausted"}
    PROVE  EmptiedClass(saw, fault, limit) \in Classes
  BY DEF EmptiedClass, CredentialRefusalClass, PoolEmptyClass, Classes, ProviderAnswers,
         GatewayRefusals

\* The refusal of an emptied pool states what the walk paid for.
LEMMA EmptiedKeeps ==
    ASSUME RotationInv, NEW r \in Requests, Emptied(r)
    PROVE  RotationInv'
  <1> DEFINE w == walk[r]
             class == EmptiedClass(w.saw, w.fault, w.limit)
  <1>1. /\ pc[r] = "member" /\ RouteRefused(r, class, w.attempts, TRUE)
        /\ UNCHANGED <<ledger, retired, listed, now, asked, outside, owing, ask, paid, stood>>
    BY DEF Emptied, pool, world
  <1>2. w.attempts \in Nat /\ w.limit \in {None, "rate_limited", "quota_exhausted"}
    BY Here DEF Walks
  <1>3. class \in Classes
    BY <1>2, EmptiedTyped
  <1>4. Settled(ask[r], w.attempts, walk[r].attempts)
    BY <1>2 DEF Settled
  <1>5. Around(r)
    BY <1>1, Here, QuietAround DEF StoodTyped, WorldTyped
  <1>6. pc[r] \in Walking \ {"committed"}
    BY <1>1 DEF Walking
  <1> HIDE DEF class
  <1>. QED
    BY <1>1, <1>2, <1>3, <1>4, <1>5, <1>6, RefusalKeeps

\* A stream that ends keeps the invariant.
LEMMA StreamEndsKeeps ==
    ASSUME RotationInv, NEW r \in Requests, StreamEnds(r)
    PROVE  RotationInv'
  <1>1. /\ pc[r] = "committed" /\ pc' = [pc EXCEPT ![r] = "answered"]
        /\ UNCHANGED <<retired, listed, now, asked, outside, owing, ask, ranked, walk, answer, paid>>
    BY DEF StreamEnds, Goto, pool, world
  <1>2. PICK got \in {"ok", "other"} : SetRow(walk[r].at, Recorded(walk[r].at, got))
    BY DEF StreamEnds
  <1>3. walk[r].at \in Members
    BY <1>1, AtMember DEF Visiting
  <1>4. Around(r)
    BY <1>1, <1>2, <1>3, RowsTyped, WroteAround
  <1>5. "answered" \in Stages
    BY StageTyped
  <1>6. /\ Alone(r) /\ pc'[r] = "answered" /\ walk'[r] = walk[r] /\ ask'[r] = ask[r]
        /\ ranked'[r] = ranked[r] /\ answer'[r] = answer[r] /\ paid'[r] = paid[r]
    BY <1>1, <1>5 DEF Alone, RotationInv, RotationTypeOK
  <1>7. PaidFor("answered", ask[r], ranked[r], walk[r], answer[r], paid[r])
    BY <1>1, Here DEF PaidFor, Ended
  <1>8. RequestInv(r)'
    BY <1>6, <1>7, NotWalking DEF RequestInv
  <1>. QED
    BY <1>4, <1>6, <1>8, Moves

\* Delivering the answer keeps the invariant.
LEMMA DeliverKeeps ==
    ASSUME RotationInv, NEW r \in Requests, Deliver(r)
    PROVE  RotationInv'
  <1>1. /\ pc' = [pc EXCEPT ![r] = "idle"] /\ ask' = [ask EXCEPT ![r] = None]
        /\ ranked' = [ranked EXCEPT ![r] = NoRanked] /\ walk' = [walk EXCEPT ![r] = NoWalk]
        /\ answer' = [answer EXCEPT ![r] = None] /\ paid' = [paid EXCEPT ![r] = 0]
        /\ stood' = [stood EXCEPT ![r] = Unwatched]
        /\ UNCHANGED <<ledger, retired, listed, now, asked, outside, owing>>
    BY DEF Deliver, Goto, pool, world
  <1>2. Unwatched \in [Members -> SUBSET Standings]
    BY DEF Unwatched
  <1>3. StoodTyped' /\ \A s \in Requests \ {r} : stood'[s] = stood[s]
    BY <1>1, <1>2, Here DEF StoodTyped
  <1>4. Around(r)
    BY <1>1, <1>3, Here, QuietAround DEF WorldTyped
  <1>5. "idle" \in Stages
    BY StageTyped
  <1>6. /\ Alone(r) /\ pc'[r] = "idle" /\ walk'[r] = NoWalk /\ ask'[r] = None
        /\ ranked'[r] = NoRanked /\ answer'[r] = None /\ paid'[r] = 0
    BY <1>1, <1>5, NoneWalk DEF Alone, RotationInv, RotationTypeOK
  <1>7. PaidFor("idle", None, NoRanked, NoWalk, None, 0)
    BY NoneWalk DEF PaidFor, Ended
  <1>8. RequestInv(r)'
    BY <1>6, <1>7, NotWalking DEF RequestInv
  <1>. QED
    BY <1>4, <1>6, <1>8, Moves

-----------------------------------------------------------------------------
(***************************************************************************)
(* The rest of the process, and the theorems.                              *)
(***************************************************************************)
\* No request moves.
LEMMA OutsideKeeps ==
    ASSUME RotationInv, requests' = requests, WorldTyped', StoodTyped',
           \A s \in Requests : Grown(s)
    PROVE  RotationInv'
  <1>1. UNCHANGED <<pc, ask, ranked, walk, answer, paid>>
    BY DEF requests
  <1>2. RotationTypeOK'
    BY <1>1 DEF RotationInv, RotationTypeOK, WorldTyped, StoodTyped
  <1>3. \A s \in Requests : RequestInv(s)'
    BY <1>1, OthersKeep
  <1>. QED
    BY <1>2, <1>3 DEF RotationInv

\* What happens outside the requests keeps the invariant.
LEMMA OutsideStep ==
    ASSUME RotationInv, Outside
    PROVE  RotationInv'
  <1>1. WorldTyped /\ StoodTyped
    BY DEF RotationInv, RotationTypeOK, WorldTyped, StoodTyped
  <1>2. ASSUME Bounded
        PROVE  outside' \in 0 .. MaxOutside
    BY <1>1, <1>2, RotationAssumption DEF WorldTyped, Bounded, RotationAssumption
  <1>3. ASSUME NEW m \in Members, LedgerWritten(m) \/ OwnersRecord(m)
        PROVE  RotationInv'
    <2>1. /\ UNCHANGED <<retired, listed, now, asked, requests>>
          /\ owing' \in SUBSET ({"retire", "reinstate"} \X Members)
          /\ outside' \in 0 .. MaxOutside
      BY <1>1, <1>2, <1>3 DEF LedgerWritten, OwnersRecord, pool, WorldTyped
    <2>2. PICK row \in Rows : SetRow(m, row)
      <3>1. CASE LedgerWritten(m)
        BY <3>1, RowsTyped DEF LedgerWritten
      <3>2. CASE OwnersRecord(m)
        BY <3>2, RowsTyped DEF OwnersRecord
      <3>. QED
        BY <1>3, <3>1, <3>2
    <2>3. /\ ledger' \in [Members -> Rows] /\ StoodTyped'
          /\ \A s \in Requests : Grown(s)
      BY <2>1, <2>2, Wrote
    <2>4. WorldTyped'
      BY <1>1, <2>1, <2>3 DEF WorldTyped
    <2>. QED
      BY <2>1, <2>3, <2>4, OutsideKeeps
  <1>4. ASSUME NEW m \in Members, OwnerRetires(m) \/ OwnerReinstates(m) \/ MembershipJournaled(m)
        PROVE  RotationInv'
    <2>1. /\ retired' \in {retired \cup {m}, retired \ {m}} /\ Bounded
          /\ owing' \in {owing, owing \cup {<<"retire", m>>}, owing \cup {<<"reinstate", m>>}}
          /\ UNCHANGED <<ledger, listed, now, asked, requests, stood>>
      BY <1>4 DEF OwnerRetires, OwnerReinstates, MembershipJournaled
    <2>2. WorldTyped' /\ StoodTyped'
      BY <1>1, <1>2, <2>1 DEF WorldTyped, StoodTyped
    <2>3. \A s \in Requests : Grown(s)
      BY <2>1, Quiet
    <2>. QED
      BY <2>1, <2>2, <2>3, OutsideKeeps
  <1>5. ASSUME Discover
        PROVE  RotationInv'
    <2>1. /\ listed' \in (SUBSET Members) \cup {None} /\ Bounded
          /\ UNCHANGED <<ledger, retired, now, asked, owing, requests, stood>>
      BY <1>5 DEF Discover
    <2>2. WorldTyped' /\ StoodTyped'
      BY <1>1, <1>2, <2>1 DEF WorldTyped, StoodTyped
    <2>3. \A s \in Requests : Grown(s)
      BY <2>1, Quiet
    <2>. QED
      BY <2>1, <2>2, <2>3, OutsideKeeps
  <1>6. ASSUME Tick
        PROVE  RotationInv'
    <2>1. /\ now < MaxTime /\ now' = now + 1 /\ Watch(ledger', now')
          /\ UNCHANGED <<ledger, retired, listed, asked, outside, owing, requests>>
      BY <1>6 DEF Tick, pool
    <2>2. now' \in 0 .. MaxTime /\ now' \in Int
      BY <1>1, <2>1, RotationAssumption DEF WorldTyped, RotationAssumption
    <2>3. WorldTyped'
      BY <1>1, <2>1, <2>2 DEF WorldTyped
    <2>4. \A n \in Members : Standing(ledger'[n], now') \in Standings
      BY <1>1, <2>1, <2>2, StandingTyped DEF WorldTyped
    <2>5. StoodTyped'
      BY <1>1, <2>1, <2>4 DEF Watch, StoodTyped
    <2>6. \A s \in Requests : Grown(s)
      BY <1>1, <2>1 DEF Watch, Grown, Read, StoodTyped
    <2>. QED
      BY <2>1, <2>3, <2>5, <2>6, OutsideKeeps
  <1>. QED
    BY <1>3, <1>4, <1>5, <1>6 DEF Outside

\* The invariant holds at the start.
LEMMA RotationStarts ==
    ASSUME Init
    PROVE  RotationInv
  <1>1. /\ ledger \in [Members -> {Kept(row) : row \in Found}] /\ retired \in SUBSET Members
        /\ listed \in {None, Members} /\ now = 0 /\ asked = 0 /\ outside = 0 /\ owing = {}
        /\ pc = [r \in Requests |-> "idle"] /\ ask = [r \in Requests |-> None]
        /\ ranked = [r \in Requests |-> NoRanked] /\ walk = [r \in Requests |-> NoWalk]
        /\ answer = [r \in Requests |-> None] /\ paid = [r \in Requests |-> 0]
        /\ stood = [r \in Requests |-> Unwatched]
    BY DEF Init
  <1>2. ASSUME NEW m \in Members
        PROVE  ledger[m] \in Rows
    <2>1. PICK row \in Found : ledger[m] = Kept(row)
      BY <1>1
    <2>2. row \in Rows \cup {None}
      BY RotationAssumption DEF RotationAssumption
    <2>. QED
      BY <2>1, <2>2, KeptRow
  <1>3. ledger \in [Members -> Rows]
    BY <1>1, <1>2
  <1>4. Unwatched \in [Members -> SUBSET Standings] /\ "idle" \in Stages
    BY StageTyped DEF Unwatched
  <1>5. RotationTypeOK
    BY <1>1, <1>3, <1>4, NoneWalk, RotationAssumption DEF RotationTypeOK, RotationAssumption
  <1>6. ASSUME NEW r \in Requests
        PROVE  RequestInv(r)
    <2>1. PaidFor("idle", None, NoRanked, NoWalk, None, 0)
      BY NoneWalk DEF PaidFor, Ended
    <2>2. /\ pc[r] = "idle" /\ ask[r] = None /\ ranked[r] = NoRanked /\ walk[r] = NoWalk
          /\ answer[r] = None /\ paid[r] = 0
      BY <1>1
    <2>. QED
      BY <2>1, <2>2, NotWalking DEF RequestInv
  <1>. QED
    BY <1>1, <1>5, <1>6 DEF RotationInv

\* Every step keeps the invariant.
LEMMA RotationSteps ==
    ASSUME RotationInv, [Next]_vars
    PROVE  RotationInv'
  <1>1. ASSUME NEW r \in Requests, Start(r) \/ Declined(r) \/ Step(r) \/ StreamEnds(r)
        PROVE  RotationInv'
    BY <1>1, StartKeeps, DeclinedKeeps, NextRouteKeeps, NoRouteLeftKeeps, SizeKeeps,
        ReadRosterKeeps,
       NoRosterKeeps, NextMemberKeeps, ReadReauthorizationKeeps, ReadSpentKeeps, RedeemKeeps,
       CallRetryKeep, RefreshKeeps, VerdictKeeps, RetireKeeps, DisableKeeps, RejectedKeeps,
       EmptiedKeeps, DeliverKeeps, StreamEndsKeeps
       DEF Step
  <1>2. CASE UNCHANGED vars
    <2>1. UNCHANGED <<ledger, retired, listed, now, asked, outside, owing, requests, stood>>
      BY <1>2 DEF vars, pool, world, requests
    <2>2. WorldTyped' /\ StoodTyped'
      BY <2>1 DEF RotationInv, RotationTypeOK, WorldTyped, StoodTyped
    <2>3. \A s \in Requests : Grown(s)
      BY <2>1, Quiet
    <2>. QED
      BY <2>1, <2>2, <2>3, OutsideKeeps
  <1>. QED
    BY <1>1, <1>2, OutsideStep DEF Next

\* The invariant says what is claimed of an emptied pool.
LEMMA InvHonest ==
    ASSUME RotationInv
    PROVE  VerdictHonest
  <1> SUFFICES ASSUME NEW r \in Requests, Emptying(r)
               PROVE  /\ Outcome(r) = "unavailable" =>
                           \E m \in Members : Waitable(stood[r], m)
                      /\ (\E m \in Members : stood[r][m] = {"rate_limited"})
                           => Outcome(r) \in {"unavailable", "rate_limited", "quota_exhausted"}
    BY DEF VerdictHonest, Waitable
  <1> DEFINE w == walk[r]
  <1>1. /\ Following(w) # {} \/ w.saw # {} \/ w.limit # None
        /\ "rate_limit_block" \in w.saw => \E m \in Members : Waitable(stood[r], m)
        /\ \A m \in Members : stood[r][m] = {"rate_limited"} => "rate_limit_block" \in w.saw
    BY Here DEF Emptying, WatchedFor, Walking, Read, Reading
  <1>2. w.limit \in {None, "rate_limited", "quota_exhausted"} /\ w.saw \in SUBSET Observations
    BY Here DEF Walks
  <1>3. Following(w) = {}
    BY DEF Emptying
  <1>4. Outcome(r) = EmptiedClass(w.saw, w.fault, w.limit)
    BY DEF Outcome
  <1> HIDE DEF w
  <1>5. "rate_limit_block" \in w.saw => Outcome(r) \in {"unavailable", "rate_limited", "quota_exhausted"}
    BY <1>2, <1>4 DEF EmptiedClass
  <1>6. Outcome(r) = "unavailable" => "rate_limit_block" \in w.saw
    <2>1. SUFFICES ASSUME Outcome(r) = "unavailable", "rate_limit_block" \notin w.saw PROVE FALSE
      OBVIOUS
    <2>2. w.limit = None
      BY <1>2, <1>4, <2>1 DEF EmptiedClass
    <2>3. w.fault = None /\ PoolEmptyClass(w.saw) = "unavailable"
      BY <1>4, <2>1, <2>2 DEF EmptiedClass, CredentialRefusalClass
    <2>4. w.saw \cap {"auth_rejection", "reauthorization_block", "unredeemable_credential"} = {}
      BY <2>3 DEF PoolEmptyClass
    <2>5. "quota_exhausted_block" \notin w.saw
      BY <1>4, <2>1, <2>2, <2>3, <2>4 DEF EmptiedClass, NeedsAuthorization
    <2>6. w.saw = {}
      BY <1>2, <2>1, <2>4, <2>5 DEF Observations
    <2>. QED
      BY <1>1, <1>3, <2>2, <2>6
  <1>. QED
    BY <1>1, <1>5, <1>6

\* The invariant is more than the property.
LEMMA InvPaid ==
    ASSUME RotationInv
    PROVE  AttemptsPaid
  <1> SUFFICES ASSUME NEW r \in Requests, answer[r] # None
               PROVE  IF ask[r].streaming THEN answer[r].attempts <= paid[r]
                      ELSE answer[r].attempts = paid[r]
    BY DEF AttemptsPaid
  <1>. QED
    BY Here DEF PaidFor, Settled

\* Whatever requests, sign-ins, probes and the owner do to the ledger between
\* the reads of a walk, an emptied pool is answered as a matter of waiting
\* only if a member could be waited for, and never as a matter of signing in
\* when one was in a rate block throughout (pool_is_capacity).
THEOREM PoolHonest == Spec => []VerdictHonest
  <1>1. Spec => []RotationInv
    BY RotationStarts, RotationSteps, PTL DEF Spec
  <1>. QED
    BY <1>1, InvHonest, PTL

\* Every answer states the provider calls it consumed (types/response.rs).
THEOREM AttemptsStated == Spec => []AttemptsPaid
  <1>1. Spec => []RotationInv
    BY RotationStarts, RotationSteps, PTL DEF Spec
  <1>. QED
    BY <1>1, InvPaid, PTL

\* A call is made only by a walk, whose provider has not emptied.
LEMMA CallsUnasked ==
    ASSUME RotationInv, [Next]_vars
    PROVE  [\A r \in Requests : paid'[r] > paid[r]
               => RouteOf[walk[r].route] \notin ranked[r].emptied]_vars
  <1> SUFFICES ASSUME Next, NEW r \in Requests, paid'[r] > paid[r]
               PROVE  RouteOf[walk[r].route] \notin ranked[r].emptied
    BY DEF vars
  <1>1. paid \in [Requests -> Nat]
    BY DEF RotationInv, RotationTypeOK
  <1>2. paid' # paid
    BY <1>1
  <1>3. PICK s \in Requests : (Call(s) \/ Retry(s) \/ Deliver(s))
    BY <1>2 DEF Next, Step, Outside, Start, Declined, NextRoute, NoRouteLeft, Size, ReadRoster,
       NoRoster, NextMember, ReadReauthorization, ReadSpent, Redeem, Refresh, Verdict, Retire,
       Disable, Rejected, Emptied, StreamEnds, LedgerWritten, OwnerRetires, OwnerReinstates,
       OwnersRecord, MembershipJournaled, Discover, Tick, requests
  <1>4. \/ pc[s] \in {"call", "retry"} /\ paid' = [paid EXCEPT ![s] = @ + 1]
        \/ paid' = [paid EXCEPT ![s] = 0]
    BY <1>3 DEF Call, Retry, Deliver, Asked
  <1>5. r = s /\ pc[s] \in {"call", "retry"}
    BY <1>1, <1>4
  <1>. QED
    BY <1>5, Here DEF Unasked, Walking, Visiting

\* Once a provider's pool emptied in a request, no call of that request goes
\* to the provider again (RankedWalk::already_emptied).
THEOREM NeverReasked == Spec => EmptiedNotReasked
  <1>1. Spec => []RotationInv
    BY RotationStarts, RotationSteps, PTL DEF Spec
  <1>. QED
    BY <1>1, CallsUnasked, PTL DEF Spec, EmptiedNotReasked

=============================================================================
