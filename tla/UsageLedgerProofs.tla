------------------------- MODULE UsageLedgerProofs --------------------------
(***************************************************************************)
(* The ledger of one process, for any members, sentences, expiries and     *)
(* bounds: what the copy holds beyond the file is reported, the file's     *)
(* counts never go back, and no verdict of a usage report is erased.       *)
(*                                                                         *)
(* Every record_* function is a row operator inside Write, so an action's  *)
(* step is two facts: its row follows the one it replaces (Follows: it     *)
(* counts no fewer calls and keeps the verdict), and Write keeps the       *)
(* invariant for any such row (WriteKeeps).  That no verdict is erased     *)
(* needs more than the runs check: a copy has its verdicts in their own    *)
(* place, wherever the file still keeps one in the probe's.                *)
(***************************************************************************)
EXTENDS UsageLedger, TLAPS

\* The two checks of a row, and a usage verdict kept in the probe's place.
Checks(r) == [check |-> Entry(r).check, probe |-> Entry(r).probe]

Due(c) == c.check = None /\ c.probe # None /\ c.probe[1] = "usage_report"

\* No verdict of a usage report is erased, and none is put in the probe's place.
KeepsVerdict(c, d) == (c.check # None => d.check # None) /\ (Due(d) => Due(c))

\* A row that may follow r: a row of the ledger that counts no fewer calls
\* and keeps the verdict.
Follows(r, s) ==
    /\ s \in Rows \cup {None} /\ Calls(s) >= Calls(r)
    /\ KeepsVerdict(Checks(r), Checks(s))

USE DEF Calls

\* entry().or_default() yields a row, and keeps one there is.
LEMMA EntryRow ==
    ASSUME NEW r \in Rows \cup {None}
    PROVE  Entry(r) \in Rows /\ (r # None => Entry(r) = r)
  BY DEF Entry, Rows, Default

\* A row is its own entry.
LEMMA RowEntry ==
    ASSUME NEW r \in Rows
    PROVE  Entry(r) = r
  BY RowAssumption DEF RowAssumption, Entry

\* A row that leaves the checks alone keeps the verdict.
LEMMA SameVerdict == \A c : KeepsVerdict(c, c)
  BY DEF KeepsVerdict

\* Replacing the credential keeps a row and its count.
LEMMA CredentialKeeps ==
    ASSUME NEW r \in Rows \cup {None}, NEW c \in Credentials \cup {None}
    PROVE  /\ WithCredential(r, c) \in Rows
           /\ Calls(WithCredential(r, c)) = Calls(r)
           /\ Checks(WithCredential(r, c)) = Checks(r)
  <1>1. Entry(r) \in Rows
    BY EntryRow
  <1>2. WithCredential(r, c) \in Rows
    BY <1>1 DEF WithCredential, Rows
  <1>3. /\ WithCredential(r, c).calls = Entry(r).calls
        /\ WithCredential(r, c).check = Entry(r).check
        /\ WithCredential(r, c).probe = Entry(r).probe
    BY <1>1 DEF WithCredential, Rows
  <1>. QED
    BY <1>2, <1>3, RowEntry DEF Checks

\* Replacing the block keeps a row and its count.
LEMMA BlockKeeps ==
    ASSUME NEW r \in Rows \cup {None}, NEW b \in Blocks \cup {None}
    PROVE  /\ WithBlock(r, b) \in Rows
           /\ Calls(WithBlock(r, b)) = Calls(r)
           /\ Checks(WithBlock(r, b)) = Checks(r)
  <1>1. Entry(r) \in Rows
    BY EntryRow
  <1>2. WithBlock(r, b) \in Rows
    BY <1>1 DEF WithBlock, Rows
  <1>3. /\ WithBlock(r, b).calls = Entry(r).calls
        /\ WithBlock(r, b).check = Entry(r).check
        /\ WithBlock(r, b).probe = Entry(r).probe
    BY <1>1 DEF WithBlock, Rows
  <1>. QED
    BY <1>2, <1>3, RowEntry DEF Checks

\* The expiry a row states is an instant or none.
LEMMA ExpiryTyped ==
    ASSUME NEW r \in Rows \cup {None}
    PROVE  ExpiryOf(r) \in Int \cup {None}
  <1>1. Entry(r) \in Rows
    BY EntryRow
  <1>2. Entry(r).credential \in Credentials \cup {None}
    BY <1>1 DEF Rows
  <1>. QED
    BY <1>2 DEF ExpiryOf, Credentials

\* The credential a record_* function builds is one.
LEMMA CredentialTyped ==
    ASSUME NEW s \in CredentialState, NEW c \in Causes \cup {None}, NEW t \in Int,
           NEW e \in Int \cup {None}
    PROVE  Credential(s, c, t, e) \in Credentials
  BY DEF Credential, Credentials

\* A measured call is one call more.
LEMMA CountedKeeps ==
    ASSUME NEW r \in Rows \cup {None}
    PROVE  /\ Counted(r) \in Rows /\ Calls(Counted(r)) >= Calls(r)
           /\ Checks(Counted(r)) = Checks(r)
  <1>1. Entry(r) \in Rows
    BY EntryRow
  <1>2. /\ Counted(r) \in Rows /\ Counted(r).calls = Entry(r).calls + 1
        /\ Counted(r).check = Entry(r).check /\ Counted(r).probe = Entry(r).probe
    BY <1>1 DEF Counted, Rows
  <1>3. Entry(r).calls \in Nat
    BY <1>1 DEF Rows
  <1>. QED
    BY <1>2, <1>3, RowEntry DEF Checks

\* Dropping a recorded refusal's block keeps the row and its count.
LEMMA UnrefusedKeeps ==
    ASSUME NEW r \in Rows \cup {None}
    PROVE  /\ Unrefused(r) \in Rows /\ Calls(Unrefused(r)) = Calls(r)
           /\ Checks(Unrefused(r)) = Checks(r)
  <1>1. CASE Disowned(r)
    BY <1>1, BlockKeeps DEF Unrefused
  <1>2. CASE ~Disowned(r)
    BY <1>2, EntryRow, RowEntry DEF Unrefused, Checks
  <1>. QED
    BY <1>1, <1>2

-----------------------------------------------------------------------------
(***************************************************************************)
(* What each record_* function makes of a row follows it.                  *)
(***************************************************************************)
\* record_call: an answer's effects keep the count the call added to.
LEMMA CalledFollows ==
    ASSUME NEW r \in Rows \cup {None}, NEW ok \in BOOLEAN, NEW t \in Int
    PROVE  Follows(r, Called(r, ok, t))
  <1>1. /\ Counted(r) \in Rows /\ Calls(Counted(r)) >= Calls(r)
        /\ Checks(Counted(r)) = Checks(r)
    BY CountedKeeps
  <1> DEFINE a == Counted(r)
  <1>2. /\ WithBlock(a, None) \in Rows
        /\ Calls(WithBlock(a, None)) = Calls(a)
        /\ Checks(WithBlock(a, None)) = Checks(a)
    BY <1>1, BlockKeeps
  <1>3. Credential("active", None, t, ExpiryOf(a)) \in Credentials
    BY <1>1, ExpiryTyped, CredentialTyped DEF CredentialState
  <1> DEFINE b == WithCredential(WithBlock(a, None), Credential("active", None, t, ExpiryOf(a)))
  <1>4. b \in Rows /\ Calls(b) = Calls(a) /\ Checks(b) = Checks(a)
    BY <1>2, <1>3, CredentialKeeps
  <1>5. Answered(a, t) \in Rows /\ Calls(Answered(a, t)) = Calls(a) /\ Checks(Answered(a, t)) = Checks(a)
    BY <1>2, <1>4 DEF Answered
  <1>. QED
    BY <1>1, <1>5, SameVerdict DEF Called, Follows

\* A count is a natural number, so a row follows itself.
LEMMA CallsNat ==
    ASSUME NEW r \in Rows \cup {None}
    PROVE  Calls(r) \in Nat
  BY EntryRow DEF Rows

LEMMA SelfFollows ==
    ASSUME NEW r \in Rows \cup {None}
    PROVE  Follows(r, r) /\ Follows(r, Entry(r))
  <1>1. Entry(r) \in Rows /\ Calls(Entry(r)) = Calls(r) /\ Checks(Entry(r)) = Checks(r)
    BY EntryRow, RowEntry DEF Checks
  <1>. QED
    BY <1>1, CallsNat, SameVerdict DEF Follows

\* record_block and record_reported_block replace the block alone.
LEMMA BlockedFollows ==
    ASSUME NEW r \in Rows \cup {None}, NEW u \in Int, NEW t \in Int,
           NEW w \in {"rate_limited", "quota_exhausted", "unauthorized"}
    PROVE  /\ Follows(r, Blocked(r, u, w, t))
           /\ Follows(r, Reported(r, u))
           /\ Follows(r, ResetUnblocked(r))
  <1>1. /\ BlockUntil(u, w) \in Blocks
        /\ BlockUntil(u, "rate_limited") \in Blocks
    BY DEF BlockUntil, Blocks
  <1>2. \A b \in Blocks \cup {None} : Follows(r, WithBlock(r, b))
    BY BlockKeeps, CallsNat, SameVerdict DEF Follows
  <1>3. Follows(r, r)
    BY SelfFollows
  <1>4. Follows(r, Blocked(r, u, w, t))
    BY <1>1, <1>2, <1>3 DEF Blocked
  <1>5. Follows(r, Reported(r, u))
    BY <1>1, <1>2 DEF Reported
  <1>6. Follows(r, ResetUnblocked(r))
    BY <1>2, <1>3 DEF ResetUnblocked
  <1>. QED
    BY <1>4, <1>5, <1>6

\* A replaced credential follows.
LEMMA CredentialFollows ==
    ASSUME NEW r \in Rows \cup {None}, NEW s \in CredentialState,
           NEW c \in Causes \cup {None}, NEW t \in Int, NEW e \in Int \cup {None}
    PROVE  Follows(r, WithCredential(r, Credential(s, c, t, e)))
  <1>1. Credential(s, c, t, e) \in Credentials
    BY CredentialTyped
  <1>. QED
    BY <1>1, CredentialKeeps, CallsNat, SameVerdict DEF Follows

\* record_credential_active and _signed_in.
LEMMA ActiveFollows ==
    ASSUME NEW r \in Rows \cup {None}, NEW t \in Int
    PROVE  /\ \A e \in Int \cup {None}, refreshed \in BOOLEAN :
                 Follows(r, Active(r, e, refreshed, t))
           /\ Follows(r, SignedIn(r, t))
  <1>1. /\ Unrefused(r) \in Rows /\ Calls(Unrefused(r)) = Calls(r)
        /\ Checks(Unrefused(r)) = Checks(r)
    BY UnrefusedKeeps
  <1>2. \A x \in Int \cup {None} :
           Follows(r, WithCredential(Unrefused(r), Credential("active", None, t, x)))
    BY <1>1, CredentialFollows DEF Follows, CredentialState
  <1>3. \A e \in Int \cup {None}, refreshed \in BOOLEAN :
           Follows(r, Active(r, e, refreshed, t))
    BY <1>2, SelfFollows DEF Active
  <1>4. Follows(r, SignedIn(r, t))
    BY <1>2 DEF SignedIn
  <1>. QED
    BY <1>3, <1>4

\* record_credential_disabled, _reinstated and record_discovered_account.
LEMMA StandingFollows ==
    ASSUME NEW r \in Rows \cup {None}, NEW c \in Causes, NEW t \in Int
    PROVE  /\ Follows(r, Disabled(r, c, t))
           /\ Follows(r, Reinstated(r, c, t))
           /\ Follows(r, Discovered(r, c, t))
  <1>0. CredentialState = {"active", "needs_reauthorization", "disabled"}
    BY DEF CredentialState
  <1>3. ExpiryOf(r) \in Int \cup {None}
    BY ExpiryTyped
  <1>6. Follows(r, Disabled(r, c, t))
    BY <1>0, <1>3, CredentialFollows DEF Disabled
  <1>7. Follows(r, Reinstated(r, c, t))
    BY <1>0, <1>3, CredentialFollows DEF Reinstated
  <1>8. Follows(r, Discovered(r, c, t))
    BY <1>0, SelfFollows, CredentialFollows DEF Discovered
  <1>. QED
    BY <1>6, <1>7, <1>8

\* record_reauthorization_needed replaces the credential and the block.
LEMMA RefusedFollows ==
    ASSUME NEW r \in Rows \cup {None}, NEW c \in Causes, NEW t \in Int
    PROVE  Follows(r, Refused(r, c, t))
  <1>1. Entry(r) \in Rows
    BY EntryRow
  <1>2. Entry(r).credential \in Credentials \cup {None}
    BY <1>1 DEF Rows
  <1>3. Disowned(r) => Entry(r).credential \in Credentials
    BY <1>2, RowAssumption DEF Disowned, StateOf, RowAssumption, CredentialState
  <1>4. Established(r, c, t) \in Int
    BY <1>3 DEF Established, Credentials
  <1> DEFINE d == Credential("needs_reauthorization", c, Established(r, c, t), ExpiryOf(r))
  <1>5. d \in Credentials
    BY <1>4, ExpiryTyped, CredentialTyped DEF CredentialState
  <1>6. /\ WithCredential(r, d) \in Rows /\ Calls(WithCredential(r, d)) = Calls(r)
        /\ Checks(WithCredential(r, d)) = Checks(r)
    BY <1>5, CredentialKeeps
  <1>7. BlockUntil(t + BlockTime, "unauthorized") \in Blocks
    BY RowAssumption DEF RowAssumption, BlockUntil, Blocks
  <1> DEFINE e == WithBlock(WithCredential(r, d), BlockUntil(t + BlockTime, "unauthorized"))
  <1>8. e \in Rows /\ Calls(e) = Calls(r) /\ Checks(e) = Checks(r)
    BY <1>6, <1>7, BlockKeeps
  <1>. QED
    BY <1>8, CallsNat, SameVerdict DEF Refused, Follows

\* The two checks replace their own verdict alone.
LEMMA CheckedFollows ==
    ASSUME NEW r \in Rows \cup {None}, NEW v \in Verdicts
    PROVE  /\ Follows(r, Probed(r, v))
           /\ Follows(r, UsageChecked(r, v))
           /\ Core(UsageChecked(r, v)) = Core(r)
  <1>1. Entry(r) \in Rows
    BY EntryRow
  <1>2. /\ Probed(r, v) \in Rows /\ Probed(r, v).calls = Entry(r).calls
        /\ Probed(r, v).check = Entry(r).check
        /\ Probed(r, v).probe = <<"completion", v>>
    BY <1>1 DEF Probed, Rows, Probes
  <1>3. /\ UsageChecked(r, v) \in Rows
        /\ UsageChecked(r, v).calls = Entry(r).calls
        /\ UsageChecked(r, v).check = v
        /\ UsageChecked(r, v).credential = Entry(r).credential
        /\ UsageChecked(r, v).block = Entry(r).block
    BY <1>1 DEF UsageChecked, Rows
  <1>4. Follows(r, Probed(r, v))
    BY <1>2, RowEntry, CallsNat DEF Follows, KeepsVerdict, Due, Checks
  <1>5. Follows(r, UsageChecked(r, v))
    BY <1>3, RowEntry, CallsNat, RowAssumption
       DEF Follows, KeepsVerdict, Due, Checks, RowAssumption
  <1>6. Core(UsageChecked(r, v)) = Core(r)
    BY <1>3, RowEntry DEF Core
  <1>. QED
    BY <1>4, <1>5, <1>6

\* Loading brings a verdict forward and changes nothing else.
LEMMA MigratedKeeps ==
    ASSUME NEW r \in Rows \cup {None}
    PROVE  /\ Migrated(r) \in Rows \cup {None}
           /\ Core(Migrated(r)) = Core(r)
  <1>1. CASE r = None
    BY <1>1 DEF Migrated
  <1>2. CASE r \in Rows /\ r # None
    <2>1. r.probe \in Probes \cup {None}
      BY <1>2 DEF Rows
    <2>2. r.probe # None => r.probe[2] \in Verdicts
      BY <2>1 DEF Probes
    <2>3. CASE r.check = None /\ r.probe # None /\ r.probe[1] = "usage_report"
      <3>1. Migrated(r) = [r EXCEPT !.check = r.probe[2]]
        BY <1>2, <2>3 DEF Migrated
      <3> DEFINE v == r.probe[2]
      <3>2. v \in Verdicts
        BY <2>2, <2>3
      <3>3. Migrated(r) = [r EXCEPT !.check = v]
        BY <3>1
      <3> HIDE DEF v
      <3>4. /\ Migrated(r) \in Rows
            /\ Migrated(r).calls = r.calls
            /\ Migrated(r).credential = r.credential
            /\ Migrated(r).block = r.block
        BY <1>2, <3>2, <3>3 DEF Rows
      <3>. QED
        BY <1>2, <3>4, RowEntry DEF Core
    <2>4. CASE ~(r.check = None /\ r.probe # None /\ r.probe[1] = "usage_report")
      BY <1>2, <2>4 DEF Migrated
    <2>. QED
      BY <2>3, <2>4
  <1>. QED
    BY <1>1, <1>2

\* What plan_usage_check reads: the check, or the verdict a load brings
\* forward, which a loaded row has in its place.
LEMMA VerdictForward ==
    ASSUME NEW r \in Rows \cup {None}
    PROVE  /\ PlanUsageCheck(r) # None <=> Checks(r).check # None \/ Due(Checks(r))
           /\ PlanUsageCheck(r) = Checks(Migrated(r)).check
           /\ ~Due(Checks(Migrated(r)))
  <1>1. PlanUsageCheck(r) = Checks(Migrated(r)).check
    BY DEF PlanUsageCheck, Checks
  <1>2. CASE r = None
    BY <1>1, <1>2 DEF Migrated, Checks, Due, Entry, Default
  <1>3. CASE r \in Rows /\ r # None
    <2>1. Checks(r).check = r.check /\ Checks(r).probe = r.probe
      BY <1>3 DEF Checks, Entry
    <2>2. CASE r.check = None /\ r.probe # None /\ r.probe[1] = "usage_report"
      <3> DEFINE v == r.probe[2]
      <3>1. r.probe \in Probes
        BY <1>3, <2>2 DEF Rows
      <3>2. v \in Verdicts /\ v # None
        BY <3>1, RowAssumption DEF Probes, RowAssumption
      <3>3. Migrated(r) = [r EXCEPT !.check = v]
        BY <1>3, <2>2 DEF Migrated
      <3> HIDE DEF v
      <3>4. Migrated(r) \in Rows /\ Migrated(r).check = v
        BY <1>3, <3>2, <3>3 DEF Rows
      <3>5. Checks(Migrated(r)).check = v
        BY <3>4, RowEntry DEF Checks
      <3>. QED
        BY <1>1, <2>1, <2>2, <3>2, <3>5 DEF Due
    <2>3. CASE ~(r.check = None /\ r.probe # None /\ r.probe[1] = "usage_report")
      <3>1. Migrated(r) = r
        BY <1>3, <2>3 DEF Migrated
      <3>. QED
        BY <1>1, <2>1, <2>3, <3>1 DEF Due
    <2>. QED
      BY <2>2, <2>3
  <1>. QED
    BY <1>2, <1>3

-----------------------------------------------------------------------------
(***************************************************************************)
(* One process writes the file.                                            *)
(***************************************************************************)
\* In this step the file's counts do not go back, and no verdict of a usage
\* report is erased from it.
FileKept ==
    \A m \in Members \ removed' :
        /\ Calls(file'[m]) >= Calls(file[m])
        /\ PlanUsageCheck(file[m]) # None => PlanUsageCheck(file'[m]) # None

\* A copy has its usage verdicts in their own place, and one that may replace
\* the file has a verdict wherever the file has one.
CopyForward ==
    \A p \in Processes : memory[p] # None => \A m \in Members : ~Due(Checks(Row(p, m)))

VerdictAhead ==
    \A p \in Processes : memory[p] # None /\ ~sealed[p] =>
        \A m \in Members \ removed :
            PlanUsageCheck(file[m]) # None => Checks(Row(p, m)).check # None

\* The inductive invariant: the one the runs check, and where verdicts are.
LedgerKept == LedgerInv /\ CopyForward /\ VerdictAhead

\* The copy a write stores is a ledger.
LEMMA ApplyTyped ==
    ASSUME LedgerTypeOK, NEW p \in Processes, NEW m \in Members, memory[p] # None,
           NEW row \in Rows \cup {None}
    PROVE  /\ memory[p] \in Ledgers
           /\ Row(p, m) \in Rows \cup {None}
           /\ Apply(p, m, row) \in Ledgers
           /\ Apply(p, m, row)[m] = row
           /\ \A n \in Members \ {m} : Apply(p, m, row)[n] = memory[p][n]
  <1>1. memory[p] \in Ledgers
    BY DEF LedgerTypeOK
  <1>. QED
    BY <1>1 DEF Ledgers, Row, Apply

\* write_ledger with a row that follows the one it replaces, or with the
\* removal of a member.
LEMMA WriteKeeps ==
    ASSUME NEW p, Processes = {p}, LedgerKept, NEW m \in Members,
           NEW row \in Rows \cup {None}, Write(p, m, row),
           Follows(Row(p, m), row) \/ (row = None /\ m \in removed'),
           owed' \in [Processes -> SUBSET Members], retired' \in SUBSET Members,
           removed' \in SUBSET Members, removed \subseteq removed'
    PROVE  LedgerKept' /\ FileKept
  <1> DEFINE copy == Apply(p, m, row)
  <1>1. /\ p \in Processes /\ memory[p] # None /\ LedgerTypeOK
        /\ UNCHANGED <<sealed, now>>
    BY DEF Write, LedgerInv, LedgerKept
  <1>2. /\ memory[p] \in Ledgers
        /\ Row(p, m) \in Rows \cup {None}
        /\ copy \in Ledgers
        /\ copy[m] = row
        /\ \A n \in Members \ {m} : copy[n] = memory[p][n]
    BY <1>1, ApplyTyped
  <1>3. \A n \in Members : /\ copy[n] \in Rows \cup {None}
                           /\ memory[p][n] \in Rows \cup {None}
                           /\ file[n] \in Rows \cup {None}
    BY <1>1, <1>2 DEF LedgerTypeOK, Ledgers
  <1>4. \A n \in Members : /\ Calls(copy[n]) \in Nat
                           /\ Calls(memory[p][n]) \in Nat
                           /\ Calls(file[n]) \in Nat
    BY <1>3, CallsNat
  <1>5. \A n \in Members \ removed' : Calls(copy[n]) >= Calls(memory[p][n])
    <2> SUFFICES ASSUME NEW n \in Members \ removed'
                 PROVE  Calls(copy[n]) >= Calls(memory[p][n])
      OBVIOUS
    <2>1. CASE n = m
      BY <1>2, <2>1 DEF Follows, Row
    <2>2. CASE n # m
      <3>1. copy[n] = memory[p][n]
        BY <1>2, <2>2
      <3>. QED
        BY <1>4, <3>1
    <2>. QED
      BY <2>1, <2>2
  <1>6. ~sealed[p] => \A n \in Members \ removed' : Calls(memory[p][n]) >= Calls(file[n])
    BY <1>1 DEF LedgerKept, LedgerInv, CopyAhead, Row
  <1>20. \A n \in Members : ~Due(Checks(memory[p][n]))
    BY <1>1 DEF LedgerKept, CopyForward, Row
  <1>21. ~sealed[p] => \A n \in Members \ removed' :
            PlanUsageCheck(file[n]) # None => Checks(memory[p][n]).check # None
    BY <1>1 DEF LedgerKept, VerdictAhead, Row
  <1>22. \A n \in Members : ~Due(Checks(copy[n]))
    <2> SUFFICES ASSUME NEW n \in Members
                 PROVE  ~Due(Checks(copy[n]))
      OBVIOUS
    <2>1. CASE n # m
      BY <1>2, <1>20, <2>1
    <2>2. CASE n = m /\ Follows(Row(p, m), row)
      BY <1>2, <1>20, <2>2 DEF Follows, KeepsVerdict, Row
    <2>3. CASE n = m /\ row = None
      BY <1>2, <2>3 DEF Due, Checks, Entry, Default
    <2>. QED
      BY <2>1, <2>2, <2>3
  <1>23. \A n \in Members \ removed' :
            Checks(memory[p][n]).check # None => Checks(copy[n]).check # None
    <2> SUFFICES ASSUME NEW n \in Members \ removed'
                 PROVE  Checks(memory[p][n]).check # None => Checks(copy[n]).check # None
      OBVIOUS
    <2>1. CASE n # m
      BY <1>2, <2>1
    <2>2. CASE n = m
      BY <1>2, <2>2 DEF Follows, KeepsVerdict, Row
    <2>. QED
      BY <2>1, <2>2
  <1>24. \A n \in Members : PlanUsageCheck(copy[n]) # None <=> Checks(copy[n]).check # None
    BY <1>3, <1>22, VerdictForward
  <1>7. memory' = [memory EXCEPT ![p] = copy]
    BY DEF Write, Stored, Unstored
  <1>8. memory'[p] = copy
    BY <1>1, <1>7 DEF LedgerTypeOK
  <1>9. memory' \in [Processes -> Ledgers \cup {None}]
    BY <1>1, <1>2, <1>7 DEF LedgerTypeOK
  <1> HIDE DEF copy
  <1>10. CASE Stored(p, m, row)
    <2>1. /\ ~sealed[p] /\ file' = copy /\ lost' = lost
          /\ failed' = [failed EXCEPT ![p] = FALSE]
      BY <1>10 DEF Stored, copy
    <2>2. LedgerTypeOK'
      BY <1>1, <1>2, <1>9, <2>1 DEF LedgerTypeOK
    <2>3. BehindReported'
      BY <1>8, <2>1 DEF BehindReported, Row
    <2>4. SealedTold'
      BY <1>1, <2>1 DEF SealedTold
    <2>5. CopyAhead'
      BY <1>4, <1>8, <2>1 DEF CopyAhead, Row
    <2>6. FileKept
      BY <1>4, <1>5, <1>6, <1>21, <1>23, <1>24, <2>1 DEF FileKept
    <2>7. CopyForward' /\ VerdictAhead'
      BY <1>8, <1>22, <1>24, <2>1 DEF CopyForward, VerdictAhead, Row
    <2>. QED
      BY <2>2, <2>3, <2>4, <2>5, <2>6, <2>7 DEF LedgerInv, LedgerKept
  <1>11. CASE Unstored(p, m, row)
    <2>1. /\ file' = file /\ lost[p] < MaxLost
          /\ lost' = [lost EXCEPT ![p] = @ + 1]
          /\ failed' = [failed EXCEPT ![p] = TRUE]
      BY <1>11 DEF Unstored
    <2>2. failed'[p] = TRUE
      BY <1>1, <2>1 DEF LedgerTypeOK
    <2>3. lost' \in [Processes -> 0 .. MaxLost]
      BY <1>1, <2>1, LedgerAssumption DEF LedgerTypeOK, LedgerAssumption
    <2>4. LedgerTypeOK'
      BY <1>1, <1>9, <2>1, <2>3 DEF LedgerTypeOK
    <2>5. BehindReported'
      BY <2>2 DEF BehindReported
    <2>6. SealedTold'
      BY <2>2 DEF SealedTold
    <2>7. CopyAhead'
      BY <1>1, <1>4, <1>5, <1>6, <1>8, <2>1 DEF CopyAhead, Row
    <2>8. FileKept
      BY <1>4, <2>1 DEF FileKept
    <2>9. CopyForward' /\ VerdictAhead'
      BY <1>1, <1>8, <1>21, <1>22, <1>23, <2>1 DEF CopyForward, VerdictAhead, Row
    <2>. QED
      BY <2>4, <2>5, <2>6, <2>7, <2>8, <2>9 DEF LedgerInv, LedgerKept
  <1>. QED
    BY <1>10, <1>11 DEF Write

\* A failed usage write is remembered in memory alone, and in no part of the
\* row the invariant compares.
LEMMA RememberKeeps ==
    ASSUME NEW p, Processes = {p}, LedgerKept, NEW m \in Members, RememberFailure(p, m)
    PROVE  LedgerKept' /\ FileKept
  <1> DEFINE row == UsageChecked(Row(p, m), "failed")
             copy == Apply(p, m, row)
  <1>1. /\ p \in Processes /\ memory[p] # None /\ LedgerTypeOK
        /\ memory' = [memory EXCEPT ![p] = copy]
        /\ owed' = [owed EXCEPT ![p] = @ \ {m}]
        /\ UNCHANGED <<lost, failed, sealed, file, retired, removed, now>>
    BY DEF RememberFailure, LedgerInv, LedgerKept
  <1>2. Row(p, m) \in Rows \cup {None}
    BY <1>1, ApplyTyped
  <1>3. Follows(Row(p, m), row) /\ Core(row) = Core(Row(p, m))
    BY <1>2, CheckedFollows DEF Verdicts
  <1> HIDE DEF row
  <1>4. row \in Rows \cup {None}
    BY <1>3 DEF Follows
  <1>5. /\ copy \in Ledgers
        /\ copy[m] = row
        /\ \A n \in Members \ {m} : copy[n] = memory[p][n]
    BY <1>1, <1>4, ApplyTyped
  <1> HIDE DEF copy
  <1>6. memory'[p] = copy
    BY <1>1 DEF LedgerTypeOK
  <1>7. \A n \in Members : Core(copy[n]) = Core(memory[p][n])
    BY <1>3, <1>5 DEF Row
  <1>8. \A n \in Members : Calls(copy[n]) = Calls(memory[p][n])
    BY <1>7 DEF Core
  <1>9. LedgerTypeOK'
    BY <1>1, <1>5 DEF LedgerTypeOK
  <1>10. BehindReported'
    BY <1>1, <1>6, <1>7 DEF LedgerKept, LedgerInv, BehindReported, Row
  <1>11. SealedTold'
    BY <1>1 DEF LedgerKept, LedgerInv, SealedTold
  <1>12. CopyAhead'
    BY <1>1, <1>6, <1>8 DEF LedgerKept, LedgerInv, CopyAhead, Row
  <1>14. \A n \in Members : KeepsVerdict(Checks(memory[p][n]), Checks(copy[n]))
    BY <1>3, <1>5, SameVerdict DEF Follows, Row
  <1>15. CopyForward' /\ VerdictAhead'
    BY <1>1, <1>6, <1>14 DEF LedgerKept, CopyForward, VerdictAhead, KeepsVerdict, Row
  <1>13. FileKept
    <2>1. \A n \in Members : file[n] \in Rows \cup {None}
      BY <1>1 DEF LedgerTypeOK, Ledgers
    <2>. QED
      BY <1>1, <2>1, CallsNat DEF FileKept
  <1>. QED
    BY <1>9, <1>10, <1>11, <1>12, <1>13, <1>15 DEF LedgerInv, LedgerKept

\* A record_* function keeps the invariant and the file's counts.
LEMMA RecordKeeps ==
    ASSUME NEW p, Processes = {p}, LedgerKept, NEW m \in Members, Record(p, m)
    PROVE  LedgerKept' /\ FileKept
  <1>0. /\ p \in Processes
        /\ owed \in [Processes -> SUBSET Members]
        /\ retired \in SUBSET Members /\ removed \in SUBSET Members
        /\ now \in Int
    BY LedgerAssumption DEF LedgerKept, LedgerInv, LedgerTypeOK, Instants, LedgerAssumption
  <1>1. memory[p] # None
    BY DEF Record, RecordCall, RecordBlock, RecordReportedBlock, RecordResetUnblocked,
           RecordActive, RecordSignedIn, RecordDisabled, RecordReinstated, RecordRefused,
           RecordDiscovered, RecordNoted, RecordProbe, RecordUsage, RememberFailure,
           RemoveSubscription
  <1>2. Row(p, m) \in Rows \cup {None}
    BY <1>0, <1>1, ApplyTyped DEF LedgerInv, LedgerKept
  \* A row that follows, written by an action that removes nobody.
  <1>3. ASSUME NEW row, Follows(Row(p, m), row), Write(p, m, row),
               owed' \in [Processes -> SUBSET Members], retired' \in SUBSET Members,
               removed' = removed
        PROVE  LedgerKept' /\ FileKept
    <2>1. row \in Rows \cup {None}
      BY <1>3 DEF Follows
    <2>. QED
      BY <1>0, <1>3, <2>1, WriteKeeps
  <1>4. CASE RecordCall(p, m)
    <2>1. PICK ok \in BOOLEAN : Write(p, m, Called(Row(p, m), ok, now))
      BY <1>4 DEF RecordCall
    <2>2. Follows(Row(p, m), Called(Row(p, m), ok, now))
      BY <1>0, <1>2, CalledFollows
    <2>. QED
      BY <1>0, <1>3, <1>4, <2>1, <2>2 DEF RecordCall
  <1>5. CASE RecordBlock(p, m)
    <2>1. PICK until \in Instants, why \in {"rate_limited", "quota_exhausted"} :
             Write(p, m, Blocked(Row(p, m), until, why, now))
      BY <1>5 DEF RecordBlock
    <2>2. until \in Int
      BY DEF Instants
    <2>3. Follows(Row(p, m), Blocked(Row(p, m), until, why, now))
      BY <1>0, <1>2, <2>2, BlockedFollows
    <2>. QED
      BY <1>0, <1>3, <1>5, <2>1, <2>3 DEF RecordBlock
  <1>6. CASE RecordReportedBlock(p, m)
    <2>1. PICK until \in Instants : Write(p, m, Reported(Row(p, m), until))
      BY <1>6 DEF RecordReportedBlock
    <2>2. until \in Int
      BY DEF Instants
    <2>3. Follows(Row(p, m), Reported(Row(p, m), until))
      BY <1>0, <1>2, <2>2, BlockedFollows
    <2>. QED
      BY <1>0, <1>3, <1>6, <2>1, <2>3 DEF RecordReportedBlock
  <1>7. CASE RecordResetUnblocked(p, m)
    <2>1. Follows(Row(p, m), ResetUnblocked(Row(p, m)))
      BY <1>0, <1>2, BlockedFollows
    <2>. QED
      BY <1>0, <1>3, <1>7, <2>1 DEF RecordResetUnblocked
  <1>8. CASE RecordActive(p, m)
    <2>1. PICK e \in Expiries, refreshed \in BOOLEAN :
             Write(p, m, Active(Row(p, m), e, refreshed, now))
      BY <1>8 DEF RecordActive
    <2>2. e \in Int \cup {None}
      BY LedgerAssumption DEF LedgerAssumption
    <2>3. Follows(Row(p, m), Active(Row(p, m), e, refreshed, now))
      BY <1>0, <1>2, <2>2, ActiveFollows
    <2>. QED
      BY <1>0, <1>3, <1>8, <2>1, <2>3 DEF RecordActive
  <1>9. CASE RecordSignedIn(p, m)
    <2>1. Follows(Row(p, m), SignedIn(Row(p, m), now))
      BY <1>0, <1>2, ActiveFollows
    <2>. QED
      BY <1>0, <1>3, <1>9, <2>1 DEF RecordSignedIn
  <1>10. CASE RecordDisabled(p, m)
    <2>1. PICK c \in Causes : Write(p, m, Disabled(Row(p, m), c, now))
      BY <1>10 DEF RecordDisabled
    <2>2. Follows(Row(p, m), Disabled(Row(p, m), c, now))
      BY <1>0, <1>2, StandingFollows
    <2>3. retired' \in SUBSET Members
      BY <1>0, <1>10 DEF RecordDisabled
    <2>. QED
      BY <1>0, <1>3, <1>10, <2>1, <2>2, <2>3 DEF RecordDisabled
  <1>11. CASE RecordReinstated(p, m)
    <2>1. PICK c \in Causes : Write(p, m, Reinstated(Row(p, m), c, now))
      BY <1>11 DEF RecordReinstated
    <2>2. Follows(Row(p, m), Reinstated(Row(p, m), c, now))
      BY <1>0, <1>2, StandingFollows
    <2>. QED
      BY <1>0, <1>3, <1>11, <2>1, <2>2 DEF RecordReinstated
  <1>12. CASE RecordRefused(p, m)
    <2>1. PICK c \in Causes : Write(p, m, Refused(Row(p, m), c, now))
      BY <1>12 DEF RecordRefused
    <2>2. Follows(Row(p, m), Refused(Row(p, m), c, now))
      BY <1>0, <1>2, RefusedFollows
    <2>. QED
      BY <1>0, <1>3, <1>12, <2>1, <2>2 DEF RecordRefused
  <1>13. CASE RecordDiscovered(p, m)
    <2>1. PICK c \in Causes : Write(p, m, Discovered(Row(p, m), c, now))
      BY <1>13 DEF RecordDiscovered
    <2>2. Follows(Row(p, m), Discovered(Row(p, m), c, now))
      BY <1>0, <1>2, StandingFollows
    <2>. QED
      BY <1>0, <1>3, <1>13, <2>1, <2>2 DEF RecordDiscovered
  <1>14. CASE RecordNoted(p, m)
    <2>1. Follows(Row(p, m), Entry(Row(p, m)))
      BY <1>2, SelfFollows
    <2>. QED
      BY <1>0, <1>3, <1>14, <2>1 DEF RecordNoted
  <1>15. CASE RecordProbe(p, m)
    <2>1. PICK v \in Verdicts : Write(p, m, Probed(Row(p, m), v))
      BY <1>15 DEF RecordProbe
    <2>2. Follows(Row(p, m), Probed(Row(p, m), v))
      BY <1>2, CheckedFollows
    <2>. QED
      BY <1>0, <1>3, <1>15, <2>1, <2>2 DEF RecordProbe
  <1>16. CASE RecordUsage(p, m)
    <2>1. PICK v \in Verdicts : \/ Stored(p, m, UsageChecked(Row(p, m), v)) /\ owed' = owed
                                \/ /\ Unstored(p, m, UsageChecked(Row(p, m), v))
                                   /\ owed' = [owed EXCEPT ![p] = @ \cup {m}]
      BY <1>16 DEF RecordUsage
    <2>2. Write(p, m, UsageChecked(Row(p, m), v))
      BY <1>1, <1>16, <2>1 DEF Write, RecordUsage
    <2>3. owed' \in [Processes -> SUBSET Members]
      BY <1>0, <2>1
    <2>4. Follows(Row(p, m), UsageChecked(Row(p, m), v))
      BY <1>2, CheckedFollows
    <2>. QED
      BY <1>0, <1>3, <1>16, <2>2, <2>3, <2>4 DEF RecordUsage
  <1>17. CASE RememberFailure(p, m)
    BY <1>17, RememberKeeps
  <1>18. CASE RemoveSubscription(p, m)
    <2>1. /\ Write(p, m, None) /\ removed' = removed \cup {m}
          /\ retired' = retired \ {m} /\ owed' = owed
      BY <1>18 DEF RemoveSubscription
    <2>. QED
      BY <1>0, <2>1, WriteKeeps
  <1>. QED
    BY <1>4, <1>5, <1>6, <1>7, <1>8, <1>9, <1>10, <1>11, <1>12, <1>13, <1>14, <1>15,
       <1>16, <1>17, <1>18 DEF Record

\* A process starts, ends, or the clock moves: the file is not written.
LEMMA ProcessKeeps ==
    ASSUME NEW p, Processes = {p}, LedgerKept, Load(p) \/ LoadFails(p) \/ Stop(p) \/ Tick
    PROVE  LedgerKept' /\ FileKept
  <1>0. p \in Processes /\ LedgerTypeOK /\ file \in Ledgers
    BY DEF LedgerInv, LedgerKept, LedgerTypeOK
  <1>1. \A n \in Members : file[n] \in Rows \cup {None}
    BY <1>0 DEF Ledgers
  <1>2. FileKept
    <2>1. file' = file
      BY DEF Load, LoadFails, Stop, Tick
    <2>. QED
      BY <1>1, <2>1, CallsNat DEF FileKept
  <1>3. CASE Load(p)
    <2>1. \A n \in Members : /\ Loaded(file)[n] \in Rows \cup {None}
                             /\ Core(Loaded(file)[n]) = Core(file[n])
      BY <1>1, MigratedKeeps DEF Loaded
    <2>2. \A n \in Members : Calls(Loaded(file)[n]) >= Calls(file[n])
      BY <1>1, <2>1, CallsNat DEF Core
    <2>3. Loaded(file) \in Ledgers
      BY <2>1 DEF Loaded, Ledgers
    <2> DEFINE copy == Loaded(file)
    <2> HIDE DEF copy
    <2>4. memory' = [memory EXCEPT ![p] = copy]
      BY <1>3 DEF Load, copy
    <2>5. memory'[p] = copy
      BY <1>0, <2>4 DEF LedgerTypeOK
    <2>6. LedgerTypeOK'
      BY <1>0, <1>3, <2>3, <2>4, LedgerAssumption DEF Load, LedgerTypeOK, LedgerAssumption, copy
    <2>7. BehindReported'
      BY <1>3, <2>1, <2>5 DEF Load, BehindReported, Row, copy
    <2>8. SealedTold'
      BY <1>0, <1>3 DEF Load, SealedTold, LedgerTypeOK
    <2>9. CopyAhead'
      BY <1>3, <2>2, <2>5 DEF Load, CopyAhead, Row, copy
    <2>10. \A n \in Members : /\ ~Due(Checks(copy[n]))
                              /\ PlanUsageCheck(file[n]) = Checks(copy[n]).check
      BY <1>1, VerdictForward DEF Loaded, copy
    <2>11. CopyForward' /\ VerdictAhead'
      BY <1>3, <2>5, <2>10 DEF Load, CopyForward, VerdictAhead, Row
    <2>. QED
      BY <1>2, <2>6, <2>7, <2>8, <2>9, <2>11 DEF LedgerInv, LedgerKept
  <1>4. CASE LoadFails(p)
    <2>1. Empty \in Ledgers
      BY DEF Empty, Ledgers
    <2>2. failed'[p] = TRUE /\ sealed'[p] = TRUE
      BY <1>0, <1>4 DEF LoadFails, LedgerTypeOK
    <2>3. LedgerTypeOK'
      BY <1>0, <1>4, <2>1, LedgerAssumption DEF LoadFails, LedgerTypeOK, LedgerAssumption
    <2>4. memory'[p] = Empty
      BY <1>0, <1>4 DEF LoadFails, LedgerTypeOK
    <2>5. CopyForward' /\ VerdictAhead'
      BY <2>2, <2>4 DEF CopyForward, VerdictAhead, Row, Empty, Due, Checks, Entry, Default
    <2>. QED
      BY <1>2, <2>2, <2>3, <2>5
         DEF LedgerKept, LedgerInv, BehindReported, SealedTold, CopyAhead
  <1>5. CASE Stop(p)
    <2>1. memory'[p] = None
      BY <1>0, <1>5 DEF Stop, LedgerTypeOK
    <2>2. LedgerTypeOK'
      BY <1>0, <1>5 DEF Stop, LedgerTypeOK
    <2>. QED
      BY <1>2, <2>1, <2>2 DEF LedgerKept, LedgerInv, BehindReported, SealedTold, CopyAhead,
                              CopyForward, VerdictAhead
  <1>6. CASE Tick
    <2>1. now' \in Instants
      BY <1>0, <1>6, LedgerAssumption DEF Tick, LedgerTypeOK, Instants, LedgerAssumption
    <2>2. LedgerTypeOK'
      BY <1>0, <1>6, <2>1 DEF Tick, LedgerTypeOK
    <2>. QED
      BY <1>2, <1>6, <2>2 DEF Tick, LedgerKept, LedgerInv, BehindReported, SealedTold, CopyAhead,
                              CopyForward, VerdictAhead, Row
  <1>. QED
    BY <1>3, <1>4, <1>5, <1>6

\* Every step of the ledger, a stutter included.
LEMMA LedgerStep ==
    ASSUME NEW p, Processes = {p}, LedgerKept, [Next]_vars
    PROVE  LedgerKept' /\ FileKept
  <1>1. CASE \E m \in Members : Record(p, m)
    BY <1>1, RecordKeeps
  <1>2. CASE Load(p) \/ LoadFails(p) \/ Stop(p) \/ Tick
    BY <1>2, ProcessKeeps
  <1>3. CASE UNCHANGED vars
    <2>1. \A n \in Members : file[n] \in Rows \cup {None}
      BY DEF LedgerKept, LedgerInv, LedgerTypeOK, Ledgers
    <2>2. FileKept
      BY <1>3, <2>1, CallsNat DEF vars, FileKept
    <2>. QED
      BY <1>3, <2>2 DEF vars, LedgerKept, LedgerInv, LedgerTypeOK, BehindReported, SealedTold,
                        CopyAhead, CopyForward, VerdictAhead, Row
  <1>. QED
    BY <1>1, <1>2, <1>3 DEF Next

\* The first state: no process has loaded the file.
LEMMA LedgerInit ==
    ASSUME Init
    PROVE  LedgerKept
  <1>1. file \in Ledgers
    <2>1. PICK probe \in {None} \cup ({"usage_report"} \X Verdicts) :
             file = [m \in Members |->
                       IF probe = None THEN None ELSE [Default EXCEPT !.probe = probe]]
      BY DEF Init
    <2>2. Default \in Rows
      BY DEF Default, Rows
    <2>3. probe # None => probe \in Probes
      BY <2>1 DEF Probes
    <2>4. probe # None => [Default EXCEPT !.probe = probe] \in Rows
      BY <2>2, <2>3 DEF Rows
    <2>. QED
      BY <2>1, <2>4 DEF Ledgers
  <1>2. LedgerTypeOK
    BY <1>1, LedgerAssumption DEF Init, LedgerTypeOK, Instants, LedgerAssumption
  <1>. QED
    BY <1>2 DEF Init, LedgerKept, LedgerInv, BehindReported, SealedTold, CopyAhead, CopyForward,
                VerdictAhead

\* The invariant holds from the first state on.
THEOREM LedgerKeptAlways ==
    ASSUME NEW CONSTANT p, Processes = {p}
    PROVE  Spec => []LedgerKept
  <1>1. Init => LedgerKept
    BY LedgerInit
  <1>2. LedgerKept /\ [Next]_vars => LedgerKept'
    BY LedgerStep
  <1>. QED
    BY <1>1, <1>2, PTL DEF Spec

-----------------------------------------------------------------------------
(***************************************************************************)
(* With one process on the file, whatever loads and writes fail and        *)
(* whenever it restarts: a copy that is ahead of the file is reported by   *)
(* storage_error, and a copy that may replace the file lost no call.       *)
(***************************************************************************)
THEOREM LedgerInvariant ==
    ASSUME NEW CONSTANT p, Processes = {p}
    PROVE  Spec => []LedgerInv
  <1>1. LedgerKept => LedgerInv
    BY DEF LedgerKept
  <1>. QED
    BY <1>1, LedgerKeptAlways, PTL

(***************************************************************************)
(* With one process on the file, no failed load, failed write or restart   *)
(* replaces a member's count of calls with a smaller one.                  *)
(***************************************************************************)
THEOREM CountsNeverLost ==
    ASSUME NEW CONSTANT p, Processes = {p}
    PROVE  Spec => CountsKept
  <1>1. LedgerKept /\ [Next]_vars =>
           [\A m \in Members \ removed' : Calls(file'[m]) >= Calls(file[m])]_vars
    BY LedgerStep DEF FileKept
  <1>. QED
    BY <1>1, LedgerKeptAlways, PTL DEF Spec, CountsKept

(***************************************************************************)
(* With one process on the file, no traffic, completion, failed write or   *)
(* restart erases the verdict of a member's newest usage report, also in a *)
(* ledger from before usage_check existed.                                 *)
(***************************************************************************)
THEOREM VerdictNeverErased ==
    ASSUME NEW CONSTANT p, Processes = {p}
    PROVE  Spec => VerdictKept
  <1>1. LedgerKept /\ [Next]_vars =>
           [\A m \in Members \ removed' :
               PlanUsageCheck(file[m]) # None => PlanUsageCheck(file'[m]) # None]_vars
    BY LedgerStep DEF FileKept
  <1>. QED
    BY <1>1, LedgerKeptAlways, PTL DEF Spec, VerdictKept

=============================================================================
