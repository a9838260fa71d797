---------------------------- MODULE UsageLedger -----------------------------
(***************************************************************************)
(* The usage ledger: the one copy of every row each process holds, and the *)
(* file a whole copy is written through to.                                *)
(*                                                                         *)
(* Every record_* function changes the process's copy under its mutex and  *)
(* replaces the file with the whole of it before the mutex is released;    *)
(* a change is kept in memory when the file could not be written, and a    *)
(* process whose load failed never writes the file at all.  A function     *)
(* stamps the instant it reads just before it takes the mutex; the wait    *)
(* for the mutex is left out.                                              *)
(***************************************************************************)
EXTENDS LedgerRow

CONSTANTS
    Processes,   \* Brama processes on one ledger file
    Members,     \* subscription ids
    Expiries,    \* instants a grant states as its expiry
    MaxTime,     \* bound of the clock
    MaxCalls,    \* bound of the measured calls of a row
    MaxLost      \* bound of the changes one life of a process fails to store

Instants == 0 .. MaxTime

Ledgers == [Members -> Rows \cup {None}]

ASSUME LedgerAssumption ==
    /\ Expiries \subseteq Int \cup {None}
    /\ MaxTime \in Nat
    /\ MaxCalls \in Nat
    /\ MaxLost \in Nat
    /\ None \notin Ledgers

Empty == [m \in Members |-> None]

VARIABLES
    memory,    \* each process's ledger, None before its first use
    lost,      \* how many of its changes it could not store (the bound's counter)
    failed,    \* storage_error is set
    sealed,    \* persist_blocked: the load failed, the file is not replaced
    file,      \* the durable copy
    owed,      \* members whose failed usage write is not yet remembered
    retired,   \* history: retired, and neither signed in nor reinstated since
    removed,   \* history: members somebody removed from a copy
    now        \* the clock

vars == <<memory, lost, failed, sealed, file, owed, retired, removed, now>>

LedgerTypeOK ==
    /\ memory \in [Processes -> Ledgers \cup {None}]
    /\ lost \in [Processes -> 0 .. MaxLost]
    /\ failed \in [Processes -> BOOLEAN]
    /\ sealed \in [Processes -> BOOLEAN]
    /\ file \in Ledgers
    /\ owed \in [Processes -> SUBSET Members]
    /\ retired \in SUBSET Members
    /\ removed \in SUBSET Members
    /\ now \in Instants

\* A ledger of this release, one from before usage_check existed, or none.
Init ==
    /\ memory = [p \in Processes |-> None]
    /\ lost = [p \in Processes |-> 0]
    /\ failed = [p \in Processes |-> FALSE]
    /\ sealed = [p \in Processes |-> FALSE]
    /\ \E probe \in {None} \cup ({"usage_report"} \X Verdicts) :
          file = [m \in Members |->
                    IF probe = None THEN None ELSE [Default EXCEPT !.probe = probe]]
    /\ owed = [p \in Processes |-> {}]
    /\ retired = {}
    /\ removed = {}
    /\ now = 0

-----------------------------------------------------------------------------
(***************************************************************************)
(* The copy and the file.                                                  *)
(***************************************************************************)
\* Bug: a verdict kept in the probe's place is not brought forward.
LoadedAsIs(f) == f

Loaded(f) == [m \in Members |-> Migrated(f[m])]

Load(p) ==
    /\ memory[p] = None
    /\ memory' = [memory EXCEPT ![p] = Loaded(file)]
    /\ lost' = [lost EXCEPT ![p] = 0]
    /\ failed' = [failed EXCEPT ![p] = FALSE]
    /\ sealed' = [sealed EXCEPT ![p] = FALSE]
    /\ UNCHANGED <<file, owed, retired, removed, now>>

\* Bug: a ledger that could not be read is replaced like a missing one.
LoadFailsUnsealed(p) ==
    /\ memory[p] = None
    /\ memory' = [memory EXCEPT ![p] = Empty]
    /\ lost' = [lost EXCEPT ![p] = 0]
    /\ failed' = [failed EXCEPT ![p] = TRUE]
    /\ sealed' = [sealed EXCEPT ![p] = FALSE]
    /\ UNCHANGED <<file, owed, retired, removed, now>>

\* A file that exists and cannot be read or decoded: the process serves from
\* an empty copy, and the file is left alone.
LoadFails(p) ==
    /\ memory[p] = None
    /\ memory' = [memory EXCEPT ![p] = Empty]
    /\ lost' = [lost EXCEPT ![p] = 0]
    /\ failed' = [failed EXCEPT ![p] = TRUE]
    /\ sealed' = [sealed EXCEPT ![p] = TRUE]
    /\ UNCHANGED <<file, owed, retired, removed, now>>

\* A process ends; its unwritten changes end with it.
Stop(p) ==
    /\ memory[p] # None
    /\ memory' = [memory EXCEPT ![p] = None]
    /\ owed' = [owed EXCEPT ![p] = {}]
    /\ UNCHANGED <<lost, failed, sealed, file, retired, removed, now>>

Apply(p, m, row) == [memory[p] EXCEPT ![m] = row]

Stored(p, m, row) ==
    /\ ~sealed[p]
    /\ memory' = [memory EXCEPT ![p] = Apply(p, m, row)]
    /\ file' = Apply(p, m, row)
    /\ failed' = [failed EXCEPT ![p] = FALSE]
    /\ lost' = lost

\* Bug: a write that failed is reported only by a process whose load failed.
UnstoredQuietly(p, m, row) ==
    /\ lost[p] < MaxLost
    /\ memory' = [memory EXCEPT ![p] = Apply(p, m, row)]
    /\ file' = file
    /\ failed' = [failed EXCEPT ![p] = sealed[p]]
    /\ lost' = [lost EXCEPT ![p] = @ + 1]

\* persist refused, or blocked by the failed load.
Unstored(p, m, row) ==
    /\ lost[p] < MaxLost
    /\ memory' = [memory EXCEPT ![p] = Apply(p, m, row)]
    /\ file' = file
    /\ failed' = [failed EXCEPT ![p] = TRUE]
    /\ lost' = [lost EXCEPT ![p] = @ + 1]

\* write_ledger
Write(p, m, row) ==
    /\ memory[p] # None
    /\ Stored(p, m, row) \/ Unstored(p, m, row)
    /\ UNCHANGED <<sealed, now>>

Row(p, m) == memory[p][m]

-----------------------------------------------------------------------------
(***************************************************************************)
(* One action per record_* function.                                       *)
(***************************************************************************)
RecordCall(p, m) ==
    /\ memory[p] # None
    /\ Entry(Row(p, m)).calls < MaxCalls
    /\ \E ok \in BOOLEAN : Write(p, m, Called(Row(p, m), ok, now))
    /\ UNCHANGED <<owed, retired, removed>>

RecordBlock(p, m) ==
    /\ memory[p] # None
    /\ \E until \in Instants, why \in {"rate_limited", "quota_exhausted"} :
          /\ until > now
          /\ Write(p, m, Blocked(Row(p, m), until, why, now))
    /\ UNCHANGED <<owed, retired, removed>>

RecordReportedBlock(p, m) ==
    /\ memory[p] # None
    /\ \E until \in Instants : Write(p, m, Reported(Row(p, m), until))
    /\ UNCHANGED <<owed, retired, removed>>

RecordResetUnblocked(p, m) ==
    /\ memory[p] # None
    /\ Write(p, m, ResetUnblocked(Row(p, m)))
    /\ UNCHANGED <<owed, retired, removed>>

RecordActive(p, m) ==
    /\ memory[p] # None
    /\ \E e \in Expiries, refreshed \in BOOLEAN :
          Write(p, m, Active(Row(p, m), e, refreshed, now))
    /\ UNCHANGED <<owed, retired, removed>>

RecordSignedIn(p, m) ==
    /\ memory[p] # None
    /\ Write(p, m, SignedIn(Row(p, m), now))
    /\ retired' = retired \ {m}
    /\ UNCHANGED <<owed, removed>>

RecordDisabled(p, m) ==
    /\ memory[p] # None
    /\ \E c \in Causes : Write(p, m, Disabled(Row(p, m), c, now))
    /\ retired' = retired \cup {m}
    /\ UNCHANGED <<owed, removed>>

RecordReinstated(p, m) ==
    /\ memory[p] # None
    /\ \E c \in Causes : Write(p, m, Reinstated(Row(p, m), c, now))
    /\ retired' = retired \ {m}
    /\ UNCHANGED <<owed, removed>>

RecordRefused(p, m) ==
    /\ memory[p] # None
    /\ \E c \in Causes : Write(p, m, Refused(Row(p, m), c, now))
    /\ UNCHANGED <<owed, retired, removed>>

RecordDiscovered(p, m) ==
    /\ memory[p] # None
    /\ \E c \in Causes : Write(p, m, Discovered(Row(p, m), c, now))
    /\ UNCHANGED <<owed, retired, removed>>

\* What only notes metadata still creates the row it notes it on.
RecordNoted(p, m) ==
    /\ memory[p] # None
    /\ Write(p, m, Entry(Row(p, m)))
    /\ UNCHANGED <<owed, retired, removed>>

RecordProbe(p, m) ==
    /\ memory[p] # None
    /\ \E v \in Verdicts : Write(p, m, Probed(Row(p, m), v))
    /\ UNCHANGED <<owed, retired, removed>>

\* A usage verdict that could not be written is remembered as failed, in
\* memory only and under the mutex taken once more.
RecordUsage(p, m) ==
    /\ memory[p] # None
    /\ \E v \in Verdicts :
          \/ /\ Stored(p, m, UsageChecked(Row(p, m), v))
             /\ UNCHANGED owed
          \/ /\ Unstored(p, m, UsageChecked(Row(p, m), v))
             /\ owed' = [owed EXCEPT ![p] = @ \cup {m}]
    /\ UNCHANGED <<sealed, now, retired, removed>>

RememberFailure(p, m) ==
    /\ memory[p] # None
    /\ m \in owed[p]
    /\ memory' = [memory EXCEPT ![p] = Apply(p, m, UsageChecked(Row(p, m), "failed"))]
    /\ owed' = [owed EXCEPT ![p] = @ \ {m}]
    /\ UNCHANGED <<lost, failed, sealed, file, retired, removed, now>>

RemoveSubscription(p, m) ==
    /\ memory[p] # None
    /\ Write(p, m, None)
    /\ retired' = retired \ {m}
    /\ removed' = removed \cup {m}
    /\ UNCHANGED owed

Tick ==
    /\ now < MaxTime
    /\ now' = now + 1
    /\ UNCHANGED <<memory, lost, failed, sealed, file, owed, retired, removed>>

Record(p, m) ==
    \/ RecordCall(p, m) \/ RecordBlock(p, m) \/ RecordReportedBlock(p, m)
    \/ RecordResetUnblocked(p, m) \/ RecordActive(p, m) \/ RecordSignedIn(p, m)
    \/ RecordDisabled(p, m) \/ RecordReinstated(p, m) \/ RecordRefused(p, m)
    \/ RecordDiscovered(p, m) \/ RecordNoted(p, m) \/ RecordProbe(p, m)
    \/ RecordUsage(p, m) \/ RememberFailure(p, m) \/ RemoveSubscription(p, m)

Next ==
    \/ \E p \in Processes : Load(p) \/ LoadFails(p) \/ Stop(p)
    \/ \E p \in Processes, m \in Members : Record(p, m)
    \/ Tick

Spec == Init /\ [][Next]_vars

-----------------------------------------------------------------------------
(***************************************************************************)
(* Properties.                                                             *)
(***************************************************************************)
\* What a row says of calls, grant and block.
Core(r) == <<Entry(r).calls, Entry(r).credential, Entry(r).block>>

Calls(r) == Entry(r).calls

\* A process that reports no storage error has every count, credential state
\* and block it acts on in the file, so a restart forgets none of them.
BehindReported ==
    \A p \in Processes : memory[p] # None /\ ~failed[p] =>
        \A m \in Members : Core(Row(p, m)) = Core(file[m])

\* A process whose load failed says so for as long as it runs.
SealedTold == \A p \in Processes : memory[p] # None /\ sealed[p] => failed[p]

\* A copy that may replace the file counts every call the file counts.
CopyAhead ==
    \A p \in Processes : memory[p] # None /\ ~sealed[p] =>
        \A m \in Members \ removed : Calls(Row(p, m)) >= Calls(file[m])

(***************************************************************************)
(* What the ledger keeps while one process writes it: a copy that is ahead *)
(* of the file in anything but a check's verdict is reported by            *)
(* storage_error, whatever failed and whenever the process was restarted.  *)
(***************************************************************************)
LedgerInv ==
    /\ LedgerTypeOK
    /\ BehindReported
    /\ SealedTold
    /\ CopyAhead

\* The file's count of a member's calls never goes back while nobody removes
\* the member: no failed load, no failed write and no restart replaces
\* history with less of it.
CountsKept ==
    [][\A m \in Members \ removed' : Calls(file'[m]) >= Calls(file[m])]_vars

\* Ordinary traffic or a later completion never erases the verdict of the
\* newest usage report, in a ledger of any age.
VerdictKept ==
    [][\A m \in Members \ removed' :
          PlanUsageCheck(file[m]) # None => PlanUsageCheck(file'[m]) # None]_vars

=============================================================================
