----------------------------- MODULE Enrolment ------------------------------
(***************************************************************************)
(* Account discovery: what the harnesses and the purchase receipts of the  *)
(* mailboxes say of the operator's accounts, kept in a file of pending     *)
(* observations until each has a member of the pool.                       *)
(*                                                                         *)
(* One enrolment runs at a time (a lock file); it may stop at any step.    *)
(* Donations write the same vault items, and the pool's owner retires,     *)
(* removes and reinstates members while it runs.                           *)
(***************************************************************************)
EXTENDS Integers, FiniteSets

CONSTANTS
    Enrollers,   \* processes that enrol: the gateway, `brama subscription`
    Persons,     \* the accounts there are
    IdOf,        \* IdOf[a]: the id the slug of account a gives
    Mails,       \* messages of the mailboxes
    ReceiptOf,   \* ReceiptOf[m]: the accounts message m is a receipt of
    MaxRounds,   \* bound of the enrolments started
    MaxOwner,    \* bound of the owner's and the donors' steps
    NoPerson     \* no item, no recorded account, no lock holder

ASSUME EnrolmentAssumption ==
    /\ ReceiptOf \in [Mails -> SUBSET Persons]
    /\ MaxRounds \in Nat
    /\ MaxOwner \in Nat
    /\ NoPerson \notin Persons \cup Enrollers

Coordinates == {IdOf[a] : a \in Persons}

VARIABLES
    pendingFile, \* the observations the pending file holds
    pendingLock, \* who holds pending.lock
    receiptFile, \* the messages whose receipts were read before
    item,        \* the account each vault item names, or NoPerson
    mark,        \* what the journal last said of each id
    row,         \* the account the ledger's row of each id was discovered as
    donor,       \* what a donation has read: the id and account it will write
    enroller,    \* what each process is doing
    rounds,
    ownerSteps,
    noted,       \* every account whose observation was persisted
    settled      \* every account an enrolment left with a member

enrolmentVars == <<pendingFile, pendingLock, receiptFile, item, mark, row, donor, enroller,
                   rounds, ownerSteps, noted, settled>>

Observation(a, source) == [account |-> a, source |-> source]

NotEnrolling == [phase |-> "idle", mails |-> {}, read |-> {}, todo |-> {},
                 members |-> [i \in Coordinates |-> NoPerson],
                 done |-> {}, at |-> NoPerson, errors |-> FALSE, failed |-> FALSE]

NoDonor == [id |-> NoPerson, account |-> NoPerson]

EnrolmentInit ==
    /\ pendingFile = {}
    /\ pendingLock = NoPerson
    /\ receiptFile = {}
    /\ item = [i \in Coordinates |-> NoPerson]
    /\ mark = [i \in Coordinates |-> "free"]
    /\ row = [i \in Coordinates |-> NoPerson]
    /\ donor = NoDonor
    /\ enroller = [p \in Enrollers |-> NotEnrolling]
    /\ rounds = 0
    /\ ownerSteps = 0
    /\ noted = {}
    /\ settled = {}

Fenced == <<donor, ownerSteps>>

\* The end of enroll(): the lock file is closed.
Release(p) ==
    /\ enroller' = [enroller EXCEPT ![p] = NotEnrolling]
    /\ pendingLock' = NoPerson

-----------------------------------------------------------------------------
(* Collecting what is known: harness.rs, pending.rs, receipts/.            *)

\* harness::collect: what a harness says, or an error, or some of both.
HarnessSays == [seen : SUBSET Persons, errors : BOOLEAN]

\* Pending::retain: nothing to add writes nothing.
Retained(seen, source) == pendingFile \cup {Observation(a, source) : a \in seen}

\* enroll() up to the first retain.  A held lock or a file that cannot be
\* written ends the call before it noted anything.
BeginEnrolment(p, report) ==
    /\ enroller[p].phase = "idle"
    /\ pendingLock = NoPerson
    /\ rounds < MaxRounds
    /\ rounds' = rounds + 1
    /\ pendingLock' = p
    /\ pendingFile' = Retained(report.seen, "harness")
    /\ noted' = noted \cup report.seen
    /\ enroller' = [enroller EXCEPT ![p] = [NotEnrolling EXCEPT
                        !.phase = "receipts", !.mails = Mails, !.errors = report.errors]]
    /\ UNCHANGED <<receiptFile, item, mark, row, settled, Fenced>>

\* Cache::store, under the lock of the receipts' own file.
StoreReceipt(m) == receiptFile' = receiptFile \cup {m}

\* receipts::read, one message: a receipt read before is taken from the
\* cache, another is inferred and cached.
ReadReceipt(p, m) ==
    /\ enroller[p].phase = "receipts"
    /\ m \in enroller[p].mails
    /\ StoreReceipt(m)
    /\ enroller' = [enroller EXCEPT ![p].mails = @ \ {m}, ![p].read = @ \cup ReceiptOf[m]]
    /\ UNCHANGED <<pendingFile, pendingLock, item, mark, row, rounds, noted, settled, Fenced>>

\* infer::Failure: a message that cannot be read is an error of its own, a
\* route that does not answer ends the reading of the mailboxes.
ReceiptUnread(p, m, route) ==
    /\ enroller[p].phase = "receipts"
    /\ m \in enroller[p].mails \ receiptFile
    /\ enroller' = [enroller EXCEPT ![p].mails = IF route THEN {} ELSE @ \ {m},
                                    ![p].errors = TRUE]
    /\ UNCHANGED <<pendingFile, pendingLock, receiptFile, item, mark, row, rounds, noted,
                   settled, Fenced>>

\* The second retain; the run goes on with everything that is pending.
RetainReceipts(p) ==
    /\ enroller[p].phase = "receipts"
    /\ enroller[p].mails = {}
    /\ \/ /\ pendingFile' = Retained(enroller[p].read, "receipt")
          /\ noted' = noted \cup enroller[p].read
          /\ enroller' = [enroller EXCEPT ![p].phase = "listing", ![p].todo = pendingFile']
          /\ UNCHANGED pendingLock
       \/ Release(p) /\ UNCHANGED <<pendingFile, noted>>
    /\ UNCHANGED <<receiptFile, item, mark, row, rounds, settled, Fenced>>

-----------------------------------------------------------------------------
(* The vault: vault/item.rs, vault/item/discovery.rs, subscription/tags.rs *)

Listed == {i \in Coordinates : item[i] # NoPerson}

\* subscription_tags_for_write refuses an item that names another account.
TagsAgree(i, a) == item[i] \in {NoPerson, a}

\* Bug: the item is written whatever it holds.
SetAlways(i, a) == item' = [item EXCEPT ![i] = a]

\* `set --if-absent`
SetIfAbsent(i, a) == item' = [item EXCEPT ![i] = IF @ = NoPerson THEN a ELSE @]

\* remove_subscription_item of each member reconcile() found obsolete.
RemoveItems(gone) ==
    item' = [i \in Coordinates |-> IF i \in gone THEN NoPerson ELSE item[i]]

-----------------------------------------------------------------------------
(* Enrolling each pending account: enroll.rs.                              *)

\* list_all_subscriptions, then reconcile() when nothing was in error, which
\* deletes the items of removed memberships and their rows.  Either may fail
\* and end the run.
ReconcileMembers(p) ==
    LET clean == ~enroller[p].errors /\ enroller[p].todo # {}
        gone  == {i \in Listed : clean /\ mark[i] = "removed"}
    IN  /\ enroller[p].phase = "listing"
        /\ \/ /\ RemoveItems(gone)
              /\ enroller' = [enroller EXCEPT ![p].phase = "enrolling", ![p].members = item']
              /\ row' = [i \in Coordinates |-> IF i \in gone THEN NoPerson ELSE row[i]]
              /\ UNCHANGED pendingLock
           \/ Release(p) /\ UNCHANGED <<item, row>>
        /\ UNCHANGED <<pendingFile, receiptFile, mark, rounds, noted, settled, Fenced>>

\* The member of the listing that names this account.
Existing(p, a) == enroller[p].members[IdOf[a]] = a

\* What stops an account: its owner's retirement, a membership that was
\* removed and is still listed, another member under its id, another account
\* in its ledger row.
EnrolRefused(p, a) ==
    LET i == IdOf[a] IN
    \/ mark[i] = "retired"
    \/ Existing(p, a) /\ mark[i] = "removed"
    \/ enroller[p].members[i] \notin {NoPerson, a}
    \/ row[i] \notin {NoPerson, a}

RefuseObservation(p, o) ==
    /\ enroller[p].phase = "enrolling"
    /\ o \in enroller[p].todo
    /\ EnrolRefused(p, o.account)
    /\ enroller' = [enroller EXCEPT ![p].todo = @ \ {o}, ![p].failed = TRUE]
    /\ UNCHANGED <<pendingFile, pendingLock, receiptFile, item, mark, row, rounds, noted,
                   settled, Fenced>>

\* record_discovered_account; an id this run enrolled already is done, a
\* member the pool holds needs no registration.
SettleDiscovered(p, o) ==
    LET a == o.account IN
    /\ enroller[p].phase = "enrolling"
    /\ o \in enroller[p].todo
    /\ ~EnrolRefused(p, a)
    /\ row' = [row EXCEPT ![IdOf[a]] = a]
    /\ enroller' = [enroller EXCEPT ![p].todo = @ \ {o},
          ![p].at = IF IdOf[a] \in enroller[p].done THEN NoPerson ELSE a,
          ![p].phase = IF IdOf[a] \in enroller[p].done THEN "enrolling"
                       ELSE IF Existing(p, a) THEN "registered" ELSE "registering"]
    /\ UNCHANGED <<pendingFile, pendingLock, receiptFile, item, mark, rounds, noted, settled,
                   Fenced>>

\* register(): an item there already must name this account; the write is
\* verified by reading the item again.
RegisterItem(p) ==
    LET a == enroller[p].at
        i == IdOf[a]
    IN  /\ enroller[p].phase = "registering"
        /\ SetIfAbsent(i, a)
        /\ enroller' = [enroller EXCEPT
              ![p].phase = IF item'[i] = a THEN "registered" ELSE "unregistered"]
        /\ UNCHANGED <<pendingFile, pendingLock, receiptFile, mark, row, rounds, noted, settled,
                       Fenced>>

\* The router refuses the write or does not answer.
RegistrationFails(p) ==
    /\ enroller[p].phase = "registering"
    /\ enroller' = [enroller EXCEPT ![p].phase = "unregistered"]
    /\ UNCHANGED <<pendingFile, pendingLock, receiptFile, item, mark, row, rounds, noted,
                   settled, Fenced>>

\* A registered member whose membership was removed is reinstated.
ReinstateRegistered(i) == mark' = [mark EXCEPT ![i] = IF @ = "removed" THEN "free" ELSE @]

\* record_registration and the row of the answer.
RecordRegistration(p) ==
    LET a  == enroller[p].at
        ok == enroller[p].phase = "registered"
    IN  /\ enroller[p].phase \in {"registered", "unregistered"}
        /\ IF ok THEN ReinstateRegistered(IdOf[a]) ELSE UNCHANGED mark
        /\ settled' = IF ok THEN settled \cup {a} ELSE settled
        /\ enroller' = [enroller EXCEPT ![p].phase = "enrolling", ![p].at = NoPerson,
                            ![p].done = @ \cup {IdOf[a]}, ![p].failed = @ \/ ~ok]
        /\ UNCHANGED <<pendingFile, pendingLock, receiptFile, item, row, rounds, noted, Fenced>>

\* Bug: the observations are dropped whatever became of them.
ReconciledAlways(p) == pendingFile' = {}

\* Pending::reconciled, when no account of the run was in error.
Reconciled(p) == pendingFile' = IF enroller[p].failed THEN pendingFile ELSE {}

EndEnrolment(p) ==
    /\ enroller[p].phase = "enrolling"
    /\ enroller[p].todo = {}
    /\ Reconciled(p)
    /\ Release(p)
    /\ UNCHANGED <<receiptFile, item, mark, row, rounds, noted, settled, Fenced>>

\* The process ends anywhere; the operating system closes its lock file.
EnrollerStops(p) ==
    /\ enroller[p].phase # "idle"
    /\ Release(p)
    /\ UNCHANGED <<pendingFile, receiptFile, item, mark, row, rounds, noted, settled, Fenced>>

-----------------------------------------------------------------------------
(* The pool's owner, and a donation to a managed gateway.                  *)

OwnerActs == ownerSteps < MaxOwner /\ ownerSteps' = ownerSteps + 1

\* retire, forget/remove and reinstate append to the journal.
OwnerMarks(i, what) ==
    /\ OwnerActs
    /\ mark[i] # what
    /\ mark' = [mark EXCEPT ![i] = what]
    /\ UNCHANGED <<pendingFile, pendingLock, receiptFile, item, row, donor, enroller, rounds,
                   noted, settled>>

\* donated_credential_tags reads the item before the write lock is taken...
DonationReads(a) ==
    /\ OwnerActs
    /\ donor = NoDonor
    /\ TagsAgree(IdOf[a], a)
    /\ donor' = [id |-> IdOf[a], account |-> a]
    /\ UNCHANGED <<pendingFile, pendingLock, receiptFile, item, mark, row, enroller, rounds,
                   noted, settled>>

\* ... and put_credential writes under it, unless the membership is removed.
DonationPuts ==
    /\ donor # NoDonor
    /\ IF mark[donor.id] = "removed" THEN UNCHANGED item ELSE SetAlways(donor.id, donor.account)
    /\ donor' = NoDonor
    /\ UNCHANGED <<pendingFile, pendingLock, receiptFile, mark, row, enroller, rounds, ownerSteps,
                   noted, settled>>

EnrolmentNext ==
    \/ \E p \in Enrollers, report \in HarnessSays : BeginEnrolment(p, report)
    \/ \E p \in Enrollers, m \in Mails :
          ReadReceipt(p, m) \/ \E route \in BOOLEAN : ReceiptUnread(p, m, route)
    \/ \E p \in Enrollers : \/ RetainReceipts(p) \/ ReconcileMembers(p)
                            \/ RegisterItem(p) \/ RegistrationFails(p)
                            \/ RecordRegistration(p) \/ EndEnrolment(p) \/ EnrollerStops(p)
    \/ \E p \in Enrollers : \E o \in enroller[p].todo :
          RefuseObservation(p, o) \/ SettleDiscovered(p, o)
    \/ \E i \in Coordinates, what \in {"retired", "removed", "free"} : OwnerMarks(i, what)
    \/ \E a \in Persons : DonationReads(a)
    \/ DonationPuts

EnrolmentSpec == EnrolmentInit /\ [][EnrolmentNext]_enrolmentVars

-----------------------------------------------------------------------------
\* An account a persisted observation named is still pending, or an enrolment
\* found or made its member: whatever run stops, fails to register it or
\* refuses it for its owner's retirement or another account's id, it is not
\* forgotten.
NothingForgotten ==
    \A a \in noted : a \in settled \/ \E o \in pendingFile : o.account = a

\* Discovery registers an account beside what the vault holds: an item that
\* names an account is renamed by no enrolment, also when a donation wrote it
\* after the enrolment listed the vault.
DiscoveryRenamesNothing ==
    donor' = donor =>
       \A i \in Coordinates : item[i] # NoPerson => item'[i] \in {item[i], NoPerson}

\* What discovery and enrolment keep (discovery/pending.rs, enroll.rs).
EnrolmentSafe == [][NothingForgotten' /\ DiscoveryRenamesNothing]_enrolmentVars

=============================================================================
