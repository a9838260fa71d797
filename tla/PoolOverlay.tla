---------------------------- MODULE PoolOverlay -----------------------------
(***************************************************************************)
(* The members a standalone gateway banks itself: by a donation that       *)
(* carries a credential, and by a sign-in the operator does by hand, whose *)
(* page is opened here and whose code is pasted back here.                 *)
(*                                                                         *)
(* The overlay file lists those members.  It is read, changed and replaced *)
(* whole without a lock, so two handlers may write it from one reading.    *)
(* The grants file is written whole under the lock of the map it mirrors.  *)
(* The gateway may stop and start again at any point: the open pages and   *)
(* the running handlers are lost, the two files and the journal are not.   *)
(***************************************************************************)
EXTENDS Integers, FiniteSets

CONSTANTS
    Handlers,    \* request handlers running at once
    MemberIds,   \* subscription ids a request may name
    MaxPages,    \* bound of the sign-in pages drawn
    NoOne        \* no row, no page

ASSUME OverlayAssumption ==
    /\ MaxPages \in Nat
    /\ NoOne \notin Handlers \cup MemberIds \cup Nat
    /\ "donation" # NoOne

PageNumbers == 1..MaxPages

VARIABLES
    vaulted,     \* the ids the vault's own listing names
    overlay,     \* who banked each id's row of the overlay file, or NoOne
    held,        \* the ids whose grant the process holds
    grantsFile,  \* the ids whose grant the grants file holds
    retiredIds,  \* the ids the journal retires
    pages,       \* the open pages: page number -> id and whether it joins
    drawn,       \* how many pages were drawn
    presented,   \* how often each page's code was presented to the provider
    request      \* what each handler is doing

overlayVars == <<vaulted, overlay, held, grantsFile, retiredIds, pages, drawn,
                 presented, request>>

NoPage == [id |-> NoOne, joining |-> FALSE]

AtRest == [stage |-> "idle", id |-> NoOne, page |-> 0, joining |-> FALSE,
           banked |-> FALSE, read |-> FALSE, seen |-> [i \in MemberIds |-> NoOne],
           outcome |-> "none"]

OverlayInit ==
    /\ vaulted \in SUBSET MemberIds
    /\ overlay = [i \in MemberIds |-> NoOne]
    /\ held = {}
    /\ grantsFile = {}
    /\ retiredIds = {}
    /\ pages = [n \in PageNumbers |-> NoPage]
    /\ drawn = 0
    /\ presented = [n \in PageNumbers |-> 0]
    /\ request = [h \in Handlers |-> AtRest]

Rested(h) == [request[h] EXCEPT !.read = FALSE, !.seen = AtRest.seen]

To(h, stage) == request' = [request EXCEPT ![h] = [Rested(h) EXCEPT !.stage = stage]]

Answer(h, outcome) ==
    request' = [request EXCEPT ![h] = [Rested(h) EXCEPT !.stage = "idle", !.outcome = outcome]]

-----------------------------------------------------------------------------
(* The grants: standalone.rs and standalone/grants.rs.                     *)

\* save(): the file is replaced whole, while the map's lock is held.
Saved == grantsFile' = held'

\* put_local_subscription_credential, when the save is not refused.
KeepGrant(id) == held' = held \cup {id} /\ Saved

\* put_donated_credential, when the document holds a credential and names no
\* other account.
PutDonated(id) == KeepGrant(id)

-----------------------------------------------------------------------------
(* Drawing a page: sign_in.rs, manual.rs and manual/member.rs.             *)

\* target(): a member the vault lists and the journal does not retire signs
\* in as itself; an id the vault's listing does not name may join.  The
\* listing does not hold the overlay.
TargetFor(id, joining) ==
    IF joining THEN id \notin vaulted ELSE id \in vaulted /\ id \notin retiredIds

BeginHandSignIn(h, id, joining) ==
    /\ request[h].stage = "idle"
    /\ drawn < MaxPages
    /\ TargetFor(id, joining)
    /\ request' = [request EXCEPT ![h] = [AtRest EXCEPT !.stage = "drawing", !.id = id,
                                                        !.joining = joining]]
    /\ UNCHANGED <<vaulted, overlay, held, grantsFile, retiredIds, pages, drawn, presented>>

\* The page an account had open is replaced by the new one.
Replaced(id) == [n \in PageNumbers |-> IF pages[n].id = id THEN NoPage ELSE pages[n]]

\* begin(): the verifier and the state are drawn, and the page is kept.
DrawPage(h) ==
    /\ request[h].stage = "drawing"
    /\ drawn < MaxPages
    /\ drawn' = drawn + 1
    /\ pages' = [Replaced(request[h].id) EXCEPT
                    ![drawn + 1] = [id |-> request[h].id, joining |-> request[h].joining]]
    /\ Answer(h, "page")
    /\ UNCHANGED <<vaulted, overlay, held, grantsFile, retiredIds, presented>>

-----------------------------------------------------------------------------
(* Completing it.                                                          *)

CompletePage(h, n) ==
    request' = [request EXCEPT
        ![h] = [AtRest EXCEPT !.id = pages[n].id, !.page = n, !.joining = pages[n].joining,
                              !.stage = IF pages[n].joining THEN "banking" ELSE "exchanging"]]

\* Bug: the page is read and stays open.
ReadPage(h, n) ==
    /\ request[h].stage = "idle"
    /\ pages[n] # NoPage
    /\ CompletePage(h, n)
    /\ UNCHANGED <<vaulted, overlay, held, grantsFile, retiredIds, pages, drawn, presented>>

\* complete_admin_manual_sign_in: the page is taken out of the open ones.
TakePage(h, n) ==
    /\ request[h].stage = "idle"
    /\ pages[n] # NoPage
    /\ CompletePage(h, n)
    /\ pages' = [pages EXCEPT ![n] = NoPage]
    /\ UNCHANGED <<vaulted, overlay, held, grantsFile, retiredIds, drawn, presented>>

\* Target::bank reads the vault's listing again, then adds the row.
Bank(h) ==
    /\ request[h].stage = "banking"
    /\ IF request[h].id \in vaulted THEN Answer(h, "taken") ELSE To(h, "adding")
    /\ UNCHANGED <<vaulted, overlay, held, grantsFile, retiredIds, pages, drawn, presented>>

\* complete(): a paste that is not this page's is never presented.
ForeignPaste(h) ==
    /\ request[h].stage = "exchanging"
    /\ To(h, "failing")
    /\ UNCHANGED <<vaulted, overlay, held, grantsFile, retiredIds, pages, drawn, presented>>

\* The code is presented; the provider issues a grant, refuses the code, or
\* its answer does not arrive or cannot be used.
Present(h, answer) ==
    /\ request[h].stage = "exchanging"
    /\ presented' = [presented EXCEPT ![request[h].page] = @ + 1]
    /\ CASE answer = "issued"  -> To(h, "storing")
         [] answer = "refused" -> Answer(h, "refused")
         [] answer = "lost"    -> To(h, "failing")
    /\ UNCHANGED <<vaulted, overlay, held, grantsFile, retiredIds, pages, drawn>>

\* adopt() up to the proof: the grant is the one already held, is kept, or
\* the grants file refuses it and the held map is put back.
StoreGrant(h) ==
    /\ request[h].stage = "storing"
    /\ \/ request[h].id \in held /\ Answer(h, "unchanged") /\ UNCHANGED <<held, grantsFile>>
       \/ To(h, "failing") /\ UNCHANGED <<held, grantsFile>>
       \/ KeepGrant(request[h].id) /\ To(h, "proving")
    /\ UNCHANGED <<vaulted, overlay, retiredIds, pages, drawn, presented>>

\* adopt(): whatever the proof says the verdict is journaled; a journal that
\* refuses it fails the sign-in though the grant is stored.
ProveGrant(h) ==
    /\ request[h].stage = "proving"
    /\ \/ \E result \in {"signed in", "unproved"} : Answer(h, result)
       \/ To(h, "failing")
    /\ UNCHANGED <<vaulted, overlay, held, grantsFile, retiredIds, pages, drawn, presented>>

\* The error path of complete_admin_manual_sign_in.
FailSignIn(h) ==
    /\ request[h].stage = "failing"
    /\ IF request[h].banked THEN To(h, "unbanking") ELSE Answer(h, "failed")
    /\ UNCHANGED <<vaulted, overlay, held, grantsFile, retiredIds, pages, drawn, presented>>

-----------------------------------------------------------------------------
(* The overlay file: donation.rs; the pool's writes: membership.rs.        *)

OverlayStages == {"adding", "donating", "unbanking", "removing"}

\* update_donated_items reads the whole file...
ReadOverlay(h) ==
    /\ request[h].stage \in OverlayStages
    /\ ~request[h].read
    /\ request' = [request EXCEPT ![h].seen = overlay, ![h].read = TRUE]
    /\ UNCHANGED <<vaulted, overlay, held, grantsFile, retiredIds, pages, drawn, presented>>

\* ... and replaces it by what it read, its own id's row changed.
WriteOverlay(h, row) ==
    overlay' = [request[h].seen EXCEPT ![request[h].id] = row]

AddRow(h) ==
    /\ request[h].stage = "adding" /\ request[h].read
    /\ \/ /\ WriteOverlay(h, request[h].page)
          /\ request' = [request EXCEPT ![h] = [Rested(h) EXCEPT !.stage = "exchanging",
                                                                 !.banked = TRUE]]
       \/ Answer(h, "unwritable") /\ UNCHANGED overlay
    /\ UNCHANGED <<vaulted, held, grantsFile, retiredIds, pages, drawn, presented>>

\* Banked::unbank, which takes the id's row out whoever put it there.
UnbankRow(h) ==
    /\ request[h].stage = "unbanking" /\ request[h].read
    /\ \/ WriteOverlay(h, NoOne) /\ Answer(h, "failed")
       \/ Answer(h, "left banked") /\ UNCHANGED overlay
    /\ UNCHANGED <<vaulted, held, grantsFile, retiredIds, pages, drawn, presented>>

\* create_subscription: put_donated_credential first, then the row.
Donate(h, id) ==
    /\ request[h].stage = "idle"
    /\ request' = [request EXCEPT ![h] = [AtRest EXCEPT !.stage = "donating", !.id = id]]
    /\ PutDonated(id)
    /\ UNCHANGED <<vaulted, overlay, retiredIds, pages, drawn, presented>>

DonateRow(h) ==
    /\ request[h].stage = "donating" /\ request[h].read
    /\ \/ WriteOverlay(h, "donation") /\ Answer(h, "donated")
       \/ Answer(h, "unwritable") /\ UNCHANGED overlay
    /\ UNCHANGED <<vaulted, held, grantsFile, retiredIds, pages, drawn, presented>>

\* disown_admin_grant and retire_managed_subscription: the journal first,
\* then the row, then the grant.
RetireMember(h, id) ==
    /\ request[h].stage = "idle"
    /\ id \in vaulted \/ overlay[id] # NoOne
    /\ retiredIds' = retiredIds \cup {id}
    /\ request' = [request EXCEPT ![h] = [AtRest EXCEPT !.stage = "removing", !.id = id]]
    /\ UNCHANGED <<vaulted, overlay, held, grantsFile, pages, drawn, presented>>

RemoveRow(h) ==
    /\ request[h].stage = "removing" /\ request[h].read
    /\ \/ WriteOverlay(h, NoOne) /\ To(h, "dropping")
       \/ Answer(h, "unwritable") /\ UNCHANGED overlay
    /\ UNCHANGED <<vaulted, held, grantsFile, retiredIds, pages, drawn, presented>>

\* remove_donated_credential: a refused save puts the grant back.
DropGrant(h) ==
    /\ request[h].stage = "dropping"
    /\ \/ /\ held' = held \ {request[h].id}
          /\ Saved
          /\ Answer(h, "retired")
       \/ Answer(h, "unwritable") /\ UNCHANGED <<held, grantsFile>>
    /\ UNCHANGED <<vaulted, overlay, retiredIds, pages, drawn, presented>>

\* reinstate_member finds a member only in the vault's listing.
ReinstateMember(id) ==
    /\ id \in vaulted \cap retiredIds
    /\ retiredIds' = retiredIds \ {id}
    /\ UNCHANGED <<vaulted, overlay, held, grantsFile, pages, drawn, presented, request>>

\* The gateway starts again and loads the grants file.
RestartGateway ==
    /\ request # [h \in Handlers |-> AtRest] \/ pages # [n \in PageNumbers |-> NoPage]
    /\ request' = [h \in Handlers |-> AtRest]
    /\ pages' = [n \in PageNumbers |-> NoPage]
    /\ held' = grantsFile
    /\ UNCHANGED <<vaulted, overlay, grantsFile, retiredIds, drawn, presented>>

OverlayNext ==
    \/ \E h \in Handlers, id \in MemberIds, joining \in BOOLEAN : BeginHandSignIn(h, id, joining)
    \/ \E h \in Handlers, n \in PageNumbers : TakePage(h, n)
    \/ \E h \in Handlers, id \in MemberIds : Donate(h, id) \/ RetireMember(h, id)
    \/ \E h \in Handlers, answer \in {"issued", "refused", "lost"} : Present(h, answer)
    \/ \E h \in Handlers :
          \/ DrawPage(h) \/ Bank(h) \/ ForeignPaste(h)
          \/ StoreGrant(h) \/ ProveGrant(h) \/ FailSignIn(h)
          \/ ReadOverlay(h) \/ AddRow(h) \/ UnbankRow(h) \/ DonateRow(h)
          \/ RemoveRow(h) \/ DropGrant(h)
    \/ \E id \in MemberIds : ReinstateMember(id)
    \/ RestartGateway

OverlaySpec == OverlayInit /\ [][OverlayNext]_overlayVars

-----------------------------------------------------------------------------
\* A page is answered once, however many completions of it race: its code is
\* presented to the provider at most once, and an account has at most one
\* page open, so that a page the operator began again cannot be completed.
CodeSpentOnce ==
    /\ \A n \in PageNumbers : presented[n] <= 1
    /\ \A m, n \in PageNumbers : pages[m] # NoPage /\ pages[m].id = pages[n].id => m = n

\* The comment of complete_admin_manual_sign_in: a member the sign-in banked
\* is "out of it again when the exchange fails".
BankedOut ==
    \A h \in Handlers :
        request[h].outcome \in {"refused", "failed"} /\ request[h].banked =>
            overlay[request[h].id] # request[h].page

=============================================================================
