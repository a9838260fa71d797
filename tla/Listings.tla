------------------------------ MODULE Listings ------------------------------
(***************************************************************************)
(* How a gateway reads the vault's listing: one `list` child at a time,    *)
(* shared by whoever asks while it runs; a stored listing of the pool that *)
(* the callers queued behind one reading take; and the routing inventory,  *)
(* which a request reads without waiting and one detached refresh replaces.*)
(*                                                                         *)
(* A child reads the vault at one moment of its run.  A caller whose client *)
(* goes away is dropped where it waits.                                    *)
(***************************************************************************)
EXTENDS Integers, FiniteSets

CONSTANTS
    Askers,        \* callers in the gateway's runtime
    Refresher,     \* the caller the detached refresh is
    MaxReadings,   \* bound of the `list` children started
    NoReading      \* nothing read, nobody

ASSUME ListingsAssumption ==
    /\ Refresher \notin Askers
    /\ MaxReadings \in Nat
    /\ NoReading \notin Nat \cup Askers \cup {Refresher}

Callers == Askers \cup {Refresher}
ReadingIds == 1..MaxReadings

VARIABLES
    child,       \* the `list` children, in the order they start
    started,     \* how many were started
    slot,        \* the reading in flight, which callers join
    store,       \* the stored pool listing: the reading it came from, whether it is
                 \* within BRAMA_SUBSCRIPTION_LISTING_AGE_SECONDS, whether that is set
    queue,       \* who holds LISTING_IN_FLIGHT
    caller,      \* what each caller is doing
    board        \* the routing inventory's snapshot

listingVars == <<child, started, slot, store, queue, caller, board>>

NotAsking == [stage |-> "idle", bypass |-> FALSE, on |-> NoReading, past |-> {},
              over |-> {}, stored |-> FALSE, got |-> NoReading]

ListingsInit ==
    /\ child = [n \in ReadingIds |-> "none"]
    /\ started = 0
    /\ slot = NoReading
    /\ \E declared \in BOOLEAN :
         store = [of |-> NoReading, young |-> FALSE, declared |-> declared]
    /\ queue = NoReading
    /\ caller = [c \in Callers |-> NotAsking]
    /\ board = [result |-> "none", refreshing |-> FALSE]

\* The readings that have returned to somebody, and all that read the vault.
Returned == {n \in ReadingIds : child[n] = "ended"}
Past == {n \in ReadingIds : child[n] \in {"read", "ended"}}

-----------------------------------------------------------------------------
(* raw_listing: vault/router/mod.rs.                                       *)

\* A caller that finds a listing in flight joins it, another starts one.
JoinListing(c) ==
    IF slot # NoReading
    THEN /\ caller' = [caller EXCEPT ![c].stage = "reading", ![c].on = slot]
         /\ UNCHANGED <<child, started, slot>>
    ELSE /\ started < MaxReadings
         /\ started' = started + 1
         /\ slot' = started + 1
         /\ child' = [child EXCEPT ![started + 1] = "running"]
         /\ caller' = [caller EXCEPT ![c].stage = "reading", ![c].on = started + 1]

\* The child reads the vault; it needs nobody to wait for it.
ChildReads(n) ==
    /\ child[n] = "running"
    /\ child' = [child EXCEPT ![n] = "read"]
    /\ UNCHANGED <<started, slot, store, queue, caller, board>>

\* wait_within_footprint: it exits with an error, is over its ceiling, or is
\* abandoned by the readiness reading.
ChildFails(n) ==
    /\ child[n] = "running"
    /\ child' = [child EXCEPT ![n] = "failed"]
    /\ UNCHANGED <<started, slot, store, queue, caller, board>>

\* Bug: the slot is never emptied, so a returned listing is joined.
SlotKept(n) == slot

\* The finished listing leaves the slot; a newer one stays.
SlotAfter(n) == IF slot = n THEN NoReading ELSE slot

\* The await of the shared future ends, for this caller.
ListingLands(c) ==
    LET n == caller[c].on IN
    /\ caller[c].stage = "reading"
    /\ n # NoReading
    /\ child[n] \in {"read", "ended", "failed", "refused"}
    /\ child' = [child EXCEPT ![n] = IF @ \in {"read", "ended"} THEN "ended" ELSE "refused"]
    /\ slot' = SlotAfter(n)
    /\ caller' = [caller EXCEPT ![c].stage = IF child'[n] = "ended"
                                             THEN "landed" ELSE "failed"]
    /\ UNCHANGED <<started, store, queue, board>>

-----------------------------------------------------------------------------
(* The stored pool listing: inventory/listing.rs.                          *)

\* live_subscriptions begins; discover_subscriptions bypasses the store.
AskPool(c, bypass) ==
    /\ c \in Askers
    /\ caller[c].stage = "idle"
    /\ caller' = [caller EXCEPT ![c] = [NotAsking EXCEPT !.stage = "asking", !.bypass = bypass,
                                                        !.past = Past, !.over = Returned]]
    /\ UNCHANGED <<child, started, slot, store, queue, board>>

\* stored_listing: within the declared age, or stored since this caller began.
StoredListing(c) ==
    /\ ~caller[c].bypass
    /\ store.of # NoReading
    /\ store.young \/ caller[c].stored

Serve(c, n) == caller' = [caller EXCEPT ![c].stage = "served", ![c].got = n]

\* What is stored is taken before the lock is asked for, and after it.
TakeStored(c) ==
    /\ caller[c].stage = "asking"
    /\ StoredListing(c)
    /\ Serve(c, store.of)
    /\ UNCHANGED <<child, started, slot, store, queue, board>>

LockListing(c) ==
    /\ caller[c].stage = "asking"
    /\ queue = NoReading
    /\ ~StoredListing(c)
    /\ JoinListing(c)
    /\ queue' = c
    /\ UNCHANGED <<store, board>>

\* A successful listing is stored for everyone queued; a failed one is not.
StoreListing(c) ==
    /\ caller[c].stage = "landed"
    /\ queue = c
    /\ store' = [store EXCEPT !.of = caller[c].on, !.young = store.declared]
    /\ queue' = NoReading
    /\ caller' = [d \in Callers |->
                    IF d = c THEN [caller[c] EXCEPT !.stage = "served", !.got = caller[c].on]
                    ELSE IF caller[d].stage = "asking" THEN [caller[d] EXCEPT !.stored = TRUE]
                    ELSE caller[d]]
    /\ UNCHANGED <<child, started, slot, board>>

ListingRefused(c) ==
    /\ caller[c].stage = "failed"
    /\ queue = c
    /\ queue' = NoReading
    /\ caller' = [caller EXCEPT ![c].stage = "refused"]
    /\ UNCHANGED <<child, started, slot, store, board>>

\* A reader of the bare listing takes no lock: list_all_subscriptions, the
\* census of unroutable accounts, the look-ups of a credential write.
AskRaw(c) ==
    /\ c \in Askers
    /\ caller[c].stage = "idle"
    /\ caller' = [caller EXCEPT ![c] = [NotAsking EXCEPT !.stage = "raw", !.bypass = TRUE,
                                                        !.past = Past, !.over = Returned]]
    /\ UNCHANGED <<child, started, slot, store, queue, board>>

JoinRaw(c) ==
    /\ caller[c].stage = "raw"
    /\ JoinListing(c)
    /\ UNCHANGED <<store, queue, board>>

TakeRaw(c) ==
    /\ caller[c].stage \in {"landed", "failed"}
    /\ queue # c
    /\ IF caller[c].stage = "landed" THEN Serve(c, caller[c].on)
       ELSE caller' = [caller EXCEPT ![c].stage = "refused"]
    /\ UNCHANGED <<child, started, slot, store, queue, board>>

\* The answer is used, or the client goes away: the future is dropped where
\* it waits and its lock with it.  The listing it joined stays in the slot.
CallerGone(c) ==
    /\ c \in Askers
    /\ caller[c].stage # "idle"
    /\ caller' = [caller EXCEPT ![c] = NotAsking]
    /\ queue' = IF queue = c THEN NoReading ELSE queue
    /\ UNCHANGED <<child, started, slot, store, board>>

-----------------------------------------------------------------------------
(* The routing inventory: inventory/routing.rs.                            *)

\* A request reads the last result and starts a refresh unless one runs.
RoutingRequest ==
    /\ ~board.refreshing
    /\ board' = [board EXCEPT !.refreshing = TRUE]
    /\ caller' = [caller EXCEPT ![Refresher] = [NotAsking EXCEPT !.stage = "asking",
                                                  !.past = Past, !.over = Returned]]
    /\ UNCHANGED <<child, started, slot, store, queue>>

\* list_subscriptions_result: a failed listing leaves the configured
\* catalogue, or an error when there is none.
RefreshedTo(catalogue) ==
    IF caller[Refresher].stage = "served" THEN "listed"
    ELSE IF catalogue THEN "catalogue" ELSE "error"

\* Bug: a failed refresh keeps what was published and says nothing.
PublishListedOnly(catalogue) ==
    board' = IF RefreshedTo(catalogue) = "error" THEN board
             ELSE [result |-> RefreshedTo(catalogue), refreshing |-> FALSE]

\* refresh_routing_subscriptions: the result, also a failed one, is published.
PublishInventory(catalogue) ==
    board' = [result |-> RefreshedTo(catalogue), refreshing |-> FALSE]

EndRefresh(catalogue) ==
    /\ caller[Refresher].stage \in {"served", "refused"}
    /\ PublishInventory(catalogue)
    /\ caller' = [caller EXCEPT ![Refresher] = NotAsking]
    /\ UNCHANGED <<child, started, slot, store, queue>>

-----------------------------------------------------------------------------
\* still_fresh: the declared age passes.
ListingAges ==
    /\ store.young
    /\ store' = [store EXCEPT !.young = FALSE]
    /\ UNCHANGED <<child, started, slot, queue, caller, board>>

ListingsNext ==
    \/ \E n \in ReadingIds : ChildReads(n) \/ ChildFails(n)
    \/ \E c \in Callers : \/ ListingLands(c) \/ TakeStored(c) \/ LockListing(c)
                          \/ StoreListing(c) \/ ListingRefused(c)
                          \/ JoinRaw(c) \/ TakeRaw(c)
    \/ \E c \in Askers : \/ AskRaw(c) \/ CallerGone(c)
                         \/ \E bypass \in BOOLEAN : AskPool(c, bypass)
    \/ RoutingRequest
    \/ \E catalogue \in BOOLEAN : EndRefresh(catalogue)
    \/ ListingAges

ListingsSpec == ListingsInit /\ [][ListingsNext]_listingVars

-----------------------------------------------------------------------------
\* "Shared while in flight, never after": a caller the store does not answer
\* is never given a listing that had returned to somebody before this caller
\* began, whatever callers joined, left or were dropped meanwhile.
SharedOnlyInFlight ==
    \A c \in Callers :
        caller[c].stage = "served" /\ (caller[c].bypass \/ ~(store.declared \/ caller[c].stored))
            => caller[c].got \notin caller[c].over

\* The routing inventory can always be refreshed: while its flag says that a
\* refresh runs, one runs, so a request that finds the flag set is followed
\* by a publication.
RefreshPossible ==
    board.refreshing => caller[Refresher].stage # "idle"

\* The two ways in which the vault's listing is shared (router/mod.rs,
\* inventory/routing.rs).
ListingsSafe == SharedOnlyInFlight /\ RefreshPossible

\* listing.rs says that a reading "produced after the caller began waiting" is
\* "newer than their own requests, so serving it assumes no age at all": the
\* reading a queued caller takes read the vault after that caller began.
NewerThanRequest ==
    \A c \in Callers : caller[c].stage = "served" /\ caller[c].stored /\ ~store.declared
        => caller[c].got \notin caller[c].past

=============================================================================
