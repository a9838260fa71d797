---------------------------- MODULE ModelCatalog ----------------------------
(***************************************************************************)
(* The models.dev catalogue a gateway routes by: one document in memory,   *)
(* the last fetched copy on disk, one loader at a time.  A request waits   *)
(* for a load only while nothing is loaded; a document past its TTL is     *)
(* answered as it is and one refresh runs beside the requests.             *)
(*                                                                         *)
(* Documents are numbered as models.dev publishes them.  Some cannot be    *)
(* parsed.  models.dev may not answer, the copy may not be written, and    *)
(* the process may restart and lose what is in memory.                     *)
(***************************************************************************)
EXTENDS Integers

CONSTANTS
    Requests,      \* requests that need the catalogue
    Beside,        \* the refresh that runs beside them
    MaxDocument,   \* bound of the documents published
    Unparsable,    \* the documents that are not a catalogue
    MaxRestarts,   \* bound of the restarts
    NoDocument     \* nothing loaded, nothing on disk, nobody

ASSUME ModelCatalogAssumption ==
    /\ Beside \notin Requests
    /\ MaxDocument \in Nat
    /\ Unparsable \subseteq 1..MaxDocument
    /\ MaxRestarts \in Nat
    /\ NoDocument \notin (0..MaxDocument) \cup Requests \cup {Beside}

Loaders == Requests \cup {Beside}

VARIABLES
    published,    \* the document models.dev publishes
    diskCopy,     \* the last fetched copy
    memoryCopy,   \* the loaded catalogue, its source and whether it is within its TTL
    loadLock,     \* who holds LOAD_LOCK
    wait,         \* what each loader is doing, and the document it fetched
    refreshing,   \* REFRESHING
    restarts      \* how often the process restarted

catalogVars == <<published, diskCopy, memoryCopy, loadLock, wait, refreshing, restarts>>

Unloaded == [document |-> NoDocument, live |-> FALSE, current |-> FALSE]
AtRest == [stage |-> "idle", document |-> NoDocument, live |-> FALSE]

CatalogInit ==
    /\ published = 1
    /\ diskCopy = NoDocument
    /\ memoryCopy = Unloaded
    /\ loadLock = NoDocument
    /\ wait = [w \in Loaders |-> AtRest]
    /\ refreshing = FALSE
    /\ restarts = 0

Loaded == memoryCopy.document # NoDocument

-----------------------------------------------------------------------------
\* snapshot: a loaded catalogue is answered at once, and refreshed beside the
\* requests when its TTL is over; without one the request waits for a load.
Snapshot(r) ==
    /\ r \in Requests
    /\ wait[r].stage = "idle"
    /\ IF Loaded
       THEN /\ ~memoryCopy.current
            /\ ~refreshing
            /\ refreshing' = TRUE
            /\ wait' = [wait EXCEPT ![Beside].stage = "queued"]
       ELSE /\ wait' = [wait EXCEPT ![r].stage = "queued"]
            /\ UNCHANGED refreshing
    /\ UNCHANGED <<published, diskCopy, memoryCopy, loadLock, restarts>>

\* Bug: a waiter fetches without looking at what was loaded meanwhile.
AlreadyLoadedNever(w) == FALSE

\* The waiter looks again once it has the lock; a refresh does not.
AlreadyLoaded(w) == w \in Requests /\ Loaded

TakeLoadLock(w) ==
    /\ wait[w].stage = "queued"
    /\ loadLock = NoDocument
    /\ IF AlreadyLoaded(w)
       THEN /\ wait' = [wait EXCEPT ![w] = AtRest]
            /\ UNCHANGED loadLock
       ELSE /\ wait' = [wait EXCEPT ![w].stage = "loading"]
            /\ loadLock' = w
    /\ UNCHANGED <<published, diskCopy, memoryCopy, refreshing, restarts>>

\* load, the live branch: the document read is written to disk before it is
\* parsed; a copy that cannot be written is logged and the load goes on.
FetchLive(w, written) ==
    /\ wait[w].stage = "loading"
    /\ diskCopy' = IF written THEN published ELSE diskCopy
    /\ wait' = [wait EXCEPT ![w] = [stage |-> "fetched", document |-> published, live |-> TRUE]]
    /\ UNCHANGED <<published, memoryCopy, loadLock, refreshing, restarts>>

\* load, when models.dev cannot be read: the last fetched copy is taken.
FetchCopy(w) ==
    /\ wait[w].stage = "loading"
    /\ wait' = [wait EXCEPT ![w] = [stage |-> "fetched", document |-> diskCopy, live |-> FALSE]]
    /\ UNCHANGED <<published, diskCopy, memoryCopy, loadLock, refreshing, restarts>>

\* What load holds in memory once it has a document: nothing changes when
\* there is none, when it does not parse, or when what is held is current.
HeldAfter(w) ==
    LET got == wait[w].document IN
    IF got = NoDocument \/ got \in Unparsable THEN memoryCopy
    ELSE IF Loaded /\ memoryCopy.current THEN memoryCopy
    ELSE [document |-> got, live |-> wait[w].live, current |-> TRUE]

EndLoad(w) ==
    /\ wait[w].stage = "fetched"
    /\ memoryCopy' = HeldAfter(w)
    /\ loadLock' = NoDocument
    /\ wait' = [wait EXCEPT ![w] = AtRest]
    /\ refreshing' = IF w = Beside THEN FALSE ELSE refreshing
    /\ UNCHANGED <<published, diskCopy, restarts>>

-----------------------------------------------------------------------------
\* The TTL is over; without a declared TTL it never is.
CatalogAges ==
    /\ memoryCopy.current
    /\ memoryCopy' = [memoryCopy EXCEPT !.current = FALSE]
    /\ UNCHANGED <<published, diskCopy, loadLock, wait, refreshing, restarts>>

NewDocument ==
    /\ published < MaxDocument
    /\ published' = published + 1
    /\ UNCHANGED <<diskCopy, memoryCopy, loadLock, wait, refreshing, restarts>>

CatalogRestart ==
    /\ restarts < MaxRestarts
    /\ restarts' = restarts + 1
    /\ memoryCopy' = Unloaded
    /\ loadLock' = NoDocument
    /\ wait' = [w \in Loaders |-> AtRest]
    /\ refreshing' = FALSE
    /\ UNCHANGED <<published, diskCopy>>

CatalogNext ==
    \/ \E r \in Requests : Snapshot(r)
    \/ \E w \in Loaders : \/ TakeLoadLock(w) \/ FetchCopy(w) \/ EndLoad(w)
                          \/ \E written \in BOOLEAN : FetchLive(w, written)
    \/ CatalogAges
    \/ NewDocument
    \/ CatalogRestart

CatalogSpec == CatalogInit /\ [][CatalogNext]_catalogVars

-----------------------------------------------------------------------------
\* "A cold start under concurrent traffic fetches the document once": while a
\* waiting request reads the document, nothing has been loaded that it could
\* have been given, and there is never a refresh beside it.
ColdFetchOnce ==
    \A r \in Requests : wait[r].stage \in {"loading", "fetched"} => ~Loaded /\ ~refreshing

=============================================================================
