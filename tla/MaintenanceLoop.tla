-------------------------- MODULE MaintenanceLoop ---------------------------
(***************************************************************************)
(* The serving process's maintenance: a pass when it starts, one at the    *)
(* next moment the usage ledger states something becomes due, and one      *)
(* whenever a request is refused for want of a signed-in subscription.     *)
(*                                                                         *)
(* A pass is its refresh sweep, the step whose coming late leaves a grant  *)
(* expired: it visits the members one by one, while the clock runs,        *)
(* traffic states new moments and requests are refused.  The wake is       *)
(* tokio's Notify: a notification nobody waits for is kept as one permit,  *)
(* and one handed to a future that is dropped unread becomes a permit.     *)
(***************************************************************************)
EXTENDS Integers

CONSTANTS
    Tracked,     \* the subscriptions the ledger holds a row for
    MaxClock,    \* bound of the clock
    Unstated     \* Option::None: no moment stated

ASSUME LoopAssumption ==
    /\ MaxClock \in Nat
    /\ Unstated \notin Int

Moments == 0 .. MaxClock

VARIABLES
    stated,   \* the instant the ledger states for each member, or Unstated
    clock,    \* the clock
    loopAt,   \* where the loop stands
    toVisit,  \* the members the running pass has still to visit
    due,      \* what next_due_ms answered after the last pass
    woken,    \* the armed future of this turn was notified
    permit,   \* Notify keeps a notification nobody was waiting for
    refused,  \* history: a request was refused, no pass has started since
    came      \* history: members whose moment came since they were visited

loopVars == <<stated, clock, loopAt, toVisit, due, woken, permit, refused, came>>

LoopStages == {"turn", "pass", "due", "choose", "sleep", "await"}

LoopTypeOK ==
    /\ stated \in [Tracked -> Moments \cup {Unstated}]
    /\ clock \in Moments
    /\ loopAt \in LoopStages
    /\ toVisit \in SUBSET Tracked
    /\ due \in Moments \cup {Unstated}
    /\ woken \in BOOLEAN
    /\ permit \in BOOLEAN
    /\ refused \in BOOLEAN
    /\ came \in SUBSET Tracked

LoopInit ==
    /\ stated \in [Tracked -> Moments \cup {Unstated}]
    /\ clock = 0
    /\ loopAt = "turn"
    /\ toVisit = {}
    /\ due = Unstated
    /\ woken = FALSE
    /\ permit = FALSE
    /\ refused = FALSE
    /\ came = {}

-----------------------------------------------------------------------------
(***************************************************************************)
(* The loop.                                                               *)
(***************************************************************************)
\* WAKE.notified() is armed before the pass starts: it takes a kept permit,
\* and the pass that starts here serves every refusal before it.
Turn ==
    /\ loopAt = "turn"
    /\ loopAt' = "pass"
    /\ toVisit' = Tracked
    /\ woken' = permit
    /\ permit' = FALSE
    /\ refused' = FALSE
    /\ UNCHANGED <<stated, clock, due, came>>

\* The sweep reads one member: a moment still ahead is left alone; one that
\* came, or was never stated, is renewed until a later instant, recorded as
\* awaiting a sign-in and states none, or is left as it stands (a transient
\* refusal, a refresh already running).
Visit(m) ==
    /\ loopAt = "pass"
    /\ m \in toVisit
    /\ toVisit' = toVisit \ {m}
    /\ IF stated[m] \in Int /\ stated[m] > clock
         THEN stated' = stated
         ELSE \E at \in {i \in Moments : i > clock} \cup {Unstated, stated[m]} :
                 stated' = [stated EXCEPT ![m] = at]
    /\ came' = came \ {m}
    /\ UNCHANGED <<clock, loopAt, due, woken, permit, refused>>

PassEnds ==
    /\ loopAt = "pass"
    /\ toVisit = {}
    /\ loopAt' = "due"
    /\ UNCHANGED <<stated, clock, toVisit, due, woken, permit, refused, came>>

\* The stated instants still ahead at the time of asking.
Ahead(s, at) == {s[m] : m \in {k \in Tracked : s[k] \in Int /\ s[k] > at}}

\* next_due_ms: the soonest of them, None when none is ahead.
NextDue(s, at) ==
    IF Ahead(s, at) = {} THEN {Unstated}
    ELSE {d \in Ahead(s, at) : \A e \in Ahead(s, at) : d <= e}

ReadDue ==
    /\ loopAt = "due"
    /\ due' \in NextDue(stated, clock)
    /\ loopAt' = "choose"
    /\ UNCHANGED <<stated, clock, toVisit, woken, permit, refused, came>>

\* Bug: a moment that passed since it was read is waited for like none.
ChooseAwaiting ==
    /\ loopAt = "choose"
    /\ loopAt' = IF due # Unstated /\ due > clock THEN "sleep" ELSE "await"
    /\ UNCHANGED <<stated, clock, toVisit, due, woken, permit, refused, came>>

\* What is left until the moment read, on a second look at the clock: sleep
\* until it, turn at once when it passed, and with none wait for a wake.
Choose ==
    /\ loopAt = "choose"
    /\ \/ /\ due # Unstated
          /\ due > clock
          /\ loopAt' = "sleep"
          /\ UNCHANGED <<woken, permit>>
       \/ /\ due # Unstated
          /\ due <= clock
          /\ loopAt' = "turn"
          /\ permit' = (permit \/ woken)
          /\ woken' = FALSE
       \/ /\ due = Unstated
          /\ loopAt' = "await"
          /\ UNCHANGED <<woken, permit>>
    /\ UNCHANGED <<stated, clock, toVisit, due, refused, came>>

\* The wake ends the wait and is consumed by it.
Wakes ==
    /\ loopAt \in {"sleep", "await"}
    /\ woken
    /\ loopAt' = "turn"
    /\ woken' = FALSE
    /\ UNCHANGED <<stated, clock, toVisit, due, permit, refused, came>>

\* The timer ends the wait; a notification the dropped future held is kept.
TimerEnds ==
    /\ loopAt = "sleep"
    /\ clock >= due
    /\ loopAt' = "turn"
    /\ permit' = (permit \/ woken)
    /\ woken' = FALSE
    /\ UNCHANGED <<stated, clock, toVisit, due, refused, came>>

-----------------------------------------------------------------------------
(***************************************************************************)
(* What happens beside it.                                                 *)
(***************************************************************************)
\* Bug: only a loop already waiting hears the wake (notify_waiters).
RefuseUnkept ==
    /\ refused' = TRUE
    /\ woken' = (woken \/ loopAt \in {"sleep", "await"})
    /\ UNCHANGED <<stated, clock, loopAt, toVisit, due, permit, came>>

\* start_after_refusal: notify_one goes to the armed future if that one
\* still waits, and is kept as the permit otherwise.
Refuse ==
    /\ refused' = TRUE
    /\ IF loopAt # "turn" /\ ~woken
         THEN woken' = TRUE /\ permit' = permit
         ELSE permit' = TRUE /\ woken' = woken
    /\ UNCHANGED <<stated, clock, loopAt, toVisit, due, came>>

\* An answer, a report or a sign-in states a new instant for a member.
State(m) ==
    /\ \E at \in {i \in Moments : i > clock} : stated' = [stated EXCEPT ![m] = at]
    /\ came' = came \ {m}
    /\ UNCHANGED <<clock, loopAt, toVisit, due, woken, permit, refused>>

LoopTick ==
    /\ clock < MaxClock
    /\ clock' = clock + 1
    /\ came' = came \cup {m \in Tracked : stated[m] = clock + 1}
    /\ UNCHANGED <<stated, loopAt, toVisit, due, woken, permit, refused>>

Loop ==
    \/ Turn
    \/ \E m \in Tracked : Visit(m)
    \/ PassEnds
    \/ ReadDue
    \/ Choose
    \/ Wakes
    \/ TimerEnds

LoopNext ==
    \/ Loop
    \/ Refuse
    \/ \E m \in Tracked : State(m)
    \/ LoopTick

\* The runtime polls the loop's task while it can run, and time passes.
LoopFairness == WF_loopVars(Loop) /\ WF_loopVars(LoopTick)

LoopSpec == LoopInit /\ [][LoopNext]_loopVars

FairLoopSpec == LoopSpec /\ LoopFairness

-----------------------------------------------------------------------------
(***************************************************************************)
(* Properties.                                                             *)
(***************************************************************************)
\* The wake of a refusal no pass has followed is never lost, wherever in the
\* loop's turn it arrived ("a wake while a pass runs is kept"): the armed
\* future holds it, Notify keeps it, or the next pass is about to start.
RefusalHeld == refused => woken \/ permit \/ loopAt = "turn"

\* The inductive invariant: types, the wake above, a future armed only from
\* the start of a pass to the end of its turn, and no sleep without a moment.
LoopInv ==
    /\ LoopTypeOK
    /\ RefusalHeld
    /\ loopAt = "turn" => ~woken
    /\ loopAt = "sleep" => due # Unstated

\* A request refused for want of a sign-in is followed by a pass.
RefusalServed == refused ~> ~refused

\* A moment the loop read ahead of it is followed by a pass, also when it
\* passes between the reading of it and the choice to sleep.
ReadMomentServed == (loopAt = "choose" /\ due # Unstated) ~> (loopAt = "pass")

\* The comment on the empty arm of the wait: "a moment that passed while the
\* pass ran is due now".  A moment that came is followed by a visit, unless
\* the ledger states another in its place.
PassedMomentServed == \A m \in Tracked : m \in came ~> m \notin came

=============================================================================
