-------------------------- MODULE WatermarkHandle --------------------------
(***************************************************************************)
(* The watermark as the reader and the workers share it: `begin` and        *)
(* `complete` under a mutex, and `wait_idle`, with which the reader drains  *)
(* the workers when a session ends                                         *)
(* (crates/happyview-source-jetstream/src/consumer/watermark.rs).           *)
(*                                                                         *)
(* `complete` locks, updates, unlocks and only then notifies, so a          *)
(* completion is two steps. `wait_idle` registers for the notification,     *)
(* checks, and only then waits. The reader is one task: it begins no ticket *)
(* while it waits.                                                         *)
(***************************************************************************)
EXTENDS Watermark, FiniteSets

CONSTANTS
    Completers,  \* how many tasks complete tickets: the pool's workers
    MaxTickets   \* bound on the tickets handed out

ASSUME HandleAssumption == Completers \in Nat \ {0} /\ MaxTickets \in Nat

VARIABLES
    wm,         \* the watermark behind the mutex
    notifying,  \* completions that saw the watermark idle and are about to notify
    waiter,     \* where the reader is in wait_idle
    notified,   \* the registered waiter's notification arrived
    begun,      \* history: the point of every ticket handed out
    finished    \* history: the tickets completed

vars == <<wm, notifying, waiter, notified, begun, finished>>

WaiterStates == {"out", "registered", "checked", "waiting"}

Init ==
    /\ wm = EmptyWatermark
    /\ notifying = 0
    /\ waiter = "out"
    /\ notified = FALSE
    /\ begun = <<>>
    /\ finished = {}

\* The reader takes a ticket for an event it is about to dispatch.
Begin(point) ==
    /\ waiter = "out"
    /\ NextTicket(wm) < MaxTickets
    /\ wm' = BeginTicket(wm, point)
    /\ begun' = Append(begun, point)
    /\ UNCHANGED <<notifying, waiter, notified, finished>>

\* A worker (or a dispatch that found its worker gone) completes a ticket.
\* The ticket may be one already completed: that changes nothing.
Complete(ticket) ==
    /\ notifying < Completers
    /\ wm' = CompleteTicket(wm, ticket)
    /\ finished' = finished \cup ({ticket} \cap (0..(Len(begun) - 1)))
    /\ notifying' = IF InFlight(wm') = 0 THEN notifying + 1 ELSE notifying
    /\ UNCHANGED <<waiter, notified, begun>>

\* The mutex is released; the waiter, if it is registered by now, is woken.
NotifyWaiters ==
    /\ notifying > 0
    /\ notifying' = notifying - 1
    /\ notified' = (notified \/ waiter # "out")
    /\ UNCHANGED <<wm, waiter, begun, finished>>

\* wait_idle: `enable` registers before the check.
Register ==
    /\ waiter = "out"
    /\ waiter' = "registered"
    /\ notified' = FALSE
    /\ UNCHANGED <<wm, notifying, begun, finished>>

CheckIdle ==
    /\ waiter = "registered"
    /\ waiter' = IF InFlight(wm) = 0 THEN "out" ELSE "checked"
    /\ UNCHANGED <<wm, notifying, notified, begun, finished>>

\* The wait of a loop that creates its `notified` future after the check.
AwaitAfterCheck ==
    /\ waiter = "checked"
    /\ waiter' = "waiting"
    /\ notified' = FALSE
    /\ UNCHANGED <<wm, notifying, begun, finished>>

Await ==
    /\ waiter = "checked"
    /\ waiter' = "waiting"
    /\ UNCHANGED <<wm, notifying, notified, begun, finished>>

\* Woken: go round the loop, which registers again.
Wake ==
    /\ waiter = "waiting"
    /\ notified
    /\ waiter' = "registered"
    /\ notified' = FALSE
    /\ UNCHANGED <<wm, notifying, begun, finished>>

\* The session's drain timeout drops the wait.
WaitTimesOut ==
    /\ waiter = "waiting"
    /\ waiter' = "out"
    /\ UNCHANGED <<wm, notifying, notified, begun, finished>>

Unfinished == (0..(Len(begun) - 1)) \ finished

Next ==
    \/ \E point \in Points : Begin(point)
    \/ \E ticket \in 0..(Len(begun) - 1) : Complete(ticket)
    \/ NotifyWaiters
    \/ Register
    \/ CheckIdle
    \/ Await
    \/ Wake
    \/ WaitTimesOut

Spec == Init /\ [][Next]_vars

\* The workers finish every event (WorkerPool shows when they do), a task
\* that is past an unlock goes on to notify, and a woken task runs.
Fairness ==
    /\ WF_vars(\E ticket \in Unfinished : Complete(ticket))
    /\ WF_vars(NotifyWaiters)
    /\ WF_vars(CheckIdle)
    /\ WF_vars(Await)
    /\ WF_vars(Wake)

FairSpec == Spec /\ Fairness

-----------------------------------------------------------------------------

(* The handle's state is well formed. *)
TypeOK ==
    /\ wm \in Watermarks
    /\ notifying \in 0..Completers
    /\ waiter \in WaiterStates
    /\ notified \in BOOLEAN
    /\ begun \in Seq(Points)
    /\ finished \in SUBSET (0..(Len(begun) - 1))

(* What the slots hold: the pending slots are the tickets from `front` on,  *)
(* each marked exactly when its ticket was completed, and every ticket      *)
(* before `front` was completed.                                           *)
SlotsFollowTickets ==
    /\ NextTicket(wm) = Len(begun)
    /\ \A i \in 1..Len(wm.pending) :
         /\ wm.pending[i].point = begun[wm.front + i]
         /\ wm.pending[i].done <=> (wm.front + i - 1) \in finished
    /\ \A t \in 0..(wm.front - 1) : t \in finished

(* complete() retires everything it can: the first pending slot is always  *)
(* an unfinished event, so a finished prefix never waits for a later call.  *)
NothingRetirableWaits ==
    wm.pending # <<>> => ~wm.pending[1].done

(* `applied` is the point of the last retired ticket.                      *)
AppliedIsLastRetired ==
    wm.applied = IF wm.front = 0 THEN NoPoint ELSE begun[wm.front]

(* The watermark never passes an unfinished event: when it shows the point  *)
(* of some ticket, every event read up to and including that one has        *)
(* finished, and the next one has not (watermark.rs, "never past it").      *)
WatermarkIsFinishedPrefix ==
    \E n \in 0..Len(begun) :
        /\ \A t \in 0..(n - 1) : t \in finished
        /\ n \notin finished
        /\ wm.applied = IF n = 0 THEN NoPoint ELSE begun[n]

(* The watermark implements the abstract prefix: the queue of slots, its    *)
(* popping loop and the ignored stale tickets are invisible.                *)
Abstract == INSTANCE AppliedPrefix WITH applied <- wm.applied

ImplementsAppliedPrefix == Abstract!Spec

(* A drain always ends: once the reader waits for the workers it goes on,   *)
(* whatever the interleaving of its registration, its check and the last    *)
(* completion's late notification (the lost wakeup `wait_idle`'s            *)
(* registration before its check is there to prevent).                     *)
DrainEnds == waiter # "out" ~> waiter = "out"
=============================================================================
