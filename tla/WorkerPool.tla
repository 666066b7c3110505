----------------------------- MODULE WorkerPool -----------------------------
(***************************************************************************)
(* The pool that applies Jetstream events                                  *)
(* (crates/happyview-source-jetstream/src/consumer/workers.rs): the reader  *)
(* takes a ticket for each event and queues it on its DID's worker; a       *)
(* worker applies its queue in order, retrying each event in place, and     *)
(* completes the ticket on the watermark.                                  *)
(*                                                                         *)
(* An event is its ticket; its point on the stream is ticket + 1. A wait    *)
(* between retries only passes time, so it is not a step.                  *)
(***************************************************************************)
EXTENDS Watermark, FiniteSets

CONSTANTS
    Dids,        \* the accounts events are about
    Hash,        \* DefaultHasher's value for each DID
    Workers,     \* how many workers the pool has
    Capacity,    \* what each worker's channel holds
    Delays,      \* how many delays the retry policy has: retries of a failure
    NoJob,       \* no ticket in hand
    CounterMod,  \* the depth counters wrap at this (2^64)
    MaxTickets,  \* bound: events the reader dispatches
    MaxOutages,  \* bound: database outages
    MaxStops     \* bound: workers whose task ends with the pool still in use

ASSUME PoolAssumption ==
    /\ Hash \in [Dids -> Nat]
    /\ Workers \in Nat \ {0} /\ Capacity \in Nat \ {0} /\ Delays \in Nat
    /\ {MaxTickets, MaxOutages, MaxStops} \subseteq Nat
    /\ CounterMod \in Nat /\ CounterMod > MaxTickets
    /\ NoJob \notin Nat
    /\ Points = 1..MaxTickets

VARIABLES
    wm,        \* the watermark the pool completes tickets on
    did,       \* the DID of each ticket, by ticket + 1
    sending,   \* the ticket the reader waits to queue, or NoJob
    queue,     \* each worker's channel, as tickets
    depth,     \* the status page's count of each queue
    busy,      \* the status page's mark of a worker with a job in hand
    hand,      \* each worker's ticket in hand, or NoJob
    step,      \* where each worker is between two receives
    fails,     \* the delays each worker's current event has used up
    down,      \* the database is unavailable
    outages,   \* how many outages there have been
    stopped,   \* the workers whose task has ended
    pool,      \* "running", or how far the pool's drop has come
    applied,   \* history: the tickets whose event was applied
    failures,  \* history: how often each ticket's event failed, by ticket + 1
    refused    \* history: the tickets dispatched to a stopped worker

reader == <<did, sending>>
counters == <<depth, busy>>
environment == <<down, outages, stopped, pool>>
history == <<applied, failures, refused>>
vars == <<wm, reader, queue, counters, hand, step, fails, environment, history>>

W == 0..(Workers - 1)

\* The worker that owns a DID's events, and a form of it that spreads load.
WorkerForAny(d) == NextTicket(wm) % Workers
WorkerFor(d) == Hash[d] % Workers

Tickets == 0..(Len(did) - 1)

Init ==
    /\ wm = EmptyWatermark
    /\ did = <<>>
    /\ sending = [ticket |-> NoJob, worker |-> 0]
    /\ queue = [w \in W |-> <<>>]
    /\ depth = [w \in W |-> 0]
    /\ busy = [w \in W |-> FALSE]
    /\ hand = [w \in W |-> NoJob]
    /\ step = [w \in W |-> "idle"]
    /\ fails = [w \in W |-> 0]
    /\ down = FALSE
    /\ outages = 0
    /\ stopped = {}
    /\ pool = "running"
    /\ applied = {}
    /\ failures = <<>>
    /\ refused = {}

Incremented(n) == (n + 1) % CounterMod
Decremented(n) == (n + CounterMod - 1) % CounterMod

-----------------------------------------------------------------------------
(* The reader *)

\* It takes a ticket, counts the job on its worker's queue and starts to send.
Dispatch(d) ==
    /\ pool = "running"
    /\ sending.ticket = NoJob
    /\ NextTicket(wm) < MaxTickets
    /\ wm' = BeginTicket(wm, NextTicket(wm) + 1)
    /\ did' = Append(did, d)
    /\ failures' = Append(failures, 0)
    /\ sending' = [ticket |-> NextTicket(wm), worker |-> WorkerFor(d)]
    /\ depth' = [depth EXCEPT ![WorkerFor(d)] = Incremented(@)]
    /\ UNCHANGED <<queue, busy, hand, step, fails, environment, applied, refused>>

\* The send goes through once the channel has room.
Send ==
    /\ pool = "running"
    /\ sending.ticket # NoJob
    /\ sending.worker \notin stopped
    /\ Len(queue[sending.worker]) < Capacity
    /\ queue' = [queue EXCEPT ![sending.worker] = Append(@, sending.ticket)]
    /\ sending' = [sending EXCEPT !.ticket = NoJob]
    /\ UNCHANGED <<wm, did, counters, hand, step, fails, environment, history>>

\* The send fails because the worker is gone; a form that leaves the count.
SendFailsCounted ==
    /\ pool = "running"
    /\ sending.ticket # NoJob
    /\ sending.worker \in stopped
    /\ wm' = CompleteTicket(wm, sending.ticket)
    /\ refused' = refused \cup {sending.ticket}
    /\ sending' = [sending EXCEPT !.ticket = NoJob]
    /\ UNCHANGED <<did, queue, counters, hand, step, fails, environment, applied, failures>>

\* Nothing will apply the event, so its ticket is completed here.
SendFails ==
    /\ pool = "running"
    /\ sending.ticket # NoJob
    /\ sending.worker \in stopped
    /\ wm' = CompleteTicket(wm, sending.ticket)
    /\ refused' = refused \cup {sending.ticket}
    /\ sending' = [sending EXCEPT !.ticket = NoJob]
    /\ depth' = [depth EXCEPT ![sending.worker] = Decremented(@)]
    /\ UNCHANGED <<did, queue, busy, hand, step, fails, environment, applied, failures>>

-----------------------------------------------------------------------------
(* A worker *)

\* A task polled after its abort is cancelled instead of run.
Runs(w) == w \notin stopped /\ pool = "running"

Receive(w) ==
    /\ Runs(w)
    /\ step[w] = "idle"
    /\ queue[w] # <<>>
    /\ hand' = [hand EXCEPT ![w] = Head(queue[w])]
    /\ queue' = [queue EXCEPT ![w] = Tail(@)]
    /\ step' = [step EXCEPT ![w] = "received"]
    /\ UNCHANGED <<wm, reader, counters, fails, environment, history>>

\* No await since the receive: an abort does not stop this.
StartJob(w) ==
    /\ w \notin stopped
    /\ step[w] = "received"
    /\ depth' = [depth EXCEPT ![w] = Decremented(@)]
    /\ busy' = [busy EXCEPT ![w] = TRUE]
    /\ step' = [step EXCEPT ![w] = "applying"]
    /\ fails' = [fails EXCEPT ![w] = 0]
    /\ UNCHANGED <<wm, reader, queue, hand, environment, history>>

\* An attempt applies the event.
AttemptApplies(w) ==
    /\ Runs(w)
    /\ step[w] = "applying"
    /\ ~down
    /\ applied' = applied \cup {hand[w]}
    /\ step' = [step EXCEPT ![w] = "finished"]
    /\ UNCHANGED <<wm, reader, queue, counters, hand, fails, environment, failures, refused>>

\* A form of the next action that spends a delay on an outage.
AttemptUnavailableCounted(w) ==
    /\ Runs(w)
    /\ step[w] = "applying"
    /\ down
    /\ IF fails[w] < Delays
       THEN fails' = [fails EXCEPT ![w] = @ + 1] /\ UNCHANGED step
       ELSE step' = [step EXCEPT ![w] = "finished"] /\ UNCHANGED fails
    /\ UNCHANGED <<wm, reader, queue, counters, hand, environment, history>>

\* An attempt finds the database unavailable: the event is kept and retried,
\* and no delay is spent.
AttemptUnavailable(w) ==
    /\ Runs(w)
    /\ step[w] = "applying"
    /\ down
    /\ UNCHANGED vars

\* A form of the next action in which a failure past the last retry ends the
\* worker's task.
AttemptFailsFatally(w) ==
    /\ Runs(w)
    /\ step[w] = "applying"
    /\ failures' = [failures EXCEPT ![hand[w] + 1] = @ + 1]
    /\ IF fails[w] < Delays
       THEN fails' = [fails EXCEPT ![w] = @ + 1] /\ UNCHANGED step
       ELSE step' = [step EXCEPT ![w] = "panicked"] /\ UNCHANGED fails
    /\ UNCHANGED <<wm, reader, queue, counters, hand, environment, applied, refused>>

\* An attempt fails or panics: the next delay, or the event is given up
\* (logged; a panic of the log is caught as well).
AttemptFails(w) ==
    /\ Runs(w)
    /\ step[w] = "applying"
    /\ failures' = [failures EXCEPT ![hand[w] + 1] = @ + 1]
    /\ IF fails[w] < Delays
       THEN fails' = [fails EXCEPT ![w] = @ + 1] /\ UNCHANGED step
       ELSE step' = [step EXCEPT ![w] = "finished"] /\ UNCHANGED fails
    /\ UNCHANGED <<wm, reader, queue, counters, hand, environment, applied, refused>>

\* The event is settled: the ticket completes. No await since the attempt.
FinishJob(w) ==
    /\ w \notin stopped
    /\ step[w] = "finished"
    /\ busy' = [busy EXCEPT ![w] = FALSE]
    /\ wm' = CompleteTicket(wm, hand[w])
    /\ hand' = [hand EXCEPT ![w] = NoJob]
    /\ step' = [step EXCEPT ![w] = "idle"]
    /\ UNCHANGED <<reader, queue, depth, fails, environment, history>>

-----------------------------------------------------------------------------
(* Outages, a worker's end and the pool's drop *)

OutageStarts ==
    /\ ~down
    /\ outages < MaxOutages
    /\ down' = TRUE
    /\ outages' = outages + 1
    /\ UNCHANGED <<wm, reader, queue, counters, hand, step, fails, stopped, pool, history>>

OutageEnds ==
    /\ down
    /\ down' = FALSE
    /\ UNCHANGED <<wm, reader, queue, counters, hand, step, fails, outages, stopped, pool, history>>

\* A worker's task ends between two jobs; its channel closes with it.
WorkerStops(w) ==
    /\ pool = "running"
    /\ Cardinality(stopped) < MaxStops
    /\ step[w] = "idle"
    /\ stopped' = stopped \cup {w}
    /\ UNCHANGED <<wm, reader, queue, counters, hand, step, fails, down, outages, pool, history>>

\* Dropping the pool: abort every task, then clear the marks, then the counts.
\* The reader's own dispatch is dropped with it.
AbortWorkers ==
    /\ pool = "running"
    /\ pool' = "aborted"
    /\ sending' = [sending EXCEPT !.ticket = NoJob]
    /\ UNCHANGED <<wm, did, queue, counters, hand, step, fails, down, outages, stopped, history>>

ClearBusy ==
    /\ pool = "aborted"
    /\ pool' = "busy_cleared"
    /\ busy' = [w \in W |-> FALSE]
    /\ UNCHANGED <<wm, reader, queue, depth, hand, step, fails, down, outages, stopped, history>>

ClearDepths ==
    /\ pool = "busy_cleared"
    /\ pool' = "dropped"
    /\ depth' = [w \in W |-> 0]
    /\ UNCHANGED <<wm, reader, queue, busy, hand, step, fails, down, outages, stopped, history>>

WorkerStep(w) ==
    \/ Receive(w)
    \/ StartJob(w)
    \/ AttemptApplies(w)
    \/ AttemptUnavailable(w)
    \/ AttemptFails(w)
    \/ FinishJob(w)

Next ==
    \/ \E d \in Dids : Dispatch(d)
    \/ Send
    \/ SendFails
    \/ \E w \in W : WorkerStep(w)
    \/ OutageStarts
    \/ OutageEnds
    \/ \E w \in W : WorkerStops(w)
    \/ AbortWorkers
    \/ ClearBusy
    \/ ClearDepths

Spec == Init /\ [][Next]_vars

\* Every task keeps being scheduled; an outage ends.
Fairness ==
    /\ WF_vars(Send)
    /\ WF_vars(SendFails)
    /\ \A w \in W : WF_vars(WorkerStep(w))
    /\ WF_vars(OutageEnds)
    /\ WF_vars(ClearBusy)
    /\ WF_vars(ClearDepths)

FairSpec == Spec /\ Fairness

-----------------------------------------------------------------------------

Settled(t) ==
    \/ t \in applied \cup refused
    \/ failures[t + 1] > Delays

(* One DID's events never race: an event is attempted only after every       *)
(* earlier event of its DID was settled, whatever the workers' speeds, the   *)
(* retries in between and the full queues (workers.rs, "one DID's events     *)
(* never race").                                                            *)
DidOrder ==
    \A u \in Tickets : \A t \in 0..(u - 1) :
        (did[t + 1] = did[u + 1] /\ (u \in applied \/ failures[u + 1] > 0)) =>
            Settled(t)

(* A retired ticket's event was applied, was given up after one attempt per  *)
(* delay and one more (an outage spends none of them), or was never taken by *)
(* a worker; so the saved cursor passes no event still owed a retry.         *)
RetiredIsSettled == \A t \in Tickets : HasRetired(wm, t) => Settled(t)

(* One if the reader is sending worker w a job, one if w has received a job *)
(* and not yet counted it out.                                             *)
Sent(w) == IF sending.ticket # NoJob /\ sending.worker = w THEN 1 ELSE 0
Received(w) == IF step[w] = "received" THEN 1 ELSE 0

(* A worker's depth counts the jobs in its channel, the one being sent to it *)
(* and the one it has received and not yet counted out, however the sends    *)
(* and receives interleave; so it never wraps below zero.                    *)
DepthCountsQueue ==
    pool = "running" =>
        \A w \in W : depth[w] = Len(queue[w]) + Sent(w) + Received(w)

(* Every event dispatched is settled and its ticket retires, through full    *)
(* queues, outages and events that keep failing, unless a worker's task ends *)
(* or the pool is dropped (workers.rs, "so the watermark never stalls").     *)
EveryTicketRetires ==
    \A t \in 0..(MaxTickets - 1) :
        (t \in Tickets) ~> (HasRetired(wm, t) \/ stopped # {} \/ pool # "running")
=============================================================================
