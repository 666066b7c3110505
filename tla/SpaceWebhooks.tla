---------------------------- MODULE SpaceWebhooks ----------------------------
(***************************************************************************)
(* The delivery worker of one space's legacy webhooks                      *)
(* (src/src/spaces/notifications.rs).  Writes are announced on a bounded   *)
(* channel; the first announcement starts the worker, a worker idle for    *)
(* WEBHOOK_WORKER_IDLE stops itself, and the map from space to channel is  *)
(* only read or changed under its lock.                                    *)
(*                                                                         *)
(* One space is modelled: spaces share nothing but the lock, and each      *)
(* critical section is one step.                                           *)
(***************************************************************************)
EXTENDS Naturals, Sequences

CONSTANT QueueLimit    \* WEBHOOK_QUEUE

VARIABLES listed,      \* the space has an entry in webhook_queues()
          worker,      \* the task behind that entry
          items,       \* its channel
          held,        \* the batch it is dispatching, <<>> or <<batch>>
          sent,        \* history: batches dispatched, in order
          dropped,     \* history: how many batches met a full channel
          lost         \* history: batches in a worker that died

channel == <<listed, worker, items, held>>
fates == <<sent, dropped, lost>>
webhookVars == <<listed, worker, items, held, sent, dropped, lost>>

(* "waiting": in `timeout(WEBHOOK_WORKER_IDLE, rx.recv())`; "idle": the    *)
(* timeout fired and the lock is not taken yet; "sending": in              *)
(* dispatch_write_notifications; "gone": returned or died, rx dropped.     *)
WorkerStates == {"waiting", "idle", "sending", "gone"}

WebhooksInit ==
    /\ listed = FALSE
    /\ worker = "gone"
    /\ items = <<>>
    /\ held = <<>>
    /\ sent = <<>>
    /\ dropped = 0
    /\ lost = {}

Open == listed /\ worker # "gone"

(* spawn_webhook_worker: a fresh channel, holding the batch that caused it *)
SpawnWith(b) ==
    /\ listed' = TRUE
    /\ worker' = "waiting"
    /\ items' = <<b>>
    /\ held' = <<>>

(* announce_writes: send; drop when full; when there is no entry, or the   *)
(* channel behind the entry is closed, start a worker and send to that.    *)
AnnounceWrites(b) ==
    \/ /\ Open
       /\ Len(items) < QueueLimit
       /\ items' = Append(items, b)
       /\ UNCHANGED <<listed, worker, held, fates>>
    \/ /\ Open
       /\ Len(items) >= QueueLimit
       /\ dropped' = dropped + 1
       /\ UNCHANGED <<channel, sent, lost>>
    \/ /\ ~Open
       /\ SpawnWith(b)
       /\ UNCHANGED fates

Receive ==
    /\ worker = "waiting"
    /\ items # <<>>
    /\ worker' = "sending"
    /\ held' = <<Head(items)>>
    /\ items' = Tail(items)
    /\ UNCHANGED <<listed, fates>>

(* `timeout` polls the channel before the timer, so it fires on an empty   *)
(* channel only; a batch may still arrive before the worker has the lock.  *)
GoIdle ==
    /\ worker = "waiting"
    /\ items = <<>>
    /\ worker' = "idle"
    /\ UNCHANGED <<listed, items, held, fates>>

(* A form where the worker stops without looking at its channel again. *)
StopAtOnce ==
    /\ worker = "idle"
    /\ listed' = FALSE
    /\ worker' = "gone"
    /\ items' = <<>>
    /\ UNCHANGED <<held, fates>>

StopUnlessSent ==
    /\ worker = "idle"
    /\ IF items = <<>>
         THEN listed' = FALSE /\ worker' = "gone"
         ELSE worker' = "waiting" /\ UNCHANGED listed
    /\ UNCHANGED <<items, held, fates>>

(* dispatch_write_notifications tries every registered webhook and gives   *)
(* up on none that another's failure would starve; its error is logged.    *)
Dispatch ==
    /\ worker = "sending"
    /\ sent' = sent \o held
    /\ held' = <<>>
    /\ worker' = "waiting"
    /\ UNCHANGED <<listed, items, dropped, lost>>

(* A dispatch that panics takes the channel with it and leaves the entry:  *)
(* the `Closed` arm of announce_writes is there for this.                  *)
WorkerDies ==
    /\ worker = "sending"
    /\ worker' = "gone"
    /\ lost' = lost \cup {(held \o items)[i] : i \in DOMAIN (held \o items)}
    /\ items' = <<>>
    /\ held' = <<>>
    /\ UNCHANGED <<listed, sent, dropped>>

WorkerStep == Receive \/ GoIdle \/ StopUnlessSent \/ Dispatch
=============================================================================
