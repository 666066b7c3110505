---------------------------- MODULE DeliveryQueue ----------------------------
(***************************************************************************)
(* A space's webhooks as one queue, after the doc of `announce_writes`     *)
(* (src/src/spaces/notifications.rs:244-249): they hear of batches "in the *)
(* order they were announced".  A batch is refused only when the queue is  *)
(* full, and one that was accepted is delivered unless the task that       *)
(* delivers dies.                                                          *)
(*                                                                         *)
(* The doc goes on: "which is the order they committed".  That is not      *)
(* stated here, and the code does not keep it: a batch is announced after  *)
(* its commit has given up the space, so a later commit may be announced   *)
(* first.                                                                  *)
(***************************************************************************)
EXTENDS Naturals, Sequences

CONSTANT QueueLimit    \* WEBHOOK_QUEUE

VARIABLES pending,     \* accepted and not yet delivered, oldest first
          sent,        \* delivered, in order
          dropped,     \* how many were refused because the queue was full
          lost         \* accepted by a task that died

abstractVars == <<pending, sent, dropped, lost>>

Init ==
    /\ pending = <<>>
    /\ sent = <<>>
    /\ dropped = 0
    /\ lost = {}

(* announce_writes: at the end, whichever batch it is *)
Accept ==
    /\ Len(pending) <= QueueLimit
    /\ pending' # <<>>
    /\ pending' = Append(pending, pending'[Len(pending')])
    /\ UNCHANGED <<sent, dropped, lost>>

Refuse ==
    /\ Len(pending) >= QueueLimit
    /\ dropped' = dropped + 1
    /\ UNCHANGED <<pending, sent, lost>>

Deliver ==
    /\ pending # <<>>
    /\ sent' = Append(sent, Head(pending))
    /\ pending' = Tail(pending)
    /\ UNCHANGED <<dropped, lost>>

Die ==
    /\ pending # <<>>
    /\ lost' = lost \cup {pending[i] : i \in DOMAIN pending}
    /\ pending' = <<>>
    /\ UNCHANGED <<sent, dropped>>

Next ==
    \/ Accept
    \/ Refuse
    \/ Deliver
    \/ Die

Safety == Init /\ [][Next]_abstractVars
Spec == Safety /\ WF_abstractVars(Deliver)
=============================================================================
