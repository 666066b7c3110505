---------------------------- MODULE MCWorkerPool ----------------------------
(* Two workers and three accounts, two of them on the same worker; queues   *)
(* of one job, so a burst fills them; one retry of a failing event.          *)
EXTENDS WorkerPool, TLC

CONSTANTS a, b, c

MCHash == a :> 0 @@ b :> 2 @@ c :> 1
MCPoints == 1..MaxTickets
=============================================================================
