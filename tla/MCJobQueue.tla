----------------------------- MODULE MCJobQueue -----------------------------
(* Two workers of one instance, and in one scenario a second instance that  *)
(* sweeps the same table.                                                  *)
EXTENDS JobQueue, TLC

CONSTANTS i1, i2, w1, w2, h1, h2

MCHome == w1 :> i1 @@ w2 :> i1

Alone == [up |-> {i1}, crash |-> 0, request |-> 0, sweep |-> 0]

MCScenarios ==
    { [Alone EXCEPT !.crash = 1],
      [Alone EXCEPT !.request = 2],
      [Alone EXCEPT !.sweep = 1],
      [Alone EXCEPT !.up = {i1, i2}] }
=============================================================================
