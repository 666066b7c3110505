--------------------------- MODULE MCRecordUpgrade ---------------------------
(* Two boots of a small table, serialised or not. *)
EXTENDS RecordUpgrade

CONSTANTS b1, b2

Quiet == [serial |-> FALSE, old |-> 0, live |-> 0, stop |-> 0, fail |-> 0]

MCScenarios ==
    { [Quiet EXCEPT !.stop = 1],
      [Quiet EXCEPT !.live = 1, !.stop = 1],
      [Quiet EXCEPT !.old = 1, !.live = 1],
      [Quiet EXCEPT !.fail = 1, !.live = 1],
      [Quiet EXCEPT !.serial = TRUE, !.old = 1, !.stop = 1, !.fail = 1] }
=============================================================================
