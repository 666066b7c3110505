---------------------------- MODULE MCNativeRepo ----------------------------
(* NativeRepo for TLC: a repo of two records, two runs of the job, and the *)
(* budgets of each kind of behaviour.                                      *)
EXTENDS NativeRepo

Quiet == [sqlite |-> TRUE, mode |-> "polyfill", held |-> <<1, 2>>, log |-> <<>>,
          jobs |-> 1, runs |-> 0, writes |-> 0, pds |-> 0, pulls |-> 1, faults |-> 0,
          stops |-> 0, stalls |-> 0]

Moved == [Quiet EXCEPT !.mode = "native",
                        !.log = <<[key |-> 1, cid |-> 1], [key |-> 2, cid |-> 2]>>]

MCScenarios ==
    { \* a migration that meets crashes, lost answers, stops and writes on the PDS
      [Quiet EXCEPT !.runs = 2, !.faults = 2, !.stops = 1, !.pds = 1],
      \* a migration that clients write around
      [Quiet EXCEPT !.held = <<1, 0>>, !.runs = 2, !.writes = 2, !.pds = 1],
      [Quiet EXCEPT !.held = <<1, 0>>, !.runs = 1, !.writes = 2, !.sqlite = FALSE],
      \* a migration whose job is taken over
      [Quiet EXCEPT !.held = <<1, 0>>, !.runs = 2, !.stalls = 1, !.pds = 1],
      \* two jobs of the repo, run at once
      [Quiet EXCEPT !.held = <<1, 0>>, !.jobs = 2, !.runs = 2, !.faults = 1, !.stops = 1],
      \* a native repo that is written on the PDS while pulls fail
      [Moved EXCEPT !.pds = 3, !.faults = 2, !.runs = 1],
      \* two pulls at once
      [Moved EXCEPT !.pds = 2, !.pulls = 2] }

MCTwoPulls == {[Moved EXCEPT !.pds = 2, !.pulls = 2]}
=============================================================================
