----------------------- MODULE MCJetstreamConsumer -----------------------
(* Small instances of the consumer. A scenario is the settings and the      *)
(* budget of events and faults one behaviour starts with; a run explores    *)
(* every behaviour of each of its scenarios.                               *)
EXTENDS JetstreamConsumer

CONSTANTS a, b  \* two collections

MCPoints == [seq : 0..MaxSeq, time : {Time(i) : i \in 1..MaxEvents}]
MCNoPoint == [seq |-> 0, time |-> 0]

\* A budget of n new events and the faults that `some` gives; none of the others.
Budget(n, some) ==
    [k \in Kinds |-> IF k = "event" THEN n ELSE IF k \in DOMAIN some THEN some[k] ELSE 0]

\* A v2 server, one collection and a saved cursor.
Plain(n, some) ==
    [choice |-> "v2", gap_replay |-> FALSE, fresh |-> FALSE, refuses_times |-> FALSE,
     collections |-> {a}, budget |-> Budget(n, some)]

Replaying(n, some) == [Plain(n, some) EXCEPT !.gap_replay = TRUE]
Tracking(n, some) == [Plain(n, some) EXCEPT !.collections = {a, b}]

MCScenarios ==
    { \* every ordinary fault, and a server that renumbers and refuses old times
      [Plain(3, [crash |-> 1, drop |-> 1, timeout |-> 1, unsaved |-> 1, renumber |-> 1, expiry |-> 1])
         EXCEPT !.refuses_times = TRUE],
      \* the auto protocol with its fallback, another host, an older binary
      [Plain(2, [crash |-> 2, refusal |-> 2, timeout |-> 1, move |-> 1, rollback |-> 1,
                 expiry |-> 1]) EXCEPT !.choice = "auto"],
      \* gaps filled from the archive, with refusals and with a renumbering
      Replaying(2, [crash |-> 1, drop |-> 1, refusal |-> 1, timeout |-> 1, seal |-> 1, expiry |-> 3]),
      Replaying(2, [crash |-> 1, drop |-> 1, timeout |-> 1, renumber |-> 1, seal |-> 1, expiry |-> 3]),
      \* nothing saved yet
      [Plain(3, [crash |-> 1, drop |-> 1, timeout |-> 1, renumber |-> 1, expiry |-> 1])
         EXCEPT !.fresh = TRUE],
      \* a collection tracked later, with drains that end idle
      Tracking(3, [crash |-> 1, drop |-> 1, track |-> 1]) }

\* An archive that seals more between two refusals of the same seq.
ReusedReplayScenarios ==
    { Replaying(3, [crash |-> 1, drop |-> 1, timeout |-> 1, seal |-> 2, expiry |-> 3]) }

\* A drain that times out just before the new filter is subscribed to, which MCScenarios leave
\* out because the code breaks SavedCursorSafe in it (see the README).
TrackInFlightScenarios == { Tracking(3, [timeout |-> 1, track |-> 1]) }
=============================================================================
