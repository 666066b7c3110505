--------------------------- MODULE MCAccountReplay ---------------------------
(* Small histories of one account. A scenario is the kinds of events its      *)
(* history has and the jobs and faults one behaviour may have.              *)
EXTENDS AccountReplay

Scenario(kinds, keys, events, some) ==
    [kinds |-> kinds, keys |-> keys, events |-> events,
     budget |-> [b \in Budgets |-> IF b \in DOMAIN some THEN some[b] ELSE 0]]

KeyOne == CHOOSE k \in Keys : TRUE

MCBodies == 1..MaxEvents

SettlingScenarios ==
    { \* the stream and a replay of the whole range
      Scenario({"put", "delete"}, Keys, 3, [replay |-> 1, crash |-> 1]),
      Scenario({"put", "delete", "takedown"}, {KeyOne}, 4, [replay |-> 1, crash |-> 1]),
      \* a history from before the first connection, with account events
      Scenario({"put", "takedown", "active", "deleted"}, {KeyOne}, 4, [late |-> 1, replay |-> 1]),
      \* a gap filled from the archive while the stream goes on
      Scenario({"put", "delete"}, Keys, 3, [gap |-> 1, crash |-> 1]),
      Scenario({"put", "delete"}, {KeyOne}, 4, [gap |-> 1, crash |-> 1]),
      Scenario({"put", "takedown", "active"}, {KeyOne}, 4, [gap |-> 1, crash |-> 1]),
      \* a job that is paused and fails, and the deletion of an account that moved
      Scenario({"put", "deleted", "moved"}, Keys, 3, [gap |-> 1, pause |-> 1, fail |-> 1]),
      \* redelivered resyncs
      Scenario({"put", "delete", "sync", "again"}, {KeyOne}, 4, [crash |-> 1]),
      \* a crawl and a replay
      Scenario({"put", "delete", "deleted"}, {KeyOne}, 3, [crawl |-> 1, replay |-> 1]) }

\* Histories the scenarios above leave out, because the code breaks a property in them (see the
\* README). Resyncs that repeat records, in a gap: NothingLost.
ResyncInGapScenarios == { Scenario({"put", "sync"}, {KeyOne}, 3, [gap |-> 1]) }

\* A delete of a record from before the first connection, before a replay starts:
\* NothingResurrected.
UnheldDeleteScenarios == { Scenario({"put", "delete"}, {KeyOne}, 2, [late |-> 1, replay |-> 1]) }
=============================================================================
