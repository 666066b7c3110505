# A TLA+ model of HappyView

HappyView is an ATProto AppView. It follows the network's record stream
(Jetstream), keeps the records of the collections its operator tracks, fills in
their history by crawling PDSes or replaying Jetstream's archive, and serves
queries over the result. It also hosts permissioned *spaces*, whose records it keeps
for their authors or indexes from the authors' own PDSes. This directory holds TLA+ modules of the parts whose
correctness depends on the order in which several actors act, the TLC runs that
check them on small instances, and proofs that TLAPS checks.

Paths are relative to the repository. `J/` is
`crates/happyview-source-jetstream/src/`.

## The system's parts

| Part | Code | State | Operations | What is hard | Module |
|---|---|---|---|---|---|
| Applied watermark | `J/consumer/watermark.rs` | pending tickets, applied point | begin, complete, wait_idle | tickets finish out of order; a notification races the wait | `WatermarkHandle` |
| Per-DID worker pool | `J/consumer/workers.rs` | bounded channels, depth counters, retry state | dispatch, run_worker, apply_with_retries, drop | order per account, back-pressure, outages, a worker that stops | `WorkerPool` |
| Jetstream session and cursor | `J/consumer/mod.rs`, `cursor.rs` | session, protocol, saved cursor | connect, refusals, info frames, drain, flush, track | crash and restart, renumbered servers, refusals, two protocols | `JetstreamConsumer` |
| Gap replay start | `J/backfill/replay.rs` | open gap job and its tip | start_gap_replay | the job's range and the stream's resume point must meet | `JetstreamConsumer`, `AccountReplay` |
| Record store, tombstones | `src/record_store/mod.rs`, `src/tombstones.rs` | rows with revs, record and DID tombstones | network and local writes, deletes, purges, lift, sweep | late creates, batches between writers, lock-free local writes on Postgres | `RecordStore`, `RecordTombstones` |
| Ingest pipeline | `src/ingest.rs`, `J/consumer/apply.rs` | (the store) | records, account events, #sync | one history by several ways at once | `AccountReplay` |
| Replay sweep | `J/backfill/replay.rs`, `replay_fold.rs`, `replay_sweeps.rs` | sweeps, cursors, tips, the fold's buffer | plan, fold, flush, save, markers, stop, fail | a cursor saved before its writes; markers as of their own time | `AccountReplay` |
| Backfill jobs | `J/backfill/mod.rs`, `crawl.rs`, `J/admin.rs` | job status, running set, crawl queues | start, pause, resume, restart, complete, cancel, crawl | a stop between steps; rev-less pages | `AccountReplay` (in part) |
| Background job queue | `src/jobs/`, `src/admin/jobs.rs` | job rows, leases, runs | claim, renew, progress, finish, recovery sweep, cancel, pause, resume | runs that outlive a lease; sweeps of several instances; stale requests | `JobQueue` |
| Record store upgrade | `src/record_store/upgrade.rs` | legacy and compact tables, copy cursors | copy in batches, verify, swap, reset | several boots at once, old instances that still write, stops between batches | `RecordUpgrade` |
| Space writes and syncers | `src/spaces/service.rs`, `routes.rs`, `writers.rs`, `oplog.rs` | records, repo commit, oplog, writer list | create, put, delete, applyWrites, notifyWrite, listRepos | requests at once, revs minted before the lock, lost updates | `SpaceWrites` |
| Space webhooks | `src/spaces/notifications.rs` | a bounded channel and its worker | announce, receive, stop when idle, die | a worker that stops while a batch is sent | `SpaceWebhooks`, `DeliveryQueue` |
| Native space repos | `src/jobs/native/migrate_space_repo.rs`, `src/spaces/native_sync.rs` | the repo's mode, cursor and commit; the index | migrate, hand off, pull, sweep, client writes | stops between steps, lost answers, whole-row updates of stale reads | `NativeRepo` |
| Dead letters | `src/admin/dead_letters.rs` | failed events | retry, reindex | a retry without a rev after the tombstone is gone | planned |
| Labeler | `src/labeler.rs` | label streams' cursors | subscribe, apply | as the consumer, without a watermark | planned |
| Encryption keys | `src/reseal.rs` | sealed columns | re-seal batches | a crash between batches | planned |
| OAuth, sessions | `src/oauth/`, `src/auth/` | tokens, locks | refresh | two refreshes of one session | planned (the refresh lock) |
| Space members, credentials, blobs | `src/spaces/` (the rest) | rows of their own | administrative requests | cryptography | not modelled |

Not modelled, with the reason in `PROJECT.json`: scripts and plugins (arbitrary
guest code), lexicons, identity, XRPC, admin CRUD, telemetry, project tooling,
configuration, scope and NSID parsers (pure string code), the dashboard and the
client packages.

How the parts meet: the reader takes a **ticket** on the watermark for each event
and hands it to the account's worker; the worker applies the event to the store
and completes the ticket; the point before the first unfinished ticket is what
the session saves as its cursor and resumes from. When the cursor is too old, the
gap becomes a replay job that writes to the same store while the stream goes on.
Revs and tombstones in the store make the copies of one history commute. The upgrade
moves that store to its compact tables before an instance serves. A space has tables of
its own: a write there is one transaction on records, commit, oplog and writer list,
followed by an update to syncers and a webhook, both best effort; a repo that has moved
to its author's PDS is no longer written here but pulled from there.

## Modules and how they follow the code

* **`Watermark`** is the watermark as operators on a value; `CompleteTicket` is
  `Watermark::complete`, which marks a slot and pops the finished run.
  **`WatermarkHandle`** puts it behind the mutex: completers notify after they unlock,
  and `wait_idle` registers, checks, and then waits. `begun` and `finished` are
  history variables. **`AppliedPrefix`** is the promise: a set of tickets and the
  point before the first unfinished one.
* **`WorkerPool`** has one action per await of `dispatch` and `run_worker`: the ticket,
  the send that may wait for room, the receive, an attempt with its outcome, giving
  up, completing. Waiting between retries is not a step, as it only passes time.
* **`JetstreamConsumer`** composes the watermark with the session: how a connection's cursor
  is chosen, every refusal (`handle_rejection`), info frames, the drain at a session's end,
  `flush`, and the saved row. The server (events, retention, renumbering, archive)
  is external and is modelled by the answers the code handles. A *scenario* fixes the
  settings and how many faults of each kind a behaviour may have.
* **`RecordStore`** gives the store's statements as operators on one account's rows and
  tombstones. **`RecordTombstones`** makes their transactions steps: `delete_network` finds,
  then deletes; a purge selects and deletes batch by batch; on Postgres local writers
  run between, on SQLite one write transaction excludes the others.
* **`AccountReplay`** composes the same operators into the way one account's history
  arrives: a live stream, a replay job (commit sweep, then marker sweep, each with a tip
  fixed at its first plan, entries folded into a buffer that is flushed when it is full, before a
  delete of what it holds, and at the end of every entry, the cursor saved after that last flush), and
  a crawl whose page has no revs. A live delete asks for
  running jobs in a step of its own, before its transaction, as in `apply_local`. A restart of
  the process takes the stream back to its saved cursor; the one restart left out is that before anything was saved
  since the gap, when the consumer asks for the gap again (`consumer_reused_replay`).
* **`JobQueue`** has one action per database statement of `src/jobs/db.rs`. A run keeps what it
  claimed under; a handler keeps the status it read; a sweep keeps the time it
  compares leases with. Owners are processes, so a worker of the same process can
  hold the same job again.

* **`RecordUpgrade`** is `run_on`. Each transaction and each read outside one is a step, so a boot
  holds a batch, or a look for the legacy tables, that another boot has since made stale.
  A batch ends at any later row, which covers every batch size. Old instances write the
  legacy tables, instances that are done write the compact ones; `truth` is the history
  of what was acknowledged, `disturbed` of an old write or a reset.
* **`SpaceWrites`** has a task per request: admitted (its rev minted), begun (the space locked), one
  step per op of its batch, committed (fold, oplog, writer list), notifying. It may be
  refused or abandoned at each. A `notifyWrite` report is such a task too, from any author, with or without a
  rev and a record: it is recorded under the space's lock, forwarded and, if it names a record,
  announced after the lock is released. A set hash is the bag of `<<key, cid>>` it folds, so the
  hash of commit_write is checked against the records it should describe. A syncer hears
  updates, loses some, and pages through `listRepos` when an update does not follow the last
  one it saw. **`SpaceWebhooks`** is the webhook worker with its channel; **`DeliveryQueue`** is what
  it promises: a bounded queue, delivered in the order the batches were announced, and once, unless its
  worker dies. That this is the order they were committed is not promised: see the disagreements below.
* **`NativeRepo`** is one author's repo: the runs of its migration jobs with their leases (every login
  enqueues one, so there may be several at once), the pulls, a
  client's write, and the PDS as the log it answers from (external). `set_mode` and `hand_off`
  read a row and write it back whole, in two steps. The history variable `mishaps` says
  which of eight things have happened (a write forked, a stale row written, two pulls at
  once, two runs at once, a run without its lease, a crash, a run that failed before it saw the mode, one that
  made the repo native and did not hear of it);
  a property names the ones under which the code does not keep it.

Definitions introduced by "A form that ...", "A form where ..." or "A form of ..." are variants of the definition after them. They
are not used by any specification; they record the mistakes that the properties
are known to catch (`mutants` in `PROJECT.json`).

## Runs

`tlc -config <cfg> <module>` in this directory; every bound is a named constant or a
field of a scenario.

| Run | Configuration | Checks | Instance, and why it is enough |
|---|---|---|---|
| `watermark_handle` | `MCWatermarkHandle.cfg` | the handle implements `AppliedPrefix`, so the watermark is the end of the finished prefix; a drain ends | 4 tickets, 2 completers: two finished tickets can wait behind an unfinished one while another begins |
| `worker_pool` | `MCWorkerPool.cfg` | one account's events never race; nothing retires unsettled; exact depth counters; every ticket retires | 3 accounts on 2 workers with channels of 1: two accounts share a worker, and the reader has to wait for room; 1 retry, 1 outage, 1 stopped worker |
| `consumer` | `MCJetstreamConsumer.cfg` | no restart or reconnect loses an event outside a noticed gap; no stale seq is saved; every owed event gets behind the saved cursor or into a gap | 6 scenarios of 2 or 3 new events, 2 in flight and one to three faults of each of several kinds |
| `consumer_reused_replay` | `MCJetstreamReusedReplay.cfg` | *violated*: `StreamSkipsNothing` | finding 1 |
| `tombstones_sqlite` | `MCRecordTombstones.cfg` | tombstones exclude older rows; purges and deletes are final | 2 records, 2 bodies, 2 revs, batches of 1: equal, older, newer and missing revs all meet, and a purge takes two batches. The records and bodies are symmetric |
| `job_queue` | `MCJobQueue.cfg` | one holder; bounded losses; only the latest run writes; ends are final; jobs settle | 1 job, 2 workers, 2 handlers, 2 instances: jobs share nothing but workers, so contention for one job is the case that matters |
| `replay_settles` | `MCAccountReplay.cfg` | once all is applied nothing is resurrected, stale or lost; runs end, for an archive that has stopped growing | 9 scenarios of up to 4 events (1 record) or 3 (2 records), entries and buffers of 2: an entry boundary, a full buffer and a delete of a buffered record all occur |
| `record_upgrade` | `MCRecordUpgrade.cfg` | nothing acknowledged is lost; only an old write or a reset spoils a copy; boots that are started again finish | 2 boots, 2 uris, 2 contents, 2 passes; serialised or not, with an old write, a write of an instance that is done, a stop and a failed swap: a batch boundary, a stale batch and a stale look all occur |
| `space_writes` | `MCSpaceWrites.cfg` | commits describe records; the oplog explains the commit; a syncer knows what it passed and gets to the end; webhooks are one queue | 1 author hosted here and 1 elsewhere, 2 requests at once, 2 records, pages and channel of 1; 5 scenarios: up to three requests of which two race, a batch that fails half-way, reports of any author that race, come out of order, from the future or without a rev, lost updates, dropped requests, a worker that dies |
| `space_stale_rev` | `MCSpaceStaleRev.cfg` | *violated*: `SyncerCatchesUp` | finding 2 |
| `native_repo` | `MCNativeRepo.cfg` | a native repo has a cursor and, while runs come one after another and are answered, stays native; no op is skipped; the index follows the PDS; no repo stays between its hosts | 2 records, 2 runs, of one job or of two, 2 pulls; 7 scenarios with failed calls, lost answers, crashes, stops, takeovers, two jobs at once and writes here and on the PDS: a migration can fail, resume and be taken over at each step |
| `native_two_pulls` | `MCNativeTwoPulls.cfg` | *violated*: `CursorRecordsApplied` | finding 3 |

Deadlock is checked where the system never stops (`watermark_handle`, `tombstones_sqlite`). The
other models stop when their bounds are used up; whether work then remains is what
the liveness properties ask.

`TypeOK` is checked by TLC in `replay_settles` and `native_repo`, where it also says how a run's place, its
buffer and its lease belong together, and proved in the modules that have proofs
(in `WorkerPoolProofs` and `JetstreamConsumerProofs` as a part of the invariant).

The scenarios of `replay_settles` leave out two of the disagreements below:
deletes of records the instance does not hold before or between runs of a job, and
records repeated unchanged over a replayed delete or #sync. Its properties excuse what
the documentation accepts: a crawled row, which has no rev, until its newest version is
stored with one; a record purged by an account event, which comes back only through a
new backfill; and events between the archive's tip and a first connection, which
nothing delivers.

### Fairness

Only what the code's scheduling gives. Tokio keeps polling ready tasks, so workers, the
reader, a job's run and a crawl go on (weak fairness of their steps). A database outage
ends, because workers retry through it without limit. The server answers connection
attempts, since a session is retried for ever with a capped delay. Leases run out when
nobody renews them, because they are times. Job code returns: the queue has no
deadline, so nothing weaker gives `JobsSettle`. Faults, operators and the account's own
events are never fair. A boot that stopped is started again (`UpgradeEnds`); a request's task and
the webhook worker run on, a syncer keeps polling `listRepos`; a migration run goes on, and
the native sweep comes round every five minutes. None of the faults of these is fair
either, and a paused or failed replay need never be resumed
(`RunsEnd` asks for the end of a run, not of a job).

## Proofs

`tlapm <module>`. Each theorem holds for every value of the constants that satisfies the
named `ASSUME`s of the component's module: any number of workers, tickets, records,
revs, purgers, instances, jobs, boots, authors, requests, runs and pulls, any collections,
fault budgets and number of stream events. `MaxEvents`, the bound on the stream's length in
`JetstreamConsumer`, has to be positive there because a stream starts with one event.

* **`WatermarkHandleProofs`**: `WatermarkSafe` (the applied point ends the finished prefix), and `Refinement` (the handle implements `AppliedPrefix`). The
  watermark's own statement is not inductive: it says nothing of the slots.
  `IInv` adds that each slot is its ticket's point and mark, that the first slot is never
  finished, and that the applied point is the last retired ticket's. The work is in
  `CompleteRetiresARun`, which says what the popping loop does for any slots; a ticket is
  retired exactly when it and all before it are finished.
* **`RecordTombstonesProofs`**: on both databases `TombstoneSafe`, `PurgeSafe`, `NothingSupersededIsStored` and
  `RevsOnlyGrow`; on SQLite also `SqliteDeletesAreFinal`, which needs `ReadsAreCurrent`:
  what an open transaction read still holds at its commit. `IInv` relates rows to tombstones
  (including rows a local delete of a found row may leave behind), says that a short
  batch took all there was, and keeps what a finished purge vouches for. Each store
  operator has one lemma saying what it leaves; the steps use only those.
* **`JobQueueProofs`**: `OneHolderHolds`, `LossesBounded`, `OnlyTheLatestRunWrites`, `EndsAreFinal`. `IInv` adds that no two runs of one job
  have the same attempt, and none a later one than the row; that what a sweep found expired
  has no live lease, and that its last statement only meets rows its third one spared;
  and that no request, however stale, starts from an end or makes a job run. `RowStep` reduces a statement on one row to facts about that row.

* **`RecordUpgradeProofs`**: `NothingIsLost` and `OnlyUpgradedServe` from `Held`: while the legacy tables are there
  they are the truth, and once they are gone the compact ones are; what a boot still holds
  in memory does not matter, because every write looks again inside its transaction. `UndisturbedCopyVerifies`
  needs `Undisturbed`, which gives each of a boot's steps what lies behind its position, saved or
  in memory: all of it copied.
* **`SpaceWritesProofs`**: `CommitsDescribeRecords` from `FoldInv` (one transaction at a time, whose running fold is that of
  the rows as it has changed them; `FoldStep` is the algebra of one op). `OplogsExplainCommits` counts, for any log, the ops
  that add a record version and those that remove it, and needs that a transaction's ops are
  already those of its running fold. `SyncersKnowWhatTheyPassed` from `SyncInv` (no writer's last update lies between an update and the one
  before it, and the syncer has seen nothing that was not recorded). A report is a task like a write, so `ReportOutcome` and `RecordedSyncs` say once what recording
  an update leaves, whoever sent it. `WebhooksQueueInOrder`, the refinement of `DeliveryQueue`'s initial states and steps, from `QueueInv` (a worker that is
  gone left an empty channel, and one that runs is the one the map leads to).
* **`WorkerPoolProofs`**: `DidsKeepOrder`, `RetiredAreSettled`, `DepthsCountQueues` and `PoolDropsNothing`. What is stated of attempts and
  retirements rests on where the tickets are: each worker's hand holds the first unsettled ticket of its accounts, its channel
  the later ones in order, and the reader the last one begun. `WatermarkHandle`'s lemmas are not reused: the pool only needs that
  a slot marked done is a settled ticket's.
* **`NativeRepoProofs`**: `NativeReposHaveCursors`, `NothingIsSkipped` and the action property `NativeReposStay`. Each conjunct of
  `IInv` holds as long as some of the mishaps have not happened: `OneRun` (one run goes at a time), `Pointed` (the cursor
  is written before the mode), `MovedOnce` (runs leave a native repo alone, pulls one that is not), and `Follows`,
  which says of every step of a run or a pull what its contents have to do with the PDS: `Reaches(log, contents, rev)`, that where
  they differ an op after `rev` tells why. `ReachesKept` is the one fact about the log all steps use: an op the PDS takes
  never makes a difference unseen. `RunMoves`, `PullMoves` and `ClientMoves` reduce a step to facts about the one place it changes.

* **`JetstreamConsumerProofs`**: `SavedCursorIsSafe`, `StreamSkipsNoEvent` and the action property `SavedSeqsAreCurrent`.
  `IInv` holds in every scenario: types, `Shape` (what mode, session, connection and saved row have to do with each other),
  `Numbered` (a seq in the process or the database names its event, in the server's numbering or the one before it),
  `Positioned` (where a stream may stand) and `Recent` (what may be saved after the consumer was told of a renumbering). `SavedSeqsAreCurrent`
  needs no more. The other two say that nothing was lost, which no statement about the cursor alone keeps: `Lossless` adds, for each
  place an event number is kept, what all owed events up to it are (`Safe`): accounted for if it can be saved, at least in a
  worker's hands if it was dispatched, at least in a pending gap if the stream passed it. `JobsReach` ties a replay job to the sealed
  tip and `DrainsSettle` says that a session which may be followed by a new collection ends with everything saved. Before the first
  save nothing is owed yet, so `Lossless` speaks of some event `o` from which this instance follows the stream. One lemma per
  group of actions (`ConnectSteps`, `ReadSteps`, `FinishSteps`, `SaveSteps`, `ProcessSteps`, `ServerSteps`) carries it over a step.

  Both are stated for the scenarios that are `Sound`; all scenarios of the run `consumer` are. TLC finds a loss when one of these
  is dropped: a first start on v1 or `auto` (before the first save a v1 session has nowhere to resume from), two sealed tips with
  gap replay (finding 1), and a collection tracked where a drain may time out or its flush fail. Two more exclusions are limits of
  this invariant, with no loss known of the code (TLC found none on instances of up to four million states): a collection tracked before the
  first save, and gap replay together with a change of host.

Only model-checked: every liveness property (TLAPS has no `ENABLED`), and the safety of `AccountReplay`. Its properties compare the
store with the whole history once all ways of delivery are done, and hold for the histories that leave out the disagreements listed
below. A proof needs those histories described by a condition, as `Sound` does for the stream, and an invariant that says at each step of
the stream, the sweeps and the crawl which entries are still to come for a record; neither has been written.

## Findings

Each has a run that shows it.

1. **A reused gap replay leaves a hole** (`J/backfill/replay.rs:1010`). A second refusal of the
   same seq reuses the open job, whose tip is fixed, and resumes at the archive's
   present tip.
2. **A commit that syncers never hear of** (`src/spaces/service.rs:698`). A write's rev is minted before
   the write waits for the space. Of two requests of one author, the one that commits last
   may have the smaller rev; `writers::record` takes it for stale, and `listRepos` keeps the hash of
   the commit before until the author writes again.
3. **Two pulls of one repo** (`src/spaces/native_sync.rs:94`). Nothing serialises a notifyWrite request
   and the sweep. The one that listed first may apply an old version after the other has
   moved the cursor past the new one. No later pull sees that op again: the index stays behind until the record
   is written again. A pull with nothing new reports that all is up to date; one that lists ops of other
   records finds that the index has diverged and moves no cursor.

### Other disagreements met

The models have these too, but the runs' scenarios leave them out or their properties excuse them, and
none has a run of its own. Where a constant is named, setting it in the configuration shows it.

* A ticket that outlives a drain's timeout retires under a new filter and saves a point past
  events of a collection tracked meanwhile (`J/consumer/mod.rs:581`; `TrackInFlightScenarios`, `SavedCursorSafe`).
* On Postgres a local delete commits between the find and the DELETE of `delete_network`, which then
  leaves no tombstone (`src/record_store/mod.rs:858`; `Postgres = TRUE`, `DeleteLeavesTombstone`), and a purge deletes
  by id a row that has become a local write since it was selected (`src/tombstones.rs:398`; no property states it: on SQLite nothing
  runs between the two).
* A delete of a record that is not held leaves no tombstone; a replay whose tip is older creates
  the record for good (`src/record_store/mod.rs:862`; `UnheldDeleteScenarios`, `NothingResurrected`).
* The creates after a #sync find identical rows and leave their old revs; a replay of
  the #sync removes them (`src/record_store/mod.rs:421`; `ResyncInGapScenarios`, `NothingLost`).
* Two boots that nothing serialises (SQLite) may reset the copy under each other for ever;
  `UpgradeEnds` excuses it.
* `set_mode` writes back a row it read without the space's lock: a client's commit in between
  loses its rev and hash ("torn" in `NativeRepo`), which no property excludes. A write taken here after a run listed the
  records is not sent to the PDS ("fork"). `failed` returns the repo to polyfill
  whatever mode it finds, against "a repo already moved must not be moved again" (`src/jobs/native/migrate_space_repo.rs:194`): a run
  that fails before it reads the mode ("blind"), one whose last update took effect though its answer was lost
  ("unanswered"), and a second job's run beside the one that succeeds ("twice") all take a native repo back. `NativeStays` names
  these, so it says what is left of the comment. A repo may stay `migrating` after a crash
  whose job is then cancelled, skipped at the consent gate or out of leases, and
  `list_polyfill_repos_for_author` enqueues polyfill repos only; `MigrationEnds` excuses crashes.

* Webhooks may hear of two writes in another order than they were committed: a request announces its
  batch after it has released the space (`src/spaces/service.rs:624`), where `src/spaces/notifications.rs:246` speaks of "the order
  they committed". `WebhooksAreOneQueue` states the order of announcement only.

## What the models leave out

Most of the repository by size. The definitions stand for about 6,800 lines of some
thirty files, in a code base of 300,000 lines of Rust (tests included); the parts marked
planned or not modelled above are the rest.

Clocks agree between Jetstream and PDSes, and a tombstone may be swept at any time
(`RecordTombstones`) or not at all (`AccountReplay`). Record scripts keep every record. External
storage of claimed collections, compression, hooks, labels, references, event logs and
counters other than the pool's depth are not state of any model. In `AccountReplay` a
purge or a delete is one step (its interleavings are `RecordTombstones`'), the archive loses no
blocks, its history is finite (so a tip that moves away from a sweep for ever cannot be shown: `RunsEnd` is about
the end of each sweep's range), marker sweeps start where the job does, and jobs are not cancelled.

`RecordUpgrade`: busy retries, the SQL of the compatibility views, and a source's refs one by one.
`SpaceWrites`: one space and one syncer, one clock; two tids never collide; `getRepo`, `swapCommit`, and the rebuild
of writer hashes at boot are left out. `NativeRepo`: one repo, replayed one record at a time; a
commit that does not verify is a failed call; a hash is what it describes; the PDS refuses to
create what it has, as HappyView's own host does. The writer list of an adopted commit is
`SpaceWrites`'.

Hazards of this code that no module reaches yet: a retry of a dead letter after its record's
tombstone was swept (`src/admin/dead_letters.rs:889`), a backfill cancelled while it is resumed
(`J/backfill/mod.rs:576`), failed blocks of a replay (`J/backfill/replay.rs:627`), and events the v1
protocol drops unseen (`J/consumer/apply.rs:90`).

Out of a model's reach, or with nothing to check in one: scripts and plugins run arbitrary guest
code; lexicon, scope and NSID code is pure work on strings; identity, XRPC and the dashboard are
I/O; admin CRUD is one statement per request.

## Plan

1. Failed blocks of a replay and their retry jobs, the marker tail and the fall-back to a
   crawl, in `AccountReplay`; the backfill jobs' status machine.
2. Dead letters next to the store and its sweep.
3. Proofs about the store in `AccountReplay`; `JetstreamConsumer`'s for tracking before the first save and for gap replay
   over a change of host.
4. The refresh lock of OAuth sessions, the re-seal job, the labeler's cursor.
