--------------------------- MODULE AccountReplay ---------------------------
(***************************************************************************)
(* One account's history reaching the index by several ways at once: the     *)
(* live stream, a replay job that folds the archive's copy of it, and a crawl *)
(* of the account's PDS (src/ingest.rs; backfill/replay.rs, replay_fold.rs   *)
(* and crawl.rs of the Jetstream source).                                   *)
(*                                                                         *)
(* `history` is what the relay saw of the account, commits and markers. An    *)
(* event's place in it is its seq, its rev and its witnessed time at once:    *)
(* clocks agree. The store is RecordStore's; how writers of one account        *)
(* interleave inside a purge or a delete is RecordTombstones' subject, so a     *)
(* purge is one step here. Record scripts keep every record.                *)
(***************************************************************************)
EXTENDS RecordStore, Sequences, FiniteSets, FiniteSetsExt, SequencesExt

CONSTANTS
    MaxEvents,  \* bound: events of the account, over all scenarios
    EntrySize,  \* events per entry of an archive plan (a segment, or its blocks)
    FoldBatch,  \* FOLD_BATCH
    Scenarios   \* what one behaviour may have: kinds of events, keys, bounds on events,
                \* jobs and faults

VARIABLES
    history,  \* the account's events
    sealed,   \* the archive's sealed tip
    began,    \* where the live stream began: the tip, at a first connection
    live,     \* how far the live stream is applied
    asked,    \* what a live delete read of the running backfills, or "unread"
    store,    \* the account's rows and tombstones
    job,      \* the replay job's row and its current sweep's row: see NewJob
    fold,     \* the run's place in its entry and its buffered writes
    crawl,    \* the crawl job's state, and the page it has read
    crawled,  \* history: keys a crawled page wrote, until their newest version is stored
    left      \* the scenario, with what is left of each bound

vars == <<history, sealed, began, live, asked, store, job, fold, crawl, crawled, left>>

CommitKinds == {"put", "delete"}
MarkerKinds == {"takedown", "deleted", "moved", "active", "sync"}
Kinds == CommitKinds \cup MarkerKinds
Budgets == {"late", "gap", "replay", "crawl", "crash", "pause", "fail"}

\* "again": a record may be written with a body it had before.
ASSUME ReplayAssumption ==
    /\ MaxEvents \in Nat /\ EntrySize \in Nat \ {0} /\ FoldBatch \in Nat \ {0}
    /\ Bodies = 1..MaxEvents
    /\ \A s \in Scenarios :
         /\ s.kinds \subseteq Kinds \cup {"again"} /\ s.keys \subseteq Keys
         /\ s.events \in 0..MaxEvents /\ s.budget \in [Budgets -> Nat]

Event(kind, k, body) == [kind |-> kind, key |-> k, body |-> body]
Marker(kind) == [kind |-> kind]

Spend(kind) == left.budget[kind] > 0 /\ left' = [left EXCEPT !.budget[kind] = @ - 1]

-----------------------------------------------------------------------------
(* The account *)

\* The last event of `kinds`; 0 if there is none.
LastOf(kinds) == Max({0} \cup {i \in 1..Len(history) : history[i].kind \in kinds})

\* The last event that decides what the repo holds at k.
Latest(k) ==
    Max({0} \cup {i \in 1..Len(history) :
          \/ history[i].kind \in CommitKinds /\ history[i].key = k
          \/ history[i].kind \in {"deleted", "sync"}})

\* The repo's record at k, or None.
Current(k) ==
    IF Latest(k) > 0 /\ history[Latest(k)].kind = "put" THEN history[Latest(k)].body ELSE None

Deleted == LastOf({"deleted"}) > 0
Active == ~Deleted /\ LastOf({"takedown"}) <= LastOf({"active"})

Emit(events) ==
    /\ Len(history) + Len(events) <= left.events
    /\ \A i \in DOMAIN events : events[i].kind \in left.kinds
    /\ history' = history \o events
    /\ UNCHANGED <<sealed, began, live, asked, store, job, fold, crawl, crawled, left>>

\* Bodies k has had.
Had(k) ==
    {history[i].body : i \in {j \in 1..Len(history) : history[j].kind = "put" /\ history[j].key = k}}

NewBody(k) == 1 + Max({0} \cup Had(k))

RepoPut(k) ==
    /\ Active
    /\ \E body \in {NewBody(k)} \cup (IF "again" \in left.kinds THEN Had(k) ELSE {}) :
         /\ body # Current(k)
         /\ Emit(<<Event("put", k, body)>>)

RepoDelete(k) ==
    /\ Active /\ Current(k) # None
    /\ Emit(<<Event("delete", k, None)>>)

\* A takedown or suspension, a reinstatement, the account's end, and a deletion
\* that a host the account has left still reports.
TakeDown == Active /\ Emit(<<Marker("takedown")>>)
Reinstate == ~Active /\ ~Deleted /\ Emit(<<Marker("active")>>)
DeleteAccount == ~Deleted /\ Emit(<<Marker("deleted")>>)
OldHostDeletes == Active /\ Emit(<<Marker("moved")>>)

\* #sync, and the records the repo still has, as creates.
Resync(kept) ==
    /\ Active
    /\ \A k \in kept : Current(k) # None
    /\ LET keys == SetToSeq(kept) IN
       Emit(<<Marker("sync")>>
            \o [i \in 1..Len(keys) |-> Event("put", keys[i], Current(keys[i]))])

Seal ==
    /\ sealed < Len(history)
    /\ sealed' = sealed + 1
    /\ UNCHANGED <<history, began, live, asked, store, job, fold, crawl, crawled, left>>

Account ==
    \/ \E k \in left.keys : RepoPut(k) \/ RepoDelete(k)
    \/ TakeDown \/ Reinstate \/ DeleteAccount \/ OldHostDeletes
    \/ \E kept \in SUBSET left.keys : Resync(kept)

-----------------------------------------------------------------------------
(* The ingest pipeline *)

Purged(s, before) == WithoutRows(s, Held(s, before))

\* A form that takes a replayed marker for a live one.
MarkerAppliedNow(s, i, before) ==
    LET purged == Purged(WriteDidTombstone(s, i), None) IN
    CASE history[i].kind = "takedown" -> {purged}
      [] history[i].kind \in {"deleted", "moved"} ->
           IF Held(s, None) # {} /\ ~Deleted THEN {s, purged} ELSE {purged}
      [] history[i].kind = "active" -> {LiftDidTombstone(s, None)}
      [] history[i].kind = "sync" -> {Purged(s, None)}

\* What applying marker i leaves; `before` is None for a live marker, and i for a
\* replayed one, which acts as of its own time. A deletion of an account with
\* records asks its PDS first, which may not answer.
MarkerApplied(s, i, before) ==
    LET purged == Purged(WriteDidTombstone(s, i), before) IN
    CASE history[i].kind = "takedown" -> {purged}
      [] history[i].kind \in {"deleted", "moved"} ->
           IF Held(s, None) # {} /\ ~Deleted THEN {s, purged} ELSE {purged}
      [] history[i].kind = "active" -> {LiftDidTombstone(s, before)}
      [] history[i].kind = "sync" -> {Purged(s, before)}

\* The writes of the puts at `places`, each key's last copy.
WritesOf(places) ==
    [k \in {history[i].key : i \in places} |->
        LET i == Max({j \in places : history[j].key = k}) IN
        [body |-> history[i].body, cid |-> history[i].body, rev |-> i]]

\* Keys whose newest version is at one of `places`, and is stored with its rev.
Renewed(s, places) ==
    {k \in Keys : Latest(k) \in places /\ s.rows[k] # NoRow /\ s.rows[k].rev = Latest(k)}

\* The first connection has no cursor and starts at the live tip.
FirstConnect ==
    /\ live = 0 /\ asked = "unread"
    /\ job.status = "none" /\ crawl.state = "idle"
    /\ Spend("late")
    /\ live' = Len(history) /\ began' = live'
    /\ UNCHANGED <<history, sealed, asked, store, job, fold, crawl, crawled>>

\* RunningJobs::covers: a run is in the set until it returns.
InRun == job.status \in {"running", "pausing"}
Covered == InRun \/ crawl.state # "idle"

\* A form that leaves the running jobs out.
LiveDeleteAsksNone ==
    /\ live < Len(history) /\ history[live + 1].kind = "delete"
    /\ asked = "unread"
    /\ asked' = "none"
    /\ UNCHANGED <<history, sealed, began, live, store, job, fold, crawl, crawled, left>>

\* A live delete asks for running backfills before its transaction.
LiveDeleteAsks ==
    /\ live < Len(history) /\ history[live + 1].kind = "delete"
    /\ asked = "unread"
    /\ asked' = IF Covered THEN "running" ELSE "none"
    /\ UNCHANGED <<history, sealed, began, live, store, job, fold, crawl, crawled, left>>

\* The account's worker applies the next event of the live stream.
LiveApply ==
    /\ live < Len(history)
    /\ LET i == live + 1
           e == history[i]
       IN  \/ /\ e.kind = "put"
              /\ store' = WriteNetwork(store, WritesOf({i}))
              /\ crawled' = crawled \ Renewed(store', {i})
           \/ /\ e.kind = "delete" /\ asked # "unread"
              /\ store' = DeleteNetwork(store, e.key, i, asked = "running")
              /\ UNCHANGED crawled
           \/ /\ e.kind \in MarkerKinds
              /\ store' \in MarkerApplied(store, i, None)
              /\ UNCHANGED crawled
    /\ live' = live + 1
    /\ asked' = "unread"
    /\ UNCHANGED <<history, sealed, began, job, fold, crawl, left>>

-----------------------------------------------------------------------------
(* The replay job: a commit sweep, then a marker sweep if the account holds     *)
(* records. Each sweep fixes its own tip when it first plans.                  *)

Unplanned == -1

\* resumed: where the live stream went on (0, or a gap's tip); reach: the commit
\* sweep's tip.
NewJob(after, resumed) ==
    [status |-> "running", after |-> after, resumed |-> resumed,
     sweep |-> "commits", cursor |-> after, tip |-> Unplanned,
     reach |-> 0]

NoJob == [NewJob(0, 0) EXCEPT !.status = "none"]

\* flushed: the entry is folded and its buffer flushed, and its end is not saved yet.
FoldAt(i) == [at |-> i, pending |-> {}, flushed |-> FALSE]

\* start_backfill, for the whole network and range
StartReplay ==
    /\ job.status = "none"
    /\ Spend("replay")
    /\ job' = NewJob(0, 0)
    /\ fold' = FoldAt(0)
    /\ UNCHANGED <<history, sealed, began, live, asked, store, crawl, crawled>>

\* start_gap_replay: the stream goes on at the tip, the job fills in the rest.
StartGapReplay ==
    /\ job.status = "none" /\ asked = "unread"
    /\ live < sealed
    /\ Spend("gap")
    /\ job' = NewJob(live, sealed)
    /\ fold' = FoldAt(live)
    /\ live' = sealed
    /\ UNCHANGED <<history, sealed, began, asked, store, crawl, crawled>>

\* The first plan of a sweep fixes its tip, and saves it.
PlanSweep ==
    /\ job.status = "running" /\ job.sweep \in {"commits", "markers"}
    /\ job.tip = Unplanned
    /\ job' = [job EXCEPT !.tip = sealed, !.reach = IF job.sweep = "commits" THEN sealed ELSE @]
    /\ UNCHANGED <<history, sealed, began, live, asked, store, fold, crawl, crawled, left>>

EntryEnd == Min({job.cursor + EntrySize, job.tip})

Folding == InRun /\ job.sweep \in {"commits", "markers"} /\ job.tip # Unplanned

\* RowFilter::keep
Kept(i) == history[i].kind \in (IF job.sweep = "commits" THEN CommitKinds ELSE MarkerKinds)

\* The buffer is full, or a delete of a buffered record is next.
MustFlush ==
    /\ fold.pending # {}
    /\ \/ Cardinality(fold.pending) >= FoldBatch
       \/ /\ fold.at < EntryEnd /\ history[fold.at + 1].kind = "delete"
          /\ \E i \in fold.pending : history[i].key = history[fold.at + 1].key

\* ReplayFold::flush
WriteBuffer ==
    /\ store' = WriteNetwork(store, WritesOf(fold.pending))
    /\ crawled' = crawled \ Renewed(store', fold.pending)

Flush ==
    /\ Folding /\ MustFlush
    /\ WriteBuffer
    /\ fold' = FoldAt(fold.at)
    /\ UNCHANGED <<history, sealed, began, live, asked, job, crawl, left>>

\* ReplayFold::apply. A stop is only looked for between entries.
FoldNext ==
    /\ Folding /\ ~MustFlush
    /\ fold.at < EntryEnd
    /\ fold.at = job.cursor => job.status = "running"
    /\ LET i == fold.at + 1
           e == history[i]
       IN  \/ /\ ~Kept(i)
              /\ fold' = [fold EXCEPT !.at = i]
              /\ UNCHANGED store
           \/ /\ Kept(i) /\ e.kind = "put"
              /\ fold' = [fold EXCEPT !.at = i, !.pending = @ \cup {i}]
              /\ UNCHANGED store
           \/ /\ Kept(i) /\ e.kind = "delete"
              /\ store' = DeleteNetwork(store, e.key, i, TRUE)
              /\ fold' = [fold EXCEPT !.at = i]
           \/ /\ Kept(i) /\ e.kind \in MarkerKinds
              /\ store' \in MarkerApplied(store, i, i)
              /\ fold' = [fold EXCEPT !.at = i]
    /\ UNCHANGED <<history, sealed, began, live, asked, job, crawl, crawled, left>>

EntryFolded == Folding /\ fold.at = EntryEnd /\ fold.at > job.cursor /\ ~fold.flushed

\* A form that leaves the buffer to the next entry.
EndEntryUnflushed ==
    /\ EntryFolded
    /\ fold' = [fold EXCEPT !.flushed = TRUE]
    /\ UNCHANGED <<history, sealed, began, live, asked, store, job, crawl, crawled, left>>

\* The entry is folded: what is still buffered is flushed, and then its end is saved.
EndEntry ==
    /\ EntryFolded
    /\ WriteBuffer
    /\ fold' = [FoldAt(fold.at) EXCEPT !.flushed = TRUE]
    /\ UNCHANGED <<history, sealed, began, live, asked, job, crawl, left>>

SaveEntry ==
    /\ Folding /\ fold.flushed
    /\ job' = [job EXCEPT !.cursor = fold.at]
    /\ fold' = [fold EXCEPT !.flushed = FALSE]
    /\ UNCHANGED <<history, sealed, began, live, asked, store, crawl, crawled, left>>

\* A form where a sweep ends past its tip, which no plan goes beyond.
EndSweepPastTip ==
    /\ Folding /\ fold.at = job.cursor
    /\ job.cursor > job.tip
    /\ job' = [job EXCEPT !.sweep = IF job.sweep = "commits" THEN "list" ELSE "end"]
    /\ UNCHANGED <<history, sealed, began, live, asked, store, fold, crawl, crawled, left>>

\* The commit sweep's rows are in; the account's markers are swept only if it
\* holds records by then.
EndSweep ==
    /\ Folding /\ fold.at = job.cursor
    /\ job.cursor >= job.tip
    /\ job' = [job EXCEPT !.sweep = IF job.sweep = "commits" THEN "list" ELSE "end"]
    /\ UNCHANGED <<history, sealed, began, live, asked, store, fold, crawl, crawled, left>>

ListHeld ==
    /\ InRun /\ job.sweep = "list"
    /\ IF Held(store, None) = {}
       THEN job' = [job EXCEPT !.sweep = "end"] /\ UNCHANGED fold
       ELSE /\ job' = [job EXCEPT !.sweep = "markers", !.cursor = job.after, !.tip = Unplanned]
            /\ fold' = [fold EXCEPT !.at = job.after]
    /\ UNCHANGED <<history, sealed, began, live, asked, store, crawl, crawled, left>>

\* However a run ends, it flushes what it has buffered first.

\* complete_job, whatever the status has become
CompleteJob ==
    /\ InRun /\ job.sweep = "end"
    /\ WriteBuffer
    /\ job' = [job EXCEPT !.status = "completed"]
    /\ UNCHANGED <<history, sealed, began, live, asked, fold, crawl, left>>

\* The run stops between two entries, or before a sweep's first plan.
StopRun ==
    /\ job.status = "pausing" /\ job.sweep \in {"commits", "markers"}
    /\ fold.at = job.cursor
    /\ WriteBuffer
    /\ job' = [job EXCEPT !.status = "paused"]
    /\ UNCHANGED <<history, sealed, began, live, asked, fold, crawl, left>>

\* Too many blocks in a row, or a write, failed, and the flush may fail too.
FailRun ==
    /\ Folding
    /\ Spend("fail")
    /\ store' \in {store, WriteNetwork(store, WritesOf(fold.pending))}
    /\ job' = [job EXCEPT !.status = "failed"]
    /\ UNCHANGED <<history, sealed, began, live, asked, fold, crawl, crawled>>

RequestPause ==
    /\ job.status = "running"
    /\ Spend("pause")
    /\ job' = [job EXCEPT !.status = "pausing"]
    /\ UNCHANGED <<history, sealed, began, live, asked, store, fold, crawl, crawled>>

\* resume_backfill: a new run from the saved cursor
ResumeJob ==
    /\ job.status \in {"paused", "failed"}
    /\ job' = [job EXCEPT !.status = "running"]
    /\ fold' = FoldAt(job.cursor)
    /\ UNCHANGED <<history, sealed, began, live, asked, store, crawl, crawled, left>>

ReplayStep ==
    \/ PlanSweep \/ Flush \/ FoldNext \/ EndEntry \/ SaveEntry \/ EndSweep \/ ListHeld
    \/ CompleteJob \/ StopRun

-----------------------------------------------------------------------------
(* The crawl, and the process *)

NoPage == [k \in Keys |-> None]

StartCrawl ==
    /\ crawl.state = "idle"
    /\ Spend("crawl")
    /\ crawl' = [state |-> "reading", page |-> NoPage]
    /\ UNCHANGED <<history, sealed, began, live, asked, store, job, fold, crawled>>

\* A page of listRecords; a deleted account has none.
CrawlRead ==
    /\ crawl.state = "reading"
    /\ crawl' = [state |-> "writing", page |-> [k \in Keys |-> Current(k)]]
    /\ UNCHANGED <<history, sealed, began, live, asked, store, job, fold, crawled, left>>

\* The page is written, without revs, and the crawl ends.
CrawlWrite ==
    /\ crawl.state = "writing"
    /\ LET listed == {k \in Keys : crawl.page[k] # None} IN
       /\ store' = WriteNetwork(store, [k \in listed |->
                      [body |-> crawl.page[k], cid |-> crawl.page[k], rev |-> None]])
       /\ crawled' = crawled \cup listed
    /\ crawl' = [state |-> "idle", page |-> NoPage]
    /\ UNCHANGED <<history, sealed, began, live, asked, job, fold, left>>

\* The process restarts: the stream goes on from a saved cursor, unsaved work of
\* the jobs is lost, and resume_backfill_jobs runs before the consumer starts. The
\* saved cursor is taken to be at or past the tip the stream went on from: a restart
\* with nothing saved since, which meets the same gap again and is given the job that
\* is still running, is JetstreamConsumer's (CursorTooOldReplayed, and the run
\* consumer_reused_replay).
Crash ==
    /\ Spend("crash")
    /\ live' \in Min({live, Max({job.resumed, began})})..live
    /\ asked' = "unread"
    /\ job' = [job EXCEPT !.status = IF @ = "pausing" THEN "paused" ELSE @]
    /\ fold' = FoldAt(job.cursor)
    /\ crawl' = [state |-> IF crawl.state = "idle" THEN "idle" ELSE "reading", page |-> NoPage]
    /\ UNCHANGED <<history, sealed, began, store, crawled>>

Init ==
    /\ history = <<>> /\ sealed = 0
    /\ began = 0 /\ live = 0 /\ asked = "unread"
    /\ store = EmptyStore
    /\ job = NoJob /\ fold = FoldAt(0)
    /\ crawl = [state |-> "idle", page |-> NoPage] /\ crawled = {}
    /\ left \in Scenarios

Next ==
    \/ Account \/ Seal \/ FirstConnect
    \/ LiveDeleteAsks \/ LiveApply
    \/ StartReplay \/ StartGapReplay
    \/ ReplayStep \/ FailRun \/ RequestPause \/ ResumeJob
    \/ StartCrawl \/ CrawlRead \/ CrawlWrite
    \/ Crash

Spec == Init /\ [][Next]_vars

\* The worker, the job's run and the crawl go on; the archive seals.
FairSpec ==
    /\ Spec
    /\ WF_vars(LiveDeleteAsks \/ LiveApply)
    /\ WF_vars(ReplayStep)
    /\ WF_vars(CrawlRead \/ CrawlWrite)
    /\ WF_vars(Seal)

-----------------------------------------------------------------------------

(* The state is well formed: a run's place lies in its entry, and it buffers *)
(* puts of that entry alone.                                                *)
TypeOK ==
    /\ Len(history) <= MaxEvents /\ sealed \in 0..Len(history) /\ live \in 0..Len(history)
    /\ asked \in {"unread", "running", "none"}
    /\ store \in Stores
    /\ job.status \in {"none", "running", "pausing", "paused", "failed", "completed"}
    /\ job.sweep \in {"commits", "list", "markers", "end"}
    /\ job.tip \in Unplanned..sealed /\ job.cursor <= Len(history)
    /\ InRun => fold.at \in job.cursor..(job.cursor + EntrySize)
    /\ InRun => \A i \in fold.pending : job.cursor < i /\ i <= fold.at /\ history[i].kind = "put"
    /\ crawled \subseteq Keys

\* The stream is applied, and no backfill is under way or unfinished.
Settled ==
    /\ live = Len(history)
    /\ job.status \in {"none", "completed"}
    /\ crawl.state = "idle"

\* Event i came over the live stream or a replay.
Received(i) == i > began \/ i <= job.reach

\* k's last commit was received, and no account event has purged k since.
Delivered(k) == Received(Latest(k)) /\ Latest(k) > LastOf(MarkerKinds \ {"active"})

(* Once everything is applied, in whichever order the live stream, a replay  *)
(* and a crawl wrote, no row is left of a record whose delete was received, or *)
(* of an account whose takedown or deletion was: a tombstone stands wherever a *)
(* create can still arrive (delete_network, account_event).                 *)
NothingResurrected ==
    Settled => \A k \in Keys : IsIndexed(store, k) =>
        /\ Received(Latest(k)) => Current(k) # None
        /\ Received(LastOf({"takedown", "deleted"})) => Active

(* Once everything is applied a row holds the newest version delivered: no    *)
(* older copy of a redelivery, a replay or a retried entry wins. A crawled page, *)
(* which has no revs, may overwrite a newer row or be taken for an older one,  *)
(* until the newest version is stored with its rev.                         *)
NothingStale ==
    Settled => \A k \in Keys \ crawled :
        Delivered(k) /\ IsIndexed(store, k) => store.rows[k].body = Current(k)

(* Once everything is applied, every delivered record of an active account is *)
(* held: a replay skips no entry over a crash, a stop or a failure, and no     *)
(* replayed delete or marker removes a record written after it (account_event, *)
(* ReplayFold, Run::sweep).                                                *)
NothingLost ==
    Settled => \A k \in Keys :
        Delivered(k) /\ Current(k) # None /\ Active => IsIndexed(store, k)

(* The stream catches up and every run of a job ends, in a completed, paused *)
(* or failed job, whether its range is empty, ends at an entry's end or within *)
(* one, and wherever a pause, a failure or a restart meets it (Run::sweep).   *)
RunsEnd == <>[](live = Len(history) /\ ~InRun /\ crawl.state = "idle")
=============================================================================
