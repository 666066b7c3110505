----------------------------- MODULE NativeRepo -----------------------------
(***************************************************************************)
(* One author's repo in a space while it moves to the author's PDS and is  *)
(* indexed from there: the migration job                                   *)
(* (src/src/jobs/native/migrate_space_repo.rs), the pull of what the PDS   *)
(* has done since (src/src/spaces/native_sync.rs), and the client writes   *)
(* that go here or there by the repo's mode (src/src/spaces/service.rs).   *)
(*                                                                         *)
(* All three read and write the repo's row of happyview_space_repo_state.  *)
(* update_repo_state writes every column, so a writer whose read is stale  *)
(* puts back the columns it did not mean to change.                        *)
(*                                                                         *)
(* The PDS is external: a log of writes, a commit that describes them, and *)
(* applyWrites, whose #create refuses a record that exists, as HappyView's *)
(* own host does.  A hash is modelled by what it describes.                *)
(***************************************************************************)
EXTENDS Naturals, Sequences, FiniteSets, FiniteSetsExt

CONSTANTS MaxKey,      \* records have keys 1..MaxKey, replayed in that order
          Cids,
          Runs,        \* runs of the repo's migration jobs
          Syncs,       \* tasks that pull: notifyWrite requests and the sweep
          Scenarios    \* the backend and the budgets of a behaviour

VARIABLES row,         \* happyview_space_repo_state
          records,     \* happyview_space_records
          host,        \* the PDS: the writes it has, op i at rev i + 1
          run,         \* where each run of the job is
          leases,      \* the runs that hold the lease of their job
          asked,       \* those whose job an operator asked to pause or cancel
          sync,        \* where each pull is
          client,      \* a client's write through HappyView
          commits,     \* history: how many writes were committed here
          mishaps,     \* history: which of Mishaps have happened
          left

vars == <<row, records, host, run, leases, asked, sync, client, commits, mishaps, left>>

None == 0

Keys == 1 .. MaxKey
Contents == [Keys -> Cids \cup {None}]
HostOp == [key : Keys, cid : Cids \cup {None}]
Modes == {"polyfill", "migrating", "native"}

(* "fork": a write was committed here that a run had not listed, or that   *)
(* met a native repo; "torn": a stale row was written; "overlap": two      *)
(* pulls at once; "twice": two runs at once, of one job or of two;         *)
(* "stale": a run lost its job and went on; "crash": a run stopped where   *)
(* it was; "blind": a run failed before it saw the mode; "unanswered": the *)
(* repo was made native and the run did not hear that it was.              *)
Mishaps == {"fork", "torn", "overlap", "twice", "stale", "crash", "blind", "unanswered"}

-----------------------------------------------------------------------------
(* The PDS (external) *)

Holds(log, k) ==
    LET at == {i \in DOMAIN log : log[i].key = k}
    IN  IF at = {} THEN None ELSE log[Max(at)].cid

Described(log) == [k \in Keys |-> Holds(log, k)]

(* A repo starts here, or was moved: then the PDS has what the index has.  *)
ASSUME NativeRepoAssumption ==
    /\ MaxKey \in Nat \ {0}
    /\ Cids \subseteq Nat \ {None}
    /\ Runs \subseteq Nat \ {None}
    /\ Scenarios \subseteq [sqlite : BOOLEAN, mode : {"polyfill", "native"}, held : Contents,
                            log : Seq(HostOp), jobs : Nat, runs : Nat, writes : Nat,
                            pds : Nat, pulls : Nat, faults : Nat, stops : Nat, stalls : Nat]
    /\ \A s \in Scenarios : s.mode = "native" => Described(s.log) = s.held

HostRev == Len(host) + 1

(* listRepoOps: the indices of the ops after rev `since`, all of them for  *)
(* None                                                                    *)
OpsSince(since) == {i \in DOMAIN host : i + 1 > since}

(* A form that applies the first op of each record. *)
FirstOpPerRecord(window) ==
    {i \in window : \A j \in window : host[j].key = host[i].key => i <= j}

(* latest_op_per_record: of a window, the last op of each record *)
LatestOpPerRecord(window) ==
    {i \in window : \A j \in window : host[j].key = host[i].key => j <= i}

-----------------------------------------------------------------------------
Blank == [mode |-> "polyfill", cursor |-> None, commit |-> [by |-> "here", rev |-> 0]]
NoRun == [at |-> "free", to |-> "polyfill", read |-> Blank,
          recs |-> [k \in Keys |-> None], next |-> 1, rev |-> None]
NoSync == [at |-> "idle", since |-> None, todo |-> {}, last |-> None,
           hash |-> [k \in Keys |-> None], rev |-> None, read |-> Blank]
NoWrite == [at |-> "idle", key |-> 1, cid |-> None, read |-> Blank]

Init ==
    \E s \in Scenarios :
        /\ left = s
        /\ records = s.held
        /\ host = s.log
        /\ row = [Blank EXCEPT !.mode = s.mode,
                                !.cursor = IF s.mode = "native" THEN HostRev ELSE None]
        /\ run = [r \in Runs |-> NoRun]
        /\ leases = {}
        /\ asked = {}
        /\ sync = [t \in Syncs |-> NoSync]
        /\ client = NoWrite
        /\ commits = 0
        /\ mishaps = {}

Spend(kind) ==
    /\ left[kind] > 0
    /\ left' = [left EXCEPT ![kind] = @ - 1]

At(r, at) == run[r].at = at
Pulls(t, at) == sync[t].at = at
Live == {r \in Runs : ~At(r, "free")}

Torn(read) == IF read = row THEN {} ELSE {"torn"}

(* UPDATE happyview_space_repo_state, every column from what was read *)
UpdateRepoState(read, new) ==
    /\ row' = new
    /\ mishaps' = mishaps \cup Torn(read)

-----------------------------------------------------------------------------
(* The migration jobs.  A login enqueues a job for every polyfill repo of  *)
(* the author, whether or not one is queued or running, and the workers    *)
(* claim jobs independently: runs of one repo may meet.                    *)

jobVars == <<leases, asked>>
elsewhere == <<sync, client, commits>>

Goto(r, at) == run' = [run EXCEPT ![r].at = at, ![r].read = Blank]
SetModeTo(r, to) == run' = [run EXCEPT ![r].at = "setmode", ![r].to = to, ![r].read = Blank]

(* A form where a run that ends does not give up the job. *)
EndHolding(r) ==
    /\ run' = [run EXCEPT ![r] = NoRun]
    /\ UNCHANGED jobVars

(* The run returns, and the worker settles the job if it is still its. *)
End(r) ==
    /\ run' = [run EXCEPT ![r] = NoRun]
    /\ leases' = leases \ {r}
    /\ asked' = asked \ {r}

(* A worker claims a job of the repo that no run has a lease on: one that  *)
(* was enqueued, resumed or interrupted.                                   *)
Claim(r) ==
    /\ At(r, "free")
    /\ Cardinality(leases) < left.jobs
    /\ Spend("runs")
    /\ leases' = leases \cup {r}
    /\ Goto(r, "start")
    /\ mishaps' = IF Live = {} THEN mishaps ELSE mishaps \cup {"twice"}
    /\ UNCHANGED <<row, records, host, asked, elsewhere>>

(* The lease of a run that is stuck expires, and its job is free again. *)
Expire(r) ==
    /\ r \in leases
    /\ Spend("stalls")
    /\ leases' = leases \ {r}
    /\ asked' = asked \ {r}
    /\ mishaps' = mishaps \cup {"stale"}
    /\ UNCHANGED <<row, records, host, run, elsewhere>>

(* The process of a run stops; its lease expires. *)
Crash(r) ==
    /\ ~At(r, "free")
    /\ Spend("faults")
    /\ End(r)
    /\ mishaps' = mishaps \cup {"crash"}
    /\ UNCHANGED <<row, records, host, elsewhere>>

(* An operator asks a job to pause or cancel. *)
Ask(r) ==
    /\ r \in leases \ asked
    /\ Spend("stops")
    /\ asked' = asked \cup {r}
    /\ UNCHANGED <<row, records, host, run, leases, elsewhere, mishaps>>

ShouldStop(r) == IF r \notin leases THEN "lost" ELSE IF r \in asked THEN "asked" ELSE "go"

(* A form where a run starts over whatever the mode is. *)
LookAtNothing(r) ==
    /\ At(r, "start")
    /\ Goto(r, "list")
    /\ UNCHANGED <<row, records, host, jobVars, elsewhere, mishaps, left>>

(* migrate: a repo already moved is not moved again. *)
LookAtMode(r) ==
    /\ At(r, "start")
    /\ IF row.mode = "native" THEN End(r) ELSE Goto(r, "list") /\ UNCHANGED jobVars
    /\ UNCHANGED <<row, records, host, elsewhere, mishaps, left>>

(* The records as they are now are the ones replayed and checked; without  *)
(* consent the job is skipped.                                             *)
ListRecords(r) ==
    /\ At(r, "list")
    /\ run' = [run EXCEPT ![r].at = "setmode", ![r].to = "migrating", ![r].recs = records]
    /\ UNCHANGED <<row, records, host, jobVars, elsewhere, mishaps, left>>

Skip(r) ==
    /\ At(r, "list")
    /\ End(r)
    /\ UNCHANGED <<row, records, host, elsewhere, mishaps, left>>

CanTransition(from, to) ==
    <<from, to>> \in {<<"polyfill", "migrating">>, <<"migrating", "native">>,
                     <<"migrating", "polyfill">>, <<"native", "polyfill">>}

(* What follows set_mode: the replay, or the end of the run. *)
Proceed(r) ==
    IF run[r].to = "migrating" THEN Goto(r, "replay") /\ UNCHANGED jobVars ELSE End(r)

(* set_mode reads the row; a transition the flow does not define is an     *)
(* error, which fails the run or, on the way back to polyfill, is logged.  *)
SetMode(r) ==
    /\ At(r, "setmode")
    /\ \/ row.mode = run[r].to /\ Proceed(r)
       \/ /\ CanTransition(row.mode, run[r].to)
          /\ run' = [run EXCEPT ![r].at = "write", ![r].read = row]
          /\ UNCHANGED jobVars
       \/ /\ row.mode # run[r].to
          /\ ~CanTransition(row.mode, run[r].to)
          /\ IF run[r].to = "polyfill" THEN End(r) ELSE Goto(r, "failed") /\ UNCHANGED jobVars
    /\ UNCHANGED <<row, records, host, elsewhere, mishaps, left>>

WriteMode(r) ==
    /\ At(r, "write")
    /\ UpdateRepoState(run[r].read, [run[r].read EXCEPT !.mode = run[r].to])
    /\ Proceed(r)
    /\ UNCHANGED <<records, host, elsewhere, left>>

(* stopped: back to polyfill, unless the job was lost. *)
Stopped(r, reason) ==
    IF reason = "lost" THEN End(r) ELSE SetModeTo(r, "polyfill") /\ UNCHANGED jobVars

(* replay asks before each batch whether to go on.  A batch is one record. *)
Unsent(r) == {k \in Keys : k >= run[r].next /\ run[r].recs[k] # None}

NextBatch(r) ==
    /\ At(r, "replay")
    /\ IF Unsent(r) = {} THEN Goto(r, "verify") /\ UNCHANGED jobVars
       ELSE IF ShouldStop(r) # "go" THEN Stopped(r, ShouldStop(r))
       ELSE /\ run' = [run EXCEPT ![r].at = "send", ![r].next = Min(Unsent(r))]
            /\ UNCHANGED jobVars
    /\ UNCHANGED <<row, records, host, elsewhere, mishaps, left>>

(* applyWrites#create *)
SendBatch(r) ==
    /\ At(r, "send")
    /\ LET k == run[r].next
       IN  IF Holds(host, k) = None
             THEN /\ host' = Append(host, [key |-> k, cid |-> run[r].recs[k]])
                  /\ run' = [run EXCEPT ![r].at = "replay", ![r].next = k + 1]
             ELSE Goto(r, "failed") /\ UNCHANGED host
    /\ UNCHANGED <<row, records, jobVars, elsewhere, mishaps, left>>

(* A statement or a call to the PDS fails, or its answer is lost after it  *)
(* took effect: the run fails.  On the way back to polyfill the failure is *)
(* only logged, and the run ends.                                          *)
Fallible == {"start", "list", "setmode", "write", "send", "verify", "point", "cursor"}

Returning(r) == run[r].at \in {"setmode", "write"} /\ run[r].to = "polyfill"

(* The failed step was a write, and it is there. *)
TookEffect(r) ==
    \/ /\ At(r, "send")
       /\ Holds(host, run[r].next) = None
       /\ host' = Append(host, [key |-> run[r].next, cid |-> run[r].recs[run[r].next]])
       /\ UNCHANGED <<row, mishaps>>
    \/ /\ At(r, "cursor")
       /\ UpdateRepoState(run[r].read, [run[r].read EXCEPT !.cursor = run[r].rev])
       /\ UNCHANGED host
    \/ /\ At(r, "write")
       /\ row' = [run[r].read EXCEPT !.mode = run[r].to]
       /\ mishaps' = mishaps \cup Torn(run[r].read)
                       \cup (IF run[r].to = "native" THEN {"unanswered"} ELSE {})
       /\ UNCHANGED host

LeftNoTrace(r) ==
    /\ mishaps' = mishaps \cup (IF At(r, "start") THEN {"blind"} ELSE {})
                           \cup (IF Returning(r) THEN {"crash"} ELSE {})
    /\ UNCHANGED <<row, host>>

CallFails(r) ==
    /\ run[r].at \in Fallible
    /\ Spend("faults")
    /\ IF Returning(r) THEN End(r) ELSE Goto(r, "failed") /\ UNCHANGED jobVars
    /\ TookEffect(r) \/ LeftNoTrace(r)
    /\ UNCHANGED <<records, elsewhere>>

(* The commit of the PDS must describe the records that were listed. *)
Verify(r) ==
    /\ At(r, "verify")
    /\ IF Described(host) = run[r].recs
         THEN run' = [run EXCEPT ![r].at = "handoff", ![r].rev = HostRev]
         ELSE Goto(r, "failed")
    /\ UNCHANGED <<row, records, host, jobVars, elsewhere, mishaps, left>>

(* A form where the mode is all that is handed off. *)
HandOffMode(r) ==
    /\ At(r, "handoff")
    /\ IF ShouldStop(r) # "go" THEN Stopped(r, ShouldStop(r))
       ELSE SetModeTo(r, "native") /\ UNCHANGED jobVars
    /\ UNCHANGED <<row, records, host, elsewhere, mishaps, left>>

(* hand_off: the cursor first, then the mode. *)
HandOff(r) ==
    /\ At(r, "handoff")
    /\ IF ShouldStop(r) # "go" THEN Stopped(r, ShouldStop(r))
       ELSE Goto(r, "point") /\ UNCHANGED jobVars
    /\ UNCHANGED <<row, records, host, elsewhere, mishaps, left>>

ReadCursor(r) ==
    /\ At(r, "point")
    /\ run' = [run EXCEPT ![r].at = "cursor", ![r].read = row]
    /\ UNCHANGED <<row, records, host, jobVars, elsewhere, mishaps, left>>

WriteCursor(r) ==
    /\ At(r, "cursor")
    /\ UpdateRepoState(run[r].read, [run[r].read EXCEPT !.cursor = run[r].rev])
    /\ SetModeTo(r, "native")
    /\ UNCHANGED <<records, host, jobVars, elsewhere, left>>

(* A form where a run that fails just returns. *)
FailedReturns(r) ==
    /\ At(r, "failed")
    /\ End(r)
    /\ UNCHANGED <<row, records, host, elsewhere, mishaps, left>>

(* failed: back to polyfill, unless the job was lost. *)
Failed(r) ==
    /\ At(r, "failed")
    /\ Stopped(r, ShouldStop(r))
    /\ UNCHANGED <<row, records, host, elsewhere, mishaps, left>>

RunStep(r) ==
    \/ LookAtMode(r) \/ ListRecords(r) \/ SetMode(r) \/ WriteMode(r) \/ NextBatch(r)
    \/ SendBatch(r) \/ Verify(r) \/ HandOff(r) \/ ReadCursor(r) \/ WriteCursor(r)
    \/ Failed(r)

-----------------------------------------------------------------------------
(* The pull *)

migration == <<run, leases, asked>>

(* sync_repo: nothing to pull unless the repo is native. *)
StartSync(t) ==
    /\ t <= left.pulls
    /\ Pulls(t, "idle")
    /\ row.mode = "native"
    /\ sync' = [sync EXCEPT ![t].at = "list", ![t].since = row.cursor]
    /\ mishaps' = IF \E u \in Syncs : ~Pulls(u, "idle") THEN mishaps \cup {"overlap"}
                                                        ELSE mishaps
    /\ UNCHANGED <<row, records, host, migration, client, commits, left>>

(* A form that moves the cursor when it lists the ops, before it applies them. *)
ListAndAdvance(t) ==
    /\ Pulls(t, "list")
    /\ LET window == OpsSince(sync[t].since)
       IN  IF window = {} THEN sync' = [sync EXCEPT ![t] = NoSync] /\ UNCHANGED row
           ELSE /\ sync' = [sync EXCEPT ![t].at = "apply", ![t].todo = LatestOpPerRecord(window),
                                        ![t].last = Max(window) + 1]
                /\ row' = [row EXCEPT !.cursor = Max(window) + 1]
    /\ UNCHANGED <<records, host, migration, client, commits, mishaps, left>>

ListRepoOps(t) ==
    /\ Pulls(t, "list")
    /\ LET window == OpsSince(sync[t].since)
       IN  sync' = [sync EXCEPT ![t] =
             IF window = {} THEN NoSync
             ELSE [@ EXCEPT !.at = "apply", !.todo = LatestOpPerRecord(window),
                            !.last = Max(window) + 1]]
    /\ UNCHANGED <<row, records, host, migration, client, commits, mishaps, left>>

(* Each op is a statement of its own. *)
ApplyOp(t) ==
    /\ Pulls(t, "apply")
    /\ sync[t].todo # {}
    /\ LET i == Min(sync[t].todo)
       IN  /\ records' = [records EXCEPT ![host[i].key] = host[i].cid]
           /\ sync' = [sync EXCEPT ![t].todo = @ \ {i}]
    /\ UNCHANGED <<row, host, migration, client, commits, mishaps, left>>

GetVerifiedCommit(t) ==
    /\ Pulls(t, "apply")
    /\ sync[t].todo = {}
    /\ sync' = [sync EXCEPT ![t].at = "compare", ![t].hash = Described(host),
                            ![t].rev = HostRev]
    /\ UNCHANGED <<row, records, host, migration, client, commits, mishaps, left>>

(* An index that does not agree leaves the cursor where it is. *)
Compare(t) ==
    /\ Pulls(t, "compare")
    /\ sync' = [sync EXCEPT ![t] = IF records = sync[t].hash THEN [@ EXCEPT !.at = "read"]
                                                            ELSE NoSync]
    /\ UNCHANGED <<row, records, host, migration, client, commits, mishaps, left>>

ReadRow(t) ==
    /\ Pulls(t, "read")
    /\ sync' = [sync EXCEPT ![t].at = "adopt", ![t].read = row]
    /\ UNCHANGED <<row, records, host, migration, client, commits, mishaps, left>>

Adopt(t) ==
    /\ Pulls(t, "adopt")
    /\ UpdateRepoState(sync[t].read,
         [sync[t].read EXCEPT !.cursor = sync[t].last,
                              !.commit = [by |-> "host", rev |-> sync[t].rev]])
    /\ sync' = [sync EXCEPT ![t] = NoSync]
    /\ UNCHANGED <<records, host, migration, client, commits, left>>

(* A call fails, or the process stops. *)
SyncFails(t) ==
    /\ ~Pulls(t, "idle")
    /\ Spend("faults")
    /\ sync' = [sync EXCEPT ![t] = NoSync]
    /\ UNCHANGED <<row, records, host, migration, client, commits, mishaps>>

SyncStep(t) ==
    \/ ListRepoOps(t) \/ ApplyOp(t) \/ GetVerifiedCommit(t) \/ Compare(t) \/ ReadRow(t)
    \/ Adopt(t)

-----------------------------------------------------------------------------
(* Clients *)

(* forward_write_if_native decides by the mode it reads, before the write. *)
Submit(k, c) ==
    /\ client.at = "idle"
    /\ Spend("writes")
    /\ client' = [NoWrite EXCEPT !.at = IF row.mode = "native" THEN "forward" ELSE "here",
                                 !.key = k, !.cid = c]
    /\ UNCHANGED <<row, records, host, migration, sync, commits, mishaps>>

HostTakes(k, c) ==
    /\ c # Holds(host, k)
    /\ host' = Append(host, [key |-> k, cid |-> c])

ForwardWrite ==
    /\ client.at = "forward"
    /\ \/ HostTakes(client.key, client.cid)
       \/ UNCHANGED host
    /\ client' = NoWrite
    /\ UNCHANGED <<row, records, migration, sync, commits, mishaps, left>>

(* commit_write: SQLite holds its one write lock from the read of the row  *)
(* on; Postgres locks the space's row, which keeps other writes out but    *)
(* not the migration or a pull.                                            *)
BeginWrite ==
    /\ client.at = "here"
    /\ ~left.sqlite
    /\ client' = [client EXCEPT !.at = "commit", !.read = row]
    /\ UNCHANGED <<row, records, host, migration, sync, commits, mishaps, left>>

Unlisted == \E r \in Runs : run[r].at \notin {"free", "start", "list"}

CommitWrite ==
    /\ client.at = (IF left.sqlite THEN "here" ELSE "commit")
    /\ records[client.key] # client.cid
    /\ LET read == IF left.sqlite THEN row ELSE client.read
       IN  /\ row' = [read EXCEPT !.commit = [by |-> "here", rev |-> commits + 1]]
           /\ mishaps' = mishaps \cup Torn(read)
                \cup (IF Unlisted \/ row.mode = "native" THEN {"fork"} ELSE {})
    /\ records' = [records EXCEPT ![client.key] = client.cid]
    /\ commits' = commits + 1
    /\ client' = NoWrite
    /\ UNCHANGED <<host, migration, sync, left>>

(* The write is refused before it commits, as when its record is not      *)
(* there, or its client hangs up.                                          *)
DropWrite ==
    /\ client.at \in {"here", "commit"}
    /\ client' = NoWrite
    /\ UNCHANGED <<row, records, host, migration, sync, commits, mishaps, left>>

(* A client of the PDS writes there. *)
HostWrite(k, c) ==
    /\ Spend("pds")
    /\ HostTakes(k, c)
    /\ UNCHANGED <<row, records, migration, sync, client, commits, mishaps>>

-----------------------------------------------------------------------------
Next ==
    \/ \E r \in Runs :
         \/ Claim(r) \/ Crash(r) \/ Expire(r) \/ Ask(r)
         \/ Skip(r) \/ CallFails(r) \/ RunStep(r)
    \/ \E t \in Syncs : StartSync(t) \/ SyncStep(t) \/ SyncFails(t)
    \/ \E k \in Keys, c \in Cids \cup {None} : Submit(k, c) \/ HostWrite(k, c)
    \/ ForwardWrite
    \/ BeginWrite
    \/ CommitWrite
    \/ DropWrite

Spec == Init /\ [][Next]_vars

(* Runs go on, and so do pulls: the sweep comes round every five minutes.  *)
Fairness ==
    /\ \A r \in Runs : WF_vars(RunStep(r))
    /\ \A t \in Syncs : WF_vars(SyncStep(t)) /\ WF_vars(StartSync(t))

FairSpec == Spec /\ Fairness

-----------------------------------------------------------------------------
Without(some) == mishaps \cap some = {}

RowType == [mode : Modes, cursor : Nat, commit : [by : {"here", "host"}, rev : Nat]]

RunType == [at : {"free", "start", "list", "setmode", "write", "replay", "send", "verify",
                  "handoff", "point", "cursor", "failed"},
            to : Modes, read : RowType, recs : Contents, next : 1 .. MaxKey + 1, rev : Nat]

PullType == [at : {"idle", "list", "apply", "compare", "read", "adopt"}, since : Nat,
             todo : SUBSET DOMAIN host, last : 0 .. HostRev, hash : Contents,
             rev : 0 .. HostRev, read : RowType]

WriteType == [at : {"idle", "here", "commit", "forward"}, key : Keys, cid : Cids \cup {None},
              read : RowType]

(* The row, the runs, the pulls and the leases are well formed: only a run *)
(* that is going holds one, and a pull's ops are ops of the PDS.           *)
TypeOK ==
    /\ row \in RowType
    /\ records \in Contents
    /\ host \in Seq(HostOp)
    /\ run \in [Runs -> RunType]
    /\ leases \subseteq Live
    /\ asked \subseteq leases
    /\ sync \in [Syncs -> PullType]
    /\ client \in WriteType
    /\ commits \in Nat
    /\ mishaps \subseteq Mishaps

(* hand_off (migrate_space_repo.rs:310): "a native repo is never left      *)
(* without" a cursor, wherever a run stops, whoever takes over and however *)
(* many run at once, unless a stale row was written.                       *)
NativeHasCursor ==
    Without({"torn"}) /\ row.mode = "native" => row.cursor # None

(* After any of these a run may take a native repo back: `failed` returns  *)
(* whatever mode it finds to polyfill, so a second run at once, a run that *)
(* failed before it saw the mode, and one that did not hear that it had    *)
(* made the repo native do so.                                             *)
TakenBack == {"twice", "torn", "blind", "unanswered"}

(* "a repo already moved must not be moved again" (migrate_space_repo.rs): *)
(* runs one after another, resumed, repeated, failing or going on without  *)
(* their lease, leave a native repo where it is.  The code keeps no more   *)
(* of that comment than this.                                              *)
NativeStays ==
    [][Without(TakenBack)' /\ row.mode = "native" => row'.mode = "native"]_vars

(* "The cursor records the last rev we have *applied*" (native_sync.rs):   *)
(* where the index differs from the PDS, the next pull will see why.       *)
CursorRecordsApplied ==
    row.mode = "native" =>
        \A k \in Keys : records[k] # Holds(host, k) =>
            \E i \in OpsSince(row.cursor) : host[i].key = k

(* So it is from the handoff on, across failed pulls, lost answers and     *)
(* resumed runs, as long as one run and one pull go at a time, no run goes *)
(* on without its job, none takes the repo back unknowingly, and no write  *)
(* was committed here that the PDS was never sent.                         *)
NothingSkipped == Without(Mishaps \ {"crash"}) => CursorRecordsApplied

(* The sweep "keeps a dropped notification from leaving a repo stale       *)
(* indefinitely": once the PDS rests, the index of a native repo is what   *)
(* the PDS has.                                                            *)
IndexFollowsHost ==
    []Without(Mishaps \ {"crash"})
      => <>[](row.mode = "native" => records = Described(host))

(* A repo does not stay between its hosts: a run that sees its job through *)
(* leaves it native or back on polyfill, whether it is stopped, refused by *)
(* the PDS, never answered, finds another commit there, or meets a second  *)
(* run of the repo.                                                        *)
MigrationEnds ==
    []Without({"stale", "torn", "crash"}) => []<>(row.mode # "migrating")
=============================================================================
