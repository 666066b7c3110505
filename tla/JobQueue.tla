------------------------------- MODULE JobQueue -------------------------------
(***************************************************************************)
(* The background job queue: jobs are rows of one table, claimed by the     *)
(* workers of any number of instances under a lease, renewed while the job  *)
(* runs, and settled by a recovery sweep when a lease runs out              *)
(* (src/jobs/db.rs, worker.rs, held.rs; the operator's requests are         *)
(* src/admin/jobs.rs).                                                      *)
(*                                                                         *)
(* Every database statement is one step; what a handler or a run read       *)
(* earlier may be stale by the time it writes. Jobs are numbered in the     *)
(* order they are created. A claim's owner is the process: an instance and  *)
(* how often it has been started.                                          *)
(***************************************************************************)
EXTENDS Naturals, FiniteSets

CONSTANTS
    MaxJobs,        \* bound: jobs created
    Instances,      \* processes on one database
    Workers,        \* job workers, of all instances
    Home,           \* the instance of each worker
    MaxLostLeases,  \* MAX_LOST_LEASES
    Handlers,       \* requests of operators handled at once
    Scenarios,      \* which instances run, and bounds on crashes, requests and
                    \* failed sweeps, of one behaviour
    NoOwner, NoRun, NoRequest

Jobs == 1..MaxJobs

VARIABLES
    row,      \* happyview_jobs: see Rows
    run,      \* what each worker runs: see Runs
    epoch,    \* how often each instance has been restarted
    sweep,    \* each instance's recovery: its next statement and the leases
              \* that had run out by the time it compares them with
    request,  \* each handler's request: the status it was read against, and its aim
    writer,   \* history: the attempt that last wrote a job's progress or outcome
    left      \* the scenario, with what is left of each bound

vars == <<row, run, epoch, sweep, request, writer, left>>

Active == {"running", "cancelling", "pausing"}
Terminal == {"completed", "failed", "cancelled"}
Statuses == {"absent", "pending", "paused"} \cup Active \cup Terminal

\* lease: "none" (NULL), "live", or "expired" (lease_until is past).
Rows == [status : Statuses, by : (Instances \X Nat) \cup {NoOwner}, attempt : Nat,
         lease : {"none", "live", "expired"}, lost : Nat]

Runs == [job : Jobs, owner : Instances \X Nat, attempt : Nat,
         lost : BOOLEAN,                           \* Held::lost
         at : {"script", "finalize", "finish"},
         outcome : {"completed", "failed"},       \* failed until the script returns
         stop : {"none", "lost", "cancelling", "pausing"}]

Requests == [job : Jobs, from : Statuses, to : Statuses]

ASSUME JobQueueAssumption ==
    /\ MaxJobs \in Nat
    /\ Home \in [Workers -> Instances]
    /\ MaxLostLeases \in Nat \ {0}
    /\ Scenarios \subseteq [up : SUBSET Instances, crash : Nat, request : Nat, sweep : Nat]
    /\ NoOwner \notin Instances \X Nat
    /\ NoRun \notin Runs
    /\ NoRequest \notin Requests

Absent == [status |-> "absent", by |-> NoOwner, attempt |-> 0, lease |-> "none", lost |-> 0]

\* A job that a version from before leases was running: it has no lease.
BeforeLeases == [Absent EXCEPT !.status = "running"]

NoSweep == [step |-> 0, expired |-> {}]

Init ==
    /\ row \in {[j \in Jobs |-> IF j \in legacy THEN BeforeLeases ELSE Absent] :
                  legacy \in {{}, Jobs \cap {1}}}
    /\ run = [w \in Workers |-> NoRun]
    /\ epoch = [i \in Instances |-> 0]
    /\ sweep = [i \in Instances |-> NoSweep]
    /\ request = [h \in Handlers |-> NoRequest]
    /\ writer = [j \in Jobs |-> 0]
    /\ left \in Scenarios

Spend(kind) == left[kind] > 0 /\ left' = [left EXCEPT ![kind] = @ - 1]

Owner(w) == <<Home[w], epoch[Home[w]]>>

Busy(w) == run[w] # NoRun

\* A form that fences on the owner only.
HoldsByOwner(w) ==
    LET r == row[run[w].job] IN r.by = run[w].owner /\ r.status \in Active

\* The fence of every write a run makes about its job.
Holds(w) ==
    LET r == row[run[w].job] IN
    /\ r.by = run[w].owner /\ r.attempt = run[w].attempt
    /\ r.status \in Active

\* A claim or a renewal sets lease_until past the time any sweep under way
\* compares it with.
Leased(j) == sweep' = [i \in Instances |-> [sweep[i] EXCEPT !.expired = sweep[i].expired \ {j}]]

-----------------------------------------------------------------------------
(* Creating and claiming *)

Create(j) ==
    /\ row[j].status = "absent"
    /\ \A k \in Jobs : k < j => row[k].status # "absent"
    /\ row' = [row EXCEPT ![j].status = "pending"]
    /\ UNCHANGED <<run, epoch, sweep, request, writer, left>>

Claimed(r, owner) ==
    [status |-> "running", by |-> owner, attempt |-> r.attempt + 1, lease |-> "live", lost |-> r.lost]

NewRun(j, owner, attempt) ==
    [job |-> j, owner |-> owner, attempt |-> attempt, lost |-> FALSE,
     at |-> "script", outcome |-> "failed", stop |-> "none"]

\* A form that does not count the run.
ClaimUncounted(w, j) ==
    /\ Home[w] \in left.up /\ ~Busy(w)
    /\ row[j].status = "pending"
    /\ row' = [row EXCEPT ![j] = [Claimed(row[j], Owner(w)) EXCEPT !.attempt = row[j].attempt]]
    /\ run' = [run EXCEPT ![w] = NewRun(j, Owner(w), row[j].attempt)]
    /\ Leased(j)
    /\ UNCHANGED <<epoch, request, writer, left>>

Claim(w, j) ==
    /\ Home[w] \in left.up /\ ~Busy(w)
    /\ row[j].status = "pending"
    /\ row' = [row EXCEPT ![j] = Claimed(row[j], Owner(w))]
    /\ run' = [run EXCEPT ![w] = NewRun(j, Owner(w), row[j].attempt + 1)]
    /\ Leased(j)
    /\ UNCHANGED <<epoch, request, writer, left>>

\* claim_next_job: the oldest pending job, in one statement.
ClaimNextJob(w) ==
    \E j \in Jobs :
        /\ \A k \in Jobs : k < j => row[k].status # "pending"
        /\ Claim(w, j)

\* hold_job: a job run where it was created.
HoldJob(w) == \E j \in Jobs : Claim(w, j)

-----------------------------------------------------------------------------
(* A run *)

MarkLost(w) == run' = [run EXCEPT ![w].lost = TRUE]

\* update_progress; a run that knows its lease is lost writes nothing.
UpdateProgress(w) ==
    /\ Busy(w) /\ run[w].at = "script" /\ ~run[w].lost
    /\ IF Holds(w)
       THEN writer' = [writer EXCEPT ![run[w].job] = run[w].attempt] /\ UNCHANGED run
       ELSE MarkLost(w) /\ UNCHANGED writer
    /\ UNCHANGED <<row, epoch, sweep, request, left>>

\* should_stop compares the claim, whatever the status.
ClaimedElsewhere(w) ==
    LET r == row[run[w].job] IN r.by # run[w].owner \/ r.attempt # run[w].attempt

StopReason(w) ==
    IF run[w].lost \/ ClaimedElsewhere(w) THEN "lost"
    ELSE IF row[run[w].job].status \in {"cancelling", "pausing"} THEN row[run[w].job].status
    ELSE "none"

\* The job's code asks whether to stop.
ShouldStop(w) ==
    /\ Busy(w) /\ run[w].at = "script"
    /\ ~run[w].lost /\ ClaimedElsewhere(w)
    /\ MarkLost(w)
    /\ UNCHANGED <<row, epoch, sweep, request, writer, left>>

\* renew_while_running, on a task of its own until the run has ended.
RenewLease(w) ==
    /\ Busy(w)
    /\ IF Holds(w)
       THEN /\ row' = [row EXCEPT ![run[w].job].lease = "live"]
            /\ Leased(run[w].job)
            /\ UNCHANGED run
       ELSE /\ ~run[w].lost /\ MarkLost(w)
            /\ UNCHANGED <<row, sweep>>
    /\ UNCHANGED <<epoch, request, writer, left>>

\* The job's code returns, or fails.
ScriptEnds(w, outcome) ==
    /\ Busy(w) /\ run[w].at = "script"
    /\ run' = [run EXCEPT ![w] = [run[w] EXCEPT !.at = "finalize", !.outcome = outcome]]
    /\ UNCHANGED <<row, epoch, sweep, request, writer, left>>

\* The thread of the run ends abnormally: nothing is recorded.
RunPanics(w) ==
    /\ Busy(w) /\ run[w].at = "script"
    /\ run' = [run EXCEPT ![w] = NoRun]
    /\ UNCHANGED <<row, epoch, sweep, request, writer, left>>

\* finalize asks should_stop; a status that cannot be read is no reason.
ReadStop(w, ok) ==
    /\ Busy(w) /\ run[w].at = "finalize"
    /\ LET stop == IF ok THEN StopReason(w) ELSE IF run[w].lost THEN "lost" ELSE "none" IN
       run' = [run EXCEPT ![w] = [run[w] EXCEPT !.at = "finish", !.stop = stop,
                                                !.lost = run[w].lost \/ stop = "lost"]]
    /\ UNCHANGED <<row, epoch, sweep, request, writer, left>>

FinishAs(w) ==
    CASE run[w].stop = "pausing"    -> "paused"
      [] run[w].stop = "cancelling" -> "cancelled"
      [] OTHER                      -> run[w].outcome

\* finish: the outcome, if the run still holds its job and the database takes it.
Finish(w, ok) ==
    /\ Busy(w) /\ run[w].at = "finish"
    /\ IF ok /\ Holds(w)
       THEN /\ row' = [row EXCEPT ![run[w].job] =
                          [row[run[w].job] EXCEPT !.status = FinishAs(w), !.lease = "none"]]
            /\ writer' = [writer EXCEPT ![run[w].job] = run[w].attempt]
       ELSE UNCHANGED <<row, writer>>
    /\ run' = [run EXCEPT ![w] = NoRun]
    /\ UNCHANGED <<epoch, sweep, request, left>>

-----------------------------------------------------------------------------
(* Leases that run out, and recovery *)

\* No renewal reached the row for LEASE: the process stopped, the worker
\* hangs, or the database could not be reached.
LeaseExpires(j) ==
    /\ row[j].status \in Active /\ row[j].lease = "live"
    /\ row' = [row EXCEPT ![j].lease = "expired"]
    /\ UNCHANGED <<run, epoch, sweep, request, writer, left>>

Crash(i) ==
    /\ Spend("crash")
    /\ epoch' = [epoch EXCEPT ![i] = @ + 1]
    /\ run' = [w \in Workers |-> IF Home[w] = i THEN NoRun ELSE run[w]]
    /\ sweep' = [sweep EXCEPT ![i] = NoSweep]
    /\ UNCHANGED <<row, request, writer>>

\* A form that takes a row without a lease for one that is held.
ExpiredIfLeased(j) == row[j].lease = "expired"

\* lease_until IS NULL OR lease_until < now
Expired(j) == row[j].lease \in {"none", "expired"}

StartSweep(i) ==
    /\ sweep[i] = NoSweep
    /\ \E j \in Jobs : row[j].status \in Active /\ Expired(j)
    /\ sweep' = [sweep EXCEPT ![i] = [step |-> 1, expired |-> {j \in Jobs : Expired(j)}]]
    /\ UNCHANGED <<row, run, epoch, request, writer, left>>

Released(r, status, lost) ==
    [status |-> status, by |-> NoOwner, attempt |-> r.attempt, lease |-> "none", lost |-> lost]

\* A form that fails a job one loss late.
SettledLate(step, r) ==
    CASE step = 1 /\ r.status = "cancelling" -> Released(r, "cancelled", r.lost)
      [] step = 2 /\ r.status = "pausing" -> Released(r, "paused", r.lost)
      [] step = 3 /\ r.status = "running" /\ r.lost >= MaxLostLeases ->
            Released(r, "failed", r.lost + 1)
      [] step = 4 /\ r.status = "running" -> Released(r, "pending", r.lost + 1)
      [] OTHER -> r

\* The four statements of recover_expired_jobs, on an expired row.
Settled(step, r) ==
    CASE step = 1 /\ r.status = "cancelling" -> Released(r, "cancelled", r.lost)
      [] step = 2 /\ r.status = "pausing" -> Released(r, "paused", r.lost)
      [] step = 3 /\ r.status = "running" /\ r.lost + 1 >= MaxLostLeases ->
            Released(r, "failed", r.lost + 1)
      [] step = 4 /\ r.status = "running" -> Released(r, "pending", r.lost + 1)
      [] OTHER -> r

SweepStep(i) ==
    /\ sweep[i].step > 0
    /\ row' = [j \in Jobs |-> IF j \in sweep[i].expired /\ Expired(j)
                              THEN Settled(sweep[i].step, row[j]) ELSE row[j]]
    /\ sweep' = [sweep EXCEPT ![i] = IF sweep[i].step = 4 THEN NoSweep
                                    ELSE [sweep[i] EXCEPT !.step = sweep[i].step + 1]]
    /\ UNCHANGED <<run, epoch, request, writer, left>>

\* A statement fails: the sweep is given up until its next turn.
SweepFails(i) ==
    /\ sweep[i].step > 0
    /\ Spend("sweep")
    /\ sweep' = [sweep EXCEPT ![i] = NoSweep]
    /\ UNCHANGED <<row, run, epoch, request, writer>>

-----------------------------------------------------------------------------
(* The operator: each handler reads the job and then changes its status *)

Ask(h, j, to) ==
    /\ request[h] = NoRequest
    /\ Spend("request")
    /\ request' = [request EXCEPT ![h] = [job |-> j, from |-> row[j].status, to |-> to]]
    /\ UNCHANGED <<row, run, epoch, sweep, writer>>

AskToCancel(h, j) ==
    \/ row[j].status = "running" /\ Ask(h, j, "cancelling")
    \/ row[j].status \in {"pending", "paused"} /\ Ask(h, j, "cancelled")

AskToPause(h, j) == row[j].status = "running" /\ Ask(h, j, "pausing")

AskToResume(h, j) == row[j].status = "paused" /\ Ask(h, j, "pending")

\* A form that changes the status whatever it has become.
ChangeStatusRegardless(h) ==
    /\ request[h] # NoRequest
    /\ row' = [row EXCEPT ![request[h].job].status = request[h].to]
    /\ request' = [request EXCEPT ![h] = NoRequest]
    /\ UNCHANGED <<run, epoch, sweep, writer, left>>

\* change_status: only if the job is still as it was read.
ChangeStatus(h) ==
    /\ request[h] # NoRequest
    /\ row' = IF row[request[h].job].status = request[h].from
              THEN [row EXCEPT ![request[h].job].status = request[h].to] ELSE row
    /\ request' = [request EXCEPT ![h] = NoRequest]
    /\ UNCHANGED <<run, epoch, sweep, writer, left>>

-----------------------------------------------------------------------------

Operator(h) == \/ \E j \in Jobs : AskToCancel(h, j) \/ AskToPause(h, j) \/ AskToResume(h, j)
               \/ ChangeStatus(h)

WorkerStep(w) ==
    \/ ClaimNextJob(w)
    \/ HoldJob(w)
    \/ UpdateProgress(w)
    \/ ShouldStop(w)
    \/ RenewLease(w)
    \/ \E outcome \in {"completed", "failed"} : ScriptEnds(w, outcome)
    \/ RunPanics(w)
    \/ \E ok \in BOOLEAN : ReadStop(w, ok)
    \/ \E ok \in BOOLEAN : Finish(w, ok)

Recovery(i) == StartSweep(i) \/ SweepStep(i) \/ SweepFails(i)

Next ==
    \/ \E j \in Jobs : Create(j)
    \/ \E w \in Workers : WorkerStep(w)
    \/ \E j \in Jobs : LeaseExpires(j)
    \/ \E i \in left.up : Crash(i)
    \/ \E i \in left.up : Recovery(i)
    \/ \E h \in Handlers : Operator(h)

Spec == Init /\ [][Next]_vars

\* A run of the job that still renews its lease.
Attended(j) == \E w \in Workers : Busy(w) /\ run[w].job = j /\ Holds(w)

\* Workers poll, job code returns, sweeps come round, handlers finish, and a
\* lease nobody renews runs out.
Fairness ==
    /\ \A w \in Workers :
         /\ WF_vars(ClaimNextJob(w))
         /\ WF_vars(\E outcome \in {"completed", "failed"} : ScriptEnds(w, outcome))
         /\ WF_vars(\E ok \in BOOLEAN : ReadStop(w, ok) \/ Finish(w, ok))
    /\ \A i \in Instances : WF_vars(i \in left.up /\ (StartSweep(i) \/ SweepStep(i)))
    /\ \A j \in Jobs : WF_vars(~Attended(j) /\ LeaseExpires(j))
    /\ \A h \in Handlers : WF_vars(ChangeStatus(h))

FairSpec == Spec /\ Fairness

-----------------------------------------------------------------------------

(* The table and the runs are well formed. *)
TypeOK ==
    /\ row \in [Jobs -> Rows]
    /\ run \in [Workers -> Runs \cup {NoRun}]
    /\ epoch \in [Instances -> Nat]
    /\ sweep \in [Instances -> [step : 0..4, expired : SUBSET Jobs]]
    /\ request \in [Handlers -> Requests \cup {NoRequest}]
    /\ writer \in [Jobs -> Nat]
    /\ left \in [up : SUBSET Instances, crash : Nat, request : Nat, sweep : Nat]

(* However leases run out, processes restart and jobs are claimed again, by   *)
(* another instance or another worker of the same one, the fence admits at   *)
(* most one run of a job (db.rs:26, Lease).                                 *)
OneHolder ==
    \A v, w \in Workers :
        Busy(v) /\ Busy(w) /\ run[v].job = run[w].job /\ Holds(v) /\ Holds(w) => v = w

\* A job is written to by the run its row names.
WritesAreLatest == \A j \in Jobs : writer'[j] # writer[j] => writer'[j] = row[j].attempt

(* Progress and outcome are written by a job's latest run and by no run that *)
(* was replaced (db.rs:26, "a worker whose lease ran out ... changes         *)
(* nothing").                                                               *)
LatestRunWrites == [][WritesAreLatest]_vars

\* No job leaves an end.
EndsStay == \A j \in Jobs : row[j].status \in Terminal => row'[j] = row[j]

(* A job that completed, failed or was cancelled stays as it is: neither a   *)
(* late run, nor a sweep, nor a request read against an earlier status       *)
(* changes it (db.rs:311, change_status).                                   *)
EndIsFinal == [][EndsStay]_vars

(* A job that lost its worker MAX_LOST_LEASES times has failed and is not    *)
(* queued again, though two sweeps may settle it at once (db.rs:20).         *)
LossesAreBounded ==
    \A j \in Jobs : /\ row[j].lost <= MaxLostLeases
                    /\ row[j].lost = MaxLostLeases => row[j].status = "failed"

(* Every job ends or rests paused, through crashes, hangs, lost outcomes and *)
(* sweeps that fail, also one claimed by a version without leases            *)
(* (worker.rs:180, recover).                                                *)
JobsSettle ==
    \A j \in Jobs :
        row[j].status \in {"pending"} \cup Active ~> row[j].status \in {"paused"} \cup Terminal
=============================================================================
