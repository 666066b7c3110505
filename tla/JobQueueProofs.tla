--------------------------- MODULE JobQueueProofs ---------------------------
(* Proofs about the job queue, for any number of jobs, instances and workers *)
(* and any bounds. The argument: attempts are handed out once each, so the   *)
(* fence on owner and attempt admits one run; and a sweep's last statement    *)
(* only meets rows its third one has already spared.                        *)
EXTENDS JobQueue, TLAPS

\* Every run was given an attempt of its own.
AttemptsAreUnique ==
    /\ \A w \in Workers : run[w] # NoRun => run[w].attempt <= row[run[w].job].attempt
    /\ \A v, w \in Workers :
         run[v] # NoRun /\ run[w] # NoRun /\ run[v].job = run[w].job
           /\ run[v].attempt = run[w].attempt => v = w

\* What a sweep found expired is so until it is claimed or renewed, which
\* takes it out of the sweep; and the third statement has failed every row
\* that may not lose its worker again.
SweepsAreCurrent ==
    \A i \in Instances : \A j \in sweep[i].expired :
        /\ row[j].lease # "live"
        /\ sweep[i].step = 4 /\ row[j].status = "running" => row[j].lost + 1 < MaxLostLeases

\* A request never starts from an end, and never makes a job run.
RequestsAreFair ==
    \A h \in Handlers : LET q == request[h] IN
        q # NoRequest => /\ q.from \in {"running", "pending", "paused"}
                         /\ q.to \in {"cancelling", "cancelled", "pausing", "pending"}

IInv ==
    /\ TypeOK
    /\ AttemptsAreUnique
    /\ SweepsAreCurrent
    /\ RequestsAreFair
    /\ LossesAreBounded

LEMMA InitIInv == Init => IInv
  <1> SUFFICES ASSUME Init PROVE IInv
    BY Zenon
  <1> USE JobQueueAssumption
  <1> PICK legacy \in {{}, Jobs \cap {1}} :
         row = [j \in Jobs |-> IF j \in legacy THEN BeforeLeases ELSE Absent]
    BY Zenon DEF Init
  <1>r. Absent \in Rows /\ BeforeLeases \in Rows
    BY Zenon DEF Absent, BeforeLeases, Rows, Statuses, Active
  <1>1. TypeOK
    <2>1. row \in [Jobs -> Rows]
      BY Zenon, <1>r
    <2>2. sweep \in [Instances -> [step : 0..4, expired : SUBSET Jobs]]
      BY DEF Init, NoSweep
    <2>3. left \in [up : SUBSET Instances, crash : Nat, request : Nat, sweep : Nat]
      BY Zenon DEF Init
    <2> QED BY Zenon, <2>1, <2>2, <2>3 DEF Init, TypeOK
  <1>2. AttemptsAreUnique
    BY Zenon DEF Init, AttemptsAreUnique
  <1>3. SweepsAreCurrent
    BY Zenon DEF Init, SweepsAreCurrent, NoSweep
  <1>4. RequestsAreFair
    BY Zenon DEF Init, RequestsAreFair
  <1>5. LossesAreBounded
    BY DEF LossesAreBounded, Absent, BeforeLeases
  <1> QED BY Zenon, <1>1, <1>2, <1>3, <1>4, <1>5 DEF IInv

\* What holds of the rows carries over to a step that changes neither rows
\* nor sweeps, and gives no run a job.
LEMMA QuietStep ==
    ASSUME IInv, TypeOK',
           row' = row,
           \A i \in Instances : sweep'[i].expired \subseteq sweep[i].expired
                                /\ (sweep'[i].step = 4 => sweep[i].step = 4),
           request' = request,
           \A w \in Workers : run'[w] = NoRun \/
              (run[w] # NoRun /\ run'[w].job = run[w].job /\ run'[w].attempt = run[w].attempt)
    PROVE  IInv'
  <1>1. AttemptsAreUnique'
    BY DEF IInv, AttemptsAreUnique
  <1>2. SweepsAreCurrent'
    BY Zenon DEF IInv, SweepsAreCurrent
  <1>3. RequestsAreFair'
    BY Zenon DEF IInv, RequestsAreFair
  <1>4. LossesAreBounded'
    BY Zenon DEF IInv, LossesAreBounded
  <1> QED BY Zenon, <1>1, <1>2, <1>3, <1>4 DEF IInv

\* A step that rewrites one row, keeping its count of losses and its attempt,
\* makes it neither running nor live unless it was.
LEMMA RowStep ==
    ASSUME IInv, TypeOK', NEW j \in Jobs, NEW r,
           row' = [row EXCEPT ![j] = r],
           r.lost = row[j].lost, r.attempt = row[j].attempt,
           r.status = "failed" \/ row[j].status # "failed",
           r.status = "running" => row[j].status = "running",
           r.lease # "live" \/ \A i \in Instances : j \notin sweep'[i].expired,
           \A i \in Instances : sweep'[i].expired \subseteq sweep[i].expired
                                /\ sweep'[i].step = sweep[i].step,
           RequestsAreFair',
           \A w \in Workers : run'[w] = NoRun \/ run'[w] = run[w]
    PROVE  IInv'
  <1> USE DEF IInv
  <1>a. \A k \in Jobs : row'[k] = IF k = j THEN r ELSE row[k]
    BY DEF TypeOK
  <1>1. AttemptsAreUnique'
    <2>1. \A w \in Workers : run[w] # NoRun => run[w].job \in Jobs
      BY JobQueueAssumption DEF TypeOK, Runs
    <2> QED BY <1>a, <2>1 DEF AttemptsAreUnique
  <1>2. SweepsAreCurrent'
    <2>1. \A i \in Instances : sweep[i].expired \subseteq Jobs
      BY Zenon DEF TypeOK
    <2> QED BY <1>a, <2>1 DEF SweepsAreCurrent
  <1>4. LossesAreBounded'
    BY <1>a DEF LossesAreBounded
  <1> QED BY Zenon, <1>1, <1>2, <1>4


\* A worker that is busy runs a job of the table.
LEMMA BusyRuns == ASSUME TypeOK, NEW w \in Workers, Busy(w)
                  PROVE  run[w] \in Runs /\ run[w].job \in Jobs /\ row[run[w].job] \in Rows
  <1>1. run[w] \in Runs
    BY Zenon DEF TypeOK, Busy
  <1>2. run[w].job \in Jobs
    BY Zenon, <1>1 DEF Runs
  <1> QED BY Zenon, <1>1, <1>2 DEF TypeOK

LEMMA LeasedType == ASSUME TypeOK, NEW j \in Jobs, Leased(j)
                    PROVE  /\ sweep' \in [Instances -> [step : 0..4, expired : SUBSET Jobs]]
                           /\ \A i \in Instances : /\ sweep'[i].expired = sweep[i].expired \ {j}
                                                   /\ sweep'[i].step = sweep[i].step
  BY ZenonT(60) DEF TypeOK, Leased

LEMMA CreateStep == ASSUME IInv, NEW j \in Jobs, Create(j) PROVE IInv'
  <1> DEFINE r == [row[j] EXCEPT !.status = "pending"]
  <1> USE DEF IInv
  <1>0. row[j] \in Rows
    BY Zenon DEF TypeOK
  <1>1. r \in Rows
    BY Zenon, <1>0 DEF Rows, Statuses
  <1>2. row' = [row EXCEPT ![j] = r]
    BY Zenon DEF Create
  <1>3. TypeOK'
    BY <1>1, <1>2 DEF TypeOK, Create
  <1>4. RequestsAreFair'
    BY Zenon DEF RequestsAreFair, Create
  <1>5. r.status = "pending" /\ r.lost = row[j].lost /\ r.attempt = row[j].attempt /\ r.lease = row[j].lease
    BY Zenon, <1>0 DEF Rows
  <1>6. row[j].status = "absent" /\ sweep' = sweep /\ run' = run
    BY Zenon DEF Create
  <1>7. r.lease # "live" \/ \A i \in Instances : j \notin sweep'[i].expired
    BY Zenon, <1>5, <1>6 DEF SweepsAreCurrent
  <1> HIDE DEF r, IInv
  <1> QED BY Zenon, <1>2, <1>3, <1>4, <1>5, <1>6, <1>7, RowStep

LEMMA ClaimStep == ASSUME IInv, NEW w \in Workers, NEW j \in Jobs, Claim(w, j) PROVE IInv'
  <1> DEFINE a == row[j].attempt + 1
             r == Claimed(row[j], Owner(w))
             n == NewRun(j, Owner(w), a)
  <1> USE DEF IInv
  <1>0. row[j] \in Rows /\ row[j].attempt \in Nat /\ Owner(w) \in Instances \X Nat
    BY Zenon, JobQueueAssumption DEF TypeOK, Rows, Owner
  <1>1. r \in Rows /\ n \in Runs
    BY <1>0 DEF Rows, Runs, Statuses, Active, Claimed, NewRun
  <1>2. row' = [row EXCEPT ![j] = r] /\ run' = [run EXCEPT ![w] = n]
    BY Zenon DEF Claim
  <1>3. /\ sweep' \in [Instances -> [step : 0..4, expired : SUBSET Jobs]]
        /\ \A i \in Instances : /\ sweep'[i].expired = sweep[i].expired \ {j}
                                /\ sweep'[i].step = sweep[i].step
    BY Zenon, LeasedType DEF Claim
  <1>4. TypeOK'
    BY <1>1, <1>2, <1>3 DEF TypeOK, Claim
  <1>5. \A k \in Jobs : row'[k] = IF k = j THEN r ELSE row[k]
    BY Zenon, <1>2 DEF TypeOK
  <1>6. \A v \in Workers : run'[v] = IF v = w THEN n ELSE run[v]
    BY Zenon, <1>2 DEF TypeOK
  <1>7. r.lost = row[j].lost /\ r.attempt = a /\ r.status = "running" /\ n.job = j /\ n.attempt = a
    BY Zenon, <1>0 DEF Rows, Claimed, NewRun
  <1>8. \A v \in Workers : run[v] # NoRun => run[v].job \in Jobs /\ run[v].attempt \in Nat
    BY Zenon DEF TypeOK, Runs
  <1> HIDE DEF r, n
  <1>9. AttemptsAreUnique'
    <2>1. \A v \in Workers : run[v] # NoRun /\ run[v].job = j => run[v].attempt < a
      BY <1>0, <1>8 DEF AttemptsAreUnique
    <2> HIDE DEF a
    <2>2. row[j].attempt <= a
      BY <1>0 DEF a
    <2>3. ASSUME NEW v \in Workers, run'[v] # NoRun
          PROVE  run'[v].attempt <= row'[run'[v].job].attempt
      <3>0. a \in Nat
        BY <1>0 DEF a
      <3>1. CASE v = w
        BY <3>0, <3>1, <1>5, <1>6, <1>7
      <3>2. CASE v # w
        <4>1. run'[v] = run[v] /\ run[v].job \in Jobs
          BY Zenon, <3>2, <2>3, <1>6, <1>8
        <4>2. CASE run[v].job = j
          BY <3>0, <4>1, <4>2, <2>1, <2>3, <1>5, <1>7, <1>8
        <4>3. CASE run[v].job # j
          BY Zenon, <4>1, <4>3, <2>3, <1>5 DEF AttemptsAreUnique
        <4> QED BY Zenon, <4>2, <4>3
      <3> QED BY Zenon, <3>1, <3>2
    <2>4. ASSUME NEW u \in Workers, NEW v \in Workers, run'[u] # NoRun, run'[v] # NoRun,
                 run'[u].job = run'[v].job, run'[u].attempt = run'[v].attempt
          PROVE  u = v
      <3>0. a \in Nat
        BY <1>0 DEF a
      <3> QED BY <3>0, <2>1, <2>4, <1>6, <1>7, <1>8 DEF AttemptsAreUnique
    <2> QED BY Zenon, <2>3, <2>4 DEF AttemptsAreUnique
  <1>10. SweepsAreCurrent'
    <2>1. \A i \in Instances : sweep[i].expired \subseteq Jobs
      BY Zenon DEF TypeOK
    <2> QED BY <2>1, <1>3, <1>5 DEF SweepsAreCurrent
  <1>11. RequestsAreFair'
    BY Zenon DEF RequestsAreFair, Claim
  <1>12. LossesAreBounded'
    <2>1. row[j].status = "pending"
      BY Zenon DEF Claim
    <2> QED BY <2>1, <1>5, <1>7 DEF LossesAreBounded
  <1> QED BY Zenon, <1>4, <1>9, <1>10, <1>11, <1>12


\* What a worker does without changing its job's row.
LEMMA WorkerQuietStep ==
    ASSUME IInv, NEW w \in Workers,
           \/ UpdateProgress(w) \/ ShouldStop(w) \/ RunPanics(w)
           \/ \E outcome \in {"completed", "failed"} : ScriptEnds(w, outcome)
           \/ \E ok \in BOOLEAN : ReadStop(w, ok)
    PROVE  IInv'
  <1>b. Busy(w)
    BY Zenon DEF UpdateProgress, ShouldStop, RunPanics, ScriptEnds, ReadStop
  <1>r. run[w] \in Runs /\ run[w].job \in Jobs /\ TypeOK /\ run[w].attempt \in Nat
    BY Zenon, <1>b, BusyRuns DEF IInv, Runs
  <1>u. row' = row /\ epoch' = epoch /\ sweep' = sweep /\ request' = request /\ left' = left
    BY Zenon DEF UpdateProgress, ShouldStop, RunPanics, ScriptEnds, ReadStop, MarkLost
  <1>w. writer' \in [Jobs -> Nat]
    BY ZenonT(60), <1>r DEF UpdateProgress, ShouldStop, RunPanics, ScriptEnds, ReadStop, TypeOK
  <1>1. \E n : /\ run' = [run EXCEPT ![w] = n]
               /\ n = NoRun \/ (n \in Runs /\ n.job = run[w].job /\ n.attempt = run[w].attempt)
    <2>1. CASE UpdateProgress(w) \/ ShouldStop(w)
      <3>1. CASE run' = run
        <4>1. run = [run EXCEPT ![w] = run[w]]
          BY Zenon, <1>r DEF TypeOK
        <4> QED BY Zenon, <3>1, <4>1, <1>r
      <3>2. CASE MarkLost(w)
        <4> DEFINE n == [run[w] EXCEPT !.lost = TRUE]
        <4>1. n \in Runs /\ n.job = run[w].job /\ n.attempt = run[w].attempt
          BY Zenon, <1>r DEF Runs
        <4>2. run' = [run EXCEPT ![w] = n]
          BY Zenon, <3>2 DEF MarkLost
        <4> QED BY Zenon, <4>1, <4>2
      <3> QED BY Zenon, <2>1, <3>1, <3>2 DEF UpdateProgress, ShouldStop
    <2>2. CASE RunPanics(w)
      BY Zenon, <2>2 DEF RunPanics
    <2>3. ASSUME NEW outcome \in {"completed", "failed"}, ScriptEnds(w, outcome)
          PROVE  \E n : /\ run' = [run EXCEPT ![w] = n]
                        /\ n = NoRun \/ (n \in Runs /\ n.job = run[w].job /\ n.attempt = run[w].attempt)
      <3> DEFINE n == [run[w] EXCEPT !.at = "finalize", !.outcome = outcome]
      <3>1. n \in Runs /\ n.job = run[w].job /\ n.attempt = run[w].attempt
        BY Zenon, <1>r DEF Runs
      <3>2. run' = [run EXCEPT ![w] = n]
        BY Zenon, <2>3 DEF ScriptEnds
      <3> QED BY Zenon, <3>1, <3>2
    <2>4. ASSUME NEW ok \in BOOLEAN, ReadStop(w, ok)
          PROVE  \E n : /\ run' = [run EXCEPT ![w] = n]
                        /\ n = NoRun \/ (n \in Runs /\ n.job = run[w].job /\ n.attempt = run[w].attempt)
      <3> DEFINE stop == IF ok THEN StopReason(w) ELSE IF run[w].lost THEN "lost" ELSE "none"
                 lost == run[w].lost \/ stop = "lost"
                 n == [run[w] EXCEPT !.at = "finish", !.stop = stop, !.lost = lost]
      <3>1. stop \in {"none", "lost", "cancelling", "pausing"}
        BY Zenon DEF StopReason
      <3>2. lost \in BOOLEAN
        BY Zenon, <1>r DEF Runs
      <3>3. run' = [run EXCEPT ![w] = n]
        BY Zenon, <2>4 DEF ReadStop
      <3> HIDE DEF stop, lost
      <3>4. n \in Runs /\ n.job = run[w].job /\ n.attempt = run[w].attempt
        BY Zenon, <1>r, <3>1, <3>2 DEF Runs
      <3> QED BY Zenon, <3>3, <3>4
    <2> QED BY Zenon, <2>1, <2>2, <2>3, <2>4
  <1>2. PICK n : /\ run' = [run EXCEPT ![w] = n]
                 /\ n = NoRun \/ (n \in Runs /\ n.job = run[w].job /\ n.attempt = run[w].attempt)
    BY Zenon, <1>1
  <1>3. TypeOK'
    BY Zenon, <1>2, <1>u, <1>r, <1>w DEF TypeOK
  <1>4. \A v \in Workers : run'[v] = IF v = w THEN n ELSE run[v]
    BY Zenon, <1>2, <1>r DEF TypeOK
  <1>5. \A v \in Workers : run'[v] = NoRun \/
              (run[v] # NoRun /\ run'[v].job = run[v].job /\ run'[v].attempt = run[v].attempt)
    BY Zenon, <1>4, <1>2, <1>b DEF Busy
  <1> QED BY Zenon, <1>3, <1>5, <1>u, QuietStep

LEMMA RenewStep == ASSUME IInv, NEW w \in Workers, RenewLease(w) PROVE IInv'
  <1>r. TypeOK /\ Busy(w) /\ run[w] \in Runs /\ run[w].job \in Jobs /\ row[run[w].job] \in Rows
    BY Zenon, BusyRuns DEF IInv, RenewLease
  <1>u. epoch' = epoch /\ request' = request /\ left' = left /\ writer' = writer
    BY Zenon DEF RenewLease
  <1>1. CASE Holds(w)
    <2> DEFINE j == run[w].job
               r == [row[j] EXCEPT !.lease = "live"]
    <2>1. row' = [row EXCEPT ![j] = r] /\ run' = run /\ Leased(j)
      BY Zenon, <1>1 DEF RenewLease
    <2>2. r \in Rows /\ r.lost = row[j].lost /\ r.attempt = row[j].attempt /\ r.status = row[j].status
      BY Zenon, <1>r DEF Rows
    <2>3. /\ sweep' \in [Instances -> [step : 0..4, expired : SUBSET Jobs]]
          /\ \A i \in Instances : /\ sweep'[i].expired = sweep[i].expired \ {j}
                                  /\ sweep'[i].step = sweep[i].step
      BY Zenon, <2>1, <1>r, LeasedType
    <2>4. TypeOK'
      BY Zenon, <1>r, <1>u, <2>1, <2>2, <2>3 DEF TypeOK
    <2>5. RequestsAreFair'
      BY Zenon, <1>u DEF IInv, RequestsAreFair
    <2> HIDE DEF r
    <2> QED BY ZenonT(60), <1>r, <2>1, <2>2, <2>3, <2>4, <2>5, RowStep
  <1>2. CASE ~Holds(w)
    <2> DEFINE n == [run[w] EXCEPT !.lost = TRUE]
    <2>1. run' = [run EXCEPT ![w] = n] /\ row' = row /\ sweep' = sweep
      BY Zenon, <1>2 DEF RenewLease, MarkLost
    <2>2. n \in Runs /\ n.job = run[w].job /\ n.attempt = run[w].attempt
      BY Zenon, <1>r DEF Runs
    <2>3. TypeOK'
      BY Zenon, <2>1, <2>2, <1>r, <1>u DEF TypeOK
    <2>4. \A v \in Workers : run'[v] = IF v = w THEN n ELSE run[v]
      BY Zenon, <2>1, <1>r DEF TypeOK
    <2> HIDE DEF n
    <2>5. \A v \in Workers : run'[v] = NoRun \/
              (run[v] # NoRun /\ run'[v].job = run[v].job /\ run'[v].attempt = run[v].attempt)
      BY Zenon, <2>4, <2>2, <1>r DEF Busy
    <2> QED BY Zenon, <2>1, <2>3, <2>5, <1>u, QuietStep
  <1> QED BY Zenon, <1>1, <1>2

LEMMA FinishStep == ASSUME IInv, NEW w \in Workers, NEW ok \in BOOLEAN, Finish(w, ok) PROVE IInv'
  <1> DEFINE j == run[w].job
             r == [row[j] EXCEPT !.status = FinishAs(w), !.lease = "none"]
  <1>r. TypeOK /\ run[w] \in Runs /\ j \in Jobs /\ row[j] \in Rows /\ run[w].attempt \in Nat
    BY Zenon, BusyRuns DEF IInv, Finish, Runs
  <1>u. /\ epoch' = epoch /\ request' = request /\ left' = left /\ sweep' = sweep
        /\ run' = [run EXCEPT ![w] = NoRun]
    BY Zenon DEF Finish
  <1>n. \A v \in Workers : run'[v] = NoRun \/ run'[v] = run[v]
    BY Zenon, <1>u, <1>r DEF TypeOK
  <1>f. run' \in [Workers -> Runs \cup {NoRun}]
    BY Zenon, <1>u, <1>r DEF TypeOK
  <1>1. CASE ok /\ Holds(w)
    <2>1. row' = [row EXCEPT ![j] = r] /\ writer' = [writer EXCEPT ![j] = run[w].attempt]
      BY Zenon, <1>1 DEF Finish
    <2>2. FinishAs(w) \in Statuses /\ FinishAs(w) # "running"
      BY Zenon, <1>r DEF FinishAs, Statuses, Terminal, Runs
    <2>3. r \in Rows /\ r.lost = row[j].lost /\ r.attempt = row[j].attempt
          /\ r.status = FinishAs(w) /\ r.lease = "none"
      BY Zenon, <1>r, <2>2 DEF Rows
    <2>4. row[j].status # "failed"
      BY Zenon, <1>1 DEF Holds, Active
    <2>5. TypeOK'
      BY Zenon, <1>r, <1>u, <1>f, <2>1, <2>3 DEF TypeOK
    <2>6. RequestsAreFair'
      BY Zenon, <1>u DEF IInv, RequestsAreFair
    <2> HIDE DEF r
    <2> QED BY Zenon, <1>r, <1>u, <1>n, <2>1, <2>2, <2>3, <2>4, <2>5, <2>6, RowStep
  <1>2. CASE ~(ok /\ Holds(w))
    <2>1. row' = row /\ writer' = writer
      BY Zenon, <1>2 DEF Finish
    <2>2. TypeOK'
      BY Zenon, <1>r, <1>u, <1>f, <2>1 DEF TypeOK
    <2> QED BY Zenon, <1>u, <1>n, <2>1, <2>2, QuietStep
  <1> QED BY Zenon, <1>1, <1>2


LEMMA LeaseExpiresStep == ASSUME IInv, NEW j \in Jobs, LeaseExpires(j) PROVE IInv'
  <1> DEFINE r == [row[j] EXCEPT !.lease = "expired"]
  <1>1. TypeOK /\ row[j] \in Rows
    BY Zenon DEF IInv, TypeOK
  <1>2. row' = [row EXCEPT ![j] = r] /\ run' = run /\ sweep' = sweep /\ request' = request
    BY Zenon DEF LeaseExpires
  <1>3. r \in Rows /\ r.lost = row[j].lost /\ r.attempt = row[j].attempt
        /\ r.status = row[j].status /\ r.lease = "expired"
    BY Zenon, <1>1 DEF Rows
  <1>4. TypeOK'
    BY <1>1, <1>2, <1>3 DEF TypeOK, LeaseExpires
  <1>5. RequestsAreFair'
    BY Zenon, <1>2 DEF IInv, RequestsAreFair
  <1> HIDE DEF r
  <1> QED BY Zenon, <1>2, <1>3, <1>4, <1>5, RowStep

LEMMA SpendType == ASSUME TypeOK, NEW kind \in {"crash", "request", "sweep"}, Spend(kind)
                   PROVE  left' \in [up : SUBSET Instances, crash : Nat, request : Nat, sweep : Nat]
  <1>1. CASE kind = "crash"
    BY <1>1 DEF TypeOK, Spend
  <1>2. CASE kind = "request"
    BY <1>2 DEF TypeOK, Spend
  <1>3. CASE kind = "sweep"
    BY <1>3 DEF TypeOK, Spend
  <1> QED BY Zenon, <1>1, <1>2, <1>3

LEMMA NoSweepType == NoSweep \in [step : 0..4, expired : SUBSET Jobs] /\ NoSweep.expired = {}
                     /\ NoSweep.step # 4
  BY DEF NoSweep

LEMMA CrashStep == ASSUME IInv, NEW i \in Instances, Crash(i) PROVE IInv'
  <1>1. TypeOK /\ row' = row /\ request' = request /\ writer' = writer
    BY Zenon DEF IInv, Crash
  <1>2. run' = [w \in Workers |-> IF Home[w] = i THEN NoRun ELSE run[w]]
    BY Zenon DEF Crash
  <1>3. run' \in [Workers -> Runs \cup {NoRun}]
    BY Zenon, <1>1, <1>2 DEF TypeOK
  <1>4. sweep' = [sweep EXCEPT ![i] = NoSweep]
    BY Zenon DEF Crash
  <1>5. sweep' \in [Instances -> [step : 0..4, expired : SUBSET Jobs]]
    BY Zenon, <1>1, <1>4, NoSweepType DEF TypeOK
  <1>6. epoch' \in [Instances -> Nat]
    BY <1>1 DEF Crash, TypeOK
  <1>7. left' \in [up : SUBSET Instances, crash : Nat, request : Nat, sweep : Nat]
    BY Zenon, <1>1, SpendType DEF Crash
  <1>8. TypeOK'
    BY Zenon, <1>1, <1>3, <1>5, <1>6, <1>7 DEF TypeOK
  <1>9. \A k \in Instances : sweep'[k].expired \subseteq sweep[k].expired
                             /\ (sweep'[k].step = 4 => sweep[k].step = 4)
    BY Zenon, <1>1, <1>4, NoSweepType DEF TypeOK
  <1>10. \A w \in Workers : run'[w] = NoRun \/
              (run[w] # NoRun /\ run'[w].job = run[w].job /\ run'[w].attempt = run[w].attempt)
    BY Zenon, <1>2
  <1> QED BY Zenon, <1>1, <1>8, <1>9, <1>10, QuietStep

LEMMA SweepFailsStep == ASSUME IInv, NEW i \in Instances, SweepFails(i) PROVE IInv'
  <1>1. /\ TypeOK /\ row' = row /\ request' = request /\ writer' = writer
        /\ run' = run /\ epoch' = epoch
    BY Zenon DEF IInv, SweepFails
  <1>4. sweep' = [sweep EXCEPT ![i] = NoSweep]
    BY Zenon DEF SweepFails
  <1>5. sweep' \in [Instances -> [step : 0..4, expired : SUBSET Jobs]]
    BY Zenon, <1>1, <1>4, NoSweepType DEF TypeOK
  <1>7. left' \in [up : SUBSET Instances, crash : Nat, request : Nat, sweep : Nat]
    BY Zenon, <1>1, SpendType DEF SweepFails
  <1>8. TypeOK'
    BY Zenon, <1>1, <1>5, <1>7 DEF TypeOK
  <1>9. \A k \in Instances : sweep'[k].expired \subseteq sweep[k].expired
                             /\ (sweep'[k].step = 4 => sweep[k].step = 4)
    BY Zenon, <1>1, <1>4, NoSweepType DEF TypeOK
  <1> QED BY Zenon, <1>1, <1>8, <1>9, QuietStep

LEMMA StartSweepStep == ASSUME IInv, NEW i \in Instances, StartSweep(i) PROVE IInv'
  <1> DEFINE s == [step |-> 1, expired |-> {j \in Jobs : Expired(j)}]
  <1>1. /\ TypeOK /\ row' = row /\ request' = request /\ writer' = writer
        /\ run' = run /\ epoch' = epoch /\ left' = left
        /\ sweep' = [sweep EXCEPT ![i] = s]
    BY Zenon DEF IInv, StartSweep
  <1>2. s \in [step : 0..4, expired : SUBSET Jobs]
    OBVIOUS
  <1>3. TypeOK'
    BY Zenon, <1>1, <1>2 DEF TypeOK
  <1>4. s.step = 1 /\ \A j \in s.expired : row[j].lease # "live"
    BY Zenon DEF Expired
  <1> HIDE DEF s
  <1>5. \A k \in Instances : sweep'[k] = IF k = i THEN s ELSE sweep[k]
    BY Zenon, <1>1 DEF TypeOK
  <1>6. SweepsAreCurrent'
    BY <1>1, <1>4, <1>5 DEF IInv, SweepsAreCurrent
  <1>7. AttemptsAreUnique' /\ RequestsAreFair' /\ LossesAreBounded'
    BY Zenon, <1>1 DEF IInv, AttemptsAreUnique, RequestsAreFair, LossesAreBounded
  <1> QED BY Zenon, <1>3, <1>6, <1>7 DEF IInv

\* What a statement of the sweep makes of a row: the same row, or one that is
\* released and no longer runs.
LEMMA SettledRow ==
    ASSUME NEW step \in 1..4, NEW r \in Rows, r.lost <= MaxLostLeases,
           r.lost = MaxLostLeases => r.status = "failed",
           step = 4 /\ r.status = "running" => r.lost + 1 < MaxLostLeases
    PROVE  LET t == Settled(step, r) IN
           /\ t \in Rows /\ t.attempt = r.attempt
           /\ t = r \/ (r.status \in Active /\ t.lease = "none" /\ t.status # "running")
           /\ t.lost <= MaxLostLeases
           /\ t.lost = MaxLostLeases => t.status = "failed"
           /\ step = 3 /\ t.status = "running" => t.lost + 1 < MaxLostLeases
  <1> USE JobQueueAssumption
  <1> DEFINE t == Settled(step, r)
             Good == /\ t \in Rows /\ t.attempt = r.attempt
                     /\ t = r \/ (r.status \in Active /\ t.lease = "none" /\ t.status # "running")
                     /\ t.lost <= MaxLostLeases
                     /\ t.lost = MaxLostLeases => t.status = "failed"
                     /\ step = 3 /\ t.status = "running" => t.lost + 1 < MaxLostLeases
  <1>0. r.lost \in Nat /\ r.lost + 1 \in Nat
    BY DEF Rows
  <1>1. CASE step = 1 /\ r.status = "cancelling"
    <2>1. t = Released(r, "cancelled", r.lost)
      BY Zenon, <1>1 DEF Settled
    <2> QED BY <2>1, <1>0, <1>1 DEF Released, Rows, Statuses, Terminal, Active
  <1>2. CASE step = 2 /\ r.status = "pausing"
    <2>1. t = Released(r, "paused", r.lost)
      BY Zenon, <1>2 DEF Settled
    <2> QED BY <2>1, <1>0, <1>2 DEF Released, Rows, Statuses, Active
  <1>3. CASE step = 3 /\ r.status = "running" /\ r.lost + 1 >= MaxLostLeases
    <2>1. t = Released(r, "failed", r.lost + 1)
      BY <1>3 DEF Settled
    <2> QED BY <2>1, <1>0, <1>3 DEF Released, Rows, Statuses, Terminal, Active
  <1>4. CASE step = 4 /\ r.status = "running"
    <2>1. t = Released(r, "pending", r.lost + 1)
      BY <1>4 DEF Settled
    <2> QED BY <2>1, <1>0, <1>4 DEF Released, Rows, Statuses, Active
  <1>5. CASE /\ ~(step = 1 /\ r.status = "cancelling")
             /\ ~(step = 2 /\ r.status = "pausing")
             /\ ~(step = 3 /\ r.status = "running" /\ r.lost + 1 >= MaxLostLeases)
             /\ ~(step = 4 /\ r.status = "running")
    <2>1. t = r
      BY Zenon, <1>5 DEF Settled
    <2> QED BY <2>1, <1>0, <1>5
  <1> QED BY Zenon, <1>1, <1>2, <1>3, <1>4, <1>5

LEMMA SweepStepStep == ASSUME IInv, NEW i \in Instances, SweepStep(i) PROVE IInv'
  <1> DEFINE step == sweep[i].step
             S(j) == j \in sweep[i].expired /\ Expired(j)
             n == IF step = 4 THEN NoSweep ELSE [sweep[i] EXCEPT !.step = step + 1]
  <1>0. /\ TypeOK /\ step \in 1..4 /\ sweep[i].expired \subseteq Jobs
        /\ sweep[i] \in [step : 0..4, expired : SUBSET Jobs]
    BY DEF IInv, TypeOK, SweepStep
  <1>u. request' = request /\ writer' = writer /\ run' = run /\ epoch' = epoch /\ left' = left
    BY Zenon DEF SweepStep
  <1>1. /\ row' = [j \in Jobs |-> IF S(j) THEN Settled(step, row[j]) ELSE row[j]]
        /\ sweep' = [sweep EXCEPT ![i] = n]
    BY Zenon DEF SweepStep
  <1>2. /\ n \in [step : 0..4, expired : SUBSET Jobs]
        /\ n.expired \subseteq sweep[i].expired
        /\ n.step = 4 => step = 3
    BY <1>0, NoSweepType
  <1>3. ASSUME NEW j \in Jobs
        PROVE  /\ row'[j] \in Rows /\ row'[j].attempt = row[j].attempt
               /\ row'[j] = row[j] \/ (row[j].status \in Active /\ row'[j].lease = "none" /\ row'[j].status # "running")
               /\ row'[j].lost <= MaxLostLeases
               /\ row'[j].lost = MaxLostLeases => row'[j].status = "failed"
               /\ S(j) /\ step = 3 /\ row'[j].status = "running" => row'[j].lost + 1 < MaxLostLeases
    <2>1. row[j] \in Rows /\ row[j].lost <= MaxLostLeases
          /\ (row[j].lost = MaxLostLeases => row[j].status = "failed")
      BY Zenon DEF IInv, TypeOK, LossesAreBounded
    <2>2. CASE S(j)
      <3>1. row'[j] = Settled(step, row[j])
        BY Zenon, <1>1, <2>2
      <3>2. step = 4 /\ row[j].status = "running" => row[j].lost + 1 < MaxLostLeases
        BY Zenon, <2>2 DEF IInv, SweepsAreCurrent
      <3> HIDE DEF step
      <3> QED BY <3>1, <3>2, <2>1, <1>0, SettledRow
    <2>3. CASE ~S(j)
      BY Zenon, <1>1, <2>1, <2>3
    <2> QED BY Zenon, <2>2, <2>3
  <1>4. row' \in [Jobs -> Rows]
    BY Zenon, <1>1, <1>3
  <1>5. TypeOK'
    BY Zenon, <1>0, <1>u, <1>1, <1>2, <1>4 DEF TypeOK
  <1>6. AttemptsAreUnique'
    <2>1. \A w \in Workers : run[w] # NoRun => run[w].job \in Jobs
      BY Zenon, <1>0 DEF TypeOK, Runs
    <2> QED BY Zenon, <1>u, <1>3, <2>1 DEF IInv, AttemptsAreUnique
  <1>7. SweepsAreCurrent'
    <2> HIDE DEF n
    <2>1. \A k \in Instances : sweep'[k] = IF k = i THEN n ELSE sweep[k]
      BY Zenon, <1>0, <1>1 DEF TypeOK
    <2>2. ASSUME NEW k \in Instances, NEW j \in sweep'[k].expired
          PROVE  /\ row'[j].lease # "live"
                 /\ sweep'[k].step = 4 /\ row'[j].status = "running" => row'[j].lost + 1 < MaxLostLeases
      <3>1. j \in sweep[k].expired
        BY Zenon, <2>1, <2>2, <1>2
      <3>2. j \in Jobs /\ row[j] \in Rows
        BY Zenon, <3>1, <1>0 DEF TypeOK
      <3>3. row[j].lease # "live"
        BY Zenon, <3>1 DEF IInv, SweepsAreCurrent
      <3>4. row'[j].lease # "live"
        BY Zenon, <3>2, <3>3, <1>3
      <3>5. CASE k = i
        <4>1. S(j)
          BY Zenon, <3>1, <3>2, <3>3, <3>5 DEF Expired, Rows
        <4> QED BY Zenon, <4>1, <3>2, <3>4, <3>5, <2>1, <1>2, <1>3
      <3>6. CASE k # i
        <4>1. sweep[k].step = 4 /\ row[j].status = "running" => row[j].lost + 1 < MaxLostLeases
          BY Zenon, <3>1 DEF IInv, SweepsAreCurrent
        <4> QED BY Zenon, <4>1, <3>2, <3>4, <3>6, <2>1, <1>3
      <3> QED BY Zenon, <3>5, <3>6
    <2> QED BY Zenon, <2>2 DEF SweepsAreCurrent
  <1>8. RequestsAreFair' /\ LossesAreBounded'
    BY Zenon, <1>u, <1>3 DEF IInv, RequestsAreFair, LossesAreBounded
  <1> QED BY Zenon, <1>5, <1>6, <1>7, <1>8 DEF IInv

LEMMA AskStep ==
    ASSUME IInv, NEW h \in Handlers, NEW j \in Jobs,
           NEW to \in {"cancelling", "cancelled", "pausing", "pending"},
           row[j].status \in {"running", "pending", "paused"},
           Ask(h, j, to)
    PROVE  IInv'
  <1> DEFINE q == [job |-> j, from |-> row[j].status, to |-> to]
  <1>1. /\ TypeOK /\ row' = row /\ writer' = writer /\ run' = run /\ epoch' = epoch
        /\ sweep' = sweep /\ request' = [request EXCEPT ![h] = q]
    BY Zenon DEF IInv, Ask
  <1>2. q \in Requests
    BY Zenon DEF Requests, Statuses, Active, Terminal
  <1>3. left' \in [up : SUBSET Instances, crash : Nat, request : Nat, sweep : Nat]
    BY Zenon, <1>1, SpendType DEF Ask
  <1>4. TypeOK'
    BY Zenon, <1>1, <1>2, <1>3 DEF TypeOK
  <1>5. RequestsAreFair'
    BY Zenon, <1>1 DEF IInv, RequestsAreFair, TypeOK
  <1>6. AttemptsAreUnique' /\ SweepsAreCurrent' /\ LossesAreBounded'
    BY Zenon, <1>1 DEF IInv, AttemptsAreUnique, SweepsAreCurrent, LossesAreBounded
  <1> QED BY Zenon, <1>4, <1>5, <1>6 DEF IInv

LEMMA OperatorStep == ASSUME IInv, NEW h \in Handlers, Operator(h) PROVE IInv'
  <1>1. CASE ChangeStatus(h)
    <2>1. /\ TypeOK /\ request[h] \in Requests /\ request' = [request EXCEPT ![h] = NoRequest]
          /\ run' = run /\ epoch' = epoch /\ sweep' = sweep /\ writer' = writer /\ left' = left
      BY Zenon, <1>1 DEF IInv, ChangeStatus, TypeOK
    <2> DEFINE j == request[h].job
               r == [row[j] EXCEPT !.status = request[h].to]
    <2>2. j \in Jobs /\ request[h].to \in Statuses /\ row[j] \in Rows
      BY Zenon, <2>1 DEF Requests, TypeOK
    <2>3. RequestsAreFair'
      BY Zenon, <2>1 DEF IInv, RequestsAreFair, TypeOK
    <2>4. request[h].from \in {"running", "pending", "paused"}
          /\ request[h].to \in {"cancelling", "cancelled", "pausing", "pending"}
      BY Zenon, <1>1 DEF IInv, RequestsAreFair, ChangeStatus
    <2>r. request' \in [Handlers -> Requests \cup {NoRequest}]
      BY Zenon, <2>1 DEF TypeOK
    <2>5. CASE row[j].status = request[h].from
      <3>1. row' = [row EXCEPT ![j] = r]
        BY Zenon, <1>1, <2>5 DEF ChangeStatus
      <3>2. r \in Rows /\ r.status = request[h].to /\ r.lease = row[j].lease
            /\ r.lost = row[j].lost /\ r.attempt = row[j].attempt
        BY Zenon, <2>2 DEF Rows
      <3>3. TypeOK'
        BY Zenon, <2>1, <2>2, <2>r, <3>1, <3>2 DEF TypeOK
      <3>4. r.lease # "live" \/ \A i \in Instances : j \notin sweep'[i].expired
        BY Zenon, <2>1, <3>2 DEF IInv, SweepsAreCurrent
      <3> HIDE DEF r
      <3> QED BY Zenon, <2>1, <2>2, <2>3, <2>4, <2>5, <3>1, <3>2, <3>3, <3>4, RowStep
    <2>6. CASE row[j].status # request[h].from
      <3>1. row' = row
        BY Zenon, <1>1, <2>6 DEF ChangeStatus
      <3>2. TypeOK'
        BY Zenon, <2>1, <2>r, <3>1 DEF TypeOK
      <3>3. AttemptsAreUnique' /\ SweepsAreCurrent' /\ LossesAreBounded'
        BY Zenon, <2>1, <3>1 DEF IInv, AttemptsAreUnique, SweepsAreCurrent, LossesAreBounded
      <3> QED BY Zenon, <2>3, <3>2, <3>3 DEF IInv
    <2> QED BY Zenon, <2>5, <2>6
  <1>2. CASE \E j \in Jobs : AskToCancel(h, j) \/ AskToPause(h, j) \/ AskToResume(h, j)
    BY Zenon, <1>2, AskStep DEF AskToCancel, AskToPause, AskToResume
  <1> QED BY Zenon, <1>1, <1>2 DEF Operator

\* One step per action of Next.
LEMMA NextIInv == IInv /\ [Next]_vars => IInv'
  <1> SUFFICES ASSUME IInv, [Next]_vars PROVE IInv'
    BY Zenon
  <1>0. left.up \subseteq Instances
    BY Zenon DEF IInv, TypeOK
  <1>1. ASSUME NEW j \in Jobs, Create(j) \/ LeaseExpires(j) PROVE IInv'
    BY Zenon, <1>1, CreateStep, LeaseExpiresStep
  <1>2. ASSUME NEW w \in Workers, WorkerStep(w) PROVE IInv'
    <2>1. CASE ClaimNextJob(w) \/ HoldJob(w)
      BY Zenon, <2>1, ClaimStep DEF ClaimNextJob, HoldJob
    <2>2. CASE \/ UpdateProgress(w) \/ ShouldStop(w) \/ RunPanics(w)
               \/ \E outcome \in {"completed", "failed"} : ScriptEnds(w, outcome)
               \/ \E ok \in BOOLEAN : ReadStop(w, ok)
      BY Zenon, <2>2, WorkerQuietStep
    <2>3. CASE RenewLease(w)
      BY Zenon, <2>3, RenewStep
    <2>4. CASE \E ok \in BOOLEAN : Finish(w, ok)
      BY Zenon, <2>4, FinishStep
    <2> QED BY Zenon, <1>2, <2>1, <2>2, <2>3, <2>4 DEF WorkerStep
  <1>3. ASSUME NEW i \in left.up, Crash(i) \/ Recovery(i) PROVE IInv'
    BY Zenon, <1>0, <1>3, CrashStep, StartSweepStep, SweepStepStep, SweepFailsStep DEF Recovery
  <1>4. CASE \E h \in Handlers : Operator(h)
    BY Zenon, <1>4, OperatorStep
  <1>5. CASE UNCHANGED vars
    BY Zenon, <1>5 DEF vars, IInv, TypeOK, AttemptsAreUnique, SweepsAreCurrent, RequestsAreFair, LossesAreBounded
  <1> QED BY Zenon, <1>1, <1>2, <1>3, <1>4, <1>5 DEF Next

LEMMA InvariantHolds == Spec => []IInv
  BY InitIInv, NextIInv, PTL DEF Spec

(* The table, the runs, the sweeps and the requests stay well formed, for    *)
(* every number of jobs, instances and workers (TypeOK).                    *)
THEOREM TypeCorrect == Spec => []TypeOK
  <1>1. IInv => TypeOK
    BY Zenon DEF IInv
  <1> QED BY <1>1, InvariantHolds, PTL

(* Two runs that pass the fence on owner and attempt, Lease in db.rs:26, are *)
(* one run: every claim hands out an attempt of its own (OneHolder).        *)
THEOREM OneHolderHolds == Spec => []OneHolder
  <1>1. IInv => OneHolder
    BY DEF IInv, OneHolder, AttemptsAreUnique, Busy, Holds
  <1> QED BY <1>1, InvariantHolds, PTL

(* recover_expired_jobs never queues a job again that has lost its worker    *)
(* MAX_LOST_LEASES times, however many sweeps run at once                    *)
(* (LossesAreBounded).                                                      *)
THEOREM LossesBounded == Spec => []LossesAreBounded
  <1>1. IInv => LossesAreBounded
    BY Zenon DEF IInv
  <1> QED BY <1>1, InvariantHolds, PTL

(* update_progress and finish write for the run the row names, and for no    *)
(* run that was replaced (LatestRunWrites).                                 *)
THEOREM OnlyTheLatestRunWrites == Spec => LatestRunWrites
  <1>1. IInv /\ [Next]_vars => [WritesAreLatest]_vars
    <2> SUFFICES ASSUME IInv, Next PROVE WritesAreLatest
      BY Zenon DEF vars
    <2>1. CASE \E w \in Workers : UpdateProgress(w) \/ \E ok \in BOOLEAN : Finish(w, ok)
      <3> PICK w \in Workers : UpdateProgress(w) \/ \E ok \in BOOLEAN : Finish(w, ok)
        BY Zenon, <2>1
      <3>1. Busy(w) /\ TypeOK
        BY Zenon DEF IInv, UpdateProgress, Finish
      <3>2. run[w].job \in Jobs
        BY Zenon, <3>1, BusyRuns
      <3> QED BY Zenon, <3>1, <3>2 DEF UpdateProgress, Finish, Holds, WritesAreLatest, TypeOK
    <2>2. CASE writer' = writer
      BY Zenon, <2>2 DEF WritesAreLatest
    <2> QED BY ZenonT(60), <2>1, <2>2 DEF Next, WorkerStep, Recovery, Operator, Create, ClaimNextJob, HoldJob,
              Claim, ShouldStop, RenewLease, ScriptEnds, RunPanics, ReadStop, LeaseExpires, Crash,
              StartSweep, SweepStep, SweepFails, AskToCancel, AskToPause, AskToResume, Ask, ChangeStatus
  <1> QED BY <1>1, InvariantHolds, PTL DEF Spec, LatestRunWrites

(* A job that ended stays as it ended: a run writes only what it holds, a     *)
(* sweep settles only what is active, and change_status acts on the status it *)
(* read, which is no end (EndIsFinal).                                      *)
THEOREM EndsAreFinal == Spec => EndIsFinal
  <1>1. IInv /\ [Next]_vars => [EndsStay]_vars
    <2> SUFFICES ASSUME IInv, Next, NEW j \in Jobs, row[j].status \in Terminal PROVE row'[j] = row[j]
      BY Zenon DEF vars, EndsStay
    <2>0. TypeOK /\ row[j].status \notin Active \cup {"absent", "pending", "paused"}
      BY Zenon DEF IInv, Terminal, Active
    <2>1. CASE row' = row
      BY Zenon, <2>1
    <2>2. CASE \E k \in Jobs : Create(k) \/ LeaseExpires(k)
      BY Zenon, <2>0, <2>2 DEF Create, LeaseExpires, TypeOK
    <2>3. CASE \E w \in Workers : ClaimNextJob(w) \/ HoldJob(w)
      BY ZenonT(60), <2>0, <2>3 DEF ClaimNextJob, HoldJob, Claim, TypeOK
    <2>4. CASE \E w \in Workers : RenewLease(w) \/ \E ok \in BOOLEAN : Finish(w, ok)
      <3> PICK w \in Workers : RenewLease(w) \/ \E ok \in BOOLEAN : Finish(w, ok)
        BY Zenon, <2>4
      <3>1. row' = row \/ (Holds(w) /\ \E r : row' = [row EXCEPT ![run[w].job] = r])
        BY Zenon DEF RenewLease, Finish
      <3> QED BY Zenon, <2>0, <3>1 DEF Holds, TypeOK
    <2>5. CASE \E i \in left.up : SweepStep(i)
      <3> PICK i \in left.up : SweepStep(i)
        BY Zenon, <2>5
      <3>1. i \in Instances /\ sweep[i].step \in 1..4
        BY <2>0 DEF TypeOK, SweepStep
      <3>2. row'[j] \in {row[j], Settled(sweep[i].step, row[j])}
        BY Zenon DEF SweepStep
      <3>3. Settled(sweep[i].step, row[j]) = row[j]
        BY Zenon, <2>0 DEF Settled, Active
      <3> QED BY Zenon, <3>2, <3>3
    <2>6. CASE \E h \in Handlers : ChangeStatus(h)
      <3> PICK h \in Handlers : ChangeStatus(h)
        BY Zenon, <2>6
      <3>1. request[h].from # row[j].status
        BY Zenon, <2>0 DEF IInv, ChangeStatus, RequestsAreFair, Active
      <3> QED BY Zenon, <2>0, <3>1 DEF ChangeStatus, TypeOK
    <2> QED BY Zenon, <2>1, <2>2, <2>3, <2>4, <2>5, <2>6 DEF Next, WorkerStep, Recovery, Operator,
              UpdateProgress, ShouldStop, ScriptEnds, RunPanics, ReadStop, Crash,
              StartSweep, SweepFails, AskToCancel, AskToPause, AskToResume, Ask
  <1> QED BY <1>1, InvariantHolds, PTL DEF Spec, EndIsFinal

=============================================================================
