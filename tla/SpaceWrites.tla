----------------------------- MODULE SpaceWrites -----------------------------
(***************************************************************************)
(* Writes to one permissioned space (src/src/spaces/service.rs, routes.rs, *)
(* writers.rs, oplog.rs) and the two ways the outside hears of them:       *)
(* notifications to syncers, which carry a space revision and are backed   *)
(* by `listRepos`, and the webhooks of SpaceWebhooks.                      *)
(*                                                                         *)
(* A repo hosted here is written by the handlers of createRecord,          *)
(* putRecord, deleteRecord and applyWrites.  The commits of one on its     *)
(* author's PDS are reported through notifyWrite, which takes a report     *)
(* about any writer the space admits.                                      *)
(***************************************************************************)
EXTENDS SpaceWebhooks, Integers, FiniteSets

CONSTANTS Authors,     \* members who write, as numbers
          Hosted,      \* those whose repo is hosted here
          Keys,        \* collection and rkey of a record
          Cids,        \* content ids, as positive numbers
          Handlers,    \* request tasks
          PageLimit,   \* `limit` of listRepos
          Skew,        \* MAX_REV_CLOCK_SKEW_MICROS, in ticks of the clock
          Scenarios    \* the requests, the revs reported and the clock ids
                       \* drawn, and bounds on writes, reports, ticks, faults

VARIABLES clock,       \* the wall clock, in microseconds
          records,     \* happyview_space_records
          repo,        \* happyview_space_repo_state
          oplog,       \* happyview_space_record_oplog, in commit order
          writers,     \* happyview_space_writers
          handler,     \* the request tasks
          wire,        \* forwarded updates not yet received
          syncer,      \* one syncer: what it knows of each repo
          committed,   \* history: commits and reports, numbering batches
          left         \* what remains of the scenario's bounds

writeVars == <<clock, records, repo, oplog, writers, handler, wire, syncer,
               committed, left>>
vars == <<writeVars, webhookVars>>

None == 0

(* One op of a request; a delete writes None, and swap is None or the cid  *)
(* of swapRecord.                                                          *)
Op == [kind : {"create", "put", "delete"}, key : Keys,
       cid : Cids \cup {None}, swap : Cids \cup {None}]

ASSUME SpaceWritesAssumption ==
    /\ IsFiniteSet(Authors) /\ Authors # {} /\ Authors \subseteq Nat \ {None}
    /\ Hosted \subseteq Authors
    /\ Cids \subseteq Nat \ {None}
    /\ PageLimit \in Nat \ {0}
    /\ Skew \in Nat
    /\ QueueLimit \in Nat \ {0}
    /\ Scenarios \subseteq
         [requests : SUBSET Seq(Op), revs : SUBSET (Nat \ {0}), ids : SUBSET (0 .. 3),
          writes : Nat, reports : Nat, ticks : Nat, faults : Nat]

-----------------------------------------------------------------------------
(* Set hashes.  An LtHash is a sum of element hashes, so it is modelled as *)
(* the number of times each element has been added less the times it was   *)
(* removed; sha256 of it tells two states apart.                           *)

Elements == Keys \X Cids

EmptyFold == [e \in Elements |-> 0]

Refold(fold, key, old, new) ==
    [e \in Elements |-> fold[e] + (IF e = <<key, new>> THEN 1 ELSE 0)
                                - (IF e = <<key, old>> THEN 1 ELSE 0)]

FoldOf(recs) == [e \in Elements |-> IF recs[e[1]] = e[2] THEN 1 ELSE 0]

-----------------------------------------------------------------------------
(* A TID is a microsecond and a random clock id, here 0 to 3, so TIDs of   *)
(* one microsecond come in any order.                                      *)

generate_tid == {4 * clock + id : id \in left.ids}

Microsecond(tid) == tid \div 4

(* SELECT MAX(space_rev) *)
Newest == CHOOSE a \in Authors :
            \A b \in Authors : writers[b].spaceRev <= writers[a].spaceRev
SpaceRev == writers[Newest].spaceRev

(* A form where the clock is trusted to have moved on. *)
NextSpaceRevOfClock(prev, now) == now

NextSpaceRev(prev, now) ==
    IF prev # None /\ now <= prev THEN prev + 1 ELSE now

NoUpdate == [repo |-> None]

Stale(a, rev) == writers[a].rev # None /\ rev <= writers[a].rev

(* writers::record.  `update` is what is forwarded: nothing if Stale. *)
Record(a, rev, hash, now) ==
    IF Stale(a, rev)
      THEN [writers |-> writers, update |-> NoUpdate]
      ELSE LET spaceRev == NextSpaceRev(SpaceRev, now)
           IN  [writers |-> [writers EXCEPT ![a] =
                               [rev |-> rev, hash |-> hash, spaceRev |-> spaceRev]],
                update  |-> [repo |-> a, rev |-> rev, hash |-> hash,
                             spaceRev |-> spaceRev, prev |-> SpaceRev]]

-----------------------------------------------------------------------------
Idle == [at |-> "idle"]

Init ==
    /\ WebhooksInit
    /\ clock = 1
    /\ records = [a \in Authors |-> [k \in Keys |-> None]]
    /\ repo = [a \in Authors |-> [fold |-> EmptyFold, rev |-> None]]
    /\ oplog = [a \in Authors |-> <<>>]
    /\ writers = [a \in Authors |->
                    [rev |-> None, hash |-> EmptyFold, spaceRev |-> None]]
    /\ handler = [h \in Handlers |-> Idle]
    /\ wire = {}
    /\ syncer = [seen |-> None,
                 known |-> [a \in Authors |-> [rev |-> None, hash |-> EmptyFold]]]
    /\ committed = 0
    /\ left \in Scenarios

Spend(what) == left[what] > 0 /\ left' = [left EXCEPT ![what] = @ - 1]

At(h, step) == handler[h].at = step

(* begin_space_write: one transaction on the space at a time *)
SpaceIsFree == \A h \in Handlers : ~At(h, "tx")

(* Two TIDs of one microsecond are taken to differ, as generate_tid's doc  *)
(* has it: a request's revision is no other request's.                     *)
InUse ==
    {handler[h].rev : h \in {g \in Handlers : At(g, "begin") \/ At(g, "tx")}}
      \cup UNION {{oplog[a][i].rev : i \in DOMAIN oplog[a]} : a \in Authors}

(* The part of a handler before its transaction: the request is admitted,  *)
(* and its revision minted.                                                *)
Admit(h, a, ops) ==
    /\ At(h, "idle")
    /\ a \in Hosted
    /\ Spend("writes")
    /\ \E rev \in generate_tid \ InUse :
         handler' = [handler EXCEPT ![h] =
                       [at |-> "begin", author |-> a, ops |-> ops, rev |-> rev]]
    /\ UNCHANGED <<clock, records, repo, oplog, writers, wire, syncer, committed,
                   webhookVars>>

(* A form that does not lock the space row. *)
BeginUnlocked(h) ==
    /\ At(h, "begin")
    /\ handler' = [handler EXCEPT ![h] =
         [at |-> "tx", author |-> @.author, ops |-> @.ops, rev |-> @.rev,
          recs |-> records[@.author], fold |-> repo[@.author].fold, log |-> <<>>]]
    /\ UNCHANGED <<clock, records, repo, oplog, writers, wire, syncer, committed,
                   left, webhookVars>>

(* begin_space_write, and the repo state commit_write will fold into *)
BeginSpaceWrite(h) ==
    /\ At(h, "begin")
    /\ SpaceIsFree
    /\ handler' = [handler EXCEPT ![h] =
         [at |-> "tx", author |-> @.author, ops |-> @.ops, rev |-> @.rev,
          recs |-> records[@.author], fold |-> repo[@.author].fold, log |-> <<>>]]
    /\ UNCHANGED <<clock, records, repo, oplog, writers, wire, syncer, committed,
                   left, webhookVars>>

(* An insert conflicts with a record that exists; a swap fails unless the  *)
(* record's cid is the one given; a delete without one needs a record.     *)
Applies(op, recs) ==
    \/ op.kind = "create" /\ recs[op.key] = None
    \/ op.kind # "create" /\ op.swap # None /\ recs[op.key] = op.swap
    \/ op.kind = "put" /\ op.swap = None
    \/ op.kind = "delete" /\ op.swap = None /\ recs[op.key] # None

(* A form that does not read back an overwritten record's cid. *)
OldCidOfSwap(op, recs) ==
    IF op.kind = "delete" THEN recs[op.key] ELSE op.swap

OldCid(op, recs) ==
    IF op.kind = "create" THEN None
    ELSE IF op.swap # None THEN op.swap ELSE recs[op.key]

(* One op of the request, and what commit_write folds and logs for it *)
ApplyOp(h) ==
    /\ At(h, "tx")
    /\ handler[h].ops # <<>>
    /\ LET w   == handler[h]
           op  == Head(w.ops)
           old == OldCid(op, w.recs)
       IN  /\ Applies(op, w.recs)
           /\ handler' = [handler EXCEPT ![h] =
                [w EXCEPT !.ops  = Tail(w.ops),
                          !.recs = [w.recs EXCEPT ![op.key] = op.cid],
                          !.fold = Refold(w.fold, op.key, old, op.cid),
                          !.log  = Append(w.log, [rev |-> w.rev, key |-> op.key,
                                                  cid |-> op.cid, prev |-> old])]]
    /\ UNCHANGED <<clock, records, repo, oplog, writers, wire, syncer, committed,
                   left, webhookVars>>

(* An op that does not apply is an error, and the transaction rolls back. *)
Refuse(h) ==
    /\ At(h, "tx")
    /\ handler[h].ops # <<>>
    /\ ~Applies(Head(handler[h].ops), handler[h].recs)
    /\ handler' = [handler EXCEPT ![h] = Idle]
    /\ UNCHANGED <<clock, records, repo, oplog, writers, wire, syncer, committed,
                   left, webhookVars>>

(* commit_write and the transaction's commit *)
Commit(h) ==
    /\ At(h, "tx")
    /\ handler[h].ops = <<>>
    /\ LET w       == handler[h]
           a       == w.author
           written == {w.log[i].key : i \in DOMAIN w.log}
       IN  \E now \in generate_tid :
             LET recorded == Record(a, w.rev, w.fold, now)
             IN  /\ records' = [records EXCEPT ![a] =
                       [k \in Keys |-> IF k \in written THEN w.recs[k]
                                                        ELSE records[a][k]]]
                 /\ repo' = [repo EXCEPT ![a] = [fold |-> w.fold, rev |-> w.rev]]
                 /\ oplog' = [oplog EXCEPT ![a] = oplog[a] \o w.log]
                 /\ writers' = recorded.writers
                 /\ committed' = committed + 1
                 /\ handler' = [handler EXCEPT ![h] =
                       [at |-> "notify", batch |-> committed + 1,
                        update |-> recorded.update]]
    /\ UNCHANGED <<clock, wire, syncer, left, webhookVars>>

(* notifyWrite.  Reports may be late, repeated or out of order, and one    *)
(* from the future is refused.  A report with a rev and a hash is recorded *)
(* under the space's lock; one in the older form (None) names a record and *)
(* nothing else.  Only a report that names a record is announced.          *)
NotifyWrite(h, a, rev) ==
    /\ At(h, "idle")
    /\ Spend("reports")
    /\ committed' = committed + 1
    /\ \E batch \in {None, committed + 1} :
         \/ /\ rev = None
            /\ handler' = [handler EXCEPT ![h] =
                  [at |-> "notify", batch |-> batch, update |-> NoUpdate]]
            /\ UNCHANGED writers
         \/ /\ rev # None
            /\ SpaceIsFree
            /\ Microsecond(rev) <= clock + Skew
            /\ \E now \in generate_tid :
                 LET recorded == Record(a, rev, EmptyFold, now)
                 IN  /\ writers' = recorded.writers
                     /\ handler' = [handler EXCEPT ![h] =
                          [at |-> "notify", batch |-> batch, update |-> recorded.update]]
    /\ UNCHANGED <<clock, records, repo, oplog, wire, syncer, webhookVars>>

Forward(update) ==
    wire' = IF update = NoUpdate THEN wire ELSE wire \cup {update}

(* notify_ops, and the end of notify_write: after the commit, with the     *)
(* space no longer held, so not always in the order of the commits.        *)
NotifyOps(h) ==
    /\ At(h, "notify")
    /\ Forward(handler[h].update)
    /\ IF handler[h].batch = None THEN UNCHANGED webhookVars
                                  ELSE AnnounceWrites(handler[h].batch)
    /\ handler' = [handler EXCEPT ![h] = Idle]
    /\ UNCHANGED <<clock, records, repo, oplog, writers, syncer, committed, left>>

(* The process stops, or the client hangs up and the request's task is     *)
(* dropped: an open transaction rolls back, and a commit is not announced. *)
Abandon(h) ==
    /\ ~At(h, "idle")
    /\ Spend("faults")
    /\ handler' = [handler EXCEPT ![h] = Idle]
    /\ UNCHANGED <<clock, records, repo, oplog, writers, wire, syncer, committed,
                   webhookVars>>

-----------------------------------------------------------------------------
(* A syncer, as the module doc of writers.rs has it: an update that        *)
(* follows the last revision it saw is taken as it is; any other makes it  *)
(* ask `listRepos`, which it may also do unasked.                          *)

Learn(known, a, rev, hash) == [known EXCEPT ![a] = [rev |-> rev, hash |-> hash]]

Hear(u) ==
    /\ u \in wire
    /\ wire' = wire \ {u}
    /\ syncer' = IF u.prev = syncer.seen
                   THEN [seen  |-> u.spaceRev,
                         known |-> Learn(syncer.known, u.repo, u.rev, u.hash)]
                   ELSE syncer
    /\ UNCHANGED <<clock, records, repo, oplog, writers, handler, committed, left,
                   webhookVars>>

(* forward_repo_update is best effort *)
LoseUpdate(u) ==
    /\ u \in wire
    /\ Spend("faults")
    /\ wire' = wire \ {u}
    /\ UNCHANGED <<clock, records, repo, oplog, writers, handler, syncer, committed,
                   webhookVars>>

(* A form where the page is in no particular order. *)
ListUnordered(after) ==
    LET later == {a \in Authors : writers[a].spaceRev > after}
    IN  {a \in later : Cardinality({b \in later : b < a}) < PageLimit}

(* writers::list: the first `limit` writers after the cursor, by space_rev *)
List(after) ==
    LET later == {a \in Authors : writers[a].spaceRev > after}
    IN  {a \in later :
           Cardinality({b \in later : writers[b].spaceRev < writers[a].spaceRev})
             < PageLimit}

ListRepos ==
    LET page == List(syncer.seen)
    IN  /\ \E last \in page :
             /\ \A a \in page : writers[a].spaceRev <= writers[last].spaceRev
             /\ syncer' = [seen  |-> writers[last].spaceRev,
                           known |-> [a \in Authors |->
                             IF a \in page
                               THEN [rev |-> writers[a].rev, hash |-> writers[a].hash]
                               ELSE syncer.known[a]]]
        /\ UNCHANGED <<clock, records, repo, oplog, writers, handler, wire,
                       committed, left, webhookVars>>

-----------------------------------------------------------------------------
Tick ==
    /\ Spend("ticks")
    /\ clock' = clock + 1
    /\ UNCHANGED <<records, repo, oplog, writers, handler, wire, syncer, committed,
                   webhookVars>>

HandlerStep(h) ==
    \/ BeginSpaceWrite(h)
    \/ ApplyOp(h)
    \/ Refuse(h)
    \/ Commit(h)
    \/ NotifyOps(h)

Webhooks ==
    \/ WorkerStep /\ UNCHANGED writeVars
    \/ /\ WorkerDies
       /\ Spend("faults")
       /\ UNCHANGED <<clock, records, repo, oplog, writers, handler, wire, syncer,
                      committed>>

Next ==
    \/ \E h \in Handlers :
         \/ \E a \in Authors, ops \in left.requests : Admit(h, a, ops)
         \/ \E a \in Authors, rev \in left.revs \cup {None} : NotifyWrite(h, a, rev)
         \/ HandlerStep(h)
         \/ Abandon(h)
    \/ \E u \in wire : Hear(u) \/ LoseUpdate(u)
    \/ ListRepos
    \/ Tick
    \/ Webhooks

Spec == Init /\ [][Next]_vars

(* Requests run to their end, the worker is scheduled, and the syncer goes *)
(* on asking for what it has missed.                                       *)
Fairness ==
    /\ \A h \in Handlers : WF_vars(HandlerStep(h))
    /\ WF_vars(Receive /\ UNCHANGED writeVars)
    /\ WF_vars(StopUnlessSent /\ UNCHANGED writeVars)
    /\ WF_vars(Dispatch /\ UNCHANGED writeVars)
    /\ WF_vars(ListRepos)

FairSpec == Spec /\ Fairness

-----------------------------------------------------------------------------
Entry == [rev : Nat, key : Keys, cid : Cids \cup {None}, prev : Cids \cup {None}]

Update == [repo : Authors, rev : Nat, hash : [Elements -> Int], spaceRev : Nat,
           prev : Nat]

Task ==
    [at : {"idle"}]
      \cup [at : {"begin"}, author : Hosted, ops : Seq(Op), rev : Nat]
      \cup [at : {"tx"}, author : Hosted, ops : Seq(Op), rev : Nat,
            recs : [Keys -> Cids \cup {None}], fold : [Elements -> Int],
            log : Seq(Entry)]
      \cup [at : {"notify"}, batch : Nat, update : Update \cup {NoUpdate}]

(* Types: what every variable may hold.  The channel is bounded, and the   *)
(* worker has a batch in hand exactly while it dispatches.                 *)
TypeOK ==
    /\ clock \in Nat
    /\ records \in [Authors -> [Keys -> Cids \cup {None}]]
    /\ repo \in [Authors -> [fold : [Elements -> Int], rev : Nat]]
    /\ oplog \in [Authors -> Seq(Entry)]
    /\ writers \in [Authors -> [rev : Nat, hash : [Elements -> Int], spaceRev : Nat]]
    /\ handler \in [Handlers -> Task]
    /\ wire \subseteq Update
    /\ syncer \in [seen : Nat,
                   known : [Authors -> [rev : Nat, hash : [Elements -> Int]]]]
    /\ committed \in Nat
    /\ listed \in BOOLEAN
    /\ worker \in WorkerStates
    /\ items \in Seq(Nat) /\ held \in Seq(Nat) /\ sent \in Seq(Nat)
    /\ Len(items) <= QueueLimit
    /\ Len(held) = IF worker = "sending" THEN 1 ELSE 0
    /\ dropped \in Nat
    /\ lost \subseteq Nat

(* Commits describe records: the set hash of every committed repo state is *)
(* the fold of the author's records, whichever requests ran at once,       *)
(* failed half-way or were abandoned.  commit_write folds each op into the *)
(* stored hash and never looks at the records again.                       *)
CommitDescribesRecords ==
    \A a \in Hosted : repo[a].fold = FoldOf(records[a])

(* The entries of a log that add element e, those that remove it, and the   *)
(* set hash the log comes to.                                              *)
Adding(log, e) == {i \in DOMAIN log : <<log[i].key, log[i].cid>> = e}
Removing(log, e) == {i \in DOMAIN log : <<log[i].key, log[i].prev>> = e}
Explained(log) ==
    [e \in Elements |-> Cardinality(Adding(log, e)) - Cardinality(Removing(log, e))]

(* The oplog explains the commit: what the logged ops of an author add,    *)
(* less what they replace, is the committed set hash.  A syncer applying   *)
(* the ops of list_ops from the start arrives at the hash it is to verify. *)
OplogExplainsCommit == \A a \in Hosted : repo[a].fold = Explained(oplog[a])

(* A syncer knows what it has passed: a repo whose last update is not      *)
(* after the space revision the syncer has seen is known to it at that     *)
(* update's rev and hash, though updates were lost or overtook each other  *)
(* and pages of listRepos were read while the space moved on.              *)
SyncerKnowsWhatItPassed ==
    \A a \in Authors :
      writers[a].spaceRev # None /\ writers[a].spaceRev <= syncer.seen =>
        syncer.known[a] = [rev |-> writers[a].rev, hash |-> writers[a].hash]

(* The syncer gets to the end: it comes to know the recorded state of      *)
(* every repo, for good once writes stop.                                  *)
SyncerFollowsWriters ==
    <>[](\A a \in Authors :
           syncer.known[a] = [rev |-> writers[a].rev, hash |-> writers[a].hash])

(* "Delivery is best effort: a syncer that misses one catches up through   *)
(* `listRepos`" (notifications.rs:471-473): the syncer comes to know the   *)
(* committed set hash of every repo hosted here.                           *)
SyncerCatchesUp ==
    <>[](\A a \in Hosted : syncer.known[a].hash = repo[a].fold)

(* The worker, its idle stop and its restarts are one delivery queue:      *)
(* batches are delivered in the order they were announced, and none but    *)
(* those that met a full channel or a worker that died is missing.  That   *)
(* order need not be "the order they committed" (notifications.rs:246).    *)
Deliveries == INSTANCE DeliveryQueue WITH
    pending <- held \o items

WebhooksAreOneQueue == Deliveries!Spec
=============================================================================
