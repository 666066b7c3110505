-------------------------- MODULE SpaceWritesProofs --------------------------
(***************************************************************************)
(* Proofs about SpaceWrites, for any authors, records, handlers and        *)
(* bounds: types; the folded hash describes the records, and the oplog     *)
(* explains it; the webhook worker queues deliveries in order; a syncer    *)
(* knows what it has passed.                                               *)
(***************************************************************************)
EXTENDS SpaceWrites, FiniteSetTheorems, TLAPS

USE DEF None

Scenario ==
    [requests : SUBSET Seq(Op), revs : SUBSET (Nat \ {0}), ids : SUBSET (0 .. 3),
     writes : Nat, reports : Nat, ticks : Nat, faults : Nat]

(* The writer with the last space revision exists: MAX(space_rev) is that  *)
(* of some writer.  It is what makes SpaceRev a number.                    *)
HasNewest ==
    \E a \in Authors : \A b \in Authors : writers[b].spaceRev <= writers[a].spaceRev

Typed ==
    /\ TypeOK
    /\ left \in Scenario
    /\ clock >= 1
    /\ HasNewest

-----------------------------------------------------------------------------
(* Helpers *)

(* SpaceRev is the largest of the writers' space revisions. *)
LEMMA SpaceRevIsMax ==
    ASSUME Typed
    PROVE  /\ Newest \in Authors
           /\ SpaceRev \in Nat
           /\ \A b \in Authors : writers[b].spaceRev <= SpaceRev
<1>1. /\ Newest \in Authors
      /\ \A b \in Authors : writers[b].spaceRev <= writers[Newest].spaceRev
  BY Zenon DEF Typed, HasNewest, Newest
<1> QED
  BY Zenon, <1>1 DEF Typed, TypeOK, SpaceRev

(* A minted TID is a positive number, the clock being past zero. *)
LEMMA TidsArePositive ==
    ASSUME Typed, NEW t \in generate_tid
    PROVE  t \in Nat /\ t > 0
<1>1. PICK id \in left.ids : t = 4 * clock + id
  BY Zenon DEF generate_tid
<1>2. id \in Nat
  BY <1>1 DEF Typed, Scenario
<1>3. clock \in Nat /\ clock >= 1
  BY Zenon DEF Typed, TypeOK
<1> QED
  BY <1>1, <1>2, <1>3

(* next_space_rev is past the revision before it, whatever the clock says. *)
LEMMA NextSpaceRevAdvances ==
    ASSUME NEW prev \in Nat, NEW now \in Nat, now > 0
    PROVE  NextSpaceRev(prev, now) \in Nat /\ NextSpaceRev(prev, now) > prev
  BY DEF NextSpaceRev

(* The space revision writers::record would hand out next *)
Upcoming(now) == NextSpaceRev(SpaceRev, now)

LEMMA UpcomingIsNew ==
    ASSUME Typed, NEW now \in generate_tid
    PROVE  /\ SpaceRev \in Nat
           /\ Upcoming(now) \in Nat
           /\ Upcoming(now) > SpaceRev
<1>1. SpaceRev \in Nat
  BY Zenon, SpaceRevIsMax
<1>2. now \in Nat /\ now > 0
  BY Zenon, TidsArePositive
<1> QED
  BY Zenon, <1>1, <1>2, NextSpaceRevAdvances DEF Upcoming

(* What writers::record does when it does not find the report stale, and   *)
(* when it does                                                            *)
LEMMA RecordAdvances ==
    ASSUME NEW a, NEW rev, NEW hash, NEW now, ~Stale(a, rev)
    PROVE  /\ Record(a, rev, hash, now).writers =
                  [writers EXCEPT ![a] = [rev |-> rev, hash |-> hash,
                                          spaceRev |-> Upcoming(now)]]
           /\ Record(a, rev, hash, now).update =
                  [repo |-> a, rev |-> rev, hash |-> hash,
                   spaceRev |-> Upcoming(now), prev |-> SpaceRev]
  BY Zenon DEF Record, Upcoming

LEMMA RecordStale ==
    ASSUME NEW a, NEW rev, NEW hash, NEW now, Stale(a, rev)
    PROVE  /\ Record(a, rev, hash, now).writers = writers
           /\ Record(a, rev, hash, now).update = NoUpdate
  BY Zenon DEF Record

WriterType == [rev : Nat, hash : [Elements -> Int], spaceRev : Nat]

(* Whatever writers::record does keeps the types and the newest writer. *)
LEMMA RecordTyped ==
    ASSUME Typed, NEW a \in Authors, NEW rev \in Nat,
           NEW hash \in [Elements -> Int], NEW now \in generate_tid,
           writers' = Record(a, rev, hash, now).writers
    PROVE  /\ writers' \in [Authors -> WriterType]
           /\ HasNewest'
           /\ Record(a, rev, hash, now).update \in Update \cup {NoUpdate}
<1>0. writers \in [Authors -> WriterType] /\ HasNewest
  BY Zenon DEF Typed, TypeOK, WriterType
<1>1. CASE Stale(a, rev)
  <2>1. writers' = writers /\ Record(a, rev, hash, now).update = NoUpdate
    BY <1>1, RecordStale, Zenon
  <2> QED
    BY Zenon, <1>0, <2>1 DEF HasNewest
<1>2. CASE ~Stale(a, rev)
  <2> DEFINE s == Upcoming(now)
  <2>0. s \in Nat /\ s > SpaceRev
    BY Zenon, UpcomingIsNew
  <2>1. /\ writers' = [writers EXCEPT ![a] = [rev |-> rev, hash |-> hash, spaceRev |-> s]]
        /\ Record(a, rev, hash, now).update =
             [repo |-> a, rev |-> rev, hash |-> hash, spaceRev |-> s,
              prev |-> SpaceRev]
    BY Zenon, <1>2 DEF Record, Upcoming
  <2> HIDE DEF s
  <2>2. writers' \in [Authors -> WriterType]
    BY <2>0, <2>1, <1>0 DEF WriterType
  <2>3. /\ SpaceRev \in Nat
        /\ \A b \in Authors : writers[b].spaceRev <= SpaceRev
    BY Zenon, SpaceRevIsMax
  <2>4. \A b \in Authors : writers'[b].spaceRev <= writers'[a].spaceRev
    <3> TAKE b \in Authors
    <3>1. writers'[a].spaceRev = s
      BY <2>1, <1>0
    <3>2. CASE b = a
      BY <3>1, <3>2, <2>0
    <3>3. CASE b # a
      <4>1. writers'[b] = writers[b] /\ writers[b].spaceRev \in Nat
        BY Zenon, <2>1, <1>0, <3>3 DEF WriterType
      <4> QED BY <4>1, <3>1, <2>0, <2>3
    <3> QED BY Zenon, <3>2, <3>3
  <2>5. HasNewest'
    BY Zenon, <2>4 DEF HasNewest
  <2>6. Record(a, rev, hash, now).update \in Update
    BY <2>0, <2>1, <2>3 DEF Update
  <2> QED
    BY Zenon, <2>2, <2>5, <2>6
<1> QED
  BY Zenon, <1>1, <1>2

-----------------------------------------------------------------------------
(* The type invariant, by parts that actions change separately *)

Cell == Cids \cup {None}

IdleTask == [at : {"idle"}]
BeginTask == [at : {"begin"}, author : Hosted, ops : Seq(Op), rev : Nat]
TxTask == [at : {"tx"}, author : Hosted, ops : Seq(Op), rev : Nat,
           recs : [Keys -> Cell], fold : [Elements -> Int], log : Seq(Entry)]
NotifyTask == [at : {"notify"}, batch : Nat, update : Update \cup {NoUpdate}]

TablesTyped ==
    /\ records \in [Authors -> [Keys -> Cell]]
    /\ repo \in [Authors -> [fold : [Elements -> Int], rev : Nat]]
    /\ oplog \in [Authors -> Seq(Entry)]
WritersTyped == writers \in [Authors -> WriterType] /\ HasNewest
TasksTyped == handler \in [Handlers -> IdleTask \cup BeginTask \cup TxTask \cup NotifyTask]
WireTyped == wire \subseteq Update
SyncerTyped ==
    syncer \in [seen : Nat, known : [Authors -> [rev : Nat, hash : [Elements -> Int]]]]
ScalarsTyped == clock \in Nat /\ clock >= 1 /\ committed \in Nat
HooksTyped ==
    /\ listed \in BOOLEAN
    /\ worker \in WorkerStates
    /\ items \in Seq(Nat) /\ held \in Seq(Nat) /\ sent \in Seq(Nat)
    /\ Len(items) <= QueueLimit
    /\ Len(held) = IF worker = "sending" THEN 1 ELSE 0
    /\ dropped \in Nat
    /\ lost \subseteq Nat

LEMMA TypedByParts ==
    Typed <=> /\ TablesTyped /\ WritersTyped /\ TasksTyped /\ WireTyped
              /\ SyncerTyped /\ ScalarsTyped /\ HooksTyped /\ left \in Scenario
  BY Zenon DEF Typed, TypeOK, TablesTyped, WritersTyped, WriterType, TasksTyped,
     IdleTask, BeginTask, TxTask, NotifyTask, Task, Cell, WireTyped, SyncerTyped,
     ScalarsTyped, HooksTyped

LEMMA TypedNextByParts ==
    Typed' <=> /\ TablesTyped' /\ WritersTyped' /\ TasksTyped' /\ WireTyped'
               /\ SyncerTyped' /\ ScalarsTyped' /\ HooksTyped' /\ left' \in Scenario
  BY Zenon DEF Typed, TypeOK, TablesTyped, WritersTyped, WriterType, TasksTyped,
     IdleTask, BeginTask, TxTask, NotifyTask, Task, Cell, WireTyped, SyncerTyped,
     ScalarsTyped, HooksTyped

(* What a part reads, unchanged, leaves the part as it is. *)
LEMMA PartsKept ==
    /\ TablesTyped /\ UNCHANGED <<records, repo, oplog>> => TablesTyped'
    /\ WritersTyped /\ UNCHANGED writers => WritersTyped'
    /\ TasksTyped /\ UNCHANGED handler => TasksTyped'
    /\ WireTyped /\ UNCHANGED wire => WireTyped'
    /\ SyncerTyped /\ UNCHANGED syncer => SyncerTyped'
    /\ ScalarsTyped /\ UNCHANGED <<clock, committed>> => ScalarsTyped'
    /\ HooksTyped /\ UNCHANGED webhookVars => HooksTyped'
<1>1. TablesTyped /\ UNCHANGED <<records, repo, oplog>> => TablesTyped'
  BY Zenon DEF TablesTyped
<1>2. WritersTyped /\ UNCHANGED writers => WritersTyped'
  BY Zenon DEF WritersTyped, HasNewest
<1>3. TasksTyped /\ UNCHANGED handler => TasksTyped'
  BY Zenon DEF TasksTyped
<1>4. WireTyped /\ UNCHANGED wire => WireTyped'
  BY Zenon DEF WireTyped
<1>5. SyncerTyped /\ UNCHANGED syncer => SyncerTyped'
  BY Zenon DEF SyncerTyped
<1>6. ScalarsTyped /\ UNCHANGED <<clock, committed>> => ScalarsTyped'
  BY Zenon DEF ScalarsTyped
<1>7. HooksTyped /\ UNCHANGED webhookVars => HooksTyped'
  BY Zenon DEF HooksTyped, webhookVars
<1> QED
  BY Zenon, <1>1, <1>2, <1>3, <1>4, <1>5, <1>6, <1>7

(* The bounds left of a scenario stay bounds. *)
LEMMA SpendTyped ==
    ASSUME left \in Scenario, NEW what \in {"writes", "reports", "ticks", "faults"},
           Spend(what)
    PROVE  left' \in Scenario
<1>1. CASE what = "writes"
  BY <1>1 DEF Scenario, Spend
<1>2. CASE what = "reports"
  BY SMTT(60), <1>2 DEF Scenario, Spend
<1>3. CASE what = "ticks"
  BY <1>3 DEF Scenario, Spend
<1>4. CASE what = "faults"
  BY SMTT(60), <1>4 DEF Scenario, Spend
<1> QED
  BY ZenonT(60), <1>1, <1>2, <1>3, <1>4

LEMMA InitTyped == Init => Typed
<1> SUFFICES ASSUME Init PROVE Typed
  BY Zenon
<1>0. EmptyFold \in [Elements -> Int]
  BY DEF EmptyFold
<1>1. TablesTyped
  <2>1. [k \in Keys |-> None] \in [Keys -> Cell]
    BY Zenon DEF Cell
  <2> QED BY <1>0, <2>1 DEF Init, TablesTyped
<1>2. WritersTyped
  <2>1. PICK a \in Authors : TRUE
    BY Zenon, SpaceWritesAssumption
  <2>2. \A b \in Authors : writers[b].spaceRev <= writers[a].spaceRev
    BY DEF Init
  <2> QED BY Zenon, <1>0, <2>1, <2>2 DEF Init, WritersTyped, WriterType, HasNewest
<1>3. TasksTyped
  BY Zenon DEF Init, TasksTyped, Idle, IdleTask
<1>4. WireTyped /\ ScalarsTyped
  BY DEF Init, WireTyped, ScalarsTyped
<1>5. SyncerTyped
  BY Zenon, <1>0 DEF Init, SyncerTyped
<1>6. HooksTyped
  <2>1. worker = "gone" /\ items = <<>> /\ held = <<>> /\ sent = <<>>
    BY Zenon DEF Init, WebhooksInit
  <2>2. Len(items) = 0 /\ Len(held) = 0
    BY Zenon, <2>1
  <2>3. Len(items) <= QueueLimit
    BY <2>2, SpaceWritesAssumption
  <2>4. listed \in BOOLEAN
    BY Zenon DEF Init, WebhooksInit
  <2>5. items \in Seq(Nat) /\ held \in Seq(Nat) /\ sent \in Seq(Nat)
    BY <2>1
  <2>6. worker \in WorkerStates /\ worker # "sending"
    BY Zenon, <2>1 DEF WorkerStates
  <2>7. dropped \in Nat /\ lost \subseteq Nat
    BY Zenon DEF Init, WebhooksInit
  <2> QED BY Zenon, <2>2, <2>3, <2>4, <2>5, <2>6, <2>7 DEF HooksTyped
<1>7. left \in Scenario
  BY Zenon, SpaceWritesAssumption DEF Init, Scenario
<1> QED
  BY Zenon, <1>1, <1>2, <1>3, <1>4, <1>5, <1>6, <1>7, TypedByParts

(* announce_writes keeps the channel's bound. *)
LEMMA AnnounceTyped ==
    ASSUME HooksTyped, NEW b \in Nat, AnnounceWrites(b)
    PROVE  HooksTyped'
<1> USE SpaceWritesAssumption DEF HooksTyped, channel, fates
<1>1. CASE /\ Open
           /\ Len(items) < QueueLimit
           /\ items' = Append(items, b)
           /\ UNCHANGED <<listed, worker, held, fates>>
  <2>1. items' \in Seq(Nat) /\ Len(items') = Len(items) + 1
    BY <1>1
  <2>2. Len(items') <= QueueLimit
    BY <1>1, <2>1
  <2> QED BY <1>1, <2>1, <2>2, Zenon
<1>2. CASE /\ Open
           /\ Len(items) >= QueueLimit
           /\ dropped' = dropped + 1
           /\ UNCHANGED <<channel, sent, lost>>
  <2>1. dropped' \in Nat
    BY <1>2
  <2> QED BY <1>2, <2>1, Zenon
<1>3. CASE ~Open /\ SpawnWith(b) /\ UNCHANGED fates
  <2>1. items' = <<b>> /\ held' = <<>> /\ worker' = "waiting"
    BY Zenon, <1>3 DEF SpawnWith
  <2>2. items' \in Seq(Nat) /\ Len(items') = 1 /\ held' \in Seq(Nat) /\ Len(held') = 0
    BY <2>1
  <2>3. listed' \in BOOLEAN
    BY <1>3, Zenon DEF SpawnWith
  <2>4. worker' \in WorkerStates /\ worker' # "sending"
    BY Zenon, <2>1 DEF WorkerStates
  <2>5. Len(items') <= QueueLimit
    BY <2>2
  <2> QED BY Zenon, <1>3, <2>2, <2>3, <2>4, <2>5
<1> QED
  BY <1>1, <1>2, <1>3, Zenon DEF AnnounceWrites

(* So does every step of the worker. *)
LEMMA WorkerTyped ==
    ASSUME HooksTyped, WorkerStep \/ WorkerDies
    PROVE  HooksTyped'
<1> USE SpaceWritesAssumption DEF HooksTyped, fates
<1>1. CASE Receive
  <2>1. Head(items) \in Nat /\ Tail(items) \in Seq(Nat) /\ Len(Tail(items)) = Len(items) - 1
    BY <1>1 DEF Receive
  <2>2. held' = <<Head(items)>> /\ items' = Tail(items) /\ worker' = "sending"
        /\ UNCHANGED <<listed, sent, dropped, lost>>
    BY Zenon, <1>1 DEF Receive
  <2>3. held' \in Seq(Nat) /\ Len(held') = 1
    BY <2>1, <2>2
  <2>4. items' \in Seq(Nat) /\ Len(items') <= QueueLimit
    BY <2>1, <2>2
  <2> QED BY Zenon, <2>2, <2>3, <2>4 DEF WorkerStates
<1>2. CASE GoIdle
  BY Zenon, <1>2 DEF GoIdle, WorkerStates
<1>3. CASE StopUnlessSent
  <2>1. listed' \in BOOLEAN
    BY <1>3, Zenon DEF StopUnlessSent
  <2>2. worker' \in WorkerStates /\ worker' # "sending" /\ worker # "sending"
    BY Zenon, <1>3 DEF StopUnlessSent, WorkerStates
  <2> QED BY Zenon, <1>3, <2>1, <2>2 DEF StopUnlessSent
<1>4. CASE Dispatch
  <2>1. held' = <<>> /\ worker' = "waiting" /\ sent' = sent \o held
        /\ UNCHANGED <<listed, items, dropped, lost>>
    BY Zenon, <1>4 DEF Dispatch
  <2>2. sent' \in Seq(Nat) /\ held' \in Seq(Nat) /\ Len(held') = 0
    BY <2>1
  <2> QED BY <2>1, <2>2 DEF WorkerStates
<1>5. CASE WorkerDies
  <2>1. held' = <<>> /\ worker' = "gone" /\ items' = <<>>
        /\ UNCHANGED <<listed, sent, dropped>>
    BY Zenon, <1>5 DEF WorkerDies
  <2>2. items' \in Seq(Nat) /\ held' \in Seq(Nat) /\ Len(held') = 0 /\ Len(items') = 0
    BY <2>1
  <2>3. held \o items \in Seq(Nat)
    OBVIOUS
  <2>4. \A i \in DOMAIN (held \o items) : (held \o items)[i] \in Nat
    BY SMTT(60), <2>3
  <2>5. lost' \subseteq Nat
    BY <1>5, <2>4, Zenon DEF WorkerDies
  <2> QED BY <2>1, <2>2, <2>5 DEF WorkerStates
<1> QED
  BY Zenon, <1>1, <1>2, <1>3, <1>4, <1>5 DEF WorkerStep

-----------------------------------------------------------------------------
(* Each action keeps the types. *)

LEMMA AdmitTyped ==
    ASSUME Typed, NEW h \in Handlers, NEW a \in Authors, NEW ops \in left.requests,
           Admit(h, a, ops)
    PROVE  Typed'
<1>1. TablesTyped /\ WritersTyped /\ TasksTyped /\ WireTyped /\ SyncerTyped
      /\ ScalarsTyped /\ HooksTyped /\ left \in Scenario
  BY Zenon, TypedByParts
<1>2. TasksTyped'
  <2>1. PICK rev \in generate_tid \ InUse :
          handler' = [handler EXCEPT ![h] =
                        [at |-> "begin", author |-> a, ops |-> ops, rev |-> rev]]
    BY Zenon DEF Admit
  <2>2. rev \in Nat
    BY Zenon, <2>1, TidsArePositive
  <2>3. ops \in Seq(Op)
    BY Zenon, <1>1 DEF Scenario
  <2>4. a \in Hosted
    BY Zenon DEF Admit
  <2>5. [at |-> "begin", author |-> a, ops |-> ops, rev |-> rev] \in BeginTask
    BY Zenon, <2>2, <2>3, <2>4 DEF BeginTask
  <2> QED
    BY Zenon, <1>1, <2>1, <2>5 DEF TasksTyped
<1>3. left' \in Scenario
  BY Zenon, <1>1, SpendTyped DEF Admit
<1> QED
  BY Zenon, <1>1, <1>2, <1>3, PartsKept, TypedNextByParts DEF Admit

LEMMA BeginTyped ==
    ASSUME Typed, NEW h \in Handlers, BeginSpaceWrite(h)
    PROVE  Typed'
<1>1. TablesTyped /\ WritersTyped /\ TasksTyped /\ WireTyped /\ SyncerTyped
      /\ ScalarsTyped /\ HooksTyped /\ left \in Scenario
  BY Zenon, TypedByParts
<1>2. TasksTyped'
  <2> DEFINE w == handler[h]
  <2>1. w \in BeginTask
    BY Zenon, <1>1 DEF BeginSpaceWrite, At, TasksTyped, IdleTask, BeginTask, TxTask, NotifyTask
  <2>2. w.author \in Authors
    BY Zenon, <2>1, SpaceWritesAssumption DEF BeginTask
  <2>3. records[w.author] \in [Keys -> Cell] /\ repo[w.author].fold \in [Elements -> Int]
    BY ZenonT(60), <1>1, <2>2 DEF TablesTyped
  <2>4. [at |-> "tx", author |-> w.author, ops |-> w.ops, rev |-> w.rev,
         recs |-> records[w.author], fold |-> repo[w.author].fold, log |-> <<>>] \in TxTask
    BY <2>1, <2>3 DEF BeginTask, TxTask
  <2>5. handler' = [handler EXCEPT ![h] =
         [at |-> "tx", author |-> w.author, ops |-> w.ops, rev |-> w.rev,
          recs |-> records[w.author], fold |-> repo[w.author].fold, log |-> <<>>]]
    BY Zenon, <1>1 DEF BeginSpaceWrite, TasksTyped
  <2> QED
    BY Zenon, <1>1, <2>4, <2>5 DEF TasksTyped
<1>3. left' \in Scenario
  BY Zenon, <1>1 DEF BeginSpaceWrite
<1> QED
  BY Zenon, <1>1, <1>2, <1>3, PartsKept, TypedNextByParts DEF BeginSpaceWrite

(* A task at "tx" is a transaction's. *)
LEMMA AtTx ==
    ASSUME TasksTyped, NEW h \in Handlers, At(h, "tx")
    PROVE  handler[h] \in TxTask /\ handler[h].author \in Authors
<1>1. handler[h] \in TxTask
  BY Zenon DEF At, TasksTyped, IdleTask, BeginTask, TxTask, NotifyTask
<1> QED
  BY Zenon, <1>1, SpaceWritesAssumption DEF TxTask

(* The op in turn and the cid it replaces are of their types. *)
LEMMA OpTyped ==
    ASSUME NEW w \in TxTask, w.ops # <<>>
    PROVE  /\ Head(w.ops) \in Op
           /\ Tail(w.ops) \in Seq(Op)
           /\ OldCid(Head(w.ops), w.recs) \in Cell
<1>1. Head(w.ops) \in Op /\ Tail(w.ops) \in Seq(Op)
  BY DEF TxTask
<1>2. w.recs \in [Keys -> Cell]
  BY Zenon DEF TxTask
<1> QED
  BY Zenon, <1>1, <1>2 DEF OldCid, Op, Cell

LEMMA RefoldTyped ==
    ASSUME NEW f \in [Elements -> Int], NEW k, NEW old, NEW new
    PROVE  Refold(f, k, old, new) \in [Elements -> Int]
  BY DEF Refold

LEMMA ApplyOpTyped ==
    ASSUME Typed, NEW h \in Handlers, ApplyOp(h)
    PROVE  Typed'
<1>1. TablesTyped /\ WritersTyped /\ TasksTyped /\ WireTyped /\ SyncerTyped
      /\ ScalarsTyped /\ HooksTyped /\ left \in Scenario
  BY Zenon, TypedByParts
<1>2. TasksTyped'
  <2> DEFINE w == handler[h]
             op == Head(w.ops)
             old == OldCid(op, w.recs)
             entry == [rev |-> w.rev, key |-> op.key, cid |-> op.cid, prev |-> old]
             next == [w EXCEPT !.ops  = Tail(w.ops),
                               !.recs = [w.recs EXCEPT ![op.key] = op.cid],
                               !.fold = Refold(w.fold, op.key, old, op.cid),
                               !.log  = Append(w.log, entry)]
  <2>1. w \in TxTask
    BY Zenon, <1>1, AtTx DEF ApplyOp
  <2>2. op \in Op /\ Tail(w.ops) \in Seq(Op) /\ old \in Cell
    BY Zenon, <2>1, OpTyped DEF ApplyOp
  <2>3. op.key \in Keys /\ op.cid \in Cell
    BY Zenon, <2>2 DEF Op, Cell
  <2>4. entry \in Entry
    BY Zenon, <2>1, <2>2, <2>3 DEF Entry, TxTask, Cell
  <2>5. handler' = [handler EXCEPT ![h] = next]
    BY Zenon DEF ApplyOp
  <2>6. Refold(w.fold, op.key, old, op.cid) \in [Elements -> Int]
    BY Zenon, <2>1, RefoldTyped DEF TxTask
  <2> HIDE DEF w, op, old, entry
  <2>7. next \in TxTask
    <3>1. w.recs \in [Keys -> Cell] /\ w.log \in Seq(Entry)
      BY Zenon, <2>1 DEF TxTask
    <3>2. [w.recs EXCEPT ![op.key] = op.cid] \in [Keys -> Cell]
      BY Zenon, <2>3, <3>1
    <3>3. Append(w.log, entry) \in Seq(Entry)
      BY <2>4, <3>1
    <3> QED BY Zenon, <2>1, <2>2, <2>6, <3>2, <3>3 DEF TxTask
  <2> HIDE DEF next
  <2> QED
    BY Zenon, <1>1, <2>5, <2>7 DEF TasksTyped
<1>3. left' \in Scenario
  BY Zenon, <1>1 DEF ApplyOp
<1> QED
  BY Zenon, <1>1, <1>2, <1>3, PartsKept, TypedNextByParts DEF ApplyOp

(* Giving a request up, or failing it, leaves its task idle. *)
LEMMA EndTyped ==
    ASSUME Typed, NEW h \in Handlers, Refuse(h) \/ Abandon(h)
    PROVE  Typed'
<1>1. TablesTyped /\ WritersTyped /\ TasksTyped /\ WireTyped /\ SyncerTyped
      /\ ScalarsTyped /\ HooksTyped /\ left \in Scenario
  BY Zenon, TypedByParts
<1>2. TasksTyped'
  BY <1>1 DEF Refuse, Abandon, TasksTyped, Idle, IdleTask
<1>3. left' \in Scenario
  BY Zenon, <1>1, SpendTyped DEF Refuse, Abandon
<1>4. UNCHANGED <<clock, records, repo, oplog, writers, wire, syncer, committed, webhookVars>>
  BY Zenon DEF Refuse, Abandon
<1> QED
  BY Zenon, <1>1, <1>2, <1>3, <1>4, PartsKept, TypedNextByParts

LEMMA CommitTyped ==
    ASSUME Typed, NEW h \in Handlers, Commit(h)
    PROVE  Typed'
<1>1. TablesTyped /\ WritersTyped /\ TasksTyped /\ WireTyped /\ SyncerTyped
      /\ ScalarsTyped /\ HooksTyped /\ left \in Scenario
  BY Zenon, TypedByParts
<1> DEFINE w == handler[h]
           a == w.author
           written == {w.log[i].key : i \in DOMAIN w.log}
           held1 == [k \in Keys |-> IF k \in written THEN w.recs[k] ELSE records[a][k]]
<1>2. w \in TxTask /\ a \in Authors
  BY Zenon, <1>1, AtTx DEF Commit
<1>3. PICK now \in generate_tid :
        /\ records' = [records EXCEPT ![a] = held1]
        /\ repo' = [repo EXCEPT ![a] = [fold |-> w.fold, rev |-> w.rev]]
        /\ oplog' = [oplog EXCEPT ![a] = oplog[a] \o w.log]
        /\ writers' = Record(a, w.rev, w.fold, now).writers
        /\ committed' = committed + 1
        /\ handler' = [handler EXCEPT ![h] =
              [at |-> "notify", batch |-> committed + 1,
               update |-> Record(a, w.rev, w.fold, now).update]]
  BY Zenon DEF Commit
<1>4. /\ w.rev \in Nat /\ w.fold \in [Elements -> Int]
      /\ w.recs \in [Keys -> Cell] /\ w.log \in Seq(Entry)
  BY Zenon, <1>2 DEF TxTask
<1> HIDE DEF w, a
<1>5. held1 \in [Keys -> Cell]
  BY <1>1, <1>2, <1>4 DEF TablesTyped
<1> HIDE DEF held1
<1>6. TablesTyped'
  <2>1. oplog[a] \o w.log \in Seq(Entry)
    BY <1>1, <1>2, <1>4 DEF TablesTyped
  <2> QED BY ZenonT(60), <1>1, <1>2, <1>3, <1>4, <1>5, <2>1 DEF TablesTyped
<1>7. WritersTyped' /\ Record(a, w.rev, w.fold, now).update \in Update \cup {NoUpdate}
  BY Zenon, <1>2, <1>3, <1>4, RecordTyped DEF WritersTyped
<1>8. TasksTyped'
  <2> DEFINE next == [at |-> "notify", batch |-> committed + 1,
                      update |-> Record(a, w.rev, w.fold, now).update]
  <2>1. next \in NotifyTask
    BY <1>1, <1>7 DEF NotifyTask, ScalarsTyped
  <2>2. handler' = [handler EXCEPT ![h] = next]
    BY ZenonT(60), <1>3
  <2> HIDE DEF next
  <2> QED BY Zenon, <1>1, <2>1, <2>2 DEF TasksTyped
<1>9. ScalarsTyped'
  BY <1>1, <1>3 DEF ScalarsTyped, Commit
<1>10. UNCHANGED <<wire, syncer, left, webhookVars>>
  BY Zenon DEF Commit
<1> QED
  BY ZenonT(60), <1>1, <1>6, <1>7, <1>8, <1>9, <1>10, PartsKept, TypedNextByParts

LEMMA NotifyOpsTyped ==
    ASSUME Typed, NEW h \in Handlers, NotifyOps(h)
    PROVE  Typed'
<1>1. TablesTyped /\ WritersTyped /\ TasksTyped /\ WireTyped /\ SyncerTyped
      /\ ScalarsTyped /\ HooksTyped /\ left \in Scenario
  BY Zenon, TypedByParts
<1>2. handler[h] \in NotifyTask
  BY Zenon, <1>1 DEF NotifyOps, At, TasksTyped, IdleTask, BeginTask, TxTask, NotifyTask
<1>3. handler[h].batch \in Nat /\ handler[h].update \in Update \cup {NoUpdate}
  BY Zenon, <1>2 DEF NotifyTask
<1>4. TasksTyped'
  BY Zenon, <1>1 DEF NotifyOps, TasksTyped, Idle, IdleTask
<1>5. WireTyped'
  BY Zenon, <1>1, <1>3 DEF NotifyOps, WireTyped, Forward
<1>6. HooksTyped'
  BY Zenon, <1>1, <1>3, AnnounceTyped, PartsKept DEF NotifyOps
<1>7. UNCHANGED <<clock, records, repo, oplog, writers, syncer, committed, left>>
  BY Zenon DEF NotifyOps
<1> QED
  BY ZenonT(60), <1>1, <1>4, <1>5, <1>6, <1>7, PartsKept, TypedNextByParts

(* A report leaves its request at its announcements, with an update if it  *)
(* was recorded as one.                                                    *)
LEMMA ReportOutcome ==
    ASSUME NEW h \in Handlers, NEW a \in Authors, NEW rev \in left.revs \cup {None},
           NotifyWrite(h, a, rev)
    PROVE  \E batch \in {None, committed + 1} :
             \/ /\ handler' = [handler EXCEPT ![h] =
                     [at |-> "notify", batch |-> batch, update |-> NoUpdate]]
                /\ UNCHANGED writers
             \/ \E now \in generate_tid :
                  /\ writers' = Record(a, rev, EmptyFold, now).writers
                  /\ handler' = [handler EXCEPT ![h] =
                       [at |-> "notify", batch |-> batch,
                        update |-> Record(a, rev, EmptyFold, now).update]]
  BY Zenon DEF NotifyWrite

LEMMA NotifyWriteTyped ==
    ASSUME Typed, NEW h \in Handlers, NEW a \in Authors, NEW rev \in left.revs \cup {None},
           NotifyWrite(h, a, rev)
    PROVE  Typed'
<1>1. TablesTyped /\ WritersTyped /\ TasksTyped /\ WireTyped /\ SyncerTyped
      /\ ScalarsTyped /\ HooksTyped /\ left \in Scenario
  BY Zenon, TypedByParts
<1>2. rev \in Nat /\ EmptyFold \in [Elements -> Int]
  BY <1>1 DEF Scenario, EmptyFold, None
<1>3. PICK batch \in {None, committed + 1} :
        \/ /\ handler' = [handler EXCEPT ![h] =
                [at |-> "notify", batch |-> batch, update |-> NoUpdate]]
           /\ UNCHANGED writers
        \/ \E now \in generate_tid :
             /\ writers' = Record(a, rev, EmptyFold, now).writers
             /\ handler' = [handler EXCEPT ![h] =
                  [at |-> "notify", batch |-> batch,
                   update |-> Record(a, rev, EmptyFold, now).update]]
  BY ZenonT(60), ReportOutcome
<1>4. batch \in Nat
  BY <1>1, <1>3 DEF ScalarsTyped, None
<1>5. ASSUME NEW update \in Update \cup {NoUpdate},
             handler' = [handler EXCEPT ![h] =
               [at |-> "notify", batch |-> batch, update |-> update]]
      PROVE  TasksTyped'
  <2> DEFINE next == [at |-> "notify", batch |-> batch, update |-> update]
  <2>1. next \in NotifyTask
    BY Zenon, <1>4 DEF NotifyTask
  <2>2. handler' = [handler EXCEPT ![h] = next]
    BY Zenon, <1>5
  <2> HIDE DEF next
  <2> QED BY Zenon, <1>1, <2>1, <2>2 DEF TasksTyped
<1>9. WritersTyped' /\ TasksTyped'
  <2>1. CASE /\ handler' = [handler EXCEPT ![h] =
                  [at |-> "notify", batch |-> batch, update |-> NoUpdate]]
             /\ UNCHANGED writers
    BY Zenon, <1>1, <1>5, <2>1, PartsKept
  <2>2. ASSUME NEW now \in generate_tid,
               writers' = Record(a, rev, EmptyFold, now).writers,
               handler' = [handler EXCEPT ![h] =
                 [at |-> "notify", batch |-> batch,
                  update |-> Record(a, rev, EmptyFold, now).update]]
        PROVE  WritersTyped' /\ TasksTyped'
    <3>1. WritersTyped' /\ Record(a, rev, EmptyFold, now).update \in Update \cup {NoUpdate}
      BY ZenonT(60), <1>2, <2>2, RecordTyped DEF WritersTyped
    <3> QED BY Zenon, <1>5, <2>2, <3>1
  <2> QED BY Zenon, <1>3, <2>1, <2>2
<1>6. ScalarsTyped'
  BY <1>1 DEF ScalarsTyped, NotifyWrite
<1>7. left' \in Scenario
  BY Zenon, <1>1, SpendTyped DEF NotifyWrite
<1>8. UNCHANGED <<records, repo, oplog, wire, syncer, webhookVars>>
  BY Zenon DEF NotifyWrite
<1> QED
  BY ZenonT(60), <1>1, <1>6, <1>7, <1>8, <1>9, PartsKept, TypedNextByParts

LEMMA WireStepTyped ==
    ASSUME Typed, NEW u \in wire, Hear(u) \/ LoseUpdate(u)
    PROVE  Typed'
<1>1. TablesTyped /\ WritersTyped /\ TasksTyped /\ WireTyped /\ SyncerTyped
      /\ ScalarsTyped /\ HooksTyped /\ left \in Scenario
  BY Zenon, TypedByParts
<1>2. WireTyped'
  BY Zenon, <1>1 DEF WireTyped, Hear, LoseUpdate
<1>3. u \in Update
  BY Zenon, <1>1 DEF WireTyped
<1>4. SyncerTyped'
  <2>1. CASE Hear(u) /\ u.prev = syncer.seen
    <3>1. syncer' = [seen  |-> u.spaceRev,
                     known |-> [syncer.known EXCEPT ![u.repo] = [rev |-> u.rev, hash |-> u.hash]]]
      BY Zenon, <2>1 DEF Hear, Learn
    <3> QED BY Zenon, <1>1, <1>3, <3>1 DEF SyncerTyped, Update
  <2>2. CASE ~(Hear(u) /\ u.prev = syncer.seen)
    <3>1. UNCHANGED syncer
      BY Zenon, <2>2 DEF Hear, LoseUpdate
    <3> QED BY Zenon, <1>1, <3>1, PartsKept
  <2> QED BY Zenon, <2>1, <2>2
<1>5. left' \in Scenario
  BY Zenon, <1>1, SpendTyped DEF Hear, LoseUpdate
<1>6. UNCHANGED <<clock, records, repo, oplog, writers, handler, committed, webhookVars>>
  BY Zenon DEF Hear, LoseUpdate
<1> QED
  BY ZenonT(60), <1>1, <1>2, <1>4, <1>5, <1>6, PartsKept, TypedNextByParts

LEMMA ListReposTyped ==
    ASSUME Typed, ListRepos
    PROVE  Typed'
<1>1. TablesTyped /\ WritersTyped /\ TasksTyped /\ WireTyped /\ SyncerTyped
      /\ ScalarsTyped /\ HooksTyped /\ left \in Scenario
  BY Zenon, TypedByParts
<1> DEFINE page == List(syncer.seen)
           learned == [a \in Authors |->
                         IF a \in page THEN [rev |-> writers[a].rev, hash |-> writers[a].hash]
                                      ELSE syncer.known[a]]
<1>2. PICK last \in page : syncer' = [seen |-> writers[last].spaceRev, known |-> learned]
  BY Zenon DEF ListRepos
<1>3. last \in Authors
  BY Zenon, <1>2 DEF List
<1> HIDE DEF page
<1>4. learned \in [Authors -> [rev : Nat, hash : [Elements -> Int]]]
  BY Zenon, <1>1 DEF WritersTyped, WriterType, SyncerTyped
<1> HIDE DEF learned
<1>5. SyncerTyped'
  BY Zenon, <1>1, <1>2, <1>3, <1>4 DEF SyncerTyped, WritersTyped, WriterType
<1>6. UNCHANGED <<clock, records, repo, oplog, writers, handler, wire, committed, left, webhookVars>>
  BY Zenon DEF ListRepos
<1> QED
  BY Zenon, <1>1, <1>5, <1>6, PartsKept, TypedNextByParts

LEMMA TickTyped ==
    ASSUME Typed, Tick
    PROVE  Typed'
<1>1. TablesTyped /\ WritersTyped /\ TasksTyped /\ WireTyped /\ SyncerTyped
      /\ ScalarsTyped /\ HooksTyped /\ left \in Scenario
  BY Zenon, TypedByParts
<1>2. ScalarsTyped'
  BY <1>1 DEF ScalarsTyped, Tick
<1>3. left' \in Scenario
  BY Zenon, <1>1, SpendTyped DEF Tick
<1> QED
  BY ZenonT(60), <1>1, <1>2, <1>3, PartsKept, TypedNextByParts DEF Tick

LEMMA WebhooksTyped ==
    ASSUME Typed, Webhooks
    PROVE  Typed'
<1>1. TablesTyped /\ WritersTyped /\ TasksTyped /\ WireTyped /\ SyncerTyped
      /\ ScalarsTyped /\ HooksTyped /\ left \in Scenario
  BY Zenon, TypedByParts
<1>2. HooksTyped'
  BY Zenon, <1>1, WorkerTyped DEF Webhooks
<1>3. left' \in Scenario
  BY Zenon, <1>1, SpendTyped DEF Webhooks, writeVars
<1>4. UNCHANGED <<clock, records, repo, oplog, writers, handler, wire, syncer, committed>>
  BY Zenon DEF Webhooks, writeVars
<1> QED
  BY ZenonT(60), <1>1, <1>2, <1>3, <1>4, PartsKept, TypedNextByParts

LEMMA TypedStep == Typed /\ [Next]_vars => Typed'
<1> SUFFICES ASSUME Typed, [Next]_vars PROVE Typed'
  BY Zenon
<1>1. ASSUME NEW h \in Handlers, NEW a \in Authors, NEW ops \in left.requests, Admit(h, a, ops)
      PROVE  Typed'
  BY Zenon, <1>1, AdmitTyped
<1>2. ASSUME NEW h \in Handlers, HandlerStep(h) PROVE Typed'
  BY ZenonT(60), <1>2, BeginTyped, ApplyOpTyped, EndTyped, CommitTyped, NotifyOpsTyped DEF HandlerStep
<1>3. ASSUME NEW h \in Handlers, Abandon(h) PROVE Typed'
  BY Zenon, <1>3, EndTyped
<1>4. ASSUME NEW h \in Handlers, NEW a \in Authors, NEW rev \in left.revs \cup {None},
             NotifyWrite(h, a, rev)
      PROVE  Typed'
  BY Zenon, <1>4, NotifyWriteTyped
<1>5. ASSUME NEW u \in wire, Hear(u) \/ LoseUpdate(u) PROVE Typed'
  BY Zenon, <1>5, WireStepTyped
<1>6. CASE ListRepos
  BY Zenon, <1>6, ListReposTyped
<1>7. CASE Tick
  BY Zenon, <1>7, TickTyped
<1>8. CASE Webhooks
  BY Zenon, <1>8, WebhooksTyped
<1>9. CASE UNCHANGED vars
  <2>1. UNCHANGED <<writeVars, webhookVars>>
    BY Zenon, <1>9 DEF vars
  <2> QED BY Zenon, <2>1, PartsKept, TypedByParts, TypedNextByParts DEF writeVars
<1> QED
  BY ZenonT(60), <1>1, <1>2, <1>3, <1>4, <1>5, <1>6, <1>7, <1>8, <1>9 DEF Next

(* Types hold in every behaviour, the channel never outgrows its bound and *)
(* the worker has a batch in hand exactly while it dispatches.             *)
THEOREM TypeCorrect == Spec => []TypeOK
<1>1. Typed => TypeOK
  BY Zenon DEF Typed
<1> QED
  BY InitTyped, TypedStep, <1>1, PTL DEF Spec

-----------------------------------------------------------------------------
(* The folded hash *)

(* Folding an op that applies moves the hash from the fold of the records  *)
(* before it to the fold of the records after it: the cid removed is the   *)
(* one the record had.                                                     *)
LEMMA FoldStep ==
    ASSUME NEW recs \in [Keys -> Cell], NEW op \in Op, Applies(op, recs)
    PROVE  Refold(FoldOf(recs), op.key, OldCid(op, recs), op.cid)
             = FoldOf([recs EXCEPT ![op.key] = op.cid])
<1>1. OldCid(op, recs) = recs[op.key]
  BY Zenon DEF OldCid, Applies
<1>2. op.key \in Keys /\ op.cid \in Cell /\ recs[op.key] \in Cell
  BY Zenon DEF Op, Cell
<1> DEFINE after == [recs EXCEPT ![op.key] = op.cid]
<1>3. \A e \in Elements :
        (IF recs[e[1]] = e[2] THEN 1 ELSE 0) + (IF e = <<op.key, op.cid>> THEN 1 ELSE 0)
          - (IF e = <<op.key, recs[op.key]>> THEN 1 ELSE 0)
        = IF after[e[1]] = e[2] THEN 1 ELSE 0
  <2> TAKE e \in Elements
  <2>1. PICK k \in Keys, c \in Cids : e = <<k, c>>
    BY DEF Elements
  <2>2. CASE k = op.key
    BY <1>2, <2>1, <2>2
  <2>3. CASE k # op.key
    BY <1>2, <2>1, <2>3
  <2> QED BY Zenon, <2>2, <2>3
<1> HIDE DEF after
<1>4. FoldOf(recs) = [e \in Elements |-> IF recs[e[1]] = e[2] THEN 1 ELSE 0]
  BY Zenon DEF FoldOf
<1>5. FoldOf(after) = [e \in Elements |-> IF after[e[1]] = e[2] THEN 1 ELSE 0]
  BY Zenon DEF FoldOf
<1>6. Refold(FoldOf(recs), op.key, recs[op.key], op.cid) = FoldOf(after)
  BY <1>3, <1>4, <1>5 DEF Refold
<1> QED
  BY Zenon, <1>1, <1>6 DEF after

Written(h) == {handler[h].log[i].key : i \in DOMAIN handler[h].log}

(* The inductive invariant: one transaction at a time; its hash is the     *)
(* fold of the records as it sees them, which are the committed records    *)
(* but for those it has written.                                           *)
OneTransaction ==
    \A g, h \in Handlers : At(g, "tx") /\ At(h, "tx") => g = h

Folded(h) ==
    /\ handler[h].fold = FoldOf(handler[h].recs)
    /\ \A k \in Keys \ Written(h) : handler[h].recs[k] = records[handler[h].author][k]

FoldInv ==
    /\ OneTransaction
    /\ \A h \in Handlers : At(h, "tx") => Folded(h)
    /\ CommitDescribesRecords

LEMMA InitFolds == Init => FoldInv
<1> SUFFICES ASSUME Init PROVE FoldInv
  BY Zenon
<1>1. \A h \in Handlers : ~At(h, "tx")
  BY Zenon DEF Init, At, Idle
<1>2. CommitDescribesRecords
  <2> SUFFICES ASSUME NEW a \in Hosted PROVE repo[a].fold = FoldOf(records[a])
    BY Zenon DEF CommitDescribesRecords
  <2>1. a \in Authors
    BY Zenon, SpaceWritesAssumption
  <2>2. repo[a].fold = EmptyFold /\ records[a] = [k \in Keys |-> None]
    BY Zenon, <2>1 DEF Init
  <2>3. \A e \in Elements : e[1] \in Keys /\ e[2] # None
    BY Zenon, SpaceWritesAssumption DEF Elements
  <2> QED BY Zenon, <2>2, <2>3 DEF EmptyFold, FoldOf
<1> QED
  BY Zenon, <1>1, <1>2 DEF FoldInv, OneTransaction

(* Steps that open no transaction and commit none *)
LEMMA FoldsKept ==
    ASSUME FoldInv, TasksTyped, UNCHANGED <<records, repo>>,
           \/ UNCHANGED handler
           \/ \E h \in Handlers : \E t : t.at # "tx" /\ handler' = [handler EXCEPT ![h] = t]
    PROVE  FoldInv'
<1>1. \A g \in Handlers : At(g, "tx")' => At(g, "tx") /\ handler'[g] = handler[g]
  BY Zenon DEF At, TasksTyped
<1>2. OneTransaction'
  BY Zenon, <1>1 DEF OneTransaction, FoldInv
<1>3. ASSUME NEW g \in Handlers, At(g, "tx")' PROVE Folded(g)'
  <2>1. Folded(g) /\ handler'[g] = handler[g]
    BY Zenon, <1>1, <1>3 DEF FoldInv
  <2> QED BY <2>1 DEF Folded, Written
<1>4. CommitDescribesRecords'
  BY Zenon DEF CommitDescribesRecords, FoldInv
<1> QED
  BY Zenon, <1>2, <1>3, <1>4 DEF FoldInv

LEMMA BeginFolds ==
    ASSUME Typed, FoldInv, NEW h \in Handlers, BeginSpaceWrite(h)
    PROVE  FoldInv'
<1> DEFINE w == handler[h]
<1>1. TasksTyped
  BY Zenon, TypedByParts
<1>2. w \in BeginTask
  BY Zenon, <1>1 DEF BeginSpaceWrite, At, TasksTyped, IdleTask, BeginTask, TxTask, NotifyTask
<1>3. handler' = [handler EXCEPT ![h] =
         [at |-> "tx", author |-> w.author, ops |-> w.ops, rev |-> w.rev,
          recs |-> records[w.author], fold |-> repo[w.author].fold, log |-> <<>>]]
  BY Zenon, <1>1 DEF BeginSpaceWrite, TasksTyped
<1>4. \A g \in Handlers : At(g, "tx")' => g = h
  BY Zenon, <1>1, <1>3 DEF BeginSpaceWrite, SpaceIsFree, At, TasksTyped
<1>5. UNCHANGED <<records, repo>>
  BY Zenon DEF BeginSpaceWrite
<1>6. Folded(h)'
  <2>1. handler'[h].recs = records[w.author] /\ handler'[h].fold = repo[w.author].fold
        /\ handler'[h].author = w.author
    BY Zenon, <1>1, <1>3 DEF TasksTyped
  <2>2. repo[w.author].fold = FoldOf(records[w.author])
    BY Zenon, <1>2 DEF FoldInv, CommitDescribesRecords, BeginTask
  <2> QED BY Zenon, <1>5, <2>1, <2>2 DEF Folded
<1>7. CommitDescribesRecords'
  BY Zenon, <1>5 DEF CommitDescribesRecords, FoldInv
<1> QED
  BY Zenon, <1>4, <1>6, <1>7 DEF FoldInv, OneTransaction

LEMMA ApplyOpFolds ==
    ASSUME Typed, FoldInv, NEW h \in Handlers, ApplyOp(h)
    PROVE  FoldInv'
<1> DEFINE w == handler[h]
           op == Head(w.ops)
           old == OldCid(op, w.recs)
           entry == [rev |-> w.rev, key |-> op.key, cid |-> op.cid, prev |-> old]
           next == [w EXCEPT !.ops  = Tail(w.ops),
                             !.recs = [w.recs EXCEPT ![op.key] = op.cid],
                             !.fold = Refold(w.fold, op.key, old, op.cid),
                             !.log  = Append(w.log, entry)]
<1>1. TasksTyped
  BY Zenon, TypedByParts
<1>2. w \in TxTask /\ op \in Op /\ At(h, "tx")
  BY Zenon, <1>1, AtTx, OpTyped DEF ApplyOp
<1>3. handler' = [handler EXCEPT ![h] = next] /\ Applies(op, w.recs)
      /\ UNCHANGED <<records, repo>>
  BY Zenon DEF ApplyOp
<1>4. handler'[h] = next
  BY Zenon, <1>1, <1>3 DEF TasksTyped
<1>5. /\ next.recs = [w.recs EXCEPT ![op.key] = op.cid]
      /\ next.fold = Refold(w.fold, op.key, old, op.cid)
      /\ next.log = Append(w.log, entry)
      /\ next.author = w.author
  BY Zenon, <1>2 DEF TxTask
<1>6. w.recs \in [Keys -> Cell] /\ w.log \in Seq(Entry)
  BY Zenon, <1>2 DEF TxTask
<1>7. Folded(h)
  BY Zenon, <1>2 DEF FoldInv
<1> HIDE DEF next, op
<1>8. Folded(h)'
  <2>1. next.fold = FoldOf(next.recs)
    <3>1. w.fold = FoldOf(w.recs)
      BY Zenon, <1>7 DEF Folded
    <3>2. Refold(FoldOf(w.recs), op.key, old, op.cid) = FoldOf([w.recs EXCEPT ![op.key] = op.cid])
      BY Zenon, <1>2, <1>3, <1>6, FoldStep
    <3> QED BY Zenon, <1>5, <3>1, <3>2
  <2>2. ASSUME NEW k \in Keys \ Written(h)'
        PROVE  next.recs[k] = records[w.author][k]
    <3>1. Len(next.log) = Len(w.log) + 1 /\ next.log[Len(w.log) + 1] = entry
          /\ \A i \in 1 .. Len(w.log) : next.log[i] = w.log[i]
          /\ DOMAIN next.log = 1 .. Len(w.log) + 1
      BY SMTT(60), <1>5, <1>6
    <3>2. entry.key \in Written(h)'
      BY <1>4, <1>6, <3>1 DEF Written
    <3>3. k # op.key
      BY Zenon, <2>2, <3>2
    <3>4. \A i \in DOMAIN w.log : i \in DOMAIN next.log /\ next.log[i] = w.log[i]
      <4>1. DOMAIN w.log = 1 .. Len(w.log) /\ Len(w.log) \in Nat
        BY <1>6
      <4>2. \A i \in 1 .. Len(w.log) : i \in 1 .. Len(w.log) + 1
        BY <4>1
      <4> QED BY <3>1, <4>1, <4>2, Zenon
    <3>5. k \notin Written(h)
      BY Zenon, <1>4, <2>2, <3>4 DEF Written
    <3>6. w.recs[k] = records[w.author][k]
      BY Zenon, <1>7, <3>5 DEF Folded
    <3> QED BY ZenonT(60), <1>5, <1>6, <3>3, <3>6
  <2> QED BY ZenonT(60), <1>3, <1>4, <1>5, <2>1, <2>2 DEF Folded
<1>9. \A g \in Handlers : At(g, "tx")' => g = h
  BY Zenon, <1>1, <1>2, <1>3 DEF At, TasksTyped, FoldInv, OneTransaction
<1>10. CommitDescribesRecords'
  BY Zenon, <1>3 DEF CommitDescribesRecords, FoldInv
<1> QED
  BY Zenon, <1>8, <1>9, <1>10 DEF FoldInv, OneTransaction

LEMMA CommitFolds ==
    ASSUME Typed, FoldInv, NEW h \in Handlers, Commit(h)
    PROVE  FoldInv'
<1> DEFINE w == handler[h]
           a == w.author
           after == [k \in Keys |-> IF k \in Written(h) THEN w.recs[k] ELSE records[a][k]]
<1>1. TasksTyped /\ TablesTyped
  BY Zenon, TypedByParts
<1>2. w \in TxTask /\ a \in Authors /\ At(h, "tx")
  BY Zenon, <1>1, AtTx DEF Commit
<1>3. Folded(h)
  BY Zenon, <1>2 DEF FoldInv
<1>4. /\ records' = [records EXCEPT ![a] = after]
      /\ repo' = [repo EXCEPT ![a] = [fold |-> w.fold, rev |-> w.rev]]
  BY Zenon DEF Commit, Written
<1>5. \E t : t.at # "tx" /\ handler' = [handler EXCEPT ![h] = t]
  BY Zenon DEF Commit
<1>6. \A g \in Handlers : ~At(g, "tx")'
  BY Zenon, <1>1, <1>2, <1>5 DEF At, TasksTyped, FoldInv, OneTransaction
<1>7. after = w.recs
  <2>1. w.recs \in [Keys -> Cell]
    BY Zenon, <1>2 DEF TxTask
  <2> QED BY Zenon, <1>3, <2>1 DEF Folded
<1>8. CommitDescribesRecords'
  <2> SUFFICES ASSUME NEW b \in Hosted PROVE repo'[b].fold = FoldOf(records'[b])
    BY Zenon DEF CommitDescribesRecords
  <2>1. b \in Authors
    BY Zenon, SpaceWritesAssumption
  <2>2. CASE b = a
    <3>1. repo'[a].fold = w.fold /\ records'[a] = w.recs
      BY Zenon, <1>1, <1>2, <1>4, <1>7 DEF TablesTyped
    <3> QED BY Zenon, <1>3, <2>2, <3>1 DEF Folded
  <2>3. CASE b # a
    <3>1. repo'[b] = repo[b] /\ records'[b] = records[b]
      BY Zenon, <1>1, <1>4, <2>1, <2>3 DEF TablesTyped
    <3> QED BY Zenon, <3>1 DEF FoldInv, CommitDescribesRecords
  <2> QED BY Zenon, <2>2, <2>3
<1> QED
  BY Zenon, <1>6, <1>8 DEF FoldInv, OneTransaction

LEMMA FoldStepInv == Typed /\ FoldInv /\ [Next]_vars => FoldInv'
<1> SUFFICES ASSUME Typed, FoldInv, [Next]_vars PROVE FoldInv'
  BY Zenon
<1>0. TasksTyped
  BY Zenon, TypedByParts
<1>1. ASSUME NEW h \in Handlers, NEW a \in Authors, NEW ops \in left.requests, Admit(h, a, ops)
      PROVE  FoldInv'
  BY Zenon, <1>0, <1>1, FoldsKept DEF Admit
<1>2. ASSUME NEW h \in Handlers, HandlerStep(h) PROVE FoldInv'
  <2>1. CASE Refuse(h) \/ NotifyOps(h)
    BY Zenon, <1>0, <2>1, FoldsKept DEF Refuse, NotifyOps, Idle
  <2> QED BY Zenon, <1>2, <2>1, BeginFolds, ApplyOpFolds, CommitFolds DEF HandlerStep
<1>3. ASSUME NEW h \in Handlers, Abandon(h) PROVE FoldInv'
  BY Zenon, <1>0, <1>3, FoldsKept DEF Abandon, Idle
<1>5. ASSUME NEW h \in Handlers, NEW a \in Authors, NEW rev \in left.revs \cup {None},
             NotifyWrite(h, a, rev)
      PROVE  FoldInv'
  BY ZenonT(60), <1>0, <1>5, ReportOutcome, FoldsKept DEF NotifyWrite
<1>4. ASSUME UNCHANGED <<records, repo, handler>> PROVE FoldInv'
  BY Zenon, <1>0, <1>4, FoldsKept
<1> QED
  BY ZenonT(60), <1>1, <1>2, <1>3, <1>4, <1>5 DEF Next, Hear, LoseUpdate, ListRepos, Tick,
     Webhooks, writeVars, vars

(* Every committed set hash is the fold of its author's records, for any   *)
(* number of authors, records, concurrent requests and ops in a request.   *)
THEOREM CommitsDescribeRecords == Spec => []CommitDescribesRecords
<1>1. Typed /\ FoldInv => CommitDescribesRecords
  BY Zenon DEF FoldInv
<1> QED
  BY InitTyped, TypedStep, InitFolds, FoldStepInv, <1>1, PTL DEF Spec

-----------------------------------------------------------------------------
(* The oplog *)

LEMMA OneMoreCounted ==
    ASSUME NEW n \in Nat, NEW S \in SUBSET (1..n)
    PROVE  /\ Cardinality(S) \in Nat
           /\ Cardinality(S \cup {n + 1}) = Cardinality(S) + 1
<1>1. IsFiniteSet(1..n)
  BY FS_Interval
<1>2. IsFiniteSet(S)
  BY Zenon, <1>1, FS_Subset
<1>3. Cardinality(S) \in Nat
  BY Zenon, <1>2, FS_CardinalityType
<1>4. n + 1 \notin S
  OBVIOUS
<1>5. Cardinality(S \cup {n + 1}) = Cardinality(S) + 1
  BY Zenon, <1>2, <1>4, FS_AddElement
<1> QED BY Zenon, <1>3, <1>5

(* One more entry adds its cid to what the log comes to and takes away the  *)
(* cid it replaced.                                                        *)
LEMMA ExplainedGrows ==
    ASSUME NEW log \in Seq(Entry), NEW x \in Entry
    PROVE  Explained(Append(log, x)) = Refold(Explained(log), x.key, x.prev, x.cid)
<1> DEFINE n == Len(log)
           more == Append(log, x)
<1>1. /\ n \in Nat /\ DOMAIN log = 1..n /\ DOMAIN more = 1..(n + 1)
      /\ more[n + 1] = x /\ \A i \in 1..n : more[i] = log[i]
  OBVIOUS
<1>2. \A i : i \in 1..(n + 1) <=> i \in 1..n \/ i = n + 1
  BY <1>1
<1> HIDE DEF n, more
<1>3. ASSUME NEW e \in Elements
      PROVE  /\ Cardinality(Adding(log, e)) \in Nat
             /\ Cardinality(Adding(more, e))
                  = Cardinality(Adding(log, e)) + (IF e = <<x.key, x.cid>> THEN 1 ELSE 0)
  <2>1. Adding(log, e) \in SUBSET (1..n)
    BY Zenon, <1>1 DEF Adding
  <2>2. Adding(more, e) = IF e = <<x.key, x.cid>> THEN Adding(log, e) \cup {n + 1}
                                                  ELSE Adding(log, e)
    BY <1>1, <1>2 DEF Adding
  <2>3. /\ Cardinality(Adding(log, e)) \in Nat
        /\ Cardinality(Adding(log, e) \cup {n + 1}) = Cardinality(Adding(log, e)) + 1
    BY Zenon, <1>1, <2>1, OneMoreCounted
  <2> QED BY <2>2, <2>3
<1>4. ASSUME NEW e \in Elements
      PROVE  /\ Cardinality(Removing(log, e)) \in Nat
             /\ Cardinality(Removing(more, e))
                  = Cardinality(Removing(log, e)) + (IF e = <<x.key, x.prev>> THEN 1 ELSE 0)
  <2>1. Removing(log, e) \in SUBSET (1..n)
    BY Zenon, <1>1 DEF Removing
  <2>2. Removing(more, e) = IF e = <<x.key, x.prev>> THEN Removing(log, e) \cup {n + 1}
                                                     ELSE Removing(log, e)
    BY SMTT(60), <1>1, <1>2 DEF Removing
  <2>3. /\ Cardinality(Removing(log, e)) \in Nat
        /\ Cardinality(Removing(log, e) \cup {n + 1}) = Cardinality(Removing(log, e)) + 1
    BY Zenon, <1>1, <2>1, OneMoreCounted
  <2> QED BY <2>2, <2>3
<1>5. ASSUME NEW e \in Elements
      PROVE  Explained(more)[e] = Refold(Explained(log), x.key, x.prev, x.cid)[e]
  <2>1. /\ Explained(more)[e] = Cardinality(Adding(more, e)) - Cardinality(Removing(more, e))
        /\ Explained(log)[e] = Cardinality(Adding(log, e)) - Cardinality(Removing(log, e))
    BY Zenon DEF Explained
  <2>2. Refold(Explained(log), x.key, x.prev, x.cid)[e]
          = Explained(log)[e] + (IF e = <<x.key, x.cid>> THEN 1 ELSE 0)
                              - (IF e = <<x.key, x.prev>> THEN 1 ELSE 0)
    BY Zenon DEF Refold
  <2> QED BY <1>3, <1>4, <2>1, <2>2
<1> QED BY Zenon, <1>5 DEF Explained, Refold, more

LEMMA ConcatAppend ==
    ASSUME NEW S, NEW s \in Seq(S), NEW t \in Seq(S), NEW x \in S
    PROVE  s \o t \in Seq(S) /\ s \o Append(t, x) = Append(s \o t, x)
<1>1. Append(t, x) \in Seq(S) /\ s \o t \in Seq(S)
  OBVIOUS
<1>2. Append(s \o t, x) \in Seq(S) /\ s \o Append(t, x) \in Seq(S)
  BY <1>1
<1>3. Len(s) \in Nat /\ Len(t) \in Nat
  OBVIOUS
<1>4. Len(s \o Append(t, x)) = Len(s) + Len(t) + 1
  BY <1>1, <1>2, <1>3
<1>5. Len(Append(s \o t, x)) = Len(s) + Len(t) + 1
  BY <1>1, <1>2, <1>3
<1>6. ASSUME NEW i \in 1..(Len(s) + Len(t) + 1)
      PROVE  (s \o Append(t, x))[i] = Append(s \o t, x)[i]
  <2>1. CASE i <= Len(s)
    BY <1>1, <1>2, <1>3, <2>1
  <2>2. CASE i > Len(s) /\ i <= Len(s) + Len(t)
    BY <1>1, <1>2, <1>3, <2>2
  <2>3. CASE i = Len(s) + Len(t) + 1
    BY <1>1, <1>2, <1>3, <2>3
  <2> QED BY <1>3, <2>1, <2>2, <2>3
<1> QED BY <1>1, <1>2, <1>3, <1>4, <1>5, <1>6

(* While a transaction is open its hash is what the author's oplog and the *)
(* entries it will append come to.                                         *)
Logged(h) == handler[h].fold = Explained(oplog[handler[h].author] \o handler[h].log)

LogInv ==
    /\ \A h \in Handlers : At(h, "tx") => Logged(h)
    /\ OplogExplainsCommit

LEMMA InitLogs == Init => LogInv
<1> SUFFICES ASSUME Init PROVE LogInv
  BY Zenon
<1>1. \A h \in Handlers : ~At(h, "tx")
  BY Zenon DEF Init, At, Idle
<1>2. Explained(<<>>) = EmptyFold
  <2>1. DOMAIN <<>> = {}
    OBVIOUS
  <2>2. \A e : Adding(<<>>, e) = {} /\ Removing(<<>>, e) = {}
    BY Zenon, <2>1 DEF Adding, Removing
  <2>3. Cardinality({}) - Cardinality({}) = 0
    BY FS_EmptySet
  <2> QED BY Zenon, <2>2, <2>3 DEF Explained, EmptyFold
<1>3. \A a \in Hosted : repo[a].fold = EmptyFold /\ oplog[a] = <<>>
  BY Zenon, SpaceWritesAssumption DEF Init
<1> QED BY ZenonT(60), <1>1, <1>2, <1>3 DEF LogInv, OplogExplainsCommit

(* Steps that open no transaction and commit none *)
LEMMA LogsKept ==
    ASSUME LogInv, TasksTyped, UNCHANGED <<oplog, repo>>,
           \/ UNCHANGED handler
           \/ \E h \in Handlers : \E t : t.at # "tx" /\ handler' = [handler EXCEPT ![h] = t]
    PROVE  LogInv'
<1>1. \A g \in Handlers : At(g, "tx")' => At(g, "tx") /\ handler'[g] = handler[g]
  BY Zenon DEF At, TasksTyped
<1>2. \A g \in Handlers : At(g, "tx")' => Logged(g)'
  BY Zenon, <1>1 DEF LogInv, Logged
<1> QED BY Zenon, <1>2 DEF LogInv, OplogExplainsCommit

LEMMA BeginLogs ==
    ASSUME Typed, FoldInv, LogInv, NEW h \in Handlers, BeginSpaceWrite(h)
    PROVE  LogInv'
<1> DEFINE w == handler[h]
<1>1. TasksTyped /\ TablesTyped
  BY Zenon, TypedByParts
<1>2. w \in BeginTask
  BY Zenon, <1>1 DEF BeginSpaceWrite, At, TasksTyped, IdleTask, BeginTask, TxTask, NotifyTask
<1>3. w.author \in Hosted /\ w.author \in Authors
  BY Zenon, <1>2, SpaceWritesAssumption DEF BeginTask
<1>4. /\ handler'[h].author = w.author /\ handler'[h].log = <<>>
      /\ handler'[h].fold = repo[w.author].fold /\ UNCHANGED <<oplog, repo>>
  BY Zenon, <1>1 DEF BeginSpaceWrite, TasksTyped
<1>5. oplog[w.author] \o <<>> = oplog[w.author]
  <2>1. oplog[w.author] \in Seq(Entry)
    BY Zenon, <1>1, <1>3 DEF TablesTyped
  <2> QED BY <2>1
<1>6. Logged(h)'
  BY Zenon, <1>3, <1>4, <1>5 DEF Logged, LogInv, OplogExplainsCommit
<1>7. \A g \in Handlers : At(g, "tx")' => g = h
  BY Zenon, <1>1 DEF BeginSpaceWrite, SpaceIsFree, At, TasksTyped
<1> QED BY Zenon, <1>4, <1>6, <1>7 DEF LogInv, OplogExplainsCommit

LEMMA ApplyOpLogs ==
    ASSUME Typed, FoldInv, LogInv, NEW h \in Handlers, ApplyOp(h)
    PROVE  LogInv'
<1> DEFINE w == handler[h]
           op == Head(w.ops)
           old == OldCid(op, w.recs)
           entry == [rev |-> w.rev, key |-> op.key, cid |-> op.cid, prev |-> old]
           base == oplog[w.author]
<1>1. TasksTyped /\ TablesTyped
  BY Zenon, TypedByParts
<1>2. w \in TxTask /\ op \in Op /\ At(h, "tx")
  BY Zenon, <1>1, AtTx, OpTyped DEF ApplyOp
<1>3. /\ handler'[h].author = w.author /\ handler'[h].log = Append(w.log, entry)
      /\ handler'[h].fold = Refold(w.fold, op.key, old, op.cid)
      /\ UNCHANGED <<oplog, repo>>
  BY Zenon, <1>1, <1>2 DEF ApplyOp, TasksTyped, TxTask
<1>4. entry \in Entry /\ base \in Seq(Entry) /\ w.log \in Seq(Entry)
  <2>1. w.author \in Authors /\ w.rev \in Nat /\ w.log \in Seq(Entry)
        /\ w.recs \in [Keys -> Cell]
    BY Zenon, <1>2, SpaceWritesAssumption DEF TxTask
  <2>2. op.key \in Keys /\ op.cid \in Cell /\ old \in Cell
    BY Zenon, <1>2, <2>1 DEF Op, OldCid, Cell
  <2> QED BY Zenon, <1>1, <2>1, <2>2 DEF Entry, Cell, TablesTyped
<1> HIDE DEF base, entry
<1>5. /\ base \o Append(w.log, entry) = Append(base \o w.log, entry)
      /\ base \o w.log \in Seq(Entry)
  <2> DEFINE mine == w.log
  <2>1. base \in Seq(Entry) /\ mine \in Seq(Entry) /\ entry \in Entry
    BY Zenon, <1>4
  <2> HIDE DEF mine
  <2>2. /\ base \o mine \in Seq(Entry)
        /\ base \o Append(mine, entry) = Append(base \o mine, entry)
    BY SMTT(30), <2>1, ConcatAppend
  <2> QED BY Zenon, <2>2 DEF mine
<1>6. w.fold = Explained(base \o w.log)
  BY Zenon, <1>2 DEF LogInv, Logged, base
<1>7. handler'[h].fold = Explained(base \o Append(w.log, entry))
  BY Zenon, <1>3, <1>4, <1>5, <1>6, ExplainedGrows DEF entry
<1>8. Logged(h)'
  BY Zenon, <1>3, <1>7 DEF Logged, base
<1>9. \A g \in Handlers : At(g, "tx")' => g = h
  BY Zenon, <1>1, <1>2 DEF ApplyOp, At, TasksTyped, FoldInv, OneTransaction
<1> QED BY ZenonT(60), <1>3, <1>8, <1>9 DEF LogInv, OplogExplainsCommit

LEMMA CommitLogs ==
    ASSUME Typed, FoldInv, LogInv, NEW h \in Handlers, Commit(h)
    PROVE  LogInv'
<1> DEFINE w == handler[h]
           a == w.author
<1>1. TasksTyped /\ TablesTyped
  BY Zenon, TypedByParts
<1>2. w \in TxTask /\ a \in Authors /\ At(h, "tx")
  BY Zenon, <1>1, AtTx DEF Commit
<1>3. /\ repo' = [repo EXCEPT ![a] = [fold |-> w.fold, rev |-> w.rev]]
      /\ oplog' = [oplog EXCEPT ![a] = oplog[a] \o w.log]
  BY Zenon DEF Commit
<1>4. \E t : t.at # "tx" /\ handler' = [handler EXCEPT ![h] = t]
  BY Zenon DEF Commit
<1>5. \A g \in Handlers : ~At(g, "tx")'
  BY Zenon, <1>1, <1>2, <1>4 DEF At, TasksTyped, FoldInv, OneTransaction
<1>6. ASSUME NEW b \in Hosted PROVE repo'[b].fold = Explained(oplog'[b])
  <2>1. b \in Authors
    BY Zenon, SpaceWritesAssumption
  <2>2. CASE b = a
    BY Zenon, <1>1, <1>2, <1>3, <2>2 DEF TablesTyped, LogInv, Logged
  <2>3. CASE b # a
    BY ZenonT(60), <1>1, <1>3, <1>6, <2>1, <2>3 DEF TablesTyped, LogInv, OplogExplainsCommit
  <2> QED BY Zenon, <2>2, <2>3
<1> QED BY Zenon, <1>5, <1>6 DEF LogInv, OplogExplainsCommit

LEMMA LogStep == Typed /\ FoldInv /\ LogInv /\ [Next]_vars => LogInv'
<1> SUFFICES ASSUME Typed, FoldInv, LogInv, [Next]_vars PROVE LogInv'
  BY Zenon
<1>0. TasksTyped
  BY Zenon, TypedByParts
<1>1. ASSUME NEW h \in Handlers, NEW a \in Authors, NEW ops \in left.requests, Admit(h, a, ops)
      PROVE  LogInv'
  BY Zenon, <1>0, <1>1, LogsKept DEF Admit
<1>2. ASSUME NEW h \in Handlers, HandlerStep(h) PROVE LogInv'
  <2>1. CASE Refuse(h) \/ NotifyOps(h)
    BY Zenon, <1>0, <2>1, LogsKept DEF Refuse, NotifyOps, Idle
  <2> QED BY Zenon, <1>2, <2>1, BeginLogs, ApplyOpLogs, CommitLogs DEF HandlerStep
<1>3. ASSUME NEW h \in Handlers, Abandon(h) PROVE LogInv'
  BY Zenon, <1>0, <1>3, LogsKept DEF Abandon, Idle
<1>5. ASSUME NEW h \in Handlers, NEW a \in Authors, NEW rev \in left.revs \cup {None},
             NotifyWrite(h, a, rev)
      PROVE  LogInv'
  BY ZenonT(60), <1>0, <1>5, ReportOutcome, LogsKept DEF NotifyWrite
<1>4. ASSUME UNCHANGED <<oplog, repo, handler>> PROVE LogInv'
  BY Zenon, <1>0, <1>4, LogsKept
<1> QED
  BY ZenonT(60), <1>1, <1>2, <1>3, <1>4, <1>5 DEF Next, Hear, LoseUpdate, ListRepos, Tick,
     Webhooks, writeVars, vars

(* What an author's logged ops add, less what they replace, is the          *)
(* committed set hash, for any number of authors, records, concurrent       *)
(* requests and ops in a request: a syncer that applies list_ops from the   *)
(* start arrives at the hash the commit declares.                           *)
THEOREM OplogsExplainCommits == Spec => []OplogExplainsCommit
<1>1. Typed /\ FoldInv /\ LogInv => OplogExplainsCommit
  BY Zenon DEF LogInv
<1> QED
  BY InitTyped, TypedStep, InitFolds, FoldStepInv, InitLogs, LogStep, <1>1, PTL DEF Spec

-----------------------------------------------------------------------------
(* The webhook worker *)

(* A worker that is gone has left its channel empty, and one that runs is  *)
(* the one the entry leads to.                                             *)
QueueInv ==
    /\ worker = "gone" => items = <<>>
    /\ worker # "gone" => listed

LEMMA AnnounceRefines ==
    ASSUME HooksTyped, QueueInv, NEW b \in Nat, AnnounceWrites(b)
    PROVE  QueueInv' /\ (Deliveries!Accept \/ Deliveries!Refuse)
<1>0. items \in Seq(Nat) /\ held \in Seq(Nat) /\ Len(items) <= QueueLimit /\ Len(held) <= 1
      /\ QueueLimit \in Nat
  BY SpaceWritesAssumption DEF HooksTyped
<1> DEFINE p == held \o items
           q == held' \o items'
<1>1. CASE /\ Open
           /\ Len(items) < QueueLimit
           /\ items' = Append(items, b)
           /\ UNCHANGED <<listed, worker, held, fates>>
  <2>1. q = Append(p, b) /\ p \in Seq(Nat) /\ Len(p) = Len(held) + Len(items)
    BY SMTT(60), <1>0, <1>1
  <2>2. q # <<>> /\ q[Len(q)] = b
    BY <2>1
  <2>3. Len(p) <= QueueLimit
    BY <1>0, <1>1, <2>1
  <2>4. Deliveries!Accept
    BY Zenon, <1>1, <2>1, <2>2, <2>3 DEF Deliveries!Accept, fates
  <2> QED BY Zenon, <1>1, <2>4 DEF QueueInv, Open
<1>2. CASE /\ Open
           /\ Len(items) >= QueueLimit
           /\ dropped' = dropped + 1
           /\ UNCHANGED <<channel, sent, lost>>
  <2>1. Len(p) = Len(held) + Len(items)
    BY <1>0
  <2>2. Len(p) >= QueueLimit
    BY <1>0, <1>2, <2>1
  <2>3. q = p
    BY Zenon, <1>2 DEF channel
  <2>4. Deliveries!Refuse
    BY Zenon, <1>2, <2>2, <2>3 DEF Deliveries!Refuse
  <2> QED BY Zenon, <1>2, <2>4 DEF QueueInv, Open, channel
<1>3. CASE ~Open /\ SpawnWith(b) /\ UNCHANGED fates
  <2>1. worker = "gone"
    BY Zenon, <1>3 DEF Open, QueueInv
  <2>2. items = <<>> /\ held = <<>>
    BY <1>0, <2>1 DEF QueueInv, HooksTyped
  <2>3. items' = <<b>> /\ held' = <<>>
    BY Zenon, <1>3 DEF SpawnWith
  <2>4. p = <<>> /\ q = <<b>>
    BY <2>2, <2>3
  <2>5. /\ Len(p) <= QueueLimit
        /\ q # <<>>
        /\ q = Append(p, q[Len(q)])
    BY <1>0, <2>4
  <2>6. Deliveries!Accept
    BY Zenon, <1>3, <2>5 DEF Deliveries!Accept, fates
  <2> QED BY Zenon, <1>3, <2>6 DEF QueueInv, SpawnWith
<1> QED
  BY ZenonT(60), <1>1, <1>2, <1>3, Zenon DEF AnnounceWrites

LEMMA OneThenRest ==
    ASSUME NEW x \in Nat, NEW s \in Seq(Nat)
    PROVE  /\ <<x>> \o s # <<>>
           /\ Head(<<x>> \o s) = x
           /\ Tail(<<x>> \o s) = s
<1> DEFINE c == <<x>> \o s
<1>1. c \in Seq(Nat) /\ Len(c) = Len(s) + 1 /\ Len(s) \in Nat /\ c[1] = x
  OBVIOUS
<1>2. \A i \in 1..Len(s) : c[i + 1] = s[i]
  OBVIOUS
<1>3. c # <<>>
  BY <1>1
<1>4. Tail(c) \in Seq(Nat) /\ Len(Tail(c)) = Len(s)
  BY <1>1, <1>3
<1>5. \A i \in 1..Len(s) : Tail(c)[i] = s[i]
  BY <1>1, <1>2, <1>3
<1>6. Tail(c) = s
  BY SMTT(60), <1>4, <1>5
<1> QED BY SMTT(60), <1>1, <1>3, <1>6

LEMMA ThenOne ==
    ASSUME NEW x \in Nat, NEW s \in Seq(Nat)
    PROVE  s \o <<x>> = Append(s, x)
  OBVIOUS

LEMMA WorkerRefines ==
    ASSUME HooksTyped, QueueInv, WorkerStep \/ WorkerDies
    PROVE  QueueInv' /\ [Deliveries!Next]_(Deliveries!abstractVars)
<1>0. items \in Seq(Nat) /\ held \in Seq(Nat) /\ sent \in Seq(Nat)
  BY Zenon DEF HooksTyped
<1>w. Len(held) = (IF worker = "sending" THEN 1 ELSE 0)
  BY Zenon DEF HooksTyped
<1> DEFINE p == held \o items
           q == held' \o items'
<1>1. CASE Receive
  <2>1. held = <<>>
    BY <1>0, <1>w, <1>1 DEF Receive
  <2>2. p = items
    BY <1>0, <2>1
  <2>3. q = <<Head(items)>> \o Tail(items)
    BY Zenon, <1>1 DEF Receive
  <2>4. q = items
    BY <1>0, <1>1, <2>3 DEF Receive
  <2>5. UNCHANGED Deliveries!abstractVars
    BY Zenon, <1>1, <2>2, <2>4 DEF Receive, fates, Deliveries!abstractVars
  <2> QED BY Zenon, <1>1, <2>5 DEF QueueInv, Receive
<1>2. CASE GoIdle
  BY Zenon, <1>2 DEF GoIdle, QueueInv, fates, Deliveries!abstractVars
<1>3. CASE StopUnlessSent
  BY Zenon, <1>3 DEF StopUnlessSent, QueueInv, fates, Deliveries!abstractVars
<1>4. CASE Dispatch
  <2>1. Len(held) = 1
    BY Zenon, <1>w, <1>4 DEF Dispatch
  <2>2. held = <<held[1]>>
    BY <1>0, <2>1
  <2>a. held[1] \in Nat
    <3>1. held \in Seq(Nat) /\ 1 \in 1..Len(held)
      BY <1>0, <2>1
    <3> QED BY <3>1
  <2>b. p = <<held[1]>> \o items
    BY Zenon, <2>2
  <2>3. p # <<>> /\ Head(p) = held[1] /\ Tail(p) = items
    BY Zenon, <1>0, <2>a, <2>b, OneThenRest
  <2>4. sent' = Append(sent, held[1])
    <3>1. sent' = sent \o <<held[1]>>
      BY Zenon, <1>4, <2>2 DEF Dispatch
    <3> QED BY Zenon, <1>0, <2>a, <3>1, ThenOne
  <2>5. q = items
    BY <1>0, <1>4 DEF Dispatch
  <2>6. Deliveries!Deliver
    BY Zenon, <1>4, <2>3, <2>4, <2>5 DEF Deliveries!Deliver, Dispatch
  <2> QED BY Zenon, <1>4, <2>6 DEF QueueInv, Dispatch, Deliveries!Next
<1>5. CASE WorkerDies
  <2>1. p # <<>>
    <3>1. Len(held) = 1
      BY Zenon, <1>w, <1>5 DEF WorkerDies
    <3>2. Len(p) = Len(held) + Len(items) /\ Len(items) \in Nat
      BY <1>0
    <3>3. Len(p) # 0
      BY <3>1, <3>2
    <3> QED BY <3>3
  <2>2. q = <<>>
    BY <1>5 DEF WorkerDies
  <2>3. Deliveries!Die
    BY Zenon, <1>5, <2>1, <2>2 DEF Deliveries!Die, WorkerDies
  <2> QED BY Zenon, <1>5, <2>3 DEF QueueInv, WorkerDies, Deliveries!Next
<1> QED
  BY Zenon, <1>1, <1>2, <1>3, <1>4, <1>5 DEF WorkerStep

LEMMA QueueStep ==
    Typed /\ QueueInv /\ [Next]_vars
      => QueueInv' /\ [Deliveries!Next]_(Deliveries!abstractVars)
<1> SUFFICES ASSUME Typed, QueueInv, [Next]_vars
             PROVE  QueueInv' /\ [Deliveries!Next]_(Deliveries!abstractVars)
  BY Zenon
<1>0. HooksTyped /\ TasksTyped /\ ScalarsTyped
  BY Zenon, TypedByParts
<1>1. ASSUME UNCHANGED webhookVars
      PROVE  QueueInv' /\ UNCHANGED Deliveries!abstractVars
  BY Zenon, <1>1 DEF webhookVars, QueueInv, Deliveries!abstractVars
<1>2. ASSUME NEW b \in Nat, AnnounceWrites(b)
      PROVE  QueueInv' /\ Deliveries!Next
  BY Zenon, <1>0, <1>2, AnnounceRefines DEF Deliveries!Next
<1>3. ASSUME NEW h \in Handlers, NotifyOps(h)
      PROVE  QueueInv' /\ [Deliveries!Next]_(Deliveries!abstractVars)
  <2>1. handler[h] \in NotifyTask
    BY Zenon, <1>0, <1>3 DEF NotifyOps, TasksTyped, At, IdleTask, BeginTask, TxTask, NotifyTask
  <2>2. handler[h].batch \in Nat
    BY Zenon, <2>1 DEF NotifyTask
  <2> QED BY Zenon, <1>1, <1>2, <1>3, <2>2 DEF NotifyOps
<1>4. ASSUME NEW h \in Handlers, NEW a \in Authors, NEW rev \in left.revs \cup {None},
             NotifyWrite(h, a, rev)
      PROVE  UNCHANGED webhookVars
  BY Zenon, <1>4 DEF NotifyWrite
<1>5. CASE Webhooks
  BY ZenonT(60), <1>0, <1>1, <1>5, WorkerRefines DEF Webhooks
<1>6. ASSUME NEW h \in Handlers,
             \/ \E a \in Authors, ops \in left.requests : Admit(h, a, ops)
             \/ HandlerStep(h) /\ ~NotifyOps(h)
             \/ Abandon(h)
      PROVE  UNCHANGED webhookVars
  BY Zenon, <1>6 DEF Admit, HandlerStep, BeginSpaceWrite, ApplyOp, Refuse, Commit, Abandon
<1>7. ASSUME NEW u \in wire, Hear(u) \/ LoseUpdate(u)
      PROVE  UNCHANGED webhookVars
  BY Zenon, <1>7 DEF Hear, LoseUpdate
<1>8. CASE ListRepos \/ Tick \/ UNCHANGED vars
  <2>1. UNCHANGED webhookVars
    BY Zenon, <1>8 DEF ListRepos, Tick, vars, webhookVars
  <2> QED BY Zenon, <1>1, <2>1
<1> QED
  BY ZenonT(60), <1>1, <1>3, <1>4, <1>5, <1>6, <1>7, <1>8 DEF Next, HandlerStep

(* Whatever order announcements, the idle stop, restarts and deaths of the *)
(* worker take, the webhook worker's steps are steps of one bounded queue: *)
(* a batch leaves it delivered in order, refused when it was full, or lost *)
(* with a worker that died, and in no other way.  The order is that of the *)
(* announcements, which need not be the order of the commits.              *)
THEOREM WebhooksQueueInOrder == Spec => Deliveries!Safety
<1>1. Init => QueueInv /\ Deliveries!Init
  BY DEF Init, WebhooksInit, QueueInv, Deliveries!Init
<1> QED
  BY InitTyped, TypedStep, QueueStep, <1>1, PTL DEF Spec, Deliveries!Safety

-----------------------------------------------------------------------------
(* The syncer *)

(* An update that has been sequenced: no repo's last update lies between   *)
(* the space revision before it and its own, except this one.              *)
Sequenced(u) ==
    /\ u.prev < u.spaceRev
    /\ u.spaceRev <= writers[u.repo].spaceRev
    /\ u.spaceRev = writers[u.repo].spaceRev =>
         u.rev = writers[u.repo].rev /\ u.hash = writers[u.repo].hash
    /\ \A a \in Authors \ {u.repo} :
         writers[a].spaceRev <= u.prev \/ u.spaceRev < writers[a].spaceRev

WireSequenced == \A u \in wire : Sequenced(u)

TasksSequenced ==
    \A h \in Handlers : At(h, "notify") /\ handler[h].update # NoUpdate =>
                         Sequenced(handler[h].update)

SeenIsPast == \E a \in Authors : syncer.seen <= writers[a].spaceRev

SyncInv == WireSequenced /\ TasksSequenced /\ SeenIsPast /\ SyncerKnowsWhatItPassed

LEMMA InitSyncs == Init => SyncInv
<1> SUFFICES ASSUME Init PROVE SyncInv
  BY Zenon
<1>1. PICK a \in Authors : TRUE
  BY Zenon, SpaceWritesAssumption
<1> QED
  BY SMTT(60), <1>1 DEF Init, SyncInv, WireSequenced, TasksSequenced, At, Idle, SeenIsPast,
     SyncerKnowsWhatItPassed

(* Recording a report keeps every sequenced update sequenced, sequences    *)
(* the new one, and puts it past anything the syncer has seen.             *)
LEMMA RecordSequences ==
    ASSUME Typed, SyncInv, NEW a \in Authors, NEW rev \in Nat,
           NEW hash \in [Elements -> Int], NEW now \in generate_tid,
           writers' = Record(a, rev, hash, now).writers, UNCHANGED syncer
    PROVE  /\ \A u \in Update : Sequenced(u) => Sequenced(u)'
           /\ \A u : u = Record(a, rev, hash, now).update /\ u # NoUpdate =>
                     u \in Update /\ Sequenced(u)'
           /\ SeenIsPast'
           /\ SyncerKnowsWhatItPassed'
<1>0. writers \in [Authors -> WriterType] /\ syncer.seen \in Nat
  BY Zenon DEF Typed, TypeOK, WriterType
<1>1. CASE Stale(a, rev)
  <2>1. writers' = writers /\ Record(a, rev, hash, now).update = NoUpdate
    BY ZenonT(60), <1>1, RecordStale, Zenon
  <2>2. \A u \in Update : Sequenced(u) => Sequenced(u)'
    BY Zenon, <2>1 DEF Sequenced
  <2>3. SeenIsPast' /\ SyncerKnowsWhatItPassed'
    BY Zenon, <2>1 DEF SyncInv, SeenIsPast, SyncerKnowsWhatItPassed
  <2> QED BY ZenonT(60), <2>1, <2>2, <2>3
<1>2. CASE ~Stale(a, rev)
  <2> DEFINE s == Upcoming(now)
  <2>1. /\ writers' = [writers EXCEPT ![a] = [rev |-> rev, hash |-> hash, spaceRev |-> s]]
        /\ Record(a, rev, hash, now).update =
             [repo |-> a, rev |-> rev, hash |-> hash, spaceRev |-> s, prev |-> SpaceRev]
    BY Zenon, <1>2 DEF Record, Upcoming
  <2>2. s \in Nat /\ s > SpaceRev /\ SpaceRev \in Nat
    BY Zenon, UpcomingIsNew
  <2>3. \A b \in Authors : writers[b].spaceRev \in Nat /\ writers[b].spaceRev <= SpaceRev
    BY Zenon, <1>0, SpaceRevIsMax DEF WriterType
  <2> HIDE DEF s
  <2>4. /\ writers'[a] = [rev |-> rev, hash |-> hash, spaceRev |-> s]
        /\ \A b \in Authors \ {a} : writers'[b] = writers[b]
    BY Zenon, <1>0, <2>1
  <2>5. \A u \in Update : Sequenced(u) => Sequenced(u)'
    <3> SUFFICES ASSUME NEW u \in Update, Sequenced(u) PROVE Sequenced(u)'
      BY Zenon
    <3>1. u.repo \in Authors /\ u.spaceRev \in Nat /\ u.prev \in Nat
      BY ZenonT(60) DEF Update
    <3>2. u.spaceRev < s
      BY SMTT(60), <3>1, <2>2, <2>3 DEF Sequenced
    <3>3. CASE u.repo = a
      BY SMTT(60), <3>1, <3>2, <3>3, <2>2, <2>4 DEF Sequenced
    <3>4. CASE u.repo # a
      <4>1. writers'[u.repo] = writers[u.repo]
        BY ZenonT(60), <3>1, <3>4, <2>4
      <4>2. ASSUME NEW b \in Authors \ {u.repo}
            PROVE  writers'[b].spaceRev <= u.prev \/ u.spaceRev < writers'[b].spaceRev
        <5>1. CASE b = a
          BY <5>1, <3>2, <2>4
        <5>2. CASE b # a
          BY Zenon, <5>2, <2>4 DEF Sequenced
        <5> QED BY ZenonT(60), <5>1, <5>2
      <4>3. /\ u.prev < u.spaceRev
            /\ u.spaceRev <= writers'[u.repo].spaceRev
            /\ u.spaceRev = writers'[u.repo].spaceRev =>
                 u.rev = writers'[u.repo].rev /\ u.hash = writers'[u.repo].hash
        BY Zenon, <4>1 DEF Sequenced
      <4> QED BY <4>2, <4>3, Zenon DEF Sequenced
    <3> QED BY Zenon, <3>3, <3>4
  <2>6. ASSUME NEW u, u = Record(a, rev, hash, now).update
        PROVE  u \in Update /\ Sequenced(u)'
    <3>1. u.repo = a /\ u.rev = rev /\ u.hash = hash /\ u.spaceRev = s /\ u.prev = SpaceRev
      BY SMTT(60), <2>1, <2>6
    <3>2. u \in Update
      BY <2>1, <2>2, <2>6 DEF Update
    <3>3. \A b \in Authors \ {a} : writers'[b].spaceRev <= u.prev
      BY ZenonT(60), <2>3, <2>4, <3>1
    <3>4. u.prev < u.spaceRev /\ u.spaceRev <= writers'[u.repo].spaceRev
          /\ u.rev = writers'[u.repo].rev /\ u.hash = writers'[u.repo].hash
      BY <2>2, <2>4, <3>1
    <3> QED BY ZenonT(60), <3>1, <3>2, <3>3, <3>4 DEF Sequenced
  <2>7. syncer.seen <= SpaceRev
    BY <1>0, <2>2, <2>3 DEF SyncInv, SeenIsPast
  <2>8. SeenIsPast'
    <3>1. syncer'.seen <= writers'[a].spaceRev
      BY <1>0, <2>2, <2>4, <2>7
    <3> QED BY ZenonT(60), <3>1 DEF SeenIsPast
  <2>9. SyncerKnowsWhatItPassed'
    <3> SUFFICES ASSUME NEW b \in Authors, writers'[b].spaceRev # None,
                        writers'[b].spaceRev <= syncer'.seen
                 PROVE  syncer'.known[b] = [rev |-> writers'[b].rev, hash |-> writers'[b].hash]
      BY ZenonT(60) DEF SyncerKnowsWhatItPassed
    <3>1. b # a
      BY <1>0, <2>2, <2>4, <2>7
    <3>2. writers'[b] = writers[b] /\ syncer' = syncer
      BY Zenon, <2>4, <3>1
    <3> QED BY Zenon, <3>2 DEF SyncInv, SyncerKnowsWhatItPassed
  <2> QED BY ZenonT(60), <2>5, <2>6, <2>8, <2>9
<1> QED
  BY ZenonT(60), <1>1, <1>2

(* Steps that record nothing and tell the syncer nothing *)
LEMMA SyncsKept ==
    ASSUME SyncInv, TasksTyped, UNCHANGED <<writers, syncer>>, wire' \subseteq wire,
           \/ UNCHANGED handler
           \/ \E h \in Handlers : \E t : t.at # "notify" /\ handler' = [handler EXCEPT ![h] = t]
    PROVE  SyncInv'
<1>1. \A u : Sequenced(u) => Sequenced(u)'
  BY Zenon DEF Sequenced
<1>2. \A g \in Handlers : At(g, "notify")' => At(g, "notify") /\ handler'[g] = handler[g]
  BY Zenon DEF At, TasksTyped
<1>3. WireSequenced'
  BY Zenon, <1>1 DEF SyncInv, WireSequenced
<1>4. TasksSequenced'
  <2> SUFFICES ASSUME NEW g \in Handlers, At(g, "notify")', handler'[g].update # NoUpdate
               PROVE  Sequenced(handler[g].update)'
    BY Zenon DEF TasksSequenced
  <2>1. Sequenced(handler[g].update) /\ handler'[g] = handler[g]
    BY Zenon, <1>2 DEF SyncInv, TasksSequenced
  <2> QED BY Zenon, <2>1 DEF Sequenced
<1>5. SeenIsPast' /\ SyncerKnowsWhatItPassed'
  BY Zenon DEF SyncInv, SeenIsPast, SyncerKnowsWhatItPassed
<1> QED
  BY Zenon, <1>3, <1>4, <1>5 DEF SyncInv

(* A request that has recorded a rev and has its update still to forward *)
LEMMA RecordedSyncs ==
    ASSUME Typed, SyncInv, NEW h \in Handlers, NEW a \in Authors, NEW rev \in Nat,
           NEW hash \in [Elements -> Int], NEW now \in generate_tid, NEW batch,
           writers' = Record(a, rev, hash, now).writers,
           handler' = [handler EXCEPT ![h] =
             [at |-> "notify", batch |-> batch, update |-> Record(a, rev, hash, now).update]],
           UNCHANGED <<wire, syncer>>
    PROVE  SyncInv'
<1>1. TasksTyped /\ WireTyped
  BY Zenon, TypedByParts
<1>6. /\ \A u \in Update : Sequenced(u) => Sequenced(u)'
      /\ \A u : u = Record(a, rev, hash, now).update /\ u # NoUpdate =>
                 u \in Update /\ Sequenced(u)'
      /\ SeenIsPast'
      /\ SyncerKnowsWhatItPassed'
  BY ZenonT(60), RecordSequences
<1>7. WireSequenced'
  BY Zenon, <1>1, <1>6 DEF SyncInv, WireSequenced, WireTyped
<1>8. TasksSequenced'
  <2> SUFFICES ASSUME NEW g \in Handlers, At(g, "notify")', handler'[g].update # NoUpdate
               PROVE  Sequenced(handler[g].update)'
    BY Zenon DEF TasksSequenced
  <2>1. PICK u : u = handler'[g].update
    BY Zenon
  <2>2. Sequenced(u)'
    <3>1. CASE g = h
      BY ZenonT(60), <1>1, <1>6, <2>1, <3>1 DEF TasksTyped
    <3>2. CASE g # h
      <4>1. handler'[g] = handler[g]
        BY Zenon, <1>1, <3>2 DEF TasksTyped
      <4>2. At(g, "notify") /\ handler[g].update # NoUpdate
        BY Zenon, <4>1 DEF At
      <4>3. Sequenced(handler[g].update)
        BY Zenon, <4>2 DEF SyncInv, TasksSequenced
      <4>4. handler[g].update \in Update
        BY Zenon, <1>1, <4>2 DEF At, TasksTyped, IdleTask, BeginTask, TxTask, NotifyTask
      <4>5. u = handler[g].update
        BY Zenon, <2>1, <4>1
      <4>6. u \in Update /\ Sequenced(u)
        BY Zenon, <4>3, <4>4, <4>5 DEF Sequenced
      <4> QED BY Zenon, <1>6, <4>6
    <3> QED BY Zenon, <3>1, <3>2
  <2> QED BY Zenon, <2>1, <2>2 DEF Sequenced
<1> QED
  BY Zenon, <1>6, <1>7, <1>8 DEF SyncInv

LEMMA CommitSyncs ==
    ASSUME Typed, SyncInv, NEW h \in Handlers, Commit(h)
    PROVE  SyncInv'
<1> DEFINE w == handler[h]
           a == w.author
<1>1. TasksTyped
  BY Zenon, TypedByParts
<1>2. w \in TxTask /\ a \in Authors
  BY Zenon, <1>1, AtTx DEF Commit
<1>3. w.rev \in Nat /\ w.fold \in [Elements -> Int]
  BY Zenon, <1>2 DEF TxTask
<1>4. PICK now \in generate_tid :
        /\ writers' = Record(a, w.rev, w.fold, now).writers
        /\ handler' = [handler EXCEPT ![h] =
              [at |-> "notify", batch |-> committed + 1,
               update |-> Record(a, w.rev, w.fold, now).update]]
  BY Zenon DEF Commit
<1>5. UNCHANGED <<wire, syncer>>
  BY Zenon DEF Commit
<1> QED
  BY ZenonT(60), <1>2, <1>3, <1>4, <1>5, RecordedSyncs

LEMMA NotifyOpsSyncs ==
    ASSUME Typed, SyncInv, NEW h \in Handlers, NotifyOps(h)
    PROVE  SyncInv'
<1>1. TasksTyped
  BY Zenon, TypedByParts
<1>2. /\ handler' = [handler EXCEPT ![h] = Idle]
      /\ UNCHANGED <<writers, syncer>>
      /\ At(h, "notify")
      /\ Forward(handler[h].update)
  BY Zenon DEF NotifyOps
<1>3. \A u : Sequenced(u) => Sequenced(u)'
  BY Zenon, <1>2 DEF Sequenced
<1>4. WireSequenced'
  <2> SUFFICES ASSUME NEW u \in wire' PROVE Sequenced(u)'
    BY Zenon DEF WireSequenced
  <2>1. CASE u \in wire
    BY Zenon, <1>3, <2>1 DEF SyncInv, WireSequenced
  <2>2. CASE u \notin wire
    <3>1. handler[h].update # NoUpdate /\ u = handler[h].update
      BY Zenon, <1>2, <2>2 DEF Forward
    <3>2. Sequenced(handler[h].update)
      BY Zenon, <1>2, <3>1 DEF SyncInv, TasksSequenced
    <3>3. Sequenced(u)
      BY Zenon, <3>1, <3>2 DEF Sequenced
    <3> QED BY Zenon, <1>3, <3>3
  <2> QED BY Zenon, <2>1, <2>2
<1>5. TasksSequenced'
  <2> SUFFICES ASSUME NEW g \in Handlers, At(g, "notify")', handler'[g].update # NoUpdate
               PROVE  Sequenced(handler[g].update)'
    BY Zenon DEF TasksSequenced
  <2>1. handler'[g] = handler[g]
    BY Zenon, <1>1, <1>2 DEF TasksTyped, At, Idle
  <2>2. Sequenced(handler[g].update)
    BY Zenon, <2>1 DEF SyncInv, TasksSequenced, At
  <2> QED BY Zenon, <1>2, <2>1, <2>2 DEF Sequenced
<1>6. SeenIsPast' /\ SyncerKnowsWhatItPassed'
  BY Zenon, <1>2 DEF SyncInv, SeenIsPast, SyncerKnowsWhatItPassed
<1> QED
  BY ZenonT(60), <1>4, <1>5, <1>6 DEF SyncInv

LEMMA NotifyWriteSyncs ==
    ASSUME Typed, SyncInv, NEW h \in Handlers, NEW a \in Authors,
           NEW rev \in left.revs \cup {None}, NotifyWrite(h, a, rev)
    PROVE  SyncInv'
<1>1. TasksTyped /\ left \in Scenario
  BY Zenon, TypedByParts
<1>2. rev \in Nat /\ EmptyFold \in [Elements -> Int]
  BY <1>1 DEF Scenario, EmptyFold, None
<1>3. PICK batch \in {None, committed + 1} :
        \/ /\ handler' = [handler EXCEPT ![h] =
                [at |-> "notify", batch |-> batch, update |-> NoUpdate]]
           /\ UNCHANGED writers
        \/ \E now \in generate_tid :
             /\ writers' = Record(a, rev, EmptyFold, now).writers
             /\ handler' = [handler EXCEPT ![h] =
                  [at |-> "notify", batch |-> batch,
                   update |-> Record(a, rev, EmptyFold, now).update]]
  BY ZenonT(60), ReportOutcome
<1>4. UNCHANGED <<wire, syncer>>
  BY Zenon DEF NotifyWrite
<1>5. CASE /\ handler' = [handler EXCEPT ![h] =
                [at |-> "notify", batch |-> batch, update |-> NoUpdate]]
           /\ UNCHANGED writers
  <2>1. \A u : Sequenced(u) => Sequenced(u)'
    BY Zenon, <1>5 DEF Sequenced
  <2>2. WireSequenced'
    BY Zenon, <1>4, <2>1 DEF SyncInv, WireSequenced
  <2>3. TasksSequenced'
    <3> SUFFICES ASSUME NEW g \in Handlers, At(g, "notify")', handler'[g].update # NoUpdate
                 PROVE  Sequenced(handler[g].update)'
      BY Zenon DEF TasksSequenced
    <3>1. handler'[g] = handler[g]
      BY Zenon, <1>1, <1>5 DEF TasksTyped
    <3>2. Sequenced(handler[g].update)
      BY Zenon, <3>1 DEF SyncInv, TasksSequenced, At
    <3> QED BY Zenon, <1>5, <3>1, <3>2 DEF Sequenced
  <2>4. SeenIsPast' /\ SyncerKnowsWhatItPassed'
    BY Zenon, <1>4, <1>5 DEF SyncInv, SeenIsPast, SyncerKnowsWhatItPassed
  <2> QED BY Zenon, <2>2, <2>3, <2>4 DEF SyncInv
<1>6. ASSUME NEW now \in generate_tid,
             writers' = Record(a, rev, EmptyFold, now).writers,
             handler' = [handler EXCEPT ![h] =
               [at |-> "notify", batch |-> batch,
                update |-> Record(a, rev, EmptyFold, now).update]]
      PROVE  SyncInv'
  BY ZenonT(60), <1>2, <1>4, <1>6, RecordedSyncs
<1> QED
  BY Zenon, <1>3, <1>5, <1>6

LEMMA HearSyncs ==
    ASSUME Typed, SyncInv, NEW u \in wire, Hear(u)
    PROVE  SyncInv'
<1>1. TasksTyped /\ WireTyped /\ SyncerTyped /\ WritersTyped
  BY Zenon, TypedByParts
<1>2. UNCHANGED <<writers, handler>> /\ wire' \subseteq wire
  BY Zenon DEF Hear
<1>3. CASE u.prev # syncer.seen
  <2>1. UNCHANGED syncer
    BY Zenon, <1>3 DEF Hear
  <2> QED BY ZenonT(60), <1>1, <1>2, <2>1, SyncsKept
<1>4. CASE u.prev = syncer.seen
  <2>1. u \in Update /\ Sequenced(u)
    BY Zenon, <1>1 DEF WireTyped, SyncInv, WireSequenced
  <2>2. u.repo \in Authors /\ u.spaceRev \in Nat /\ u.prev \in Nat
    BY Zenon, <2>1 DEF Update
  <2>3. /\ syncer'.seen = u.spaceRev
        /\ syncer'.known[u.repo] = [rev |-> u.rev, hash |-> u.hash]
        /\ \A b \in Authors \ {u.repo} : syncer'.known[b] = syncer.known[b]
    BY ZenonT(60), <1>1, <1>4, <2>2 DEF Hear, Learn, SyncerTyped
  <2>4. WireSequenced' /\ TasksSequenced'
    BY Zenon, <1>2 DEF SyncInv, WireSequenced, TasksSequenced, Sequenced, At
  <2>5. SeenIsPast'
    BY ZenonT(60), <1>2, <2>1, <2>2, <2>3 DEF SeenIsPast, Sequenced
  <2>6. SyncerKnowsWhatItPassed'
    <3> SUFFICES ASSUME NEW b \in Authors, writers[b].spaceRev # None,
                        writers[b].spaceRev <= u.spaceRev
                 PROVE  syncer'.known[b] = [rev |-> writers[b].rev, hash |-> writers[b].hash]
      BY Zenon, <1>2, <2>3 DEF SyncerKnowsWhatItPassed
    <3>0. writers[b].spaceRev \in Nat
      BY ZenonT(60), <1>1 DEF WritersTyped, WriterType
    <3>1. CASE b = u.repo
      BY SMTT(60), <3>0, <3>1, <2>1, <2>2, <2>3 DEF Sequenced
    <3>2. CASE b # u.repo
      <4>1. writers[b].spaceRev <= syncer.seen
        BY SMTT(60), <1>4, <2>1, <2>2, <3>0, <3>2 DEF Sequenced
      <4> QED BY ZenonT(60), <2>3, <3>2, <4>1 DEF SyncInv, SyncerKnowsWhatItPassed
    <3> QED BY Zenon, <3>1, <3>2
  <2> QED BY Zenon, <2>4, <2>5, <2>6 DEF SyncInv
<1> QED
  BY Zenon, <1>3, <1>4

(* A page of writers::list has no gaps: a writer after the cursor and not  *)
(* after the page's last is on the page.                                   *)
LEMMA PageHasNoGaps ==
    ASSUME Typed, NEW after \in Nat, NEW last \in List(after), NEW a \in Authors,
           writers[a].spaceRev > after, writers[a].spaceRev <= writers[last].spaceRev
    PROVE  a \in List(after)
<1> DEFINE later == {b \in Authors : writers[b].spaceRev > after}
           before(c) == {b \in later : writers[b].spaceRev < writers[c].spaceRev}
<1>1. \A b \in Authors : writers[b].spaceRev \in Nat
  BY Zenon DEF Typed, TypeOK
<1>2. last \in Authors /\ Cardinality(before(last)) < PageLimit
  BY Zenon DEF List
<1>3. before(a) \subseteq before(last)
  BY <1>1, <1>2
<1>4. IsFiniteSet(before(last))
  BY Zenon, SpaceWritesAssumption, FS_Subset
<1>5. Cardinality(before(a)) <= Cardinality(before(last)) /\ IsFiniteSet(before(a))
  BY Zenon, <1>3, <1>4, FS_Subset
<1>6. Cardinality(before(a)) \in Nat /\ Cardinality(before(last)) \in Nat
  BY ZenonT(60), <1>4, <1>5, FS_CardinalityType
<1>7. Cardinality(before(a)) < PageLimit
  BY <1>2, <1>5, <1>6, SpaceWritesAssumption
<1> QED
  BY Zenon, <1>7 DEF List

LEMMA ListReposSyncs ==
    ASSUME Typed, SyncInv, ListRepos
    PROVE  SyncInv'
<1> DEFINE page == List(syncer.seen)
<1>1. TasksTyped /\ SyncerTyped /\ WritersTyped
  BY Zenon, TypedByParts
<1>2. PICK last \in page :
        syncer' = [seen  |-> writers[last].spaceRev,
                   known |-> [a \in Authors |->
                     IF a \in page THEN [rev |-> writers[a].rev, hash |-> writers[a].hash]
                                  ELSE syncer.known[a]]]
  BY Zenon DEF ListRepos
<1>3. last \in Authors
  BY Zenon, <1>2 DEF List
<1>4. syncer.seen \in Nat /\ \A a \in Authors : writers[a].spaceRev \in Nat
  BY Zenon, <1>1 DEF SyncerTyped, WritersTyped, WriterType
<1>5. /\ syncer'.seen = writers[last].spaceRev
      /\ \A a \in Authors : syncer'.known[a] =
            IF a \in page THEN [rev |-> writers[a].rev, hash |-> writers[a].hash]
                         ELSE syncer.known[a]
  BY Zenon, <1>2
<1>6. UNCHANGED <<writers, handler, wire>>
  BY ZenonT(60) DEF ListRepos
<1>7. WireSequenced' /\ TasksSequenced'
  BY SMTT(60), <1>6 DEF SyncInv, WireSequenced, TasksSequenced, Sequenced, At
<1>8. SeenIsPast'
  BY <1>3, <1>4, <1>5, <1>6 DEF SeenIsPast
<1>9. SyncerKnowsWhatItPassed'
  <2> SUFFICES ASSUME NEW a \in Authors, writers[a].spaceRev # None,
                      writers[a].spaceRev <= writers[last].spaceRev
               PROVE  syncer'.known[a] = [rev |-> writers[a].rev, hash |-> writers[a].hash]
    BY Zenon, <1>5, <1>6 DEF SyncerKnowsWhatItPassed
  <2>1. CASE a \in page
    BY Zenon, <1>5, <2>1
  <2>2. CASE a \notin page
    <3>1. ~(writers[a].spaceRev > syncer.seen)
      BY SMTT(60), <1>2, <1>4, <2>2, PageHasNoGaps
    <3>2. writers[a].spaceRev <= syncer.seen
      BY SMTT(60), <1>4, <3>1
    <3> QED BY ZenonT(60), <1>5, <2>2, <3>2 DEF SyncInv, SyncerKnowsWhatItPassed
  <2> QED BY Zenon, <2>1, <2>2
<1> QED
  BY Zenon, <1>7, <1>8, <1>9 DEF SyncInv

LEMMA SyncStep == Typed /\ SyncInv /\ [Next]_vars => SyncInv'
<1> SUFFICES ASSUME Typed, SyncInv, [Next]_vars PROVE SyncInv'
  BY Zenon
<1>0. TasksTyped
  BY Zenon, TypedByParts
<1>1. ASSUME NEW h \in Handlers, NEW a \in Authors, NEW ops \in left.requests, Admit(h, a, ops)
      PROVE  SyncInv'
  BY ZenonT(60), <1>0, <1>1, SyncsKept DEF Admit
<1>2. ASSUME NEW h \in Handlers, HandlerStep(h) PROVE SyncInv'
  <2>1. CASE BeginSpaceWrite(h)
    BY Zenon, <1>0, <2>1, SyncsKept DEF BeginSpaceWrite
  <2>2. CASE ApplyOp(h)
    <3> DEFINE w == handler[h]
               op == Head(w.ops)
               old == OldCid(op, w.recs)
               t == [w EXCEPT !.ops  = Tail(w.ops),
                              !.recs = [w.recs EXCEPT ![op.key] = op.cid],
                              !.fold = Refold(w.fold, op.key, old, op.cid),
                              !.log  = Append(w.log, [rev |-> w.rev, key |-> op.key,
                                                      cid |-> op.cid, prev |-> old])]
    <3>0. w \in TxTask
      BY ZenonT(60), <1>0, <2>2, AtTx DEF ApplyOp
    <3>1. handler' = [handler EXCEPT ![h] = t] /\ t.at = "tx"
      BY Zenon, <2>2, <3>0 DEF ApplyOp, At, TxTask
    <3> HIDE DEF t
    <3>2. t.at # "notify"
      BY Zenon, <3>1
    <3> QED BY ZenonT(60), <1>0, <2>2, <3>1, <3>2, SyncsKept DEF ApplyOp
  <2>3. CASE Refuse(h)
    BY Zenon, <1>0, <2>3, SyncsKept DEF Refuse, Idle
  <2> QED BY SMTT(60), <1>2, <2>1, <2>2, <2>3, CommitSyncs, NotifyOpsSyncs DEF HandlerStep
<1>3. ASSUME NEW h \in Handlers, Abandon(h) PROVE SyncInv'
  BY Zenon, <1>0, <1>3, SyncsKept DEF Abandon, Idle
<1>4. ASSUME NEW h \in Handlers, NEW a \in Authors, NEW rev \in left.revs \cup {None},
             NotifyWrite(h, a, rev)
      PROVE  SyncInv'
  BY Zenon, <1>4, NotifyWriteSyncs
<1>5. ASSUME NEW u \in wire, Hear(u) PROVE SyncInv'
  BY Zenon, <1>5, HearSyncs
<1>6. ASSUME NEW u \in wire, LoseUpdate(u) PROVE SyncInv'
  BY Zenon, <1>0, <1>6, SyncsKept DEF LoseUpdate
<1>7. CASE ListRepos
  BY Zenon, <1>7, ListReposSyncs
<1>8. CASE UNCHANGED <<writers, syncer, wire, handler>>
  BY SMTT(60), <1>0, <1>8, SyncsKept
<1> QED
  BY SMTT(60), <1>1, <1>2, <1>3, <1>4, <1>5, <1>6, <1>7, <1>8
  DEF Next, Tick, Webhooks, writeVars, vars

(* Whatever notifications are lost, delayed or overtake each other, and    *)
(* however the pages of listRepos interleave with writes, a syncer knows   *)
(* the last recorded state of every repo whose update it has passed.       *)
THEOREM SyncersKnowWhatTheyPassed == Spec => []SyncerKnowsWhatItPassed
<1>1. Typed /\ SyncInv => SyncerKnowsWhatItPassed
  BY Zenon DEF SyncInv
<1> QED
  BY InitTyped, TypedStep, InitSyncs, SyncStep, <1>1, PTL DEF Spec

=============================================================================
