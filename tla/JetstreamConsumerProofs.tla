---------------------- MODULE JetstreamConsumerProofs ----------------------
(***************************************************************************)
(* Proofs about JetstreamConsumer, for any collections, scenarios, number  *)
(* of events and of tickets in flight.                                     *)
(*                                                                         *)
(* A seq the consumer saves once it was told of a renumbering is the       *)
(* server's, in every scenario. The saved cursor is safe and the stream    *)
(* skips nothing in every scenario that is Sound below; nothing else is    *)
(* assumed of the settings, nor of how many faults of which kinds happen.  *)
(***************************************************************************)
EXTENDS JetstreamConsumer, TLAPS

(* The scenarios the two loss theorems are about.                           *)
(*                                                                         *)
(* Left out because the code does lose an event there, as model checking   *)
(* shows: an instance that has saved no cursor on a v1 or auto protocol    *)
(* (nothing says where to resume before the first save); a gap replay over *)
(* more than one sealed tip (the reused job); a collection tracked where a *)
(* drain may time out or its flush may fail.                               *)
(*                                                                         *)
(* Left out because the invariant below does not reach them, with no loss  *)
(* known: tracking on an instance that has saved no cursor, and a gap      *)
(* replay together with a change of host.                                  *)
Sound(s) ==
    /\ s.fresh => s.choice = "v2" /\ s.budget["track"] = 0
    /\ s.gap_replay => s.budget["seal"] <= 1 /\ s.budget["move"] = 0
    /\ s.budget["track"] > 0 => s.budget["timeout"] = 0 /\ s.budget["unsaved"] = 0

-----------------------------------------------------------------------------
(* Types *)

Times == {Time(i) : i \in 1..MaxEvents}

SessionType ==
    [protocol : {"v1", "v2"}, sent : Nat, stale : Nat, from_tip : BOOLEAN,
     gap : [pending : BOOLEAN, sent : Nat, after : Nat],
     gap_at : Nat, bad : 0..2, barrier : Nat \cup {NoTicket}]

ConnType ==
    [pos : Nat, notice : {"none", "FutureCursor", "OutdatedCursor"},
     floor : Nat, loaded : [seq : 0..MaxSeq, time : {None} \cup Times],
     filter : SUBSET Collections, saved : Points \cup {NoPoint},
     ended : {"none", "closed", "renumbered", "changed"}]

StoredType == [seq : 0..MaxSeq, time : {None} \cup Times, host : Nat, older : BOOLEAN]

JobType == [after_seq : 0..MaxSeq, from : Nat, tip : Nat, open : BOOLEAN]

ServerTyped ==
    /\ setting \in Scenarios
    /\ left \in [Kinds -> Nat] /\ \A k \in Kinds : left[k] <= setting.budget[k]
    /\ log \in Seq(Collections) /\ head \in 1..MaxEvents
    /\ base \in {FirstBase, FirstBase + 1} \cup 0..head
    /\ oldest \in 1..(head + 1) /\ base < oldest
    /\ sealed \in 1..head /\ base <= sealed
    /\ host \in Nat \ {0}

ProcessTyped ==
    /\ mode \in {"down", "connect", "stream", "drain"}
    /\ session \in SessionType
    /\ last \in 0..MaxSeq
    /\ wm \in Watermarks
    /\ tracked \subseteq Collections
    /\ conn \in ConnType

DataTyped ==
    /\ stored \in StoredType /\ stored.host <= host /\ SavedIndex <= head
    /\ jobs \subseteq JobType
    /\ owed \in [Collections -> 0..MaxEvents]
    /\ told \in BOOLEAN

Typed == ServerTyped /\ ProcessTyped /\ DataTyped

-----------------------------------------------------------------------------
(* The invariant *)

(* The event that the server, at base b, gave a seq to. A seq above the     *)
(* current numbering is of the first one.                                  *)
EventIn(b, seq) == IF b >= 0 /\ seq > MaxEvents THEN seq + FirstBase ELSE seq + b

Names(b, seq, i) == seq = None \/ EventIn(b, seq) = i

Stale(b, seq) == b >= 0 /\ seq > MaxEvents

Index(point) == IndexOf(point.time)
SlotIndex(w, k) == Index(w.pending[k].point)
SlotsTo(w, k) == {SlotIndex(w, j) : j \in 1..k}

(* Slot k of the watermark is of the numbering the barrier waits for. *)
Counts(w, barrier, k) == barrier = NoTicket \/ w.front + k - 1 >= barrier

(* What holds between the parts of the process whatever the scenario. *)
Shape ==
    /\ mode = "down" =>
         session = NewSession /\ last = None /\ wm = EmptyWatermark /\ told = FALSE
    /\ mode \in {"down", "connect"} => conn = NoConnection
    /\ stored.time = None => setting.fresh /\ stored = NothingSaved
    /\ stored.time # None => stored.host # None
    /\ session.protocol = "v1" => last = None
    /\ setting.choice = "v2" => session.protocol = "v2"
    /\ session.barrier <= NextTicket(wm)
    /\ conn.saved # NoPoint => Index(conn.saved) = SavedIndex
    /\ mode = "stream" => conn.filter = tracked
    /\ mode = "drain" =>
         \A c \in tracked \ conn.filter : owed[c] = MaxEvents /\ setting.budget["track"] > 0
    /\ conn.ended = "changed" => setting.budget["track"] > 0

(* Every seq in the process and the database is the number of its event, in *)
(* the numbering of the server or in the one before it.                     *)
Numbered ==
    /\ last # None => EventIn(base, last) \in 1..head
    /\ \A k \in 1..Len(wm.pending) :
         SlotIndex(wm, k) <= head /\ Names(base, wm.pending[k].point.seq, SlotIndex(wm, k))
    /\ wm.applied # NoPoint =>
         Index(wm.applied) <= head /\ Names(base, wm.applied.seq, Index(wm.applied))
    /\ stored.host = host /\ ~stored.older => Names(base, stored.seq, SavedIndex)

(* Where the stream stands. *)
Positioned ==
    mode = "stream" =>
        /\ base < conn.pos /\ conn.pos >= 1 /\ conn.pos <= head + 1
        /\ conn.notice # "FutureCursor" /\ conn.floor # None => conn.floor + base \in 1..head
        /\ conn.notice = "FutureCursor" =>
             /\ IsSeq(session.sent) /\ Stale(base, session.sent)
             /\ EventIn(base, session.sent) \in 1..head

(* A point of the server's numbering as it is. *)
Current(b, point) == point.seq = None \/ point.seq + b = Index(point)

(* Once the consumer was told of a renumbering, what it may save is of the  *)
(* new numbering.                                                           *)
Recent ==
    told =>
        /\ FlushPoint # NoPoint => Current(base, FlushPoint)
        /\ \A k \in 1..Len(wm.pending) :
             Counts(wm, session.barrier, k) => Current(base, wm.pending[k].point)

(* Every event of W up to p is in H. *)
Reached(W, H, p) == \A i \in W : i <= p => i \in H

(* The owed events; before the first save, the tracked events after o.      *)
Wanted(o) ==
    {i \in 1..head : log[i] \in tracked /\ i > IF stored.time = None THEN o ELSE owed[log[i]]}

Handled == Accounted \cup InFlightEvents
Streamed == Handled \cup PendingGap

SaveSafe(o) ==
    /\ Reached(Wanted(o), Accounted, SavedIndex)
    /\ FlushPoint # NoPoint => Reached(Wanted(o), Accounted, Index(FlushPoint))

(* When tickets finish up to slot k, all events up to its own are accounted *)
(* for.                                                                     *)
SlotSafe(o) ==
    \A k \in 1..Len(wm.pending) :
        /\ Reached(Wanted(o), Accounted \cup SlotsTo(wm, k), SlotIndex(wm, k))
        /\ wm.pending[k].done => SlotIndex(wm, k) \in done

LastSafe(o) == last # None => Reached(Wanted(o), Handled, EventIn(base, last))

GapSafe(o) ==
    /\ session.from_tip => session.gap.pending
    /\ session.gap.pending =>
         /\ last = None /\ session.gap.after <= head
         /\ Reached(Wanted(o), Accounted, session.gap.after)

StreamSafe(o) ==
    mode = "stream" =>
        /\ conn.notice = "none" => Reached(Wanted(o), Streamed, conn.pos - 1)
        /\ conn.notice = "OutdatedCursor" =>
             /\ IsTime(session.sent) /\ IndexOf(session.sent) <= conn.pos
             /\ Reached(Wanted(o), Streamed, IndexOf(session.sent) - 1)
        /\ conn.notice = "FutureCursor" =>
             Reached(Wanted(o), Streamed, EventIn(base, session.sent))
        /\ conn.notice # "FutureCursor" /\ conn.floor # None =>
             Reached(Wanted(o), Streamed, conn.floor + base)
        /\ session.protocol = "v1" => conn.floor = None

(* Before the first save, what may be saved is not before o; and a session  *)
(* that has nothing to resume from has nothing to save either.              *)
FreshSafe(o) ==
    stored.time = None =>
        /\ \A k \in 1..Len(wm.pending) : Counts(wm, session.barrier, k) => SlotIndex(wm, k) >= o
        /\ FlushPoint # NoPoint => Index(FlushPoint) >= o
        /\ last # None => EventIn(base, last) >= o
        /\ mode = "stream" => conn.pos >= o
        /\ last = None /\ ~session.gap.pending =>
             /\ FlushPoint = NoPoint
             /\ \A k \in 1..Len(wm.pending) : ~Counts(wm, session.barrier, k)

Safe(o) ==
    SaveSafe(o) /\ SlotSafe(o) /\ LastSafe(o) /\ GapSafe(o) /\ StreamSafe(o) /\ FreshSafe(o)

(* A job for a seq of this numbering reads up to the sealed tip. *)
JobsReach ==
    /\ ~setting.gap_replay => jobs = {}
    /\ \A j \in jobs :
         /\ j.after_seq # None /\ EventIn(base, j.after_seq) = j.from /\ j.from >= 1
         /\ j.tip # None /\ ~Stale(base, j.after_seq) => j.tip >= sealed
    /\ setting.gap_replay /\ left["seal"] > 0 => jobs = {} /\ sealed = Later(1, base)

(* Everything dispatched is saved, but for what a job reads. *)
Settled ==
    /\ Len(wm.pending) = 0
    /\ FlushPoint # NoPoint => Index(FlushPoint) = SavedIndex
    /\ last # None => (SavedIndex + 1)..EventIn(base, last) \subseteq Covered

(* Once the workers are idle, the event dispatched last may be saved. *)
LastIsLatest ==
    last # None =>
        IF Len(wm.pending) = 0 THEN FlushPoint # NoPoint /\ Index(FlushPoint) = EventIn(base, last)
        ELSE /\ SlotIndex(wm, Len(wm.pending)) = EventIn(base, last)
             /\ session.barrier < NextTicket(wm)

(* Where a collection may be tracked, a session ends with nothing unsaved.  *)
DrainsSettle ==
    setting.budget["track"] > 0 =>
        /\ mode \in {"down", "connect"} => Settled
        /\ Settled \/ LastIsLatest
        /\ session.gap.pending => Settled /\ session.gap.after = SavedIndex

IInv == Typed /\ Shape /\ Numbered /\ Positioned /\ Recent

LosesNothing(o) == Safe(o) /\ JobsReach /\ DrainsSettle

Lossless == Sound(setting) => \E o \in 0..head : LosesNothing(o)

(* What a step must do to keep Lossless: carry the safe start on, or move it. *)
Carries ==
    \A o \in 0..head : Sound(setting) /\ LosesNothing(o) => \E p \in 0..head' : LosesNothing(p)'

(* Every set of numbers that is not empty has a least one (shown at the end *)
(* of the module, from the library's theorems on well-founded relations).   *)
WellOrdered == \A T \in SUBSET Nat : T # {} => \E m \in T : \A k \in T : m <= k

(* The provers: Zenon, but SMT where a step names it. *)
USE Zenon

-----------------------------------------------------------------------------
(* Constants, times and numbers *)

LEMMA Constants ==
    /\ MaxEvents \in Nat \ {0} /\ Rewind \in Nat /\ TimestampCursorMin \in Nat
    /\ FirstBase = 0 - MaxEvents - 1 /\ FirstBase \in Int
    /\ MaxSeq = MaxEvents + MaxEvents + 1 /\ MaxSeq \in Nat
    /\ TimestampCursorMin > MaxSeq
    /\ None = 0 /\ NoTicket = -1
BY SMT, ConsumerAssumption DEF FirstBase, MaxSeq, None, NoTicket

(* A witnessed time is above every seq and stands for one event. *)
LEMMA TimeOfEvent ==
    ASSUME NEW i \in Int
    PROVE  /\ IndexOf(Time(i)) = i /\ Time(i) \in Int
           /\ i \in 1..MaxEvents => Time(i) \in Times
BY SMT, Constants DEF IndexOf, Time, Times

LEMMA EventOfTime ==
    ASSUME NEW t \in Times
    PROVE  /\ IndexOf(t) \in 1..MaxEvents /\ t = Time(IndexOf(t))
           /\ t \in Nat /\ t # None /\ t > TimestampCursorMin + Rewind
<1>1. PICK i \in 1..MaxEvents : t = Time(i)
  BY DEF Times
<1> QED BY SMT, <1>1, Constants DEF IndexOf, Time

LEMMA PointTyped ==
    ASSUME NEW p \in Points
    PROVE  /\ p.seq \in 0..MaxSeq /\ p.time \in Times
           /\ Index(p) \in 1..MaxEvents /\ p # NoPoint
<1>1. Points = [seq : 0..MaxSeq, time : Times]
  BY ConsumerAssumption DEF Times
<1>2. p.seq \in 0..MaxSeq /\ p.time \in Times
  BY <1>1
<1> QED BY <1>2, EventOfTime, NoPointIsNoPoint DEF Index

(* A scenario's settings. *)
LEMMA SettingTyped ==
    ASSUME ServerTyped
    PROVE  /\ setting.choice \in {"auto", "v1", "v2"}
           /\ setting.gap_replay \in BOOLEAN /\ setting.fresh \in BOOLEAN
           /\ setting.collections \subseteq Collections
           /\ setting.budget \in [Kinds -> 0..MaxEvents]
BY ConsumerAssumption DEF ServerTyped

(* What numbers mean at base bb, where events 1 to n exist. *)
Bases(n) == {FirstBase, FirstBase + 1} \cup 0..n

(* The seq of an event after base is read back as the event.                *)
LEMMA SeqNames ==
    ASSUME NEW n \in 1..MaxEvents, NEW bb \in Bases(n), NEW i \in 1..n, bb < i
    PROVE  /\ i - bb \in 1..MaxSeq /\ i - bb # None
           /\ EventIn(bb, i - bb) = i /\ ~Stale(bb, i - bb)
BY SMT, Constants DEF Bases, EventIn, Stale

-----------------------------------------------------------------------------
(* What the types say *)

LEMMA WatermarkTyped ==
    ASSUME NEW w \in Watermarks
    PROVE  /\ w.front \in Nat /\ w.pending \in Seq(Slots) /\ Len(w.pending) \in Nat
           /\ w.applied \in Points \cup {NoPoint}
           /\ \A k \in 1..Len(w.pending) :
                /\ w.pending[k] \in Slots /\ w.pending[k].point \in Points
                /\ w.pending[k].done \in BOOLEAN
                /\ SlotIndex(w, k) \in 1..MaxEvents
<1>1. w.front \in Nat /\ w.pending \in Seq(Slots) /\ w.applied \in Points \cup {NoPoint}
  BY DEF Watermarks
<1>2. Len(w.pending) \in Nat /\ \A k \in 1..Len(w.pending) : w.pending[k] \in Slots
  BY SMT, <1>1
<1> QED BY <1>1, <1>2, PointTyped DEF Slots, SlotIndex

LEMMA ServerFacts ==
    ASSUME ServerTyped
    PROVE  /\ head \in 1..MaxEvents /\ head \in Nat /\ base \in Bases(head) /\ base \in Int
           /\ oldest \in Nat /\ sealed \in Nat /\ host \in Nat
           /\ 1..head \subseteq 1..MaxEvents
<1>1. head \in 1..MaxEvents /\ head \in Nat
  BY SMT, Constants DEF ServerTyped
<1>2. base \in Bases(head) /\ base \in Int
  BY SMT, <1>1, Constants DEF ServerTyped, Bases
<1>3. oldest \in Nat /\ sealed \in Nat /\ host \in Nat
  BY SMT, <1>1 DEF ServerTyped
<1>4. 1..head \subseteq 1..MaxEvents
  BY SMT, <1>1, Constants
<1> QED BY <1>1, <1>2, <1>3, <1>4

LEMMA StoredFacts ==
    ASSUME ServerTyped, DataTyped
    PROVE  /\ stored.seq \in 0..MaxSeq /\ stored.host \in Nat /\ stored.older \in BOOLEAN
           /\ stored.time # None => /\ stored.time \in Times /\ stored.time \in Nat
                                    /\ SavedIndex = IndexOf(stored.time)
                                    /\ SavedIndex \in 1..head
           /\ stored.time = None => SavedIndex = 0
           /\ SavedIndex \in 0..head
<1>1. stored.seq \in 0..MaxSeq /\ stored.host \in Nat /\ stored.older \in BOOLEAN
      /\ stored.time \in {None} \cup Times
  BY DEF DataTyped, StoredType
<1>2. ASSUME stored.time # None
      PROVE  /\ stored.time \in Times /\ stored.time \in Nat
             /\ SavedIndex = IndexOf(stored.time) /\ SavedIndex \in 1..MaxEvents
  BY <1>1, <1>2, EventOfTime DEF SavedIndex
<1>3. stored.time # None => SavedIndex \in 1..head
  BY SMT, <1>2, ServerFacts DEF DataTyped
<1>4. stored.time = None => SavedIndex = 0
  BY DEF SavedIndex
<1>5. SavedIndex \in 0..head
  BY SMT, <1>3, <1>4, ServerFacts
<1> QED BY <1>1, <1>2, <1>3, <1>4, <1>5

LEMMA FlushPointTyped ==
    ASSUME ProcessTyped
    PROVE  /\ FlushPoint \in Points \cup {NoPoint}
           /\ FlushPoint # NoPoint => FlushPoint = wm.applied /\ FlushPoint \in Points
<1>1. wm.applied \in Points \cup {NoPoint}
  BY WatermarkTyped DEF ProcessTyped
<1> QED BY <1>1 DEF FlushPoint, AppliedIfRetired

LEMMA BarrierTyped ==
    ASSUME ProcessTyped
    PROVE  session.barrier \in Int
<1>1. session.barrier \in Nat \cup {NoTicket}
  BY DEF ProcessTyped, SessionType
<1> QED BY SMT, <1>1, Constants

(* A barrier at the next ticket lets nothing of the watermark through.      *)
LEMMA BarrierHolds ==
    ASSUME NEW w \in Watermarks
    PROVE  /\ NextTicket(w) \in Nat /\ ~HasRetired(w, NextTicket(w))
           /\ \A k \in 1..Len(w.pending) : ~Counts(w, NextTicket(w), k)
<1>1. w.front \in Nat /\ Len(w.pending) \in Nat
  BY WatermarkTyped
<1> QED BY SMT, <1>1, Constants DEF NextTicket, HasRetired, Counts

LEMMA NewSessionTyped ==
    ASSUME setting.choice \in {"auto", "v1", "v2"}
    PROVE  /\ NewSession \in SessionType
           /\ NewSession.from_tip = FALSE /\ NewSession.gap = NoGap
           /\ NewSession.barrier = NoTicket
           /\ setting.choice = "v2" => NewSession.protocol = "v2"
<1>1. NoGap \in [pending : BOOLEAN, sent : Nat, after : Nat] /\ None \in Nat /\ 0 \in 0..2
  BY SMT, Constants DEF NoGap
<1> QED BY <1>1 DEF NewSession, SessionType

LEMMA NoConnectionTyped ==
    /\ NoConnection \in ConnType /\ NoConnection.saved = NoPoint
    /\ NoConnection.notice = "none" /\ NoConnection.filter = {} /\ NoConnection.floor = None
    /\ NoConnection.ended = "none"
<1>1. None \in Nat /\ None \in 0..MaxSeq /\ 0 \in Nat
  BY SMT, Constants
<1> QED BY <1>1 DEF NoConnection, ConnType

LEMMA NoGapFacts == NoGap.pending = FALSE /\ NoGap \in [pending : BOOLEAN, sent : Nat, after : Nat]
BY SMT, Constants DEF NoGap

LEMMA EmptyFacts ==
    /\ EmptyWatermark \in Watermarks /\ EmptyWatermark.pending = <<>> /\ EmptyWatermark.front = 0
    /\ EmptyWatermark.applied = NoPoint /\ NextTicket(EmptyWatermark) = 0
    /\ 1..Len(EmptyWatermark.pending) = {}
<1>1. EmptyWatermark \in Watermarks /\ EmptyWatermark.pending = <<>> /\ EmptyWatermark.front = 0
      /\ EmptyWatermark.applied = NoPoint
  BY SMT DEF EmptyWatermark, Watermarks
<1>2. Len(<<>>) = 0
  BY SMT
<1>3. NextTicket(EmptyWatermark) = 0
  BY SMT, <1>1, <1>2 DEF NextTicket
<1>4. 1..0 = {}
  BY SMT
<1> QED BY <1>1, <1>2, <1>3, <1>4

LEMMA IInvParts ==
    ASSUME IInv
    PROVE  ServerTyped /\ ProcessTyped /\ DataTyped /\ Shape /\ Numbered /\ Positioned /\ Recent
BY DEF IInv, Typed

-----------------------------------------------------------------------------
(* What a step leaves alone *)

LeftFalls == left' \in [Kinds -> Nat] /\ \A k \in Kinds : left'[k] <= left[k]

LEMMA SpendFalls ==
    ASSUME ServerTyped, NEW kinds \in SUBSET Kinds, Spend(kinds)
    PROVE  /\ LeftFalls
           /\ \A k \in kinds : left[k] > 0 /\ left'[k] = left[k] - 1
           /\ \A k \in Kinds \ kinds : left'[k] = left[k]
<1>1. left \in [Kinds -> Nat]
  BY DEF ServerTyped
<1>2. \A k \in Kinds : left'[k] = IF k \in kinds THEN left[k] - 1 ELSE left[k]
  BY <1>1 DEF Spend
<1>3. \A k \in Kinds : left[k] \in Nat
  BY <1>1
<1>4. \A k \in kinds : left[k] > 0
  BY DEF Spend
<1>5. \A k \in Kinds : left'[k] \in Nat /\ left'[k] <= left[k]
  BY SMT, <1>2, <1>3, <1>4
<1>6. left' = [k \in Kinds |-> left'[k]]
  BY <1>1 DEF Spend
<1>7. left' \in [Kinds -> Nat]
  BY <1>5, <1>6
<1> QED BY <1>2, <1>4, <1>5, <1>7 DEF LeftFalls

LEMMA LeftStays ==
    ASSUME ServerTyped, left' = left
    PROVE  LeftFalls
<1>1. left \in [Kinds -> Nat]
  BY DEF ServerTyped
<1>2. \A k \in Kinds : left[k] <= left[k]
  BY SMT, <1>1
<1> QED BY <1>1, <1>2 DEF LeftFalls

LEMMA BudgetKept ==
    ASSUME ServerTyped, setting' = setting, LeftFalls
    PROVE  /\ setting' \in Scenarios /\ left' \in [Kinds -> Nat]
           /\ \A k \in Kinds : left'[k] <= setting'.budget[k]
<1>1. /\ setting \in Scenarios /\ left \in [Kinds -> Nat]
      /\ \A k \in Kinds : left[k] <= setting.budget[k]
  BY DEF ServerTyped
<1>2. setting.budget \in [Kinds -> 0..MaxEvents]
  BY SettingTyped
<1>3. ASSUME NEW k \in Kinds PROVE left'[k] <= setting.budget[k]
  <2>1. left'[k] \in Nat /\ left[k] \in Nat /\ setting.budget[k] \in 0..MaxEvents
    BY <1>1, <1>2 DEF LeftFalls
  <2>2. left'[k] <= left[k] /\ left[k] <= setting.budget[k]
    BY <1>1 DEF LeftFalls
  <2> QED BY SMT, <2>1, <2>2, Constants
<1> QED BY <1>1, <1>3 DEF LeftFalls

LEMMA ServerKept ==
    ASSUME ServerTyped, UNCHANGED <<setting, server>>, LeftFalls
    PROVE  /\ ServerTyped'
           /\ head' = head /\ base' = base /\ oldest' = oldest /\ sealed' = sealed
           /\ host' = host /\ log' = log
<1>1. log' = log /\ base' = base /\ oldest' = oldest /\ sealed' = sealed /\ host' = host
  BY DEF server
<1>2. head' = head
  BY <1>1 DEF head
<1> QED BY <1>1, <1>2, BudgetKept DEF ServerTyped

LEMMA DataKept ==
    ASSUME ServerTyped, DataTyped, UNCHANGED database,
           host' \in Nat, host <= host', head' \in Nat, head <= head',
           owed' \in [Collections -> 0..MaxEvents], told' \in BOOLEAN
    PROVE  DataTyped' /\ stored' = stored /\ jobs' = jobs /\ SavedIndex' = SavedIndex
<1>1. stored' = stored /\ jobs' = jobs
  BY DEF database
<1>2. SavedIndex' = SavedIndex
  BY <1>1 DEF SavedIndex
<1>3. stored.host <= host' /\ SavedIndex <= head'
  <2>1. stored.host \in Nat /\ SavedIndex \in 0..head
    BY StoredFacts
  <2>2. host \in Nat /\ head \in Nat
    BY ServerFacts
  <2> QED BY SMT, <2>1, <2>2 DEF DataTyped
<1> QED BY <1>1, <1>2, <1>3 DEF DataTyped

LEMMA FlushPointKept ==
    ASSUME wm' = wm, session'.barrier = session.barrier
    PROVE  FlushPoint' = FlushPoint
BY DEF FlushPoint

LEMMA NumberedKept ==
    ASSUME ServerTyped, ProcessTyped, Numbered,
           head' \in Nat, head <= head', base' = base, wm' = wm, stored' = stored,
           host' = host, last' \in {last, None}
    PROVE  Numbered'
<1>0. head \in Nat
  BY ServerFacts
<1>1. SavedIndex' = SavedIndex
  BY DEF SavedIndex
<1>2. ASSUME NEW i \in Int, i <= head PROVE i <= head'
  BY SMT, <1>0, <1>2
<1>3. \A i \in 1..head : i \in 1..head'
  BY SMT, <1>0
<1>4. \A k \in 1..Len(wm.pending) : SlotIndex(wm, k) \in Int
  <2>1. \A k \in 1..Len(wm.pending) : SlotIndex(wm, k) \in 1..MaxEvents
    BY WatermarkTyped DEF ProcessTyped
  <2> QED BY SMT, <2>1
<1>5. wm.applied # NoPoint => Index(wm.applied) \in Int
  <2>1. wm.applied # NoPoint => Index(wm.applied) \in 1..MaxEvents
    BY WatermarkTyped, PointTyped DEF ProcessTyped
  <2> QED BY SMT, <2>1
<1>6. last' # None => last' = last /\ last # None
  OBVIOUS
<1>7. \A k \in 1..Len(wm.pending) :
         SlotIndex(wm, k) <= head' /\ Names(base, wm.pending[k].point.seq, SlotIndex(wm, k))
  BY <1>2, <1>4 DEF Numbered
<1>8. wm.applied # NoPoint =>
         Index(wm.applied) <= head' /\ Names(base, wm.applied.seq, Index(wm.applied))
  BY <1>2, <1>5 DEF Numbered
<1> QED BY <1>1, <1>3, <1>6, <1>7, <1>8 DEF Numbered

LEMMA RecentKept ==
    ASSUME Recent, told' => told, base' = base, wm' = wm, session'.barrier = session.barrier
    PROVE  Recent'
<1>1. FlushPoint' = FlushPoint
  BY FlushPointKept
<1> QED BY <1>1 DEF Recent

-----------------------------------------------------------------------------
(* What steps do to the events that are wanted and accounted for *)

LEMMA ReachedMore ==
    ASSUME NEW W, NEW H, NEW G, H \subseteq G, NEW p, Reached(W, H, p)
    PROVE  Reached(W, G, p)
BY DEF Reached

LEMMA ReachedDown ==
    ASSUME NEW W, \A i \in W : i \in Int, NEW H, NEW G, H \subseteq G,
           NEW p \in Int, NEW q \in Int, q <= p, Reached(W, H, p)
    PROVE  Reached(W, G, q)
<1>1. ASSUME NEW i \in W, i <= q PROVE i <= p
  BY SMT, <1>1
<1> QED BY <1>1 DEF Reached

LEMMA ReachedUp ==
    ASSUME NEW W, \A i \in W : i \in Int, NEW G, NEW p \in Int, NEW q \in Int, Reached(W, G, p),
           \A i \in W : p < i /\ i <= q => i \in G
    PROVE  Reached(W, G, q)
<1>1. ASSUME NEW i \in W, i <= q, i \notin G PROVE FALSE
  <2>1. ~(i <= p)
    BY <1>1 DEF Reached
  <2>2. p < i
    BY SMT, <2>1
  <2> QED BY <1>1, <2>2
<1> QED BY <1>1 DEF Reached

LEMMA ReachedGrows ==
    ASSUME NEW W, NEW V, NEW H, NEW G, NEW p \in Int, NEW q \in Int, NEW h \in Int,
           q <= p, q <= h, Reached(W, H, p), H \subseteq G,
           \A i \in V : i \in Int /\ (i \in W \/ i > h)
    PROVE  Reached(V, G, q)
<1> SUFFICES ASSUME NEW i \in V, i <= q PROVE i \in G
  BY DEF Reached
<1>1. i \in Int /\ (i \in W \/ i > h)
  OBVIOUS
<1>2. i <= p /\ ~(i > h)
  BY SMT, <1>1
<1> QED BY <1>1, <1>2 DEF Reached

(* A step gives up no event accounted for and wants none of the past anew.  *)
Grows(o) ==
    /\ \A i \in Wanted(o)' : i \in Wanted(o) \/ i > head
    /\ Accounted \subseteq Accounted'

LEMMA WantedTyped ==
    ASSUME NEW o
    PROVE  \A i \in Wanted(o) : i \in 1..head /\ i \in Int /\ log[i] \in tracked
<1>1. \A i \in Wanted(o) : i \in 1..head /\ log[i] \in tracked
  BY DEF Wanted
<1>2. \A i \in 1..head : i \in Int
  BY SMT
<1> QED BY <1>1, <1>2

LEMMA GrowsReach ==
    ASSUME ServerTyped, NEW o, Grows(o), NEW H, NEW G, H \subseteq G,
           NEW p \in Int, NEW q \in Int, q <= p, q <= head, Reached(Wanted(o), H, p)
    PROVE  Reached(Wanted(o)', G, q)
<1>1. \A i \in Wanted(o)' : i \in Int
  <2>1. \A i \in Wanted(o)' : i \in 1..head'
    BY DEF Wanted
  <2> QED BY SMT, <2>1
<1>2. \A i \in Wanted(o)' : i \in Int /\ (i \in Wanted(o) \/ i > head)
  BY <1>1 DEF Grows
<1>3. head \in Int
  BY SMT, ServerFacts
<1> QED BY <1>2, <1>3, ReachedGrows

LEMMA CoveredSame ==
    ASSUME jobs' = jobs, head' = head, sealed' = sealed
    PROVE  Covered' = Covered
BY DEF Covered

LEMMA AccountedGrows ==
    ASSUME done \subseteq done', gaps \subseteq gaps', silent \subseteq silent',
           Covered \subseteq Covered'
    PROVE  Accounted \subseteq Accounted'
BY DEF Accounted

LEMMA WantedSame ==
    ASSUME log' = log, tracked' = tracked, stored' = stored, owed' = owed, NEW o
    PROVE  Wanted(o)' = Wanted(o)
BY DEF Wanted, head

(* A step of the process that leaves the server and the database. *)
LEMMA HistoryGrows ==
    ASSUME UNCHANGED <<server, tracked, stored, jobs, owed>>,
           done \subseteq done', gaps \subseteq gaps', silent \subseteq silent', NEW o
    PROVE  Grows(o) /\ Covered' = Covered /\ Wanted(o)' = Wanted(o)
<1>1. log' = log /\ sealed' = sealed /\ tracked' = tracked /\ stored' = stored /\ jobs' = jobs
      /\ owed' = owed
  BY DEF server
<1>2. head' = head
  BY <1>1 DEF head
<1>3. Covered' = Covered
  BY <1>1, <1>2, CoveredSame
<1>4. Accounted \subseteq Accounted'
  BY <1>3, AccountedGrows
<1>5. Wanted(o)' = Wanted(o)
  BY <1>1, WantedSame
<1> QED BY <1>3, <1>4, <1>5 DEF Grows

LEMMA HandledGrows ==
    ASSUME NEW o, Grows(o), wm' = wm
    PROVE  Handled \subseteq Handled' /\ InFlightEvents' = InFlightEvents
BY DEF Grows, Handled, InFlightEvents

-----------------------------------------------------------------------------
(* Parts of the invariant that a step leaves *)

LEMMA FlushIndex ==
    ASSUME IInv, FlushPoint # NoPoint
    PROVE  Index(FlushPoint) \in 1..MaxEvents /\ Index(FlushPoint) \in Int /\ Index(FlushPoint) <= head
<1>1. FlushPoint = wm.applied /\ FlushPoint \in Points
  BY IInvParts, FlushPointTyped
<1>2. Index(FlushPoint) \in 1..MaxEvents /\ Index(FlushPoint) <= head
  BY <1>1, PointTyped, IInvParts DEF Numbered
<1>3. \A i \in 1..MaxEvents : i \in Int
  BY SMT
<1> QED BY <1>2, <1>3

LEMMA SlotIndexTyped ==
    ASSUME IInv, NEW k \in 1..Len(wm.pending)
    PROVE  SlotIndex(wm, k) \in Int /\ SlotIndex(wm, k) <= head /\ SlotIndex(wm, k) <= SlotIndex(wm, k)
<1>1. SlotIndex(wm, k) \in 1..MaxEvents /\ SlotIndex(wm, k) <= head
  BY IInvParts, WatermarkTyped DEF ProcessTyped, Numbered
<1>2. \A i \in 1..MaxEvents : i \in Int /\ i <= i
  BY SMT
<1> QED BY <1>1, <1>2

LEMMA SavedIndexTyped ==
    ASSUME IInv
    PROVE  SavedIndex \in Int /\ SavedIndex <= head /\ SavedIndex <= SavedIndex /\ SavedIndex >= 0
<1>1. SavedIndex \in 0..head
  BY IInvParts, StoredFacts
<1>2. head \in Nat
  BY IInvParts, ServerFacts
<1> QED BY SMT, <1>1, <1>2

LEMMA LastIndexTyped ==
    ASSUME IInv, last # None
    PROVE  EventIn(base, last) \in Int /\ EventIn(base, last) <= head
           /\ EventIn(base, last) <= EventIn(base, last)
<1>1. EventIn(base, last) \in 1..head
  BY IInvParts DEF Numbered
<1>2. \A i \in 1..head : i \in Int /\ i <= head /\ i <= i
  BY SMT, IInvParts, ServerFacts
<1> QED BY <1>1, <1>2

LEMMA SaveSafeKept ==
    ASSUME IInv, NEW o, Grows(o), SaveSafe(o),
           FlushPoint' \in {FlushPoint, NoPoint}, SavedIndex' = SavedIndex
    PROVE  SaveSafe(o)'
<1>1. Accounted \subseteq Accounted' /\ ServerTyped
  BY IInvParts DEF Grows
<1>2. Reached(Wanted(o)', Accounted', SavedIndex)
  BY <1>1, SavedIndexTyped, GrowsReach DEF SaveSafe
<1>3. ASSUME FlushPoint' # NoPoint
      PROVE  Reached(Wanted(o)', Accounted', Index(FlushPoint'))
  <2>1. FlushPoint' = FlushPoint /\ FlushPoint # NoPoint
    BY <1>3
  <2>2. Index(FlushPoint) \in Int /\ Index(FlushPoint) <= head /\ Index(FlushPoint) <= Index(FlushPoint)
    BY SMT, <2>1, FlushIndex
  <2> QED BY <1>1, <2>1, <2>2, GrowsReach DEF SaveSafe
<1> QED BY <1>2, <1>3 DEF SaveSafe

LEMMA SlotSafeKept ==
    ASSUME IInv, NEW o, Grows(o), SlotSafe(o), wm' = wm, done \subseteq done'
    PROVE  SlotSafe(o)'
<1>1. Accounted \subseteq Accounted' /\ ServerTyped
  BY IInvParts DEF Grows
<1>2. ASSUME NEW k \in 1..Len(wm.pending)
      PROVE  /\ Reached(Wanted(o)', Accounted' \cup SlotsTo(wm, k), SlotIndex(wm, k))
             /\ wm.pending[k].done => SlotIndex(wm, k) \in done'
  <2>1. Accounted \cup SlotsTo(wm, k) \subseteq Accounted' \cup SlotsTo(wm, k)
    BY <1>1
  <2>2. Reached(Wanted(o), Accounted \cup SlotsTo(wm, k), SlotIndex(wm, k))
        /\ (wm.pending[k].done => SlotIndex(wm, k) \in done)
    BY DEF SlotSafe
  <2>3. Reached(Wanted(o)', Accounted' \cup SlotsTo(wm, k), SlotIndex(wm, k))
    BY <1>1, <2>1, <2>2, SlotIndexTyped, GrowsReach
  <2> QED BY <2>2, <2>3
<1> QED BY <1>2 DEF SlotSafe

LEMMA LastSafeKept ==
    ASSUME IInv, NEW o, Grows(o), LastSafe(o), Handled \subseteq Handled',
           last' \in {last, None}, last # None => EventIn(base', last) = EventIn(base, last)
    PROVE  LastSafe(o)'
<1> SUFFICES ASSUME last' # None
             PROVE  Reached(Wanted(o)', Handled', EventIn(base', last'))
  BY DEF LastSafe
<1>1. last' = last /\ last # None
  OBVIOUS
<1>2. Reached(Wanted(o), Handled, EventIn(base, last)) /\ ServerTyped
  BY <1>1, IInvParts DEF LastSafe
<1>3. Reached(Wanted(o)', Handled', EventIn(base, last))
  BY <1>1, <1>2, LastIndexTyped, GrowsReach
<1> QED BY <1>1, <1>3

LEMMA GapSafeKept ==
    ASSUME IInv, NEW o, Grows(o), SaveSafe(o), GapSafe(o), head' \in Nat, head <= head',
           session'.from_tip => session'.gap.pending,
           session'.gap.pending =>
             /\ last' = None
             /\ \/ session.gap.pending /\ session'.gap = session.gap
                \/ session'.gap.after = SavedIndex
    PROVE  GapSafe(o)'
<1>1. ASSUME session'.gap.pending
      PROVE  session'.gap.after <= head' /\ Reached(Wanted(o)', Accounted', session'.gap.after)
  <2>0. Accounted \subseteq Accounted' /\ ServerTyped /\ head \in Nat
    BY IInvParts, ServerFacts DEF Grows
  <2>1. /\ session'.gap.after \in Int /\ session'.gap.after <= head
        /\ Reached(Wanted(o), Accounted, session'.gap.after)
    <3>1. CASE session.gap.pending /\ session'.gap = session.gap
      <4>1. session.gap.after \in Nat
        BY IInvParts DEF ProcessTyped, SessionType
      <4>2. session.gap.after \in Int
        BY SMT, <4>1
      <4> QED BY <3>1, <4>2 DEF GapSafe
    <3>2. CASE session'.gap.after = SavedIndex
      BY <3>2, SavedIndexTyped DEF SaveSafe
    <3> QED BY <1>1, <3>1, <3>2
  <2>2. session'.gap.after <= session'.gap.after /\ session'.gap.after <= head'
    BY SMT, <2>0, <2>1
  <2> QED BY <2>0, <2>1, <2>2, GrowsReach
<1> QED BY <1>1 DEF GapSafe

LEMMA FreshSafeKept ==
    ASSUME NEW o, FreshSafe(o), stored' = stored, wm' = wm, session'.barrier = session.barrier,
           last' \in {last, None}, last # None => EventIn(base', last) = EventIn(base, last),
           stored.time = None /\ last' = None /\ ~session'.gap.pending =>
             last = None /\ ~session.gap.pending,
           stored.time = None /\ mode' = "stream" => conn'.pos >= o
    PROVE  FreshSafe(o)'
<1> SUFFICES ASSUME stored.time = None
             PROVE  FreshSafe(o)'
  BY DEF FreshSafe
<1>1. FlushPoint' = FlushPoint
  BY FlushPointKept
<1>2. \A k : Counts(wm', session'.barrier, k) <=> Counts(wm, session.barrier, k)
  BY DEF Counts
<1>3. last' # None => EventIn(base', last') >= o
  BY DEF FreshSafe
<1> QED BY <1>1, <1>2, <1>3 DEF FreshSafe

LEMMA JobsReachKept ==
    ASSUME ServerTyped, JobsReach, setting' = setting, jobs' = jobs, base' = base,
           sealed' = sealed, LeftFalls
    PROVE  JobsReach'
<1>1. left'["seal"] > 0 => left["seal"] > 0
  <2>1. "seal" \in Kinds
    BY DEF Kinds
  <2>2. left["seal"] \in Nat /\ left'["seal"] \in Nat /\ left'["seal"] <= left["seal"]
    BY <2>1 DEF LeftFalls, ServerTyped
  <2> QED BY SMT, <2>2
<1> QED BY <1>1 DEF JobsReach

LEMMA SettledKept ==
    ASSUME Settled, wm' = wm, FlushPoint' \in {FlushPoint, NoPoint}, SavedIndex' = SavedIndex,
           Covered \subseteq Covered', last' \in {last, None},
           last # None => EventIn(base', last) = EventIn(base, last)
    PROVE  Settled'
<1>1. last' # None => last' = last /\ EventIn(base', last') = EventIn(base, last)
  OBVIOUS
<1>2. last' # None => (SavedIndex' + 1)..EventIn(base', last') \subseteq Covered'
  BY <1>1 DEF Settled
<1> QED BY <1>2 DEF Settled

LEMMA LatestKept ==
    ASSUME LastIsLatest, wm' = wm, session'.barrier = session.barrier, last' \in {last, None},
           last # None => EventIn(base', last) = EventIn(base, last)
    PROVE  LastIsLatest'
<1>1. FlushPoint' = FlushPoint
  BY FlushPointKept
<1>2. last' # None => last' = last /\ EventIn(base', last') = EventIn(base, last)
  OBVIOUS
<1> QED BY <1>1, <1>2 DEF LastIsLatest

LEMMA DrainsKept ==
    ASSUME DrainsSettle, setting' = setting, wm' = wm, session'.barrier = session.barrier,
           SavedIndex' = SavedIndex, Covered \subseteq Covered', last' \in {last, None},
           last # None => EventIn(base', last) = EventIn(base, last),
           mode' \in {"down", "connect"} => mode \in {"down", "connect"},
           session'.gap.pending =>
             \/ session.gap.pending /\ session'.gap = session.gap
             \/ session'.gap.after = SavedIndex /\ mode = "connect"
    PROVE  DrainsSettle'
<1> SUFFICES ASSUME setting.budget["track"] > 0
             PROVE  DrainsSettle'
  BY DEF DrainsSettle
<1>1. FlushPoint' = FlushPoint
  BY FlushPointKept
<1>2. Settled => Settled'
  BY <1>1, SettledKept
<1>3. LastIsLatest => LastIsLatest'
  BY LatestKept
<1>4. session'.gap.pending => Settled' /\ session'.gap.after = SavedIndex'
  BY <1>2 DEF DrainsSettle
<1> QED BY <1>2, <1>3, <1>4 DEF DrainsSettle

LEMMA StreamSafeKept ==
    ASSUME IInv, NEW o, Grows(o), StreamSafe(o), Streamed \subseteq Streamed', base' = base,
           session'.sent = session.sent, session'.protocol = session.protocol,
           mode' = "stream" =>
             /\ mode = "stream" /\ conn'.pos = conn.pos /\ conn'.notice = conn.notice
             /\ conn'.floor = conn.floor
    PROVE  StreamSafe(o)'
<1> SUFFICES ASSUME mode = "stream", mode' = "stream"
             PROVE  StreamSafe(o)'
  BY DEF StreamSafe
<1>0. ServerTyped /\ Positioned /\ head \in Nat /\ base \in Int
      /\ conn.pos \in Nat /\ session.sent \in Nat /\ conn.floor \in Nat
  BY IInvParts, ServerFacts DEF ProcessTyped, ConnType, SessionType
<1>1. ASSUME NEW q \in Int, q <= head, Reached(Wanted(o), Streamed, q)
      PROVE  Reached(Wanted(o)', Streamed', q)
  <2>1. q <= q
    BY SMT, <1>1
  <2> QED BY <1>0, <1>1, <2>1, GrowsReach
<1>2. conn.notice = "none" => Reached(Wanted(o)', Streamed', conn.pos - 1)
  <2>1. conn.pos - 1 \in Int /\ conn.pos - 1 <= head
    BY SMT, <1>0 DEF Positioned
  <2> QED BY <1>1, <2>1 DEF StreamSafe
<1>3. ASSUME conn.notice = "OutdatedCursor"
      PROVE  Reached(Wanted(o)', Streamed', IndexOf(session.sent) - 1)
  <2>1. IndexOf(session.sent) <= conn.pos /\ Reached(Wanted(o), Streamed, IndexOf(session.sent) - 1)
    BY <1>3 DEF StreamSafe
  <2>2. IndexOf(session.sent) - 1 \in Int /\ IndexOf(session.sent) - 1 <= head
    BY SMT, <1>0, <2>1, Constants DEF Positioned, IndexOf
  <2> QED BY <1>1, <2>1, <2>2
<1>4. ASSUME conn.notice = "FutureCursor"
      PROVE  Reached(Wanted(o)', Streamed', EventIn(base, session.sent))
  <2>1. EventIn(base, session.sent) \in 1..head
    BY <1>0, <1>4 DEF Positioned
  <2>2. EventIn(base, session.sent) \in Int /\ EventIn(base, session.sent) <= head
    BY SMT, <1>0, <2>1
  <2> QED BY <1>1, <1>4, <2>2 DEF StreamSafe
<1>5. ASSUME conn.notice # "FutureCursor", conn.floor # None
      PROVE  Reached(Wanted(o)', Streamed', conn.floor + base)
  <2>1. conn.floor + base \in 1..head
    BY <1>0, <1>5 DEF Positioned
  <2>2. conn.floor + base \in Int /\ conn.floor + base <= head
    BY SMT, <1>0, <2>1
  <2> QED BY <1>1, <1>5, <2>2 DEF StreamSafe
<1> QED BY <1>2, <1>3, <1>4, <1>5 DEF StreamSafe

-----------------------------------------------------------------------------
(* Initial states *)

(* Before the first save nothing is owed. *)
FreshOwes == stored.time = None => \A c \in Collections : owed[c] = MaxEvents

(* What Init says of the log, as a sequence. *)
OneEvent == log \in Seq(Collections) /\ head = 1 /\ log[1] \in Collections

LEMMA InitHolds == Init /\ OneEvent => IInv
<1> SUFFICES ASSUME Init, OneEvent PROVE IInv
  OBVIOUS
<1>1. /\ setting \in Scenarios /\ left = setting.budget /\ log \in [1..1 -> setting.collections]
      /\ base = FirstBase /\ oldest = 1 /\ sealed = 1 /\ host = 1 /\ mode = "connect"
      /\ session = NewSession /\ last = None /\ wm = EmptyWatermark /\ tracked = {log[1]}
      /\ conn = NoConnection /\ jobs = {} /\ told = FALSE
      /\ owed = [c \in Collections |-> IF setting.fresh THEN MaxEvents ELSE 1]
  BY DEF Init
<1>2. /\ setting.choice \in {"auto", "v1", "v2"} /\ setting.fresh \in BOOLEAN
      /\ setting.collections \subseteq Collections /\ setting.budget \in [Kinds -> 0..MaxEvents]
  BY <1>1, ConsumerAssumption
<1>3. log \in Seq(Collections) /\ head = 1 /\ log[1] \in Collections
  BY DEF OneEvent
<1>4. left \in [Kinds -> Nat] /\ \A k \in Kinds : left[k] <= setting.budget[k]
  BY SMT, <1>1, <1>2, Constants
<1>5. ServerTyped
  <2>1. 1 \in 1..MaxEvents /\ 1 \in 1..2 /\ FirstBase < 1 /\ FirstBase <= 1 /\ 1 \in Nat \ {0}
        /\ 1 \in 1..1 /\ 1 + 1 = 2
    BY SMT, Constants
  <2> QED BY <1>1, <1>3, <1>4, <2>1 DEF ServerTyped
<1>6. NewSession \in SessionType /\ NewSession.barrier = NoTicket
      /\ (setting.choice = "v2" => NewSession.protocol = "v2")
  BY <1>2, NewSessionTyped
<1>7. ProcessTyped
  <2>1. None \in 0..MaxSeq
    BY SMT, Constants
  <2> QED BY <1>1, <1>3, <1>6, <2>1, EmptyFacts, NoConnectionTyped DEF ProcessTyped
<1>8. /\ DataTyped
      /\ stored.time = None => setting.fresh /\ stored = NothingSaved
      /\ stored.time # None => stored.host # None
      /\ stored.host = host /\ ~stored.older => Names(base, stored.seq, SavedIndex)
  <2>1. CASE setting.fresh
    <3>1. stored = NothingSaved
      BY <2>1 DEF Init
    <3>2. /\ stored \in StoredType /\ stored.host = 0 /\ stored.time = None /\ stored.seq = None
          /\ stored.host # 1 /\ stored.host <= 1
      BY SMT, <3>1, Constants DEF NothingSaved, StoredType
    <3>3. SavedIndex = 0 /\ 0 <= 1
      BY <3>2 DEF SavedIndex
    <3>4. owed \in [Collections -> 0..MaxEvents]
      BY SMT, <1>1, Constants
    <3>5. DataTyped
      BY <1>1, <1>3, <3>2, <3>3, <3>4 DEF DataTyped
    <3>6. stored.time = None => setting.fresh /\ stored = NothingSaved
      BY <2>1, <3>1
    <3>7. stored.time # None => stored.host # None
      BY <3>2
    <3>8. stored.host = host /\ ~stored.older => Names(base, stored.seq, SavedIndex)
      BY <1>1, <3>2
    <3> QED BY <3>5, <3>6, <3>7, <3>8
  <2>2. CASE ~setting.fresh
    <3> DEFINE q == IF setting.choice = "v1" THEN None ELSE 1 - base
    <3>1. stored = [seq |-> q, time |-> Time(1), host |-> 1, older |-> FALSE]
      BY <2>2 DEF Init
    <3>2. base \in Bases(1) /\ base < 1 /\ 1 \in 1..MaxEvents /\ 1 \in 1..1
      BY SMT, <1>1, Constants DEF Bases
    <3>3. 1 - base \in 1..MaxSeq /\ EventIn(base, 1 - base) = 1
      BY ZenonT(40), <3>2, SeqNames
    <3>4. q \in 0..MaxSeq
      BY SMT, <3>3, Constants
    <3>5. q = None \/ q = 1 - base
      OBVIOUS
    <3> HIDE DEF q
    <3>6. Time(1) \in Times /\ IndexOf(Time(1)) = 1 /\ Time(1) # None
      <4>1. 1 \in Int
        BY SMT
      <4> QED BY <3>2, <4>1, TimeOfEvent, EventOfTime
    <3>7. /\ stored \in StoredType /\ stored.host = 1 /\ stored.time = Time(1) /\ stored.seq = q
          /\ stored.host # None /\ stored.host <= 1
      BY SMT, <3>1, <3>4, <3>6, Constants DEF StoredType
    <3>8. SavedIndex = 1 /\ 1 <= 1
      BY <3>6, <3>7 DEF SavedIndex
    <3>9. owed \in [Collections -> 0..MaxEvents]
      BY SMT, <1>1, Constants
    <3>10. DataTyped
      BY <1>1, <1>3, <3>7, <3>8, <3>9 DEF DataTyped
    <3>11. Names(base, stored.seq, SavedIndex)
      BY <3>3, <3>5, <3>7, <3>8 DEF Names
    <3> QED BY <3>6, <3>7, <3>10, <3>11
  <2> QED BY <2>1, <2>2
<1>10. NoTicket <= NextTicket(EmptyWatermark)
  BY SMT, EmptyFacts, Constants
<1>11. Shape
  BY <1>1, <1>6, <1>8, <1>10, NoConnectionTyped DEF Shape
<1>12. Numbered
  BY <1>1, <1>8, EmptyFacts DEF Numbered
<1>13. Positioned /\ Recent
  BY <1>1 DEF Positioned, Recent
<1> QED BY <1>5, <1>7, <1>8, <1>11, <1>12, <1>13 DEF IInv, Typed

LEMMA InitLosesNothing == Init /\ OneEvent => FreshOwes /\ LosesNothing(0) /\ 0 \in 0..head
<1> SUFFICES ASSUME Init, OneEvent PROVE FreshOwes /\ LosesNothing(0) /\ 0 \in 0..head
  OBVIOUS
<1>1. /\ sealed = 1 /\ base = FirstBase /\ mode = "connect" /\ session = NewSession /\ last = None
      /\ wm = EmptyWatermark /\ jobs = {} /\ done = {1}
      /\ owed = [c \in Collections |-> IF setting.fresh THEN MaxEvents ELSE 1]
  BY DEF Init
<1>2. ServerTyped /\ DataTyped /\ Shape /\ SavedIndex \in 0..head /\ head \in Nat
  BY InitHolds, IInvParts, StoredFacts, ServerFacts
<1>3. session.from_tip = FALSE /\ session.gap = NoGap /\ NoGap.pending = FALSE
  BY <1>1, <1>2, SettingTyped, NewSessionTyped, NoGapFacts
<1>4. FlushPoint = NoPoint /\ 1..Len(wm.pending) = {}
  BY <1>1, EmptyFacts DEF FlushPoint, AppliedIfRetired
<1>5. Len(wm.pending) = 0 /\ head = 1
  <2>1. Len(wm.pending) = 0
    BY SMT, <1>1, EmptyFacts
  <2>2. head = 1
    BY DEF OneEvent
  <2> QED BY <2>1, <2>2
<1>6. Reached(Wanted(0), Accounted, SavedIndex)
  <2>1. \A i \in 1..1 : i = 1
    BY SMT
  <2>2. \A i \in Wanted(0) : i \in done
    BY <1>1, <1>5, <2>1, WantedTyped
  <2> QED BY <2>2 DEF Reached, Accounted
<1>7. SaveSafe(0) /\ SlotSafe(0) /\ LastSafe(0) /\ GapSafe(0)
  BY <1>1, <1>3, <1>4, <1>6 DEF SaveSafe, SlotSafe, LastSafe, GapSafe
<1>8. StreamSafe(0) /\ FreshSafe(0)
  BY <1>1, <1>4 DEF StreamSafe, FreshSafe
<1>9. DrainsSettle
  <2>1. Settled
    BY <1>1, <1>4, <1>5 DEF Settled
  <2> QED BY <1>3, <2>1 DEF DrainsSettle
<1>10. JobsReach
  <2>1. Later(1, base) = 1
    BY SMT, <1>1, Constants DEF Later
  <2> QED BY <1>1, <2>1 DEF JobsReach
<1>11. FreshOwes
  BY <1>1, <1>2 DEF FreshOwes, Shape
<1>12. 0 \in 0..head
  BY SMT, <1>2
<1> QED BY <1>7, <1>8, <1>9, <1>10, <1>11, <1>12 DEF LosesNothing, Safe

-----------------------------------------------------------------------------

(* Where a session resumes *)

(* resume_cursor and v2_resume: a session resumes from the tip, from a seq  *)
(* whose event was dispatched or saved, or from a time not after the saved  *)
(* one.                                                                     *)
ResumesFromTip ==
    Resume = None /\ (session.from_tip \/ (stored.time = None /\ last = None))

ResumesBySeq ==
    /\ IsSeq(Resume) /\ ~IsTime(Resume) /\ Resume \in 1..MaxSeq /\ session.protocol = "v2"
    /\ EventIn(base, Resume) \in 1..head
    /\ ~session.from_tip
    /\ \/ last # None /\ Resume = last
       \/ stored.time # None /\ EventIn(base, Resume) = SavedIndex

ResumesByTime ==
    /\ IsTime(Resume) /\ ~IsSeq(Resume) /\ Resume \in Nat /\ Resume # None
    /\ ~session.from_tip
    /\ stored.time # None /\ last = None
    /\ IndexOf(Resume) \in Int /\ IndexOf(Resume) <= SavedIndex

-----------------------------------------------------------------------------

(* Connecting *)

(* A refused or failed connect: only the session and last_dispatched move.  *)
RetryStep ==
    /\ mode = "connect" /\ mode' = "connect"
    /\ UNCHANGED <<setting, server, wm, tracked, conn, database, history>>
    /\ LeftFalls
    /\ session' \in SessionType /\ session'.barrier = session.barrier
    /\ last' \in {last, None}
    /\ session'.protocol = "v1" => last' = None
    /\ setting.choice = "v2" => session'.protocol = "v2"

(* What a refused or failed connect makes of the pending gap. *)
GapCarried ==
    /\ session'.from_tip => session'.gap.pending
    /\ session'.gap.pending =>
         /\ last' = None
         /\ \/ session.gap.pending /\ session'.gap = session.gap
            \/ session'.gap.after = SavedIndex
    /\ stored.time = None /\ last' = None /\ ~session'.gap.pending =>
         last = None /\ ~session.gap.pending

(* A refused or failed connect. *)
Refusal == ConnectFails \/ NotFound \/ CursorTooOld \/ InvalidRequest \/ UnexplainedBadRequest

(* Every answer to a connection attempt keeps the invariant and loses       *)
(* nothing.                                                                 *)
LEMMA ConnectSteps == IInv /\ Connect => IInv' /\ Carries
<1>ResumeCases.
    ASSUME Typed, Shape, Numbered
    PROVE  /\ Resume \in Nat
           /\ ResumesFromTip \/ ResumesBySeq \/ ResumesByTime
  <2> USE <1>ResumeCases
  <2>0. ServerTyped /\ ProcessTyped /\ DataTyped
    BY DEF Typed
  <2>01. None \in Nat
    BY SMT, Constants
  <2>1. /\ session.protocol \in {"v1", "v2"} /\ last \in 0..MaxSeq /\ session.from_tip \in BOOLEAN
    BY <2>0 DEF ProcessTyped, SessionType
  <2>2. session.protocol = "v1" => last = None
    BY DEF Shape
  <2> DEFINE rc(v) == ResumeCursor(Usable, v)
  <2>3. Usable.seq \in {None, Load.seq} /\ Usable.time = stored.time
        /\ Load.seq \in {None, stored.seq} /\ (Load.seq # None => ~stored.older \/ stored.time = None)
    BY DEF Usable, Load
  <2>4. ASSUME NEW v \in {"v1", "v2"}, rc(v) # None
        PROVE  /\ stored.time # None
               /\ \/ /\ v = "v2" /\ rc(v) \in 1..MaxSeq /\ EventIn(base, rc(v)) = SavedIndex
                  \/ /\ rc(v) \in Nat /\ rc(v) >= TimestampCursorMin
                     /\ IndexOf(rc(v)) \in Int /\ IndexOf(rc(v)) <= SavedIndex
    <3>1. stored.time # None
      <4> SUFFICES ASSUME stored.time = None PROVE FALSE
        OBVIOUS
      <4>1. stored = NothingSaved
        BY DEF Shape
      <4>2. stored.seq = None /\ stored.host = None
        BY SMT, <4>1 DEF NothingSaved
      <4> QED BY <2>3, <2>4, <4>2 DEF ResumeCursor
    <3>2. stored.time \in Times /\ SavedIndex = IndexOf(stored.time) /\ stored.host # None
          /\ stored.time \in Nat /\ stored.time > TimestampCursorMin + Rewind
      BY <2>0, <3>1, StoredFacts, EventOfTime DEF Shape
    <3>3. CASE stored.host # host
      <4>1. rc(v) = stored.time - Rewind
        BY <2>3, <3>1, <3>2, <3>3 DEF ResumeCursor
      <4> HIDE DEF rc
      <4> QED BY SMT, <3>1, <3>2, <4>1, Constants DEF IndexOf
    <3>4. CASE stored.host = host /\ v = "v2" /\ Usable.seq # None
      <4>1. rc(v) = stored.seq /\ stored.seq # None /\ ~stored.older
        BY <2>3, <3>1, <3>4 DEF ResumeCursor
      <4>2. EventIn(base, stored.seq) = SavedIndex
        BY <3>4, <4>1 DEF Numbered, Names
      <4>3. stored.seq \in 0..MaxSeq
        BY <2>0, StoredFacts
      <4> HIDE DEF rc
      <4>4. rc(v) \in 1..MaxSeq
        BY SMT, <4>1, <4>3, Constants
      <4> QED BY <3>1, <3>4, <4>1, <4>2, <4>4
    <3>5. CASE stored.host = host /\ ~(v = "v2" /\ Usable.seq # None)
      <4>1. rc(v) = stored.time
        BY <2>3, <3>5 DEF ResumeCursor
      <4> HIDE DEF rc
      <4>2. IndexOf(rc(v)) \in Int
        BY SMT, <3>2, <4>1, Constants DEF IndexOf
      <4> QED BY SMT, <3>1, <3>2, <4>1, <4>2, Constants
    <3> QED BY <3>3, <3>4, <3>5
  <2>5. ASSUME NEW v \in {"v1", "v2"}, rc(v) = None
        PROVE  stored.time = None
    <3> SUFFICES ASSUME stored.time # None PROVE FALSE
      OBVIOUS
    <3>2. stored.time \in Nat /\ stored.time > TimestampCursorMin + Rewind /\ stored.time # None
      BY <2>0, StoredFacts, EventOfTime
    <3>3. stored.time - Rewind # None
      BY SMT, <3>2, Constants
    <3> QED BY <2>3, <2>5, <3>2, <3>3 DEF ResumeCursor
  <2>6. CASE session.from_tip
    <3>1. Resume = None
      BY <2>6 DEF Resume
    <3> QED BY SMT, <2>6, <3>1, Constants DEF ResumesFromTip
  <2>7. CASE ~session.from_tip /\ session.protocol = "v1"
    <3>1. Resume = rc("v1") /\ last = None
      BY <2>2, <2>7 DEF Resume
    <3>2. CASE rc("v1") = None
      BY <2>01, <2>5, <3>1, <3>2 DEF ResumesFromTip
    <3>3. CASE rc("v1") # None
      <4>1. /\ stored.time # None
            /\ rc("v1") \in Nat /\ rc("v1") >= TimestampCursorMin
            /\ IndexOf(rc("v1")) \in Int /\ IndexOf(rc("v1")) <= SavedIndex
        BY <2>4, <3>3
      <4> HIDE DEF rc
      <4> QED BY SMT, <2>7, <3>1, <3>3, <4>1, Constants DEF ResumesByTime, IsTime, IsSeq
    <3> QED BY <3>2, <3>3
  <2>8. CASE ~session.from_tip /\ session.protocol = "v2" /\ last = None
    <3>1. Resume = rc("v2")
      BY <2>8 DEF Resume, V2Resume
    <3>2. CASE rc("v2") = None
      BY <2>01, <2>5, <2>8, <3>1, <3>2 DEF ResumesFromTip
    <3>3. CASE rc("v2") # None
      <4> HIDE DEF rc
      <4>0. stored.time # None
        BY <2>4, <3>3
      <4>1. CASE rc("v2") \in 1..MaxSeq /\ EventIn(base, rc("v2")) = SavedIndex
        <5>1. SavedIndex \in 1..head
          BY <2>0, <4>0, StoredFacts
        <5> QED BY SMT, <2>8, <3>1, <4>0, <4>1, <5>1, Constants DEF ResumesBySeq, IsTime, IsSeq
      <4>2. CASE /\ rc("v2") \in Nat /\ rc("v2") >= TimestampCursorMin
                 /\ IndexOf(rc("v2")) \in Int /\ IndexOf(rc("v2")) <= SavedIndex
        BY SMT, <2>8, <3>1, <3>3, <4>0, <4>2, Constants DEF ResumesByTime, IsTime, IsSeq
      <4> QED BY <2>4, <3>3, <4>1, <4>2
    <3> QED BY <3>2, <3>3
  <2>9. CASE ~session.from_tip /\ session.protocol = "v2" /\ last # None
    <3>1. last \in 1..MaxSeq /\ EventIn(base, last) \in 1..head
      BY SMT, <2>1, <2>9, Constants DEF Numbered
    <3>2. Resume = IF IsSeq(rc("v2")) THEN Later(rc("v2"), last) ELSE last
      BY <2>9 DEF Resume, V2Resume
    <3>3. CASE Resume = last
      BY SMT, <2>9, <3>1, <3>3, Constants DEF ResumesBySeq, IsTime, IsSeq
    <3>4. CASE Resume # last
      <4>1. IsSeq(rc("v2")) /\ Resume = rc("v2")
        BY <3>2, <3>4 DEF Later
      <4>2. rc("v2") # None
        BY <4>1 DEF IsSeq
      <4>3. stored.time # None
        BY <2>4, <4>2
      <4>4. rc("v2") \in 1..MaxSeq /\ EventIn(base, rc("v2")) = SavedIndex
        <5>1. ~(rc("v2") \in Nat /\ rc("v2") >= TimestampCursorMin)
          <6> HIDE DEF rc
          <6> QED BY SMT, <4>1, Constants DEF IsSeq
        <5> QED BY <2>4, <4>2, <5>1
      <4> HIDE DEF rc
      <4>5. SavedIndex \in 1..head
        BY <2>0, <4>3, StoredFacts
      <4> QED BY SMT, <2>9, <4>1, <4>3, <4>4, <4>5, Constants DEF ResumesBySeq, IsTime, IsSeq
    <3> QED BY <3>3, <3>4
  <2> QED BY <2>1, <2>6, <2>7, <2>8, <2>9
<1>LoadTyped.
    ASSUME ServerTyped, DataTyped
    PROVE  Load.seq \in Nat /\ Load.seq \in 0..MaxSeq /\ Load.time = stored.time
           /\ SavedIndex \in Nat
  <2> USE <1>LoadTyped
  <2>1. stored.seq \in 0..MaxSeq /\ SavedIndex \in 0..head /\ head \in Nat
    BY StoredFacts, ServerFacts
  <2>2. Load.seq \in {stored.seq, None} /\ Load.time = stored.time
    BY DEF Load
  <2> QED BY SMT, <2>1, <2>2, Constants
(* The session once it has asked. *)
<1>AskedTyped.
    ASSUME session \in SessionType, Resume \in Nat
    PROVE  /\ Asked \in SessionType
           /\ Asked.protocol = session.protocol /\ Asked.sent = Resume
           /\ Asked.stale = session.stale /\ Asked.from_tip = session.from_tip
           /\ Asked.gap = IF Resume # None THEN NoGap ELSE session.gap
           /\ Asked.gap_at = session.gap_at /\ Asked.bad = session.bad
           /\ Asked.barrier = session.barrier
  <2> USE <1>AskedTyped
  <2>1. NoGap \in [pending : BOOLEAN, sent : Nat, after : Nat]
    BY SMT, Constants DEF NoGap
  <2> QED BY <2>1 DEF Asked, SessionType
<1>ConnectFacts.
    ASSUME IInv
    PROVE  /\ ServerTyped /\ ProcessTyped /\ DataTyped /\ Shape /\ Numbered
           /\ session \in SessionType /\ Resume \in Nat
           /\ session.protocol = "v1" => last = None
           /\ setting.choice = "v2" => session.protocol = "v2"
  <2> USE <1>ConnectFacts
  <2>1. Typed /\ Shape /\ Numbered
    BY DEF IInv
  <2> QED BY <2>1, <1>ResumeCases DEF Typed, ProcessTyped, Shape
(* The pending gap of a session that has asked. *)
<1>AskedGap.
    ASSUME IInv, NEW o, GapSafe(o)
    PROVE  /\ Asked.from_tip => Asked.gap.pending
           /\ Asked.gap.pending => last = None /\ session.gap.pending /\ Asked.gap = session.gap
           /\ stored.time = None /\ last = None /\ ~Asked.gap.pending => ~session.gap.pending
           /\ Resume # None => ~Asked.from_tip /\ ~Asked.gap.pending
  <2> USE <1>AskedGap
  <2>1. /\ Asked.from_tip = session.from_tip
        /\ Asked.gap = IF Resume # None THEN NoGap ELSE session.gap
    BY <1>ConnectFacts, <1>AskedTyped
  <2>2. Typed /\ Shape /\ Numbered
    BY DEF IInv
  <2>3. ResumesFromTip \/ ResumesBySeq \/ ResumesByTime
    BY <2>2, <1>ResumeCases
  <2>4. Resume # None => ~session.from_tip /\ (stored.time # None \/ last # None)
    BY <2>3 DEF ResumesFromTip, ResumesBySeq, ResumesByTime
  <2> QED BY <2>1, <2>4, NoGapFacts DEF GapSafe
<1>RefusalSteps.
    IInv /\ Refusal => IInv' /\ Carries
  <2>RetryKeepsIInv.
      ASSUME IInv, RetryStep
      PROVE  IInv'
    <3> USE <2>RetryKeepsIInv
    <3>0. ServerTyped /\ ProcessTyped /\ DataTyped /\ Shape /\ Numbered /\ Positioned /\ Recent
      BY DEF IInv, Typed
    <3>1. /\ setting' = setting /\ server' = server /\ wm' = wm /\ tracked' = tracked /\ conn' = conn
          /\ database' = database /\ owed' = owed /\ told' = told
      BY DEF RetryStep, history
    <3>2. ServerTyped' /\ head' = head /\ base' = base /\ host' = host
      BY <3>0, <3>1, ServerKept DEF RetryStep
    <3>3. head \in Nat /\ head <= head /\ host \in Nat /\ host <= host
      BY SMT, <3>0, ServerFacts
    <3>4. DataTyped' /\ stored' = stored /\ SavedIndex' = SavedIndex
      BY <3>0, <3>1, <3>2, <3>3, DataKept DEF DataTyped
    <3>5. last' \in 0..MaxSeq
      <4>1. None \in 0..MaxSeq
        BY SMT, Constants
      <4> QED BY <3>0, <4>1 DEF RetryStep, ProcessTyped
    <3>6. ProcessTyped'
      BY <3>0, <3>1, <3>5 DEF RetryStep, ProcessTyped
    <3>7. Numbered'
      BY <3>0, <3>1, <3>2, <3>3, <3>4, NumberedKept DEF RetryStep
    <3>8. Recent'
      BY <3>0, <3>1, <3>2, RecentKept DEF RetryStep
    <3>9. Shape'
      <4>1. session'.barrier = session.barrier /\ mode = "connect" /\ mode' = "connect"
            /\ (session'.protocol = "v1" => last' = None)
            /\ (setting.choice = "v2" => session'.protocol = "v2")
        BY DEF RetryStep
      <4>2. NextTicket(wm)' = NextTicket(wm)
        BY <3>1
      <4> QED BY <3>0, <3>1, <3>4, <4>1, <4>2 DEF Shape
    <3>10. Positioned'
      BY DEF RetryStep, Positioned
    <3> QED BY <3>2, <3>4, <3>6, <3>7, <3>8, <3>9, <3>10 DEF IInv, Typed
  <2>ConnectFailsRetries.
      ASSUME IInv, ConnectFails
      PROVE  RetryStep
    <3> USE <2>ConnectFailsRetries
    <3>1. {"refusal"} \in SUBSET Kinds
      BY DEF Kinds
    <3>2. LeftFalls
      BY <3>1, <1>ConnectFacts, SpendFalls DEF ConnectFails
    <3> QED BY <3>2, <1>ConnectFacts, <1>AskedTyped DEF ConnectFails, RetryStep
  <2>NotFoundRetries.
      ASSUME IInv, NotFound
      PROVE  RetryStep
    <3> USE <2>NotFoundRetries
    <3>1. {"refusal"} \in SUBSET Kinds
      BY DEF Kinds
    <3>2. LeftFalls
      BY <3>1, <1>ConnectFacts, SpendFalls DEF NotFound
    <3>3. session' \in SessionType /\ session'.barrier = session.barrier
      <4>1. Asked \in SessionType /\ Asked.barrier = session.barrier
        BY <1>ConnectFacts, <1>AskedTyped
      <4>2. session' = [Asked EXCEPT !.protocol = "v1"]
        BY DEF NotFound
      <4> QED BY <4>1, <4>2 DEF SessionType
    <3>4. setting.choice # "v2"
      BY DEF NotFound
    <3> QED BY <3>2, <3>3, <3>4 DEF NotFound, RetryStep
  <2>CursorTooOldRetries.
      ASSUME IInv, CursorTooOld
      PROVE  RetryStep
    <3> USE <2>CursorTooOldRetries
    <3>1. {"refusal"} \in SUBSET Kinds
      BY DEF Kinds
    <3>2. LeftFalls
      BY <3>1, <1>ConnectFacts, SpendFalls, LeftStays DEF CursorTooOld
    <3>3. session' \in SessionType /\ session'.barrier = session.barrier
          /\ session'.protocol = session.protocol
      <4>1. Asked \in SessionType /\ Asked.barrier = session.barrier
            /\ Asked.protocol = session.protocol
        BY <1>ConnectFacts, <1>AskedTyped
      <4>2. Load.seq \in Nat /\ SavedIndex \in Nat /\ Resume \in Nat
        BY <1>ConnectFacts, <1>LoadTyped
      <4>3. session' = [Asked EXCEPT
                          !.stale = Load.seq,
                          !.from_tip = Asked.from_tip \/ ~ByTime,
                          !.gap = IF ByTime \/ Resume = None THEN Asked.gap
                                  ELSE [pending |-> TRUE, sent |-> Resume, after |-> SavedIndex]]
        BY DEF CursorTooOld, ResumeWithoutSeq
      <4>4. (Asked.from_tip \/ ~ByTime) \in BOOLEAN
        BY <4>1 DEF SessionType
      <4>5. (IF ByTime \/ Resume = None THEN Asked.gap
             ELSE [pending |-> TRUE, sent |-> Resume, after |-> SavedIndex])
              \in [pending : BOOLEAN, sent : Nat, after : Nat]
        BY <4>1, <4>2 DEF SessionType
      <4> QED BY <4>1, <4>2, <4>3, <4>4, <4>5 DEF SessionType
    <3> QED BY <3>2, <3>3, <1>ConnectFacts DEF CursorTooOld, RetryStep, ResumeWithoutSeq
  <2>InvalidRequestRetries.
      ASSUME IInv, InvalidRequest
      PROVE  RetryStep
    <3> USE <2>InvalidRequestRetries
    <3>1. {"refusal"} \in SUBSET Kinds
      BY DEF Kinds
    <3>2. LeftFalls
      BY <3>1, <1>ConnectFacts, SpendFalls DEF InvalidRequest
    <3>3. session' \in SessionType /\ session'.barrier = session.barrier
          /\ session'.protocol = session.protocol
      <4>1. Asked \in SessionType /\ Asked.barrier = session.barrier
            /\ Asked.protocol = session.protocol
        BY <1>ConnectFacts, <1>AskedTyped
      <4> QED BY <4>1 DEF InvalidRequest, SessionType
    <3> QED BY <3>2, <3>3, <1>ConnectFacts DEF InvalidRequest, RetryStep
  <2>BadRequestRetries.
      ASSUME IInv, UnexplainedBadRequest
      PROVE  RetryStep
    <3> USE <2>BadRequestRetries
    <3>1. {"refusal"} \in SUBSET Kinds
      BY DEF Kinds
    <3>2. LeftFalls
      BY <3>1, <1>ConnectFacts, SpendFalls DEF UnexplainedBadRequest
    <3>3. session' \in SessionType /\ session'.barrier = session.barrier
          /\ session'.protocol = session.protocol
      <4>1. Asked \in SessionType /\ Asked.barrier = session.barrier
            /\ Asked.protocol = session.protocol
        BY <1>ConnectFacts, <1>AskedTyped
      <4>2. Load.seq \in Nat /\ 1 \in 0..2 /\ 2 \in 0..2
        BY SMT, <1>ConnectFacts, <1>LoadTyped
      <4>3. \/ session' = [Asked EXCEPT !.bad = 1]
            \/ session' = [Asked EXCEPT !.bad = 2, !.stale = Load.seq]
            \/ session' = [Asked EXCEPT !.bad = 2, !.from_tip = FALSE]
        BY DEF UnexplainedBadRequest
      <4>4. CASE session' = [Asked EXCEPT !.bad = 1]
        BY <4>1, <4>2, <4>4 DEF SessionType
      <4>5. CASE session' = [Asked EXCEPT !.bad = 2, !.stale = Load.seq]
        BY <4>1, <4>2, <4>5 DEF SessionType
      <4>6. CASE session' = [Asked EXCEPT !.bad = 2, !.from_tip = FALSE]
        BY <4>1, <4>2, <4>6 DEF SessionType
      <4> QED BY <4>3, <4>4, <4>5, <4>6
    <3> QED BY <3>2, <3>3, <1>ConnectFacts DEF UnexplainedBadRequest, RetryStep
  <2>RetryLosesNothing.
      ASSUME IInv, NEW o, LosesNothing(o), RetryStep, GapCarried
      PROVE  LosesNothing(o)'
    <3> USE <2>RetryLosesNothing
    <3>0. ServerTyped /\ SaveSafe(o) /\ SlotSafe(o) /\ LastSafe(o) /\ GapSafe(o) /\ FreshSafe(o)
          /\ JobsReach /\ DrainsSettle
      BY IInvParts DEF LosesNothing, Safe
    <3>1. /\ UNCHANGED <<setting, server, wm, tracked, conn, stored, jobs, done, gaps, silent, owed>>
          /\ session'.barrier = session.barrier /\ last' \in {last, None} /\ LeftFalls
          /\ mode = "connect" /\ mode' = "connect"
      BY DEF RetryStep, database, history
    <3>2. base' = base /\ sealed' = sealed /\ log' = log
      BY <3>1 DEF server
    <3>3. head' = head /\ SavedIndex' = SavedIndex
      BY <3>1, <3>2 DEF head, SavedIndex
    <3>4. Grows(o) /\ Covered' = Covered
      BY <3>1, HistoryGrows
    <3>5. FlushPoint' = FlushPoint /\ Handled \subseteq Handled'
      BY <3>1, <3>4, FlushPointKept, HandledGrows
    <3>6. SaveSafe(o)'
      BY <3>0, <3>3, <3>4, <3>5, SaveSafeKept
    <3>7. SlotSafe(o)'
      BY <3>0, <3>1, <3>4, SlotSafeKept
    <3>8. LastSafe(o)'
      BY <3>0, <3>1, <3>2, <3>4, <3>5, LastSafeKept
    <3>9. head \in Nat /\ head <= head
      BY SMT, <3>0, ServerFacts
    <3>10. GapSafe(o)'
      BY <3>0, <3>3, <3>4, <3>9, GapSafeKept DEF GapCarried
    <3>11. StreamSafe(o)'
      BY <3>1 DEF StreamSafe
    <3>12. FreshSafe(o)'
      BY <3>0, <3>1, <3>2, FreshSafeKept DEF GapCarried
    <3>13. JobsReach'
      BY <3>0, <3>1, <3>2, JobsReachKept
    <3>14. DrainsSettle'
      BY <3>0, <3>1, <3>2, <3>3, <3>4, DrainsKept DEF GapCarried
    <3> QED BY <3>6, <3>7, <3>8, <3>10, <3>11, <3>12, <3>13, <3>14 DEF LosesNothing, Safe
  <2>ConnectFailsCarries.
      ASSUME IInv, NEW o, GapSafe(o), ConnectFails
      PROVE  GapCarried
    BY <2>ConnectFailsCarries, <1>AskedGap DEF ConnectFails, GapCarried, GapSafe
  <2>NotFoundCarries.
      ASSUME IInv, NEW o, GapSafe(o), Sound(setting), NotFound
      PROVE  GapCarried
    <3> USE <2>NotFoundCarries
    <3>1. Asked \in SessionType /\ session' = [Asked EXCEPT !.protocol = "v1"] /\ last' = None
      BY <1>ConnectFacts, <1>AskedTyped DEF NotFound
    <3>2. session'.from_tip = Asked.from_tip /\ session'.gap = Asked.gap
      BY <3>1 DEF SessionType
    <3>3. stored.time # None
      BY IInvParts DEF NotFound, Sound, Shape
    <3> QED BY <3>1, <3>2, <3>3, <1>AskedGap DEF GapCarried
  <2>CursorTooOldCarries.
      ASSUME IInv, NEW o, GapSafe(o), CursorTooOld
      PROVE  GapCarried
    <3> USE <2>CursorTooOldCarries
    <3>0. Resume # None
      <4>1. IsTime(None) = FALSE
        BY SMT, Constants DEF IsTime
      <4> QED BY <4>1 DEF CursorTooOld, Refused, TooOld, Outdated, IsSeq
    <3>1. Asked \in SessionType /\ last' = None
      BY <1>ConnectFacts, <1>AskedTyped DEF CursorTooOld, ResumeWithoutSeq
    <3>2. ~Asked.from_tip /\ ~Asked.gap.pending
      BY <3>0, <1>AskedGap
    <3>3. session' = [Asked EXCEPT
                        !.stale = Load.seq,
                        !.from_tip = Asked.from_tip \/ ~ByTime,
                        !.gap = IF ByTime \/ Resume = None THEN Asked.gap
                                ELSE [pending |-> TRUE, sent |-> Resume, after |-> SavedIndex]]
      BY DEF CursorTooOld, ResumeWithoutSeq
    <3>4. session'.from_tip = (Asked.from_tip \/ ~ByTime)
          /\ session'.gap = IF ByTime THEN Asked.gap
                            ELSE [pending |-> TRUE, sent |-> Resume, after |-> SavedIndex]
      BY <3>0, <3>1, <3>3 DEF SessionType
    <3>5. CASE ByTime
      BY <3>2, <3>4, <3>5 DEF GapCarried, ByTime
    <3>6. CASE ~ByTime
      <4>1. session'.gap = [pending |-> TRUE, sent |-> Resume, after |-> SavedIndex]
        BY <3>4, <3>6
      <4>2. session'.gap.pending = TRUE /\ session'.gap.after = SavedIndex
        BY SMT, <4>1
      <4> QED BY <3>1, <4>2 DEF GapCarried
    <3> QED BY <3>5, <3>6
  <2>InvalidRequestCarries.
      ASSUME IInv, NEW o, GapSafe(o), InvalidRequest
      PROVE  GapCarried
    <3> USE <2>InvalidRequestCarries
    <3>1. Asked \in SessionType /\ session' = [Asked EXCEPT !.from_tip = FALSE] /\ last' = last
      BY <1>ConnectFacts, <1>AskedTyped DEF InvalidRequest
    <3>2. session'.from_tip = FALSE /\ session'.gap = Asked.gap
      BY <3>1 DEF SessionType
    <3> QED BY <3>1, <3>2, <1>AskedGap DEF GapCarried
  <2>BadRequestCarries.
      ASSUME IInv, NEW o, GapSafe(o), UnexplainedBadRequest
      PROVE  GapCarried
    <3> USE <2>BadRequestCarries
    <3>1. Asked \in SessionType
      BY <1>ConnectFacts, <1>AskedTyped
    <3>2. CASE session' = [Asked EXCEPT !.bad = 1] /\ last' = last
      <4>1. session'.from_tip = Asked.from_tip /\ session'.gap = Asked.gap
        BY <3>1, <3>2 DEF SessionType
      <4> QED BY <3>2, <4>1, <1>AskedGap DEF GapCarried
    <3>3. CASE /\ session' = [Asked EXCEPT !.bad = 2, !.stale = Load.seq] /\ last' = None
               /\ IsSeq(Resume) /\ ByTime
      <4>1. session'.from_tip = Asked.from_tip /\ session'.gap = Asked.gap
        BY <3>1, <3>3 DEF SessionType
      <4>2. Resume # None /\ stored.time # None
        BY <3>3 DEF IsSeq, ByTime
      <4> QED BY <4>1, <4>2, <1>AskedGap DEF GapCarried
    <3>4. CASE session' = [Asked EXCEPT !.bad = 2, !.from_tip = FALSE] /\ last' = last
      <4>1. session'.from_tip = FALSE /\ session'.gap = Asked.gap
        BY <3>1, <3>4 DEF SessionType
      <4> QED BY <3>4, <4>1, <1>AskedGap DEF GapCarried
    <3> QED BY <3>2, <3>3, <3>4 DEF UnexplainedBadRequest
  <2>RefusalsLoseNothing.
      ASSUME IInv, Sound(setting), NEW o, LosesNothing(o),
             ConnectFails \/ NotFound \/ CursorTooOld \/ InvalidRequest \/ UnexplainedBadRequest
      PROVE  LosesNothing(o)'
    <3> USE <2>RefusalsLoseNothing
    <3>1. GapSafe(o)
      BY DEF LosesNothing, Safe
    <3>2. RetryStep
      BY <2>ConnectFailsRetries, <2>NotFoundRetries, <2>CursorTooOldRetries, <2>InvalidRequestRetries,
         <2>BadRequestRetries
    <3>3. GapCarried
      BY <3>1, <2>ConnectFailsCarries, <2>NotFoundCarries, <2>CursorTooOldCarries,
         <2>InvalidRequestCarries, <2>BadRequestCarries
    <3> QED BY <3>2, <3>3, <2>RetryLosesNothing
  <2> QED
    <3> SUFFICES ASSUME IInv, Refusal PROVE IInv' /\ Carries
      OBVIOUS
    <3>1. RetryStep
      BY <2>ConnectFailsRetries, <2>NotFoundRetries, <2>CursorTooOldRetries, <2>InvalidRequestRetries,
         <2>BadRequestRetries DEF Refusal
    <3>2. head' = head
      BY <3>1 DEF RetryStep, server, head
    <3>3. \A o \in 0..head : Sound(setting) /\ LosesNothing(o) => LosesNothing(o)'
      BY <2>RefusalsLoseNothing DEF Refusal
    <3> QED BY <3>1, <3>2, <3>3, <2>RetryKeepsIInv DEF Carries
(* The server accepts the connection. *)
<1>AcceptedSteps.
    IInv /\ ConnectAccepted => IInv' /\ Carries
(* Where the server starts to stream: a seq of the numbering before is in   *)
(* the future, and any other seq is that of an event the server has.        *)
  <2>StartFacts.
      ASSUME IInv
      PROVE  /\ StartsAt(Resume) \in Nat /\ base < StartsAt(Resume) /\ StartsAt(Resume) <= head + 1
             /\ StartsAt(Resume) >= 1
             /\ Resume = None => StartsAt(Resume) = head + 1
             /\ IsSeq(Resume) => (Future(Resume) <=> Stale(base, Resume))
             /\ Future(Resume) => StartsAt(Resume) = head + 1 /\ ResumesBySeq
             /\ IsSeq(Resume) /\ ~Future(Resume) =>
                  /\ StartsAt(Resume) = Resume + base /\ Resume + base = EventIn(base, Resume)
                  /\ Resume + base \in 1..head
             /\ IsTime(Resume) => StartsAt(Resume) = Later(IndexOf(Resume), oldest)
             /\ IsSeq(Resume) => ResumesBySeq
             /\ IsTime(Resume) => ResumesByTime
    <3> USE <2>StartFacts
    <3>0. ServerTyped /\ DataTyped /\ Typed /\ Shape /\ Numbered
      BY DEF IInv, Typed
    <3>1. /\ head \in 1..MaxEvents /\ head \in Nat /\ base \in Bases(head) /\ base \in Int
          /\ oldest \in 1..(head + 1) /\ base < oldest /\ base <= head
      <4>1. /\ head \in 1..MaxEvents /\ head \in Nat /\ base \in Bases(head) /\ base \in Int
            /\ oldest \in 1..(head + 1) /\ base < oldest
        BY <3>0, ServerFacts DEF ServerTyped
      <4> QED BY SMT, <4>1
    <3>2. Resume \in Nat /\ (ResumesFromTip \/ ResumesBySeq \/ ResumesByTime)
      BY <3>0, <1>ResumeCases
    <3>3. SavedIndex \in 0..head
      BY <3>0, StoredFacts
    <3>4. CASE ResumesFromTip
      <4>1. Resume = None
        BY <3>4 DEF ResumesFromTip
      <4>2. ~IsSeq(Resume) /\ ~IsTime(Resume) /\ ~Future(Resume)
        BY SMT, <4>1, Constants DEF IsSeq, IsTime, Future
      <4>3. StartsAt(Resume) = head + 1
        BY <4>1 DEF StartsAt
      <4> QED BY SMT, <3>1, <4>1, <4>2, <4>3
    <3>5. CASE ResumesBySeq
      <4>1. /\ IsSeq(Resume) /\ ~IsTime(Resume) /\ Resume \in 1..MaxSeq
            /\ EventIn(base, Resume) \in 1..head
        BY <3>5 DEF ResumesBySeq
      <4>2. Resume # None
        BY <4>1 DEF IsSeq
      <4>3. CASE Stale(base, Resume)
        <5>1. Resume + FirstBase \in 1..head /\ base >= 0
          BY <4>1, <4>3 DEF Stale, EventIn
        <5>2. Resume > head - base + 1
          BY SMT, <3>1, <4>1, <5>1, Constants
        <5>3. Future(Resume)
          BY <4>1, <5>2 DEF Future, NextSeq
        <5>4. StartsAt(Resume) = head + 1
          BY <5>3 DEF StartsAt
        <5> QED BY SMT, <3>1, <3>5, <4>1, <4>2, <4>3, <5>3, <5>4
      <4>4. CASE ~Stale(base, Resume)
        <5>1. EventIn(base, Resume) = Resume + base
          BY <4>4 DEF Stale, EventIn
        <5>2. Resume + base \in 1..head
          BY <4>1, <5>1
        <5>3. ~(Resume > head - base + 1)
          BY SMT, <3>1, <4>1, <5>2
        <5>4. ~Future(Resume)
          BY <5>3 DEF Future, NextSeq
        <5>5. StartsAt(Resume) = Resume + base
          BY <4>1, <4>2, <5>4 DEF StartsAt
        <5>6. base < Resume + base /\ Resume + base <= head + 1 /\ Resume + base \in Nat
              /\ Resume + base >= 1
          BY SMT, <3>1, <4>1, <5>2
        <5> QED BY <3>5, <4>1, <4>2, <4>4, <5>1, <5>2, <5>4, <5>5, <5>6
      <4> QED BY <4>3, <4>4
    <3>6. CASE ResumesByTime
      <4>1. /\ IsTime(Resume) /\ ~IsSeq(Resume) /\ Resume # None
            /\ IndexOf(Resume) \in Int /\ IndexOf(Resume) <= SavedIndex
        BY <3>6 DEF ResumesByTime
      <4>2. ~Future(Resume)
        BY <4>1 DEF Future
      <4>3. StartsAt(Resume) = Later(IndexOf(Resume), oldest)
        BY <4>1, <4>2 DEF StartsAt
      <4>4. /\ Later(IndexOf(Resume), oldest) \in Nat /\ base < Later(IndexOf(Resume), oldest)
            /\ Later(IndexOf(Resume), oldest) <= head + 1 /\ Later(IndexOf(Resume), oldest) >= 1
        BY SMT, <3>1, <3>3, <4>1 DEF Later
      <4> QED BY <3>6, <4>1, <4>2, <4>3, <4>4
    <3> QED BY <3>2, <3>4, <3>5, <3>6
  <2>AcceptedFields.
      ASSUME IInv, ConnectAccepted
      PROVE  /\ session' \in SessionType /\ conn' \in ConnType
             /\ session'.protocol = session.protocol /\ session'.barrier = session.barrier
             /\ session'.from_tip = session.from_tip /\ session'.sent = Resume
             /\ session'.gap = IF Resume # None THEN NoGap ELSE session.gap
             /\ conn'.pos = StartsAt(Resume) /\ conn'.filter = tracked /\ conn'.saved = NoPoint
             /\ conn'.notice = IF session.protocol = "v1" THEN "none"
                               ELSE IF Future(Resume) THEN "FutureCursor"
                               ELSE IF Outdated(Resume) THEN "OutdatedCursor" ELSE "none"
             /\ conn'.floor = IF session.protocol = "v2" /\ IsSeq(Resume) THEN Resume ELSE None
             /\ conn'.loaded = Usable /\ conn'.ended = "none"
    <3> USE <2>AcceptedFields
    <3>1. Asked \in SessionType /\ session \in SessionType /\ Resume \in Nat
          /\ Asked.protocol = session.protocol /\ Asked.sent = Resume
          /\ Asked.from_tip = session.from_tip /\ Asked.barrier = session.barrier
          /\ Asked.gap = IF Resume # None THEN NoGap ELSE session.gap
      BY <1>ConnectFacts, <1>AskedTyped
    <3>2. session' = [Asked EXCEPT !.bad = 0] /\ 0 \in 0..2
      BY SMT DEF ConnectAccepted
    <3>3. /\ session' \in SessionType
          /\ session'.protocol = session.protocol /\ session'.barrier = session.barrier
          /\ session'.from_tip = session.from_tip /\ session'.sent = Resume
          /\ session'.gap = IF Resume # None THEN NoGap ELSE session.gap
      BY <3>1, <3>2 DEF SessionType
    <3> DEFINE notice == IF session.protocol = "v1" THEN "none"
                         ELSE IF Future(Resume) THEN "FutureCursor"
                         ELSE IF Outdated(Resume) THEN "OutdatedCursor" ELSE "none"
               floor == IF session.protocol = "v2" /\ IsSeq(Resume) THEN Resume ELSE None
    <3>4. Usable \in [seq : 0..MaxSeq, time : {None} \cup Times]
      <4>1. Load.seq \in 0..MaxSeq /\ Load.time = stored.time /\ None \in 0..MaxSeq
        BY SMT, <1>ConnectFacts, <1>LoadTyped, Constants
      <4>2. stored.time \in {None} \cup Times
        BY <1>ConnectFacts DEF DataTyped, StoredType
      <4>3. Usable = [seq |-> IF Load.seq = session.stale THEN None ELSE Load.seq, time |-> Load.time]
        BY SMT DEF Usable, Load
      <4> QED BY <4>1, <4>2, <4>3
    <3>5. notice \in {"none", "FutureCursor", "OutdatedCursor"}
      OBVIOUS
    <3>6. floor \in Nat /\ StartsAt(Resume) \in Nat
      <4>1. None \in Nat
        BY SMT, Constants
      <4> QED BY <3>1, <4>1, <2>StartFacts
    <3>7. tracked \in SUBSET Collections
      BY <1>ConnectFacts DEF ProcessTyped
    <3>8. conn' = [NoConnection EXCEPT !.pos = StartsAt(Resume), !.notice = notice, !.floor = floor,
                                       !.loaded = Usable, !.filter = tracked]
      BY DEF ConnectAccepted
    <3> HIDE DEF notice, floor
    <3>9. /\ conn' \in ConnType
          /\ conn'.pos = StartsAt(Resume) /\ conn'.filter = tracked /\ conn'.saved = NoPoint
          /\ conn'.notice = notice /\ conn'.floor = floor /\ conn'.loaded = Usable
          /\ conn'.ended = "none"
      BY <3>4, <3>5, <3>6, <3>7, <3>8, NoConnectionTyped DEF ConnType
    <3> QED BY <3>3, <3>9 DEF notice, floor
  <2>AcceptedKeepsIInv.
      ASSUME IInv, ConnectAccepted
      PROVE  IInv'
    <3> USE <2>AcceptedKeepsIInv
    <3>0. ServerTyped /\ ProcessTyped /\ DataTyped /\ Shape /\ Numbered /\ Positioned /\ Recent
      BY DEF IInv, Typed
    <3>1. /\ setting' = setting /\ server' = server /\ wm' = wm /\ tracked' = tracked /\ last' = last
          /\ database' = database /\ owed' = owed /\ told' = told /\ left' = left
          /\ mode = "connect" /\ mode' = "stream"
      BY DEF ConnectAccepted
    <3>2. ServerTyped' /\ head' = head /\ base' = base /\ host' = host
      BY <3>0, <3>1, ServerKept, LeftStays
    <3>3. head \in Nat /\ head <= head /\ host \in Nat /\ host <= host
      BY SMT, <3>0, ServerFacts
    <3>4. DataTyped' /\ stored' = stored /\ SavedIndex' = SavedIndex
      BY <3>0, <3>1, <3>2, <3>3, DataKept DEF DataTyped
    <3>6. ProcessTyped'
      BY <3>0, <3>1, <2>AcceptedFields DEF ProcessTyped
    <3>7. Numbered'
      BY <3>0, <3>1, <3>2, <3>3, <3>4, NumberedKept
    <3>8. Recent'
      BY <3>0, <3>1, <3>2, RecentKept, <2>AcceptedFields
    <3>9. Shape'
      <4>1. session'.barrier = session.barrier /\ session'.protocol = session.protocol
            /\ conn'.filter = tracked /\ conn'.saved = NoPoint /\ conn'.ended = "none"
        BY <2>AcceptedFields
      <4>2. NextTicket(wm)' = NextTicket(wm)
        BY <3>1
      <4> QED BY <3>0, <3>1, <3>4, <4>1, <4>2 DEF Shape
    <3>10. Positioned'
      <4>1. base < StartsAt(Resume) /\ StartsAt(Resume) >= 1 /\ StartsAt(Resume) <= head + 1
        BY <2>StartFacts
      <4>2. ASSUME conn'.notice # "FutureCursor", conn'.floor # None
            PROVE  conn'.floor + base \in 1..head
        <5>1. session.protocol = "v2" /\ IsSeq(Resume) /\ conn'.floor = Resume
          BY <4>2, <2>AcceptedFields
        <5>2. ~Future(Resume)
          BY <4>2, <5>1, <2>AcceptedFields
        <5> QED BY <5>1, <5>2, <2>StartFacts
      <4>3. ASSUME conn'.notice = "FutureCursor"
            PROVE  /\ IsSeq(Resume) /\ Stale(base, Resume) /\ EventIn(base, Resume) \in 1..head
        <5>1. Future(Resume)
          BY <4>3, <2>AcceptedFields
        <5>2. IsSeq(Resume)
          BY <5>1 DEF Future
        <5> QED BY <5>1, <5>2, <2>StartFacts DEF ResumesBySeq
      <4>4. conn'.pos = StartsAt(Resume) /\ session'.sent = Resume
        BY <2>AcceptedFields
      <4> QED BY <3>1, <3>2, <4>1, <4>2, <4>3, <4>4 DEF Positioned, IsSeq
    <3> QED BY <3>2, <3>4, <3>6, <3>7, <3>8, <3>9, <3>10 DEF IInv, Typed
  <2>NothingWanted.
      ASSUME IInv, stored.time = None
      PROVE  Wanted(head) = {}
    <3> USE <2>NothingWanted
    <3>1. \A i \in 1..head : ~(i > head)
      BY SMT, IInvParts, ServerFacts
    <3> QED BY <3>1 DEF Wanted
  (* An instance with nothing saved and nothing to resume from starts from    *)
  (* the tip: what it wants starts there.                                     *)
  <2>FreshRestart.
      ASSUME IInv, NEW o, LosesNothing(o), mode = "connect", stored.time = None, last = None,
             ~session.gap.pending
      PROVE  LosesNothing(head)
    <3> USE <2>FreshRestart
    <3>1. SaveSafe(o) /\ SlotSafe(o) /\ GapSafe(o) /\ FreshSafe(o) /\ JobsReach /\ DrainsSettle
      BY DEF LosesNothing, Safe
    <3>3. \A H, p : Reached(Wanted(head), H, p)
      BY <2>NothingWanted DEF Reached
    <3>4. FreshSafe(head)
      BY <3>1 DEF FreshSafe
    <3> QED BY <3>1, <3>3, <3>4
        DEF LosesNothing, Safe, SaveSafe, SlotSafe, LastSafe, GapSafe, StreamSafe
  <2>AcceptedFrame.
      ASSUME IInv, NEW o, LosesNothing(o), ConnectAccepted
      PROVE  /\ UNCHANGED <<setting, server, wm, tracked, stored, jobs, done, gaps, owed, last, left>>
             /\ base' = base /\ head' = head /\ sealed' = sealed /\ SavedIndex' = SavedIndex
             /\ mode = "connect" /\ mode' = "stream"
             /\ silent \subseteq silent'
             /\ Grows(o) /\ Covered' = Covered /\ Wanted(o)' = Wanted(o)
             /\ Accounted \subseteq Handled' /\ Handled \subseteq Handled' /\ Handled' \subseteq Streamed'
             /\ silent' \subseteq Streamed' /\ Accounted \subseteq Streamed'
             /\ Handled \subseteq Streamed'
    <3> USE <2>AcceptedFrame
    <3>1. /\ UNCHANGED <<setting, server, wm, tracked, stored, jobs, done, gaps, owed, last, left>>
          /\ mode = "connect" /\ mode' = "stream"
          /\ silent \subseteq silent'
      BY DEF ConnectAccepted, database
    <3>2. base' = base /\ sealed' = sealed /\ head' = head /\ SavedIndex' = SavedIndex
      BY <3>1 DEF server, head, SavedIndex
    <3>3. Grows(o) /\ Covered' = Covered /\ Wanted(o)' = Wanted(o)
      BY <3>1, HistoryGrows
    <3>4. Handled \subseteq Handled' /\ Accounted \subseteq Accounted'
      BY <3>1, <3>3, HandledGrows DEF Grows
    <3>5. Accounted \subseteq Handled' /\ Handled' \subseteq Streamed' /\ silent' \subseteq Streamed'
      BY <3>4 DEF Handled, Streamed, Accounted
    <3> QED BY <3>1, <3>2, <3>3, <3>4, <3>5
  <2>AcceptedKeepsRest.
      ASSUME IInv, NEW o, LosesNothing(o), ConnectAccepted, StreamSafe(o)',
             stored.time = None => conn'.pos >= o
      PROVE  LosesNothing(o)'
    <3> USE <2>AcceptedKeepsRest
    <3>0. ServerTyped /\ SaveSafe(o) /\ SlotSafe(o) /\ LastSafe(o) /\ GapSafe(o) /\ FreshSafe(o)
          /\ JobsReach /\ DrainsSettle
      BY IInvParts DEF LosesNothing, Safe
    <3>1. session'.from_tip = session.from_tip /\ session'.barrier = session.barrier
          /\ session'.gap = IF Resume # None THEN NoGap ELSE session.gap
      BY <2>AcceptedFields
    <3>2. /\ session'.from_tip => session'.gap.pending
          /\ session'.gap.pending => last = None /\ session.gap.pending /\ session'.gap = session.gap
          /\ stored.time = None /\ last = None /\ ~session'.gap.pending => ~session.gap.pending
      BY <3>0, <3>1, <1>AskedGap, <1>ConnectFacts, <1>AskedTyped
    <3>3. FlushPoint' = FlushPoint
      BY <3>1, <2>AcceptedFrame, FlushPointKept
    <3>4. SaveSafe(o)'
      BY <3>0, <3>3, <2>AcceptedFrame, SaveSafeKept
    <3>5. SlotSafe(o)'
      BY <3>0, <2>AcceptedFrame, SlotSafeKept
    <3>6. LastSafe(o)'
      BY <3>0, <2>AcceptedFrame, LastSafeKept
    <3>7. GapSafe(o)'
      <4>1. head \in Nat /\ head <= head
        BY SMT, <3>0, ServerFacts
      <4> QED BY <3>0, <3>2, <4>1, <2>AcceptedFrame, GapSafeKept
    <3>8. FreshSafe(o)'
      BY <3>0, <3>1, <3>2, <2>AcceptedFrame, FreshSafeKept
    <3>9. JobsReach'
      BY <3>0, <2>AcceptedFrame, LeftStays, JobsReachKept
    <3>10. DrainsSettle'
      BY <3>0, <3>1, <3>2, <2>AcceptedFrame, DrainsKept
    <3> QED BY <3>4, <3>5, <3>6, <3>7, <3>8, <3>9, <3>10 DEF LosesNothing, Safe
  (* The stream starts at or before the first event not accounted for, or the *)
  (* notice that comes first says from where on.                              *)
  <2>AcceptedFromTip.
      ASSUME IInv, NEW o \in 0..head, LosesNothing(o), ConnectAccepted, Resume = None,
             session.gap.pending \/ o = head
      PROVE  LosesNothing(o)'
    <3> USE <2>AcceptedFromTip
    <3>0. GapSafe(o) /\ SaveSafe(o) /\ head \in Nat /\ head <= MaxEvents /\ MaxEvents \in Nat
      BY SMT, IInvParts, ServerFacts, Constants DEF LosesNothing, Safe
    <3>1. /\ conn'.pos = head + 1 /\ conn'.floor = None /\ conn'.notice = "none"
          /\ session'.gap = session.gap
      <4>1. ~IsSeq(Resume) /\ ~IsTime(Resume)
        BY SMT, Constants DEF IsSeq, IsTime
      <4>2. ~Future(Resume) /\ ~Outdated(Resume)
        BY <4>1 DEF Future, Outdated
      <4> QED BY <4>1, <4>2, <2>StartFacts, <2>AcceptedFields
    <3>2. stored.time = None => conn'.pos >= o
      BY SMT, <3>0, <3>1
    <3>3. Reached(Wanted(o)', Streamed', head)
      <4>1. CASE session.gap.pending
        <5>1. Reached(Wanted(o), Accounted, session.gap.after) /\ session.gap.after \in Nat
          BY <3>0, <4>1, IInvParts DEF GapSafe, ProcessTyped, SessionType
        <5>2. session.gap.after \in Int /\ session.gap.after <= session.gap.after
          BY SMT, <5>1
        <5>3. Reached(Wanted(o), Streamed', session.gap.after)
          <6>1. Accounted \subseteq Streamed'
            BY <2>AcceptedFrame
          <6> QED BY <5>1, <6>1, ReachedMore
        <5>4. PendingGap' = (session.gap.after + 1)..MaxEvents
          BY <3>1, <4>1 DEF PendingGap
        <5>5. ASSUME NEW i \in Wanted(o), session.gap.after < i, i <= head
              PROVE  i \in Streamed'
          <6>1. i \in Int
            BY WantedTyped
          <6>2. i \in (session.gap.after + 1)..MaxEvents
            BY SMT, <3>0, <5>1, <5>5, <6>1
          <6> QED BY <5>4, <6>2 DEF Streamed
        <5>6. head \in Int
          BY SMT, <3>0
        <5> QED BY ZenonT(40), <5>2, <5>3, <5>5, <5>6, WantedTyped, ReachedUp, <2>AcceptedFrame
      <4>2. CASE ~session.gap.pending
        <5>1. ResumesFromTip
          BY IInvParts, <1>ResumeCases DEF ResumesBySeq, ResumesByTime, IsSeq, IInv
        <5>2. stored.time = None /\ o = head
          BY <3>0, <4>2, <5>1 DEF GapSafe, ResumesFromTip
        <5>3. Wanted(o)' = {}
          BY <5>2, <2>NothingWanted, <2>AcceptedFrame
        <5> QED BY <5>3 DEF Reached
      <4> QED BY <4>1, <4>2
    <3>4. StreamSafe(o)'
      <4>1. conn'.pos - 1 = head
        BY SMT, <3>0, <3>1
      <4> QED BY <3>1, <3>3, <4>1 DEF StreamSafe
    <3> QED BY <3>2, <3>4, <2>AcceptedKeepsRest
  <2>AcceptedBySeq.
      ASSUME IInv, NEW o \in 0..head, LosesNothing(o), ConnectAccepted, ResumesBySeq
      PROVE  LosesNothing(o)'
    <3> USE <2>AcceptedBySeq
    <3> DEFINE e == EventIn(base, Resume)
    <3>0. SaveSafe(o) /\ LastSafe(o) /\ FreshSafe(o) /\ head \in Nat
      BY IInvParts, ServerFacts DEF LosesNothing, Safe
    <3>1. /\ IsSeq(Resume) /\ ~IsTime(Resume) /\ session.protocol = "v2" /\ e \in 1..head
          /\ (last # None /\ Resume = last) \/ (stored.time # None /\ e = SavedIndex)
      BY DEF ResumesBySeq
    <3>2. ~Outdated(Resume) /\ session.protocol # "v1"
      BY <3>1 DEF Outdated
    <3>3. /\ conn'.pos = StartsAt(Resume) /\ conn'.floor = Resume /\ session'.sent = Resume
          /\ conn'.notice = IF Future(Resume) THEN "FutureCursor" ELSE "none"
          /\ session'.protocol = "v2"
      BY <3>1, <3>2, <2>AcceptedFields
    <3> HIDE DEF e
    <3>4. e \in Int /\ e <= e /\ e - 1 \in Int /\ e - 1 <= e
      BY SMT, <3>0, <3>1
    <3>5. Reached(Wanted(o)', Streamed', e)
      <4>1. Reached(Wanted(o), Handled, e) \/ Reached(Wanted(o), Accounted, e)
        BY <3>0, <3>1 DEF SaveSafe, LastSafe, e
      <4>2. Reached(Wanted(o), Streamed', e)
        BY <3>4, <4>1, <2>AcceptedFrame, WantedTyped, ReachedDown
      <4> QED BY <4>2, <2>AcceptedFrame
    <3>6. Future(Resume) => conn'.pos = head + 1
      BY <3>3, <2>StartFacts
    <3>7. ~Future(Resume) => conn'.pos = e /\ Resume + base = e
      BY <3>1, <3>3, <2>StartFacts DEF e
    <3>8. stored.time = None => conn'.pos >= o
      <4>1. stored.time = None => e >= o
        BY <3>0, <3>1 DEF FreshSafe, e
      <4> QED BY SMT, <3>0, <3>1, <3>6, <3>7, <4>1
    <3>9. Reached(Wanted(o)', Streamed', e - 1)
      <4>1. \A i \in Wanted(o)' : i \in Int
        BY <2>AcceptedFrame, WantedTyped
      <4> QED BY ZenonT(40), <3>4, <3>5, <4>1, ReachedDown
    <3>10. StreamSafe(o)'
      BY <3>3, <3>5, <3>7, <3>9, <2>AcceptedFrame DEF StreamSafe, e
    <3> QED BY <3>8, <3>10, <2>AcceptedKeepsRest
  <2>AcceptedByTime.
      ASSUME IInv, NEW o \in 0..head, LosesNothing(o), ConnectAccepted, ResumesByTime
      PROVE  LosesNothing(o)'
    <3> USE <2>AcceptedByTime
    <3> DEFINE e == IndexOf(Resume)
    <3>0. SaveSafe(o) /\ oldest \in Nat
      BY IInvParts, ServerFacts DEF LosesNothing, Safe
    <3>1. /\ IsTime(Resume) /\ ~IsSeq(Resume) /\ stored.time # None
          /\ e \in Int /\ e <= SavedIndex /\ SavedIndex \in Int
      BY SavedIndexTyped DEF ResumesByTime
    <3>2. /\ conn'.pos = Later(e, oldest) /\ conn'.floor = None /\ session'.sent = Resume
          /\ conn'.notice = IF session.protocol = "v1" \/ ~Outdated(Resume) THEN "none"
                             ELSE "OutdatedCursor"
      <4>1. ~Future(Resume)
        BY <3>1 DEF Future
      <4> QED BY <3>1, <4>1, <2>StartFacts, <2>AcceptedFields
    <3>3. Outdated(Resume) <=> e < oldest
      BY <3>1 DEF Outdated
    <3>4. silent' = IF session.protocol = "v1" /\ Outdated(Resume)
                    THEN silent \cup (e..(oldest - 1)) ELSE silent
      BY DEF ConnectAccepted
    <3> HIDE DEF e
    <3>5. e - 1 \in Int /\ e - 1 <= SavedIndex
      BY SMT, <3>1
    <3>6. \A i \in Wanted(o)' : i \in Int
      BY <2>AcceptedFrame, WantedTyped
    <3>7. Reached(Wanted(o)', Streamed', e - 1)
      <4>1. Accounted \subseteq Streamed' /\ Wanted(o)' = Wanted(o)
        BY <2>AcceptedFrame
      <4>2. Reached(Wanted(o)', Accounted, SavedIndex)
        BY <3>0, <4>1 DEF SaveSafe
      <4> QED BY ZenonT(40), <3>1, <3>5, <3>6, <4>1, <4>2, ReachedDown
    <3>8. ASSUME conn'.notice = "none"
          PROVE  Reached(Wanted(o)', Streamed', conn'.pos - 1)
      <4>1. CASE Outdated(Resume)
        <5>1. session.protocol = "v1" /\ e..(oldest - 1) \subseteq silent'
          BY <3>2, <3>4, <3>8, <4>1
        <5>2. conn'.pos - 1 \in Int /\ conn'.pos = oldest
          BY SMT, <3>0, <3>1, <3>2, <3>3, <4>1 DEF Later
        <5>3. ASSUME NEW i \in Wanted(o)', e - 1 < i, i <= conn'.pos - 1
              PROVE  i \in Streamed'
          <6>1. i \in e..(oldest - 1)
            BY SMT, <3>0, <3>1, <3>6, <5>2, <5>3
          <6> QED BY <5>1, <6>1, <2>AcceptedFrame
        <5> QED BY <3>5, <3>6, <3>7, <5>2, <5>3, ReachedUp
      <4>2. CASE ~Outdated(Resume)
        <5>1. conn'.pos = e
          BY SMT, <3>0, <3>1, <3>2, <3>3, <4>2 DEF Later
        <5> QED BY <3>7, <5>1
      <4> QED BY <4>1, <4>2
    <3>9. e <= conn'.pos
      BY SMT, <3>0, <3>1, <3>2 DEF Later
    <3>10. StreamSafe(o)'
      <4>1. conn'.notice # "FutureCursor" /\ IsTime(session'.sent)
        BY <3>1, <3>2
      <4> QED BY <3>1, <3>2, <3>7, <3>8, <3>9, <4>1 DEF StreamSafe, e, IsTime
    <3> QED BY <3>1, <3>10, <2>AcceptedKeepsRest
  <2>AcceptedLosesNothing.
      ASSUME IInv, NEW o \in 0..head, LosesNothing(o), ConnectAccepted
      PROVE  \E p \in 0..head' : LosesNothing(p)'
    <3> USE <2>AcceptedLosesNothing
    <3>0. head' = head /\ mode = "connect" /\ GapSafe(o)
      BY <2>AcceptedFrame DEF LosesNothing, Safe
    <3>1. head \in 0..head
      BY SMT, IInvParts, ServerFacts
    <3>2. ResumesFromTip \/ ResumesBySeq \/ ResumesByTime
      BY <1>ResumeCases DEF IInv
    <3>3. CASE ResumesFromTip /\ session.gap.pending
      BY <3>0, <3>3, <2>AcceptedFromTip DEF ResumesFromTip
    <3>4. CASE ResumesFromTip /\ ~session.gap.pending
      <4>1. stored.time = None /\ last = None /\ Resume = None
        BY <3>0, <3>4 DEF ResumesFromTip, GapSafe
      <4>2. LosesNothing(head)
        BY <3>0, <3>4, <4>1, <2>FreshRestart
      <4>3. \E h \in 0..head : h = head /\ LosesNothing(h)
        BY <3>1, <4>2
      <4>4. PICK h \in 0..head : h = head /\ LosesNothing(h)
        BY <4>3
      <4>5. LosesNothing(h)'
        BY <4>1, <4>4, <2>AcceptedFromTip
      <4> QED BY <3>0, <4>5
    <3>5. CASE ResumesBySeq
      BY <3>0, <3>5, <2>AcceptedBySeq
    <3>6. CASE ResumesByTime
      BY <3>0, <3>6, <2>AcceptedByTime
    <3> QED BY <3>2, <3>3, <3>4, <3>5, <3>6
  <2> QED
    <3> SUFFICES ASSUME IInv, ConnectAccepted PROVE IInv' /\ Carries
      OBVIOUS
    <3>1. Carries
      BY <2>AcceptedLosesNothing DEF Carries
    <3> QED BY <3>1, <2>AcceptedKeepsIInv
(* A gap replay is started. *)
<1>ReplayedSteps.
    IInv /\ CursorTooOldReplayed => IInv' /\ Carries
(* The gap that an archive is asked to fill starts at the saved event.      *)
  <2>PlannedGap.
      ASSUME IInv, MayPlanGap
      PROVE  /\ setting.gap_replay
             /\ GapFloor \in 1..MaxSeq /\ ~Stale(base, GapFloor) /\ stored.time # None
             /\ GapFloor + base = SavedIndex /\ EventIn(base, GapFloor) = SavedIndex
             /\ SavedIndex \in 1..head
             /\ sealed - base \in 1..MaxSeq /\ EventIn(base, sealed - base) = sealed
             /\ SavedIndex < sealed /\ sealed \in 1..head
    <3> USE <2>PlannedGap
    <3>0. ServerTyped /\ DataTyped /\ Shape /\ Numbered
      BY DEF IInv, Typed
    <3>1. stored.host = host /\ GapFloor = Load.seq /\ Load.seq # None /\ sealed - base > GapFloor
          /\ setting.gap_replay
      BY DEF MayPlanGap, GapFloor
    <3>2. Load.seq = stored.seq /\ stored.seq # None /\ stored.seq \in 0..MaxSeq
          /\ (~stored.older \/ stored.time = None)
      BY <3>0, <3>1, StoredFacts DEF Load
    <3>3. stored.time # None
      <4>1. stored.time = None => stored.seq = None
        BY SMT, <3>0 DEF Shape, NothingSaved
      <4> QED BY <3>2, <4>1
    <3>4. EventIn(base, GapFloor) = SavedIndex /\ SavedIndex \in 1..head
      BY <3>0, <3>1, <3>2, <3>3, StoredFacts DEF Numbered, Names
    <3>5. /\ head \in 1..MaxEvents /\ head \in Nat /\ base \in Bases(head) /\ base \in Int
          /\ sealed \in 1..head /\ base <= sealed
      BY <3>0, ServerFacts DEF ServerTyped
    <3>6. GapFloor \in 1..MaxSeq
      BY SMT, <3>1, <3>2, Constants
    <3>7. base < sealed
      BY SMT, <3>1, <3>5, <3>6
    <3>8. sealed - base \in 1..MaxSeq /\ EventIn(base, sealed - base) = sealed
          /\ ~Stale(base, sealed - base)
      BY <3>5, <3>7, SeqNames
    <3>9. ~Stale(base, GapFloor)
      BY SMT, <3>1, <3>5, <3>6, <3>8, Constants DEF Stale
    <3>10. GapFloor + base = SavedIndex
      BY <3>4, <3>9 DEF Stale, EventIn
    <3>11. SavedIndex < sealed
      BY SMT, <3>1, <3>5, <3>6, <3>10
    <3> QED BY <3>1, <3>3, <3>4, <3>5, <3>6, <3>8, <3>9, <3>10, <3>11
  <2>ReplayedFields.
      ASSUME IInv, CursorTooOldReplayed
      PROVE  /\ session' \in SessionType
             /\ session'.protocol = session.protocol /\ session'.barrier = session.barrier
             /\ session'.from_tip = FALSE /\ session'.gap = NoGap
             /\ session.protocol = "v2" /\ last' = sealed - base
    <3> USE <2>ReplayedFields
    <3>1. Asked \in SessionType /\ Asked.protocol = session.protocol
          /\ Asked.barrier = session.barrier
      BY <1>ConnectFacts, <1>AskedTyped
    <3>2. GapFloor \in 1..MaxSeq /\ sealed - base \in 1..MaxSeq
      BY <2>PlannedGap DEF CursorTooOldReplayed
    <3>3. GapFloor \in Nat /\ sealed - base \in Nat
      BY SMT, <3>2, Constants
    <3> DEFINE tip == sealed - base
    <3>4. session' = [Asked EXCEPT !.stale = GapFloor, !.from_tip = FALSE, !.gap = NoGap,
                                    !.gap_at = tip]
      BY DEF CursorTooOldReplayed
    <3> HIDE DEF tip
    <3>5. tip \in Nat
      BY <3>3 DEF tip
    <3> QED BY <3>1, <3>3, <3>4, <3>5, NoGapFacts DEF SessionType, CursorTooOldReplayed
  <2>ReplayedKeepsIInv.
      ASSUME IInv, CursorTooOldReplayed
      PROVE  IInv'
    <3> USE <2>ReplayedKeepsIInv
    <3>0. ServerTyped /\ ProcessTyped /\ DataTyped /\ Shape /\ Numbered /\ Positioned /\ Recent
      BY DEF IInv, Typed
    <3>1. /\ setting' = setting /\ server' = server /\ wm' = wm /\ tracked' = tracked
          /\ stored' = stored /\ owed' = owed /\ told' = told /\ left' = left /\ conn' = conn
          /\ mode = "connect" /\ mode' = "connect"
      BY DEF CursorTooOldReplayed, history
    <3>2. ServerTyped' /\ head' = head /\ base' = base /\ host' = host
      BY <3>0, <3>1, ServerKept, LeftStays
    <3>3. MayPlanGap
      BY DEF CursorTooOldReplayed
    <3>4. SavedIndex' = SavedIndex
      BY <3>1 DEF SavedIndex
    <3>5. DataTyped'
      <4> DEFINE job == [after_seq |-> GapFloor, from |-> GapFloor + base, tip |-> None, open |-> TRUE]
      <4>1. GapFloor \in 0..MaxSeq /\ GapFloor + base \in Nat /\ None \in Nat
        BY SMT, <3>3, <2>PlannedGap, Constants
      <4>2. job \in JobType
        BY <4>1 DEF JobType
      <4>3. jobs' \subseteq jobs \cup {job}
        BY DEF CursorTooOldReplayed
      <4> QED BY <3>0, <3>1, <3>2, <3>4, <4>2, <4>3 DEF DataTyped
    <3>6. last' \in 0..MaxSeq /\ EventIn(base, last') \in 1..head
      BY SMT, <3>3, <2>PlannedGap, <2>ReplayedFields, Constants
    <3>7. ProcessTyped'
      BY <3>0, <3>1, <3>6, <2>ReplayedFields DEF ProcessTyped
    <3>8. Numbered'
      BY <3>0, <3>1, <3>2, <3>4, <3>6 DEF Numbered
    <3>9. Recent'
      BY <3>0, <3>1, <3>2, RecentKept, <2>ReplayedFields
    <3>10. Shape'
      <4>1. session'.barrier = session.barrier /\ session'.protocol = "v2"
        BY <2>ReplayedFields
      <4>2. NextTicket(wm)' = NextTicket(wm)
        BY <3>1
      <4> QED BY <3>0, <3>1, <3>4, <4>1, <4>2 DEF Shape
    <3>11. Positioned'
      BY <3>1 DEF Positioned
    <3> QED BY <3>2, <3>5, <3>7, <3>8, <3>9, <3>10, <3>11 DEF IInv, Typed
  (* The job started or joined reads every event after the saved one that is  *)
  (* sealed.                                                                  *)
  <2>ReplayCovers.
      ASSUME IInv, JobsReach, CursorTooOldReplayed
      PROVE  /\ jobs \subseteq jobs' /\ head' = head /\ sealed' = sealed /\ base' = base
             /\ Covered \subseteq Covered'
             /\ (SavedIndex + 1)..sealed \subseteq Covered'
             /\ JobsReach'
    <3> USE <2>ReplayCovers
    <3>0. MayPlanGap /\ setting' = setting /\ server' = server /\ left' = left
      BY DEF CursorTooOldReplayed
    <3>1. head' = head /\ sealed' = sealed /\ base' = base
      BY <3>0 DEF server, head
    <3> DEFINE job == [after_seq |-> GapFloor, from |-> GapFloor + base, tip |-> None, open |-> TRUE]
    <3>2. jobs' = IF \E j \in jobs : j.open /\ j.after_seq = GapFloor THEN jobs ELSE jobs \cup {job}
      BY DEF CursorTooOldReplayed
    <3>3. job.after_seq = GapFloor /\ job.from = GapFloor + base /\ job.tip = None
      OBVIOUS
    <3> HIDE DEF job
    <3>4. jobs \subseteq jobs'
      BY <3>2
    <3>5. Covered \subseteq Covered'
      BY <3>1, <3>4 DEF Covered
    <3>6. /\ GapFloor \in 1..MaxSeq /\ ~Stale(base, GapFloor) /\ GapFloor + base = SavedIndex
          /\ EventIn(base, GapFloor) = SavedIndex /\ SavedIndex \in 1..head /\ SavedIndex < sealed
          /\ sealed \in 1..head /\ setting.gap_replay
      BY <3>0, <2>PlannedGap
    <3>7. head \in Nat /\ base \in Int /\ GapFloor # None
      BY SMT, <3>6, IInvParts, ServerFacts, Constants
    <3>8. PICK j \in jobs' : j.from = SavedIndex /\ (j.tip # None => j.tip >= sealed)
      <4>1. CASE \E j \in jobs : j.open /\ j.after_seq = GapFloor
        BY <3>2, <3>6, <4>1 DEF JobsReach
      <4>2. CASE ~\E j \in jobs : j.open /\ j.after_seq = GapFloor
        BY <3>2, <3>3, <3>6, <4>2
      <4> QED BY <4>1, <4>2
    <3>9. ASSUME NEW i \in (SavedIndex + 1)..sealed PROVE i \in Covered'
      <4>1. i \in 1..head /\ SavedIndex < i /\ i <= sealed
        BY SMT, <3>6, <3>7
      <4>2. j \in JobType
        <5>1. None \in Nat /\ GapFloor \in 0..MaxSeq /\ GapFloor + base \in Nat
          BY SMT, <3>6, <3>7, Constants
        <5>2. job \in JobType
          BY <5>1 DEF JobType, job
        <5>3. jobs \subseteq JobType
          BY IInvParts DEF DataTyped
        <5> QED BY <3>2, <5>2, <5>3
      <4>3. j.tip \in Nat
        BY <4>2 DEF JobType
      <4>4. j.tip # None => i <= j.tip
        BY SMT, <3>6, <3>7, <3>8, <4>1, <4>3
      <4> QED BY <3>1, <3>8, <4>1, <4>4 DEF Covered
    <3>10. JobsReach'
      <4>1. ASSUME NEW k \in jobs'
            PROVE  /\ k.after_seq # None /\ EventIn(base, k.after_seq) = k.from /\ k.from >= 1
                   /\ k.tip # None /\ ~Stale(base, k.after_seq) => k.tip >= sealed
        <5>1. SavedIndex >= 1
          BY SMT, <3>6
        <5>2. CASE k \in jobs
          BY <5>2 DEF JobsReach
        <5>3. CASE k = job
          BY <3>3, <3>6, <3>7, <5>1, <5>3
        <5> QED BY <3>2, <5>2, <5>3
      <4>2. ~(left["seal"] > 0)
        <5>1. left["seal"] > 0 => sealed = Later(1, base)
          BY <3>6 DEF JobsReach
        <5>2. sealed # Later(1, base)
          BY SMT, <3>6, <3>7 DEF Later
        <5> QED BY <5>1, <5>2
      <4> QED BY <3>0, <3>1, <3>6, <4>1, <4>2 DEF JobsReach
    <3> QED BY <3>1, <3>4, <3>5, <3>9, <3>10
  <2>ReplayLosesNothing.
      ASSUME IInv, NEW o \in 0..head, LosesNothing(o), CursorTooOldReplayed
      PROVE  LosesNothing(o)'
    <3> USE <2>ReplayLosesNothing
    <3>0. ServerTyped /\ SaveSafe(o) /\ SlotSafe(o) /\ GapSafe(o) /\ FreshSafe(o)
          /\ JobsReach /\ DrainsSettle
      BY IInvParts DEF LosesNothing, Safe
    <3>1. /\ setting' = setting /\ log' = log /\ wm' = wm /\ tracked' = tracked /\ stored' = stored
          /\ owed' = owed /\ done' = done /\ gaps' = gaps /\ silent' = silent
          /\ mode = "connect" /\ mode' = "connect"
      BY DEF CursorTooOldReplayed, history, server
    <3>2. /\ head' = head /\ sealed' = sealed /\ base' = base
          /\ Covered \subseteq Covered' /\ (SavedIndex + 1)..sealed \subseteq Covered' /\ JobsReach'
      BY <3>0, <2>ReplayCovers
    <3>3. SavedIndex' = SavedIndex
      BY <3>1 DEF SavedIndex
    <3>4. Accounted \subseteq Accounted' /\ Wanted(o)' = Wanted(o)
      BY <3>1, <3>2, AccountedGrows, WantedSame
    <3>5. Grows(o)
      BY <3>4 DEF Grows
    <3>6. session'.barrier = session.barrier /\ session'.from_tip = FALSE /\ ~session'.gap.pending
      BY <2>ReplayedFields, NoGapFacts
    <3>7. FlushPoint' = FlushPoint
      BY <3>1, <3>6, FlushPointKept
    <3>8. SaveSafe(o)'
      BY <3>0, <3>3, <3>5, <3>7, SaveSafeKept
    <3>9. SlotSafe(o)'
      BY <3>0, <3>1, <3>5, SlotSafeKept
    <3>10. stored.time # None /\ SavedIndex < sealed /\ sealed \in 1..head
           /\ EventIn(base, last') = sealed
      BY <2>PlannedGap, <2>ReplayedFields DEF CursorTooOldReplayed
    <3>11. LastSafe(o)'
      <4>1. Accounted' \subseteq Handled' /\ Covered' \subseteq Handled'
        BY DEF Handled, Accounted
      <4>2. Reached(Wanted(o)', Accounted', SavedIndex)
        BY <3>3, <3>8 DEF SaveSafe
      <4>3. Reached(Wanted(o)', Handled', SavedIndex)
        BY <4>1, <4>2, ReachedMore
      <4>4. \A i \in Wanted(o)' : i \in Int
        BY <3>4, WantedTyped
      <4>5. SavedIndex \in Int /\ sealed \in Int
        BY SMT, <3>10, SavedIndexTyped
      <4>6. ASSUME NEW i \in Wanted(o)', SavedIndex < i, i <= sealed PROVE i \in Handled'
        <5>1. i \in (SavedIndex + 1)..sealed
          BY SMT, <4>4, <4>5, <4>6
        <5> QED BY <3>2, <4>1, <5>1
      <4>7. Reached(Wanted(o)', Handled', sealed)
        BY <4>3, <4>4, <4>5, <4>6, ReachedUp
      <4> QED BY <3>2, <3>10, <4>7 DEF LastSafe
    <3>12. GapSafe(o)' /\ StreamSafe(o)' /\ FreshSafe(o)'
      BY <3>1, <3>6, <3>10 DEF GapSafe, StreamSafe, FreshSafe
    <3>13. DrainsSettle'
      <4>1. setting.budget["track"] > 0 => Settled
        BY <3>0, <3>1 DEF DrainsSettle
      <4>2. Settled => Settled'
        BY <3>1, <3>2, <3>3, <3>7, <3>10 DEF Settled
      <4> QED BY <3>1, <3>6, <4>1, <4>2 DEF DrainsSettle
    <3> QED BY <3>2, <3>8, <3>9, <3>11, <3>12, <3>13 DEF LosesNothing, Safe
  <2> QED
    <3> SUFFICES ASSUME IInv, CursorTooOldReplayed PROVE IInv' /\ Carries
      OBVIOUS
    <3>1. head' = head
      BY DEF CursorTooOldReplayed, server, head
    <3>2. Carries
      BY <3>1, <2>ReplayLosesNothing DEF Carries
    <3> QED BY <3>2, <2>ReplayedKeepsIInv
<1> QED BY <1>RefusalSteps, <1>AcceptedSteps, <1>ReplayedSteps DEF Connect, Refusal

-----------------------------------------------------------------------------

(* Streaming *)

(* A step of the reader: the server, the database and the bounds stay.      *)
ReaderStep ==
    /\ mode = "stream" /\ UNCHANGED <<setting, server, tracked, database, owed>>
    /\ LeftFalls /\ told' \in BOOLEAN

-----------------------------------------------------------------------------

(* The next event *)

(* The point of a dispatched event. *)
Dispatched == [seq |-> SeqOf(NextEvent), time |-> Time(NextEvent)]

(* So does everything the stream brings.                                    *)
LEMMA ReadSteps == WellOrdered /\ IInv /\ Read => IInv' /\ Carries
<1>ReaderFrame.
    ASSUME IInv, ReaderStep
    PROVE  /\ ServerTyped' /\ DataTyped'
           /\ setting' = setting /\ log' = log /\ head' = head /\ base' = base /\ host' = host
           /\ oldest' = oldest /\ sealed' = sealed
           /\ stored' = stored /\ jobs' = jobs /\ SavedIndex' = SavedIndex
           /\ head \in Nat /\ head <= head
  <2> USE <1>ReaderFrame
  <2>1. ServerTyped' /\ head' = head /\ base' = base /\ oldest' = oldest /\ sealed' = sealed
        /\ host' = host /\ log' = log
    BY IInvParts, ServerKept DEF ReaderStep
  <2>2. head \in Nat /\ head <= head /\ host \in Nat /\ host <= host
    BY SMT, IInvParts, ServerFacts
  <2>3. DataTyped' /\ stored' = stored /\ jobs' = jobs /\ SavedIndex' = SavedIndex
    BY <2>1, <2>2, IInvParts, DataKept DEF DataTyped, ReaderStep
  <2> QED BY <2>1, <2>2, <2>3 DEF ReaderStep
(* A step of the reader that dispatches nothing. *)
<1>ReaderGrows.
    ASSUME IInv, ReaderStep, NEW o, session' = session, wm' = wm,
           done' = done, gaps \subseteq gaps', silent' = silent
    PROVE  /\ Grows(o) /\ Covered' = Covered /\ Wanted(o)' = Wanted(o)
           /\ Handled \subseteq Handled' /\ Streamed \subseteq Streamed' /\ gaps' \subseteq Streamed'
  <2> USE <1>ReaderGrows
  <2>1. Grows(o) /\ Covered' = Covered /\ Wanted(o)' = Wanted(o)
    <3>1. UNCHANGED <<server, tracked, stored, jobs, owed>>
      BY DEF ReaderStep, database
    <3> QED BY <3>1, HistoryGrows
  <2>2. Handled \subseteq Handled'
    BY <2>1, HandledGrows
  <2>3. PendingGap' = PendingGap
    BY DEF PendingGap
  <2> QED BY <2>1, <2>2, <2>3 DEF Streamed, Handled, Accounted
<1>ReaderKeepsRest.
    ASSUME IInv, ReaderStep, NEW o, LosesNothing(o), session' = session, last' = last, wm' = wm,
           done' = done, gaps \subseteq gaps', silent' = silent, mode' = "stream",
           StreamSafe(o)', stored.time = None => conn'.pos >= o
    PROVE  LosesNothing(o)'
  <2> USE <1>ReaderKeepsRest
  <2>0. ServerTyped /\ SaveSafe(o) /\ SlotSafe(o) /\ LastSafe(o) /\ GapSafe(o) /\ FreshSafe(o)
        /\ JobsReach /\ DrainsSettle
    BY IInvParts DEF LosesNothing, Safe
  <2>1. /\ setting' = setting /\ head' = head /\ base' = base /\ sealed' = sealed
        /\ stored' = stored /\ jobs' = jobs /\ SavedIndex' = SavedIndex /\ LeftFalls
        /\ head \in Nat /\ head <= head /\ mode = "stream"
    BY <1>ReaderFrame DEF ReaderStep
  <2>2. FlushPoint' = FlushPoint /\ Grows(o) /\ Covered' = Covered /\ Handled \subseteq Handled'
    BY <1>ReaderGrows, FlushPointKept
  <2>3. SaveSafe(o)'
    BY <2>0, <2>1, <2>2, SaveSafeKept
  <2>4. SlotSafe(o)'
    BY <2>0, <2>2, SlotSafeKept
  <2>5. LastSafe(o)'
    BY <2>0, <2>1, <2>2, LastSafeKept
  <2>6. GapSafe(o)'
    <3>1. session.from_tip => session.gap.pending
      BY <2>0 DEF GapSafe
    <3>2. session.gap.pending => last = None
      BY <2>0 DEF GapSafe
    <3> QED BY <2>0, <2>1, <2>2, <3>1, <3>2, GapSafeKept
  <2>7. FreshSafe(o)'
    BY <2>0, <2>1, FreshSafeKept
  <2>8. JobsReach'
    BY <2>0, <2>1, JobsReachKept
  <2>9. DrainsSettle'
    BY <2>0, <2>1, <2>2, DrainsKept
  <2> QED BY <2>3, <2>4, <2>5, <2>6, <2>7, <2>8, <2>9 DEF LosesNothing, Safe
<1>OutdatedSteps.
    IInv /\ ReadOutdatedCursor => IInv' /\ Carries
  <2>OutdatedKeepsIInv.
      ASSUME IInv, ReadOutdatedCursor
      PROVE  IInv'
    <3> USE <2>OutdatedKeepsIInv
    <3>0. ServerTyped /\ ProcessTyped /\ DataTyped /\ Shape /\ Numbered /\ Positioned /\ Recent
      BY IInvParts
    <3>1. /\ mode = "stream" /\ conn.notice = "OutdatedCursor"
          /\ mode' = mode /\ session' = session /\ last' = last /\ wm' = wm /\ tracked' = tracked
          /\ told' = told /\ owed' = owed /\ conn' = [conn EXCEPT !.notice = "none"]
      BY DEF ReadOutdatedCursor
    <3>2. ReaderStep
      BY <3>0, <3>1, LeftStays DEF ReadOutdatedCursor, ReaderStep, DataTyped
    <3>3. /\ conn' \in ConnType /\ conn'.notice = "none" /\ conn'.pos = conn.pos
          /\ conn'.floor = conn.floor /\ conn'.filter = conn.filter /\ conn'.saved = conn.saved
          /\ conn'.ended = conn.ended
      BY <3>0, <3>1 DEF ProcessTyped, ConnType
    <3>4. ProcessTyped'
      BY <3>0, <3>1, <3>3 DEF ProcessTyped
    <3>5. Numbered'
      BY <3>0, <3>1, <3>2, <1>ReaderFrame, NumberedKept
    <3>6. Recent'
      BY <3>0, <3>1, <3>2, <1>ReaderFrame, RecentKept
    <3>7. Shape'
      <4>1. NextTicket(wm)' = NextTicket(wm)
        BY <3>1
      <4> QED BY <3>0, <3>1, <3>2, <3>3, <4>1, <1>ReaderFrame DEF Shape
    <3>8. Positioned'
      BY <3>0, <3>1, <3>2, <3>3, <1>ReaderFrame DEF Positioned
    <3> QED BY <3>2, <3>4, <3>5, <3>6, <3>7, <3>8, <1>ReaderFrame DEF IInv, Typed
  <2>OutdatedLosesNothing.
      ASSUME IInv, NEW o \in 0..head, LosesNothing(o), ReadOutdatedCursor
      PROVE  LosesNothing(o)' /\ head' = head
    <3> USE <2>OutdatedLosesNothing
    <3> DEFINE e == IndexOf(session.sent)
    <3>0. StreamSafe(o) /\ FreshSafe(o) /\ ServerTyped /\ DataTyped
      BY IInvParts DEF LosesNothing, Safe
    <3>1. /\ mode = "stream" /\ conn.notice = "OutdatedCursor" /\ mode' = "stream"
          /\ session' = session /\ last' = last /\ wm' = wm /\ done' = done /\ silent' = silent
          /\ gaps' = gaps \cup (e..(conn.pos - 1)) /\ conn' = [conn EXCEPT !.notice = "none"]
      BY DEF ReadOutdatedCursor
    <3>2. ReaderStep
      BY <3>0, <3>1, LeftStays DEF ReadOutdatedCursor, ReaderStep, DataTyped
    <3>3. conn'.notice = "none" /\ conn'.pos = conn.pos /\ conn'.floor = conn.floor
          /\ conn.pos \in Nat /\ session.sent \in Nat
      BY <3>1, IInvParts DEF ProcessTyped, ConnType, SessionType
    <3>4. e \in Int /\ e - 1 \in Int /\ conn.pos - 1 \in Int
      BY SMT, <3>3, Constants DEF IndexOf
    <3>5. gaps \subseteq gaps' /\ e..(conn.pos - 1) \subseteq gaps'
      BY <3>1
    <3>6. /\ Wanted(o)' = Wanted(o) /\ Streamed \subseteq Streamed' /\ gaps' \subseteq Streamed'
          /\ \A i \in Wanted(o) : i \in Int
      BY <3>1, <3>2, <3>5, <1>ReaderGrows, WantedTyped
    <3>7. Reached(Wanted(o), Streamed, e - 1)
      BY <3>0, <3>1 DEF StreamSafe
    <3> HIDE DEF e
    <3>8. Reached(Wanted(o), Streamed', conn.pos - 1)
      <4>1. Reached(Wanted(o), Streamed', e - 1)
        BY <3>6, <3>7, ReachedMore
      <4>2. ASSUME NEW i \in Wanted(o), e - 1 < i, i <= conn.pos - 1 PROVE i \in Streamed'
        <5>1. i \in e..(conn.pos - 1)
          BY SMT, <3>3, <3>4, <3>6, <4>2
        <5> QED BY <3>5, <3>6, <5>1
      <4> QED BY <3>4, <3>6, <4>1, <4>2, ReachedUp
    <3>9. conn.floor # None => Reached(Wanted(o), Streamed', conn.floor + base)
      BY <3>0, <3>1, <3>6, ReachedMore DEF StreamSafe
    <3>10. StreamSafe(o)'
      BY <3>0, <3>1, <3>2, <3>3, <3>6, <3>8, <3>9, <1>ReaderFrame DEF StreamSafe
    <3>11. stored.time = None => conn'.pos >= o
      BY <3>0, <3>1, <3>3 DEF FreshSafe
    <3> QED BY <3>1, <3>2, <3>5, <3>10, <3>11, <1>ReaderFrame, <1>ReaderKeepsRest
  <2> QED BY <2>OutdatedKeepsIInv, <2>OutdatedLosesNothing DEF Carries
<1>FutureSteps.
    IInv /\ ReadFutureCursor => IInv' /\ Carries
  <2>FutureFields.
      ASSUME IInv, ReadFutureCursor
      PROVE  /\ session' \in SessionType /\ session'.barrier = NextTicket(wm)
             /\ session'.protocol = session.protocol /\ session'.sent = session.sent
             /\ session'.from_tip = session.from_tip /\ session'.gap = session.gap
             /\ conn' \in ConnType /\ conn'.pos = conn.pos /\ conn'.notice = "none"
             /\ conn'.filter = conn.filter /\ conn'.saved = conn.saved
             /\ conn'.ended \in {conn.ended, "renumbered"}
             /\ mode' = "drain" \/ (mode' = "stream" /\ conn'.floor = None)
             /\ FlushPoint' = NoPoint
             /\ \A k \in 1..Len(wm.pending) : ~Counts(wm', session'.barrier, k)
    <3> USE <2>FutureFields
    <3>0. ProcessTyped
      BY IInvParts
    <3>1. NextTicket(wm) \in Nat /\ ~HasRetired(wm, NextTicket(wm))
          /\ \A k \in 1..Len(wm.pending) : ~Counts(wm, NextTicket(wm), k)
      BY <3>0, BarrierHolds DEF ProcessTyped
    <3>2. session \in SessionType /\ conn \in ConnType
      BY <3>0 DEF ProcessTyped
    <3>3. session' = [session EXCEPT
                         !.stale = IF conn.loaded.seq # None THEN conn.loaded.seq ELSE session.stale,
                         !.barrier = NextTicket(wm)]
      BY DEF ReadFutureCursor
    <3>4. (IF conn.loaded.seq # None THEN conn.loaded.seq ELSE session.stale) \in Nat
      <4>1. conn.loaded.seq \in 0..MaxSeq /\ session.stale \in Nat
        BY <3>2 DEF ConnType, SessionType
      <4> QED BY SMT, <4>1, Constants
    <3>5. /\ session' \in SessionType /\ session'.barrier = NextTicket(wm)
          /\ session'.protocol = session.protocol /\ session'.sent = session.sent
          /\ session'.from_tip = session.from_tip /\ session'.gap = session.gap
      BY <3>1, <3>2, <3>3, <3>4 DEF SessionType
    <3>6. None \in Nat
      BY SMT, Constants
    <3>7. /\ conn' \in ConnType /\ conn'.pos = conn.pos /\ conn'.notice = "none"
          /\ conn'.filter = conn.filter /\ conn'.saved = conn.saved
          /\ conn'.ended \in {conn.ended, "renumbered"}
          /\ mode' = "drain" \/ (mode' = "stream" /\ conn'.floor = None)
      <4>1. CASE mode' = "drain" /\ conn' = EndedFor("renumbered")
        BY <3>2, <4>1 DEF EndedFor, ConnType
      <4>2. CASE mode' = mode /\ conn' = [conn EXCEPT !.notice = "none", !.floor = None]
        BY <3>2, <3>6, <4>2 DEF ConnType, ReadFutureCursor
      <4> QED BY <4>1, <4>2 DEF ReadFutureCursor
    <3>8. wm' = wm
      BY DEF ReadFutureCursor
    <3>9. session'.barrier # NoTicket
      BY SMT, <3>1, <3>5, Constants
    <3>10. FlushPoint' = NoPoint
      BY ZenonT(40), <3>1, <3>5, <3>8, <3>9 DEF FlushPoint, AppliedIfRetired
    <3> QED BY <3>1, <3>5, <3>7, <3>8, <3>10
  <2>FutureKeepsIInv.
      ASSUME IInv, ReadFutureCursor
      PROVE  IInv'
    <3> USE <2>FutureKeepsIInv
    <3>0. ServerTyped /\ ProcessTyped /\ DataTyped /\ Shape /\ Numbered /\ Positioned /\ Recent
      BY IInvParts
    <3>1. /\ mode = "stream" /\ conn.notice = "FutureCursor"
          /\ last' = None /\ wm' = wm /\ tracked' = tracked /\ told' = TRUE /\ owed' = owed
      BY DEF ReadFutureCursor
    <3>2. ReaderStep
      BY <3>0, <3>1, LeftStays DEF ReadFutureCursor, ReaderStep
    <3>3. ProcessTyped'
      <4>1. None \in 0..MaxSeq
        BY SMT, Constants
      <4> QED BY <3>0, <3>1, <4>1, <2>FutureFields DEF ProcessTyped
    <3>4. Numbered'
      BY <3>0, <3>1, <3>2, <1>ReaderFrame, NumberedKept
    <3>5. Recent'
      BY <3>1, <2>FutureFields DEF Recent
    <3>6. Shape'
      <4>1. NextTicket(wm)' = NextTicket(wm) /\ NextTicket(wm) <= NextTicket(wm)
        BY SMT, <3>0, <3>1, BarrierHolds DEF ProcessTyped
      <4>2. session'.barrier <= NextTicket(wm)'
        BY <4>1, <2>FutureFields
      <4> QED BY <3>0, <3>1, <3>2, <4>2, <1>ReaderFrame, <2>FutureFields DEF Shape
    <3>7. Positioned'
      BY <3>0, <3>1, <3>2, <1>ReaderFrame, <2>FutureFields DEF Positioned
    <3> QED BY <3>2, <3>3, <3>4, <3>5, <3>6, <3>7, <1>ReaderFrame DEF IInv, Typed
  <2>FutureLosesNothing.
      ASSUME IInv, NEW o \in 0..head, LosesNothing(o), ReadFutureCursor
      PROVE  LosesNothing(o)' /\ head' = head
    <3> USE <2>FutureLosesNothing
    <3>0. /\ ServerTyped /\ SaveSafe(o) /\ SlotSafe(o) /\ GapSafe(o) /\ StreamSafe(o) /\ FreshSafe(o)
          /\ JobsReach /\ DrainsSettle
      BY IInvParts DEF LosesNothing, Safe
    <3>1. /\ mode = "stream" /\ conn.notice = "FutureCursor" /\ last' = None /\ wm' = wm /\ told' = TRUE
          /\ done' = done /\ silent' = silent /\ gaps \subseteq gaps'
      BY DEF ReadFutureCursor
    <3>2. ReaderStep
      BY <3>0, <3>1, LeftStays DEF ReadFutureCursor, ReaderStep
    <3>3. /\ setting' = setting /\ head' = head /\ base' = base /\ sealed' = sealed
          /\ stored' = stored /\ jobs' = jobs /\ SavedIndex' = SavedIndex /\ LeftFalls
          /\ head \in Nat /\ head <= head
      BY <3>2, <1>ReaderFrame DEF ReaderStep
    <3>4. Grows(o) /\ Covered' = Covered /\ Wanted(o)' = Wanted(o)
      <4>1. UNCHANGED <<server, tracked, stored, jobs, owed>>
        BY <3>2 DEF ReaderStep, database
      <4> QED BY <3>1, <4>1, HistoryGrows
    <3>5. /\ session'.from_tip = session.from_tip /\ session'.gap = session.gap
          /\ FlushPoint' = NoPoint /\ \A k \in 1..Len(wm'.pending) : ~Counts(wm', session'.barrier, k)
          /\ conn'.pos = conn.pos /\ conn'.notice = "none"
          /\ mode' = "drain" \/ (mode' = "stream" /\ conn'.floor = None)
      BY <3>1, <2>FutureFields
    <3>6. SaveSafe(o)'
      BY <3>0, <3>3, <3>4, <3>5, SaveSafeKept
    <3>7. SlotSafe(o)'
      BY <3>0, <3>1, <3>4, SlotSafeKept
    <3>8. LastSafe(o)'
      BY <3>1 DEF LastSafe
    <3>9. GapSafe(o)'
      <4>1. session.from_tip => session.gap.pending
        BY <3>0 DEF GapSafe
      <4> QED BY <3>0, <3>1, <3>3, <3>4, <3>5, <4>1, GapSafeKept
    <3>10. StreamSafe(o)'
      <4> SUFFICES ASSUME mode' = "stream"
                   PROVE  Reached(Wanted(o)', Streamed', conn'.pos - 1)
        BY <3>5 DEF StreamSafe
      <4>1. gaps' = gaps \cup ((session.sent + FirstBase + 1)..(conn.pos - 1))
        BY DEF ReadFutureCursor
      <4>2. Streamed \subseteq Streamed' /\ gaps' \subseteq Streamed'
        <5>1. Handled \subseteq Handled'
          BY <3>1, <3>4, HandledGrows
        <5>2. PendingGap' = PendingGap
          BY <3>5 DEF PendingGap
        <5> QED BY <5>1, <5>2 DEF Streamed, Handled, Accounted
      <4> DEFINE e == EventIn(base, session.sent)
      <4>3. Reached(Wanted(o), Streamed, e) /\ Stale(base, session.sent)
        BY <3>0, <3>1, IInvParts DEF StreamSafe, Positioned
      <4>4. e = session.sent + FirstBase
        BY <4>3 DEF Stale, EventIn
      <4>5. session.sent \in Nat /\ conn.pos \in Nat
        BY IInvParts DEF ProcessTyped, SessionType, ConnType
      <4> HIDE DEF e
      <4>6. e \in Int /\ conn.pos - 1 \in Int
        BY SMT, <4>4, <4>5, Constants
      <4>7. Reached(Wanted(o), Streamed', e) /\ \A i \in Wanted(o) : i \in Int
        BY <4>2, <4>3, ReachedMore, WantedTyped
      <4>8. ASSUME NEW i \in Wanted(o), e < i, i <= conn.pos - 1 PROVE i \in Streamed'
        <5>1. i \in (session.sent + FirstBase + 1)..(conn.pos - 1)
          BY SMT, <4>4, <4>5, <4>7, <4>8, Constants
        <5> QED BY <4>1, <4>2, <5>1
      <4>9. Reached(Wanted(o), Streamed', conn.pos - 1)
        BY <4>6, <4>7, <4>8, ReachedUp
      <4> QED BY <3>4, <3>5, <4>9
    <3>11. FreshSafe(o)'
      BY <3>0, <3>1, <3>3, <3>5 DEF FreshSafe
    <3>12. JobsReach'
      BY <3>0, <3>3, JobsReachKept
    <3>13. DrainsSettle'
      <4>1. LastIsLatest'
        BY <3>1 DEF LastIsLatest
      <4>2. Settled => Settled'
        BY <3>1, <3>3, <3>4, <3>5 DEF Settled
      <4> QED BY <3>0, <3>3, <3>5, <4>1, <4>2 DEF DrainsSettle
    <3> QED BY <3>3, <3>6, <3>7, <3>8, <3>9, <3>10, <3>11, <3>12, <3>13 DEF LosesNothing, Safe
  <2> QED BY <2>FutureKeepsIInv, <2>FutureLosesNothing DEF Carries
<1>PointMade.
    ASSUME NEW seq \in 0..MaxSeq, NEW i \in 1..MaxEvents
    PROVE  /\ [seq |-> seq, time |-> Time(i)] \in Points
           /\ Index([seq |-> seq, time |-> Time(i)]) = i
  <2> USE <1>PointMade
  <2>1. Points = [seq : 0..MaxSeq, time : Times]
    BY ConsumerAssumption DEF Times
  <2>2. i \in Int
    BY SMT
  <2>3. Time(i) \in Times /\ IndexOf(Time(i)) = i
    BY <2>2, TimeOfEvent
  <2> QED BY <2>1, <2>3 DEF Index
(* The next event of the subscription, before which there is none of it.    *)
<1>NextEventFacts.
    ASSUME WellOrdered, IInv, mode = "stream", Pending # {}
    PROVE  /\ NextEvent \in 1..head /\ conn.pos <= NextEvent /\ base < NextEvent
           /\ NextEvent \in Nat /\ conn.pos \in Nat
           /\ log[NextEvent] \in tracked
           /\ \A i \in 1..head : conn.pos <= i /\ i < NextEvent => log[i] \notin tracked
  <2> USE <1>NextEventFacts
  <2>1. conn.pos \in Nat /\ conn.filter = tracked /\ base < conn.pos
    BY IInvParts DEF ProcessTyped, ConnType, Shape, Positioned
  <2>2. head \in Nat /\ base \in Int /\ base \in Bases(head)
    BY IInvParts, ServerFacts
  <2>3. Pending \in SUBSET Nat
    BY SMT, <2>1, <2>2 DEF Pending
  <2>4. \E i \in Pending : \A j \in Pending : i <= j
    BY <2>3 DEF WellOrdered
  <2>5. NextEvent \in Pending /\ \A j \in Pending : NextEvent <= j
    BY <2>4 DEF NextEvent
  <2>6. NextEvent \in conn.pos..head /\ log[NextEvent] \in tracked
    BY <2>1, <2>5 DEF Pending
  <2>7. ASSUME NEW i \in 1..head, conn.pos <= i, i < NextEvent, log[i] \in tracked
        PROVE  FALSE
    <3>1. i \in conn.pos..head
      BY SMT, <2>1, <2>2, <2>7
    <3>2. i \in Pending
      BY <2>1, <2>7, <3>1 DEF Pending
    <3> QED BY SMT, <2>2, <2>5, <2>6, <2>7, <3>2
  <2>8. NextEvent \in Nat /\ conn.pos <= NextEvent /\ base < NextEvent
    BY SMT, <2>1, <2>2, <2>6
  <2>9. NextEvent \in 1..head
    <3>1. NextEvent # 0
      <4>1. conn.pos >= 1
        BY IInvParts DEF Positioned
      <4> QED BY SMT, <2>1, <2>2, <2>6, <4>1
    <3> QED BY SMT, <2>1, <2>2, <2>6, <3>1
  <2> QED BY <2>1, <2>6, <2>7, <2>8, <2>9
<1>SkipSeenSteps.
    WellOrdered /\ IInv /\ SkipSeen => IInv' /\ Carries
  <2>SkipSeenFields.
      ASSUME WellOrdered, IInv, SkipSeen
      PROVE  /\ conn' \in ConnType /\ conn'.pos = NextEvent + 1 /\ conn'.notice = "none"
             /\ conn'.floor = conn.floor /\ conn'.filter = conn.filter /\ conn'.saved = conn.saved
        /\ conn'.ended = conn.ended
             /\ mode = "stream" /\ mode' = "stream" /\ conn.notice = "none" /\ Pending # {}
             /\ conn.floor # None /\ NextEvent <= conn.floor + base
    <3> USE <2>SkipSeenFields
    <3>1. /\ mode = "stream" /\ mode' = "stream" /\ conn.notice = "none" /\ Pending # {}
          /\ conn.floor # None /\ SeqOf(NextEvent) # None /\ SeqOf(NextEvent) <= conn.floor
          /\ conn' = [conn EXCEPT !.pos = NextEvent + 1]
      BY DEF SkipSeen
    <3>2. conn \in ConnType
      BY IInvParts DEF ProcessTyped
    <3>3. NextEvent + 1 \in Nat
      BY SMT, <3>1, <1>NextEventFacts
    <3>4. /\ conn' \in ConnType /\ conn'.pos = NextEvent + 1 /\ conn'.notice = "none"
          /\ conn'.floor = conn.floor /\ conn'.filter = conn.filter /\ conn'.saved = conn.saved
          /\ conn'.ended = conn.ended
      BY <3>1, <3>2, <3>3 DEF ConnType
    <3>5. SeqOf(NextEvent) = NextEvent - base
      BY <3>1 DEF SeqOf
    <3>6. NextEvent \in Nat /\ base \in Int /\ conn.floor \in Nat
      BY <3>1, <3>2, <1>NextEventFacts, IInvParts, ServerFacts DEF ConnType
    <3>7. NextEvent <= conn.floor + base
      BY SMT, <3>1, <3>5, <3>6
    <3> QED BY <3>1, <3>4, <3>7
  <2>SkipSeenKeepsIInv.
      ASSUME WellOrdered, IInv, SkipSeen
      PROVE  IInv'
    <3> USE <2>SkipSeenKeepsIInv
    <3>0. ServerTyped /\ ProcessTyped /\ DataTyped /\ Shape /\ Numbered /\ Positioned /\ Recent
      BY IInvParts
    <3>1. /\ session' = session /\ last' = last /\ wm' = wm /\ tracked' = tracked
          /\ told' = told /\ owed' = owed /\ mode = "stream" /\ mode' = "stream"
      BY DEF SkipSeen, history
    <3>2. ReaderStep
      BY <3>0, <3>1, LeftStays DEF SkipSeen, ReaderStep, DataTyped
    <3>4. ProcessTyped'
      BY <3>0, <3>1, <2>SkipSeenFields DEF ProcessTyped
    <3>5. Numbered'
      BY <3>0, <3>1, <3>2, <1>ReaderFrame, NumberedKept
    <3>6. Recent'
      BY <3>0, <3>1, <3>2, <1>ReaderFrame, RecentKept
    <3>7. Shape'
      <4>1. NextTicket(wm)' = NextTicket(wm)
        BY <3>1
      <4> QED BY <3>0, <3>1, <3>2, <2>SkipSeenFields, <4>1, <1>ReaderFrame DEF Shape
    <3>8. Positioned'
      <4>1. base < NextEvent + 1 /\ NextEvent + 1 >= 1 /\ NextEvent + 1 <= head + 1
        <5>1. NextEvent \in 1..head /\ base < NextEvent /\ head \in Nat /\ base \in Int
          BY <3>0, <3>1, <2>SkipSeenFields, <1>NextEventFacts, ServerFacts
        <5> QED BY SMT, <5>1
      <4> QED BY <3>0, <3>1, <3>2, <4>1, <1>ReaderFrame, <2>SkipSeenFields DEF Positioned
    <3> QED BY <3>2, <3>4, <3>5, <3>6, <3>7, <3>8, <1>ReaderFrame DEF IInv, Typed
  <2>SkipSeenLosesNothing.
      ASSUME WellOrdered, IInv, NEW o \in 0..head, LosesNothing(o), SkipSeen
      PROVE  LosesNothing(o)' /\ head' = head
    <3> USE <2>SkipSeenLosesNothing
    <3>0. StreamSafe(o) /\ FreshSafe(o) /\ ServerTyped /\ DataTyped
      BY IInvParts DEF LosesNothing, Safe
    <3>1. /\ mode = "stream" /\ conn.notice = "none" /\ mode' = "stream"
          /\ session' = session /\ last' = last /\ wm' = wm /\ done' = done /\ silent' = silent
          /\ gaps' = gaps
      BY DEF SkipSeen, history
    <3>2. ReaderStep
      BY <3>0, <3>1, LeftStays DEF SkipSeen, ReaderStep, DataTyped, history
    <3>3. /\ conn'.notice = "none" /\ conn'.pos = NextEvent + 1 /\ conn'.floor = conn.floor
          /\ conn.floor # None /\ NextEvent <= conn.floor + base /\ conn.floor \in Nat /\ base \in Int
          /\ NextEvent \in Nat /\ conn.pos \in Nat /\ conn.pos <= NextEvent
      BY <3>0, <3>1, <2>SkipSeenFields, <1>NextEventFacts, IInvParts, ServerFacts
         DEF ProcessTyped, ConnType
    <3>4. /\ Wanted(o)' = Wanted(o) /\ Streamed \subseteq Streamed'
          /\ \A i \in Wanted(o) : i \in Int
      BY <3>1, <3>2, <1>ReaderGrows, WantedTyped
    <3>5. /\ Reached(Wanted(o), Streamed, conn.floor + base)
          /\ Reached(Wanted(o), Streamed', conn.floor + base)
      BY <3>0, <3>1, <3>3, <3>4, ReachedMore DEF StreamSafe
    <3>6. conn.floor + base \in Int /\ NextEvent \in Int /\ conn'.pos - 1 = NextEvent
      BY SMT, <3>3
    <3>7. Reached(Wanted(o), Streamed', NextEvent)
      <4> DEFINE f == conn.floor + base
      <4>1. Reached(Wanted(o), Streamed, f) /\ f \in Int /\ NextEvent \in Int /\ NextEvent <= f
        BY <3>3, <3>5, <3>6
      <4>2. Streamed \subseteq Streamed' /\ \A i \in Wanted(o) : i \in Int
        BY <3>4
      <4> HIDE DEF f
      <4> QED BY <4>1, <4>2, ReachedDown
    <3>8. StreamSafe(o)'
      BY <3>0, <3>1, <3>2, <3>3, <3>4, <3>5, <3>6, <3>7, <1>ReaderFrame DEF StreamSafe
    <3>9. stored.time = None => conn'.pos >= o
      <4>1. stored.time = None => conn.pos >= o
        BY <3>0, <3>1 DEF FreshSafe
      <4> QED BY SMT, <3>3, <4>1
    <3> QED BY <3>1, <3>2, <3>8, <3>9, <1>ReaderFrame, <1>ReaderKeepsRest
  <2> QED BY <2>SkipSeenKeepsIInv, <2>SkipSeenLosesNothing DEF Carries
<1>DeliverSteps.
    WellOrdered /\ IInv /\ Deliver => IInv' /\ Carries
(* A ticket handed out is one more slot at the back. *)
  <2>BeginAppends.
      ASSUME NEW w \in Watermarks, NEW point \in Points
      PROVE  /\ BeginTicket(w, point) \in Watermarks
             /\ BeginTicket(w, point).front = w.front
             /\ BeginTicket(w, point).applied = w.applied
             /\ Len(BeginTicket(w, point).pending) = Len(w.pending) + 1
             /\ \A k \in 1..Len(w.pending) : BeginTicket(w, point).pending[k] = w.pending[k]
             /\ BeginTicket(w, point).pending[Len(w.pending) + 1] = [point |-> point, done |-> FALSE]
    <3> USE <2>BeginAppends
    <3> DEFINE slot == [point |-> point, done |-> FALSE]
    <3>1. w.front \in Nat /\ w.pending \in Seq(Slots) /\ w.applied \in Points \cup {NoPoint}
      BY DEF Watermarks
    <3>2. slot \in Slots
      BY DEF Slots
    <3> HIDE DEF slot
    <3>4. /\ Append(w.pending, slot) \in Seq(Slots)
          /\ Len(Append(w.pending, slot)) = Len(w.pending) + 1
          /\ \A k \in 1..Len(w.pending) : Append(w.pending, slot)[k] = w.pending[k]
          /\ Append(w.pending, slot)[Len(w.pending) + 1] = slot
      BY SMT, <3>1, <3>2
    <3>5. /\ BeginTicket(w, point) \in Watermarks
          /\ BeginTicket(w, point).front = w.front /\ BeginTicket(w, point).applied = w.applied
          /\ BeginTicket(w, point).pending = Append(w.pending, slot)
      BY SMTT(30), <3>1, <3>4 DEF BeginTicket, Watermarks, slot
    <3> QED BY <3>4, <3>5 DEF slot
  <2>DispatchedFacts.
      ASSUME WellOrdered, IInv, Deliver
      PROVE  /\ mode = "stream" /\ conn.notice = "none" /\ Pending # {}
             /\ Dispatched \in Points /\ Index(Dispatched) = NextEvent
             /\ Dispatched.seq = SeqOf(NextEvent) /\ SeqOf(NextEvent) \in 0..MaxSeq
             /\ Current(base, Dispatched) /\ Names(base, SeqOf(NextEvent), NextEvent)
             /\ session.protocol = "v2" =>
                  /\ SeqOf(NextEvent) = NextEvent - base /\ SeqOf(NextEvent) # None
                  /\ EventIn(base, SeqOf(NextEvent)) = NextEvent
             /\ session.protocol # "v2" => SeqOf(NextEvent) = None
    <3> USE <2>DispatchedFacts
    <3>1. mode = "stream" /\ conn.notice = "none" /\ Pending # {}
      BY DEF Deliver
    <3>2. NextEvent \in 1..head /\ base < NextEvent /\ head \in 1..MaxEvents /\ base \in Bases(head)
          /\ 1..head \subseteq 1..MaxEvents /\ base \in Int
      BY <3>1, <1>NextEventFacts, IInvParts, ServerFacts
    <3>3. /\ NextEvent - base \in 1..MaxSeq /\ NextEvent - base # None
          /\ EventIn(base, NextEvent - base) = NextEvent
      BY <3>2, SeqNames
    <3>4. session.protocol = "v2" => SeqOf(NextEvent) = NextEvent - base
      BY DEF SeqOf
    <3>5. session.protocol # "v2" => SeqOf(NextEvent) = None
      BY DEF SeqOf
    <3>6. SeqOf(NextEvent) \in 0..MaxSeq
      <4>1. None \in 0..MaxSeq /\ NextEvent - base \in 0..MaxSeq
        BY SMT, <3>3, Constants
      <4> QED BY <3>4, <3>5, <4>1
    <3>7. Dispatched \in Points /\ Index(Dispatched) = NextEvent
      BY <3>2, <3>6, <1>PointMade DEF Dispatched
    <3>8. Dispatched.seq = SeqOf(NextEvent)
      BY DEF Dispatched
    <3>9. Current(base, Dispatched)
      <4>1. (NextEvent - base) + base = NextEvent
        BY SMT, <3>2
      <4> QED BY <3>4, <3>5, <3>7, <3>8, <4>1 DEF Current
    <3>10. Names(base, SeqOf(NextEvent), NextEvent)
      BY <3>3, <3>4, <3>5 DEF Names
    <3> QED BY <3>1, <3>3, <3>4, <3>5, <3>6, <3>7, <3>8, <3>9, <3>10
  <2>DeliverFields.
      ASSUME WellOrdered, IInv, Deliver
      PROVE  /\ conn' \in ConnType /\ conn'.pos = NextEvent + 1 /\ conn'.notice = "none"
             /\ conn'.floor = IF SeqOf(NextEvent) # None THEN SeqOf(NextEvent) ELSE conn.floor
             /\ conn'.filter = conn.filter /\ conn'.saved = conn.saved
             /\ conn'.ended = conn.ended
             /\ session' \in SessionType /\ session'.barrier = session.barrier
             /\ session'.protocol = session.protocol /\ session'.sent = session.sent
             /\ session'.from_tip = FALSE /\ session'.gap = NoGap
             /\ mode' = "stream"
             /\ last' = IF session.protocol = "v2" THEN SeqOf(NextEvent) ELSE last
             /\ last' \in 0..MaxSeq
             /\ wm' \in Watermarks /\ wm'.front = wm.front /\ wm'.applied = wm.applied
             /\ Len(wm'.pending) = Len(wm.pending) + 1 /\ Len(wm.pending) \in Nat
             /\ \A k \in 1..Len(wm.pending) : wm'.pending[k] = wm.pending[k]
             /\ wm'.pending[Len(wm.pending) + 1] = [point |-> Dispatched, done |-> FALSE]
             /\ FlushPoint' = FlushPoint
    <3> USE <2>DeliverFields
    <3>0. ProcessTyped /\ conn \in ConnType /\ session \in SessionType /\ wm \in Watermarks
      BY IInvParts DEF ProcessTyped
    <3>1. NextEvent + 1 \in Nat
      BY SMT, <2>DispatchedFacts, <1>NextEventFacts
    <3> DEFINE floor == IF SeqOf(NextEvent) # None THEN SeqOf(NextEvent) ELSE conn.floor
    <3>2. floor \in Nat
      <4>1. SeqOf(NextEvent) \in Nat
        BY SMT, <2>DispatchedFacts, Constants
      <4> QED BY <3>0, <4>1 DEF ConnType
    <3>3. /\ conn' = [conn EXCEPT !.pos = NextEvent + 1, !.floor = floor]
          /\ conn.notice = "none" /\ mode' = "stream"
          /\ session' = [session EXCEPT !.from_tip = FALSE, !.gap = NoGap]
          /\ wm' = BeginTicket(wm, Dispatched)
          /\ last' = IF SeqOf(NextEvent) # None THEN SeqOf(NextEvent) ELSE last
      BY DEF Deliver, Dispatched
    <3> HIDE DEF floor
    <3>4. /\ conn' \in ConnType /\ conn'.pos = NextEvent + 1 /\ conn'.notice = "none"
          /\ conn'.floor = floor /\ conn'.filter = conn.filter /\ conn'.saved = conn.saved
          /\ conn'.ended = conn.ended
      BY <3>0, <3>1, <3>2, <3>3 DEF ConnType
    <3>5. /\ session' \in SessionType /\ session'.barrier = session.barrier
          /\ session'.protocol = session.protocol /\ session'.sent = session.sent
          /\ session'.from_tip = FALSE /\ session'.gap = NoGap
      BY <3>0, <3>3, NoGapFacts DEF SessionType
    <3>6. last' = IF session.protocol = "v2" THEN SeqOf(NextEvent) ELSE last
      BY <3>3, <2>DispatchedFacts
    <3>7. last' \in 0..MaxSeq
      BY <3>0, <3>6, <2>DispatchedFacts DEF ProcessTyped
    <3>8. /\ wm' \in Watermarks /\ wm'.front = wm.front /\ wm'.applied = wm.applied
          /\ Len(wm'.pending) = Len(wm.pending) + 1
          /\ \A k \in 1..Len(wm.pending) : wm'.pending[k] = wm.pending[k]
          /\ wm'.pending[Len(wm.pending) + 1] = [point |-> Dispatched, done |-> FALSE]
      BY <3>0, <3>3, <2>DispatchedFacts, <2>BeginAppends
    <3>9. FlushPoint' = FlushPoint
      BY <3>5, <3>8 DEF FlushPoint, AppliedIfRetired, HasRetired
    <3>10. Len(wm.pending) \in Nat
      BY <3>0, WatermarkTyped
    <3> QED BY <3>3, <3>4, <3>5, <3>6, <3>7, <3>8, <3>9, <3>10 DEF floor
  (* The slots after a delivery are the slots before it and the new one.      *)
  <2>DeliverSlots.
      ASSUME WellOrdered, IInv, Deliver, NEW k \in 1..Len(wm'.pending)
      PROVE  \/ /\ k \in 1..Len(wm.pending) /\ wm'.pending[k] = wm.pending[k]
                /\ SlotIndex(wm', k) = SlotIndex(wm, k)
             \/ /\ k = Len(wm.pending) + 1 /\ SlotIndex(wm', k) = NextEvent
                /\ wm'.pending[k].point = Dispatched /\ wm'.pending[k].done = FALSE
    <3> USE <2>DeliverSlots
    <3>1. Len(wm'.pending) = Len(wm.pending) + 1 /\ Len(wm.pending) \in Nat
      BY <2>DeliverFields
    <3>2. k \in 1..Len(wm.pending) \/ k = Len(wm.pending) + 1
      BY SMT, <3>1
    <3>3. CASE k \in 1..Len(wm.pending)
      BY <3>3, <2>DeliverFields DEF SlotIndex
    <3>4. CASE k = Len(wm.pending) + 1
      <4>1. wm'.pending[k] = [point |-> Dispatched, done |-> FALSE]
        BY <3>4, <2>DeliverFields
      <4>2. wm'.pending[k].point = Dispatched /\ wm'.pending[k].done = FALSE
        BY SMTT(30), <4>1
      <4> QED BY <3>4, <4>2, <2>DispatchedFacts DEF SlotIndex
    <3> QED BY <3>2, <3>3, <3>4
  <2>DeliverKeepsIInv.
      ASSUME WellOrdered, IInv, Deliver
      PROVE  IInv'
    <3> USE <2>DeliverKeepsIInv
    <3>0. ServerTyped /\ ProcessTyped /\ DataTyped /\ Shape /\ Numbered /\ Positioned /\ Recent
      BY IInvParts
    <3>1. /\ mode = "stream" /\ mode' = "stream" /\ tracked' = tracked /\ told' = told /\ owed' = owed
      BY DEF Deliver
    <3>2. ReaderStep
      BY <3>0, <3>1, LeftStays DEF Deliver, ReaderStep, DataTyped
    <3>3. /\ NextEvent \in 1..head /\ base < NextEvent /\ head \in Nat /\ base \in Int
          /\ NextEvent <= head
      <4>1. NextEvent \in 1..head /\ base < NextEvent /\ head \in Nat /\ base \in Int
        BY <3>0, <2>DispatchedFacts, <1>NextEventFacts, ServerFacts
      <4> QED BY SMT, <4>1
    <3>4. ProcessTyped'
      BY <3>0, <3>1, <2>DeliverFields DEF ProcessTyped
    <3>5. Numbered'
      <4>1. last' # None => EventIn(base, last') \in 1..head
        BY <3>0, <3>3, <2>DeliverFields, <2>DispatchedFacts DEF Numbered
      <4>2. ASSUME NEW k \in 1..Len(wm'.pending)
            PROVE  SlotIndex(wm', k) <= head /\ Names(base, wm'.pending[k].point.seq, SlotIndex(wm', k))
        BY <3>0, <3>3, <2>DeliverSlots, <2>DispatchedFacts DEF Numbered
      <4>3. wm'.applied = wm.applied
        BY <2>DeliverFields
      <4> QED BY <3>0, <3>2, <4>1, <4>2, <4>3, <1>ReaderFrame DEF Numbered
    <3>6. Recent'
      <4>1. \A k : Counts(wm', session'.barrier, k) <=> Counts(wm, session.barrier, k)
        BY <2>DeliverFields DEF Counts
      <4>2. ASSUME told, NEW k \in 1..Len(wm'.pending), Counts(wm', session'.barrier, k)
            PROVE  Current(base, wm'.pending[k].point)
        BY <3>0, <4>1, <4>2, <2>DeliverSlots, <2>DispatchedFacts DEF Recent
      <4> QED BY <3>0, <3>1, <3>2, <4>2, <1>ReaderFrame, <2>DeliverFields DEF Recent
    <3>7. Shape'
      <4>1. session'.barrier <= NextTicket(wm')
        <5>1. wm'.front = wm.front /\ Len(wm'.pending) = Len(wm.pending) + 1
              /\ session'.barrier = session.barrier
          BY <2>DeliverFields
        <5>2. session.barrier <= NextTicket(wm) /\ session.barrier \in Nat \cup {NoTicket}
          BY <3>0 DEF Shape, ProcessTyped, SessionType
        <5>3. wm.front \in Nat /\ Len(wm.pending) \in Nat
          BY <3>0, WatermarkTyped DEF ProcessTyped
        <5> QED BY SMT, <5>1, <5>2, <5>3, Constants DEF NextTicket
      <4>2. session'.protocol = "v1" => last' = None
        BY <3>0, <2>DeliverFields DEF Shape
      <4> QED BY <3>0, <3>1, <3>2, <4>1, <4>2, <2>DeliverFields, <1>ReaderFrame DEF Shape
    <3>8. Positioned'
      <4>1. base < NextEvent + 1 /\ NextEvent + 1 >= 1 /\ NextEvent + 1 <= head + 1
            /\ (NextEvent - base) + base = NextEvent
        BY SMT, <3>3
      <4>2. conn'.floor # None => conn'.floor + base \in 1..head
        BY <3>0, <3>1, <3>3, <4>1, <2>DispatchedFacts, <2>DeliverFields DEF Positioned
      <4> QED BY <3>1, <3>2, <4>1, <4>2, <1>ReaderFrame, <2>DeliverFields DEF Positioned
    <3> QED BY <3>2, <3>4, <3>5, <3>6, <3>7, <3>8, <1>ReaderFrame DEF IInv, Typed
  <2>DeliverFrame.
      ASSUME WellOrdered, IInv, NEW o, Deliver
      PROVE  /\ ReaderStep /\ Grows(o) /\ Covered' = Covered /\ Wanted(o)' = Wanted(o)
             /\ done' = done /\ Accounted \subseteq Accounted' /\ gaps' \subseteq Accounted'
             /\ Accounted' \subseteq Handled' /\ InFlightEvents' \subseteq Handled'
             /\ Handled' \subseteq Streamed'
             /\ NextEvent \in 1..head /\ NextEvent \in Int /\ NextEvent - 1 \in Int
             /\ conn.pos \in Int /\ conn.pos <= NextEvent
             /\ \A i \in Wanted(o) : i \in Int /\ ~(conn.pos <= i /\ i < NextEvent)
    <3> USE <2>DeliverFrame
    <3>0. ServerTyped /\ DataTyped
      BY IInvParts
    <3>1. /\ mode = "stream" /\ told' = told /\ owed' = owed /\ done' = done /\ silent' = silent
          /\ gaps \subseteq gaps'
      BY DEF Deliver
    <3>2. ReaderStep
      BY <3>0, <3>1, LeftStays DEF Deliver, ReaderStep, DataTyped
    <3>3. Grows(o) /\ Covered' = Covered /\ Wanted(o)' = Wanted(o)
      <4>1. UNCHANGED <<server, tracked, stored, jobs, owed>>
        BY <3>2 DEF ReaderStep, database
      <4> QED BY <3>1, <4>1, HistoryGrows
    <3>4. /\ Accounted \subseteq Accounted' /\ gaps' \subseteq Accounted' /\ Accounted' \subseteq Handled'
          /\ InFlightEvents' \subseteq Handled' /\ Handled' \subseteq Streamed'
      BY <3>3 DEF Grows, Accounted, Handled, Streamed
    <3>5. /\ NextEvent \in 1..head /\ NextEvent \in Nat /\ conn.pos \in Nat /\ conn.pos <= NextEvent
          /\ \A i \in 1..head : conn.pos <= i /\ i < NextEvent => log[i] \notin tracked
      BY <3>1, <2>DispatchedFacts, <1>NextEventFacts
    <3>6. NextEvent \in Int /\ NextEvent - 1 \in Int /\ conn.pos \in Int
      BY SMT, <3>5
    <3>7. \A i \in Wanted(o) : i \in Int /\ ~(conn.pos <= i /\ i < NextEvent)
      BY <3>5, WantedTyped
    <3> QED BY <3>1, <3>2, <3>3, <3>4, <3>5, <3>6, <3>7
  (* Whatever of the subscription comes before the event dispatched is        *)
  (* accounted for, in flight, or in the gap logged with it.                  *)
  <2>DeliverReaches.
      ASSUME WellOrdered, IInv, NEW o, LosesNothing(o), Deliver
      PROVE  Reached(Wanted(o), Accounted' \cup InFlightEvents, NextEvent - 1)
    <3> USE <2>DeliverReaches
    <3>1. /\ \A i \in Wanted(o) : i \in Int /\ ~(conn.pos <= i /\ i < NextEvent)
          /\ conn.pos \in Int /\ NextEvent \in Int
          /\ Accounted \subseteq Accounted' /\ gaps' \subseteq Accounted'
      BY <2>DeliverFrame
    <3>2. Reached(Wanted(o), Streamed, conn.pos - 1)
      BY <2>DispatchedFacts DEF LosesNothing, Safe, StreamSafe
    <3> SUFFICES ASSUME NEW i \in Wanted(o), i <= NextEvent - 1
                 PROVE  i \in Accounted' \cup InFlightEvents
      BY DEF Reached
    <3>3. i \in Int /\ ~(conn.pos <= i /\ i < NextEvent)
      BY <3>1
    <3>4. i <= conn.pos - 1
      BY SMT, <3>1, <3>3
    <3>5. i \in Streamed
      BY <3>2, <3>4 DEF Reached
    <3>6. CASE i \in PendingGap
      <4>1. session.gap.pending /\ i \in (session.gap.after + 1)..MaxEvents
        BY <3>6 DEF PendingGap
      <4>2. session.gap.after \in Nat
        BY IInvParts DEF ProcessTyped, SessionType
      <4>3. i \in (session.gap.after + 1)..(NextEvent - 1)
        BY SMT, <3>1, <3>3, <4>1, <4>2, Constants
      <4>4. i \in gaps'
        BY <4>1, <4>3 DEF Deliver
      <4> QED BY <3>1, <4>4
    <3> QED BY <3>1, <3>5, <3>6 DEF Streamed, Handled
  (* The slots up to a slot, after a delivery. *)
  <2>DeliverSlotsTo.
      ASSUME WellOrdered, IInv, Deliver
      PROVE  /\ \A k \in 1..Len(wm.pending) : SlotsTo(wm, k) \subseteq SlotsTo(wm', k)
             /\ Len(wm.pending) + 1 \in 1..Len(wm'.pending)
             /\ InFlightEvents \cup {NextEvent} \subseteq SlotsTo(wm', Len(wm.pending) + 1)
             /\ InFlightEvents \cup {NextEvent} \subseteq InFlightEvents'
             /\ Len(wm'.pending) # 0
    <3> USE <2>DeliverSlotsTo
    <3> DEFINE m == Len(wm.pending) + 1
    <3>0. Len(wm'.pending) = m /\ Len(wm.pending) \in Nat
      BY <2>DeliverFields
    <3>1. /\ m \in 1..m /\ \A j \in 1..Len(wm.pending) : j \in 1..m
          /\ \A k \in 1..Len(wm.pending) : \A j \in 1..k : j \in 1..Len(wm.pending)
      BY SMT, <3>0
    <3>2. SlotIndex(wm', m) = NextEvent
      <4>1. m # Len(wm.pending) /\ m \notin 1..Len(wm.pending)
        BY SMT, <3>0
      <4> QED BY <3>0, <3>1, <4>1, <2>DeliverSlots
    <3>3. \A j \in 1..Len(wm.pending) : SlotIndex(wm', j) = SlotIndex(wm, j)
      BY <2>DeliverFields DEF SlotIndex
    <3>4. Len(wm'.pending) # 0
      BY SMT, <3>0
    <3> HIDE DEF m
    <3>5. \A k \in 1..Len(wm.pending) : SlotsTo(wm, k) \subseteq SlotsTo(wm', k)
      BY <3>1, <3>3 DEF SlotsTo
    <3>6. InFlightEvents = {SlotIndex(wm, j) : j \in 1..Len(wm.pending)}
      BY DEF InFlightEvents, SlotIndex, Index
    <3>7. InFlightEvents' = {SlotIndex(wm', j) : j \in 1..Len(wm'.pending)}
      BY DEF InFlightEvents, SlotIndex, Index
    <3>8. InFlightEvents \cup {NextEvent} \subseteq SlotsTo(wm', m)
      BY <3>1, <3>2, <3>3, <3>6 DEF SlotsTo
    <3>9. InFlightEvents' = SlotsTo(wm', m)
      BY <3>0, <3>7 DEF SlotsTo
    <3> QED BY <3>0, <3>1, <3>4, <3>5, <3>8, <3>9 DEF m
  <2>DeliverKeepsSlots.
      ASSUME WellOrdered, IInv, NEW o, LosesNothing(o), Deliver
      PROVE  /\ SlotSafe(o)'
             /\ Reached(Wanted(o)', Handled', NextEvent)
    <3> USE <2>DeliverKeepsSlots
    <3> DEFINE m == Len(wm.pending) + 1
    <3>0. SlotSafe(o)
      BY DEF LosesNothing, Safe
    <3>1. /\ Wanted(o)' = Wanted(o) /\ done' = done /\ Accounted \subseteq Accounted'
          /\ NextEvent \in Int /\ NextEvent - 1 \in Int /\ \A i \in Wanted(o) : i \in Int
          /\ Accounted' \subseteq Handled' /\ InFlightEvents' \subseteq Handled'
      BY <2>DeliverFrame
    <3>2. /\ \A k \in 1..Len(wm.pending) : SlotsTo(wm, k) \subseteq SlotsTo(wm', k)
          /\ InFlightEvents \cup {NextEvent} \subseteq SlotsTo(wm', m)
          /\ InFlightEvents \cup {NextEvent} \subseteq InFlightEvents'
      BY <2>DeliverSlotsTo
    <3>3. ASSUME NEW G, Accounted' \cup InFlightEvents \subseteq G, NextEvent \in G
          PROVE  Reached(Wanted(o), G, NextEvent)
      <4>1. Reached(Wanted(o), G, NextEvent - 1)
        BY <3>3, <2>DeliverReaches, ReachedMore
      <4>2. ASSUME NEW i \in Wanted(o), NextEvent - 1 < i, i <= NextEvent PROVE i \in G
        <5>1. i = NextEvent
          BY SMT, <3>1, <4>2
        <5> QED BY <3>3, <5>1
      <4> QED BY <3>1, <4>1, <4>2, ReachedUp
    <3> HIDE DEF m
    <3>4. Reached(Wanted(o)', Handled', NextEvent)
      <4>1. Accounted' \cup InFlightEvents \subseteq Handled' /\ NextEvent \in Handled'
        BY <3>1, <3>2
      <4> QED BY <3>1, <3>3, <4>1
    <3>5. Reached(Wanted(o)', Accounted' \cup SlotsTo(wm', m), NextEvent)
      <4>1. Accounted' \cup InFlightEvents \subseteq Accounted' \cup SlotsTo(wm', m)
            /\ NextEvent \in Accounted' \cup SlotsTo(wm', m)
        BY <3>2
      <4> QED BY <3>1, <3>3, <4>1
    <3>6. ASSUME NEW k \in 1..Len(wm'.pending)
          PROVE  /\ Reached(Wanted(o)', Accounted' \cup SlotsTo(wm', k), SlotIndex(wm', k))
                 /\ wm'.pending[k].done => SlotIndex(wm', k) \in done'
      <4>1. CASE /\ k \in 1..Len(wm.pending) /\ wm'.pending[k] = wm.pending[k]
                 /\ SlotIndex(wm', k) = SlotIndex(wm, k)
        <5>1. /\ Reached(Wanted(o), Accounted \cup SlotsTo(wm, k), SlotIndex(wm, k))
              /\ wm.pending[k].done => SlotIndex(wm, k) \in done
          BY <3>0, <4>1 DEF SlotSafe
        <5>2. Accounted \cup SlotsTo(wm, k) \subseteq Accounted' \cup SlotsTo(wm', k)
          BY <3>1, <3>2, <4>1
        <5>3. Reached(Wanted(o), Accounted' \cup SlotsTo(wm', k), SlotIndex(wm, k))
          BY <5>1, <5>2, ReachedMore
        <5> QED BY <3>1, <4>1, <5>1, <5>3
      <4>2. CASE k = m /\ SlotIndex(wm', k) = NextEvent /\ wm'.pending[k].done = FALSE
        BY <3>5, <4>2
      <4> QED BY <4>1, <4>2, <2>DeliverSlots DEF m
    <3> QED BY <3>4, <3>6 DEF SlotSafe
  <2>DeliverLosesNothing.
      ASSUME WellOrdered, IInv, Sound(setting), NEW o \in 0..head, LosesNothing(o), Deliver
      PROVE  LosesNothing(o)' /\ head' = head
    <3> USE <2>DeliverLosesNothing
    <3>0. /\ ServerTyped /\ SaveSafe(o) /\ GapSafe(o) /\ StreamSafe(o) /\ FreshSafe(o)
          /\ JobsReach /\ DrainsSettle
      BY IInvParts DEF LosesNothing, Safe
    <3>1. /\ setting' = setting /\ head' = head /\ base' = base /\ sealed' = sealed
          /\ stored' = stored /\ jobs' = jobs /\ SavedIndex' = SavedIndex /\ LeftFalls
          /\ mode = "stream" /\ mode' = "stream" /\ conn.notice = "none"
      BY <2>DeliverFrame, <1>ReaderFrame, <2>DeliverFields, <2>DispatchedFacts DEF ReaderStep
    <3>2. /\ Grows(o) /\ Handled' \subseteq Streamed' /\ SlotSafe(o)'
          /\ Reached(Wanted(o)', Handled', NextEvent) /\ FlushPoint' = FlushPoint
          /\ NextEvent \in 1..head /\ NextEvent \in Int /\ conn.pos \in Int /\ conn.pos <= NextEvent
      BY <2>DeliverFrame, <2>DeliverKeepsSlots, <2>DeliverFields
    <3>3. session.protocol \in {"v1", "v2"} /\ (session.protocol = "v1" => last = None)
          /\ (stored.time = None => session.protocol = "v2")
      BY IInvParts DEF ProcessTyped, SessionType, Shape, Sound
    <3>5. session.protocol = "v2" =>
            /\ last' # None /\ EventIn(base, last') = NextEvent /\ conn'.floor + base = NextEvent
      <4>1. session.protocol = "v2" =>
              /\ last' = NextEvent - base /\ last' # None /\ EventIn(base, last') = NextEvent
              /\ conn'.floor = NextEvent - base
        BY <2>DeliverFields, <2>DispatchedFacts
      <4>2. base \in Int
        BY <3>0, ServerFacts
      <4> QED BY SMT, <3>2, <4>1, <4>2
    <3>6. session.protocol = "v1" => last' = None /\ conn'.floor = None
      BY <3>0, <3>1, <3>3, <2>DeliverFields, <2>DispatchedFacts DEF StreamSafe
    <3>7. SaveSafe(o)'
      BY <3>0, <3>1, <3>2, SaveSafeKept
    <3>8. LastSafe(o)'
      BY <3>1, <3>2, <3>3, <3>5, <3>6 DEF LastSafe
    <3>9. GapSafe(o)'
      BY <2>DeliverFields, NoGapFacts DEF GapSafe
    <3>10. StreamSafe(o)'
      <4>1. conn'.pos - 1 = NextEvent
        BY SMT, <3>2, <2>DeliverFields
      <4>2. Reached(Wanted(o)', Streamed', NextEvent)
        BY <3>2, ReachedMore
      <4>3. conn'.notice = "none" /\ session'.protocol = session.protocol
        BY <2>DeliverFields
      <4> QED BY ZenonT(40), <3>1, <3>3, <3>5, <3>6, <4>1, <4>2, <4>3 DEF StreamSafe
    <3>11. FreshSafe(o)'
      <4> SUFFICES ASSUME stored.time = None
                   PROVE  FreshSafe(o)'
        BY <3>1 DEF FreshSafe
      <4>1. NextEvent >= o /\ conn'.pos >= o
        <5>1. conn.pos >= o /\ conn'.pos = NextEvent + 1
          BY <3>0, <3>1, <2>DeliverFields DEF FreshSafe
        <5> QED BY SMT, <3>2, <5>1
      <4>2. \A k : Counts(wm', session'.barrier, k) <=> Counts(wm, session.barrier, k)
        BY <2>DeliverFields DEF Counts
      <4>3. \A k \in 1..Len(wm'.pending) : Counts(wm', session'.barrier, k) => SlotIndex(wm', k) >= o
        BY <3>0, <4>1, <4>2, <2>DeliverSlots DEF FreshSafe
      <4>4. FlushPoint # NoPoint => Index(FlushPoint) >= o
        BY <3>0 DEF FreshSafe
      <4> QED BY <3>1, <3>2, <3>3, <3>5, <4>1, <4>3, <4>4 DEF FreshSafe
    <3>12. JobsReach'
      BY <3>0, <3>1, JobsReachKept
    <3>13. LastIsLatest'
      <4> SUFFICES ASSUME last' # None PROVE LastIsLatest'
        BY DEF LastIsLatest
      <4>1. EventIn(base, last') = NextEvent
        BY <3>3, <3>5, <3>6
      <4>2. /\ Len(wm'.pending) = Len(wm.pending) + 1 /\ wm'.front = wm.front
            /\ session'.barrier = session.barrier
        BY <2>DeliverFields
      <4>3. Len(wm'.pending) # 0 /\ SlotIndex(wm', Len(wm.pending) + 1) = NextEvent
        <5>1. Len(wm.pending) + 1 \notin 1..Len(wm.pending) /\ Len(wm.pending) \in Nat
          BY SMT, <2>DeliverFields
        <5> QED BY <5>1, <2>DeliverSlotsTo, <2>DeliverSlots
      <4>4. session'.barrier < NextTicket(wm')
        <5>1. session.barrier <= NextTicket(wm) /\ session.barrier \in Int
          BY IInvParts, BarrierTyped DEF Shape
        <5>2. wm.front \in Nat /\ Len(wm.pending) \in Nat
          BY IInvParts, WatermarkTyped DEF ProcessTyped
        <5> QED BY SMT, <4>2, <5>1, <5>2 DEF NextTicket
      <4> QED BY <3>1, <4>1, <4>2, <4>3, <4>4 DEF LastIsLatest
    <3>14. DrainsSettle'
      BY <3>1, <3>13, <2>DeliverFields, NoGapFacts DEF DrainsSettle
    <3> QED BY ZenonT(40), <3>1, <3>2, <3>7, <3>8, <3>9, <3>10, <3>11, <3>12, <3>14 DEF LosesNothing, Safe
  <2> QED BY <2>DeliverKeepsIInv, <2>DeliverLosesNothing DEF Carries
<1> QED BY <1>OutdatedSteps, <1>FutureSteps, <1>SkipSeenSteps, <1>DeliverSteps DEF Read

-----------------------------------------------------------------------------
(* Workers and the flush *)

(* r is w after slot k finished and n slots retired: each of those had      *)
(* finished or is k, and the others keep their points.                      *)
Retires(w, r, k, n) ==
    /\ r \in Watermarks
    /\ r.front = w.front + n /\ Len(r.pending) = Len(w.pending) - n
    /\ \A i \in 1..Len(r.pending) :
         /\ r.pending[i].point = w.pending[n + i].point
         /\ r.pending[i].done => w.pending[n + i].done \/ n + i = k
    /\ \A i \in 1..n : w.pending[i].done \/ i = k
    /\ r.applied = IF n = 0 THEN w.applied ELSE w.pending[n].point

(* Slot k of the watermark after n slots retired is slot n + k before.      *)
SlotMoved(w, r, slot, n, k) ==
    /\ n + k \in 1..Len(w.pending) /\ SlotIndex(r, k) = SlotIndex(w, n + k)
    /\ r.pending[k].point = w.pending[n + k].point
    /\ r.pending[k].done => w.pending[n + k].done \/ n + k = slot

FinishMoves(slot, n) ==
    /\ Retires(wm, wm', slot, n)
    /\ NextTicket(wm') = NextTicket(wm)
    /\ n = 0 => FlushPoint' = FlushPoint
    /\ n # 0 /\ FlushPoint' # NoPoint =>
         /\ n \in 1..Len(wm.pending) /\ Counts(wm, session.barrier, n)
         /\ FlushPoint' = wm.pending[n].point
    /\ n # 0 /\ Counts(wm, session.barrier, n) => FlushPoint' = wm.pending[n].point
    /\ FlushPoint # NoPoint => FlushPoint' # NoPoint

LEMMA FinishSteps ==
    WellOrdered /\ IInv =>
        \A slot \in 1..Len(wm.pending) : Finish(slot) => IInv' /\ Carries
(* The loop that pops finished slots stops at a well-defined place. *)
<1>FinishedRunExists.
    ASSUME WellOrdered, NEW pending, Len(pending) \in Nat
    PROVE  /\ FinishedRun(pending) \in 0..Len(pending)
           /\ \A i \in 1..FinishedRun(pending) : pending[i].done
  <2> USE <1>FinishedRunExists
  <2>1. \E n \in 0..Len(pending) : EndsFinishedRun(pending, n)
    <3>1. CASE \A i \in 1..Len(pending) : pending[i].done
      BY SMT, <3>1 DEF EndsFinishedRun
    <3>2. CASE \E i \in 1..Len(pending) : ~pending[i].done
      <4> DEFINE Open == {i \in 1..Len(pending) : ~pending[i].done}
      <4>1. Open \in SUBSET Nat /\ Open # {}
        BY SMT, <3>2
      <4>2. PICK m \in Open : \A k \in Open : m <= k
        BY <4>1 DEF WellOrdered
      <4>3. m - 1 \in 0..Len(pending) /\ EndsFinishedRun(pending, m - 1)
        BY SMT, <4>2 DEF EndsFinishedRun
      <4> QED BY <4>3
    <3> QED BY <3>1, <3>2
  <2> QED BY <2>1 DEF FinishedRun, EndsFinishedRun
<1>FinishRetires.
    ASSUME WellOrdered, NEW w \in Watermarks, NEW k \in 1..Len(w.pending)
    PROVE  \E n \in 0..Len(w.pending) : Retires(w, CompleteTicket(w, w.front + k - 1), k, n)
  <2> USE <1>FinishRetires
  <2> DEFINE p == w.pending
             L == Len(p)
             slot == [p[k] EXCEPT !.done = TRUE]
             marked == [p EXCEPT ![k] = slot]
             n == FinishedRun(marked)
             r == CompleteTicket(w, w.front + k - 1)
  <2>1. w.front \in Nat /\ p \in Seq(Slots) /\ L \in Nat /\ w.applied \in Points \cup {NoPoint}
        /\ \A i \in 1..L : p[i] \in Slots
    BY WatermarkTyped
  <2>2. slot \in Slots /\ slot.done = TRUE /\ slot.point = p[k].point
    BY <2>1 DEF Slots
  <2>3. w.front + k - 1 \in w.front..(w.front + L - 1) /\ (w.front + k - 1) - w.front + 1 = k
    BY SMT, <2>1
  <2>4. ASSUME NEW t \in w.front..(NextTicket(w) - 1), NEW e, e = t - w.front + 1
        PROVE  LET m == [p EXCEPT ![e] = [p[e] EXCEPT !.done = TRUE]]
               IN  CompleteTicket(w, t)
                     = [front   |-> w.front + FinishedRun(m),
                        pending |-> SubSeq(m, FinishedRun(m) + 1, Len(m)),
                        applied |-> IF FinishedRun(m) = 0 THEN w.applied
                                    ELSE m[FinishedRun(m)].point]
    BY SMT, <2>1, <2>4 DEF CompleteTicket, Retire, Watermarks
  <2>5. w.front + k - 1 \in w.front..(NextTicket(w) - 1)
    BY SMT, <2>1, <2>3 DEF NextTicket
  <2>6. r = [front |-> w.front + n, pending |-> SubSeq(marked, n + 1, Len(marked)),
             applied |-> IF n = 0 THEN w.applied ELSE marked[n].point]
    BY <2>3, <2>4, <2>5
  <2> HIDE DEF r, n
  <2>7. /\ marked \in Seq(Slots) /\ Len(marked) = L
        /\ \A i \in 1..L : marked[i] = IF i = k THEN slot ELSE p[i]
    <3>1. p \in [1..L -> Slots]
      BY SMT, <2>1
    <3>2. /\ marked \in [1..L -> Slots]
          /\ \A i \in 1..L : marked[i] = IF i = k THEN slot ELSE p[i]
      BY <2>2, <3>1
    <3> HIDE DEF slot, p, L, marked
    <3>3. marked \in Seq(Slots) /\ Len(marked) = L
      BY SMT, <2>1, <3>2
    <3> QED BY <3>2, <3>3
  <2> HIDE DEF marked
  <2>8. n \in 0..L /\ \A i \in 1..n : marked[i].done
    BY <2>1, <2>7, <1>FinishedRunExists DEF n
  <2>9. /\ SubSeq(marked, n + 1, L) \in Seq(Slots)
        /\ Len(SubSeq(marked, n + 1, L)) = L - n
        /\ \A i \in 1..(L - n) : SubSeq(marked, n + 1, L)[i] = marked[n + i]
    <3> HIDE DEF p
    <3>1. n \in Nat /\ L \in Nat /\ n <= L
      BY SMT, <2>1, <2>8
    <3> HIDE DEF L
    <3> QED BY SMTT(30), <2>7, <3>1
  <2>10. \A i \in 1..(L - n) : n + i \in 1..L
    BY SMT, <2>1, <2>8
  <2>11. n # 0 => n \in 1..L /\ marked[n] \in Slots /\ marked[n].point = p[n].point
    <3>1. n # 0 => n \in 1..L
      BY SMT, <2>1, <2>8
    <3> QED BY <3>1, <2>1, <2>2, <2>7
  <2>12. r.front = w.front + n /\ r.pending = SubSeq(marked, n + 1, L)
         /\ r.applied = IF n = 0 THEN w.applied ELSE marked[n].point
    BY <2>6, <2>7
  <2>13. r \in Watermarks
    <3>1. w.front + n \in Nat
      BY SMT, <2>1, <2>8
    <3>2. r.applied \in Points \cup {NoPoint}
      BY <2>1, <2>11, <2>12 DEF Slots
    <3> QED BY <2>6, <2>9, <2>12, <3>1, <3>2, <2>7 DEF Watermarks
  <2>14. \A i \in 1..(L - n) :
           /\ r.pending[i].point = p[n + i].point
           /\ r.pending[i].done => p[n + i].done \/ n + i = k
    BY <2>2, <2>7, <2>9, <2>10, <2>12
  <2>15. \A i \in 1..n : p[i].done \/ i = k
    <3>1. \A i \in 1..n : i \in 1..L
      BY SMT, <2>1, <2>8
    <3> QED BY <2>7, <2>8, <3>1
  <2>16. r.applied = IF n = 0 THEN w.applied ELSE p[n].point
    BY <2>11, <2>12
  <2>17. Retires(w, r, k, n)
    BY <2>9, <2>12, <2>13, <2>14, <2>15, <2>16 DEF Retires
  <2> QED BY <2>8, <2>17 DEF r
<1>SlotMoves.
    ASSUME NEW w \in Watermarks, NEW r, NEW slot, NEW n \in 0..Len(w.pending),
           Retires(w, r, slot, n)
    PROVE  \A k \in 1..Len(r.pending) :
               /\ SlotMoved(w, r, slot, n, k)
               /\ \A b \in Int : Counts(r, b, k) <=> Counts(w, b, n + k)
  <2> USE <1>SlotMoves
  <2> TAKE k \in 1..Len(r.pending)
  <2>1. r.front = w.front + n /\ Len(r.pending) = Len(w.pending) - n
    BY DEF Retires
  <2>2. w.front \in Nat /\ Len(w.pending) \in Nat
    BY WatermarkTyped
  <2>3. n + k \in 1..Len(w.pending)
    BY SMT, <2>1, <2>2
  <2>4. r.pending[k].point = w.pending[n + k].point
    BY DEF Retires
  <2>5. r.pending[k].done => w.pending[n + k].done \/ n + k = slot
    BY DEF Retires
  <2>6. \A b \in Int : Counts(r, b, k) <=> Counts(w, b, n + k)
    BY SMT, <2>1, <2>2 DEF Counts
  <2> QED BY <2>3, <2>4, <2>5, <2>6 DEF SlotIndex, SlotMoved
<1>FinishFacts.
    ASSUME WellOrdered, IInv, NEW slot \in 1..Len(wm.pending), Finish(slot)
    PROVE  \E n \in 0..Len(wm.pending) : FinishMoves(slot, n)
  <2> USE <1>FinishFacts
  <2>0. wm \in Watermarks /\ session.barrier \in Int /\ session' = session
    <3>1. wm \in Watermarks /\ session.barrier \in Nat \cup {NoTicket}
      BY IInvParts DEF ProcessTyped, SessionType
    <3>2. session' = session
      BY DEF Finish
    <3> QED BY SMT, <3>1, <3>2, Constants
  <2>1. wm' = CompleteTicket(wm, wm.front + slot - 1)
    BY DEF Finish
  <2>2. PICK n \in 0..Len(wm.pending) : Retires(wm, wm', slot, n)
    BY <2>0, <2>1, <1>FinishRetires
  <2>3. /\ wm'.front = wm.front + n /\ Len(wm'.pending) = Len(wm.pending) - n
        /\ wm'.applied = IF n = 0 THEN wm.applied ELSE wm.pending[n].point
    BY <2>2 DEF Retires
  <2>4. wm.front \in Nat /\ Len(wm.pending) \in Nat /\ n \in Nat
    <3>1. wm.front \in Nat /\ Len(wm.pending) \in Nat
      BY <2>0, WatermarkTyped
    <3> QED BY SMT, <3>1
  <2>5. NextTicket(wm') = NextTicket(wm)
    BY SMT, <2>3, <2>4 DEF NextTicket
  <2>6. n = 0 => FlushPoint' = FlushPoint
    <3>1. n = 0 => wm'.front = wm.front
      BY SMT, <2>3, <2>4
    <3> QED BY <2>0, <2>3, <3>1 DEF FlushPoint, AppliedIfRetired, HasRetired
  <2>7. ASSUME n # 0
        PROVE  /\ n \in 1..Len(wm.pending)
               /\ HasRetired(wm', session.barrier) \/ session.barrier = NoTicket
                    <=> Counts(wm, session.barrier, n)
               /\ HasRetired(wm, session.barrier) => HasRetired(wm', session.barrier)
    BY SMTT(30), <2>0, <2>3, <2>4, <2>7 DEF Counts, HasRetired
  <2>8. n # 0 => wm.pending[n].point \in Points /\ wm.pending[n].point # NoPoint
    BY <2>0, <2>7, WatermarkTyped, PointTyped
  <2>9. FlushPoint' = IF session.barrier # NoTicket
                      THEN IF HasRetired(wm', session.barrier) THEN wm'.applied ELSE NoPoint
                      ELSE wm'.applied
    BY <2>0 DEF FlushPoint, AppliedIfRetired
  <2>10. FlushPoint = IF session.barrier # NoTicket
                      THEN IF HasRetired(wm, session.barrier) THEN wm.applied ELSE NoPoint
                      ELSE wm.applied
    BY DEF FlushPoint, AppliedIfRetired
  <2>11. n # 0 /\ FlushPoint' # NoPoint =>
           /\ n \in 1..Len(wm.pending) /\ Counts(wm, session.barrier, n)
           /\ FlushPoint' = wm.pending[n].point
    BY <2>3, <2>7, <2>9
  <2>12. n # 0 /\ Counts(wm, session.barrier, n) => FlushPoint' = wm.pending[n].point
    BY <2>3, <2>7, <2>9
  <2>13. FlushPoint # NoPoint => FlushPoint' # NoPoint
    BY <2>3, <2>6, <2>7, <2>8, <2>9, <2>10
  <2>14. FinishMoves(slot, n)
    BY <2>2, <2>5, <2>6, <2>11, <2>12, <2>13 DEF FinishMoves
  <2> QED BY <2>14
<1>FinishKeepsIInv.
    ASSUME WellOrdered, IInv, NEW slot \in 1..Len(wm.pending), Finish(slot)
    PROVE  IInv'
  <2> USE <1>FinishKeepsIInv
  <2>0. ServerTyped /\ ProcessTyped /\ DataTyped /\ Shape /\ Numbered /\ Positioned /\ Recent
    BY IInvParts
  <2>1. /\ UNCHANGED <<setting, server, mode, session, last, tracked, conn, database>>
        /\ owed' = owed /\ told' = told /\ mode # "down" /\ left' = left
    BY DEF Finish
  <2>2. PICK n \in 0..Len(wm.pending) : FinishMoves(slot, n)
    BY <1>FinishFacts
  <2>3. Retires(wm, wm', slot, n) /\ NextTicket(wm') = NextTicket(wm)
    BY <2>2 DEF FinishMoves
  <2>4. wm \in Watermarks /\ wm' \in Watermarks /\ session.barrier \in Int
    BY <2>0, <2>3, BarrierTyped DEF ProcessTyped, Retires
  <2>12. \A k \in 1..Len(wm'.pending) :
             /\ SlotMoved(wm, wm', slot, n, k)
             /\ \A b \in Int : Counts(wm', b, k) <=> Counts(wm, b, n + k)
    BY <2>3, <2>4, <1>SlotMoves
  <2>5. ServerTyped' /\ head' = head /\ base' = base /\ host' = host /\ log' = log
    BY <2>0, <2>1, LeftStays, ServerKept
  <2>6. DataTyped' /\ stored' = stored /\ SavedIndex' = SavedIndex
    <3>1. host \in Nat /\ host <= host /\ head \in Nat /\ head <= head
      BY SMT, <2>0, ServerFacts
    <3> QED BY <2>0, <2>1, <2>5, <3>1, DataKept DEF DataTyped
  <2>7. ProcessTyped'
    BY <2>0, <2>1, <2>4 DEF ProcessTyped
  <2>8. Shape'
    BY <2>0, <2>1, <2>3, <2>6 DEF Shape
  <2>9. Numbered'
    <3>1. ASSUME NEW k \in 1..Len(wm'.pending)
          PROVE  SlotIndex(wm', k) <= head /\ Names(base, wm'.pending[k].point.seq, SlotIndex(wm', k))
      <4>1. /\ n + k \in 1..Len(wm.pending) /\ SlotIndex(wm', k) = SlotIndex(wm, n + k)
            /\ wm'.pending[k].point = wm.pending[n + k].point
        BY <2>12 DEF SlotMoved
      <4> QED BY <2>0, <4>1 DEF Numbered
    <3>2. wm'.applied # NoPoint =>
             Index(wm'.applied) <= head /\ Names(base, wm'.applied.seq, Index(wm'.applied))
      <4>1. wm'.applied = IF n = 0 THEN wm.applied ELSE wm.pending[n].point
        BY <2>3 DEF Retires
      <4>2. CASE n = 0
        BY <2>0, <4>1, <4>2 DEF Numbered
      <4>3. CASE n # 0
        <5>1. n \in 1..Len(wm.pending)
          <6>1. Len(wm.pending) \in Nat
            BY <2>4, WatermarkTyped
          <6> QED BY SMT, <4>3, <6>1
        <5> QED BY <2>0, <4>1, <4>3, <5>1 DEF Numbered, SlotIndex
      <4> QED BY <4>2, <4>3
    <3> QED BY <2>0, <2>1, <2>5, <2>6, <3>1, <3>2 DEF Numbered
  <2>10. Positioned'
    BY <2>0, <2>1, <2>5 DEF Positioned
  <2>11. Recent'
    <3>1. ASSUME told, FlushPoint' # NoPoint
          PROVE  Current(base, FlushPoint')
      <4>1. CASE n = 0
        BY <2>0, <2>2, <3>1, <4>1 DEF FinishMoves, Recent
      <4>2. CASE n # 0
        BY <2>0, <2>2, <3>1, <4>2 DEF FinishMoves, Recent
      <4> QED BY <4>1, <4>2
    <3>2. ASSUME told, NEW k \in 1..Len(wm'.pending), Counts(wm', session.barrier, k)
          PROVE  Current(base, wm'.pending[k].point)
      <4>1. /\ n + k \in 1..Len(wm.pending) /\ Counts(wm, session.barrier, n + k)
            /\ wm'.pending[k].point = wm.pending[n + k].point
        BY <2>4, <2>12, <3>2 DEF SlotMoved
      <4> QED BY <2>0, <3>2, <4>1 DEF Recent
    <3> QED BY <2>1, <2>5, <3>1, <3>2 DEF Recent
  <2> QED BY <2>5, <2>6, <2>7, <2>8, <2>9, <2>10, <2>11 DEF IInv, Typed
(* The events of the slots that retire are done, and the others stay in     *)
(* flight.                                                                  *)
<1>FinishSlotsTo.
    ASSUME IInv, NEW o, SlotSafe(o), NEW slot \in 1..Len(wm.pending), Finish(slot),
           NEW n \in 0..Len(wm.pending), FinishMoves(slot, n)
    PROVE  /\ done \subseteq done' /\ SlotsTo(wm, n) \subseteq done'
           /\ \A k \in 1..Len(wm'.pending) :
                /\ SlotsTo(wm, n + k) \subseteq done' \cup SlotsTo(wm', k)
                /\ wm'.pending[k].done => SlotIndex(wm', k) \in done'
           /\ InFlightEvents \subseteq done' \cup InFlightEvents'
  <2> USE <1>FinishSlotsTo
  <2>0. wm \in Watermarks /\ Retires(wm, wm', slot, n)
    BY IInvParts DEF ProcessTyped, FinishMoves
  <2>1. done' = done \cup {SlotIndex(wm, slot)}
    BY DEF Finish, SlotIndex, Index
  <2>2. Len(wm.pending) \in Nat /\ Len(wm'.pending) = Len(wm.pending) - n
    BY <2>0, WatermarkTyped DEF Retires
  <2>3. \A k \in 1..Len(wm'.pending) : SlotMoved(wm, wm', slot, n, k)
    BY <2>0, <1>SlotMoves
  <2>4. \A i \in 1..n : SlotIndex(wm, i) \in done'
    <3>1. \A i \in 1..n : i \in 1..Len(wm.pending)
      BY SMT, <2>2
    <3>2. \A i \in 1..n : wm.pending[i].done \/ i = slot
      BY <2>0 DEF Retires
    <3> QED BY <2>1, <3>1, <3>2 DEF SlotSafe
  <2>5. ASSUME NEW j \in 1..Len(wm.pending), j \notin 1..n
        PROVE  /\ j - n \in 1..Len(wm'.pending) /\ n + (j - n) = j
               /\ SlotIndex(wm', j - n) = SlotIndex(wm, j)
    <3>1. j - n \in 1..Len(wm'.pending) /\ n + (j - n) = j
      BY SMT, <2>2, <2>5
    <3> QED BY <2>3, <3>1 DEF SlotMoved
  <2>6. ASSUME NEW k \in 1..Len(wm'.pending), NEW j \in 1..(n + k)
        PROVE  SlotIndex(wm, j) \in done' \cup SlotsTo(wm', k)
    <3>1. CASE j \in 1..n
      BY <2>4, <3>1
    <3>2. CASE j \notin 1..n
      <4>1. j \in 1..Len(wm.pending) /\ j - n \in 1..k
        BY SMT, <2>2, <3>2
      <4> QED BY <2>5, <3>2, <4>1 DEF SlotsTo
    <3> QED BY <3>1, <3>2
  <2>7. ASSUME NEW k \in 1..Len(wm'.pending), wm'.pending[k].done
        PROVE  SlotIndex(wm', k) \in done'
    BY <2>1, <2>3, <2>7 DEF SlotMoved, SlotSafe
  <2>8. InFlightEvents = {SlotIndex(wm, j) : j \in 1..Len(wm.pending)}
        /\ InFlightEvents' = {SlotIndex(wm', j) : j \in 1..Len(wm'.pending)}
    BY DEF InFlightEvents, SlotIndex, Index
  <2>9. InFlightEvents \subseteq done' \cup InFlightEvents'
    <3> SUFFICES ASSUME NEW j \in 1..Len(wm.pending)
                 PROVE  SlotIndex(wm, j) \in done' \cup InFlightEvents'
      BY <2>8
    <3>1. CASE j \in 1..n
      BY <2>4, <3>1
    <3>2. CASE j \notin 1..n
      <4>1. j - n \in 1..Len(wm'.pending) /\ SlotIndex(wm', j - n) = SlotIndex(wm, j)
        BY <2>5, <3>2
      <4> QED BY <2>8, <4>1
    <3> QED BY <3>1, <3>2
  <2>10. SlotsTo(wm, n) \subseteq done' /\ done \subseteq done'
    BY <2>1, <2>4 DEF SlotsTo
  <2>11. \A k \in 1..Len(wm'.pending) : SlotsTo(wm, n + k) \subseteq done' \cup SlotsTo(wm', k)
    BY <2>6 DEF SlotsTo
  <2> QED BY <2>7, <2>9, <2>10, <2>11
<1>FinishKeepsSafe.
    ASSUME IInv, NEW o, Safe(o), NEW slot \in 1..Len(wm.pending), Finish(slot),
           NEW n \in 0..Len(wm.pending), FinishMoves(slot, n)
    PROVE  SaveSafe(o)' /\ SlotSafe(o)' /\ LastSafe(o)' /\ GapSafe(o)' /\ StreamSafe(o)'
  <2> USE <1>FinishKeepsSafe
  <2>0. /\ ServerTyped /\ SaveSafe(o) /\ SlotSafe(o) /\ LastSafe(o) /\ GapSafe(o) /\ StreamSafe(o)
        /\ wm \in Watermarks /\ head \in Nat
    BY IInvParts, ServerFacts DEF Safe, ProcessTyped
  <2>1. /\ UNCHANGED <<server, tracked, stored, jobs, owed, gaps, silent, session, last, mode, conn>>
        /\ base' = base /\ head' = head
    BY DEF Finish, database, server, head
  <2>2. /\ done \subseteq done' /\ SlotsTo(wm, n) \subseteq done'
        /\ \A k \in 1..Len(wm'.pending) :
             /\ SlotsTo(wm, n + k) \subseteq done' \cup SlotsTo(wm', k)
             /\ wm'.pending[k].done => SlotIndex(wm', k) \in done'
        /\ InFlightEvents \subseteq done' \cup InFlightEvents'
    BY <2>0, <1>FinishSlotsTo
  <2>3. Grows(o) /\ Wanted(o)' = Wanted(o)
    BY <2>1, <2>2, HistoryGrows
  <2>4. Accounted \subseteq Accounted' /\ done' \subseteq Accounted' /\ SavedIndex' = SavedIndex
    BY <2>1, <2>3 DEF Grows, Accounted, SavedIndex
  <2>5. Handled \subseteq Handled' /\ Streamed \subseteq Streamed'
    <3>1. PendingGap' = PendingGap
      BY <2>1 DEF PendingGap
    <3> QED BY <2>2, <2>4, <3>1 DEF Handled, Streamed
  <2>6. SaveSafe(o)'
    <3>1. CASE n = 0
      BY <2>0, <2>3, <2>4, <3>1, SaveSafeKept DEF FinishMoves
    <3>2. CASE n # 0
      <4>1. Reached(Wanted(o)', Accounted', SavedIndex')
        BY <2>0, <2>3, <2>4, ReachedMore DEF SaveSafe
      <4>2. ASSUME FlushPoint' # NoPoint
            PROVE  Reached(Wanted(o)', Accounted', Index(FlushPoint'))
        <5>1. n \in 1..Len(wm.pending) /\ Index(FlushPoint') = SlotIndex(wm, n)
          BY <3>2, <4>2 DEF FinishMoves, SlotIndex
        <5>2. Reached(Wanted(o), Accounted \cup SlotsTo(wm, n), SlotIndex(wm, n))
          BY <2>0, <5>1 DEF SlotSafe
        <5>3. Accounted \cup SlotsTo(wm, n) \subseteq Accounted'
          BY <2>2, <2>4
        <5> QED BY <2>3, <5>1, <5>2, <5>3, ReachedMore
      <4> QED BY <4>1, <4>2 DEF SaveSafe
    <3> QED BY <3>1, <3>2
  <2>7. SlotSafe(o)'
    <3>0. Retires(wm, wm', slot, n)
      BY DEF FinishMoves
    <3>2. \A k \in 1..Len(wm'.pending) :
             /\ SlotMoved(wm, wm', slot, n, k)
             /\ \A b \in Int : Counts(wm', b, k) <=> Counts(wm, b, n + k)
      BY <2>0, <3>0, <1>SlotMoves
    <3>1. ASSUME NEW k \in 1..Len(wm'.pending)
          PROVE  Reached(Wanted(o)', Accounted' \cup SlotsTo(wm', k), SlotIndex(wm', k))
      <4>1. n + k \in 1..Len(wm.pending) /\ SlotIndex(wm', k) = SlotIndex(wm, n + k)
        BY <3>2 DEF SlotMoved
      <4>2. Reached(Wanted(o), Accounted \cup SlotsTo(wm, n + k), SlotIndex(wm, n + k))
        BY <2>0, <4>1 DEF SlotSafe
      <4>3. Accounted \cup SlotsTo(wm, n + k) \subseteq Accounted' \cup SlotsTo(wm', k)
        BY <2>2, <2>4
      <4> QED BY <2>3, <4>1, <4>2, <4>3, ReachedMore
    <3> QED BY <2>2, <3>1 DEF SlotSafe
  <2>8. LastSafe(o)'
    BY <2>0, <2>1, <2>3, <2>5, LastSafeKept
  <2>9. GapSafe(o)'
    <3>1. head <= head /\ (session.from_tip => session.gap.pending)
          /\ (session.gap.pending => last = None)
      BY SMT, <2>0 DEF GapSafe
    <3> QED BY <2>0, <2>1, <2>3, <3>1, GapSafeKept
  <2>10. StreamSafe(o)'
    BY <2>0, <2>1, <2>3, <2>5, StreamSafeKept
  <2> QED BY <2>6, <2>7, <2>8, <2>9, <2>10
<1>FinishKeepsFresh.
    ASSUME IInv, NEW o, FreshSafe(o), NEW slot \in 1..Len(wm.pending), Finish(slot),
           NEW n \in 0..Len(wm.pending), FinishMoves(slot, n)
    PROVE  FreshSafe(o)'
  <2> USE <1>FinishKeepsFresh
  <2> SUFFICES ASSUME stored.time = None PROVE FreshSafe(o)'
    BY DEF FreshSafe, Finish, database
  <2>1. /\ stored' = stored /\ session' = session /\ last' = last /\ mode' = mode /\ conn' = conn
        /\ base' = base
    BY DEF Finish, database, server
  <2>2. wm \in Watermarks /\ session.barrier \in Int
    BY IInvParts, BarrierTyped DEF ProcessTyped
  <2>9. Retires(wm, wm', slot, n)
    BY DEF FinishMoves
  <2>10. \A k \in 1..Len(wm'.pending) :
           /\ SlotMoved(wm, wm', slot, n, k)
           /\ \A b \in Int : Counts(wm', b, k) <=> Counts(wm, b, n + k)
    BY <2>2, <2>9, <1>SlotMoves
  <2>3. \A k \in 1..Len(wm'.pending) :
          /\ n + k \in 1..Len(wm.pending) /\ SlotIndex(wm', k) = SlotIndex(wm, n + k)
          /\ Counts(wm', session.barrier, k) <=> Counts(wm, session.barrier, n + k)
    BY <2>2, <2>10 DEF SlotMoved
  <2>4. FlushPoint' # NoPoint =>
          \/ FlushPoint' = FlushPoint
          \/ /\ n \in 1..Len(wm.pending) /\ Counts(wm, session.barrier, n)
             /\ Index(FlushPoint') = SlotIndex(wm, n)
    BY DEF FinishMoves, SlotIndex
  <2>5. \A k \in 1..Len(wm'.pending) : Counts(wm', session.barrier, k) => SlotIndex(wm', k) >= o
    BY <2>3 DEF FreshSafe
  <2>6. FlushPoint' # NoPoint => Index(FlushPoint') >= o
    BY <2>4 DEF FreshSafe
  <2>7. last = None /\ ~session.gap.pending =>
          /\ FlushPoint' = NoPoint
          /\ \A k \in 1..Len(wm'.pending) : ~Counts(wm', session.barrier, k)
    BY <2>3, <2>4 DEF FreshSafe
  <2>8. (last # None => EventIn(base, last) >= o) /\ (mode = "stream" => conn.pos >= o)
    BY DEF FreshSafe
  <2> QED BY <2>1, <2>5, <2>6, <2>7, <2>8 DEF FreshSafe
(* Where a collection may be tracked, the event dispatched last is still    *)
(* the last one to be saved.                                                *)
<1>FinishKeepsDrains.
    ASSUME IInv, DrainsSettle, NEW slot \in 1..Len(wm.pending), Finish(slot),
           NEW n \in 0..Len(wm.pending), FinishMoves(slot, n)
    PROVE  DrainsSettle'
  <2> USE <1>FinishKeepsDrains
  <2> SUFFICES ASSUME setting.budget["track"] > 0 PROVE DrainsSettle'
    BY DEF DrainsSettle, Finish
  <2>1. session' = session /\ last' = last /\ mode' = mode /\ base' = base
    BY DEF Finish, server
  <2>2. wm \in Watermarks /\ session.barrier \in Int /\ Retires(wm, wm', slot, n)
        /\ NextTicket(wm') = NextTicket(wm)
    BY IInvParts, BarrierTyped DEF ProcessTyped, FinishMoves
  <2>3. /\ Len(wm.pending) \in Nat /\ wm.front \in Nat
        /\ Len(wm'.pending) = Len(wm.pending) - n
    BY <2>2, WatermarkTyped DEF Retires
  <2>4. Len(wm.pending) # 0
    BY SMT, <2>3
  <2>5. ~Settled
    BY <2>4 DEF Settled
  <2>6. LastIsLatest'
    <3> SUFFICES ASSUME last # None PROVE LastIsLatest'
      BY <2>1 DEF LastIsLatest
    <3>1. /\ SlotIndex(wm, Len(wm.pending)) = EventIn(base, last)
          /\ session.barrier < NextTicket(wm)
      BY <2>4, <2>5 DEF DrainsSettle, LastIsLatest
    <3>2. CASE Len(wm'.pending) = 0
      <4>1. n = Len(wm.pending) /\ n # 0
        BY SMT, <2>3, <2>4, <3>2
      <4>2. Counts(wm, session.barrier, n)
        BY SMT, <2>2, <2>3, <3>1, <4>1 DEF Counts, NextTicket
      <4>3. FlushPoint' = wm.pending[n].point
        BY <4>1, <4>2 DEF FinishMoves
      <4>4. FlushPoint' # NoPoint
        <5>1. n \in 1..Len(wm.pending)
          BY SMT, <4>1, <2>3
        <5> QED BY <2>2, <4>3, <5>1, WatermarkTyped, PointTyped
      <4> QED BY <2>1, <3>1, <3>2, <4>1, <4>3, <4>4 DEF LastIsLatest, SlotIndex
    <3>3. CASE Len(wm'.pending) # 0
      <4>1. Len(wm'.pending) \in 1..Len(wm'.pending) /\ n + Len(wm'.pending) = Len(wm.pending)
        BY SMT, <2>3, <3>3
      <4>2. SlotIndex(wm', Len(wm'.pending)) = SlotIndex(wm, Len(wm.pending))
        <5>1. \A k \in 1..Len(wm'.pending) :
                /\ SlotMoved(wm, wm', slot, n, k)
                /\ \A b \in Int : Counts(wm', b, k) <=> Counts(wm, b, n + k)
          BY <2>2, <1>SlotMoves
        <5> QED BY <4>1, <5>1 DEF SlotMoved
      <4> QED BY <2>1, <2>2, <3>1, <3>3, <4>2 DEF LastIsLatest
    <3> QED BY <3>2, <3>3
  <2> QED BY <2>1, <2>5, <2>6 DEF DrainsSettle
<1>FinishLosesNothing.
    ASSUME WellOrdered, IInv, NEW o \in 0..head, LosesNothing(o),
           NEW slot \in 1..Len(wm.pending), Finish(slot)
    PROVE  LosesNothing(o)' /\ head' = head
  <2> USE <1>FinishLosesNothing
  <2>1. PICK n \in 0..Len(wm.pending) : FinishMoves(slot, n)
    BY <1>FinishFacts
  <2>2. ServerTyped /\ Safe(o) /\ FreshSafe(o) /\ JobsReach /\ DrainsSettle
    BY IInvParts DEF LosesNothing, Safe
  <2>3. /\ setting' = setting /\ jobs' = jobs /\ base' = base /\ sealed' = sealed /\ left' = left
        /\ head' = head
    BY DEF Finish, database, server, head
  <2>4. JobsReach'
    BY <2>2, <2>3, LeftStays, JobsReachKept
  <2>5. Safe(o)'
    BY <2>1, <2>2, <1>FinishKeepsSafe, <1>FinishKeepsFresh DEF Safe
  <2>6. DrainsSettle'
    BY <2>1, <2>2, <1>FinishKeepsDrains
  <2> QED BY <2>3, <2>4, <2>5, <2>6 DEF LosesNothing
<1> QED BY <1>FinishKeepsIInv, <1>FinishLosesNothing DEF Carries

(* Everything dispatched is saved: what becomes owed from the saved event   *)
(* on is still to come, or in a job.                                        *)
LEMMA SettledSafe ==
    ASSUME IInv, NEW o, Safe(o), Settled', stored'.time # None, mode' # "stream",
           base' = base, wm' = wm, last' \in {last, None}, FlushPoint' = FlushPoint,
           Accounted \subseteq Accounted', Handled \subseteq Handled',
           Wanted(o)' \subseteq Wanted(o) \cup {i \in Int : i > SavedIndex'},
           SavedIndex' \in Int,
           SavedIndex' = SavedIndex \/ (FlushPoint # NoPoint /\ SavedIndex' = Index(FlushPoint)),
           session'.from_tip = session.from_tip, session'.gap = session.gap,
           session.gap.pending => session.gap.after = SavedIndex' /\ session.gap.after <= head'
    PROVE  Safe(o)'
<1>0. SaveSafe(o) /\ SlotSafe(o) /\ LastSafe(o) /\ GapSafe(o)
  BY DEF Safe
<1>8. \A a, b, c \in Int : a > b /\ a <= c => a \in (b + 1)..c
  BY SMT
<1>1. Reached(Wanted(o)', Accounted', SavedIndex')
  <2>1. ASSUME NEW i \in Wanted(o)', i <= SavedIndex' PROVE i \in Accounted'
    <3>1. ~(i \in Int /\ i > SavedIndex')
      BY SMT, <2>1
    <3>2. i \in Wanted(o)
      BY <3>1
    <3> QED BY <1>0, <2>1, <3>2 DEF SaveSafe, Reached
  <2> QED BY <2>1 DEF Reached
<1>2. SaveSafe(o)'
  BY <1>1 DEF SaveSafe, Settled
<1>3. Len(wm'.pending) = 0 /\ 1..0 = {}
  BY SMT DEF Settled
<1>4. SlotSafe(o)'
  BY <1>3 DEF SlotSafe
<1>5. LastSafe(o)'
  <2> SUFFICES ASSUME last' # None, NEW i \in Wanted(o)', i <= EventIn(base', last')
               PROVE  i \in Handled'
    BY DEF LastSafe, Reached
  <2>1. CASE i \in Wanted(o)
    BY <1>0, <2>1 DEF LastSafe, Reached
  <2>2. CASE i \in Int /\ i > SavedIndex'
    <3>1. EventIn(base', last') \in Int
      BY LastIndexTyped
    <3>2. i \in (SavedIndex' + 1)..EventIn(base', last')
      BY <1>8, <2>2, <3>1
    <3>3. i \in Covered'
      BY <3>2 DEF Settled
    <3> QED BY <3>3 DEF Handled, Accounted
  <2> QED BY <2>1, <2>2
<1>6. GapSafe(o)'
  BY <1>0, <1>1 DEF GapSafe
<1>7. StreamSafe(o)' /\ FreshSafe(o)'
  BY DEF StreamSafe, FreshSafe
<1> QED BY <1>2, <1>4, <1>5, <1>6, <1>7 DEF Safe

-----------------------------------------------------------------------------

(* What the two flushes share *)

(* What the ticker's flush and the flush at the end of a drain share.       *)
FlushStep(ok) ==
    /\ UNCHANGED <<setting, server, wm, tracked, jobs>> /\ told' = told /\ LeftFalls
    /\ stored' = StoredAfterFlush(ok)
    /\ session' = [session EXCEPT !.barrier = BarrierAfterFlush]

SavedIsCurrent == told /\ stored' # stored =>
                    stored'.seq = None \/ stored'.seq + base = IndexOf(stored'.time)

(* So do the saves, in a session and at its end.                            *)
LEMMA SaveSteps ==
    IInv => \A ok \in BOOLEAN :
              Flush(ok) \/ EndSession(ok) => IInv' /\ Carries /\ SavedIsCurrent
<1>FlushSession.
    ASSUME IInv, NEW ok \in BOOLEAN, FlushStep(ok)
    PROVE  /\ session' \in SessionType /\ session'.protocol = session.protocol
           /\ session'.sent = session.sent /\ session'.from_tip = session.from_tip
           /\ session'.gap = session.gap
           /\ session'.barrier \in {session.barrier, NoTicket}
           /\ FlushPoint' = FlushPoint
           /\ \A k \in 1..Len(wm.pending) :
                Counts(wm', session'.barrier, k) <=> Counts(wm, session.barrier, k)
  <2> USE <1>FlushSession
  <2>0. ProcessTyped /\ session \in SessionType /\ wm \in Watermarks
    BY IInvParts DEF ProcessTyped
  <2>1. /\ session' = [session EXCEPT !.barrier = BarrierAfterFlush] /\ wm' = wm
        /\ BarrierAfterFlush = IF FlushPoint # NoPoint THEN NoTicket ELSE session.barrier
    BY DEF FlushStep, BarrierAfterFlush
  <2>2. BarrierAfterFlush \in Nat \cup {NoTicket}
    BY <2>0, <2>1 DEF SessionType
  <2>3. /\ session' \in SessionType /\ session'.protocol = session.protocol
        /\ session'.sent = session.sent /\ session'.from_tip = session.from_tip
        /\ session'.gap = session.gap /\ session'.barrier = BarrierAfterFlush
    BY <2>0, <2>1, <2>2 DEF SessionType
  <2>4. FlushPoint' = FlushPoint
    BY <2>1, <2>3, FlushPointTyped, <2>0 DEF FlushPoint, AppliedIfRetired
  <2>5. ASSUME NEW k \in 1..Len(wm.pending)
        PROVE  Counts(wm', session'.barrier, k) <=> Counts(wm, session.barrier, k)
    <3>1. CASE FlushPoint = NoPoint
      BY <2>1, <2>3, <3>1
    <3>2. CASE FlushPoint # NoPoint
      <4>1. session.barrier = NoTicket \/ HasRetired(wm, session.barrier)
        BY <3>2 DEF FlushPoint, AppliedIfRetired
      <4>2. session'.barrier = NoTicket
        BY <2>1, <2>3, <3>2
      <4>3. wm.front \in Nat /\ session.barrier \in Int /\ Len(wm.pending) \in Nat
        BY <2>0, WatermarkTyped, BarrierTyped
      <4>4. HasRetired(wm, session.barrier) => Counts(wm, session.barrier, k)
        BY SMT, <4>3 DEF HasRetired, Counts
      <4> QED BY <4>1, <4>2, <4>4 DEF Counts
    <3> QED BY <3>1, <3>2
  <2> QED BY <2>1, <2>3, <2>4, <2>5
<1>FlushStored.
    ASSUME IInv, NEW ok \in BOOLEAN, FlushStep(ok)
    PROVE  /\ stored' \in StoredType /\ stored'.host <= host /\ stored'.host \in Nat
           /\ SavedIndex' \in 0..head
           /\ \/ stored' = stored /\ SavedIndex' = SavedIndex
              \/ /\ ok /\ FlushPoint # NoPoint /\ FlushPoint \in Points
                 /\ stored'.seq = FlushPoint.seq /\ stored'.time = FlushPoint.time
                 /\ stored'.host = host /\ stored'.host # None /\ stored'.older = FALSE
                 /\ stored'.time # None /\ SavedIndex' = Index(FlushPoint)
                 /\ Names(base, stored'.seq, SavedIndex')
           /\ ok /\ FlushPoint \notin {NoPoint, conn.saved} => SavedIndex' = Index(FlushPoint)
  <2> USE <1>FlushStored
  <2>0. ServerTyped /\ ProcessTyped /\ DataTyped /\ Numbered
    BY IInvParts
  <2>1. /\ stored' = IF Saves /\ ok THEN SavedAs(FlushPoint) ELSE stored
        /\ Saves <=> FlushPoint \notin {NoPoint, conn.saved}
    BY DEF FlushStep, StoredAfterFlush, Saves
  <2>2. CASE ~(Saves /\ ok)
    <3>1. stored' = stored
      BY <2>1, <2>2
    <3>2. SavedIndex' = SavedIndex
      BY <3>1 DEF SavedIndex
    <3>3. stored \in StoredType /\ stored.host <= host /\ stored.host \in Nat
      BY <2>0, StoredFacts DEF DataTyped
    <3> QED BY <2>0, <2>1, <2>2, <3>1, <3>2, <3>3, StoredFacts
  <2>3. CASE Saves /\ ok
    <3>1. FlushPoint # NoPoint /\ FlushPoint = wm.applied /\ FlushPoint \in Points
      BY <2>0, <2>1, <2>3, FlushPointTyped
    <3>2. FlushPoint.seq \in 0..MaxSeq /\ FlushPoint.time \in Times
          /\ Index(FlushPoint) \in 1..MaxEvents /\ FlushPoint.time # None
      BY <3>1, PointTyped, EventOfTime
    <3>3. host \in Nat /\ host <= host /\ host # None
      BY SMT, <2>0, Constants DEF ServerTyped
    <3> DEFINE q == FlushPoint.seq
               t == FlushPoint.time
    <3>4. stored' = [seq |-> q, time |-> t, host |-> host, older |-> FALSE]
      BY <2>1, <2>3 DEF SavedAs
    <3>5. q \in 0..MaxSeq /\ t \in {None} \cup Times
      BY <3>2
    <3> HIDE DEF q, t
    <3>6. /\ stored' \in StoredType /\ stored'.host = host /\ stored'.older = FALSE
          /\ stored'.seq = q /\ stored'.time = t
      BY SMT, <3>3, <3>4, <3>5 DEF StoredType
    <3> USE DEF q, t
    <3>7. SavedIndex' = Index(FlushPoint)
      BY <3>2, <3>6 DEF SavedIndex, Index
    <3>8. Index(FlushPoint) <= head /\ Names(base, FlushPoint.seq, Index(FlushPoint))
      BY <2>0, <3>1 DEF Numbered
    <3>9. Index(FlushPoint) \in 0..head
      BY SMT, <3>2, <3>8, <2>0, ServerFacts
    <3> QED BY <2>3, <3>1, <3>2, <3>3, <3>6, <3>7, <3>8, <3>9
  <2> QED BY <2>2, <2>3
<1>OwedFromTyped.
    ASSUME IInv, NEW ok \in BOOLEAN, FlushStep(ok)
    PROVE  OwedFrom' \in 0..MaxEvents
  <2> USE <1>OwedFromTyped
  <2>1. SavedIndex' \in 0..head /\ head \in 1..MaxEvents
    BY <1>FlushStored, IInvParts, ServerFacts
  <2>2. SavedIndex' \in 0..MaxEvents /\ MaxEvents \in 0..MaxEvents
    BY SMT, <2>1, Constants
  <2> QED BY <2>2 DEF OwedFrom
<1>FlushKept.
    ASSUME IInv, NEW ok \in BOOLEAN, FlushStep(ok), owed' \in [Collections -> 0..MaxEvents],
           last' \in {last, None}
    PROVE  /\ ServerTyped' /\ DataTyped' /\ Numbered' /\ Recent'
           /\ head' = head /\ base' = base /\ host' = host /\ log' = log /\ sealed' = sealed
           /\ jobs' = jobs /\ wm' = wm
           /\ stored'.time = None => stored' = stored
           /\ stored'.time # None => stored'.host # None \/ stored' = stored
           /\ session'.barrier <= NextTicket(wm')
  <2> USE <1>FlushKept
  <2>0. ServerTyped /\ ProcessTyped /\ DataTyped /\ Shape /\ Numbered /\ Recent
    BY IInvParts
  <2>1. /\ UNCHANGED <<setting, server>> /\ wm' = wm /\ tracked' = tracked /\ jobs' = jobs
        /\ told' = told /\ LeftFalls
    BY DEF FlushStep
  <2>2. ServerTyped' /\ head' = head /\ base' = base /\ host' = host /\ log' = log /\ sealed' = sealed
    BY <2>0, <2>1, ServerKept
  <2>3. DataTyped'
    <3>1. SavedIndex' <= head
      <4>1. SavedIndex' \in 0..head /\ head \in Nat
        BY <2>0, <1>FlushStored, ServerFacts
      <4> QED BY SMT, <4>1
    <3> QED BY <2>0, <2>1, <2>2, <3>1, <1>FlushStored DEF DataTyped
  <2>4. Numbered'
    <3>1. last' # None => last' = last /\ last # None
      OBVIOUS
    <3>2. stored'.host = host /\ ~stored'.older => Names(base, stored'.seq, SavedIndex')
      BY <2>0, <1>FlushStored DEF Numbered
    <3> QED BY <2>0, <2>1, <2>2, <3>1, <3>2 DEF Numbered
  <2>5. Recent'
    BY <2>0, <2>1, <2>2, <1>FlushSession DEF Recent
  <2>6. session'.barrier <= NextTicket(wm')
    <3>1. session'.barrier \in {session.barrier, NoTicket} /\ session.barrier <= NextTicket(wm)
      BY <2>0, <1>FlushSession DEF Shape
    <3>2. NextTicket(wm) \in Nat
      BY <2>0, BarrierHolds DEF ProcessTyped
    <3> QED BY SMT, <2>1, <3>1, <3>2, Constants
  <2> QED BY <2>1, <2>2, <2>3, <2>4, <2>5, <2>6, <1>FlushStored
<1>FlushSavesCurrent.
    ASSUME IInv, NEW ok \in BOOLEAN, FlushStep(ok)
    PROVE  SavedIsCurrent
  <2> USE <1>FlushSavesCurrent
  <2> SUFFICES ASSUME told, stored' # stored
               PROVE  stored'.seq = None \/ stored'.seq + base = IndexOf(stored'.time)
    BY DEF SavedIsCurrent
  <2>1. FlushPoint # NoPoint /\ stored'.seq = FlushPoint.seq /\ stored'.time = FlushPoint.time
    BY <1>FlushStored
  <2>2. Current(base, FlushPoint)
    BY <2>1, IInvParts DEF Recent
  <2> QED BY <2>1, <2>2 DEF Current, Index
(* A flush that makes nothing new wanted; what the first save makes owed    *)
(* was wanted before.                                                       *)
<1>FlushWants.
    ASSUME IInv, NEW o \in Nat, FreshSafe(o), NEW ok \in BOOLEAN, FlushStep(ok),
           \A c \in tracked : owed'[c] = IF stored.time = None THEN OwedFrom' ELSE owed[c]
    PROVE  Wanted(o)' \subseteq Wanted(o)
  <2> USE <1>FlushWants
  <2> SUFFICES ASSUME NEW i \in Wanted(o)' PROVE i \in Wanted(o)
    OBVIOUS
  <2>1. log' = log /\ head' = head /\ tracked' = tracked
    BY DEF FlushStep, server, head
  <2>2. /\ i \in 1..head /\ log[i] \in tracked
        /\ i > IF stored'.time = None THEN o ELSE owed'[log[i]]
    BY <2>1 DEF Wanted
  <2>3. i > IF stored.time = None THEN o ELSE owed[log[i]]
    <3>1. CASE stored.time # None
      <4>1. stored'.time # None
        BY <3>1, <1>FlushStored
      <4> QED BY <2>2, <3>1, <4>1
    <3>2. CASE stored' = stored /\ stored.time = None
      BY <2>2, <3>2
    <3>3. CASE stored' # stored /\ stored.time = None
      <4>1. stored'.time # None /\ FlushPoint # NoPoint /\ SavedIndex' = Index(FlushPoint)
        BY <3>3, <1>FlushStored
      <4>2. owed'[log[i]] = Index(FlushPoint)
        BY <2>2, <3>3, <4>1 DEF OwedFrom
      <4>3. Index(FlushPoint) >= o /\ Index(FlushPoint) \in Int
        BY <3>3, <4>1, FlushIndex DEF FreshSafe
      <4>4. i > Index(FlushPoint)
        BY <2>2, <4>1, <4>2
      <4>5. i > o
        BY SMT, <2>2, <4>3, <4>4
      <4> QED BY <3>3, <4>5
    <3> QED BY <3>1, <3>2, <3>3
  <2> QED BY <2>2, <2>3 DEF Wanted
<1>FlushKeepsSafe.
    ASSUME IInv, NEW o \in Nat, LosesNothing(o), NEW ok \in BOOLEAN, FlushStep(ok),
           Wanted(o)' \subseteq Wanted(o), UNCHANGED <<done, gaps, silent, last>>,
           mode' = "stream" =>
             /\ mode = "stream" /\ conn'.pos = conn.pos /\ conn'.notice = conn.notice
             /\ conn'.floor = conn.floor
    PROVE  Safe(o)' /\ JobsReach'
  <2> USE <1>FlushKeepsSafe
  <2>0. /\ ServerTyped /\ SaveSafe(o) /\ SlotSafe(o) /\ LastSafe(o) /\ GapSafe(o) /\ StreamSafe(o)
        /\ FreshSafe(o) /\ JobsReach /\ head \in Nat
    BY IInvParts, ServerFacts DEF LosesNothing, Safe
  <2>1. /\ setting' = setting /\ base' = base /\ head' = head /\ sealed' = sealed /\ wm' = wm
        /\ jobs' = jobs /\ LeftFalls
    BY DEF FlushStep, server, head
  <2>2. Grows(o) /\ Accounted' = Accounted
    <3>1. Covered' = Covered
      BY <2>1, CoveredSame
    <3>2. Accounted' = Accounted
      BY <3>1 DEF Accounted
    <3> QED BY <3>2 DEF Grows
  <2>3. /\ session'.sent = session.sent /\ session'.protocol = session.protocol
        /\ session'.from_tip = session.from_tip /\ session'.gap = session.gap
        /\ FlushPoint' = FlushPoint
        /\ \A k \in 1..Len(wm.pending) :
             Counts(wm', session'.barrier, k) <=> Counts(wm, session.barrier, k)
    BY <1>FlushSession
  <2>4. Handled \subseteq Handled' /\ Streamed \subseteq Streamed'
    <3>1. Handled \subseteq Handled'
      BY <2>1, <2>2, HandledGrows
    <3> QED BY <2>3, <3>1 DEF Streamed, PendingGap
  <2>5. ASSUME NEW p, Reached(Wanted(o), Accounted, p)
        PROVE  Reached(Wanted(o)', Accounted', p)
    BY <2>2, <2>5 DEF Reached
  <2>6. SaveSafe(o)'
    <3>1. Reached(Wanted(o)', Accounted', SavedIndex')
      BY <2>0, <2>5, <1>FlushStored DEF SaveSafe
    <3> QED BY <2>0, <2>3, <2>5, <3>1 DEF SaveSafe
  <2>7. SlotSafe(o)'
    BY <2>0, <2>1, <2>2, SlotSafeKept
  <2>8. LastSafe(o)'
    BY <2>0, <2>1, <2>2, <2>4, LastSafeKept
  <2>9. GapSafe(o)'
    <3>1. /\ head <= head /\ (session.from_tip => session.gap.pending)
          /\ (session.gap.pending => last = None)
      BY SMT, <2>0 DEF GapSafe
    <3> QED BY <2>0, <2>1, <2>2, <2>3, <3>1, GapSafeKept
  <2>10. StreamSafe(o)'
    BY <2>0, <2>1, <2>2, <2>3, <2>4, StreamSafeKept
  <2>11. FreshSafe(o)'
    <3> SUFFICES ASSUME stored'.time = None PROVE FreshSafe(o)'
      BY DEF FreshSafe
    <3>1. stored.time = None
      BY <1>FlushStored
    <3> QED BY <2>0, <2>1, <2>3, <3>1 DEF FreshSafe
  <2>12. JobsReach'
    BY <2>0, <2>1, JobsReachKept
  <2> QED BY <2>6, <2>7, <2>8, <2>9, <2>10, <2>11, <2>12 DEF Safe
(* What was settled stays so, and the saved event where it was.             *)
<1>FlushKeepsSettled.
    ASSUME IInv, NEW ok \in BOOLEAN, FlushStep(ok), last' \in {last, None}, Settled
    PROVE  Settled' /\ SavedIndex' = SavedIndex
  <2> USE <1>FlushKeepsSettled
  <2>1. /\ base' = base /\ head' = head /\ sealed' = sealed /\ jobs' = jobs /\ wm' = wm
        /\ FlushPoint' = FlushPoint
    BY <1>FlushSession DEF FlushStep, server, head
  <2>2. SavedIndex' = SavedIndex
    BY <1>FlushStored DEF Settled
  <2>3. Covered \subseteq Covered'
    BY <2>1, CoveredSame
  <2> QED BY <2>1, <2>2, <2>3, SettledKept
<1>FlushSteps.
    IInv => \A ok \in BOOLEAN : Flush(ok) => IInv' /\ Carries /\ SavedIsCurrent
  <2>FlushIsFlushStep.
      ASSUME IInv, NEW ok \in BOOLEAN, Flush(ok)
      PROVE  FlushStep(ok)
    <3> USE <2>FlushIsFlushStep
    <3>1. Unsaved(ok) \in SUBSET Kinds
      BY DEF Unsaved, Kinds
    <3>2. Spend(Unsaved(ok)) /\ ServerTyped
      BY IInvParts DEF Flush
    <3>3. LeftFalls
      BY <3>1, <3>2, SpendFalls
    <3> QED BY <3>3 DEF Flush, FlushStep
  <2>FlushKeepsIInv.
      ASSUME IInv, NEW ok \in BOOLEAN, Flush(ok)
      PROVE  IInv'
    <3> USE <2>FlushKeepsIInv
    <3>0. ServerTyped /\ ProcessTyped /\ DataTyped /\ Shape /\ Positioned /\ conn \in ConnType
      BY IInvParts DEF ProcessTyped
    <3>1. FlushStep(ok) /\ FlushPoint \notin {NoPoint, conn.saved}
      BY <2>FlushIsFlushStep DEF Flush, Saves
    <3>2. /\ mode = "stream" /\ mode' = mode /\ last' = last /\ tracked' = tracked /\ wm' = wm
          /\ setting' = setting /\ conn' = [conn EXCEPT !.saved = IF ok THEN FlushPoint ELSE conn.saved]
          /\ owed' = [c \in Collections |-> IF stored.time = None THEN OwedFrom' ELSE owed[c]]
          /\ told' = told
      BY DEF Flush
    <3>3. owed' \in [Collections -> 0..MaxEvents]
      BY <3>0, <3>1, <3>2, <1>OwedFromTyped DEF DataTyped
    <3>4. (IF ok THEN FlushPoint ELSE conn.saved) \in Points \cup {NoPoint}
      BY <3>0, FlushPointTyped DEF ConnType
    <3>5. /\ conn' \in ConnType /\ conn'.pos = conn.pos /\ conn'.notice = conn.notice
          /\ conn'.floor = conn.floor /\ conn'.filter = conn.filter /\ conn'.ended = conn.ended
          /\ conn'.saved = IF ok THEN FlushPoint ELSE conn.saved
      BY <3>0, <3>2, <3>4 DEF ConnType
    <3>6. ProcessTyped'
      BY <3>0, <3>1, <3>2, <3>5, <1>FlushSession DEF ProcessTyped
    <3>7. /\ ServerTyped' /\ DataTyped' /\ Numbered' /\ Recent' /\ head' = head /\ base' = base
          /\ stored'.time = None => stored' = stored
          /\ stored'.time # None => stored'.host # None \/ stored' = stored
          /\ session'.barrier <= NextTicket(wm')
      BY <3>1, <3>2, <3>3, <1>FlushKept
    <3>8. Positioned'
      BY <3>0, <3>1, <3>2, <3>5, <3>7, <1>FlushSession DEF Positioned
    <3>9. conn'.saved # NoPoint => Index(conn'.saved) = SavedIndex'
      <4>1. CASE ok
        BY <3>1, <3>5, <4>1, <1>FlushStored
      <4>2. CASE ~ok
        BY <3>0, <3>1, <3>5, <4>2, <1>FlushStored DEF Shape
      <4> QED BY <4>1, <4>2
    <3>10. Shape'
      BY <3>0, <3>1, <3>2, <3>5, <3>7, <3>9, <1>FlushSession DEF Shape
    <3> QED BY <3>6, <3>7, <3>8, <3>10 DEF IInv, Typed
  <2>FlushLosesNothing.
      ASSUME IInv, Sound(setting), NEW o \in 0..head, LosesNothing(o), NEW ok \in BOOLEAN, Flush(ok)
      PROVE  LosesNothing(o)' /\ head' = head
    <3> USE <2>FlushLosesNothing
    <3>0. /\ ServerTyped /\ ProcessTyped /\ DataTyped /\ FreshSafe(o) /\ DrainsSettle
          /\ conn \in ConnType /\ o \in Nat /\ tracked \subseteq Collections
      <4>1. o \in Nat
        BY SMT, IInvParts, ServerFacts
      <4> QED BY <4>1, IInvParts DEF LosesNothing, Safe, ProcessTyped
    <3>1. FlushStep(ok) /\ head' = head /\ base' = base /\ wm' = wm /\ setting' = setting
      BY <2>FlushIsFlushStep DEF FlushStep, server, head
    <3>2. /\ UNCHANGED <<done, gaps, silent, last>> /\ mode' = "stream" /\ mode = "stream"
          /\ owed' = [c \in Collections |-> IF stored.time = None THEN OwedFrom' ELSE owed[c]]
          /\ conn' = [conn EXCEPT !.saved = IF ok THEN FlushPoint ELSE conn.saved]
      BY DEF Flush
    <3>3. conn'.pos = conn.pos /\ conn'.notice = conn.notice /\ conn'.floor = conn.floor
      BY <3>0, <3>2 DEF ConnType
    <3>4. \A c \in tracked : owed'[c] = IF stored.time = None THEN OwedFrom' ELSE owed[c]
      BY <3>0, <3>2
    <3>5. Wanted(o)' \subseteq Wanted(o)
      BY <3>0, <3>1, <3>4, <1>FlushWants
    <3>6. Safe(o)' /\ JobsReach'
      BY <3>0, <3>1, <3>2, <3>3, <3>5, <1>FlushKeepsSafe
    <3>7. Settled => Settled' /\ SavedIndex' = SavedIndex
      BY <3>1, <3>2, <1>FlushKeepsSettled
    <3>8. LastIsLatest => LastIsLatest'
      <4>1. /\ session'.barrier \in {session.barrier, NoTicket} /\ FlushPoint' = FlushPoint
            /\ session'.gap = session.gap
        BY <3>1, <1>FlushSession
      <4>2. session.barrier < NextTicket(wm) => session'.barrier < NextTicket(wm)
        <5>1. NextTicket(wm) \in Nat
          BY <3>0, BarrierHolds DEF ProcessTyped
        <5> QED BY SMT, <4>1, <5>1, Constants
      <4> QED BY <3>1, <3>2, <4>1, <4>2 DEF LastIsLatest
    <3>9. DrainsSettle'
      <4>1. session'.gap = session.gap
        BY <3>1, <1>FlushSession
      <4> QED BY <3>0, <3>1, <3>2, <3>7, <3>8, <4>1 DEF DrainsSettle
    <3> QED BY <3>1, <3>6, <3>9 DEF LosesNothing
  <2> QED BY <2>FlushKeepsIInv, <2>FlushLosesNothing, <2>FlushIsFlushStep, <1>FlushSavesCurrent DEF Carries
<1>EndSessionSteps.
    IInv => \A ok \in BOOLEAN : EndSession(ok) => IInv' /\ Carries /\ SavedIsCurrent
  <2>EndIsFlushStep.
      ASSUME IInv, NEW ok \in BOOLEAN, EndSession(ok)
      PROVE  FlushStep(ok)
    <3> USE <2>EndIsFlushStep
    <3> DEFINE kinds == Unsaved(ok) \cup IF InFlight(wm) = 0 THEN {} ELSE {"timeout"}
    <3>1. kinds \in SUBSET Kinds
      BY DEF Unsaved, Kinds
    <3>2. Spend(kinds) /\ ServerTyped
      BY IInvParts DEF EndSession
    <3>3. LeftFalls
      BY <3>1, <3>2, SpendFalls
    <3> QED BY <3>3 DEF EndSession, FlushStep
  <2>EndSessionKeepsIInv.
      ASSUME IInv, NEW ok \in BOOLEAN, EndSession(ok)
      PROVE  IInv'
    <3> USE <2>EndSessionKeepsIInv
    <3>0. ServerTyped /\ ProcessTyped /\ DataTyped /\ Shape
      BY IInvParts
    <3>1. FlushStep(ok)
      BY <2>EndIsFlushStep
    <3>2. /\ mode = "drain" /\ mode' = "connect" /\ last' = LastAfter /\ tracked' = tracked /\ wm' = wm
          /\ setting' = setting /\ conn' = NoConnection /\ told' = told
          /\ owed' = [c \in Collections |->
                        IF stored.time = None \/ c \in tracked \ conn.filter THEN OwedFrom' ELSE owed[c]]
      BY DEF EndSession
    <3>3. owed' \in [Collections -> 0..MaxEvents]
      BY <3>0, <3>1, <3>2, <1>OwedFromTyped DEF DataTyped
    <3>4. last' \in {last, None}
      BY <3>2 DEF LastAfter
    <3>5. None \in 0..MaxSeq
      BY SMT, Constants
    <3>6. ProcessTyped'
      BY <3>0, <3>1, <3>2, <3>4, <3>5, <1>FlushSession, NoConnectionTyped DEF ProcessTyped
    <3>7. /\ ServerTyped' /\ DataTyped' /\ Numbered' /\ Recent'
          /\ stored'.time = None => stored' = stored
          /\ stored'.time # None => stored'.host # None \/ stored' = stored
          /\ session'.barrier <= NextTicket(wm')
      BY <3>1, <3>2, <3>3, <3>4, <1>FlushKept
    <3>8. Positioned'
      BY <3>2 DEF Positioned
    <3>9. NoConnection' = NoConnection
      BY DEF NoConnection
    <3>10. Shape'
      BY <3>0, <3>1, <3>2, <3>4, <3>7, <3>9, <1>FlushSession, NoConnectionTyped DEF Shape
    <3> QED BY <3>6, <3>7, <3>8, <3>10 DEF IInv, Typed
  (* Where no collection may be tracked, the end of a drain is a flush.       *)
  <2>EndKeepsSafe.
      ASSUME IInv, NEW o \in 0..head, LosesNothing(o), NEW ok \in BOOLEAN, EndSession(ok),
             ~(setting.budget["track"] > 0)
      PROVE  LosesNothing(o)'
    <3> USE <2>EndKeepsSafe
    <3>0. ProcessTyped /\ FreshSafe(o) /\ o \in Nat /\ tracked \subseteq Collections /\ Shape
      <4>1. o \in Nat
        BY SMT, IInvParts, ServerFacts
      <4> QED BY <4>1, IInvParts DEF LosesNothing, Safe, ProcessTyped
    <3>1. FlushStep(ok) /\ setting' = setting
      BY <2>EndIsFlushStep DEF FlushStep
    <3>2. /\ UNCHANGED <<done, gaps, silent>> /\ mode' = "connect" /\ mode = "drain"
          /\ last' = LastAfter
          /\ owed' = [c \in Collections |->
                        IF stored.time = None \/ c \in tracked \ conn.filter THEN OwedFrom' ELSE owed[c]]
      BY DEF EndSession
    <3>3. last' = last /\ \A c \in tracked : c \notin tracked \ conn.filter
      BY <3>0, <3>2 DEF Shape, LastAfter
    <3>4. \A c \in tracked : owed'[c] = IF stored.time = None THEN OwedFrom' ELSE owed[c]
      BY <3>0, <3>2, <3>3
    <3>5. Wanted(o)' \subseteq Wanted(o)
      BY <3>0, <3>1, <3>4, <1>FlushWants
    <3>6. Safe(o)' /\ JobsReach'
      BY <3>0, <3>1, <3>2, <3>3, <3>5, <1>FlushKeepsSafe
    <3>7. DrainsSettle'
      BY <3>1 DEF DrainsSettle
    <3> QED BY <3>6, <3>7 DEF LosesNothing
  (* Where one may, the drain ends idle and saved.                            *)
  <2>EndSettles.
      ASSUME IInv, Sound(setting), DrainsSettle, NEW ok \in BOOLEAN, EndSession(ok),
             setting.budget["track"] > 0
      PROVE  /\ Settled' /\ (session.gap.pending => session.gap.after = SavedIndex')
             /\ stored.time # None /\ stored'.time # None
    <3> USE <2>EndSettles
    <3>0. ServerTyped /\ ProcessTyped /\ DataTyped /\ Shape
      BY IInvParts
    <3>1. FlushStep(ok) /\ base' = base /\ wm' = wm /\ FlushPoint' = FlushPoint
      BY <2>EndIsFlushStep, <1>FlushSession DEF FlushStep, server
    <3>2. left["timeout"] = 0 /\ left["unsaved"] = 0
      <4>1. "timeout" \in Kinds /\ "unsaved" \in Kinds
        BY DEF Kinds
      <4>2. /\ left["timeout"] \in Nat /\ left["timeout"] <= setting.budget["timeout"]
            /\ left["unsaved"] \in Nat /\ left["unsaved"] <= setting.budget["unsaved"]
        BY <3>0, <4>1 DEF ServerTyped
      <4>3. setting.budget["timeout"] = 0 /\ setting.budget["unsaved"] = 0
        BY DEF Sound
      <4> QED BY SMT, <4>2, <4>3
    <3>3. ok /\ Len(wm.pending) = 0
      <4>1. \A k \in Unsaved(ok) \cup IF InFlight(wm) = 0 THEN {} ELSE {"timeout"} : left[k] > 0
        BY DEF EndSession, Spend
      <4>2. ~(0 > 0)
        BY SMT
      <4>3. "timeout" \notin Unsaved(ok) \cup (IF InFlight(wm) = 0 THEN {} ELSE {"timeout"})
            /\ "unsaved" \notin Unsaved(ok) \cup (IF InFlight(wm) = 0 THEN {} ELSE {"timeout"})
        BY <3>2, <4>1, <4>2
      <4> QED BY <4>3 DEF Unsaved, InFlight
    <3>4. stored.time # None
      <4>1. setting.budget["track"] # 0
        BY SMT
      <4> QED BY <3>0, <4>1 DEF Shape, Sound
    <3>5. stored'.time # None
      BY <3>1, <3>4, <1>FlushStored
    <3>6. FlushPoint # NoPoint => Index(FlushPoint) = SavedIndex'
      <4>1. CASE FlushPoint \notin {NoPoint, conn.saved}
        BY <3>1, <3>3, <4>1, <1>FlushStored
      <4>2. CASE FlushPoint = conn.saved
        BY <3>0, <3>1, <4>2, <1>FlushStored DEF Shape
      <4> QED BY <4>1, <4>2
    <3>7. last' \in {last, None}
      BY DEF EndSession, LastAfter
    <3>8. CASE Settled
      <4>1. Settled' /\ SavedIndex' = SavedIndex
        BY <3>1, <3>7, <3>8, <1>FlushKeepsSettled
      <4> QED BY <3>4, <3>5, <4>1 DEF DrainsSettle
    <3>9. CASE ~Settled
      <4>1. LastIsLatest /\ ~session.gap.pending
        BY <3>9 DEF DrainsSettle
      <4>2. last' # None => (SavedIndex' + 1)..EventIn(base', last') \subseteq Covered'
        <5> SUFFICES ASSUME last' # None
                     PROVE  (SavedIndex' + 1)..EventIn(base', last') \subseteq Covered'
          OBVIOUS
        <5>1. EventIn(base', last') = SavedIndex'
          BY <3>1, <3>3, <3>6, <3>7, <4>1 DEF LastIsLatest
        <5>2. SavedIndex' \in Int
          <6>1. SavedIndex' \in 0..head
            BY <3>1, <1>FlushStored
          <6> QED BY SMT, <6>1
        <5>3. (SavedIndex' + 1)..SavedIndex' = {}
          <6>1. \A a \in Int : (a + 1)..a = {}
            BY SMT
          <6> QED BY <5>2, <6>1
        <5> QED BY <5>1, <5>3
      <4> QED BY <3>1, <3>3, <3>4, <3>5, <3>6, <4>1, <4>2 DEF Settled
    <3> QED BY <3>8, <3>9
  <2>EndSettlesSafe.
      ASSUME IInv, Sound(setting), NEW o \in 0..head, LosesNothing(o), NEW ok \in BOOLEAN,
             EndSession(ok), setting.budget["track"] > 0
      PROVE  LosesNothing(o)'
    <3> USE <2>EndSettlesSafe
    <3>0. ServerTyped /\ ProcessTyped /\ DataTyped /\ Safe(o) /\ JobsReach /\ DrainsSettle
          /\ tracked \subseteq Collections
      BY IInvParts DEF LosesNothing, ProcessTyped
    <3>1. /\ FlushStep(ok) /\ setting' = setting /\ base' = base /\ head' = head /\ log' = log
          /\ sealed' = sealed /\ wm' = wm /\ jobs' = jobs /\ tracked' = tracked /\ LeftFalls
      BY <2>EndIsFlushStep DEF FlushStep, server, head
    <3>2. /\ UNCHANGED <<done, gaps, silent>> /\ mode' = "connect" /\ last' \in {last, None}
          /\ owed' = [c \in Collections |->
                        IF stored.time = None \/ c \in tracked \ conn.filter THEN OwedFrom' ELSE owed[c]]
      BY DEF EndSession, LastAfter
    <3>3. /\ Settled' /\ (session.gap.pending => session.gap.after = SavedIndex')
          /\ stored.time # None /\ stored'.time # None
      BY <3>0, <2>EndSettles
    <3>4. SavedIndex' \in Int /\ SavedIndex' <= head'
      <4>1. SavedIndex' \in 0..head /\ head \in Nat
        BY <3>0, <3>1, <1>FlushStored, ServerFacts
      <4> QED BY SMT, <3>1, <4>1
    <3>5. SavedIndex' = SavedIndex \/ (FlushPoint # NoPoint /\ SavedIndex' = Index(FlushPoint))
      BY <3>1, <1>FlushStored
    <3>6. Accounted \subseteq Accounted' /\ Handled \subseteq Handled'
      <4>1. Covered' = Covered
        BY <3>1, CoveredSame
      <4> QED BY <3>1, <3>2, <4>1 DEF Accounted, Handled, InFlightEvents
    <3>7. Wanted(o)' \subseteq Wanted(o) \cup {i \in Int : i > SavedIndex'}
      <4> SUFFICES ASSUME NEW i \in Wanted(o)' PROVE i \in Wanted(o) \/ (i \in Int /\ i > SavedIndex')
        OBVIOUS
      <4>1. i \in 1..head /\ log[i] \in tracked /\ i > owed'[log[i]]
        BY <3>1, <3>3 DEF Wanted
      <4>2. owed'[log[i]] \in {OwedFrom', owed[log[i]]} /\ OwedFrom' = SavedIndex'
        BY <3>0, <3>2, <3>3, <4>1 DEF OwedFrom
      <4>3. i \in Int
        BY SMT, <4>1
      <4> QED BY <3>3, <4>1, <4>2, <4>3 DEF Wanted
    <3>8. /\ session'.from_tip = session.from_tip /\ session'.gap = session.gap
          /\ FlushPoint' = FlushPoint
      BY <3>1, <1>FlushSession
    <3>9. Safe(o)'
      BY ZenonT(40), <3>0, <3>1, <3>2, <3>3, <3>4, <3>5, <3>6, <3>7, <3>8, SettledSafe
    <3>10. JobsReach'
      BY <3>0, <3>1, JobsReachKept
    <3>11. DrainsSettle'
      BY <3>3, <3>8 DEF DrainsSettle
    <3> QED BY <3>9, <3>10, <3>11 DEF LosesNothing
  <2>EndLosesNothing.
      ASSUME IInv, Sound(setting), NEW o \in 0..head, LosesNothing(o), NEW ok \in BOOLEAN,
             EndSession(ok)
      PROVE  LosesNothing(o)' /\ head' = head
    <3> USE <2>EndLosesNothing
    <3>1. head' = head
      BY DEF EndSession, server, head
    <3> QED BY <3>1, <2>EndKeepsSafe, <2>EndSettlesSafe
  <2> QED BY <2>EndSessionKeepsIInv, <2>EndLosesNothing, <2>EndIsFlushStep, <1>FlushSavesCurrent DEF Carries
<1> QED BY <1>FlushSteps, <1>EndSessionSteps

-----------------------------------------------------------------------------

(* The end of a stream, crashes and restarts *)

(* A step that touches the process only, and leaves the watermark. *)
QuietStep ==
    /\ UNCHANGED <<setting, server, database, session, last, wm>> /\ told' = told
    /\ LeftFalls /\ owed' \in [Collections -> 0..MaxEvents]

(* So do the other steps of the process, its crashes and its operator.      *)
LEMMA ProcessSteps ==
    IInv => /\ Disconnect \/ Crash \/ Restart => IInv' /\ Carries
            /\ \A c \in setting.collections : Track(c) => IInv' /\ Carries
            /\ \A i \in 1..head : OlderBinary(i) => IInv' /\ Carries /\ SavedIsCurrent
<1>EndedTyped.
    ASSUME ProcessTyped, NEW why \in {"closed", "renumbered", "changed"}
    PROVE  /\ EndedFor(why) \in ConnType /\ EndedFor(why).notice = "none"
           /\ EndedFor(why).filter = conn.filter /\ EndedFor(why).saved = conn.saved
           /\ EndedFor(why).ended = why
  <2> USE <1>EndedTyped
  <2>1. conn \in ConnType /\ why \in {"none", "closed", "renumbered", "changed"}
    BY DEF ProcessTyped
  <2> QED BY <2>1 DEF EndedFor, ConnType
<1>QuietFrame.
    ASSUME IInv, QuietStep
    PROVE  /\ ServerTyped' /\ DataTyped' /\ Numbered' /\ Recent'
           /\ setting' = setting /\ log' = log /\ head' = head /\ base' = base /\ host' = host
           /\ sealed' = sealed /\ oldest' = oldest
           /\ stored' = stored /\ jobs' = jobs /\ SavedIndex' = SavedIndex
           /\ session' = session /\ last' = last /\ wm' = wm /\ told' = told
  <2> USE <1>QuietFrame
  <2>0. ServerTyped /\ ProcessTyped /\ DataTyped /\ Numbered /\ Recent
    BY IInvParts
  <2>1. /\ setting' = setting /\ server' = server /\ database' = database
        /\ session' = session /\ last' = last /\ wm' = wm /\ told' = told
    BY DEF QuietStep
  <2>2. ServerTyped' /\ head' = head /\ base' = base /\ host' = host /\ log' = log
        /\ sealed' = sealed /\ oldest' = oldest
    BY <2>0, <2>1, ServerKept DEF QuietStep
  <2>3. host \in Nat /\ host <= host /\ head \in Nat /\ head <= head
    BY SMT, <2>0, ServerFacts
  <2>4. DataTyped' /\ stored' = stored /\ jobs' = jobs /\ SavedIndex' = SavedIndex
    BY <2>0, <2>1, <2>2, <2>3, DataKept DEF DataTyped, QuietStep
  <2>5. Numbered'
    BY <2>0, <2>1, <2>2, <2>3, <2>4, NumberedKept
  <2>6. Recent'
    BY <2>0, <2>1, <2>2, RecentKept
  <2> QED BY <2>1, <2>2, <2>4, <2>5, <2>6
<1>QuietLosesNothing.
    ASSUME IInv, NEW o, LosesNothing(o), QuietStep, UNCHANGED <<done, gaps, silent>>,
           Wanted(o)' \subseteq Wanted(o), mode' # "stream",
           mode' \in {"down", "connect"} => mode \in {"down", "connect"}
    PROVE  LosesNothing(o)' /\ head' = head
  <2> USE <1>QuietLosesNothing
  <2>0. /\ ServerTyped /\ SaveSafe(o) /\ SlotSafe(o) /\ LastSafe(o) /\ GapSafe(o)
        /\ FreshSafe(o) /\ JobsReach /\ DrainsSettle /\ head \in Nat /\ LeftFalls
    BY IInvParts, ServerFacts DEF LosesNothing, Safe, QuietStep
  <2>1. /\ setting' = setting /\ base' = base /\ head' = head /\ sealed' = sealed /\ wm' = wm
        /\ jobs' = jobs /\ stored' = stored /\ SavedIndex' = SavedIndex /\ session' = session
        /\ last' = last
    BY <1>QuietFrame
  <2>2. Grows(o) /\ Covered' = Covered
    <3>1. Covered' = Covered
      BY <2>1, CoveredSame
    <3>2. Accounted' = Accounted
      BY <3>1 DEF Accounted
    <3> QED BY <3>1, <3>2 DEF Grows
  <2>3. FlushPoint' = FlushPoint /\ Handled \subseteq Handled'
    BY <2>1, <2>2, FlushPointKept, HandledGrows
  <2>4. SaveSafe(o)' /\ SlotSafe(o)'
    BY <2>0, <2>1, <2>2, <2>3, SaveSafeKept, SlotSafeKept
  <2>5. LastSafe(o)'
    BY <2>0, <2>1, <2>2, <2>3, LastSafeKept
  <2>6. GapSafe(o)'
    <3>1. /\ head <= head /\ (session.from_tip => session.gap.pending)
          /\ (session.gap.pending => last = None)
      BY SMT, <2>0 DEF GapSafe
    <3> QED BY <2>0, <2>1, <2>2, <3>1, GapSafeKept
  <2>7. StreamSafe(o)'
    BY DEF StreamSafe
  <2>8. FreshSafe(o)'
    BY <2>0, <2>1, FreshSafeKept
  <2>9. JobsReach'
    BY <2>0, <2>1, JobsReachKept
  <2>10. DrainsSettle'
    BY <2>0, <2>1, <2>2, DrainsKept
  <2> QED BY <2>1, <2>4, <2>5, <2>6, <2>7, <2>8, <2>9, <2>10 DEF LosesNothing, Safe
(* A process that is down holds nothing; the saved cursor is all there is.  *)
<1>DownSafe.
    ASSUME NEW o, mode' = "down", session'.from_tip = FALSE, session'.gap = NoGap, last' = None,
           wm' = EmptyWatermark, Reached(Wanted(o)', Accounted', SavedIndex')
    PROVE  Safe(o)' /\ DrainsSettle'
  <2> USE <1>DownSafe
  <2>1. FlushPoint' = NoPoint /\ 1..Len(wm'.pending) = {}
    BY EmptyFacts DEF FlushPoint, AppliedIfRetired
  <2>2. Len(wm'.pending) = 0 /\ NoGap.pending = FALSE
    BY SMT, EmptyFacts, NoGapFacts
  <2>3. SaveSafe(o)' /\ SlotSafe(o)' /\ LastSafe(o)' /\ GapSafe(o)'
    BY <2>1, <2>2 DEF SaveSafe, SlotSafe, LastSafe, GapSafe
  <2>4. StreamSafe(o)' /\ FreshSafe(o)'
    BY <2>1 DEF StreamSafe, FreshSafe
  <2>5. Settled'
    BY <2>1, <2>2 DEF Settled
  <2> QED BY <2>2, <2>3, <2>4, <2>5 DEF Safe, DrainsSettle
<1>DisconnectSteps.
    IInv /\ Disconnect => IInv' /\ Carries
  <2>DisconnectKeepsIInv.
      ASSUME IInv, Disconnect
      PROVE  IInv'
    <3> USE <2>DisconnectKeepsIInv
    <3>0. ServerTyped /\ ProcessTyped /\ DataTyped /\ Shape
      BY IInvParts
    <3>1. /\ mode = "stream" /\ mode' = "drain" /\ conn' = EndedFor("closed") /\ tracked' = tracked
          /\ owed' = owed
      BY DEF Disconnect, history
    <3>2. QuietStep
      <4>1. {"drop"} \in SUBSET Kinds
        BY DEF Kinds
      <4>2. LeftFalls
        BY <3>0, <4>1, SpendFalls DEF Disconnect
      <4> QED BY <3>0, <4>2 DEF Disconnect, QuietStep, DataTyped, history
    <3>3. conn' \in ConnType /\ conn'.filter = conn.filter /\ conn'.saved = conn.saved
          /\ conn'.ended = "closed"
      BY <3>0, <3>1, <1>EndedTyped
    <3>4. ProcessTyped'
      BY <3>0, <3>1, <3>2, <3>3, <1>QuietFrame DEF ProcessTyped
    <3>5. Positioned'
      BY <3>1 DEF Positioned
    <3>6. Shape'
      BY <3>0, <3>1, <3>2, <3>3, <1>QuietFrame DEF Shape
    <3> QED BY <3>2, <3>4, <3>5, <3>6, <1>QuietFrame DEF IInv, Typed
  <2>DisconnectLosesNothing.
      ASSUME IInv, NEW o \in 0..head, LosesNothing(o), Disconnect
      PROVE  LosesNothing(o)' /\ head' = head
    <3> USE <2>DisconnectLosesNothing
    <3>0. ServerTyped /\ DataTyped
      BY IInvParts
    <3>1. /\ mode' = "drain" /\ tracked' = tracked /\ owed' = owed /\ UNCHANGED <<done, gaps, silent>>
          /\ log' = log /\ stored' = stored
      BY DEF Disconnect, history, server, database
    <3>2. QuietStep
      <4>1. {"drop"} \in SUBSET Kinds
        BY DEF Kinds
      <4>2. LeftFalls
        BY <3>0, <4>1, SpendFalls DEF Disconnect
      <4> QED BY <3>0, <4>2 DEF Disconnect, QuietStep, DataTyped, history
    <3>3. Wanted(o)' = Wanted(o)
      BY <3>1, WantedSame
    <3>4. Wanted(o)' \subseteq Wanted(o) /\ mode' # "stream" /\ mode' \notin {"down", "connect"}
      BY <3>1, <3>3
    <3> QED BY <3>1, <3>2, <3>4, <1>QuietLosesNothing
  <2> QED BY <2>DisconnectKeepsIInv, <2>DisconnectLosesNothing DEF Carries
<1>TrackSteps.
    IInv => \A c \in setting.collections : Track(c) => IInv' /\ Carries
  <2>TrackFields.
      ASSUME IInv, NEW c \in setting.collections, Track(c)
      PROVE  /\ QuietStep /\ c \in Collections /\ c \notin tracked /\ tracked' = tracked \cup {c}
             /\ left["track"] > 0 /\ setting.budget["track"] > 0
             /\ owed' \in [Collections -> 0..MaxEvents]
             /\ owed'[c] = IF mode \in {"stream", "drain"} THEN MaxEvents ELSE OwedFrom
             /\ \A d \in Collections : d # c => owed'[d] = owed[d]
             /\ conn' \in ConnType /\ conn'.filter = conn.filter /\ conn'.saved = conn.saved
             /\ mode = "stream" => mode' = "drain" /\ conn'.ended = "changed"
             /\ mode # "stream" => mode' = mode /\ conn' = conn
    <3> USE <2>TrackFields
    <3>0. ServerTyped /\ ProcessTyped /\ DataTyped
      BY IInvParts
    <3>1. {"track"} \in SUBSET Kinds /\ Spend({"track"})
      BY DEF Kinds, Track
    <3>2. LeftFalls /\ left["track"] > 0
      BY <3>0, <3>1, SpendFalls
    <3>11. setting.budget["track"] > 0
      <4>1. left["track"] <= setting.budget["track"] /\ left["track"] \in Nat
            /\ setting.budget["track"] \in 0..MaxEvents
        <5>1. "track" \in Kinds
          BY DEF Kinds
        <5> QED BY <3>0, <5>1, SettingTyped DEF ServerTyped
      <4> QED BY SMT, <3>2, <4>1, Constants
    <3>3. c \in Collections
      BY <3>0, SettingTyped
    <3>4. OwedFrom \in 0..MaxEvents /\ MaxEvents \in 0..MaxEvents
      <4>1. SavedIndex \in 0..head /\ head \in 1..MaxEvents
        BY <3>0, StoredFacts, ServerFacts
      <4>2. SavedIndex \in 0..MaxEvents /\ MaxEvents \in 0..MaxEvents
        BY SMT, <4>1, Constants
      <4> QED BY <4>2 DEF OwedFrom
    <3> DEFINE e == IF mode \in {"stream", "drain"} THEN MaxEvents ELSE OwedFrom
    <3>5. owed' = [owed EXCEPT ![c] = e] /\ e \in 0..MaxEvents
      BY <3>4 DEF Track
    <3> HIDE DEF e
    <3>6. /\ owed' \in [Collections -> 0..MaxEvents] /\ owed'[c] = e
          /\ \A d \in Collections : d # c => owed'[d] = owed[d]
      BY <3>0, <3>3, <3>5 DEF DataTyped
    <3>7. conn \in ConnType
      BY <3>0 DEF ProcessTyped
    <3>8. /\ mode = "stream" => mode' = "drain" /\ conn' = EndedFor("changed")
          /\ mode # "stream" => mode' = mode /\ conn' = conn
          /\ c \notin tracked /\ tracked' = tracked \cup {c}
      BY DEF Track
    <3>9. conn' \in ConnType /\ conn'.filter = conn.filter /\ conn'.saved = conn.saved
          /\ (mode = "stream" => conn'.ended = "changed")
      BY <3>0, <3>7, <3>8, <1>EndedTyped
    <3>10. QuietStep
      BY <3>0, <3>2, <3>6 DEF Track, QuietStep
    <3> QED BY <3>2, <3>3, <3>6, <3>8, <3>9, <3>10, <3>11 DEF e
  <2>TrackKeepsIInv.
      ASSUME IInv, NEW c \in setting.collections, Track(c)
      PROVE  IInv'
    <3> USE <2>TrackKeepsIInv
    <3>0. ServerTyped /\ ProcessTyped /\ DataTyped /\ Shape
      BY IInvParts
    <3>1. QuietStep /\ c \in Collections /\ tracked' = tracked \cup {c}
      BY <2>TrackFields
    <3>2. ProcessTyped'
      BY <3>0, <3>1, <2>TrackFields, <1>QuietFrame DEF ProcessTyped
    <3>3. Positioned'
      BY <2>TrackFields DEF Positioned
    <3>4. mode' = "drain" =>
            \A d \in tracked' \ conn'.filter : owed'[d] = MaxEvents /\ setting.budget["track"] > 0
      <4> SUFFICES ASSUME mode' = "drain", NEW d \in tracked', d \notin conn'.filter
                   PROVE  owed'[d] = MaxEvents
        BY <2>TrackFields
      <4>1. mode = "stream" \/ mode = "drain"
        BY <2>TrackFields
      <4>2. CASE d = c
        BY <4>1, <4>2, <2>TrackFields
      <4>3. CASE d # c
        <5>1. d \in tracked /\ d \in Collections /\ d \notin conn.filter
          BY <3>0, <3>1, <4>3, <2>TrackFields DEF ProcessTyped
        <5>2. owed[d] = MaxEvents
          BY <3>0, <4>1, <5>1 DEF Shape
        <5> QED BY <4>3, <5>1, <5>2, <2>TrackFields
      <4> QED BY <4>2, <4>3
    <3>5. mode' # "stream"
      BY <2>TrackFields
    <3>6. mode' \in {"down", "connect"} => mode' = mode /\ conn' = conn
      BY <2>TrackFields
    <3>7. NewSession' = NewSession /\ NoConnection' = NoConnection
      BY <3>1, <1>QuietFrame DEF NewSession, NoConnection
    <3>8. Shape'
      BY <3>0, <3>1, <3>4, <3>5, <3>6, <3>7, <2>TrackFields, <1>QuietFrame DEF Shape
    <3> QED BY <3>1, <3>2, <3>3, <3>8, <1>QuietFrame DEF IInv, Typed
  <2>TrackWants.
      ASSUME IInv, Sound(setting), NEW o, NEW c \in setting.collections, Track(c)
      PROVE  /\ stored.time # None
             /\ \A i \in Wanted(o)' : i \in Wanted(o) \/ (i \in 1..head /\ i > owed'[c])
    <3> USE <2>TrackWants
    <3>1. QuietStep /\ tracked' = tracked \cup {c} /\ c \in Collections
      BY <2>TrackFields
    <3>2. /\ log' = log /\ head' = head /\ stored' = stored /\ setting.budget["track"] > 0
          /\ (\A d \in Collections : d # c => owed'[d] = owed[d])
      BY <3>1, <1>QuietFrame, <2>TrackFields
    <3>3. Shape /\ tracked \subseteq Collections
      BY IInvParts DEF ProcessTyped
    <3>4. stored.time # None
      <4>1. setting.budget["track"] # 0
        BY SMT, <3>2
      <4> QED BY <3>3, <4>1 DEF Shape, Sound
    <3>5. ASSUME NEW i \in Wanted(o)' PROVE i \in Wanted(o) \/ (i \in 1..head /\ i > owed'[c])
      <4>1. i \in 1..head /\ log[i] \in tracked \cup {c} /\ i > owed'[log[i]]
        BY <3>1, <3>2, <3>4 DEF Wanted
      <4>2. CASE log[i] = c
        BY <4>1, <4>2
      <4>3. CASE log[i] # c
        <5>1. log[i] \in tracked /\ log[i] \in Collections
          BY <3>3, <4>1, <4>3
        <5>2. i > owed[log[i]]
          BY <3>2, <4>1, <4>3, <5>1
        <5> QED BY <3>4, <4>1, <5>1, <5>2 DEF Wanted
      <4> QED BY <4>2, <4>3
    <3> QED BY <3>4, <3>5
  (* A collection tracked while a session streams or drains is owed nothing   *)
  (* until that session has ended.                                            *)
  <2>TrackInSession.
      ASSUME IInv, Sound(setting), NEW o \in 0..head, LosesNothing(o), NEW c \in setting.collections,
             Track(c), mode \in {"stream", "drain"}
      PROVE  LosesNothing(o)'
    <3> USE <2>TrackInSession
    <3>1. QuietStep /\ mode' = "drain" /\ owed'[c] = MaxEvents
      BY <2>TrackFields
    <3>2. UNCHANGED <<done, gaps, silent>>
      BY DEF Track
    <3>3. \A i \in 1..head : ~(i > MaxEvents)
      <4>1. head \in 1..MaxEvents
        BY IInvParts, ServerFacts
      <4> QED BY SMT, <4>1, Constants
    <3>4. Wanted(o)' \subseteq Wanted(o)
      BY <3>1, <3>3, <2>TrackWants
    <3>5. mode' # "stream" /\ mode' \notin {"down", "connect"}
      BY <3>1
    <3> QED BY <3>1, <3>2, <3>4, <3>5, <1>QuietLosesNothing
  (* Between sessions it is owed what comes after the saved cursor.           *)
  <2>TrackBetweenSessions.
      ASSUME IInv, Sound(setting), NEW o \in 0..head, LosesNothing(o), NEW c \in setting.collections,
             Track(c), mode \in {"down", "connect"}
      PROVE  LosesNothing(o)'
    <3> USE <2>TrackBetweenSessions
    <3>0. /\ ServerTyped /\ Safe(o) /\ GapSafe(o) /\ JobsReach /\ DrainsSettle
          /\ setting.budget["track"] > 0 /\ stored.time # None
      BY IInvParts, <2>TrackFields, <2>TrackWants DEF LosesNothing, Safe
    <3>1. QuietStep /\ mode' = mode /\ owed'[c] = OwedFrom /\ LeftFalls
      BY <2>TrackFields DEF QuietStep
    <3>2. UNCHANGED <<done, gaps, silent>>
      BY DEF Track
    <3>3. /\ setting' = setting /\ base' = base /\ head' = head /\ sealed' = sealed /\ wm' = wm
          /\ jobs' = jobs /\ stored' = stored /\ SavedIndex' = SavedIndex /\ session' = session
          /\ last' = last
      BY <3>1, <1>QuietFrame
    <3>4. Covered' = Covered /\ FlushPoint' = FlushPoint
      BY <3>3, CoveredSame, FlushPointKept
    <3>5. Accounted \subseteq Accounted' /\ Handled \subseteq Handled'
      BY <3>2, <3>3, <3>4 DEF Accounted, Handled, InFlightEvents
    <3>6. Settled'
      <4>1. Settled /\ last' \in {last, None} /\ Covered \subseteq Covered'
        BY <3>0, <3>3, <3>4 DEF DrainsSettle
      <4> QED BY <3>3, <3>4, <4>1, SettledKept
    <3>7. Wanted(o)' \subseteq Wanted(o) \cup {i \in Int : i > SavedIndex'}
      <4>1. owed'[c] = SavedIndex'
        BY <3>0, <3>1, <3>3 DEF OwedFrom
      <4>2. \A i \in 1..head : i \in Int
        BY SMT
      <4> QED BY <4>1, <4>2, <2>TrackWants
    <3>8. SavedIndex' \in Int
      BY <3>3, SavedIndexTyped
    <3>9. session.gap.pending => session.gap.after = SavedIndex' /\ session.gap.after <= head'
      BY <3>0, <3>3 DEF DrainsSettle, GapSafe
    <3>10. Safe(o)'
      <4>1. mode' # "stream" /\ last' \in {last, None} /\ stored'.time # None
        BY <3>0, <3>1, <3>3
      <4> QED BY <3>0, <3>3, <3>4, <3>5, <3>6, <3>7, <3>8, <3>9, <4>1, SettledSafe
    <3>11. JobsReach'
      BY <3>0, <3>1, <3>3, JobsReachKept
    <3>12. DrainsSettle'
      BY <3>3, <3>6, <3>9 DEF DrainsSettle
    <3> QED BY <3>10, <3>11, <3>12 DEF LosesNothing
  <2>TrackLosesNothing.
      ASSUME IInv, Sound(setting), NEW o \in 0..head, LosesNothing(o), NEW c \in setting.collections,
             Track(c)
      PROVE  LosesNothing(o)' /\ head' = head
    <3> USE <2>TrackLosesNothing
    <3>1. head' = head
      BY DEF Track, server, head
    <3>2. mode \in {"down", "connect", "stream", "drain"}
      BY IInvParts DEF ProcessTyped
    <3> QED BY <3>1, <3>2, <2>TrackInSession, <2>TrackBetweenSessions
  <2> QED BY <2>TrackKeepsIInv, <2>TrackLosesNothing DEF Carries
<1>CrashSteps.
    IInv /\ Crash => IInv' /\ Carries
  <2>CrashFields.
      ASSUME IInv, Crash
      PROVE  /\ LeftFalls /\ owed' \in [Collections -> 0..MaxEvents]
             /\ UNCHANGED <<setting, server, database, tracked>>
             /\ mode' = "down" /\ session' = NewSession /\ last' = None /\ wm' = EmptyWatermark
             /\ conn' = NoConnection /\ told' = FALSE
    <3> USE <2>CrashFields
    <3>0. ServerTyped /\ ProcessTyped /\ DataTyped
      BY IInvParts
    <3>1. {"crash"} \in SUBSET Kinds /\ Spend({"crash"})
      BY DEF Kinds, Crash
    <3>2. LeftFalls
      BY <3>0, <3>1, SpendFalls
    <3>3. OwedFrom \in 0..MaxEvents
      <4>1. SavedIndex \in 0..head /\ head \in 1..MaxEvents
        BY <3>0, StoredFacts, ServerFacts
      <4>2. SavedIndex \in 0..MaxEvents /\ MaxEvents \in 0..MaxEvents
        BY SMT, <4>1, Constants
      <4> QED BY <4>2 DEF OwedFrom
    <3>4. owed' = [c \in Collections |->
                      IF c \in tracked /\ mode # "connect" /\ c \notin conn.filter
                      THEN OwedFrom ELSE owed[c]]
      BY DEF Crash
    <3>5. owed' \in [Collections -> 0..MaxEvents]
      BY <3>0, <3>3, <3>4 DEF DataTyped
    <3> QED BY <3>2, <3>5 DEF Crash
  <2>CrashKeepsIInv.
      ASSUME IInv, Crash
      PROVE  IInv'
    <3> USE <2>CrashKeepsIInv
    <3>0. ServerTyped /\ ProcessTyped /\ DataTyped /\ Shape /\ Numbered
      BY IInvParts
    <3>1. ServerTyped' /\ head' = head /\ base' = base /\ host' = host
      BY <3>0, <2>CrashFields, ServerKept
    <3>2. host \in Nat /\ host <= host /\ head \in Nat /\ head <= head
      BY SMT, <3>0, ServerFacts
    <3>3. DataTyped' /\ stored' = stored /\ SavedIndex' = SavedIndex
      BY <3>0, <3>1, <3>2, <2>CrashFields, DataKept
    <3>4. None \in 0..MaxSeq
      BY SMT, Constants
    <3>5. NewSession \in SessionType /\ (setting.choice = "v2" => NewSession.protocol = "v2")
          /\ NewSession.barrier = NoTicket
      BY <3>0, SettingTyped, NewSessionTyped
    <3>6. ProcessTyped'
      BY <3>0, <3>4, <3>5, <2>CrashFields, EmptyFacts, NoConnectionTyped DEF ProcessTyped
    <3>7. Numbered'
      BY <3>0, <3>1, <3>3, <2>CrashFields, EmptyFacts DEF Numbered
    <3>8. Positioned' /\ Recent'
      BY <2>CrashFields DEF Positioned, Recent
    <3>9. NewSession' = NewSession /\ NoConnection' = NoConnection
      BY <2>CrashFields DEF NewSession, NoConnection
    <3>10. NoTicket <= NextTicket(EmptyWatermark)
      BY SMT, EmptyFacts, Constants
    <3>11. Shape'
      BY <3>0, <3>3, <3>5, <3>9, <3>10, <2>CrashFields, NoConnectionTyped DEF Shape
    <3> QED BY <3>1, <3>3, <3>6, <3>7, <3>8, <3>11 DEF IInv, Typed
  <2>CrashLosesNothing.
      ASSUME IInv, NEW o \in 0..head, LosesNothing(o), Crash
      PROVE  LosesNothing(o)' /\ head' = head
    <3> USE <2>CrashLosesNothing
    <3>0. ServerTyped /\ SaveSafe(o) /\ JobsReach /\ tracked \subseteq Collections
      BY IInvParts DEF LosesNothing, Safe, ProcessTyped
    <3>1. /\ setting' = setting /\ log' = log /\ head' = head /\ base' = base /\ sealed' = sealed
          /\ stored' = stored /\ jobs' = jobs /\ tracked' = tracked /\ LeftFalls
          /\ UNCHANGED <<done, gaps, silent>>
      BY <2>CrashFields DEF Crash, server, database, head
    <3>2. owed' = [c \in Collections |->
                      IF c \in tracked /\ mode # "connect" /\ c \notin conn.filter
                      THEN OwedFrom ELSE owed[c]]
      BY DEF Crash
    <3>3. Accounted' = Accounted /\ SavedIndex' = SavedIndex
      <4>1. Covered' = Covered
        BY <3>1, CoveredSame
      <4> QED BY <3>1, <4>1 DEF Accounted, SavedIndex
    <3>4. ASSUME NEW i \in Wanted(o)', i <= SavedIndex PROVE i \in Wanted(o)
      <4>1. /\ i \in 1..head /\ log[i] \in tracked
            /\ i > IF stored.time = None THEN o ELSE owed'[log[i]]
        BY <3>1 DEF Wanted
      <4>2. owed'[log[i]] \in {OwedFrom, owed[log[i]]}
        BY <3>0, <3>2, <4>1
      <4>3. stored.time # None => OwedFrom = SavedIndex
        BY DEF OwedFrom
      <4>4. ~(i > SavedIndex)
        BY SMT, <3>4, <4>1, SavedIndexTyped
      <4> QED BY <4>1, <4>2, <4>3, <4>4 DEF Wanted
    <3>5. Reached(Wanted(o)', Accounted', SavedIndex')
      BY <3>0, <3>3, <3>4 DEF SaveSafe, Reached
    <3>6. session'.from_tip = FALSE /\ session'.gap = NoGap /\ last' = None /\ mode' = "down"
          /\ wm' = EmptyWatermark
      BY <3>0, <2>CrashFields, SettingTyped, NewSessionTyped
    <3>7. Safe(o)' /\ DrainsSettle'
      BY <3>5, <3>6, <1>DownSafe
    <3>8. JobsReach'
      BY ZenonT(40), <3>0, <3>1, JobsReachKept
    <3> QED BY <3>1, <3>7, <3>8 DEF LosesNothing
  <2> QED BY <2>CrashKeepsIInv, <2>CrashLosesNothing DEF Carries
<1>RestartSteps.
    IInv /\ Restart => IInv' /\ Carries
  <2>RestartKeepsIInv.
      ASSUME IInv, Restart
      PROVE  IInv'
    <3> USE <2>RestartKeepsIInv
    <3>0. ServerTyped /\ ProcessTyped /\ DataTyped /\ Shape
      BY IInvParts
    <3>1. /\ mode = "down" /\ mode' = "connect" /\ conn' = conn /\ tracked' = tracked /\ owed' = owed
          /\ left' = left
      BY DEF Restart, history
    <3>2. QuietStep
      BY <3>0, <3>1, LeftStays DEF Restart, QuietStep, DataTyped, history
    <3>3. ProcessTyped'
      BY <3>0, <3>1, <3>2, <1>QuietFrame DEF ProcessTyped
    <3>4. Positioned'
      BY <3>1 DEF Positioned
    <3>5. NoConnection' = NoConnection
      BY DEF NoConnection
    <3>6. Shape'
      BY <3>0, <3>1, <3>2, <3>5, <1>QuietFrame DEF Shape
    <3> QED BY <3>2, <3>3, <3>4, <3>6, <1>QuietFrame DEF IInv, Typed
  <2>RestartLosesNothing.
      ASSUME IInv, NEW o \in 0..head, LosesNothing(o), Restart
      PROVE  LosesNothing(o)' /\ head' = head
    <3> USE <2>RestartLosesNothing
    <3>0. ServerTyped /\ DataTyped
      BY IInvParts
    <3>1. /\ mode = "down" /\ mode' = "connect" /\ tracked' = tracked /\ owed' = owed
          /\ UNCHANGED <<done, gaps, silent>> /\ left' = left /\ log' = log /\ stored' = stored
      BY DEF Restart, history, server, database
    <3>2. QuietStep
      BY <3>0, <3>1, LeftStays DEF Restart, QuietStep, DataTyped, history
    <3>3. Wanted(o)' = Wanted(o)
      BY <3>1, WantedSame
    <3>4. Wanted(o)' \subseteq Wanted(o) /\ mode' # "stream" /\ mode \in {"down", "connect"}
      BY <3>1, <3>3
    <3> QED BY <3>1, <3>2, <3>4, <1>QuietLosesNothing
  <2> QED BY <2>RestartKeepsIInv, <2>RestartLosesNothing DEF Carries
<1>OlderBinarySteps.
    IInv => \A i \in 1..head : OlderBinary(i) => IInv' /\ Carries /\ SavedIsCurrent
  <2>OlderFields.
      ASSUME IInv, NEW i \in 1..head, OlderBinary(i)
      PROVE  /\ stored' \in StoredType /\ stored'.time = Time(i) /\ stored'.older = TRUE
             /\ stored'.host = stored.host /\ stored'.time # None /\ SavedIndex' = i
             /\ stored.time # None /\ SavedIndex < i /\ mode = "down"
    <3> USE <2>OlderFields
    <3>0. ServerTyped /\ DataTyped
      BY IInvParts
    <3>1. i \in 1..MaxEvents /\ i \in Int
      BY SMT, <3>0, ServerFacts
    <3>2. Time(i) \in Times /\ IndexOf(Time(i)) = i /\ Time(i) # None
      BY <3>1, TimeOfEvent, EventOfTime
    <3>3. /\ stored' = [stored EXCEPT !.time = Time(i), !.older = TRUE]
          /\ stored.time # None /\ i > SavedIndex /\ mode = "down"
      BY DEF OlderBinary
    <3>4. stored \in StoredType
      BY <3>0 DEF DataTyped
    <3>5. /\ stored' \in StoredType /\ stored'.time = Time(i) /\ stored'.older = TRUE
          /\ stored'.host = stored.host
      BY <3>2, <3>3, <3>4 DEF StoredType
    <3>6. SavedIndex' = i
      BY <3>2, <3>5 DEF SavedIndex
    <3>7. SavedIndex < i
      BY SMT, <3>3, <3>0, <3>1, StoredFacts, ServerFacts
    <3> QED BY <3>2, <3>3, <3>5, <3>6, <3>7
  <2>OlderKeepsIInv.
      ASSUME IInv, NEW i \in 1..head, OlderBinary(i)
      PROVE  IInv'
    <3> USE <2>OlderKeepsIInv
    <3>0. ServerTyped /\ ProcessTyped /\ DataTyped /\ Shape /\ Numbered
      BY IInvParts
    <3>1. /\ UNCHANGED <<setting, server>> /\ process' = process /\ jobs' = jobs /\ owed' = owed
          /\ told' = told /\ Spend({"rollback"})
      BY DEF OlderBinary
    <3>2. /\ mode' = mode /\ session' = session /\ last' = last /\ wm' = wm /\ tracked' = tracked
          /\ conn' = conn
      BY <3>1 DEF process
    <3>3. LeftFalls
      <4>1. {"rollback"} \in SUBSET Kinds
        BY DEF Kinds
      <4> QED BY <3>0, <3>1, <4>1, SpendFalls
    <3>4. ServerTyped' /\ head' = head /\ base' = base /\ host' = host
      BY <3>0, <3>1, <3>3, ServerKept
    <3>5. DataTyped'
      <4>1. i <= head
        BY SMT, <3>0, ServerFacts
      <4> QED BY <3>0, <3>1, <3>4, <4>1, <2>OlderFields DEF DataTyped
    <3>6. ProcessTyped'
      BY <3>0, <3>2 DEF ProcessTyped
    <3>7. Numbered'
      BY <3>0, <3>2, <3>4, <2>OlderFields DEF Numbered
    <3>8. mode' = "down" /\ told = FALSE /\ conn.saved = NoPoint
      BY <3>0, <3>2, <2>OlderFields, NoConnectionTyped DEF Shape
    <3>9. Positioned' /\ Recent'
      BY <3>1, <3>8 DEF Positioned, Recent
    <3>10. NewSession' = NewSession /\ NoConnection' = NoConnection
      BY <3>1 DEF NewSession, NoConnection
    <3>11. Shape'
      BY <3>0, <3>1, <3>2, <3>8, <3>10, <2>OlderFields DEF Shape
    <3> QED BY <3>4, <3>5, <3>6, <3>7, <3>9, <3>11 DEF IInv, Typed
  <2>OlderLosesNothing.
      ASSUME IInv, NEW o \in 0..head, LosesNothing(o), NEW i \in 1..head, OlderBinary(i)
      PROVE  LosesNothing(o)' /\ head' = head
    <3> USE <2>OlderLosesNothing
    <3>0. ServerTyped /\ SaveSafe(o) /\ JobsReach /\ Shape /\ oldest \in Nat
      BY IInvParts, ServerFacts DEF LosesNothing, Safe
    <3>1. /\ setting' = setting /\ log' = log /\ head' = head /\ base' = base /\ sealed' = sealed
          /\ jobs' = jobs /\ tracked' = tracked /\ owed' = owed /\ gaps' = gaps
          /\ mode' = mode /\ session' = session /\ last' = last /\ wm' = wm
      BY DEF OlderBinary, server, process, head
    <3>2. LeftFalls
      <4>1. {"rollback"} \in SUBSET Kinds /\ Spend({"rollback"})
        BY DEF Kinds, OlderBinary
      <4> QED BY <3>0, <4>1, SpendFalls
    <3>3. /\ done' = done \cup {j \in (SavedIndex + 1)..i : log[j] \in tracked /\ j >= oldest}
          /\ silent' = silent \cup {j \in (SavedIndex + 1)..i : j < oldest}
      BY DEF OlderBinary
    <3>4. Accounted \subseteq Accounted' /\ done' \subseteq Accounted' /\ silent' \subseteq Accounted'
      <4>1. Covered' = Covered
        BY <3>1, CoveredSame
      <4> QED BY <3>1, <3>3, <4>1 DEF Accounted
    <3>5. /\ SavedIndex' = i /\ SavedIndex < i /\ stored.time # None /\ stored'.time # None
          /\ mode = "down"
      BY <2>OlderFields
    <3>6. Wanted(o)' = Wanted(o)
      BY <3>1, <3>5 DEF Wanted
    <3>7. ASSUME NEW j \in Wanted(o), j <= i PROVE j \in Accounted'
      <4>1. j \in Int /\ log[j] \in tracked
        BY WantedTyped
      <4>2. CASE j <= SavedIndex
        BY <3>0, <3>4, <4>2 DEF SaveSafe, Reached
      <4>3. CASE ~(j <= SavedIndex)
        <5>1. j \in (SavedIndex + 1)..i /\ (j >= oldest \/ j < oldest)
          BY SMT, <3>0, <3>7, <4>1, <4>3, SavedIndexTyped
        <5> QED BY <3>3, <3>4, <4>1, <5>1
      <4> QED BY <4>2, <4>3
    <3>8. Reached(Wanted(o)', Accounted', SavedIndex')
      BY <3>5, <3>6, <3>7 DEF Reached
    <3>9. session'.from_tip = FALSE /\ session'.gap = NoGap /\ last' = None /\ mode' = "down"
          /\ wm' = EmptyWatermark
      BY <3>0, <3>1, <3>5, SettingTyped, NewSessionTyped DEF Shape
    <3>10. Safe(o)' /\ DrainsSettle'
      BY <3>8, <3>9, <1>DownSafe
    <3>11. JobsReach'
      BY <3>0, <3>1, <3>2, JobsReachKept
    <3> QED BY <3>1, <3>10, <3>11 DEF LosesNothing
  <2>OlderSavesNothing.
      ASSUME IInv, NEW i \in 1..head, OlderBinary(i)
      PROVE  SavedIsCurrent
    BY <2>OlderSavesNothing, <2>OlderFields, IInvParts DEF Shape, SavedIsCurrent
  <2> QED BY <2>OlderKeepsIInv, <2>OlderLosesNothing, <2>OlderSavesNothing DEF Carries
<1> QED BY <1>DisconnectSteps, <1>TrackSteps, <1>CrashSteps, <1>RestartSteps, <1>OlderBinarySteps

-----------------------------------------------------------------------------

(* The server and the archive *)

(* A step of the server, the archive or the operator beside the process.    *)
ServerStep ==
    /\ UNCHANGED <<setting, process, stored, owed>>
    /\ ServerTyped' /\ head <= head' /\ host <= host'
    /\ jobs' \subseteq JobType /\ told' \in {told, FALSE}

(* A job's step changes that job only: it gets its tip, or ends.            *)
JobStep(j, k) ==
    /\ UNCHANGED <<setting, server, process, stored, history, left>>
    /\ jobs' = (jobs \ {j}) \cup {k}
    /\ k \in JobType /\ k.after_seq = j.after_seq /\ k.from = j.from
    /\ \/ j.tip = None /\ k.tip = sealed
       \/ j.tip # None /\ k.tip = j.tip

(* So do the steps of the server, of its operator and of the jobs.          *)
LEMMA ServerSteps ==
    IInv => /\ Environment => IInv' /\ Carries
            /\ \A b \in {FirstBase, FirstBase + 1, 0} : MoveHost(b) => IInv' /\ Carries
            /\ \A j \in jobs : JobPlans(j) \/ JobEnds(j) => IInv' /\ Carries
            /\ UNCHANGED vars => IInv' /\ Carries
<1>CoveredGrows.
    ASSUME ServerTyped, DataTyped, jobs' = jobs, head' \in Nat, head <= head',
           sealed' \in Nat, sealed <= sealed'
    PROVE  Covered \subseteq Covered'
  <2> USE <1>CoveredGrows
  <2> SUFFICES ASSUME NEW i \in Covered PROVE i \in Covered'
    OBVIOUS
  <2>1. i \in 1..head
    BY DEF Covered
  <2>2. PICK j \in jobs : j.from < i /\ i <= IF j.tip = None THEN sealed ELSE j.tip
    BY DEF Covered
  <2>3. i \in 1..head' /\ i <= IF j.tip = None THEN sealed' ELSE j.tip
    BY SMT, <2>1, <2>2, ServerFacts
  <2> QED BY <2>2, <2>3 DEF Covered
(* A step that keeps the safe start where it is. *)
<1>CarriedOver.
    ASSUME ServerTyped, head' \in Nat, head <= head',
           \A o \in 0..head : Sound(setting) /\ LosesNothing(o) => LosesNothing(o)'
    PROVE  Carries
  <2> USE <1>CarriedOver
  <2>1. \A o \in 0..head : o \in 0..head'
    BY SMT, ServerFacts
  <2> QED BY <2>1 DEF Carries
(* A server that starts its numbering over leaves old seqs above the new.   *)
<1>RenumberKeepsNames.
    ASSUME NEW n \in 1..MaxEvents, NEW bb \in 0..n, NEW seq \in 0..MaxSeq,
           EventIn(FirstBase, seq) >= 1
    PROVE  EventIn(bb, seq) = EventIn(FirstBase, seq) /\ Stale(bb, seq)
  BY SMT, <1>RenumberKeepsNames, Constants DEF EventIn, Stale
<1>ServerFrame.
    ASSUME IInv, ServerStep
    PROVE  /\ ServerTyped' /\ ProcessTyped' /\ DataTyped' /\ Shape'
           /\ setting' = setting /\ mode' = mode /\ session' = session /\ last' = last
           /\ wm' = wm /\ tracked' = tracked /\ conn' = conn /\ stored' = stored /\ owed' = owed
           /\ SavedIndex' = SavedIndex /\ FlushPoint' = FlushPoint
           /\ head \in Nat /\ head' \in Nat /\ head <= head'
  <2> USE <1>ServerFrame
  <2>0. ServerTyped /\ ProcessTyped /\ DataTyped /\ Shape
    BY IInvParts
  <2>1. /\ setting' = setting /\ process' = process /\ stored' = stored /\ owed' = owed
        /\ told' \in {told, FALSE} /\ ServerTyped' /\ head <= head' /\ host <= host'
        /\ jobs' \subseteq JobType
    BY DEF ServerStep
  <2>2. /\ mode' = mode /\ session' = session /\ last' = last /\ wm' = wm /\ tracked' = tracked
        /\ conn' = conn
    BY <2>1 DEF process
  <2>3. SavedIndex' = SavedIndex
    BY <2>1 DEF SavedIndex
  <2>4. FlushPoint' = FlushPoint
    BY <2>2 DEF FlushPoint
  <2>5. ProcessTyped'
    BY <2>0, <2>2 DEF ProcessTyped
  <2>6. head \in Nat /\ head' \in Nat /\ host \in Nat /\ host' \in Nat
    BY SMT, <2>0, <2>1, ServerFacts DEF ServerTyped
  <2>7. DataTyped'
    <3>1. SavedIndex \in Nat /\ stored.host \in Nat /\ SavedIndex <= head /\ stored.host <= host
      <4>1. SavedIndex \in 0..head /\ stored.host \in Nat /\ stored.host <= host
        BY <2>0, StoredFacts DEF DataTyped
      <4> QED BY SMT, <2>6, <4>1
    <3>2. SavedIndex <= head' /\ stored.host <= host'
      BY SMT, <2>1, <2>6, <3>1
    <3> QED BY <2>0, <2>1, <2>3, <3>2 DEF DataTyped
  <2>8. NewSession' = NewSession /\ NoConnection' = NoConnection
    BY <2>1 DEF NewSession, NoConnection
  <2>9. Shape'
    BY <2>0, <2>1, <2>2, <2>3, <2>8 DEF Shape
  <2> QED BY ZenonT(40), <2>1, <2>2, <2>3, <2>4, <2>5, <2>6, <2>7, <2>9
(* Such a step that leaves the numbering keeps the invariant. *)
<1>NumberingKept.
    ASSUME IInv, ServerStep, base' = base, host' = host
    PROVE  IInv'
  <2> USE <1>NumberingKept
  <2>0. ServerTyped /\ ProcessTyped /\ DataTyped /\ Numbered /\ Positioned /\ Recent
    BY IInvParts
  <2>1. Numbered'
    BY <2>0, <1>ServerFrame, NumberedKept
  <2>2. told' => told
    BY DEF ServerStep
  <2>3. Recent'
    BY <2>0, <2>2, <1>ServerFrame, RecentKept
  <2>4. Positioned'
    <3>1. \A i \in 1..head : i \in 1..head'
      BY SMT, <1>ServerFrame
    <3>2. ASSUME mode = "stream" PROVE conn.pos <= head' + 1
      <4>1. conn.pos \in Nat /\ conn.pos <= head + 1
        BY <2>0, <3>2 DEF ProcessTyped, ConnType, Positioned
      <4> QED BY SMT, <4>1, <1>ServerFrame
    <3> QED BY <2>0, <3>1, <3>2, <1>ServerFrame DEF Positioned
  <2> QED BY <2>1, <2>3, <2>4, <1>ServerFrame DEF IInv, Typed
<1>ServerLosesNothing.
    ASSUME IInv, NEW o, LosesNothing(o), ServerStep, UNCHANGED <<done, gaps, silent>>,
           Covered \subseteq Covered', \A i \in 1..head : log'[i] = log[i], JobsReach',
           last # None => EventIn(base', last) = EventIn(base, last),
           mode = "stream" => base' = base
    PROVE  LosesNothing(o)'
  <2> USE <1>ServerLosesNothing
  <2>0. /\ SaveSafe(o) /\ SlotSafe(o) /\ LastSafe(o) /\ GapSafe(o) /\ StreamSafe(o)
        /\ FreshSafe(o) /\ DrainsSettle
    BY DEF LosesNothing, Safe
  <2>1. /\ setting' = setting /\ mode' = mode /\ session' = session /\ last' = last
        /\ wm' = wm /\ tracked' = tracked /\ conn' = conn /\ stored' = stored /\ owed' = owed
        /\ SavedIndex' = SavedIndex /\ FlushPoint' = FlushPoint
        /\ head \in Nat /\ head' \in Nat /\ head <= head'
    BY <1>ServerFrame
  <2>2. Grows(o)
    <3>1. ASSUME NEW i \in Wanted(o)' PROVE i \in Wanted(o) \/ i > head
      <4>1. /\ i \in 1..head' /\ log'[i] \in tracked
            /\ i > IF stored.time = None THEN o ELSE owed[log'[i]]
        BY ZenonT(40), <2>1 DEF Wanted
      <4>2. i \in 1..head \/ i > head
        BY SMT, <2>1, <4>1
      <4> QED BY <4>1, <4>2 DEF Wanted
    <3>2. Accounted \subseteq Accounted'
      BY DEF Accounted
    <3> QED BY <3>1, <3>2 DEF Grows
  <2>3. Handled \subseteq Handled' /\ Streamed \subseteq Streamed'
    <3>1. Handled \subseteq Handled'
      BY <2>1, <2>2, HandledGrows
    <3> QED BY <2>1, <3>1 DEF Streamed, PendingGap
  <2>4. SaveSafe(o)' /\ SlotSafe(o)'
    BY <2>0, <2>1, <2>2, SaveSafeKept, SlotSafeKept
  <2>5. LastSafe(o)'
    BY <2>0, <2>1, <2>2, <2>3, LastSafeKept
  <2>6. GapSafe(o)'
    <3>1. (session.from_tip => session.gap.pending) /\ (session.gap.pending => last = None)
      BY <2>0 DEF GapSafe
    <3> QED BY <2>0, <2>1, <2>2, <3>1, GapSafeKept
  <2>7. StreamSafe(o)'
    <3>1. CASE mode = "stream"
      BY <2>0, <2>1, <2>2, <2>3, <3>1, StreamSafeKept
    <3>2. CASE mode # "stream"
      BY <2>1, <3>2 DEF StreamSafe
    <3> QED BY <3>1, <3>2
  <2>8. FreshSafe(o)'
    <3>1. stored.time = None /\ mode = "stream" => conn.pos >= o
      BY <2>0 DEF FreshSafe
    <3> QED BY <2>0, <2>1, <3>1, FreshSafeKept
  <2>9. DrainsSettle'
    BY <2>0, <2>1, DrainsKept
  <2> QED BY <2>4, <2>5, <2>6, <2>7, <2>8, <2>9 DEF LosesNothing, Safe
<1>ProduceSteps.
    IInv => \A c \in setting.collections : Produce(c) => IInv' /\ Carries
  <2>ProduceIsServerStep.
      ASSUME IInv, NEW c \in setting.collections, Produce(c)
      PROVE  /\ ServerStep /\ base' = base /\ host' = host /\ sealed' = sealed /\ jobs' = jobs
             /\ head' = head + 1 /\ LeftFalls
             /\ \A i \in 1..head : log'[i] = log[i]
    <3> USE <2>ProduceIsServerStep
    <3>0. ServerTyped /\ DataTyped
      BY IInvParts
    <3>1. /\ log' = Append(log, c) /\ head < MaxEvents /\ Spend({"event"})
          /\ UNCHANGED <<setting, base, oldest, sealed, host, process, database, history>>
      BY DEF Produce
    <3>2. LeftFalls
      <4>1. {"event"} \in SUBSET Kinds
        BY DEF Kinds
      <4> QED BY <3>0, <3>1, <4>1, SpendFalls
    <3>3. c \in Collections
      BY <3>0, SettingTyped
    <3>4. log \in Seq(Collections)
      BY <3>0 DEF ServerTyped
    <3>5. Append(log, c) \in Seq(Collections) /\ Len(Append(log, c)) = Len(log) + 1
          /\ \A i \in 1..Len(log) : Append(log, c)[i] = log[i]
      BY SMT, <3>3, <3>4
    <3>6. log' \in Seq(Collections) /\ head' = head + 1 /\ \A i \in 1..head : log'[i] = log[i]
      BY <3>1, <3>5 DEF head
    <3>7. /\ head \in 1..MaxEvents /\ base \in {FirstBase, FirstBase + 1} \cup 0..head
          /\ oldest \in 1..(head + 1) /\ base < oldest /\ sealed \in 1..head /\ base <= sealed
      BY <3>0 DEF ServerTyped
    <3>8. /\ head + 1 \in 1..MaxEvents /\ base \in {FirstBase, FirstBase + 1} \cup 0..(head + 1)
          /\ oldest \in 1..(head + 1 + 1) /\ sealed \in 1..(head + 1) /\ head <= head + 1
      <4>1. head \in Nat /\ head + 1 \in 1..MaxEvents /\ head <= head + 1
        BY SMTT(30), <3>1, <3>7, Constants
      <4>2. \A n \in Nat : 0..n \subseteq 0..(n + 1) /\ 1..n \subseteq 1..(n + 1)
                           /\ 1..(n + 1) \subseteq 1..(n + 1 + 1)
        BY SMT
      <4> QED BY <3>7, <4>1, <4>2
    <3>9. ServerTyped'
      BY ZenonT(40), <3>0, <3>1, <3>2, <3>6, <3>7, <3>8, BudgetKept DEF ServerTyped
    <3>10. host <= host' /\ head <= head'
      BY SMT, <3>0, <3>1, <3>6, <3>8, ServerFacts
    <3> QED BY <3>0, <3>1, <3>2, <3>6, <3>9, <3>10 DEF ServerStep, DataTyped, database, history
  <2>ProduceLosesNothing.
      ASSUME IInv, NEW o \in 0..head, LosesNothing(o), NEW c \in setting.collections, Produce(c)
      PROVE  LosesNothing(o)'
    <3> USE <2>ProduceLosesNothing
    <3>1. /\ ServerStep /\ base' = base /\ sealed' = sealed /\ jobs' = jobs /\ LeftFalls
          /\ \A i \in 1..head : log'[i] = log[i]
      BY <2>ProduceIsServerStep
    <3>2. UNCHANGED <<setting, done, gaps, silent>>
      BY DEF Produce, history
    <3>3. ServerTyped /\ DataTyped /\ JobsReach
      BY IInvParts DEF LosesNothing
    <3>4. Covered \subseteq Covered'
      <4>1. sealed' \in Nat /\ sealed <= sealed'
        BY SMT, <3>1, <3>3, ServerFacts
      <4> QED BY ZenonT(40), <3>1, <3>3, <4>1, <1>ServerFrame, <1>CoveredGrows
    <3>5. JobsReach'
      BY <3>1, <3>2, <3>3, JobsReachKept
    <3> QED BY <3>1, <3>2, <3>4, <3>5, <1>ServerLosesNothing
  <2> SUFFICES ASSUME IInv, NEW c \in setting.collections, Produce(c)
               PROVE  IInv' /\ Carries
    OBVIOUS
  <2>1. ServerStep /\ base' = base /\ host' = host /\ ServerTyped
    BY <2>ProduceIsServerStep, IInvParts
  <2>2. Carries
    BY <2>1, <2>ProduceLosesNothing, <1>ServerFrame, <1>CarriedOver
  <2> QED BY <2>1, <2>2, <1>NumberingKept
<1>ExpireSteps.
    IInv /\ Expire => IInv' /\ Carries
  <2>ExpireIsServerStep.
      ASSUME IInv, Expire
      PROVE  /\ ServerStep /\ base' = base /\ host' = host /\ sealed' = sealed /\ jobs' = jobs
             /\ log' = log /\ LeftFalls
    <3> USE <2>ExpireIsServerStep
    <3>0. ServerTyped /\ DataTyped
      BY IInvParts
    <3>1. /\ oldest <= head /\ Spend({"expiry"}) /\ oldest' = oldest + 1
          /\ UNCHANGED <<setting, log, base, sealed, host, process, database, history>>
      BY DEF Expire
    <3>2. LeftFalls
      <4>1. {"expiry"} \in SUBSET Kinds
        BY DEF Kinds
      <4> QED BY <3>0, <3>1, <4>1, SpendFalls
    <3>3. head' = head
      BY <3>1 DEF head
    <3>4. oldest + 1 \in 1..(head + 1) /\ base < oldest + 1 /\ head <= head /\ host <= host
      <4>1. oldest \in Nat /\ head \in Nat /\ base \in Int /\ host \in Nat /\ base < oldest
        BY <3>0, ServerFacts DEF ServerTyped
      <4> QED BY SMT, <3>1, <4>1
    <3>5. ServerTyped'
      BY <3>0, <3>1, <3>2, <3>3, <3>4, BudgetKept DEF ServerTyped
    <3> QED BY <3>0, <3>1, <3>2, <3>3, <3>4, <3>5 DEF ServerStep, DataTyped, database, history
  <2>ExpireLosesNothing.
      ASSUME IInv, NEW o \in 0..head, LosesNothing(o), Expire
      PROVE  LosesNothing(o)'
    <3> USE <2>ExpireLosesNothing
    <3>1. /\ ServerStep /\ base' = base /\ sealed' = sealed /\ jobs' = jobs /\ LeftFalls
          /\ log' = log
      BY <2>ExpireIsServerStep
    <3>2. UNCHANGED <<setting, done, gaps, silent>>
      BY DEF Expire, history
    <3>3. ServerTyped /\ JobsReach
      BY IInvParts DEF LosesNothing
    <3>4. Covered' = Covered
      <4>1. head' = head
        BY <3>1 DEF head
      <4> QED BY <3>1, <4>1, CoveredSame
    <3>5. JobsReach'
      BY <3>1, <3>2, <3>3, JobsReachKept
    <3> QED BY <3>1, <3>2, <3>4, <3>5, <1>ServerLosesNothing
  <2> SUFFICES ASSUME IInv, Expire
               PROVE  IInv' /\ Carries
    OBVIOUS
  <2>1. ServerStep /\ base' = base /\ host' = host /\ ServerTyped
    BY <2>ExpireIsServerStep, IInvParts
  <2>2. Carries
    BY <2>1, <2>ExpireLosesNothing, <1>ServerFrame, <1>CarriedOver
  <2> QED BY <2>1, <2>2, <1>NumberingKept
<1>SealSteps.
    IInv => \A i \in 1..head : Seal(i) => IInv' /\ Carries
  <2>SealIsServerStep.
      ASSUME IInv, NEW i \in 1..head, Seal(i)
      PROVE  /\ ServerStep /\ base' = base /\ host' = host /\ jobs' = jobs
             /\ log' = log /\ sealed' = i /\ sealed < i /\ LeftFalls /\ left["seal"] > 0
    <3> USE <2>SealIsServerStep
    <3>0. ServerTyped /\ DataTyped
      BY IInvParts
    <3>1. /\ i > sealed /\ Spend({"seal"}) /\ sealed' = i
          /\ UNCHANGED <<setting, log, base, oldest, host, process, database, history>>
      BY DEF Seal
    <3>2. LeftFalls /\ left["seal"] > 0
      <4>1. {"seal"} \in SUBSET Kinds
        BY DEF Kinds
      <4> QED BY <3>0, <3>1, <4>1, SpendFalls
    <3>3. head' = head
      BY <3>1 DEF head
    <3>4. base <= i /\ head <= head /\ host <= host /\ sealed < i
      <4>1. head \in Nat /\ base \in Int /\ host \in Nat /\ sealed \in Nat /\ base <= sealed
        BY <3>0, ServerFacts DEF ServerTyped
      <4> QED BY SMT, <3>1, <4>1
    <3>5. ServerTyped'
      BY <3>0, <3>1, <3>2, <3>3, <3>4, BudgetKept DEF ServerTyped
    <3> QED BY <3>0, <3>1, <3>2, <3>3, <3>4, <3>5 DEF ServerStep, DataTyped, database, history
  <2>SealLosesNothing.
      ASSUME IInv, Sound(setting), NEW o \in 0..head, LosesNothing(o), NEW i \in 1..head, Seal(i)
      PROVE  LosesNothing(o)'
    <3> USE <2>SealLosesNothing
    <3>1. /\ ServerStep /\ base' = base /\ jobs' = jobs /\ log' = log /\ sealed' = i /\ sealed < i
          /\ left["seal"] > 0
      BY <2>SealIsServerStep
    <3>2. UNCHANGED <<setting, done, gaps, silent>>
      BY DEF Seal, history
    <3>3. ServerTyped /\ DataTyped /\ JobsReach
      BY IInvParts DEF LosesNothing
    <3>4. Covered \subseteq Covered'
      <4>1. sealed' \in Nat /\ sealed <= sealed'
        BY SMT, <3>1, <3>3, ServerFacts
      <4> QED BY <3>1, <3>3, <4>1, <1>ServerFrame, <1>CoveredGrows
    <3>5. setting.gap_replay => ~(left'["seal"] > 0)
      <4>1. {"seal"} \in SUBSET Kinds /\ "seal" \in Kinds
        BY DEF Kinds
      <4>2. left'["seal"] = left["seal"] - 1
        BY <3>3, <4>1, SpendFalls DEF Seal
      <4>3. /\ left["seal"] \in Nat /\ left["seal"] <= setting.budget["seal"]
            /\ setting.budget["seal"] \in 0..MaxEvents
        BY <3>3, <4>1, SettingTyped DEF ServerTyped
      <4>4. setting.gap_replay => setting.budget["seal"] <= 1
        BY DEF Sound
      <4> QED BY SMT, <4>2, <4>3, <4>4, Constants
    <3>6. jobs = {}
      BY <3>1, <3>3 DEF JobsReach
    <3>7. JobsReach'
      BY <3>1, <3>2, <3>5, <3>6 DEF JobsReach
    <3> QED BY <3>1, <3>2, <3>4, <3>7, <1>ServerLosesNothing
  <2> SUFFICES ASSUME IInv, NEW i \in 1..head, Seal(i)
               PROVE  IInv' /\ Carries
    OBVIOUS
  <2>1. ServerStep /\ base' = base /\ host' = host /\ ServerTyped
    BY <2>SealIsServerStep, IInvParts
  <2>2. Carries
    BY <2>1, <2>SealLosesNothing, <1>ServerFrame, <1>CarriedOver
  <2> QED BY <2>1, <2>2, <1>NumberingKept
<1>JobSteps.
    IInv => \A j \in jobs : JobPlans(j) \/ JobEnds(j) => IInv' /\ Carries
  <2>JobStepOf.
      ASSUME IInv, NEW j \in jobs, JobPlans(j) \/ JobEnds(j)
      PROVE  \E k : JobStep(j, k)
    <3> USE <2>JobStepOf
    <3>0. j \in JobType /\ sealed \in Nat
      BY IInvParts, ServerFacts DEF DataTyped
    <3>1. CASE JobPlans(j)
      <4> DEFINE k == [j EXCEPT !.tip = sealed]
      <4>1. k \in JobType /\ k.after_seq = j.after_seq /\ k.from = j.from /\ k.tip = sealed
        BY <3>0 DEF JobType
      <4>2. j.tip = None /\ jobs' = (jobs \ {j}) \cup {k}
            /\ UNCHANGED <<setting, server, process, stored, history, left>>
        BY <3>1 DEF JobPlans
      <4>3. JobStep(j, k)
        BY <4>1, <4>2 DEF JobStep
      <4> QED BY <4>3
    <3>2. CASE JobEnds(j)
      <4> DEFINE k == [j EXCEPT !.open = FALSE]
      <4>1. k \in JobType /\ k.after_seq = j.after_seq /\ k.from = j.from /\ k.tip = j.tip
        BY <3>0 DEF JobType
      <4>2. j.tip # None /\ jobs' = (jobs \ {j}) \cup {k}
            /\ UNCHANGED <<setting, server, process, stored, history, left>>
        BY <3>2 DEF JobEnds
      <4>3. JobStep(j, k)
        BY <4>1, <4>2 DEF JobStep
      <4> QED BY <4>3
    <3> QED BY <3>1, <3>2
  <2>JobIsServerStep.
      ASSUME IInv, NEW j \in jobs, NEW k, JobStep(j, k)
      PROVE  /\ ServerStep /\ base' = base /\ host' = host /\ sealed' = sealed /\ log' = log
             /\ LeftFalls
    <3> USE <2>JobIsServerStep
    <3>0. ServerTyped /\ DataTyped
      BY IInvParts
    <3>1. /\ UNCHANGED <<setting, server, process, stored, history, left>>
          /\ jobs' = (jobs \ {j}) \cup {k} /\ k \in JobType
      BY DEF JobStep
    <3>2. LeftFalls
      BY <3>0, <3>1, LeftStays
    <3>3. ServerTyped' /\ head' = head /\ base' = base /\ host' = host /\ sealed' = sealed /\ log' = log
      BY <3>0, <3>1, <3>2, ServerKept
    <3>4. head <= head /\ host <= host
      BY SMT, <3>0, ServerFacts
    <3>5. jobs' \subseteq JobType
      BY <3>0, <3>1 DEF DataTyped
    <3> QED BY <3>0, <3>1, <3>2, <3>3, <3>4, <3>5 DEF ServerStep, DataTyped, history
  <2>JobKeepsIInv.
      ASSUME IInv, NEW j \in jobs, JobPlans(j) \/ JobEnds(j)
      PROVE  IInv'
    <3> USE <2>JobKeepsIInv
    <3>1. PICK k : JobStep(j, k)
      BY <2>JobStepOf
    <3> QED BY <3>1, <2>JobIsServerStep, <1>NumberingKept
  <2>JobLosesNothing.
      ASSUME IInv, NEW o \in 0..head, LosesNothing(o), NEW j \in jobs, NEW k, JobStep(j, k)
      PROVE  LosesNothing(o)'
    <3> USE <2>JobLosesNothing
    <3>1. ServerStep /\ base' = base /\ sealed' = sealed /\ log' = log
      BY <2>JobIsServerStep
    <3>2. UNCHANGED <<setting, done, gaps, silent, left>>
      BY DEF JobStep, history
    <3>3. ServerTyped /\ DataTyped /\ JobsReach /\ j \in JobType /\ sealed \in Nat
      BY IInvParts, ServerFacts DEF LosesNothing, DataTyped
    <3>4. /\ jobs' = (jobs \ {j}) \cup {k} /\ k.after_seq = j.after_seq /\ k.from = j.from
          /\ \/ j.tip = None /\ k.tip = sealed
             \/ j.tip # None /\ k.tip = j.tip
      BY DEF JobStep
    <3>5. Covered \subseteq Covered'
      <4> SUFFICES ASSUME NEW i \in Covered PROVE i \in Covered'
        OBVIOUS
      <4>1. i \in 1..head' /\ \E g \in jobs : g.from < i /\ i <= IF g.tip = None THEN sealed ELSE g.tip
        BY <3>1 DEF Covered, head
      <4>2. PICK g \in jobs : g.from < i /\ i <= IF g.tip = None THEN sealed ELSE g.tip
        BY <4>1
      <4>3. CASE g = j
        <5>1. k \in jobs' /\ k.from < i /\ i <= IF k.tip = None THEN sealed' ELSE k.tip
          BY <3>1, <3>4, <4>2, <4>3
        <5> QED BY <4>1, <5>1 DEF Covered
      <4>4. CASE g # j
        <5>1. g \in jobs' /\ g.from < i /\ i <= IF g.tip = None THEN sealed' ELSE g.tip
          BY <3>1, <3>4, <4>2, <4>4
        <5> QED BY <4>1, <5>1 DEF Covered
      <4> QED BY <4>3, <4>4
    <3>6. JobsReach'
      <4>1. setting.gap_replay /\ ~(left["seal"] > 0)
        BY <3>3 DEF JobsReach
      <4>2. sealed >= sealed
        BY SMT, <3>3
      <4>3. ASSUME NEW g \in jobs'
            PROVE  /\ g.after_seq # None /\ EventIn(base, g.after_seq) = g.from /\ g.from >= 1
                   /\ g.tip # None /\ ~Stale(base, g.after_seq) => g.tip >= sealed
        <5>1. CASE g = k
          BY <3>3, <3>4, <4>2, <5>1 DEF JobsReach
        <5>2. CASE g # k
          BY <3>3, <3>4, <5>2 DEF JobsReach
        <5> QED BY <5>1, <5>2
      <4> QED BY <3>1, <3>2, <4>1, <4>3 DEF JobsReach
    <3> QED BY <3>1, <3>2, <3>5, <3>6, <1>ServerLosesNothing
  <2> SUFFICES ASSUME IInv, NEW j \in jobs, JobPlans(j) \/ JobEnds(j)
               PROVE  IInv' /\ Carries
    OBVIOUS
  <2>1. PICK k : JobStep(j, k)
    BY <2>JobStepOf
  <2>2. ServerStep /\ ServerTyped
    BY <2>1, <2>JobIsServerStep, IInvParts
  <2>3. Carries
    BY <2>1, <2>2, <2>JobLosesNothing, <1>ServerFrame, <1>CarriedOver
  <2> QED BY <2>3, <2>JobKeepsIInv
<1>RenumberSteps.
    IInv => \A b \in 0..head : Renumber(b) => IInv' /\ Carries
  <2>RenumberIsServerStep.
      ASSUME IInv, NEW b \in 0..head, Renumber(b)
      PROVE  /\ ServerStep /\ base = FirstBase /\ base' = b /\ host' = host /\ jobs' = jobs
             /\ log' = log /\ sealed' = Later(sealed, b) /\ told' = FALSE
             /\ mode # "stream" /\ LeftFalls
    <3> USE <2>RenumberIsServerStep
    <3>0. ServerTyped /\ DataTyped
      BY IInvParts
    <3>1. /\ mode # "stream" /\ base = FirstBase /\ Spend({"renumber"}) /\ base' = b
          /\ oldest' = Later(oldest, b + 1) /\ sealed' = Later(sealed, b) /\ told' = FALSE
          /\ UNCHANGED <<setting, log, host, process, database, done, gaps, silent, owed>>
      BY DEF Renumber
    <3>2. LeftFalls
      <4>1. {"renumber"} \in SUBSET Kinds
        BY DEF Kinds
      <4> QED BY <3>0, <3>1, <4>1, SpendFalls
    <3>3. head' = head
      BY <3>1 DEF head
    <3>4. /\ Later(oldest, b + 1) \in 1..(head + 1) /\ b < Later(oldest, b + 1)
          /\ Later(sealed, b) \in 1..head /\ b <= Later(sealed, b) /\ head <= head /\ host <= host
      <4>1. oldest \in 1..(head + 1) /\ head \in Nat /\ host \in Nat /\ sealed \in 1..head
        BY <3>0, ServerFacts DEF ServerTyped
      <4> QED BY SMT, <4>1 DEF Later
    <3>5. ServerTyped'
      BY <3>0, <3>1, <3>2, <3>3, <3>4, BudgetKept DEF ServerTyped
    <3> QED BY <3>0, <3>1, <3>2, <3>3, <3>4, <3>5 DEF ServerStep, DataTyped, database
  <2>RenumberKeepsIInv.
      ASSUME IInv, NEW b \in 0..head, Renumber(b)
      PROVE  IInv'
    <3> USE <2>RenumberKeepsIInv
    <3>0. ServerTyped /\ ProcessTyped /\ DataTyped /\ Numbered /\ head \in 1..MaxEvents
      BY IInvParts, ServerFacts
    <3>1. ServerStep /\ base = FirstBase /\ base' = b /\ host' = host /\ log' = log /\ told' = FALSE
          /\ mode # "stream"
      BY <2>RenumberIsServerStep
    <3>2. head' = head
      BY <3>1 DEF head
    <3>3. Positioned' /\ Recent'
      BY <3>1, <1>ServerFrame DEF Positioned, Recent
    <3>4. ASSUME NEW seq \in 0..MaxSeq, NEW i \in 1..MaxEvents, Names(base, seq, i)
          PROVE  Names(b, seq, i)
      <4>1. seq # None => EventIn(FirstBase, seq) >= 1 /\ EventIn(FirstBase, seq) = i
        <5>1. seq # None => EventIn(FirstBase, seq) = i
          BY <3>1, <3>4 DEF Names
        <5> QED BY SMT, <5>1
      <4> QED BY <3>0, <4>1, <1>RenumberKeepsNames DEF Names
    <3>5. last # None => EventIn(b, last) \in 1..head
      <4>1. last # None => EventIn(FirstBase, last) \in 1..head
        BY <3>0, <3>1 DEF Numbered
      <4>2. last # None => EventIn(FirstBase, last) >= 1
        BY SMT, <4>1
      <4>3. last \in 0..MaxSeq
        BY <3>0 DEF ProcessTyped
      <4> QED BY <3>0, <4>1, <4>2, <4>3, <1>RenumberKeepsNames
    <3>6. ASSUME NEW k \in 1..Len(wm.pending)
          PROVE  SlotIndex(wm, k) <= head /\ Names(b, wm.pending[k].point.seq, SlotIndex(wm, k))
      <4>1. SlotIndex(wm, k) <= head /\ Names(base, wm.pending[k].point.seq, SlotIndex(wm, k))
        BY <3>0 DEF Numbered
      <4>2. wm.pending[k].point.seq \in 0..MaxSeq /\ SlotIndex(wm, k) \in 1..MaxEvents
        BY <3>0, WatermarkTyped, PointTyped DEF ProcessTyped
      <4> QED BY <3>4, <4>1, <4>2
    <3>7. wm.applied # NoPoint =>
             Index(wm.applied) <= head /\ Names(b, wm.applied.seq, Index(wm.applied))
      <4>1. wm.applied # NoPoint =>
               /\ Index(wm.applied) <= head /\ Names(base, wm.applied.seq, Index(wm.applied))
               /\ wm.applied.seq \in 0..MaxSeq /\ Index(wm.applied) \in 1..MaxEvents
        BY <3>0, WatermarkTyped, PointTyped DEF ProcessTyped, Numbered
      <4> QED BY <3>4, <4>1
    <3>8. stored.host = host /\ ~stored.older => Names(b, stored.seq, SavedIndex)
      <4>1. SavedIndex = 0 => stored.time = None
        <5>1. stored.time # None => SavedIndex \in 1..head
          BY <3>0, StoredFacts
        <5> QED BY SMT, <5>1
      <4>2. stored.time = None => stored.seq = None
        <5>1. stored.time = None => stored = NothingSaved
          BY IInvParts DEF Shape
        <5> QED BY SMT, <5>1 DEF NothingSaved
      <4>3. stored.seq \in 0..MaxSeq /\ (SavedIndex # 0 => SavedIndex \in 1..MaxEvents)
        <5>1. stored.seq \in 0..MaxSeq /\ SavedIndex \in 0..head
          BY <3>0, StoredFacts
        <5>2. \A i \in 0..head : i # 0 => i \in 1..MaxEvents
          BY SMT, <3>0, Constants
        <5> QED BY <5>1, <5>2
      <4>4. SavedIndex = 0 => Names(b, stored.seq, SavedIndex)
        BY <4>1, <4>2 DEF Names
      <4> QED BY <3>0, <3>4, <4>3, <4>4 DEF Numbered
    <3>9. Numbered'
      BY <3>1, <3>2, <3>5, <3>6, <3>7, <3>8, <1>ServerFrame DEF Numbered
    <3> QED BY <3>1, <3>3, <3>9, <1>ServerFrame DEF IInv, Typed
  <2>RenumberLosesNothing.
      ASSUME IInv, NEW o \in 0..head, LosesNothing(o), NEW b \in 0..head, Renumber(b)
      PROVE  LosesNothing(o)'
    <3> USE <2>RenumberLosesNothing
    <3>1. /\ ServerStep /\ base = FirstBase /\ base' = b /\ jobs' = jobs /\ log' = log
          /\ sealed' = Later(sealed, b) /\ mode # "stream" /\ LeftFalls
      BY <2>RenumberIsServerStep
    <3>2. UNCHANGED <<setting, done, gaps, silent>>
      BY DEF Renumber
    <3>3. /\ ServerTyped /\ DataTyped /\ ProcessTyped /\ Numbered /\ JobsReach
          /\ head \in 1..MaxEvents /\ sealed \in Nat
      BY IInvParts, ServerFacts DEF LosesNothing
    <3>4. Covered \subseteq Covered'
      <4>1. sealed' \in Nat /\ sealed <= sealed'
        BY SMT, <3>1, <3>3 DEF Later
      <4> QED BY <3>1, <3>3, <4>1, <1>ServerFrame, <1>CoveredGrows
    <3>5. ASSUME NEW seq \in 0..MaxSeq, EventIn(base, seq) >= 1
          PROVE  EventIn(b, seq) = EventIn(base, seq) /\ Stale(b, seq)
      BY <3>1, <3>3, <3>5, <1>RenumberKeepsNames
    <3>6. last # None => EventIn(base', last) = EventIn(base, last)
      <4>1. last # None => EventIn(base, last) \in 1..head
        BY <3>3 DEF Numbered
      <4>2. \A i \in 1..head : i >= 1
        BY SMT
      <4>3. last \in 0..MaxSeq
        BY <3>3 DEF ProcessTyped
      <4> QED BY <3>1, <3>5, <4>1, <4>2, <4>3
    <3>7. JobsReach'
      <4>1. ASSUME NEW j \in jobs
            PROVE  /\ j.after_seq # None /\ EventIn(b, j.after_seq) = j.from /\ j.from >= 1
                   /\ Stale(b, j.after_seq)
        <5>1. j.after_seq # None /\ EventIn(base, j.after_seq) = j.from /\ j.from >= 1
          BY <3>3 DEF JobsReach
        <5>2. j.after_seq \in 0..MaxSeq
          BY <3>3 DEF DataTyped, JobType
        <5> QED BY <3>5, <5>1, <5>2
      <4>2. ASSUME setting.gap_replay, left'["seal"] > 0
            PROVE  jobs = {} /\ Later(sealed, b) = Later(1, b)
        <5>1. "seal" \in Kinds
          BY DEF Kinds
        <5>2. left["seal"] \in Nat /\ left'["seal"] \in Nat /\ left'["seal"] <= left["seal"]
          BY <3>1, <3>3, <5>1 DEF LeftFalls, ServerTyped
        <5>3. left["seal"] > 0
          BY SMT, <4>2, <5>2
        <5>4. jobs = {} /\ sealed = Later(1, FirstBase)
          BY <3>1, <3>3, <4>2, <5>3 DEF JobsReach
        <5>5. Later(1, FirstBase) = 1
          BY SMT, Constants DEF Later
        <5> QED BY <5>4, <5>5
      <4> QED BY <3>1, <3>2, <3>3, <4>1, <4>2 DEF JobsReach
    <3> QED BY <3>1, <3>2, <3>4, <3>6, <3>7, <1>ServerLosesNothing
  <2> SUFFICES ASSUME IInv, NEW b \in 0..head, Renumber(b)
               PROVE  IInv' /\ Carries
    OBVIOUS
  <2>1. ServerStep /\ ServerTyped
    BY <2>RenumberIsServerStep, IInvParts
  <2>2. Carries
    BY <2>1, <2>RenumberLosesNothing, <1>ServerFrame, <1>CarriedOver
  <2> QED BY <2>2, <2>RenumberKeepsIInv
<1>MoveSteps.
    IInv => \A b \in {FirstBase, FirstBase + 1, 0} : MoveHost(b) => IInv' /\ Carries
  <2>MoveIsServerStep.
      ASSUME IInv, NEW b \in {FirstBase, FirstBase + 1, 0}, MoveHost(b)
      PROVE  /\ ServerStep /\ base' = b /\ host' = host + 1 /\ log' = log /\ sealed' = sealed
             /\ jobs' = jobs /\ mode = "down" /\ told' = told /\ LeftFalls /\ left["move"] > 0
    <3> USE <2>MoveIsServerStep
    <3>0. ServerTyped /\ DataTyped
      BY IInvParts
    <3>1. /\ mode = "down" /\ Spend({"move"}) /\ base' = b /\ host' = host + 1
          /\ oldest' = Later(oldest, b + 1) /\ sealed' = Later(sealed, b)
          /\ UNCHANGED <<setting, log, process, database, history>>
      BY DEF MoveHost
    <3>2. LeftFalls /\ left["move"] > 0
      <4>1. {"move"} \in SUBSET Kinds
        BY DEF Kinds
      <4> QED BY <3>0, <3>1, <4>1, SpendFalls
    <3>3. head' = head
      BY <3>1 DEF head
    <3>4. /\ Later(oldest, b + 1) = oldest /\ b < oldest /\ Later(sealed, b) = sealed /\ b <= sealed
          /\ head <= head /\ host <= host + 1 /\ host + 1 \in Nat \ {0}
          /\ b \in {FirstBase, FirstBase + 1} \cup 0..head
      <4>1. oldest \in 1..(head + 1) /\ head \in Nat /\ host \in Nat /\ sealed \in 1..head
        BY <3>0, ServerFacts DEF ServerTyped
      <4>2. b \in Int /\ b <= 0
        BY SMT, Constants
      <4>3. b \in {FirstBase, FirstBase + 1} \cup 0..head
        BY SMT, <4>1
      <4> QED BY SMT, <4>1, <4>2, <4>3 DEF Later
    <3>5. ServerTyped'
      BY <3>0, <3>1, <3>2, <3>3, <3>4, BudgetKept DEF ServerTyped
    <3> QED BY <3>0, <3>1, <3>2, <3>3, <3>4, <3>5 DEF ServerStep, DataTyped, database, history
  <2>MoveKeepsIInv.
      ASSUME IInv, NEW b \in {FirstBase, FirstBase + 1, 0}, MoveHost(b)
      PROVE  IInv'
    <3> USE <2>MoveKeepsIInv
    <3>0. ServerTyped /\ DataTyped /\ Shape /\ Numbered
      BY IInvParts
    <3>1. ServerStep /\ mode = "down" /\ host' = host + 1 /\ told' = told
      BY <2>MoveIsServerStep
    <3>2. last = None /\ wm = EmptyWatermark /\ told = FALSE
      BY <3>0, <3>1 DEF Shape
    <3>3. stored.host # host + 1
      <4>1. stored.host \in Nat /\ stored.host <= host /\ host \in Nat
        BY <3>0, StoredFacts, ServerFacts DEF DataTyped
      <4> QED BY SMT, <4>1
    <3>4. Numbered'
      BY <3>1, <3>2, <3>3, <1>ServerFrame, EmptyFacts DEF Numbered
    <3>5. Positioned' /\ Recent'
      BY <3>1, <3>2, <1>ServerFrame DEF Positioned, Recent
    <3> QED BY <3>1, <3>4, <3>5, <1>ServerFrame DEF IInv, Typed
  <2>MoveLosesNothing.
      ASSUME IInv, Sound(setting), NEW o \in 0..head, LosesNothing(o),
             NEW b \in {FirstBase, FirstBase + 1, 0}, MoveHost(b)
      PROVE  LosesNothing(o)'
    <3> USE <2>MoveLosesNothing
    <3>1. /\ ServerStep /\ jobs' = jobs /\ log' = log /\ mode = "down" /\ left["move"] > 0
          /\ UNCHANGED <<setting, done, gaps, silent>>
      BY <2>MoveIsServerStep DEF MoveHost, history
    <3>2. ServerTyped /\ Shape /\ JobsReach
      BY IInvParts DEF LosesNothing
    <3>3. ~setting.gap_replay
      <4>1. "move" \in Kinds
        BY DEF Kinds
      <4>2. left["move"] \in Nat /\ left["move"] <= setting.budget["move"]
        BY <3>2, <4>1 DEF ServerTyped
      <4>3. setting.budget["move"] # 0
        BY SMT, <3>1, <4>2
      <4> QED BY <4>3 DEF Sound
    <3>4. jobs = {}
      BY <3>2, <3>3 DEF JobsReach
    <3>5. JobsReach' /\ Covered = {}
      BY <3>1, <3>3, <3>4 DEF JobsReach, Covered
    <3>6. last = None
      BY <3>1, <3>2 DEF Shape
    <3> QED BY <3>1, <3>5, <3>6, <1>ServerLosesNothing
  <2> SUFFICES ASSUME IInv, NEW b \in {FirstBase, FirstBase + 1, 0}, MoveHost(b)
               PROVE  IInv' /\ Carries
    OBVIOUS
  <2>1. ServerStep /\ ServerTyped
    BY <2>MoveIsServerStep, IInvParts
  <2>2. Carries
    BY <2>1, <2>MoveLosesNothing, <1>ServerFrame, <1>CarriedOver
  <2> QED BY <2>2, <2>MoveKeepsIInv
(* A step that does nothing. *)
<1>StutterSteps.
    IInv /\ UNCHANGED vars => IInv' /\ Carries
  <2> SUFFICES ASSUME IInv, UNCHANGED vars PROVE IInv' /\ Carries
    OBVIOUS
  <2>1. /\ UNCHANGED <<setting, server, process, stored, jobs, owed, told, left>>
        /\ UNCHANGED <<done, gaps, silent>>
    BY DEF vars, database, history
  <2>2. ServerTyped /\ DataTyped /\ LeftFalls
    BY <2>1, IInvParts, LeftStays
  <2>3. ServerTyped' /\ head' = head /\ base' = base /\ host' = host /\ log' = log /\ sealed' = sealed
    BY <2>1, <2>2, ServerKept
  <2>4. ServerStep
    <3>1. head <= head /\ host <= host
      BY SMT, <2>2, ServerFacts
    <3> QED BY <2>1, <2>2, <2>3, <3>1 DEF ServerStep, DataTyped
  <2>5. ASSUME NEW o \in 0..head, LosesNothing(o) PROVE LosesNothing(o)'
    <3>1. JobsReach /\ Covered \subseteq Covered'
      BY <2>1, <2>3, <2>5, CoveredSame DEF LosesNothing
    <3>2. JobsReach'
      BY <2>1, <2>2, <2>3, <3>1, JobsReachKept
    <3> QED BY <2>1, <2>3, <2>4, <2>5, <3>1, <3>2, <1>ServerLosesNothing
  <2>6. Carries
    BY <2>2, <2>4, <2>5, <1>ServerFrame, <1>CarriedOver
  <2> QED BY <2>3, <2>4, <2>6, <1>NumberingKept
<1> QED BY <1>ProduceSteps, <1>RenumberSteps, <1>ExpireSteps, <1>SealSteps, <1>JobSteps, <1>MoveSteps,
           <1>StutterSteps DEF Environment

-----------------------------------------------------------------------------
(* Init, Next and the theorems *)

LEMMA StepCarries == WellOrdered /\ IInv /\ [Next]_vars => IInv' /\ Carries
<1> SUFFICES ASSUME WellOrdered, IInv, [Next]_vars PROVE IInv' /\ Carries
  OBVIOUS
<1>1. CASE Connect
  BY <1>1, ConnectSteps
<1>2. CASE Read
  BY <1>2, ReadSteps
<1>3. CASE \E slot \in 1..Len(wm.pending) : Finish(slot)
  BY <1>3, FinishSteps
<1>4. CASE \E ok \in BOOLEAN : Flush(ok) \/ EndSession(ok)
  BY <1>4, SaveSteps
<1>5. CASE \/ Disconnect \/ Crash \/ Restart
           \/ \E c \in setting.collections : Track(c)
           \/ \E i \in 1..head : OlderBinary(i)
  BY <1>5, ProcessSteps
<1>6. CASE \/ Environment
           \/ \E b \in {FirstBase, FirstBase + 1, 0} : MoveHost(b)
           \/ \E j \in jobs : JobPlans(j) \/ JobEnds(j)
           \/ UNCHANGED vars
  BY <1>6, ServerSteps
<1> QED BY <1>1, <1>2, <1>3, <1>4, <1>5, <1>6 DEF Next

(* What a step does to the scenario, to what is owed before the first save, *)
(* and to the saved seq.                                                    *)
StepSaves == setting' = setting /\ (FreshOwes => FreshOwes') /\ SavedIsCurrent

LEMMA StoredKept ==
    ASSUME setting' = setting, stored' = stored, owed' = owed
    PROVE  StepSaves
BY DEF StepSaves, FreshOwes, SavedIsCurrent

LEMMA FlushSavesTime ==
    ASSUME IInv, NEW ok \in BOOLEAN, stored' = StoredAfterFlush(ok), stored'.time = None
    PROVE  stored.time = None
<1>1. CASE ~(Saves /\ ok)
  BY <1>1 DEF StoredAfterFlush
<1>2. CASE Saves /\ ok
  <2>1. FlushPoint # NoPoint /\ FlushPoint \in Points
    BY <1>2, IInvParts, FlushPointTyped DEF Saves
  <2>2. stored'.time = FlushPoint.time
    BY <1>2 DEF StoredAfterFlush, SavedAs
  <2> QED BY <2>1, <2>2, PointTyped, EventOfTime
<1> QED BY <1>1, <1>2

LEMMA StepSavesCurrent == IInv /\ [Next]_vars => StepSaves
<1> SUFFICES ASSUME IInv, [Next]_vars PROVE StepSaves
  OBVIOUS
<1>0. /\ stored.time = None => OwedFrom = MaxEvents
      /\ stored'.time = None => OwedFrom' = MaxEvents
  BY DEF OwedFrom
<1>1. CASE Connect
  <2>1. setting' = setting /\ stored' = stored /\ owed' = owed
    BY <1>1 DEF Connect, ConnectFails, ConnectAccepted, NotFound, CursorTooOldReplayed,
       CursorTooOld, InvalidRequest, UnexplainedBadRequest, database, history
  <2> QED BY <2>1, StoredKept
<1>2. CASE Read
  <2>1. setting' = setting /\ stored' = stored /\ owed' = owed
    BY <1>2 DEF Read, ReadOutdatedCursor, ReadFutureCursor, SkipSeen, Deliver, database,
       history
  <2> QED BY <2>1, StoredKept
<1>3. CASE \E slot \in 1..Len(wm.pending) : Finish(slot)
  <2>1. setting' = setting /\ stored' = stored /\ owed' = owed
    BY <1>3 DEF Finish, database
  <2> QED BY <2>1, StoredKept
<1>4. ASSUME NEW ok \in BOOLEAN, Flush(ok) PROVE StepSaves
  <2>1. /\ setting' = setting /\ stored' = StoredAfterFlush(ok)
        /\ owed' = [c \in Collections |-> IF stored.time = None THEN OwedFrom' ELSE owed[c]]
    BY <1>4 DEF Flush
  <2>2. SavedIsCurrent
    BY <1>4, SaveSteps
  <2>3. stored'.time = None => stored.time = None
    BY <2>1, FlushSavesTime
  <2> QED BY <1>0, <2>1, <2>2, <2>3 DEF StepSaves, FreshOwes
<1>5. CASE Disconnect
  <2>1. setting' = setting /\ stored' = stored /\ owed' = owed
    BY <1>5 DEF Disconnect, database, history
  <2> QED BY <2>1, StoredKept
<1>6. ASSUME NEW d \in setting.collections, Track(d) PROVE StepSaves
  <2>1. /\ setting' = setting /\ stored' = stored
        /\ owed' = [owed EXCEPT ![d] = IF mode \in {"stream", "drain"} THEN MaxEvents
                                       ELSE OwedFrom]
    BY <1>6 DEF Track, database
  <2>2. owed \in [Collections -> 0..MaxEvents]
    BY IInvParts DEF DataTyped
  <2> QED BY <1>0, <2>1, <2>2 DEF StepSaves, FreshOwes, SavedIsCurrent
<1>7. ASSUME NEW ok \in BOOLEAN, EndSession(ok) PROVE StepSaves
  <2>1. /\ setting' = setting /\ stored' = StoredAfterFlush(ok)
        /\ owed' = [c \in Collections |->
                      IF stored.time = None \/ c \in tracked \ conn.filter THEN OwedFrom'
                      ELSE owed[c]]
    BY <1>7 DEF EndSession
  <2>2. SavedIsCurrent
    BY <1>7, SaveSteps
  <2>3. stored'.time = None => stored.time = None
    BY <2>1, FlushSavesTime
  <2> QED BY <1>0, <2>1, <2>2, <2>3 DEF StepSaves, FreshOwes
<1>8. CASE Crash
  <2>1. /\ setting' = setting /\ stored' = stored
        /\ owed' = [c \in Collections |->
                      IF c \in tracked /\ mode # "connect" /\ c \notin conn.filter
                      THEN OwedFrom ELSE owed[c]]
    BY <1>8 DEF Crash, database
  <2> QED BY <1>0, <2>1 DEF StepSaves, FreshOwes, SavedIsCurrent
<1>9. CASE Restart
  <2>1. setting' = setting /\ stored' = stored /\ owed' = owed
    BY <1>9 DEF Restart, database, history
  <2> QED BY <2>1, StoredKept
<1>10. ASSUME NEW i \in 1..head, OlderBinary(i) PROVE StepSaves
  <2>1. setting' = setting /\ owed' = owed /\ stored.time # None
    BY <1>10 DEF OlderBinary
  <2>2. SavedIsCurrent
    BY <1>10, ProcessSteps
  <2>3. stored'.time # None
    <3>1. stored' = [stored EXCEPT !.time = Time(i), !.older = TRUE]
      BY <1>10 DEF OlderBinary
    <3>2. stored \in StoredType
      BY IInvParts DEF DataTyped
    <3>3. stored'.time = Time(i)
      BY <3>1, <3>2 DEF StoredType
    <3>4. i \in Int /\ i >= 1
      BY SMT, <1>10
    <3> QED BY SMT, <3>3, <3>4, Constants DEF Time
  <2> QED BY <2>1, <2>2, <2>3 DEF StepSaves, FreshOwes
<1>11. CASE \E b \in {FirstBase, FirstBase + 1, 0} : MoveHost(b)
  <2>1. setting' = setting /\ stored' = stored /\ owed' = owed
    BY <1>11 DEF MoveHost, database, history
  <2> QED BY <2>1, StoredKept
<1>12. CASE Environment
  <2>1. setting' = setting /\ stored' = stored /\ owed' = owed
    BY <1>12 DEF Environment, Produce, Renumber, Expire, Seal, database, history
  <2> QED BY <2>1, StoredKept
<1>13. CASE \E j \in jobs : JobPlans(j) \/ JobEnds(j)
  <2>1. setting' = setting /\ stored' = stored /\ owed' = owed
    BY <1>13 DEF JobPlans, JobEnds, history
  <2> QED BY <2>1, StoredKept
<1>14. CASE UNCHANGED vars
  <2>1. setting' = setting /\ stored' = stored /\ owed' = owed
    BY <1>14 DEF vars, database, history
  <2> QED BY <2>1, StoredKept
<1> QED BY <1>1, <1>2, <1>3, <1>4, <1>5, <1>6, <1>7, <1>8, <1>9, <1>10, <1>11, <1>12,
           <1>13, <1>14 DEF Next

LEMMA InvariantKept ==
    WellOrdered /\ IInv /\ FreshOwes /\ Lossless /\ [Next]_vars => (IInv /\ FreshOwes /\ Lossless)'
<1> SUFFICES ASSUME WellOrdered, IInv, FreshOwes, Lossless, [Next]_vars
             PROVE  (IInv /\ FreshOwes /\ Lossless)'
  OBVIOUS
<1>1. IInv' /\ Carries
  BY StepCarries
<1>2. setting' = setting /\ FreshOwes'
  BY StepSavesCurrent DEF StepSaves
<1>3. Lossless'
  BY <1>1, <1>2 DEF Lossless, Carries
<1> QED BY <1>1, <1>2, <1>3

LEMMA SavedAccounted == IInv /\ FreshOwes /\ Lossless => (Sound(setting) => SavedCursorSafe)
<1> SUFFICES ASSUME IInv, Lossless, Sound(setting), NEW i \in 1..SavedIndex, Owed(i)
             PROVE  i \in Accounted
  BY DEF SavedCursorSafe
<1>1. PICK o \in 0..head : LosesNothing(o)
  BY DEF Lossless
<1>2. Reached(Wanted(o), Accounted, SavedIndex)
  BY <1>1 DEF LosesNothing, Safe, SaveSafe
<1>3. SavedIndex \in 0..head /\ head \in Nat /\ (stored.time = None => SavedIndex = 0)
  BY IInvParts, StoredFacts, ServerFacts
<1>4. i \in 1..head /\ i <= SavedIndex /\ stored.time # None
  BY SMT, <1>3
<1>5. i \in Wanted(o)
  BY <1>4 DEF Wanted, Owed
<1> QED BY <1>2, <1>4, <1>5 DEF Reached

LEMMA StreamAccounted == IInv /\ FreshOwes /\ Lossless => (Sound(setting) => StreamSkipsNothing)
<1> SUFFICES ASSUME IInv, FreshOwes, Lossless, Sound(setting), mode = "stream",
                    conn.notice = "none", NEW i \in 1..(conn.pos - 1), Owed(i)
             PROVE  i \in Accounted \cup InFlightEvents \cup PendingGap
  BY DEF StreamSkipsNothing
<1>1. PICK o \in 0..head : LosesNothing(o)
  BY DEF Lossless
<1>2. Reached(Wanted(o), Streamed, conn.pos - 1)
  BY <1>1 DEF LosesNothing, Safe, StreamSafe
<1>3. /\ conn.pos \in Nat /\ conn.pos <= head + 1 /\ head \in 1..MaxEvents
      /\ tracked \subseteq Collections
  BY IInvParts, ServerFacts DEF Positioned, ProcessTyped, ConnType
<1>4. i \in 1..head /\ i <= conn.pos - 1 /\ ~(i > MaxEvents)
  BY SMT, <1>3, Constants
<1>5. stored.time # None
  BY <1>3, <1>4 DEF FreshOwes, Owed
<1>6. i \in Wanted(o)
  BY <1>4, <1>5 DEF Wanted, Owed
<1> QED BY <1>2, <1>4, <1>6 DEF Reached, Streamed, Handled

(* The two facts of the library that the above rests on. *)
INSTANCE SequenceTheorems
INSTANCE WellFoundedInduction

LEMMA LeastNatural == WellOrdered
<1> SUFFICES ASSUME NEW T \in SUBSET Nat, T # {}
             PROVE  \E m \in T : \A k \in T : m <= k
  BY DEF WellOrdered
<1> DEFINE R == OpToRel(<, Nat)
<1>1. IsWellFoundedOn(R, Nat)
  BY NatLessThanWellFounded
<1> HIDE DEF R
<1>2. PICK m \in T : \A k \in T : ~(<<k, m>> \in R)
  BY <1>1, WFMin
<1>3. \A k \in T : ~(k < m)
  BY <1>2 DEF R, OpToRel
<1> QED BY SMT, <1>3

LEMMA InitHead ==
    ASSUME Init
    PROVE  OneEvent
<1>1. log \in [1..1 -> Collections]
  BY ConsumerAssumption DEF Init
<1>2. 1 \in Nat /\ 1 \in 1..1 /\ 2 \in Nat
  BY SMT
<1>3. log \in Seq(Collections) /\ log[1] \in Collections /\ DOMAIN log = 1..1
  BY <1>1, <1>2, SeqDef
<1>4. Len(log) \in Nat /\ DOMAIN log = 1..Len(log)
  BY <1>3, LenProperties
<1>5. Len(log) = 1
  <2>1. \A n \in Nat : 1..1 = 1..n => n = 1
    <3> SUFFICES ASSUME NEW n \in Nat, 1..1 = 1..n PROVE n = 1
      OBVIOUS
    <3>1. 1 \in 1..n /\ (n \in 1..n => n \in 1..1)
      BY <1>2
    <3> QED BY SMT, <3>1
  <2> QED BY <1>3, <1>4, <2>1
<1> QED BY <1>3, <1>5 DEF OneEvent, head

LEMMA InvariantHolds == Spec => [](IInv /\ FreshOwes /\ Lossless)
<1>1. Init => IInv /\ FreshOwes /\ Lossless
  BY InitHead, InitHolds, InitLosesNothing DEF Lossless
<1>2. IInv /\ FreshOwes /\ Lossless /\ [Next]_vars => (IInv /\ FreshOwes /\ Lossless)'
  BY LeastNatural, InvariantKept
<1> QED BY <1>1, <1>2, PTL DEF Spec

(* In every scenario: once FutureCursor told the consumer that the server's *)
(* numbering started over, a seq it saves is the server's number for the    *)
(* saved event. The save barrier keeps every ticket of the old numbering    *)
(* from becoming the saved cursor, however late it finishes and however     *)
(* many sessions, failed saves and renumberings come between.               *)
THEOREM SavedSeqsAreCurrent == Spec => SavedSeqIsCurrent
<1>1. IInv /\ [Next]_vars =>
        [told /\ stored' # stored =>
           stored'.seq = None \/ stored'.seq + base = IndexOf(stored'.time)]_vars
  BY SMT, StepSavesCurrent DEF StepSaves, SavedIsCurrent
<1> QED BY <1>1, InvariantHolds, PTL DEF Spec, SavedSeqIsCurrent

(* In every sound scenario the saved cursor loses nothing to a crash: each  *)
(* owed event at or before it was applied or given up, is in a gap that was *)
(* noticed or silent to v1, or is in the range of a gap replay job. This    *)
(* holds for any number of events, tickets in flight and faults of the      *)
(* other kinds, in any order (Watermark::complete, cursor::save).           *)
THEOREM SavedCursorIsSafe == Spec => [](Sound(setting) => SavedCursorSafe)
BY SavedAccounted, InvariantHolds, PTL

(* In every sound scenario a reconnect loses nothing: each owed event       *)
(* behind the stream's position is accounted for, in a worker's hands, or   *)
(* in the gap that the first event after a resume from the tip will log     *)
(* (run_session, resume_without_seq, start_gap_replay).                     *)
THEOREM StreamSkipsNoEvent == Spec => [](Sound(setting) => StreamSkipsNothing)
BY StreamAccounted, InvariantHolds, PTL

=============================================================================
