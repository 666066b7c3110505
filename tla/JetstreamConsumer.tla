------------------------- MODULE JetstreamConsumer -------------------------
(***************************************************************************)
(* The Jetstream consumer: one session after another against a server that *)
(* keeps a window of events, with the applied watermark as the cursor it    *)
(* saves (crates/happyview-source-jetstream/src/consumer/mod.rs, cursor.rs; *)
(* the gap replay it starts is backfill/replay.rs, start_gap_replay).       *)
(*                                                                         *)
(* Events are 1, 2, 3, ... in the order the network made them. The server   *)
(* numbers event i as seq i - base and witnessed it at Time(i); a restart   *)
(* of the server may change `base`, never a time. The pool is the watermark *)
(* plus "any ticket may finish next" (WorkerPool is the detail). As in the  *)
(* protocol one integer is either a seq or, from TimestampCursorMin on, a   *)
(* time; None is 0.                                                        *)
(***************************************************************************)
EXTENDS Watermark, FiniteSets

CONSTANTS
    Collections,         \* record collections
    Scenarios,           \* the settings and fault budgets a behaviour may start with
    TimestampCursorMin,  \* cursors from here on are times
    Rewind,              \* how far before the saved time another host resumes
    MaxEvents, MaxInFlight  \* bounds: events, tickets not retired

None == 0
NoTicket == -1

Later(a, b) == IF a >= b THEN a ELSE b

\* The first numbering starts high enough for a second one to be below it.
FirstBase == -(MaxEvents + 1)
MaxSeq == MaxEvents - FirstBase

Time(i) == TimestampCursorMin + Rewind + i
IndexOf(time) == time - TimestampCursorMin - Rewind

\* What a budget counts: new events, and faults of each kind.
Kinds == {"event", "crash", "drop", "refusal", "timeout", "unsaved", "renumber",
          "move", "rollback", "track", "seal", "expiry"}

ASSUME ConsumerAssumption ==
    /\ Scenarios \subseteq
         [choice        : {"auto", "v1", "v2"},  \* the protocol setting
          gap_replay    : BOOLEAN,  \* whether the archive may be asked to fill a gap
          fresh         : BOOLEAN,  \* whether no cursor has been saved yet
          refuses_times : BOOLEAN,  \* whether the server refuses an old time, not only moves it up
          collections   : SUBSET Collections \ {{}},
          budget        : [Kinds -> 0..MaxEvents]]
    /\ MaxEvents \in Nat \ {0} /\ Rewind \in Nat
    /\ TimestampCursorMin \in Nat /\ TimestampCursorMin > MaxSeq
    /\ Points = [seq : 0..MaxSeq, time : {Time(i) : i \in 1..MaxEvents}]

VARIABLES
    setting,  \* the scenario, which never changes
    \* the server and its archive
    log,      \* the collection of every event
    base,     \* event i has seq i - base
    oldest,   \* the oldest event the server still streams
    sealed,   \* the last event in the archive's sealed segments
    host,     \* which server the settings name
    \* the process
    mode,     \* "down", "connect", "stream" or "drain"
    session,  \* Session: what is carried across reconnects
    last,     \* last_dispatched
    wm,       \* the watermark
    tracked,  \* the collections the instance tracks
    \* the connection
    conn,     \* what run_session keeps: see NoConnection
    \* the database
    stored,   \* the saved cursor
    jobs,     \* gap replay jobs
    \* bookkeeping for the properties
    done,     \* events applied or given up
    gaps,     \* events the server's window lost, and the consumer noticed
    silent,   \* events a v1 server skipped without a word
    owed,     \* for each collection, the event after which its events are owed
    told,     \* this process has read FutureCursor from the server as it is numbered
    left      \* what is left of each bound

server == <<log, base, oldest, sealed, host>>
process == <<mode, session, last, wm, tracked, conn>>
database == <<stored, jobs>>
history == <<done, gaps, silent, owed, told>>
vars == <<setting, server, process, database, history, left>>

head == Len(log)
NextSeq == head - base + 1
IsSeq(c) == c # None /\ c < TimestampCursorMin
IsTime(c) == c >= TimestampCursorMin

\* The event of the saved cursor.
SavedIndex == IF stored.time = None THEN 0 ELSE IndexOf(stored.time)

\* The event after which a collection's events are owed from here on.
OwedFrom == IF stored.time = None THEN MaxEvents ELSE SavedIndex

NoGap == [pending |-> FALSE, sent |-> None, after |-> 0]

NewSession ==
    [protocol |-> IF setting.choice = "v1" THEN "v1" ELSE "v2",
     sent     |-> None,      \* sent_cursor
     stale    |-> None,      \* stale_seq
     from_tip |-> FALSE,
     gap      |-> NoGap,     \* pending_gap
     gap_at   |-> None,      \* gap_resumed_at
     bad      |-> 0,         \* unexplained_400s, as far as it is told apart
     barrier  |-> NoTicket]  \* save_barrier

NoConnection ==
    [pos    |-> 0,           \* the next event the server sends
     notice |-> "none",      \* an info frame not yet read
     floor  |-> None,        \* the last seq dispatched on this connection
     loaded |-> [seq |-> None, time |-> None],  \* the cursor loaded for it
     filter |-> {},          \* the collections subscribed to
     saved  |-> NoPoint,     \* last_saved
     ended  |-> "none"]      \* why the read loop stopped

NothingSaved == [seq |-> None, time |-> None, host |-> None, older |-> FALSE]

\* A fresh instance, to which nothing is owed before it has saved a cursor,
\* or one that has applied and saved event 1.
Init ==
    /\ setting \in Scenarios
    /\ left = setting.budget
    /\ log \in [1..1 -> setting.collections]
    /\ base = FirstBase /\ oldest = 1 /\ sealed = 1 /\ host = 1
    /\ mode = "connect"
    /\ session = NewSession
    /\ last = None
    /\ wm = EmptyWatermark
    /\ tracked = {log[1]}
    /\ conn = NoConnection
    /\ stored = IF setting.fresh THEN NothingSaved
                ELSE [seq  |-> IF setting.choice = "v1" THEN None ELSE 1 - base,
                      time |-> Time(1), host |-> 1, older |-> FALSE]
    /\ jobs = {}
    /\ done = {1} /\ gaps = {} /\ silent = {}
    /\ owed = [c \in Collections |-> IF setting.fresh THEN MaxEvents ELSE 1]
    /\ told = FALSE

Spend(kinds) ==
    /\ \A k \in kinds : left[k] > 0
    /\ left' = [k \in DOMAIN left |-> IF k \in kinds THEN left[k] - 1 ELSE left[k]]

-----------------------------------------------------------------------------
(* Where a session resumes *)

\* cursor::load: a time saved later than the seq was saved by an older binary.
Load == [seq  |-> IF stored.older /\ stored.time # None THEN None ELSE stored.seq,
         time |-> stored.time]

\* What the session resumes from: the loaded cursor without a stale seq.
Usable == [Load EXCEPT !.seq = IF @ = session.stale THEN None ELSE @]

ResumeCursor(cursor, protocol) ==
    IF stored.host \notin {None, host} THEN IF cursor.time = None THEN None ELSE cursor.time - Rewind
    ELSE IF protocol = "v2" /\ cursor.seq # None THEN cursor.seq
    ELSE cursor.time

V2Resume(saved, dispatched) ==
    IF dispatched = None THEN saved
    ELSE IF IsSeq(saved) THEN Later(saved, dispatched)
    ELSE dispatched

Resume ==
    IF session.from_tip THEN None
    ELSE IF session.protocol = "v2"
         THEN V2Resume(ResumeCursor(Usable, "v2"), last)
         ELSE ResumeCursor(Usable, "v1")

\* The session once it has asked for Resume.
Asked == [session EXCEPT !.sent = Resume,
                         !.gap = IF Resume # None THEN NoGap ELSE @]

\* How the server answers a cursor.
TooOld(c) == IsSeq(c) /\ c <= NextSeq /\ c + base < oldest
Future(c) == IsSeq(c) /\ c > NextSeq
Outdated(c) == IsTime(c) /\ IndexOf(c) < oldest
StartsAt(c) ==
    IF c = None \/ Future(c) THEN head + 1
    ELSE IF IsSeq(c) THEN c + base
    ELSE Later(IndexOf(c), oldest)

-----------------------------------------------------------------------------
(* Connecting *)

\* The load, the socket or an answer that says nothing about the request
\* fails: the ordinary backoff.
ConnectFails ==
    /\ mode = "connect"
    /\ Spend({"refusal"})
    /\ session' \in {session, Asked}
    /\ UNCHANGED <<setting, server, mode, last, wm, tracked, conn, database, history>>

ConnectAccepted ==
    /\ mode = "connect"
    /\ session.protocol = "v2" => ~TooOld(Resume)
    /\ mode' = "stream"
    /\ session' = [Asked EXCEPT !.bad = 0]
    /\ conn' = [NoConnection EXCEPT
                   !.pos = StartsAt(Resume),
                   !.notice = IF session.protocol = "v1" THEN "none"
                              ELSE IF Future(Resume) THEN "FutureCursor"
                              ELSE IF Outdated(Resume) THEN "OutdatedCursor" ELSE "none",
                   !.floor = IF session.protocol = "v2" /\ IsSeq(Resume) THEN Resume ELSE None,
                   !.loaded = Usable,
                   !.filter = tracked]
    /\ silent' = IF session.protocol = "v1" /\ Outdated(Resume)
                 THEN silent \cup (IndexOf(Resume)..(oldest - 1)) ELSE silent
    /\ UNCHANGED <<setting, server, last, wm, tracked, database, done, gaps, owed, told, left>>

\* Auto falls back to v1, which resumes by witnessed time only.
NotFound ==
    /\ mode = "connect"
    /\ setting.choice = "auto" /\ session.protocol = "v2"
    /\ Spend({"refusal"})
    /\ session' = [Asked EXCEPT !.protocol = "v1"]
    /\ last' = None
    /\ UNCHANGED <<setting, server, mode, wm, tracked, conn, database, history>>

\* resume_without_seq, as what it makes of the session and of last_dispatched.
ByTime == stored.time # None /\ ~IsTime(Resume)

ResumeWithoutSeq ==
    /\ last' = None
    /\ session' = [Asked EXCEPT
                      !.stale = Load.seq,
                      !.from_tip = @ \/ ~ByTime,
                      !.gap = IF ByTime \/ Resume = None THEN @
                              ELSE [pending |-> TRUE, sent |-> Resume, after |-> SavedIndex]]

\* gap_floor: the saved seq, if it was saved for this host.
GapFloor == IF stored.host = host THEN Load.seq ELSE None

\* A form that plans a gap again however often its tip is refused.
MayPlanGapAgain == setting.gap_replay /\ GapFloor # None /\ sealed - base > GapFloor

\* The tip of a gap already planned is not planned again; the archive must
\* be past the gap's start.
MayPlanGap ==
    /\ setting.gap_replay
    /\ session.gap_at = None \/ Resume # session.gap_at
    /\ GapFloor # None
    /\ sealed - base > GapFloor

Refused == TooOld(Resume) \/ (setting.refuses_times /\ Outdated(Resume))

\* CursorTooOld: the archive fills the gap and the stream resumes at its
\* sealed tip. A job still open for the same seq is reused.
CursorTooOldReplayed ==
    /\ mode = "connect" /\ session.protocol = "v2"
    /\ Refused
    /\ MayPlanGap
    /\ session' = [Asked EXCEPT !.stale = GapFloor, !.from_tip = FALSE, !.gap = NoGap,
                                !.gap_at = sealed - base]
    /\ last' = sealed - base
    /\ jobs' = IF \E j \in jobs : j.open /\ j.after_seq = GapFloor THEN jobs
               ELSE jobs \cup {[after_seq |-> GapFloor, from |-> GapFloor + base,
                               tip |-> None, open |-> TRUE]}
    /\ UNCHANGED <<setting, server, mode, wm, tracked, conn, stored, history, left>>

\* CursorTooOld with no gap replay (or a failed one): resume by the saved
\* time, and from the live tip if that was refused.
CursorTooOld ==
    /\ mode = "connect" /\ session.protocol = "v2"
    /\ Refused
    /\ IF MayPlanGap THEN Spend({"refusal"}) ELSE UNCHANGED left
    /\ ResumeWithoutSeq
    /\ UNCHANGED <<setting, server, mode, wm, tracked, conn, database, history>>

\* InvalidRequest: the retry keeps its cursor.
InvalidRequest ==
    /\ mode = "connect"
    /\ Spend({"refusal"})
    /\ session' = [Asked EXCEPT !.from_tip = FALSE]
    /\ UNCHANGED <<setting, server, mode, last, wm, tracked, conn, database, history>>

\* A 400 with no error name: first without compression, then without the
\* seq if a time can replace it, then as InvalidRequest.
UnexplainedBadRequest ==
    /\ mode = "connect"
    /\ Spend({"refusal"})
    /\ \/ /\ session.bad = 0
          /\ session' = [Asked EXCEPT !.bad = 1]
          /\ UNCHANGED last
       \/ /\ session.bad = 1 /\ IsSeq(Resume) /\ ByTime
          /\ last' = None
          /\ session' = [Asked EXCEPT !.bad = 2, !.stale = Load.seq]
       \/ /\ session.bad = 2 \/ (session.bad = 1 /\ ~(IsSeq(Resume) /\ ByTime))
          /\ session' = [Asked EXCEPT !.bad = 2, !.from_tip = FALSE]
          /\ UNCHANGED last
    /\ UNCHANGED <<setting, server, mode, wm, tracked, conn, database, history>>

-----------------------------------------------------------------------------
(* Streaming *)

\* The read loop stops: the session goes on to drain the workers.
EndedFor(why) == [conn EXCEPT !.ended = why, !.notice = "none"]

\* A time older than the server keeps was moved up: a gap is logged.
ReadOutdatedCursor ==
    /\ mode = "stream" /\ conn.notice = "OutdatedCursor"
    /\ conn' = [conn EXCEPT !.notice = "none"]
    /\ gaps' = gaps \cup (IndexOf(session.sent)..(conn.pos - 1))
    /\ UNCHANGED <<setting, server, mode, session, last, wm, tracked, database, done, silent, owed, told, left>>

\* Forms of the next action that set no barrier, and that keep the seq.
ReadFutureCursorUnguarded ==
    /\ mode = "stream" /\ conn.notice = "FutureCursor"
    /\ last' = None
    /\ told' = TRUE
    /\ session' = [session EXCEPT !.stale = IF conn.loaded.seq # None THEN conn.loaded.seq ELSE @]
    /\ conn' = EndedFor("renumbered")
    /\ mode' = "drain"
    /\ UNCHANGED <<setting, server, wm, tracked, database, done, gaps, silent, owed, left>>

ReadFutureCursorStaying ==
    /\ mode = "stream" /\ conn.notice = "FutureCursor"
    /\ last' = None
    /\ told' = TRUE
    /\ session' = [session EXCEPT
                      !.stale = IF conn.loaded.seq # None THEN conn.loaded.seq ELSE @,
                      !.barrier = NextTicket(wm)]
    /\ conn' = [conn EXCEPT !.notice = "none", !.floor = None]
    /\ UNCHANGED <<setting, server, mode, wm, tracked, database, done, gaps, silent, owed, left>>

\* The seq is past the server's next one: its numbering started over. Every
\* seq of the old numbering is dropped, nothing is saved until a ticket of
\* the new one is applied, and the stream is picked up by the saved time.
ReadFutureCursor ==
    /\ mode = "stream" /\ conn.notice = "FutureCursor"
    /\ last' = None
    /\ told' = TRUE
    /\ session' = [session EXCEPT
                      !.stale = IF conn.loaded.seq # None THEN conn.loaded.seq ELSE @,
                      !.barrier = NextTicket(wm)]
    /\ IF conn.loaded.time # None /\ IsSeq(session.sent)
       THEN /\ mode' = "drain" /\ conn' = EndedFor("renumbered")
            /\ UNCHANGED gaps
       ELSE /\ mode' = mode /\ conn' = [conn EXCEPT !.notice = "none", !.floor = None]
            /\ gaps' = gaps \cup ((session.sent + FirstBase + 1)..(conn.pos - 1))
    /\ UNCHANGED <<setting, server, wm, tracked, database, done, silent, owed, left>>

\* The next event of the subscription.
Pending == {i \in conn.pos..head : log[i] \in conn.filter}
NextEvent == CHOOSE i \in Pending : \A j \in Pending : i <= j

SeqOf(i) == IF session.protocol = "v2" THEN i - base ELSE None

\* An event already dispatched on this connection, or the one a seq cursor
\* names (it is inclusive), is skipped.
SkipSeen ==
    /\ mode = "stream" /\ conn.notice = "none" /\ Pending # {}
    /\ SeqOf(NextEvent) # None /\ conn.floor # None /\ SeqOf(NextEvent) <= conn.floor
    /\ conn' = [conn EXCEPT !.pos = NextEvent + 1]
    /\ UNCHANGED <<setting, server, mode, session, last, wm, tracked, database, history, left>>

\* An event is dispatched: a tip resume is over, and its gap is logged.
Deliver ==
    /\ mode = "stream" /\ conn.notice = "none" /\ Pending # {}
    /\ SeqOf(NextEvent) = None \/ conn.floor = None \/ SeqOf(NextEvent) > conn.floor
    /\ InFlight(wm) < MaxInFlight
    /\ conn' = [conn EXCEPT !.pos = NextEvent + 1,
                            !.floor = IF SeqOf(NextEvent) # None THEN SeqOf(NextEvent) ELSE @]
    /\ last' = IF SeqOf(NextEvent) # None THEN SeqOf(NextEvent) ELSE last
    /\ gaps' = IF session.gap.pending
               THEN gaps \cup ((session.gap.after + 1)..(NextEvent - 1)) ELSE gaps
    /\ session' = [session EXCEPT !.from_tip = FALSE, !.gap = NoGap]
    /\ wm' = BeginTicket(wm, [seq |-> SeqOf(NextEvent), time |-> Time(NextEvent)])
    /\ UNCHANGED <<setting, server, mode, tracked, database, done, silent, owed, told, left>>

\* A worker applies or gives up an event of any earlier session.
Finish(slot) ==
    /\ mode # "down"
    /\ ~wm.pending[slot].done
    /\ wm' = CompleteTicket(wm, wm.front + slot - 1)
    /\ done' = done \cup {IndexOf(wm.pending[slot].point.time)}
    /\ UNCHANGED <<setting, server, mode, session, last, tracked, conn, database, gaps, silent, owed, told, left>>

\* A form that saves the read position.
FlushPointRead == IF InFlight(wm) = 0 THEN wm.applied ELSE wm.pending[InFlight(wm)].point

\* flush: the applied point, held back until the barrier's ticket retires.
FlushPoint ==
    IF session.barrier # NoTicket THEN AppliedIfRetired(wm, session.barrier) ELSE wm.applied

BarrierAfterFlush == IF FlushPoint # NoPoint THEN NoTicket ELSE session.barrier

\* cursor::save: seq (none from v1), time and host in one transaction.
SavedAs(point) == [seq |-> point.seq, time |-> point.time, host |-> host, older |-> FALSE]

\* What a flush saves, if the transaction goes through.
Saves == FlushPoint \notin {NoPoint, conn.saved}

StoredAfterFlush(ok) == IF Saves /\ ok THEN SavedAs(FlushPoint) ELSE stored

Unsaved(ok) == IF ok THEN {} ELSE {"unsaved"}

\* The ticker, or enough events since the last flush.
Flush(ok) ==
    /\ mode = "stream"
    /\ Saves
    /\ Spend(Unsaved(ok))
    /\ stored' = StoredAfterFlush(ok)
    /\ session' = [session EXCEPT !.barrier = BarrierAfterFlush]
    /\ conn' = [conn EXCEPT !.saved = IF ok THEN FlushPoint ELSE @]
    /\ owed' = [c \in Collections |-> IF stored.time = None THEN OwedFrom' ELSE owed[c]]
    /\ UNCHANGED <<setting, server, mode, last, wm, tracked, jobs, done, gaps, silent, told>>

Disconnect ==
    /\ mode = "stream"
    /\ Spend({"drop"})
    /\ mode' = "drain"
    /\ conn' = EndedFor("closed")
    /\ UNCHANGED <<setting, server, session, last, wm, tracked, database, history>>

\* The operator tracks another collection. A session that streams ends; one
\* between sessions picks the filter up when it connects.
Track(c) ==
    /\ c \notin tracked
    /\ Spend({"track"})
    /\ tracked' = tracked \cup {c}
    /\ IF mode = "stream" THEN mode' = "drain" /\ conn' = EndedFor("changed")
       ELSE UNCHANGED <<mode, conn>>
    /\ owed' = [owed EXCEPT ![c] = IF mode \in {"stream", "drain"} THEN MaxEvents
                                   ELSE OwedFrom]
    /\ UNCHANGED <<setting, server, session, last, wm, database, done, gaps, silent, told>>

\* A newly tracked collection needs the events from the saved cursor on.
LastAfter == IF conn.ended = "changed" THEN None ELSE last

\* The drain ends with the workers idle or by its timeout; a final flush.
EndSession(ok) ==
    /\ mode = "drain"
    /\ ~ok => Saves
    /\ Spend(Unsaved(ok) \cup IF InFlight(wm) = 0 THEN {} ELSE {"timeout"})
    /\ stored' = StoredAfterFlush(ok)
    /\ session' = [session EXCEPT !.barrier = BarrierAfterFlush]
    /\ last' = LastAfter
    /\ owed' = [c \in Collections |->
                  IF stored.time = None \/ c \in tracked \ conn.filter THEN OwedFrom' ELSE owed[c]]
    /\ mode' = "connect"
    /\ conn' = NoConnection
    /\ UNCHANGED <<setting, server, wm, tracked, jobs, done, gaps, silent, told>>

-----------------------------------------------------------------------------
(* Crashes and restarts *)

Crash ==
    /\ mode # "down"
    /\ Spend({"crash"})
    /\ mode' = "down"
    /\ session' = NewSession
    /\ last' = None
    /\ wm' = EmptyWatermark
    /\ conn' = NoConnection
    /\ owed' = [c \in Collections |->
                  IF c \in tracked /\ mode # "connect" /\ c \notin conn.filter
                  THEN OwedFrom ELSE owed[c]]
    /\ told' = FALSE
    /\ UNCHANGED <<setting, server, tracked, database, done, gaps, silent>>

Restart ==
    /\ mode = "down"
    /\ mode' = "connect"
    /\ UNCHANGED <<setting, server, session, last, wm, tracked, conn, database, history, left>>

\* An older binary runs in between: it follows the stream by time, and knows
\* nothing of the seq and host rows.
OlderBinary(i) ==
    /\ mode = "down"
    /\ stored.time # None
    /\ i > SavedIndex /\ i >= oldest
    /\ Spend({"rollback"})
    /\ stored' = [stored EXCEPT !.time = Time(i), !.older = TRUE]
    /\ done' = done \cup {j \in (SavedIndex + 1)..i : log[j] \in tracked /\ j >= oldest}
    /\ silent' = silent \cup {j \in (SavedIndex + 1)..i : j < oldest}
    /\ UNCHANGED <<setting, server, process, jobs, gaps, owed, told>>

\* The operator points the instance at another server.
MoveHost(b) ==
    /\ mode = "down"
    /\ Spend({"move"})
    /\ host' = host + 1
    /\ base' = b
    /\ oldest' = Later(oldest, b + 1)
    /\ sealed' = Later(sealed, b)
    /\ UNCHANGED <<setting, log, process, database, history>>

-----------------------------------------------------------------------------
(* The server and the archive *)

Produce(c) ==
    /\ head < MaxEvents
    /\ Spend({"event"})
    /\ log' = Append(log, c)
    /\ UNCHANGED <<setting, base, oldest, sealed, host, process, database, history>>

\* The server restarts with seqs that start over after event b. All of them
\* are below the old ones: had it grown past the consumer's seq before the
\* consumer came back, the protocol could not show that it was renumbered.
Renumber(b) ==
    /\ mode # "stream"
    /\ base = FirstBase
    /\ Spend({"renumber"})
    /\ base' = b
    /\ oldest' = Later(oldest, b + 1)
    /\ sealed' = Later(sealed, b)
    /\ told' = FALSE
    /\ UNCHANGED <<setting, log, host, process, database, done, gaps, silent, owed>>

\* The server's window moves on (it closes a connection that falls behind).
Expire ==
    /\ oldest <= head
    /\ mode = "stream" => oldest < conn.pos
    /\ Spend({"expiry"})
    /\ oldest' = oldest + 1
    /\ UNCHANGED <<setting, log, base, sealed, host, process, database, history>>

Seal(i) ==
    /\ i > sealed
    /\ Spend({"seal"})
    /\ sealed' = i
    /\ UNCHANGED <<setting, log, base, oldest, host, process, database, history>>

\* A gap replay job fixes its tip when it first plans, and later ends.
JobPlans(j) ==
    /\ j.open /\ j.tip = None
    /\ jobs' = (jobs \ {j}) \cup {[j EXCEPT !.tip = sealed]}
    /\ UNCHANGED <<setting, server, process, stored, history, left>>

JobEnds(j) ==
    /\ j.open /\ j.tip # None
    /\ jobs' = (jobs \ {j}) \cup {[j EXCEPT !.open = FALSE]}
    /\ UNCHANGED <<setting, server, process, stored, history, left>>

-----------------------------------------------------------------------------

Connect ==
    \/ ConnectFails
    \/ ConnectAccepted
    \/ NotFound
    \/ CursorTooOldReplayed
    \/ CursorTooOld
    \/ InvalidRequest
    \/ UnexplainedBadRequest

Read ==
    \/ ReadOutdatedCursor
    \/ ReadFutureCursor
    \/ SkipSeen
    \/ Deliver

Environment ==
    \/ \E c \in setting.collections : Produce(c)
    \/ \E b \in 0..head : Renumber(b)
    \/ Expire
    \/ \E i \in 1..head : Seal(i)

Next ==
    \/ Connect
    \/ Read
    \/ \E slot \in 1..Len(wm.pending) : Finish(slot)
    \/ \E ok \in BOOLEAN : Flush(ok)
    \/ Disconnect
    \/ \E c \in setting.collections : Track(c)
    \/ \E ok \in BOOLEAN : EndSession(ok)
    \/ Crash
    \/ Restart
    \/ \E i \in 1..head : OlderBinary(i)
    \/ \E b \in {FirstBase, FirstBase + 1, 0} : MoveHost(b)
    \/ Environment
    \/ \E j \in jobs : JobPlans(j)
    \/ \E j \in jobs : JobEnds(j)

Spec == Init /\ [][Next]_vars


\* The server and the scheduler keep serving the consumer, workers settle
\* every event, and faults are as many as the bounds allow.
Fairness ==
    /\ WF_vars(ConnectAccepted \/ CursorTooOldReplayed \/ CursorTooOld)
    /\ WF_vars(Read)
    /\ WF_vars(\E slot \in 1..Len(wm.pending) : Finish(slot))
    /\ WF_vars(Flush(TRUE))
    /\ WF_vars(EndSession(TRUE))
    /\ WF_vars(Restart)

FairSpec == Spec /\ Fairness

-----------------------------------------------------------------------------

Owed(i) == log[i] \in tracked /\ i > owed[log[i]]

\* Events a gap replay job reads from the archive.
Covered == {i \in 1..head : \E j \in jobs :
              /\ j.from < i
              /\ i <= IF j.tip = None THEN sealed ELSE j.tip}

Accounted == done \cup gaps \cup silent \cup Covered

\* Events of a resume from the tip, to be logged with the first event of it.
PendingGap == IF session.gap.pending THEN (session.gap.after + 1)..MaxEvents ELSE {}

InFlightEvents == {IndexOf(wm.pending[k].point.time) : k \in 1..Len(wm.pending)}

(* The saved cursor loses nothing to a crash: every owed event up to it was  *)
(* applied or given up, is in a gap that was noticed, or is in the range of a *)
(* gap replay job, whatever resumes, refusals, renumberings and drains led   *)
(* to it (watermark.rs:1, "every event at or before it has been applied").   *)
SavedCursorSafe ==
    \A i \in 1..SavedIndex : Owed(i) => i \in Accounted

(* A reconnect loses nothing: every owed event behind the stream's position  *)
(* is accounted for or in a worker's hands, or is in the gap the first event *)
(* after a resume from the tip will log.                                    *)
StreamSkipsNothing ==
    mode = "stream" /\ conn.notice = "none" =>
        \A i \in 1..(conn.pos - 1) :
            Owed(i) => i \in Accounted \cup InFlightEvents \cup PendingGap

(* Once FutureCursor told the consumer that the numbering started over, a    *)
(* seq it saves is the server's number for the saved event: a ticket of the  *)
(* old numbering that finishes late never becomes the saved cursor           *)
(* (Session::save_barrier).                                                 *)
SavedSeqIsCurrent ==
    [][told /\ stored' # stored =>
         stored'.seq = None \/ stored'.seq + base = IndexOf(stored'.time)]_vars

(* The consumer catches up: in the end every owed event is at or before the  *)
(* saved cursor, in a gap or in a replay job's range, or applied and kept    *)
(* from being saved only until the new numbering's first event retires       *)
(* (Session::save_barrier). In particular refusals, renumberings, the v1     *)
(* fallback and gap replays never send it round in circles                   *)
(* (Session::gap_resumed_at).                                               *)
CatchesUp ==
    <>[](\A i \in 1..head :
            Owed(i) => \/ i <= SavedIndex
                       \/ i \in gaps \cup silent \cup Covered
                       \/ mode = "stream" /\ i \in PendingGap
                       \/ i \in done /\ session.barrier # NoTicket)

=============================================================================
