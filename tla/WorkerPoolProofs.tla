-------------------------- MODULE WorkerPoolProofs --------------------------
(***************************************************************************)
(* Proofs about WorkerPool, for any accounts, hash, number of workers,      *)
(* channel capacity, retry policy and number of events.  IInv says where    *)
(* an event is between its dispatch and its retirement; every step keeps    *)
(* it, and the three safety properties of the pool follow.                  *)
(***************************************************************************)
EXTENDS WorkerPool, TLAPS

Steps == {"idle", "received", "applying", "finished"}
PoolStates == {"running", "aborted", "busy_cleared", "dropped"}

Typed ==
    /\ wm \in Watermarks
    /\ did \in Seq(Dids) /\ Len(did) = NextTicket(wm) /\ Len(did) <= MaxTickets
    /\ sending \in [ticket : Nat \cup {NoJob}, worker : W]
    /\ queue \in [W -> Seq(Nat)]
    /\ depth \in [W -> Nat]
    /\ hand \in [W -> Nat \cup {NoJob}]
    /\ step \in [W -> Steps]
    /\ fails \in [W -> 0..Delays]
    /\ stopped \subseteq W
    /\ pool \in PoolStates
    /\ applied \subseteq Tickets /\ refused \subseteq Tickets
    /\ failures \in Seq(Nat) /\ Len(failures) = Len(did)

(* Ticket t is an event of a DID that worker w owns. *)
Owns(w, t) == t \in Tickets /\ WorkerFor(did[t + 1]) = w

(* No attempt of ticket t has failed. *)
Untried(t) == failures[t + 1] = 0

(* What a worker has in hand is its own, and nothing of its own before it  *)
(* is open; how often it failed is what the retry policy counted.          *)
HandsHoldFirst ==
    \A w \in W :
        /\ step[w] = "idle" <=> hand[w] = NoJob
        /\ hand[w] # NoJob =>
             /\ Owns(w, hand[w])
             /\ \A t \in 0..(hand[w] - 1) : Owns(w, t) => Settled(t)
        /\ step[w] = "received" => Untried(hand[w])
        /\ step[w] = "applying" => failures[hand[w] + 1] = fails[w]
        /\ step[w] = "finished" => Settled(hand[w])

(* A queue holds its worker's tickets in dispatch order, behind the one in *)
(* hand.  The last conjunct bounds its length by the tickets handed out.   *)
QueuesInOrder ==
    \A w \in W : \A i \in 1..Len(queue[w]) :
        /\ Owns(w, queue[w][i]) /\ Untried(queue[w][i])
        /\ \A j \in 1..(i - 1) : queue[w][j] < queue[w][i]
        /\ hand[w] # NoJob => hand[w] < queue[w][i]
        /\ queue[w][i] >= i - 1 + Received(w)

(* The reader sends the ticket it took last; no worker has it yet. *)
SendingLast ==
    sending.ticket # NoJob =>
        /\ sending.ticket = Len(did) - 1
        /\ Owns(sending.worker, sending.ticket)
        /\ Untried(sending.ticket)
        /\ \A w \in W : hand[w] # sending.ticket
        /\ \A w \in W : \A i \in 1..Len(queue[w]) : queue[w][i] # sending.ticket

(* No event is lost between the reader and a worker that is still there. *)
NothingDropped ==
    pool = "running" =>
        \A w \in W \ stopped : \A t \in Tickets :
            Owns(w, t) => \/ Settled(t)
                          \/ t \in {hand[w], sending.ticket}
                          \/ \E i \in 1..Len(queue[w]) : queue[w][i] = t

(* Ticket t has retired, or waits in a finished slot. *)
Passed(w, t) ==
    \/ HasRetired(w, t)
    \/ t < NextTicket(w) /\ w.pending[t - w.front + 1].done

PassedIsSettled == \A t \in Tickets : Passed(wm, t) => Settled(t)

IInv ==
    /\ Typed
    /\ HandsHoldFirst
    /\ QueuesInOrder
    /\ SendingLast
    /\ NothingDropped
    /\ PassedIsSettled
    /\ DidOrder
    /\ DepthCountsQueue

-----------------------------------------------------------------------------
(* Sequences: what the steps use of them *)

LEMMA SeqDomain ==
    ASSUME NEW S, NEW s \in Seq(S)
    PROVE  Len(s) \in Nat /\ DOMAIN s = 1..Len(s)
OBVIOUS

LEMMA SeqElement ==
    ASSUME NEW S, NEW s \in Seq(S), NEW i \in 1..Len(s)
    PROVE  s[i] \in S
OBVIOUS

LEMMA SeqEmpty ==
    ASSUME NEW S
    PROVE  << >> \in Seq(S) /\ Len(<< >>) = 0
OBVIOUS

LEMMA SeqAppended ==
    ASSUME NEW S, NEW s \in Seq(S), NEW e \in S
    PROVE  /\ Append(s, e) \in Seq(S) /\ Len(Append(s, e)) = Len(s) + 1
           /\ \A i \in 1..Len(s) : Append(s, e)[i] = s[i]
           /\ Append(s, e)[Len(s) + 1] = e
OBVIOUS

LEMMA SeqTail ==
    ASSUME NEW S, NEW s \in Seq(S), s # << >>
    PROVE  /\ Len(s) > 0 /\ Head(s) = s[1] /\ Head(s) \in S
           /\ Tail(s) \in Seq(S) /\ Len(Tail(s)) = Len(s) - 1
           /\ \A i \in 1..Len(Tail(s)) : Tail(s)[i] = s[i + 1]
OBVIOUS

LEMMA SeqReplaced ==
    ASSUME NEW S, NEW s \in Seq(S), NEW k \in 1..Len(s), NEW e \in S
    PROVE  /\ [s EXCEPT ![k] = e] \in Seq(S) /\ Len([s EXCEPT ![k] = e]) = Len(s)
           /\ \A i \in 1..Len(s) : [s EXCEPT ![k] = e][i] = IF i = k THEN e ELSE s[i]
OBVIOUS

LEMMA SeqDropped ==
    ASSUME NEW S, NEW s \in Seq(S), NEW n \in 0..Len(s)
    PROVE  /\ SubSeq(s, n + 1, Len(s)) \in Seq(S)
           /\ Len(SubSeq(s, n + 1, Len(s))) = Len(s) - n
           /\ \A i \in 1..(Len(s) - n) : SubSeq(s, n + 1, Len(s))[i] = s[n + i]
OBVIOUS

-----------------------------------------------------------------------------
(* Facts the steps share *)

(* worker_for names one of the pool's workers. *)
LEMMA WorkerForIsWorker ==
    ASSUME NEW d \in Dids
    PROVE  WorkerFor(d) \in W
<1>1. Hash[d] \in Nat /\ Workers \in Nat /\ Workers > 0
  BY PoolAssumption
<1> QED BY <1>1 DEF WorkerFor, W

(* The counters of the status page wrap, but not below their bound. *)
LEMMA CountersCount ==
    ASSUME NEW n \in Nat
    PROVE  /\ Incremented(n) \in Nat /\ Decremented(n) \in Nat
           /\ n + 1 < CounterMod => Incremented(n) = n + 1
           /\ 0 < n /\ n < CounterMod => Decremented(n) = n - 1
<1>1. CounterMod \in Nat /\ CounterMod > 0
  BY PoolAssumption
<1>2. n + 1 \in Nat /\ n + CounterMod - 1 \in Nat
  BY <1>1
<1>3. ASSUME 0 < n, n < CounterMod
      PROVE  (n + CounterMod - 1) % CounterMod = n - 1
  <2>1. n + CounterMod - 1 = CounterMod * 1 + (n - 1) /\ n - 1 \in 0..(CounterMod - 1)
    BY <1>1, <1>3
  <2> QED BY <1>1, <2>1
<1> QED BY <1>1, <1>2, <1>3 DEF Incremented, Decremented

(* What is known of an event stays as long as its history does. *)
LEMMA HistoryKept ==
    ASSUME did' = did, UNCHANGED history
    PROVE  /\ Tickets' = Tickets
           /\ \A w, t : Owns(w, t)' <=> Owns(w, t)
           /\ \A t : Untried(t)' <=> Untried(t)
           /\ \A t : Settled(t)' <=> Settled(t)
           /\ DidOrder' <=> DidOrder
BY Zenon DEF Tickets, Owns, WorkerFor, Untried, Settled, DidOrder, history

(* A ticket's place in the sequences the reader keeps. *)
LEMMA TicketPlace ==
    ASSUME Typed, NEW t \in Tickets
    PROVE  /\ t \in Nat /\ t + 1 \in 1..Len(did) /\ t < Len(did)
           /\ did[t + 1] \in Dids /\ failures[t + 1] \in Nat
           /\ WorkerFor(did[t + 1]) \in W
<1>1. Len(did) \in Nat /\ Len(failures) = Len(did)
  BY Zenon, SeqDomain DEF Typed
<1>2. t \in Nat /\ t + 1 \in 1..Len(did) /\ t < Len(did)
  BY <1>1 DEF Tickets
<1>3. did[t + 1] \in Dids /\ failures[t + 1] \in Nat
  BY Zenon, <1>1, <1>2, SeqElement DEF Typed
<1> QED BY Zenon, <1>2, <1>3, WorkerForIsWorker

LEMMA BeforeLast ==
    ASSUME Typed, NEW t \in Tickets, t # Len(did) - 1
    PROVE  t \in Nat /\ t < Len(did) - 1
BY SMTT(60), TicketPlace, SeqDomain DEF Typed

(* A ticket has one worker. *)
LEMMA OneOwner ==
    ASSUME NEW v, NEW w, NEW t, Owns(v, t), Owns(w, t)
    PROVE  v = w
BY Zenon DEF Owns

LEMMA QueueTypes ==
    ASSUME Typed, NEW w \in W
    PROVE  /\ queue[w] \in Seq(Nat) /\ Len(queue[w]) \in Nat
           /\ \A i \in 1..Len(queue[w]) : queue[w][i] \in Nat
           /\ Received(w) \in {0, 1} /\ Sent(w) \in {0, 1}
           /\ depth[w] \in Nat /\ hand[w] \in Nat \cup {NoJob}
BY Zenon, SeqDomain, SeqElement DEF Typed, Received, Sent

(* The reader's hand is empty once a send is over. *)
LEMMA SentNothing ==
    ASSUME Typed, sending' = [sending EXCEPT !.ticket = NoJob]
    PROVE  /\ sending'.ticket = NoJob
           /\ sending' \in [ticket : Nat \cup {NoJob}, worker : W]
           /\ \A w : Sent(w)' = 0
<1>1. /\ sending'.ticket = NoJob
      /\ sending' \in [ticket : Nat \cup {NoJob}, worker : W]
  <2>1. sending \in [ticket : Nat \cup {NoJob}, worker : W]
    BY Zenon DEF Typed
  <2> QED BY Zenon, <2>1
<1> QED BY Zenon, <1>1 DEF Sent

(* A worker's tickets in hand and in its queue, and how many they can be. *)
LEMMA QueueBound ==
    ASSUME Typed, HandsHoldFirst, QueuesInOrder, SendingLast, NEW w \in W
    PROVE  /\ Len(queue[w]) \in Nat
           /\ Len(queue[w]) + Sent(w) + Received(w) <= Len(did)
<1>1. /\ Len(queue[w]) \in Nat /\ Len(did) \in Nat /\ queue[w] \in Seq(Nat)
      /\ Received(w) \in {0, 1} /\ Sent(w) \in {0, 1}
  BY Zenon, SeqDomain DEF Typed, Received, Sent
<1>2. CASE queue[w] = <<>>
  <2>1. Len(queue[w]) = 0
    BY <1>2
  <2>2. Received(w) = 1 => Len(did) >= 1 /\ hand[w] \in 0..(Len(did) - 1)
    BY <1>1 DEF HandsHoldFirst, Owns, Tickets, Received
  <2>3. Sent(w) = 1 => Len(did) - 1 \in 0..(Len(did) - 1) /\ hand[w] # Len(did) - 1
    BY <1>1 DEF SendingLast, Owns, Tickets, Sent
  <2> QED BY <1>1, <2>1, <2>2, <2>3
<1>3. CASE queue[w] # <<>>
  <2> DEFINE n == Len(queue[w])
  <2>1. n \in 1..Len(queue[w])
    BY <1>1, <1>3, SeqEmpty
  <2>2. queue[w][n] \in 0..(Len(did) - 1) /\ queue[w][n] >= n - 1 + Received(w)
    BY Zenon, <2>1 DEF QueuesInOrder, Owns, Tickets
  <2>3. Sent(w) = 1 => queue[w][n] # Len(did) - 1
    BY <2>1 DEF SendingLast, Sent
  <2> QED BY SMTT(60), <1>1, <2>1, <2>2, <2>3
<1> QED BY Zenon, <1>2, <1>3

-----------------------------------------------------------------------------
LEMMA InitHolds == Init => IInv
<1> SUFFICES ASSUME Init PROVE IInv
  BY Zenon
<1> USE DEF Init
<1>1. Len(did) = 0 /\ Len(failures) = 0 /\ Tickets = {} /\ 0 \in W
  BY PoolAssumption DEF Tickets, W
<1>2. Typed
  <2>1. wm \in Watermarks /\ NextTicket(wm) = 0
    BY DEF Watermarks, EmptyWatermark, NextTicket
  <2> QED BY <1>1, <2>1, PoolAssumption DEF Typed, Steps, PoolStates
<1>3. HandsHoldFirst /\ QueuesInOrder /\ SendingLast
  BY DEF HandsHoldFirst, QueuesInOrder, SendingLast
<1>4. NothingDropped /\ PassedIsSettled /\ DidOrder
  BY Zenon, <1>1 DEF NothingDropped, PassedIsSettled, DidOrder
<1>5. DepthCountsQueue
  BY DEF DepthCountsQueue, Sent, Received
<1> QED BY Zenon, <1>2, <1>3, <1>4, <1>5 DEF IInv

-----------------------------------------------------------------------------
(* The reader *)

(* A ticket just taken is the last one, and is being sent to its worker. *)
LEMMA DispatchHolds ==
    ASSUME IInv, NEW d \in Dids, Dispatch(d)
    PROVE  IInv'
<1> DEFINE n == Len(did)
           v == WorkerFor(d)
<1>0. Typed /\ HandsHoldFirst /\ QueuesInOrder /\ SendingLast /\ NothingDropped
      /\ PassedIsSettled /\ DidOrder /\ DepthCountsQueue
  BY Zenon DEF IInv
<1>1. /\ n \in Nat /\ n < MaxTickets /\ MaxTickets \in Nat /\ n = NextTicket(wm)
      /\ Len(failures) = n /\ v \in W /\ wm.front \in Nat /\ wm.pending \in Seq(Slots)
      /\ Len(wm.pending) \in Nat
  BY Zenon, <1>0, PoolAssumption, SeqDomain, WorkerForIsWorker DEF Typed, Dispatch, Watermarks
<1>2. /\ did' \in Seq(Dids) /\ Len(did') = n + 1 /\ did'[n + 1] = d
      /\ \A i \in 1..n : did'[i] = did[i]
  BY SMTT(60), <1>0, <1>1, SeqAppended DEF Typed, Dispatch
<1>3. /\ failures' \in Seq(Nat) /\ Len(failures') = n + 1 /\ failures'[n + 1] = 0
      /\ \A i \in 1..n : failures'[i] = failures[i]
  BY SMTT(60), <1>0, <1>1, SeqAppended DEF Typed, Dispatch
<1>4. /\ wm' \in Watermarks /\ NextTicket(wm') = n + 1 /\ wm'.front = wm.front
      /\ \A i \in 1..Len(wm.pending) : wm'.pending[i] = wm.pending[i]
      /\ ~wm'.pending[Len(wm.pending) + 1].done
  <2> DEFINE slot == [point |-> n + 1, done |-> FALSE]
  <2>1. slot \in Slots
    BY <1>1, PoolAssumption DEF Slots
  <2>2. wm' = [wm EXCEPT !.pending = Append(wm.pending, slot)]
    BY Zenon, <1>1 DEF Dispatch, BeginTicket
  <2>3. /\ Append(wm.pending, slot) \in Seq(Slots)
        /\ Len(Append(wm.pending, slot)) = Len(wm.pending) + 1
        /\ Append(wm.pending, slot)[Len(wm.pending) + 1] = slot
        /\ \A i \in 1..Len(wm.pending) : Append(wm.pending, slot)[i] = wm.pending[i]
    BY <1>1, <2>1, SeqAppended
  <2>4. /\ wm'.front = wm.front /\ wm'.applied = wm.applied
        /\ wm'.pending = Append(wm.pending, slot) /\ wm' \in Watermarks
    <3> DEFINE q == Append(wm.pending, slot)
    <3>1. q \in Seq(Slots) /\ wm' = [wm EXCEPT !.pending = q] /\ wm \in Watermarks
      BY Zenon, <1>0, <2>2, <2>3 DEF Typed
    <3> HIDE DEF q
    <3>2. /\ wm'.front = wm.front /\ wm'.applied = wm.applied
          /\ wm'.pending = q /\ wm' \in Watermarks
      BY Zenon, <3>1 DEF Watermarks
    <3> QED BY Zenon, <3>2 DEF q
  <2> QED BY SMTT(60), <1>1, <2>3, <2>4 DEF NextTicket
<1>5. /\ Tickets' = Tickets \cup {n} /\ n \notin Tickets
      /\ \A t \in Tickets : t \in Nat /\ t + 1 \in 1..n
  BY <1>1, <1>2 DEF Tickets
<1>6. /\ \A t \in Tickets : \A w : Owns(w, t)' <=> Owns(w, t)
      /\ \A t \in Tickets : Untried(t)' <=> Untried(t)
      /\ \A t \in Tickets : Settled(t)' <=> Settled(t)
  <2>1. ASSUME NEW t \in Tickets
        PROVE  /\ \A w : Owns(w, t)' <=> Owns(w, t)
               /\ Untried(t)' <=> Untried(t)
               /\ Settled(t)' <=> Settled(t)
    <3>1. did'[t + 1] = did[t + 1] /\ failures'[t + 1] = failures[t + 1] /\ t \in Tickets'
      BY Zenon, <1>2, <1>3, <1>5
    <3>2. Untried(t)' <=> Untried(t)
      BY Zenon, <3>1 DEF Untried
    <3>3. Settled(t)' <=> Settled(t)
      <4>1. applied' = applied /\ refused' = refused
        BY Zenon DEF Dispatch
      <4> QED BY Zenon, <3>1, <4>1 DEF Settled
    <3>4. \A w : Owns(w, t)' <=> Owns(w, t)
      BY Zenon, <3>1 DEF Owns, WorkerFor
    <3> QED BY Zenon, <3>2, <3>3, <3>4
  <2> QED BY Zenon, <2>1
<1>7. \A w, t : Owns(w, t) => t \in Tickets
  BY Zenon DEF Owns
<1>8. Typed'
  <2>1. sending' \in [ticket : Nat \cup {NoJob}, worker : W]
    BY Zenon, <1>1 DEF Dispatch
  <2>2. depth' \in [W -> Nat]
    <3>1. Incremented(depth[v]) \in Nat
      BY Zenon, <1>0, <1>1, CountersCount DEF Typed
    <3> QED BY Zenon, <1>0, <1>1, <3>1 DEF Typed, Dispatch
  <2>3. n + 1 <= MaxTickets /\ applied' \subseteq Tickets' /\ refused' \subseteq Tickets'
    BY SMTT(60), <1>0, <1>1, <1>5 DEF Typed, Dispatch
  <2> QED BY Zenon, <1>0, <1>2, <1>3, <1>4, <2>1, <2>2, <2>3
          DEF Typed, Dispatch, environment
<1>9. HandsHoldFirst'
  <2> SUFFICES ASSUME NEW w \in W PROVE HandsHoldFirst!(w)'
    BY Zenon DEF HandsHoldFirst
  <2>1. HandsHoldFirst!(w) /\ hand' = hand /\ step' = step /\ fails' = fails
    BY Zenon, <1>0 DEF HandsHoldFirst, Dispatch
  <2>2. hand[w] # NoJob => hand[w] \in Tickets /\ \A t \in 0..(hand[w] - 1) : t \in Tickets
    BY <1>1, <1>5, <2>1 DEF Owns, Tickets
  <2>3. step[w] # "idle" => hand[w] \in Tickets
    BY Zenon, <2>1, <2>2
  <2>4. hand[w] \in Tickets => failures'[hand[w] + 1] = failures[hand[w] + 1]
    BY Zenon, <1>3, <1>5
  <2> QED BY Zenon, <1>6, <2>1, <2>2, <2>3, <2>4
<1>10. QueuesInOrder'
  BY ZenonT(60), <1>0, <1>6, <1>7 DEF QueuesInOrder, Dispatch, Received
<1>11. SendingLast'
  <2>1. sending'.ticket = n /\ sending'.worker = v /\ hand' = hand /\ queue' = queue
    BY Zenon, <1>1 DEF Dispatch
  <2>2. \A w \in W : hand[w] # n
    <3> TAKE w \in W
    <3>1. hand[w] # NoJob => hand[w] \in Tickets
      BY Zenon, <1>0 DEF HandsHoldFirst, Owns
    <3>2. n # NoJob
      BY Zenon, <1>1, PoolAssumption
    <3> QED BY Zenon, <1>5, <3>1, <3>2
  <2>3. \A w \in W : \A i \in 1..Len(queue[w]) : queue[w][i] # n
    BY Zenon, <1>0, <1>5, <1>7 DEF QueuesInOrder
  <2>4. Owns(sending.worker, sending.ticket)' /\ Untried(sending.ticket)'
    BY Zenon, <1>2, <1>3, <1>5, <2>1 DEF Owns, WorkerFor, Untried
  <2> QED BY <1>1, <1>2, <2>1, <2>2, <2>3, <2>4 DEF SendingLast
<1>12. NothingDropped'
  <2> SUFFICES ASSUME NEW w \in W \ stopped, NEW t \in Tickets', Owns(w, t)', pool = "running"
               PROVE  \/ Settled(t)'
                      \/ t \in {hand[w], sending'.ticket}
                      \/ \E i \in 1..Len(queue[w]) : queue[w][i] = t
    BY DEF NothingDropped, Dispatch, environment
  <2>1. CASE t = n
    BY Zenon, <1>1, <2>1 DEF Dispatch
  <2>2. CASE t \in Tickets
    <3>1. Owns(w, t) /\ sending.ticket = NoJob /\ t # NoJob
      BY Zenon, <1>5, <1>6, <2>2, PoolAssumption DEF Dispatch
    <3> QED BY Zenon, <1>0, <1>6, <2>2, <3>1 DEF NothingDropped
  <2> QED BY ZenonT(60), <1>5, <2>1, <2>2
<1>13. PassedIsSettled'
  <2> SUFFICES ASSUME NEW t \in Tickets', Passed(wm', t) PROVE Settled(t)'
    BY Zenon DEF PassedIsSettled
  <2>1. CASE t = n
    <3>1. t - wm'.front + 1 = Len(wm.pending) + 1 /\ ~HasRetired(wm', t)
      BY SMTT(60), <1>1, <1>4, <2>1 DEF NextTicket, HasRetired
    <3> QED BY Zenon, <1>4, <3>1 DEF Passed
  <2>2. CASE t \in Tickets
    <3>1. ~HasRetired(wm, t) => t - wm.front + 1 \in 1..Len(wm.pending) /\ t < NextTicket(wm)
      BY SMTT(60), <1>1, <2>2 DEF HasRetired, NextTicket, Tickets
    <3>2. HasRetired(wm', t) <=> HasRetired(wm, t)
      BY Zenon, <1>4 DEF HasRetired
    <3>3. Passed(wm, t)
      BY <1>4, <3>1, <3>2 DEF Passed
    <3> QED BY Zenon, <1>0, <1>6, <2>2, <3>3 DEF PassedIsSettled
  <2> QED BY Zenon, <1>5, <2>1, <2>2
<1>14. DidOrder'
  <2> SUFFICES ASSUME NEW u \in Tickets', NEW t \in 0..(u - 1),
                      did'[t + 1] = did'[u + 1], u \in applied' \/ failures'[u + 1] > 0
               PROVE  Settled(t)'
    BY Zenon DEF DidOrder
  <2>1. u # n
    BY SMTT(60), <1>0, <1>3, <1>5 DEF Typed, Dispatch
  <2>2. u \in Tickets /\ t \in Tickets
    BY SMTT(60), <1>1, <1>5, <2>1 DEF Tickets
  <2>3. did[t + 1] = did[u + 1] /\ (u \in applied \/ failures[u + 1] > 0)
    BY Zenon, <1>2, <1>3, <1>5, <2>2 DEF Dispatch
  <2> QED BY Zenon, <1>0, <1>6, <2>2, <2>3 DEF DidOrder
<1>15. DepthCountsQueue'
  <2> SUFFICES ASSUME NEW w \in W, pool = "running"
               PROVE  depth'[w] = Len(queue'[w]) + Sent(w)' + Received(w)'
    BY Zenon DEF DepthCountsQueue, Dispatch, environment
  <2>1. depth[w] = Len(queue[w]) + Sent(w) + Received(w) /\ depth[w] \in Nat
        /\ Sent(w) = 0 /\ Received(w) \in {0, 1} /\ Received(w)' = Received(w) /\ queue' = queue
    BY Zenon, <1>0 DEF DepthCountsQueue, Dispatch, Sent, Received, Typed
  <2>2. Len(queue[w]) \in Nat /\ Len(queue[w]) + Sent(w) + Received(w) <= n
    BY Zenon, <1>0, QueueBound
  <2>3. depth[w] + 1 < CounterMod
    BY SMTT(60), <1>1, <2>1, <2>2, PoolAssumption
  <2>4. CASE w = v
    <3>1. Sent(w)' = 1
      BY Zenon, <1>1, <2>4, PoolAssumption DEF Sent, Dispatch
    <3>2. depth'[w] = depth[w] + 1
      BY Zenon, <1>0, <2>1, <2>3, <2>4, CountersCount DEF Typed, Dispatch
    <3> QED BY <2>1, <2>2, <3>1, <3>2
  <2>5. CASE w # v
    <3>1. Sent(w)' = 0 /\ depth'[w] = depth[w]
      BY Zenon, <1>0, <2>5 DEF Sent, Dispatch, Typed
    <3> QED BY Zenon, <2>1, <3>1
  <2> QED BY Zenon, <2>4, <2>5
<1> QED BY Zenon, <1>8, <1>9, <1>10, <1>11, <1>12, <1>13, <1>14, <1>15 DEF IInv

(* The ticket joins the end of its worker's queue. *)
LEMMA SendHolds ==
    ASSUME IInv, Send
    PROVE  IInv'
<1> SUFFICES ASSUME NEW v, NEW x, v = sending.worker, x = sending.ticket
             PROVE  IInv'
  BY Zenon
<1> DEFINE n == Len(queue[v])
<1>0. Typed /\ HandsHoldFirst /\ QueuesInOrder /\ SendingLast /\ NothingDropped
      /\ PassedIsSettled /\ DidOrder /\ DepthCountsQueue
  BY Zenon DEF IInv
<1>1. /\ v \in W /\ x \in Nat /\ queue[v] \in Seq(Nat) /\ n \in Nat /\ Len(did) \in Nat
      /\ x # NoJob
  BY Zenon, <1>0, SeqDomain DEF Typed, Send
<1>2. /\ x = Len(did) - 1 /\ Owns(v, x) /\ Untried(x)
      /\ \A w \in W : hand[w] # x
      /\ \A w \in W : \A i \in 1..Len(queue[w]) : queue[w][i] # x
  BY Zenon, <1>0, <1>1 DEF SendingLast
<1>3. /\ sending' = [sending EXCEPT !.ticket = NoJob]
      /\ did' = did /\ UNCHANGED history /\ wm' = wm /\ hand' = hand /\ step' = step
      /\ fails' = fails /\ depth' = depth /\ pool' = pool /\ stopped' = stopped
  BY Zenon DEF Send, counters, environment
<1>4. /\ Tickets' = Tickets
      /\ \A w, t : Owns(w, t)' <=> Owns(w, t)
      /\ \A t : Untried(t)' <=> Untried(t)
      /\ \A t : Settled(t)' <=> Settled(t)
      /\ DidOrder' <=> DidOrder
  BY Zenon, <1>3, HistoryKept
<1>5. /\ queue' \in [W -> Seq(Nat)]
      /\ \A w \in W : w # v => queue'[w] = queue[w]
      /\ Len(queue'[v]) = n + 1 /\ queue'[v][n + 1] = x
      /\ \A i \in 1..n : queue'[v][i] = queue[v][i]
  <2>1. /\ Append(queue[v], x) \in Seq(Nat) /\ Len(Append(queue[v], x)) = n + 1
        /\ Append(queue[v], x)[n + 1] = x
        /\ \A i \in 1..n : Append(queue[v], x)[i] = queue[v][i]
    BY <1>1, SeqAppended
  <2>2. queue'[v] = Append(queue[v], x)
    BY Zenon, <1>0, <1>1 DEF Typed, Send
  <2>3. queue' \in [W -> Seq(Nat)] /\ \A w \in W : w # v => queue'[w] = queue[w]
    BY Zenon, <1>0, <1>1, <2>1 DEF Typed, Send
  <2> QED BY Zenon, <2>1, <2>2, <2>3
<1>6. ASSUME NEW w \in W
      PROVE  /\ Len(queue[w]) \in Nat /\ Len(queue'[w]) \in Nat
             /\ Len(queue[w]) <= Len(queue'[w])
             /\ \A i \in 1..Len(queue[w]) : queue'[w][i] = queue[w][i]
  <2>1. Len(queue[w]) \in Nat
    BY Zenon, <1>0, QueueTypes
  <2>2. CASE w = v
    BY <1>1, <1>5, <2>1, <2>2
  <2>3. CASE w # v
    BY <1>5, <2>1, <2>3
  <2> QED BY Zenon, <2>2, <2>3
<1>7. Typed'
  <2>1. sending' \in [ticket : Nat \cup {NoJob}, worker : W]
    BY Zenon, <1>0, <1>3, SentNothing
  <2> QED BY Zenon, <1>0, <1>3, <1>4, <1>5, <2>1 DEF Typed, history
<1>8. HandsHoldFirst'
  <2>1. failures' = failures
    BY Zenon, <1>3 DEF history
  <2> QED BY ZenonT(60), <1>0, <1>3, <1>4, <2>1 DEF HandsHoldFirst
<1>9. QueuesInOrder'
  <2> SUFFICES ASSUME NEW w \in W, NEW i \in 1..Len(queue'[w])
               PROVE  /\ Owns(w, queue'[w][i]) /\ Untried(queue'[w][i])
                      /\ \A j \in 1..(i - 1) : queue'[w][j] < queue'[w][i]
                      /\ hand[w] # NoJob => hand[w] < queue'[w][i]
                      /\ queue'[w][i] >= i - 1 + Received(w)
    BY Zenon, <1>3 DEF QueuesInOrder, Received, Owns, Untried, Tickets, WorkerFor, history
  <2>1. CASE i \in 1..Len(queue[w])
    <3>1. /\ queue'[w][i] = queue[w][i]
          /\ \A j \in 1..(i - 1) : j \in 1..Len(queue[w]) /\ queue'[w][j] = queue[w][j]
      BY <1>6, <2>1
    <3> QED BY Zenon, <1>0, <2>1, <3>1 DEF QueuesInOrder
  <2>2. CASE w = v /\ i = n + 1
    <3>1. queue'[w][i] = x /\ \A j \in 1..(i - 1) : j \in 1..n /\ queue'[w][j] = queue[w][j]
      BY <1>1, <1>5, <2>2
    <3>2. ASSUME NEW j \in 1..n PROVE queue[v][j] \in Nat /\ queue[v][j] < x
      <4>1. queue[v][j] \in Tickets /\ queue[v][j] # x
        BY Zenon, <1>0, <1>1, <1>2 DEF QueuesInOrder, Owns
      <4> QED BY Zenon, <1>0, <1>2, <4>1, BeforeLast
    <3>3. hand[v] # NoJob => hand[v] \in Nat /\ hand[v] < x
      <4>1. hand[v] # NoJob => hand[v] \in Tickets /\ hand[v] # x
        BY Zenon, <1>0, <1>1, <1>2 DEF HandsHoldFirst, Owns
      <4> QED BY Zenon, <1>0, <1>2, <4>1, BeforeLast
    <3>4. x >= n + Received(v)
      <4>1. Received(v) \in {0, 1} /\ (Received(v) = 1 => hand[v] # NoJob)
        BY <1>0, <1>1 DEF Received, HandsHoldFirst
      <4>2. CASE n = 0
        BY <1>1, <3>3, <4>1, <4>2
      <4>3. CASE n > 0
        <5>1. n \in 1..n
          BY <1>1, <4>3
        <5>2. queue[v][n] >= n - 1 + Received(v)
          BY Zenon, <1>0, <1>1, <5>1 DEF QueuesInOrder
        <5>3. queue[v][n] \in Nat /\ queue[v][n] < x
          BY Zenon, <3>2, <5>1
        <5> QED BY SMTT(60), <1>1, <4>1, <5>2, <5>3
      <4> QED BY <1>1, <4>2, <4>3
    <3>5. i - 1 + Received(v) = n + Received(v)
      BY <1>1, <2>2
    <3> QED BY ZenonT(60), <1>2, <2>2, <3>1, <3>2, <3>3, <3>4, <3>5
  <2> QED BY SMTT(60), <1>1, <1>5, <2>1, <2>2
<1>10. SendingLast'
  BY Zenon, <1>0, <1>3, SentNothing DEF SendingLast
<1>11. NothingDropped'
  <2> SUFFICES ASSUME pool = "running", NEW w \in W \ stopped, NEW t \in Tickets,
                      Owns(w, t), ~Settled(t), t # hand[w]
               PROVE  \E i \in 1..Len(queue'[w]) : queue'[w][i] = t
    BY Zenon, <1>3, <1>4 DEF NothingDropped
  <2>1. CASE t = x
    <3>1. w = v
      BY Zenon, <1>2, <2>1, OneOwner
    <3>2. n + 1 \in 1..Len(queue'[w])
      BY <1>1, <1>5, <3>1
    <3> QED BY Zenon, <1>5, <2>1, <3>1, <3>2
  <2>2. CASE t # x
    <3>1. PICK i \in 1..Len(queue[w]) : queue[w][i] = t
      BY Zenon, <1>0, <2>2 DEF NothingDropped
    <3>2. i \in 1..Len(queue'[w]) /\ queue'[w][i] = t
      BY <1>6, <3>1
    <3> QED BY Zenon, <3>2
  <2> QED BY Zenon, <2>1, <2>2
<1>12. PassedIsSettled'
  BY Zenon, <1>0, <1>3, <1>4 DEF PassedIsSettled
<1>13. DepthCountsQueue'
  <2> SUFFICES ASSUME NEW w \in W, pool = "running"
               PROVE  depth[w] = Len(queue'[w]) + Sent(w)' + Received(w)
    BY Zenon, <1>3 DEF DepthCountsQueue, Received
  <2>1. /\ depth[w] = Len(queue[w]) + Sent(w) + Received(w) /\ Sent(w)' = 0
        /\ Received(w) \in {0, 1} /\ Sent(w) = IF w = v THEN 1 ELSE 0
    <3>1. depth[w] = Len(queue[w]) + Sent(w) + Received(w)
      BY Zenon, <1>0 DEF DepthCountsQueue
    <3>2. Sent(w)' = 0 /\ Received(w) \in {0, 1}
      BY Zenon, <1>0, <1>3, SentNothing, QueueTypes
    <3>3. Sent(w) = IF w = v THEN 1 ELSE 0
      BY Zenon, <1>1 DEF Sent
    <3> QED BY Zenon, <3>1, <3>2, <3>3
  <2>2. CASE w = v
    BY <1>1, <1>5, <2>1, <2>2
  <2>3. CASE w # v
    BY Zenon, <1>5, <1>6, <2>1, <2>3
  <2> QED BY Zenon, <2>2, <2>3
<1> QED BY Zenon, <1>0, <1>4, <1>7, <1>8, <1>9, <1>10, <1>11, <1>12, <1>13 DEF IInv

-----------------------------------------------------------------------------
(* A worker *)

(* The job received is the oldest the worker owes: all its others that are  *)
(* open wait behind it.                                                     *)
LEMMA ReceiveHolds ==
    ASSUME IInv, NEW v \in W, Receive(v)
    PROVE  IInv'
<1> SUFFICES ASSUME NEW q, q = queue[v]
             PROVE  IInv'
  BY Zenon
<1>0. Typed /\ HandsHoldFirst /\ QueuesInOrder /\ SendingLast /\ NothingDropped
      /\ PassedIsSettled /\ DidOrder /\ DepthCountsQueue
  BY Zenon DEF IInv
<1>1. q \in Seq(Nat) /\ Len(q) \in Nat \ {0} /\ q # <<>> /\ hand[v] = NoJob
      /\ step[v] = "idle" /\ v \notin stopped /\ pool = "running"
  BY <1>0, SeqEmpty DEF Typed, Receive, Runs, HandsHoldFirst
<1>2. /\ did' = did /\ UNCHANGED history /\ wm' = wm /\ sending' = sending /\ depth' = depth
      /\ fails' = fails /\ pool' = pool /\ stopped' = stopped
      /\ hand' = [hand EXCEPT ![v] = Head(q)]
      /\ queue' = [queue EXCEPT ![v] = Tail(q)]
      /\ step' = [step EXCEPT ![v] = "received"]
  BY Zenon DEF Receive, reader, counters, environment
<1>3. /\ Tickets' = Tickets
      /\ \A w, t : Owns(w, t)' <=> Owns(w, t)
      /\ \A t : Untried(t)' <=> Untried(t)
      /\ \A t : Settled(t)' <=> Settled(t)
      /\ DidOrder' <=> DidOrder
  BY Zenon, <1>2, HistoryKept
<1>4. /\ Head(q) = q[1] /\ Head(q) \in Nat /\ Tail(q) \in Seq(Nat) /\ Len(Tail(q)) = Len(q) - 1
      /\ \A i \in 1..(Len(q) - 1) : Tail(q)[i] = q[i + 1]
  BY Zenon, <1>1, SeqTail
<1>5. /\ hand'[v] = q[1] /\ step'[v] = "received"
      /\ Len(queue'[v]) = Len(q) - 1 /\ \A i \in 1..(Len(q) - 1) : queue'[v][i] = q[i + 1]
      /\ \A w \in W \ {v} : hand'[w] = hand[w] /\ queue'[w] = queue[w] /\ step'[w] = step[w]
  <2>1. hand'[v] = q[1] /\ queue'[v] = Tail(q) /\ step'[v] = "received"
    BY Zenon, <1>0, <1>2, <1>4 DEF Typed
  <2>2. \A w \in W \ {v} : hand'[w] = hand[w] /\ queue'[w] = queue[w] /\ step'[w] = step[w]
    BY Zenon, <1>0, <1>2 DEF Typed
  <2> QED BY Zenon, <1>4, <2>1, <2>2
<1>6. /\ \A i \in 1..Len(q) : Owns(v, q[i]) /\ Untried(q[i]) /\ q[i] \in Nat
      /\ \A i \in 1..Len(q) : \A j \in 1..(i - 1) : q[j] < q[i]
      /\ \A i \in 1..Len(q) : q[i] >= i - 1
  <2>1. Received(v) = 0
    BY Zenon, <1>1 DEF Received
  <2> SUFFICES ASSUME NEW i \in 1..Len(q)
               PROVE  /\ Owns(v, q[i]) /\ Untried(q[i]) /\ q[i] \in Nat
                      /\ \A j \in 1..(i - 1) : q[j] < q[i]
                      /\ q[i] >= i - 1
    BY Zenon
  <2>2. /\ Owns(v, q[i]) /\ Untried(q[i]) /\ \A j \in 1..(i - 1) : q[j] < q[i]
        /\ q[i] >= i - 1 + Received(v)
    BY Zenon, <1>0 DEF QueuesInOrder
  <2>3. q[i] \in Nat
    BY Zenon, <1>1, SeqElement
  <2> QED BY <2>1, <2>2, <2>3
<1>7. Typed'
  <2>1. hand' \in [W -> Nat \cup {NoJob}] /\ queue' \in [W -> Seq(Nat)] /\ step' \in [W -> Steps]
    BY Zenon, <1>0, <1>2, <1>4 DEF Typed, Steps
  <2> QED BY Zenon, <1>0, <1>2, <1>3, <2>1 DEF Typed, history
<1>8. HandsHoldFirst'
  <2> SUFFICES ASSUME NEW w \in W PROVE HandsHoldFirst!(w)'
    BY Zenon DEF HandsHoldFirst
  <2>1. CASE w # v
    <3>1. HandsHoldFirst!(w) /\ hand'[w] = hand[w] /\ step'[w] = step[w] /\ failures' = failures
      BY Zenon, <1>0, <1>2, <1>5, <2>1 DEF HandsHoldFirst, history
    <3> QED BY Zenon, <1>2, <1>3, <3>1 DEF Owns, Untried, Settled, WorkerFor, history
  <2>2. CASE w = v
    <3>1. q[1] \in Nat /\ q[1] # NoJob /\ Owns(v, q[1]) /\ Untried(q[1])
      BY <1>1, <1>6, PoolAssumption
    <3>2. ASSUME NEW t \in 0..(q[1] - 1), Owns(v, t)
          PROVE  Settled(t)
      <4>1. t \in Tickets /\ t < q[1] /\ t \in Nat
        BY <3>1, <3>2 DEF Owns
      <4>2. t # hand[v]
        BY Zenon, <1>1, <4>1, PoolAssumption
      <4>3. \A i \in 1..Len(q) : q[i] # t
        BY SMTT(60), <1>1, <1>6, <4>1
      <4>4. t # sending.ticket
        <5> SUFFICES ASSUME t = sending.ticket PROVE FALSE
          BY Zenon
        <5>1. t = Len(did) - 1
          BY Zenon, <1>0, <4>1, PoolAssumption DEF SendingLast
        <5>2. q[1] \in Tickets
          BY Zenon, <3>1 DEF Owns
        <5> QED BY <4>1, <5>1, <5>2, <1>0, TicketPlace
      <4> QED BY ZenonT(60), <1>0, <1>1, <3>2, <4>1, <4>2, <4>3, <4>4 DEF NothingDropped
    <3>3. /\ Owns(w, hand[w])' /\ Untried(hand[w])'
      BY Zenon, <1>2, <1>5, <2>2, <3>1 DEF Owns, Untried, Tickets, WorkerFor, history
    <3> QED BY Zenon, <1>3, <1>5, <2>2, <3>1, <3>2, <3>3
  <2> QED BY Zenon, <2>1, <2>2
<1>9. QueuesInOrder'
  <2> SUFFICES ASSUME NEW w \in W, NEW i \in 1..Len(queue'[w])
               PROVE  /\ Owns(w, queue'[w][i]) /\ Untried(queue'[w][i])
                      /\ \A j \in 1..(i - 1) : queue'[w][j] < queue'[w][i]
                      /\ hand'[w] # NoJob => hand'[w] < queue'[w][i]
                      /\ queue'[w][i] >= i - 1 + Received(w)'
    <3>1. did' = did /\ failures' = failures
      BY Zenon, <1>2 DEF history
    <3> QED BY Zenon, <3>1 DEF QueuesInOrder, Owns, Untried, Tickets, WorkerFor
  <2>1. CASE w # v
    <3>1. Received(w)' = Received(w)
      BY Zenon, <1>5, <2>1 DEF Received
    <3> QED BY ZenonT(60), <1>0, <1>5, <2>1, <3>1 DEF QueuesInOrder
  <2>2. CASE w = v
    <3>1. i + 1 \in 1..Len(q) /\ queue'[w][i] = q[i + 1] /\ Received(w)' = 1
          /\ \A j \in 1..(i - 1) : queue'[w][j] = q[j + 1] /\ j + 1 \in 1..i
      <4>1. i \in 1..(Len(q) - 1)
        BY Zenon, <1>5, <2>2
      <4>2. Received(w)' = 1
        BY Zenon, <1>5, <2>2 DEF Received
      <4>3. i + 1 \in 1..Len(q) /\ \A j \in 1..i : j \in 1..(Len(q) - 1)
        BY <1>1, <4>1
      <4>4. \A j \in 1..(i - 1) : j \in 1..i /\ j + 1 \in 1..i
        BY <4>1
      <4>5. \A j \in 1..i : queue'[w][j] = q[j + 1]
        BY Zenon, <1>5, <2>2, <4>3
      <4>6. i \in 1..i
        BY <4>1
      <4> QED BY Zenon, <4>2, <4>3, <4>4, <4>5, <4>6
    <3>2. \A j \in 1..i : q[j] < q[i + 1]
      BY <1>6, <3>1
    <3>3. q[1] < q[i + 1] /\ q[i + 1] >= i
      BY <1>1, <1>6, <3>1, <3>2
    <3>4. \A j \in 1..(i - 1) : queue'[w][j] < queue'[w][i]
      BY Zenon, <3>1, <3>2
    <3> QED BY <1>5, <1>6, <2>2, <3>1, <3>3, <3>4
  <2> QED BY Zenon, <2>1, <2>2
<1>10. SendingLast'
  <2> SUFFICES ASSUME sending.ticket # NoJob
               PROVE  /\ sending.ticket = Len(did) - 1
                      /\ Owns(sending.worker, sending.ticket)
                      /\ Untried(sending.ticket)
                      /\ \A w \in W : hand'[w] # sending.ticket
                      /\ \A w \in W : \A i \in 1..Len(queue'[w]) : queue'[w][i] # sending.ticket
    <3>1. did' = did /\ failures' = failures /\ sending' = sending
      BY Zenon, <1>2 DEF history
    <3> QED BY Zenon, <3>1 DEF SendingLast, Owns, Untried, Tickets, WorkerFor
  <2>1. SendingLast!2
    BY Zenon, <1>0 DEF SendingLast
  <2>2. ASSUME NEW w \in W
        PROVE  hand'[w] # sending.ticket
    <3>1. CASE w = v
      <4>1. 1 \in 1..Len(q)
        BY <1>1
      <4> QED BY ZenonT(60), <1>5, <2>1, <3>1, <4>1
    <3>2. CASE w # v
      BY Zenon, <1>5, <2>1, <3>2
    <3> QED BY Zenon, <3>1, <3>2
  <2>3. ASSUME NEW w \in W, NEW i \in 1..Len(queue'[w])
        PROVE  queue'[w][i] # sending.ticket
    <3>1. CASE w = v
      <4>1. i + 1 \in 1..Len(q) /\ queue'[w][i] = q[i + 1]
        <5>1. i \in 1..(Len(q) - 1)
          BY Zenon, <1>5, <2>3, <3>1
        <5>2. i + 1 \in 1..Len(q)
          BY <1>1, <5>1
        <5> QED BY Zenon, <1>5, <3>1, <5>1, <5>2
      <4> QED BY Zenon, <2>1, <4>1
    <3>2. CASE w # v
      BY <1>5, <2>1, <2>3, <3>2
    <3> QED BY Zenon, <3>1, <3>2
  <2> QED BY Zenon, <2>1, <2>2, <2>3
<1>11. NothingDropped'
  <2>0. pool = "running" /\ sending'.ticket = sending.ticket /\ stopped' = stopped
    BY Zenon, <1>1, <1>2
  <2> SUFFICES ASSUME NEW w \in W \ stopped, NEW t \in Tickets,
                      Owns(w, t), ~Settled(t), t # hand'[w], t # sending.ticket
               PROVE  \E i \in 1..Len(queue'[w]) : queue'[w][i] = t
    <3> SUFFICES ASSUME NEW w \in W \ stopped', NEW t \in Tickets', Owns(w, t)'
                 PROVE  \/ Settled(t)'
                        \/ t \in {hand'[w], sending'.ticket}
                        \/ \E i \in 1..Len(queue'[w]) : queue'[w][i] = t
      BY Zenon DEF NothingDropped
    <3>1. w \in W \ stopped /\ t \in Tickets /\ Owns(w, t)
      BY Zenon, <1>3, <2>0
    <3> QED BY Zenon, <1>3, <2>0, <3>1
  <2>1. CASE w # v
    <3>1. hand'[w] = hand[w] /\ queue'[w] = queue[w]
      BY Zenon, <1>5, <2>1
    <3>2. t \notin {hand[w], sending.ticket}
      BY Zenon, <3>1
    <3>3. \E i \in 1..Len(queue[w]) : queue[w][i] = t
      BY Zenon, <1>0, <2>0, <3>2 DEF NothingDropped
    <3> QED BY Zenon, <3>1, <3>3
  <2>2. CASE w = v
    <3>1. t # hand[w]
      BY Zenon, <1>0, <1>1, <2>2, TicketPlace, PoolAssumption
    <3>2. PICK i \in 1..Len(q) : q[i] = t
      BY ZenonT(60), <1>0, <1>1, <2>2, <3>1 DEF NothingDropped
    <3>3. i # 1
      BY Zenon, <1>5, <2>2, <3>2
    <3>4. i - 1 \in 1..Len(queue'[w]) /\ queue'[w][i - 1] = q[i]
      BY <1>1, <1>5, <2>2, <3>3
    <3> QED BY Zenon, <3>2, <3>4
  <2> QED BY Zenon, <2>1, <2>2
<1>12. PassedIsSettled'
  BY Zenon, <1>0, <1>2, <1>3 DEF PassedIsSettled
<1>13. DepthCountsQueue'
  <2> SUFFICES ASSUME NEW w \in W
               PROVE  depth'[w] = Len(queue'[w]) + Sent(w)' + Received(w)'
    BY Zenon DEF DepthCountsQueue
  <2>1. /\ depth[w] = Len(queue[w]) + Sent(w) + Received(w)
        /\ Sent(w) \in {0, 1} /\ Len(queue[w]) \in Nat
        /\ depth' = depth /\ Sent(w)' = Sent(w)
    <3>1. depth[w] = Len(queue[w]) + Sent(w) + Received(w)
      BY Zenon, <1>0, <1>1 DEF DepthCountsQueue
    <3>2. Sent(w)' = Sent(w)
      BY Zenon, <1>2 DEF Sent
    <3> QED BY Zenon, <1>0, <1>2, <3>1, <3>2, QueueTypes
  <2>2. CASE w = v
    <3>1. Received(w) = 0 /\ Received(w)' = 1 /\ Len(queue'[w]) = Len(queue[w]) - 1
      BY Zenon, <1>1, <1>5, <2>2 DEF Received
    <3> QED BY <2>1, <3>1
  <2>3. CASE w # v
    <3>1. Received(w)' = Received(w) /\ queue'[w] = queue[w]
      BY Zenon, <1>5, <2>3 DEF Received
    <3> QED BY Zenon, <2>1, <3>1
  <2> QED BY Zenon, <2>2, <2>3
<1> QED BY Zenon, <1>0, <1>3, <1>7, <1>8, <1>9, <1>10, <1>11, <1>12, <1>13 DEF IInv

(* A job counted out is one no attempt has failed: the policy starts anew. *)
LEMMA StartJobHolds ==
    ASSUME IInv, NEW v \in W, StartJob(v)
    PROVE  IInv'
<1>0. Typed /\ HandsHoldFirst /\ QueuesInOrder /\ SendingLast /\ NothingDropped
      /\ PassedIsSettled /\ DidOrder /\ DepthCountsQueue
  BY Zenon DEF IInv
<1>1. /\ did' = did /\ UNCHANGED history /\ wm' = wm /\ sending' = sending /\ queue' = queue
      /\ hand' = hand /\ pool' = pool /\ stopped' = stopped
      /\ depth' = [depth EXCEPT ![v] = Decremented(@)]
      /\ step' = [step EXCEPT ![v] = "applying"] /\ step[v] = "received"
      /\ fails' = [fails EXCEPT ![v] = 0]
  BY Zenon DEF StartJob, reader, environment
<1>2. /\ Tickets' = Tickets
      /\ \A w, t : Owns(w, t)' <=> Owns(w, t)
      /\ \A t : Untried(t)' <=> Untried(t)
      /\ \A t : Settled(t)' <=> Settled(t)
      /\ DidOrder' <=> DidOrder
  BY Zenon, <1>1, HistoryKept
<1>3. failures' = failures /\ applied' = applied /\ refused' = refused
  BY Zenon, <1>1 DEF history
<1>4. Typed'
  <2>1. Decremented(depth[v]) \in Nat
    BY Zenon, <1>0, CountersCount DEF Typed
  <2>2. depth' \in [W -> Nat] /\ step' \in [W -> Steps] /\ fails' \in [W -> 0..Delays]
    BY SMTT(60), <1>0, <1>1, <2>1, PoolAssumption DEF Typed, Steps
  <2> QED BY Zenon, <1>0, <1>1, <1>2, <1>3, <2>2 DEF Typed
<1>5. HandsHoldFirst'
  <2> SUFFICES ASSUME NEW w \in W PROVE HandsHoldFirst!(w)'
    BY Zenon DEF HandsHoldFirst
  <2>1. HandsHoldFirst!(w)
    BY Zenon, <1>0 DEF HandsHoldFirst
  <2>2. CASE w # v
    <3>1. step'[w] = step[w] /\ fails'[w] = fails[w]
      BY Zenon, <1>0, <1>1, <2>2 DEF Typed
    <3> QED BY Zenon, <1>1, <1>2, <1>3, <2>1, <3>1
  <2>3. CASE w = v
    <3>1. step'[w] = "applying" /\ fails'[w] = 0 /\ step[w] = "received"
      BY Zenon, <1>0, <1>1, <2>3 DEF Typed
    <3> QED BY Zenon, <1>1, <1>2, <1>3, <2>1, <3>1 DEF Untried
  <2> QED BY Zenon, <2>2, <2>3
<1>6. QueuesInOrder'
  <2>1. \A w \in W : {Received(w), Received(w)'} \subseteq {0, 1} /\ Received(w)' <= Received(w)
    BY <1>0, <1>1 DEF Received, Typed
  <2> SUFFICES ASSUME NEW w \in W, NEW i \in 1..Len(queue[w])
               PROVE  QueuesInOrder!(w)!(i)'
    BY Zenon, <1>1 DEF QueuesInOrder
  <2>2. QueuesInOrder!(w)!(i) /\ queue[w][i] \in Nat /\ i \in Nat
    <3>1. QueuesInOrder!(w)!(i) /\ queue[w][i] \in Nat
      BY Zenon, <1>0, QueueTypes DEF QueuesInOrder
    <3> QED BY <3>1
  <2>3. queue[w][i] >= i - 1 + Received(w)'
    BY <2>1, <2>2
  <2> QED BY Zenon, <1>1, <1>2, <2>2, <2>3
<1>7. SendingLast'
  BY Zenon, <1>0, <1>1, <1>3 DEF SendingLast, Owns, Untried, Tickets, WorkerFor
<1>8. NothingDropped' /\ PassedIsSettled'
  BY <1>0, <1>1, <1>2 DEF NothingDropped, PassedIsSettled
<1>9. DepthCountsQueue'
  <2> SUFFICES ASSUME NEW w \in W, pool = "running"
               PROVE  depth'[w] = Len(queue'[w]) + Sent(w)' + Received(w)'
    BY Zenon, <1>1 DEF DepthCountsQueue
  <2>1. depth[w] = Len(queue[w]) + Sent(w) + Received(w)
    BY Zenon, <1>0 DEF DepthCountsQueue
  <2>2. Sent(w)' = Sent(w)
    BY Zenon, <1>1 DEF Sent
  <2>3. Len(queue[w]) \in Nat /\ Sent(w) \in {0, 1} /\ Received(w) \in {0, 1} /\ depth[w] \in Nat
    BY Zenon, <1>0, QueueTypes
  <2>4. CASE w = v
    <3>1. Received(w) = 1 /\ Received(w)' = 0 /\ depth'[w] = Decremented(depth[w])
      BY Zenon, <1>0, <1>1, <2>4 DEF Received, Typed
    <3>2. Len(queue[w]) + Sent(w) + Received(w) <= Len(did)
      BY Zenon, <1>0, QueueBound
    <3>3. depth[w] > 0 /\ depth[w] < CounterMod
      <4>1. Len(did) \in Nat /\ Len(did) < CounterMod /\ CounterMod \in Nat
        BY <1>0, PoolAssumption, SeqDomain DEF Typed
      <4> QED BY <2>1, <2>3, <3>1, <3>2, <4>1
    <3>4. depth'[w] = depth[w] - 1
      BY Zenon, <2>3, <3>1, <3>3, CountersCount
    <3> QED BY <1>1, <2>1, <2>2, <2>3, <3>1, <3>4
  <2>5. CASE w # v
    <3>1. Received(w)' = Received(w) /\ depth'[w] = depth[w]
      BY Zenon, <1>0, <1>1, <2>5 DEF Received, Typed
    <3> QED BY Zenon, <1>1, <2>1, <2>2, <3>1
  <2> QED BY Zenon, <2>4, <2>5
<1> QED BY Zenon, <1>0, <1>2, <1>4, <1>5, <1>6, <1>7, <1>8, <1>9 DEF IInv

(* What an attempt on ticket x by worker v, which owns it, may do to the     *)
(* history: it settles nothing else and tries nothing else.                  *)
Attempts(v, x) ==
    /\ applied' \subseteq applied \cup {x} /\ applied \subseteq applied'
    /\ refused' = refused
    /\ failures' \in Seq(Nat) /\ Len(failures') = Len(failures)
    /\ \A i \in 1..Len(failures) : failures'[i] >= failures[i]
    /\ \A i \in 1..Len(failures) : i # x + 1 => failures'[i] = failures[i]
    /\ wm' = wm /\ did' = did /\ sending' = sending /\ queue' = queue /\ depth' = depth
    /\ hand' = hand /\ pool' = pool /\ stopped' = stopped
    /\ \A w \in W \ {v} : step'[w] = step[w] /\ fails'[w] = fails[w]
    /\ step[v] = "applying" /\ step'[v] \in {"applying", "finished"}
    /\ step'[v] = "applying" => failures'[x + 1] = fails'[v]
    /\ step'[v] = "finished" => x \in applied' \/ failures'[x + 1] > Delays
    /\ step' \in [W -> Steps] /\ fails' \in [W -> 0..Delays]

LEMMA AttemptsHold ==
    ASSUME IInv, NEW v \in W, NEW x, x = hand[v], Attempts(v, x)
    PROVE  IInv'
<1>0. Typed /\ HandsHoldFirst /\ QueuesInOrder /\ SendingLast /\ NothingDropped
      /\ PassedIsSettled /\ DidOrder /\ DepthCountsQueue
  BY Zenon DEF IInv
<1>1. /\ wm' = wm /\ did' = did /\ sending' = sending /\ queue' = queue /\ depth' = depth
      /\ hand' = hand /\ pool' = pool /\ stopped' = stopped /\ refused' = refused
  BY Zenon DEF Attempts
<1>2. /\ x # NoJob /\ Owns(v, x) /\ x \in Tickets
      /\ \A t \in 0..(x - 1) : Owns(v, t) => Settled(t)
  BY Zenon, <1>0 DEF HandsHoldFirst, Attempts, Owns
<1>3. ASSUME NEW t \in Tickets
      PROVE  /\ t + 1 \in 1..Len(failures) /\ failures[t + 1] \in Nat /\ failures'[t + 1] \in Nat
             /\ failures'[t + 1] >= failures[t + 1]
             /\ t # x => failures'[t + 1] = failures[t + 1]
             /\ t # x /\ t \in applied' => t \in applied
  <2>1. t \in Nat /\ x \in Nat /\ t + 1 \in 1..Len(failures) /\ failures[t + 1] \in Nat
    BY Zenon, <1>0, <1>2, TicketPlace DEF Typed
  <2>2. failures'[t + 1] \in Nat
    BY Zenon, <2>1, SeqElement DEF Attempts
  <2> QED BY SMTT(60), <2>1, <2>2 DEF Attempts
<1>4. /\ Tickets' = Tickets
      /\ \A w, t : Owns(w, t)' <=> Owns(w, t)
  BY Zenon, <1>1 DEF Tickets, Owns, WorkerFor
<1>5. ASSUME NEW t \in Tickets
      PROVE  /\ Settled(t) => Settled(t)'
             /\ t # x => (Untried(t)' <=> Untried(t))
  <2>1. applied \subseteq applied' /\ Delays \in Nat
    BY Zenon, PoolAssumption DEF Attempts
  <2> QED BY <1>1, <1>3, <2>1 DEF Settled, Untried
<1>6. Typed'
  <2>1. applied' \subseteq Tickets' /\ failures' \in Seq(Nat) /\ Len(failures') = Len(did')
    BY Zenon, <1>0, <1>1, <1>2, <1>4 DEF Typed, Attempts
  <2> QED BY Zenon, <1>0, <1>1, <1>4, <2>1 DEF Typed, Attempts
<1>7. HandsHoldFirst'
  <2> SUFFICES ASSUME NEW w \in W PROVE HandsHoldFirst!(w)'
    BY Zenon DEF HandsHoldFirst
  <2>1. HandsHoldFirst!(w)
    BY Zenon, <1>0 DEF HandsHoldFirst
  <2>2. \A t \in 0..(hand[w] - 1) : Owns(w, t) /\ Settled(t) => Settled(t)'
    BY Zenon, <1>5 DEF Owns
  <2>3. CASE w # v
    <3>1. step'[w] = step[w] /\ fails'[w] = fails[w]
      BY Zenon, <2>3 DEF Attempts
    <3>2. hand[w] # NoJob => hand[w] \in Tickets /\ hand[w] # x
      BY Zenon, <1>2, <2>1, <2>3 DEF Owns
    <3> QED BY Zenon, <1>1, <1>3, <1>4, <1>5, <2>1, <2>2, <3>1, <3>2
  <2>4. CASE w = v
    <3>1. step'[v] \in {"applying", "finished"}
          /\ (step'[v] = "applying" => failures'[x + 1] = fails'[v])
          /\ (step'[v] = "finished" => x \in applied' \/ failures'[x + 1] > Delays)
      BY Zenon DEF Attempts
    <3>2. step'[v] = "finished" => Settled(x)'
      BY Zenon, <3>1 DEF Settled
    <3> QED BY Zenon, <1>1, <1>2, <1>4, <2>1, <2>2, <2>4, <3>1, <3>2
  <2> QED BY Zenon, <2>3, <2>4
<1>8. QueuesInOrder'
  <2> SUFFICES ASSUME NEW w \in W, NEW i \in 1..Len(queue[w])
               PROVE  QueuesInOrder!(w)!(i)'
    BY Zenon, <1>1 DEF QueuesInOrder
  <2>1. QueuesInOrder!(w)!(i) /\ queue[w][i] \in Tickets
    BY Zenon, <1>0 DEF QueuesInOrder, Owns
  <2>2. queue[w][i] # x
    <3>1. CASE w = v
      BY <1>0, <1>2, <2>1, <3>1, TicketPlace
    <3>2. CASE w # v
      BY Zenon, <1>2, <2>1, <3>2 DEF Owns
    <3> QED BY Zenon, <3>1, <3>2
  <2>3. Received(w)' = Received(w)
    BY Zenon DEF Received, Attempts
  <2> QED BY Zenon, <1>1, <1>4, <1>5, <2>1, <2>2, <2>3
<1>9. SendingLast'
  <2> SUFFICES ASSUME sending.ticket # NoJob PROVE SendingLast!2'
    BY Zenon, <1>1 DEF SendingLast
  <2>1. SendingLast!2 /\ sending.ticket # x /\ sending.ticket \in Tickets
    BY ZenonT(60), <1>0, <1>2 DEF SendingLast, Owns
  <2> QED BY Zenon, <1>1, <1>4, <1>5, <2>1
<1>10. NothingDropped'
  BY <1>0, <1>1, <1>4, <1>5 DEF NothingDropped
<1>11. PassedIsSettled'
  BY Zenon, <1>0, <1>1, <1>4, <1>5 DEF PassedIsSettled
<1>12. DidOrder'
  <2> SUFFICES ASSUME NEW u \in Tickets, NEW t \in 0..(u - 1),
                      did[t + 1] = did[u + 1], u \in applied' \/ failures'[u + 1] > 0
               PROVE  Settled(t)'
    BY Zenon, <1>1, <1>4 DEF DidOrder
  <2>1. t \in Tickets
    BY <1>0, TicketPlace DEF Tickets
  <2>2. CASE u = x
    <3>1. Owns(v, t)
      BY Zenon, <1>2, <2>1, <2>2 DEF Owns
    <3> QED BY Zenon, <1>2, <1>5, <2>1, <2>2, <3>1
  <2>3. CASE u # x
    <3>1. u \in applied \/ failures[u + 1] > 0
      BY Zenon, <1>3, <2>3
    <3> QED BY Zenon, <1>0, <1>5, <2>1, <3>1 DEF DidOrder
  <2> QED BY Zenon, <2>2, <2>3
<1>13. DepthCountsQueue'
  <2>1. ASSUME NEW w \in W PROVE Received(w)' = Received(w) /\ Sent(w)' = Sent(w)
    BY Zenon, <1>1 DEF Received, Sent, Attempts
  <2> QED BY Zenon, <1>0, <1>1, <2>1 DEF DepthCountsQueue
<1> QED BY Zenon, <1>6, <1>7, <1>8, <1>9, <1>10, <1>11, <1>12, <1>13 DEF IInv

(* An attempt that applies the event settles it. *)
LEMMA AttemptAppliesHolds ==
    ASSUME IInv, NEW v \in W, AttemptApplies(v)
    PROVE  IInv'
<1> SUFFICES ASSUME NEW x, x = hand[v] PROVE IInv'
  BY Zenon
<1>1. Typed
  BY Zenon DEF IInv
<1>2. /\ step[v] = "applying" /\ step' = [step EXCEPT ![v] = "finished"]
      /\ applied' = applied \cup {x} /\ refused' = refused /\ failures' = failures
      /\ wm' = wm /\ did' = did /\ sending' = sending /\ queue' = queue /\ depth' = depth
      /\ hand' = hand /\ pool' = pool /\ stopped' = stopped /\ fails' = fails
  BY Zenon DEF AttemptApplies, reader, counters, environment
<1>3. \A i \in 1..Len(failures) : failures[i] \in Nat
  BY Zenon, <1>1, SeqElement DEF Typed
<1>4. Attempts(v, x)
  BY <1>1, <1>2, <1>3 DEF Attempts, Typed, Steps
<1> QED BY Zenon, <1>4, AttemptsHold

(* An attempt that fails spends one delay; after the last the event is      *)
(* given up, with one more failure than there are delays.                   *)
LEMMA AttemptFailsHolds ==
    ASSUME IInv, NEW v \in W, AttemptFails(v)
    PROVE  IInv'
<1> SUFFICES ASSUME NEW x, x = hand[v] PROVE IInv'
  BY Zenon
<1>0. Typed /\ HandsHoldFirst
  BY Zenon DEF IInv
<1>1. /\ step[v] = "applying" /\ applied' = applied /\ refused' = refused
      /\ failures' = [failures EXCEPT ![x + 1] = @ + 1]
      /\ wm' = wm /\ did' = did /\ sending' = sending /\ queue' = queue /\ depth' = depth
      /\ hand' = hand /\ pool' = pool /\ stopped' = stopped
  BY Zenon DEF AttemptFails, reader, counters, environment
<1>2. x \in Tickets /\ failures[x + 1] = fails[v]
  BY Zenon, <1>0, <1>1 DEF HandsHoldFirst, Owns
<1>3. /\ x \in Nat /\ x + 1 \in 1..Len(failures) /\ failures \in Seq(Nat)
      /\ failures[x + 1] \in Nat /\ Len(failures) \in Nat
  <2>1. failures \in Seq(Nat) /\ Len(failures) = Len(did) /\ Len(failures) \in Nat
    BY Zenon, <1>0, SeqDomain DEF Typed
  <2> QED BY Zenon, <1>0, <1>2, <2>1, TicketPlace
<1>4. /\ failures' \in Seq(Nat) /\ Len(failures') = Len(failures)
      /\ \A i \in 1..Len(failures) :
            failures'[i] = IF i = x + 1 THEN failures[x + 1] + 1 ELSE failures[i]
  BY SMTT(60), <1>1, <1>3, SeqReplaced
<1>5. /\ \A i \in 1..Len(failures) : failures[i] \in Nat
      /\ failures'[x + 1] = fails[v] + 1
  <2>1. \A i \in 1..Len(failures) : failures[i] \in Nat
    BY Zenon, <1>3, SeqElement
  <2> QED BY Zenon, <1>2, <1>3, <1>4, <2>1
<1>6. step \in [W -> Steps] /\ fails \in [W -> 0..Delays] /\ Delays \in Nat
      /\ fails[v] \in 0..Delays
  BY Zenon, <1>0, PoolAssumption DEF Typed
<1>7. CASE fails[v] < Delays
  <2>1. fails' = [fails EXCEPT ![v] = @ + 1] /\ step' = step
    BY Zenon, <1>7 DEF AttemptFails
  <2>2. /\ fails' \in [W -> 0..Delays] /\ fails'[v] = fails[v] + 1
        /\ \A w \in W \ {v} : fails'[w] = fails[w]
    BY <1>6, <1>7, <2>1
  <2>3. Attempts(v, x)
    BY SMTT(60), <1>1, <1>4, <1>5, <1>6, <2>1, <2>2 DEF Attempts
  <2> QED BY Zenon, <2>3, AttemptsHold
<1>8. CASE ~(fails[v] < Delays)
  <2>1. step' = [step EXCEPT ![v] = "finished"] /\ fails' = fails
    BY Zenon, <1>8 DEF AttemptFails
  <2>2. /\ step' \in [W -> Steps] /\ step'[v] = "finished"
        /\ \A w \in W \ {v} : step'[w] = step[w]
    BY Zenon, <1>6, <2>1 DEF Steps
  <2>3. failures'[x + 1] > Delays
    BY <1>5, <1>6, <1>8
  <2>4. Attempts(v, x)
    BY SMTT(60), <1>1, <1>4, <1>5, <1>6, <2>1, <2>2, <2>3 DEF Attempts
  <2> QED BY Zenon, <2>4, AttemptsHold
<1> QED BY Zenon, <1>7, <1>8

-----------------------------------------------------------------------------
(* The rest: outages, a worker's end, the pool's drop *)

(* What an outage, an attempt during one, and the status page's marks leave *)
(* alone is all the invariant speaks of.                                    *)
LEMMA QuietHolds ==
    ASSUME IInv, UNCHANGED <<wm, did, sending, queue, depth, hand, step, fails, stopped, pool>>,
           UNCHANGED history
    PROVE  IInv'
<1>0. Typed /\ HandsHoldFirst /\ QueuesInOrder /\ SendingLast /\ NothingDropped
      /\ PassedIsSettled /\ DidOrder /\ DepthCountsQueue
  BY Zenon DEF IInv
<1>1. /\ Tickets' = Tickets
      /\ \A t : Settled(t)' <=> Settled(t)
      /\ DidOrder' <=> DidOrder
  BY Zenon, HistoryKept
<1>2. Typed'
  BY Zenon, <1>0, <1>1 DEF Typed, history
<1>3. HandsHoldFirst' /\ QueuesInOrder' /\ SendingLast'
  BY SMTT(60), <1>0 DEF HandsHoldFirst, QueuesInOrder, SendingLast, Owns, Untried, Settled, Received,
              Tickets, WorkerFor, history
<1>4. NothingDropped' /\ PassedIsSettled'
  BY <1>0, <1>1 DEF NothingDropped, PassedIsSettled, Owns, WorkerFor
<1>5. DepthCountsQueue'
  <2>1. ASSUME NEW w \in W PROVE Received(w)' = Received(w) /\ Sent(w)' = Sent(w)
    BY Zenon DEF Received, Sent
  <2> QED BY Zenon, <1>0, <2>1 DEF DepthCountsQueue
<1> QED BY Zenon, <1>0, <1>1, <1>2, <1>3, <1>4, <1>5 DEF IInv

(* A worker that ends, and the drop of the pool, only take away what the    *)
(* invariant asks for.                                                      *)
LEMMA EndsHold ==
    ASSUME IInv,
           (\E w \in W : WorkerStops(w)) \/ AbortWorkers \/ ClearBusy \/ ClearDepths
    PROVE  IInv'
<1>0. Typed /\ HandsHoldFirst /\ QueuesInOrder /\ SendingLast /\ NothingDropped
      /\ PassedIsSettled /\ DidOrder /\ DepthCountsQueue
  BY Zenon DEF IInv
<1>1. /\ wm' = wm /\ did' = did /\ queue' = queue /\ hand' = hand /\ step' = step
      /\ fails' = fails /\ UNCHANGED history
  BY Zenon DEF WorkerStops, AbortWorkers, ClearBusy, ClearDepths, reader
<1>2. /\ Tickets' = Tickets
      /\ \A w, t : Owns(w, t)' <=> Owns(w, t)
      /\ \A t : Settled(t)' <=> Settled(t)
      /\ DidOrder' <=> DidOrder
  BY Zenon, <1>1, HistoryKept
<1>3. HandsHoldFirst' /\ QueuesInOrder' /\ PassedIsSettled'
  BY ZenonT(60), <1>0, <1>1, <1>2 DEF HandsHoldFirst, QueuesInOrder, PassedIsSettled, Owns,
                                 Untried, Settled, Received, Tickets, WorkerFor, history
<1>4. CASE \E w \in W : WorkerStops(w)
  <2>1. /\ sending' = sending /\ depth' = depth /\ pool' = pool
        /\ stopped \subseteq stopped' /\ stopped' \subseteq W
    BY Zenon, <1>0, <1>4 DEF WorkerStops, reader, counters, Typed
  <2>2. Typed'
    BY Zenon, <1>0, <1>1, <1>2, <2>1 DEF Typed, history
  <2>3. SendingLast'
    BY Zenon, <1>0, <1>1, <2>1 DEF SendingLast, Owns, Untried, Tickets, WorkerFor, history
  <2>4. NothingDropped'
    BY Zenon, <1>0, <1>1, <1>2, <2>1 DEF NothingDropped
  <2>5. DepthCountsQueue'
    <3>1. ASSUME NEW w \in W PROVE Received(w)' = Received(w) /\ Sent(w)' = Sent(w)
      BY Zenon, <1>1, <2>1 DEF Received, Sent
    <3> QED BY Zenon, <1>0, <1>1, <2>1, <3>1 DEF DepthCountsQueue
  <2> QED BY Zenon, <1>0, <1>2, <1>3, <2>2, <2>3, <2>4, <2>5 DEF IInv
<1>5. CASE AbortWorkers
  <2>1. /\ sending' = [sending EXCEPT !.ticket = NoJob] /\ depth' = depth
        /\ pool' = "aborted" /\ stopped' = stopped
    BY Zenon, <1>5 DEF AbortWorkers, counters
  <2>2. sending' \in [ticket : Nat \cup {NoJob}, worker : W] /\ sending'.ticket = NoJob
    BY Zenon, <1>0, <2>1, SentNothing
  <2>3. Typed'
    BY Zenon, <1>0, <1>1, <1>2, <2>1, <2>2 DEF Typed, PoolStates, history
  <2>4. SendingLast' /\ NothingDropped' /\ DepthCountsQueue'
    BY Zenon, <2>1, <2>2 DEF SendingLast, NothingDropped, DepthCountsQueue
  <2> QED BY Zenon, <1>0, <1>2, <1>3, <2>3, <2>4 DEF IInv
<1>6. CASE ClearBusy \/ ClearDepths
  <2>1. /\ sending' = sending /\ depth' \in [W -> Nat] /\ pool' \in {"busy_cleared", "dropped"}
        /\ stopped' = stopped
    BY <1>0, <1>6 DEF ClearBusy, ClearDepths, reader, Typed
  <2>2. Typed'
    BY Zenon, <1>0, <1>1, <1>2, <2>1 DEF Typed, PoolStates, history
  <2>3. SendingLast'
    BY Zenon, <1>0, <1>1, <2>1 DEF SendingLast, Owns, Untried, Tickets, WorkerFor, history
  <2>4. NothingDropped' /\ DepthCountsQueue'
    BY Zenon, <2>1 DEF NothingDropped, DepthCountsQueue
  <2> QED BY Zenon, <1>0, <1>2, <1>3, <2>2, <2>3, <2>4 DEF IInv
<1> QED BY Zenon, <1>4, <1>5, <1>6

-----------------------------------------------------------------------------
(* Completing a ticket *)

LOCAL INSTANCE WellFoundedInduction

(* A non-empty set of naturals has a least element. *)
LEMMA LeastNatural ==
    ASSUME NEW T \in SUBSET Nat, T # {}
    PROVE  \E m \in T : \A k \in T : m <= k
<1> DEFINE R == OpToRel(<, Nat)
<1>1. IsWellFoundedOn(R, Nat)
  BY Zenon, NatLessThanWellFounded
<1> HIDE DEF R
<1>2. PICK m \in T : \A k \in T : ~(<<k, m>> \in R)
  BY Zenon, <1>1, WFMin
<1>3. \A k \in T : ~(k < m)
  BY Zenon, <1>2 DEF R, OpToRel
<1> QED BY <1>3

(* The popping loop of Watermark::complete stops at a well-defined place.   *)
LEMMA FinishedRunEnds ==
    ASSUME NEW pending \in Seq(Slots)
    PROVE  /\ FinishedRun(pending) \in 0..Len(pending)
           /\ \A i \in 1..FinishedRun(pending) : pending[i].done
<1> DEFINE Open == {i \in 1..Len(pending) : ~pending[i].done}
<1>1. \E n \in 0..Len(pending) : EndsFinishedRun(pending, n)
  <2>1. CASE Open = {}
    BY <2>1 DEF EndsFinishedRun
  <2>2. CASE Open # {}
    <3>1. PICK m \in Open : \A k \in Open : m <= k
      <4>1. Open \subseteq Nat
        OBVIOUS
      <4> QED BY Zenon, <2>2, <4>1, LeastNatural
    <3>2. m - 1 \in 0..Len(pending) /\ EndsFinishedRun(pending, m - 1)
      BY <3>1 DEF EndsFinishedRun
    <3> QED BY Zenon, <3>2
  <2> QED BY Zenon, <2>1, <2>2
<1>2. FinishedRun(pending) \in 0..Len(pending)
      /\ EndsFinishedRun(pending, FinishedRun(pending))
  BY Zenon, <1>1 DEF FinishedRun
<1> QED BY Zenon, <1>2 DEF EndsFinishedRun

(* complete() passes no ticket but the one it is given and those that were  *)
(* finished before, and takes none out.                                     *)
LEMMA CompletePasses ==
    ASSUME NEW w \in Watermarks, NEW t \in Nat
    PROVE  /\ CompleteTicket(w, t) \in Watermarks
           /\ NextTicket(CompleteTicket(w, t)) = NextTicket(w)
           /\ \A u \in 0..(NextTicket(w) - 1) :
                 Passed(CompleteTicket(w, t), u) => u = t \/ Passed(w, u)
<1> DEFINE r == CompleteTicket(w, t)
<1>0. /\ w.front \in Nat /\ w.pending \in Seq(Slots) /\ Len(w.pending) \in Nat
      /\ w.applied \in Points \cup {NoPoint}
  BY Zenon, SeqDomain DEF Watermarks
<1>1. CASE t \notin w.front..(NextTicket(w) - 1)
  BY Zenon, <1>1 DEF CompleteTicket
<1>2. CASE t \in w.front..(NextTicket(w) - 1)
  <2> DEFINE k == t - w.front + 1
             slot == [w.pending[k] EXCEPT !.done = TRUE]
             marked == [w.pending EXCEPT ![k] = slot]
             n == FinishedRun(marked)
             rest == SubSeq(marked, n + 1, Len(marked))
  <2>1. k \in 1..Len(w.pending)
    BY <1>0, <1>2 DEF NextTicket
  <2>2. slot \in Slots
    <3>1. w.pending[k] \in Slots
      BY Zenon, <1>0, <2>1, SeqElement
    <3> QED BY Zenon, <3>1 DEF Slots
  <2>3. /\ marked \in Seq(Slots) /\ Len(marked) = Len(w.pending)
        /\ \A j \in 1..Len(w.pending) : marked[j] = IF j = k THEN slot ELSE w.pending[j]
    BY SMTT(60), <1>0, <2>1, <2>2, SeqReplaced
  <2>4. n \in 0..Len(marked) /\ \A i \in 1..n : marked[i].done
    BY Zenon, <2>3, FinishedRunEnds
  <2>5. r = [front |-> w.front + n, pending |-> rest,
             applied |-> IF n = 0 THEN w.applied ELSE marked[n].point]
    BY <1>0, <1>2 DEF CompleteTicket, Retire, Watermarks
  <2> HIDE DEF k, slot, marked, n, r
  <2>6. /\ rest \in Seq(Slots) /\ Len(rest) = Len(marked) - n
        /\ \A i \in 1..(Len(marked) - n) : rest[i] = marked[n + i]
    BY Zenon, <2>3, <2>4, SeqDropped DEF rest
  <2> HIDE DEF rest
  <2>7. n # 0 => marked[n].point \in Points
    <3>1. n # 0 => marked[n] \in Slots
      BY SMTT(60), <1>0, <2>3, <2>4, SeqElement
    <3> QED BY Zenon, <3>1 DEF Slots
  <2>8. r \in Watermarks
    BY SMTT(60), <1>0, <2>4, <2>3, <2>5, <2>6, <2>7 DEF Watermarks
  <2>9. NextTicket(r) = NextTicket(w)
    BY <1>0, <2>3, <2>4, <2>5, <2>6 DEF NextTicket
  <2>10. ASSUME NEW u \in 0..(NextTicket(w) - 1), Passed(r, u), u # t
         PROVE  Passed(w, u)
    <3>1. CASE u < w.front
      BY Zenon, <1>0, <3>1 DEF Passed, HasRetired
    <3>2. CASE w.front <= u
      <4> DEFINE j == u - w.front + 1
      <4>1. j \in 1..Len(w.pending) /\ j # k /\ j \in Nat
        BY SMTT(60), <1>0, <2>10, <3>2 DEF NextTicket, k
      <4>2. marked[j].done
        <5>1. CASE j <= n
          BY <2>4, <4>1, <5>1
        <5>2. CASE j > n
          <6>1. ~HasRetired(r, u) /\ u - r.front + 1 = j - n
            BY <1>0, <2>3, <2>4, <2>5, <5>2 DEF HasRetired
          <6>2. r.pending[j - n].done
            BY Zenon, <2>10, <6>1 DEF Passed
          <6>3. j - n \in 1..(Len(marked) - n) /\ n + (j - n) = j
            BY SMTT(60), <1>0, <2>3, <2>4, <4>1, <5>2
          <6> QED BY ZenonT(60), <2>5, <2>6, <6>2, <6>3
        <5> QED BY <2>4, <2>3, <1>0, <4>1, <5>1, <5>2
      <4>3. w.pending[j].done
        BY Zenon, <2>3, <4>1, <4>2
      <4> QED BY <2>10, <4>3, <1>0 DEF Passed, NextTicket
    <3> QED BY <1>0, <3>1, <3>2 DEF NextTicket
  <2> QED BY Zenon, <2>8, <2>9, <2>10 DEF r
<1> QED BY Zenon, <1>1, <1>2

(* The ticket of a worker that is gone is completed at once. *)
LEMMA SendFailsHolds ==
    ASSUME IInv, SendFails
    PROVE  IInv'
<1> SUFFICES ASSUME NEW v, NEW x, v = sending.worker, x = sending.ticket
             PROVE  IInv'
  BY Zenon
<1>0. Typed /\ HandsHoldFirst /\ QueuesInOrder /\ SendingLast /\ NothingDropped
      /\ PassedIsSettled /\ DidOrder /\ DepthCountsQueue
  BY Zenon DEF IInv
<1>1. v \in W /\ x \in Nat /\ x # NoJob /\ depth \in [W -> Nat]
  BY Zenon, <1>0 DEF Typed, SendFails
<1>2. x \in Tickets
  BY Zenon, <1>0, <1>1 DEF SendingLast, Owns
<1>3. /\ sending' = [sending EXCEPT !.ticket = NoJob]
      /\ did' = did /\ failures' = failures /\ applied' = applied
      /\ refused' = refused \cup {x} /\ queue' = queue /\ hand' = hand /\ step' = step
      /\ fails' = fails /\ pool' = pool /\ stopped' = stopped
      /\ wm' = CompleteTicket(wm, x)
      /\ depth' = [depth EXCEPT ![v] = Decremented(@)]
  BY Zenon DEF SendFails, environment
<1>4. /\ Tickets' = Tickets
      /\ \A w, t : Owns(w, t)' <=> Owns(w, t)
      /\ \A t : Untried(t)' <=> Untried(t)
      /\ \A t : Settled(t) \/ t = x => Settled(t)'
  BY Zenon, <1>3 DEF Tickets, Owns, WorkerFor, Untried, Settled
<1>5. /\ wm' \in Watermarks /\ NextTicket(wm') = NextTicket(wm)
      /\ \A u \in 0..(NextTicket(wm) - 1) : Passed(wm', u) => u = x \/ Passed(wm, u)
  BY Zenon, <1>0, <1>1, <1>3, CompletePasses DEF Typed
<1>6. Typed'
  <2>1. depth' \in [W -> Nat]
    BY Zenon, <1>1, <1>3, CountersCount
  <2>2. sending' \in [ticket : Nat \cup {NoJob}, worker : W]
    BY Zenon, <1>0, <1>3, SentNothing
  <2> QED BY Zenon, <1>0, <1>2, <1>3, <1>4, <1>5, <2>1, <2>2 DEF Typed
<1>7. HandsHoldFirst'
  BY Zenon, <1>0, <1>3, <1>4 DEF HandsHoldFirst
<1>8. QueuesInOrder'
  BY Zenon, <1>0, <1>3, <1>4 DEF QueuesInOrder, Received
<1>9. SendingLast'
  BY Zenon, <1>0, <1>3, SentNothing DEF SendingLast
<1>10. NothingDropped'
  BY <1>0, <1>3, <1>4 DEF NothingDropped
<1>11. PassedIsSettled'
  <2>1. Tickets = 0..(NextTicket(wm) - 1)
    BY Zenon, <1>0 DEF Tickets, Typed
  <2> QED BY Zenon, <1>0, <1>4, <1>5, <2>1 DEF PassedIsSettled
<1>12. DidOrder'
  BY Zenon, <1>0, <1>3, <1>4 DEF DidOrder
<1>13. DepthCountsQueue'
  <2> SUFFICES ASSUME NEW w \in W, pool = "running"
               PROVE  depth'[w] = Len(queue[w]) + Sent(w)' + Received(w)
    BY Zenon, <1>3 DEF DepthCountsQueue, Received
  <2>1. /\ depth[w] = Len(queue[w]) + Sent(w) + Received(w) /\ Sent(w)' = 0
        /\ Received(w) \in {0, 1} /\ Sent(w) = IF w = v THEN 1 ELSE 0
    <3>1. depth[w] = Len(queue[w]) + Sent(w) + Received(w)
      BY Zenon, <1>0 DEF DepthCountsQueue
    <3>2. Sent(w)' = 0 /\ Received(w) \in {0, 1}
      BY Zenon, <1>0, <1>3, SentNothing, QueueTypes
    <3>3. Sent(w) = IF w = v THEN 1 ELSE 0
      BY ZenonT(60), <1>1 DEF Sent
    <3> QED BY Zenon, <3>1, <3>2, <3>3
  <2>2. Len(queue[w]) \in Nat /\ depth[w] < CounterMod /\ depth[w] \in Nat
    <3>1. Len(queue[w]) \in Nat /\ Len(queue[w]) + Sent(w) + Received(w) <= Len(did)
      BY Zenon, <1>0, QueueBound
    <3> QED BY SMTT(60), <1>0, <2>1, <3>1, PoolAssumption, QueueTypes DEF Typed
  <2>3. CASE w = v
    <3>1. depth'[w] = Decremented(depth[w]) /\ depth[w] > 0
      BY <1>1, <1>3, <2>1, <2>2, <2>3
    <3>2. depth'[w] = depth[w] - 1
      BY Zenon, <2>2, <3>1, CountersCount
    <3> QED BY <2>1, <2>2, <2>3, <3>2
  <2>4. CASE w # v
    BY ZenonT(60), <1>1, <1>3, <2>1, <2>4
  <2> QED BY Zenon, <2>3, <2>4
<1> QED BY Zenon, <1>6, <1>7, <1>8, <1>9, <1>10, <1>11, <1>12, <1>13 DEF IInv

(* The ticket completed is a settled one, so what it lets retire is settled. *)
LEMMA FinishJobHolds ==
    ASSUME IInv, NEW v \in W, FinishJob(v)
    PROVE  IInv'
<1> SUFFICES ASSUME NEW x, x = hand[v] PROVE IInv'
  BY Zenon
<1>0. Typed /\ HandsHoldFirst /\ QueuesInOrder /\ SendingLast /\ NothingDropped
      /\ PassedIsSettled /\ DidOrder /\ DepthCountsQueue
  BY Zenon DEF IInv
<1>1. /\ did' = did /\ UNCHANGED history /\ sending' = sending /\ queue' = queue
      /\ fails' = fails /\ pool' = pool /\ stopped' = stopped /\ depth' = depth
      /\ step' = [step EXCEPT ![v] = "idle"] /\ step[v] = "finished"
      /\ hand' = [hand EXCEPT ![v] = NoJob]
      /\ wm' = CompleteTicket(wm, x)
  BY Zenon DEF FinishJob, reader, environment
<1>2. /\ Tickets' = Tickets
      /\ \A w, t : Owns(w, t)' <=> Owns(w, t)
      /\ \A t : Untried(t)' <=> Untried(t)
      /\ \A t : Settled(t)' <=> Settled(t)
      /\ DidOrder' <=> DidOrder
  BY Zenon, <1>1, HistoryKept
<1>3. failures' = failures /\ applied' = applied /\ refused' = refused
  BY Zenon, <1>1 DEF history
<1>4. x \in Tickets /\ Settled(x) /\ x \in Nat
  BY Zenon, <1>0, <1>1, TicketPlace DEF HandsHoldFirst, Owns
<1>5. /\ wm' \in Watermarks /\ NextTicket(wm') = NextTicket(wm)
      /\ \A u \in 0..(NextTicket(wm) - 1) : Passed(wm', u) => u = x \/ Passed(wm, u)
  BY Zenon, <1>0, <1>1, <1>4, CompletePasses DEF Typed
<1>6. /\ step' \in [W -> Steps] /\ hand' \in [W -> Nat \cup {NoJob}]
      /\ step'[v] = "idle" /\ hand'[v] = NoJob
      /\ \A w \in W \ {v} : step'[w] = step[w] /\ hand'[w] = hand[w]
  BY Zenon, <1>0, <1>1 DEF Typed, Steps
<1>7. Typed'
  BY Zenon, <1>0, <1>1, <1>2, <1>3, <1>5, <1>6 DEF Typed
<1>8. HandsHoldFirst'
  <2> SUFFICES ASSUME NEW w \in W PROVE HandsHoldFirst!(w)'
    BY Zenon DEF HandsHoldFirst
  <2>1. HandsHoldFirst!(w)
    BY Zenon, <1>0 DEF HandsHoldFirst
  <2>2. CASE w # v
    <3>1. step'[w] = step[w] /\ hand'[w] = hand[w]
      BY Zenon, <1>6, <2>2
    <3> QED BY Zenon, <1>1, <1>2, <1>3, <2>1, <3>1 DEF Owns, Untried, Settled, WorkerFor
  <2>3. CASE w = v
    BY Zenon, <1>6, <2>3
  <2> QED BY Zenon, <2>2, <2>3
<1>9. QueuesInOrder'
  <2> SUFFICES ASSUME NEW w \in W, NEW i \in 1..Len(queue[w])
               PROVE  QueuesInOrder!(w)!(i)'
    BY Zenon, <1>1 DEF QueuesInOrder
  <2>1. QueuesInOrder!(w)!(i)
    BY Zenon, <1>0 DEF QueuesInOrder
  <2>2. Received(w)' = Received(w)
    BY Zenon, <1>1, <1>6 DEF Received
  <2>3. hand'[w] # NoJob => hand'[w] = hand[w]
    BY Zenon, <1>6
  <2> QED BY Zenon, <1>1, <1>2, <2>1, <2>2, <2>3
<1>10. SendingLast'
  <2> SUFFICES ASSUME sending.ticket # NoJob PROVE SendingLast!2'
    BY Zenon, <1>1 DEF SendingLast
  <2>1. SendingLast!2
    BY Zenon, <1>0 DEF SendingLast
  <2>2. \A w \in W : hand'[w] # sending.ticket
    BY Zenon, <1>6, <2>1
  <2> QED BY Zenon, <1>1, <1>2, <2>1, <2>2
<1>11. NothingDropped'
  <2> SUFFICES ASSUME pool = "running", NEW w \in W \ stopped, NEW t \in Tickets,
                      Owns(w, t), ~Settled(t), t # sending.ticket, t # hand'[w]
               PROVE  \E i \in 1..Len(queue[w]) : queue[w][i] = t
    BY <1>1, <1>2 DEF NothingDropped
  <2>1. t # hand[w]
    BY Zenon, <1>4, <1>6
  <2> QED BY ZenonT(60), <1>0, <2>1 DEF NothingDropped
<1>12. PassedIsSettled'
  <2>1. Tickets = 0..(NextTicket(wm) - 1)
    BY Zenon, <1>0 DEF Tickets, Typed
  <2> QED BY Zenon, <1>0, <1>2, <1>4, <1>5, <2>1 DEF PassedIsSettled
<1>13. DepthCountsQueue'
  <2>1. ASSUME NEW w \in W PROVE Received(w)' = Received(w) /\ Sent(w)' = Sent(w)
    BY Zenon, <1>1, <1>6 DEF Received, Sent
  <2> QED BY Zenon, <1>0, <1>1, <2>1 DEF DepthCountsQueue
<1> QED BY Zenon, <1>0, <1>2, <1>7, <1>8, <1>9, <1>10, <1>11, <1>12, <1>13 DEF IInv

-----------------------------------------------------------------------------
(* The invariant, and what follows *)

LEMMA StepHolds == IInv /\ [Next]_vars => IInv'
<1> SUFFICES ASSUME IInv, [Next]_vars PROVE IInv'
  BY Zenon
<1>1. ASSUME NEW d \in Dids, Dispatch(d) PROVE IInv'
  BY Zenon, <1>1, DispatchHolds
<1>2. CASE Send
  BY Zenon, <1>2, SendHolds
<1>3. CASE SendFails
  BY Zenon, <1>3, SendFailsHolds
<1>4. ASSUME NEW w \in W, WorkerStep(w) PROVE IInv'
  <2>1. CASE Receive(w)
    BY Zenon, <2>1, ReceiveHolds
  <2>2. CASE StartJob(w)
    BY Zenon, <2>2, StartJobHolds
  <2>3. CASE AttemptApplies(w)
    BY Zenon, <2>3, AttemptAppliesHolds
  <2>4. CASE AttemptUnavailable(w)
    BY Zenon, <2>4, QuietHolds DEF AttemptUnavailable, vars, reader, counters, environment
  <2>5. CASE AttemptFails(w)
    BY Zenon, <2>5, AttemptFailsHolds
  <2>6. CASE FinishJob(w)
    BY Zenon, <2>6, FinishJobHolds
  <2> QED BY Zenon, <1>4, <2>1, <2>2, <2>3, <2>4, <2>5, <2>6 DEF WorkerStep
<1>5. CASE OutageStarts \/ OutageEnds
  BY Zenon, <1>5, QuietHolds DEF OutageStarts, OutageEnds, reader, counters
<1>6. CASE (\E w \in W : WorkerStops(w)) \/ AbortWorkers \/ ClearBusy \/ ClearDepths
  BY Zenon, <1>6, EndsHold
<1>7. CASE UNCHANGED vars
  BY Zenon, <1>7, QuietHolds DEF vars, reader, counters, environment
<1> QED BY Zenon, <1>1, <1>2, <1>3, <1>4, <1>5, <1>6, <1>7 DEF Next

LEMMA PoolInvariant == Spec => []IInv
BY InitHolds, StepHolds, PTL DEF Spec

-----------------------------------------------------------------------------
(* One DID's events never race (workers.rs): an event is attempted only     *)
(* when every earlier event of its DID is settled, for any hash, any number *)
(* of workers and any channel capacity.                                     *)
THEOREM DidsKeepOrder == Spec => []DidOrder
<1>1. IInv => DidOrder
  BY Zenon DEF IInv
<1> QED BY <1>1, PoolInvariant, PTL

(* A ticket retires only once its event was applied, given up after one     *)
(* attempt per delay and one more, or refused by a worker that was gone, so *)
(* the watermark the cursor follows passes no event still owed a retry.     *)
THEOREM RetiredAreSettled == Spec => []RetiredIsSettled
<1>1. IInv => RetiredIsSettled
  BY Zenon DEF IInv, PassedIsSettled, Passed, RetiredIsSettled
<1> QED BY <1>1, PoolInvariant, PTL

(* The status page's depth of a worker is the number of jobs that wait for  *)
(* it, and the counter never wraps.                                         *)
THEOREM DepthsCountQueues == Spec => []DepthCountsQueue
<1>1. IInv => DepthCountsQueue
  BY Zenon DEF IInv
<1> QED BY <1>1, PoolInvariant, PTL

(* No event is lost on its way: while the pool runs, an event dispatched to *)
(* a worker that is still there is settled, in its hand, in its queue, or   *)
(* the one the reader is sending.                                           *)
THEOREM PoolDropsNothing == Spec => []NothingDropped
<1>1. IInv => NothingDropped
  BY Zenon DEF IInv
<1> QED BY <1>1, PoolInvariant, PTL
=============================================================================
