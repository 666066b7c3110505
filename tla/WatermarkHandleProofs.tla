----------------------- MODULE WatermarkHandleProofs -----------------------
(***************************************************************************)
(* Proofs about WatermarkHandle, for every set of points, every number of   *)
(* workers and every number of tickets: its type invariant, that the        *)
(* watermark is always the finished prefix, and that it implements          *)
(* AppliedPrefix.                                                           *)
(***************************************************************************)
EXTENDS WatermarkHandle, SequenceTheorems, WellFoundedInduction, TLAPS

(* A non-empty set of naturals has a least element. *)
LEMMA LeastNatural ==
    ASSUME NEW T \in SUBSET Nat, T # {}
    PROVE  \E m \in T : \A k \in T : m <= k
<1> DEFINE R == OpToRel(<, Nat)
<1>1. IsWellFoundedOn(R, Nat)
  BY Zenon, NatLessThanWellFounded
<1> HIDE DEF R
<1>2. PICK m \in T : \A k \in T : ~(<<k, m>> \in R)
  BY Zenon, <1>1, WFMin
<1>3. \A k \in T : ~(k < m)
  BY Zenon, <1>2 DEF R, OpToRel
<1> QED BY <1>3

(* The finished run at the front of a queue of slots has an end, so the     *)
(* popping loop of complete() stops at a well-defined place.                *)
LEMMA FinishedRunIsDefined ==
    ASSUME NEW pending \in Seq(Slots)
    PROVE  /\ FinishedRun(pending) \in 0..Len(pending)
           /\ EndsFinishedRun(pending, FinishedRun(pending))
<1>1. \E n \in 0..Len(pending) : EndsFinishedRun(pending, n)
  <2>1. CASE \A i \in 1..Len(pending) : pending[i].done
    BY <2>1 DEF EndsFinishedRun
  <2>2. CASE \E i \in 1..Len(pending) : ~pending[i].done
    <3> DEFINE Open == {i \in 1..Len(pending) : ~pending[i].done}
    <3>1. Open \subseteq Nat /\ Open # {}
      BY <2>2
    <3>2. PICK m \in Open : \A k \in Open : m <= k
      BY Zenon, <3>1, LeastNatural
    <3>3. m - 1 \in 0..Len(pending) /\ EndsFinishedRun(pending, m - 1)
      BY <3>2 DEF EndsFinishedRun
    <3> QED BY Zenon, <3>3
  <2> QED BY Zenon, <2>1, <2>2
<1> QED BY Zenon, <1>1 DEF FinishedRun

(* Slot k of a queue whose front is f holds ticket f + k - 1, so a ticket    *)
(* from the first n has a place among them.                                 *)
LEMMA PlaceInRun ==
    ASSUME NEW f \in Nat, NEW n \in Nat, NEW t \in Nat, f <= t, t < f + n
    PROVE  t - f + 1 \in 1..n /\ f + (t - f + 1) - 1 = t
OBVIOUS

(* Watermark r is w after n slots retired on the completion of `ticket`: all *)
(* n were finished or are the ticket itself; the others keep their points    *)
(* and marks, but for the ticket; and the new front is unfinished.           *)
RetiresRun(w, r, ticket, n) ==
    /\ r.front = w.front + n
    /\ Len(r.pending) = Len(w.pending) - n
    /\ \A i \in 1..Len(r.pending) :
         /\ r.pending[i].point = w.pending[n + i].point
         /\ r.pending[i].done <=> (w.pending[n + i].done \/ w.front + n + i - 1 = ticket)
    /\ \A i \in 1..n : w.pending[i].done \/ w.front + i - 1 = ticket
    /\ Len(r.pending) > 0 => ~r.pending[1].done
    /\ r.applied = IF n = 0 THEN w.applied ELSE w.pending[n].point

(* Completing a ticket in flight (the loop of Watermark::complete) retires   *)
(* one run of finished slots from the front, and nothing else.               *)
LEMMA CompleteRetiresARun ==
    ASSUME NEW w \in Watermarks,
           NEW ticket \in w.front..(NextTicket(w) - 1)
    PROVE  /\ CompleteTicket(w, ticket) \in Watermarks
           /\ \E n \in 0..Len(w.pending) :
                 RetiresRun(w, CompleteTicket(w, ticket), ticket, n)
<1> DEFINE k == ticket - w.front + 1
           slot == [w.pending[k] EXCEPT !.done = TRUE]
           marked == [w.pending EXCEPT ![k] = slot]
           m == [w EXCEPT !.pending = marked]
           n == FinishedRun(marked)
           r == CompleteTicket(w, ticket)
<1>1. /\ w.front \in Nat /\ w.pending \in Seq(Slots)
      /\ w.applied \in Points \cup {NoPoint}
  BY Zenon DEF Watermarks
<1>2. /\ Len(w.pending) \in Nat /\ ticket \in Nat
      /\ k \in 1..Len(w.pending) /\ ticket = w.front + k - 1
  BY <1>1, LenProperties DEF NextTicket
<1>3. slot \in Slots /\ slot.done = TRUE /\ slot.point = w.pending[k].point
  <2>1. w.pending[k] \in Slots
    BY Zenon, <1>1, <1>2, ElementOfSeq
  <2> QED BY Zenon, <2>1 DEF Slots
<1>4. /\ marked \in Seq(Slots)
      /\ Len(marked) = Len(w.pending)
      /\ \A j \in 1..Len(w.pending) :
            marked[j] = IF j = k THEN slot ELSE w.pending[j]
  BY SMTT(60), <1>1, <1>2, <1>3, ExceptSeq
<1>5. n \in 0..Len(marked) /\ EndsFinishedRun(marked, n)
  BY Zenon, <1>4, FinishedRunIsDefined
<1>6. r = [front   |-> w.front + n,
           pending |-> SubSeq(marked, n + 1, Len(marked)),
           applied |-> IF n = 0 THEN w.applied ELSE marked[n].point]
  BY <1>1 DEF CompleteTicket, Retire, Watermarks
<1> HIDE DEF k, slot, marked, n, r
<1>7. /\ SubSeq(marked, n + 1, Len(marked)) \in Seq(Slots)
      /\ Len(SubSeq(marked, n + 1, Len(marked))) = Len(marked) - n
      /\ \A i \in 1..(Len(marked) - n) :
            SubSeq(marked, n + 1, Len(marked))[i] = marked[n + i]
  <2>1. \A i \in (n + 1)..Len(marked) : marked[i] \in Slots
    BY <1>4, <1>5, ElementOfSeq
  <2>2. n + 1 \in Int /\ Len(marked) \in Int /\ n \in Nat /\ n <= Len(marked)
    BY <1>2, <1>4, <1>5
  <2>3. /\ SubSeq(marked, n + 1, Len(marked)) \in Seq(Slots)
        /\ Len(SubSeq(marked, n + 1, Len(marked))) =
             IF n + 1 <= Len(marked) THEN Len(marked) - (n + 1) + 1 ELSE 0
        /\ \A i \in 1..(Len(marked) - (n + 1) + 1) :
              SubSeq(marked, n + 1, Len(marked))[i] = marked[(n + 1) + i - 1]
    BY <2>1, <2>2, SubSeqProperties
  <2> QED BY <2>2, <2>3
<1>8. \A i \in 1..n : marked[i].done
  BY Zenon, <1>5 DEF EndsFinishedRun
<1>9. r \in Watermarks
  <2>1. n # 0 => marked[n].point \in Points
    <3>1. n # 0 => n \in 1..Len(marked)
      BY <1>2, <1>4, <1>5
    <3>2. n # 0 => marked[n] \in Slots
      BY Zenon, <1>4, <3>1, ElementOfSeq
    <3> QED BY Zenon, <3>2 DEF Slots
  <2> QED BY <1>1, <1>4, <1>5, <1>6, <1>7, <2>1 DEF Watermarks
<1>10. n \in 0..Len(w.pending) /\ r.front = w.front + n
       /\ Len(r.pending) = Len(w.pending) - n
  BY Zenon, <1>4, <1>5, <1>6, <1>7
<1>11. ASSUME NEW i \in 1..Len(r.pending)
       PROVE  /\ r.pending[i] = marked[n + i]
              /\ r.pending[i].point = w.pending[n + i].point
              /\ r.pending[i].done <=>
                   (w.pending[n + i].done \/ w.front + n + i - 1 = ticket)
  <2>1. n + i \in 1..Len(w.pending) /\ r.pending[i] = marked[n + i]
    BY <1>1, <1>4, <1>5, <1>6, <1>7
  <2>2. n + i = k <=> w.front + n + i - 1 = ticket
    <3>1. n \in Int /\ i \in Int /\ k \in Int /\ w.front \in Int /\ ticket \in Int
      BY <1>1, <1>2, <1>10
    <3>2. ticket = w.front + k - 1
      BY Zenon, <1>2
    <3> HIDE DEF k, n
    <3> QED BY SMTT(60), <3>1, <3>2
  <2> QED BY Zenon, <2>1, <2>2, <1>3, <1>4
<1>12. \A i \in 1..n : w.pending[i].done \/ w.front + i - 1 = ticket
  <2> SUFFICES ASSUME NEW i \in 1..n
               PROVE  w.pending[i].done \/ w.front + i - 1 = ticket
    BY Zenon
  <2>1. i \in 1..Len(w.pending) /\ marked[i].done
    BY <1>2, <1>4, <1>5, <1>8
  <2> QED BY Zenon, <1>1, <1>2, <1>4, <2>1
<1>13. Len(r.pending) > 0 => ~r.pending[1].done
  BY <1>1, <1>4, <1>5, <1>6, <1>7 DEF EndsFinishedRun
<1>14. r.applied = IF n = 0 THEN w.applied ELSE w.pending[n].point
  <2>1. n # 0 => n \in 1..Len(w.pending)
    BY <1>2, <1>4, <1>5
  <2> QED BY Zenon, <1>3, <1>4, <1>6, <2>1
<1>15. RetiresRun(w, r, ticket, n)
  BY Zenon, <1>10, <1>11, <1>12, <1>13, <1>14 DEF RetiresRun
<1> QED BY Zenon, <1>9, <1>10, <1>15 DEF r

-----------------------------------------------------------------------------

(* The inductive invariant: what the slots hold, with the two facts that     *)
(* only hold between calls, that the first slot is unfinished and that       *)
(* `applied` is the point of the last retired ticket.                       *)
IInv ==
    /\ TypeOK
    /\ SlotsFollowTickets
    /\ NothingRetirableWaits
    /\ AppliedIsLastRetired

(* A fresh handle (WatermarkHandle::new) satisfies the invariant.            *)
LEMMA InitEstablishesIInv == Init => IInv
<1> SUFFICES ASSUME Init PROVE IInv
  BY Zenon
<1>1. wm.front = 0 /\ wm.pending = <<>> /\ Len(wm.pending) = 0 /\ wm.applied = NoPoint
  BY Zenon DEF Init, EmptyWatermark
<1>2. TypeOK
  <2>1. 0 \in 0..Completers
    BY HandleAssumption
  <2> QED BY Zenon, <2>1, EmptySeq DEF Init, TypeOK, EmptyWatermark, Watermarks, WaiterStates
<1> QED BY <1>1, <1>2
        DEF Init, IInv, SlotsFollowTickets, NothingRetirableWaits, AppliedIsLastRetired,
            NextTicket

(* Taking a ticket (Watermark::begin) keeps the invariant.                   *)
LEMMA BeginKeepsIInv ==
    ASSUME IInv, NEW point \in Points, Begin(point)
    PROVE  IInv'
<1> DEFINE slot == [point |-> point, done |-> FALSE]
           L == Len(wm.pending)
<1>1. /\ wm.front \in Nat /\ wm.pending \in Seq(Slots) /\ L \in Nat
      /\ wm.applied \in Points \cup {NoPoint}
      /\ wm = [front |-> wm.front, pending |-> wm.pending, applied |-> wm.applied]
      /\ begun \in Seq(Points) /\ Len(begun) \in Nat /\ Len(begun) = wm.front + L
  BY Zenon, LenProperties DEF IInv, TypeOK, Watermarks, SlotsFollowTickets, NextTicket
<1>2. slot \in Slots
  BY Zenon DEF Slots
<1>3. /\ wm'.front = wm.front /\ wm'.applied = wm.applied
      /\ wm'.pending = Append(wm.pending, slot)
      /\ wm' = [front |-> wm.front, pending |-> Append(wm.pending, slot),
                applied |-> wm.applied]
  BY Zenon, <1>1 DEF Begin, BeginTicket
<1> HIDE DEF slot
<1>4. /\ Append(wm.pending, slot) \in Seq(Slots)
      /\ Len(wm'.pending) = L + 1
      /\ \A i \in 1..L : wm'.pending[i] = wm.pending[i]
      /\ wm'.pending[L + 1] = slot
  BY <1>1, <1>2, <1>3, AppendProperties
<1>5. /\ begun' \in Seq(Points) /\ Len(begun') = Len(begun) + 1
      /\ \A i \in 1..Len(begun) : begun'[i] = begun[i]
      /\ begun'[Len(begun) + 1] = point
  BY <1>1, AppendProperties DEF Begin
<1>6. finished' = finished /\ finished \subseteq 0..(Len(begun) - 1)
  BY Zenon DEF Begin, IInv, TypeOK
<1>7. TypeOK'
  <2>1. wm' \in Watermarks
    BY Zenon, <1>1, <1>3, <1>4 DEF Watermarks
  <2>2. finished' \in SUBSET (0..(Len(begun') - 1))
    BY SMTT(60), <1>1, <1>5, <1>6
  <2> QED BY Zenon, <2>1, <2>2, <1>5 DEF IInv, TypeOK, Begin
<1>8. SlotsFollowTickets'
  <2>1. NextTicket(wm)' = Len(begun')
    BY <1>1, <1>3, <1>4, <1>5 DEF NextTicket
  <2>2. ASSUME NEW i \in 1..Len(wm'.pending)
        PROVE  /\ wm'.pending[i].point = begun'[wm'.front + i]
               /\ wm'.pending[i].done <=> (wm'.front + i - 1) \in finished'
    <3>1. CASE i = L + 1
      <4>1. wm.front + i = Len(begun) + 1 /\ wm.front + i - 1 = Len(begun)
        BY <1>1, <3>1
      <4>2. Len(begun) \notin finished
        BY <1>1, <1>6
      <4> QED BY <1>3, <1>4, <1>5, <1>6, <3>1, <4>1, <4>2 DEF slot
    <3>2. CASE i \in 1..L
      <4>1. wm.front + i \in 1..Len(begun)
        BY <1>1, <3>2
      <4>2. /\ wm.pending[i].point = begun[wm.front + i]
            /\ wm.pending[i].done <=> (wm.front + i - 1) \in finished
        BY Zenon, <3>2 DEF IInv, SlotsFollowTickets
      <4> QED BY Zenon, <1>3, <1>4, <1>5, <1>6, <3>2, <4>1, <4>2
    <3> QED BY <1>1, <1>4, <3>1, <3>2
  <2>3. \A t \in 0..(wm'.front - 1) : t \in finished'
    BY Zenon, <1>3, <1>6 DEF IInv, SlotsFollowTickets
  <2> QED BY Zenon, <2>1, <2>2, <2>3 DEF SlotsFollowTickets
<1>9. NothingRetirableWaits'
  <2>1. CASE L = 0
    BY <1>1, <1>4, <2>1 DEF NothingRetirableWaits, slot
  <2>2. CASE L > 0
    <3>1. wm.pending # <<>> /\ 1 \in 1..L
      BY <1>1, <2>2
    <3> QED BY Zenon, <1>4, <3>1 DEF NothingRetirableWaits, IInv
  <2> QED BY <1>1, <2>1, <2>2
<1>10. AppliedIsLastRetired'
  <2>1. wm.front # 0 => wm.front \in 1..Len(begun)
    BY <1>1
  <2> QED BY Zenon, <1>3, <1>5, <2>1 DEF IInv, AppliedIsLastRetired
<1> QED BY Zenon, <1>7, <1>8, <1>9, <1>10 DEF IInv

(* Completing a ticket handed out (Watermark::complete) keeps the invariant, *)
(* whether it retires a run of tickets, only marks its own, or was completed *)
(* before.                                                                  *)
LEMMA CompleteKeepsIInv ==
    ASSUME IInv, NEW ticket \in 0..(Len(begun) - 1), Complete(ticket)
    PROVE  IInv'
<1> DEFINE L == Len(wm.pending)
<1>1. /\ wm \in Watermarks /\ wm.front \in Nat /\ L \in Nat
      /\ begun \in Seq(Points) /\ Len(begun) \in Nat /\ Len(begun) = wm.front + L
      /\ ticket \in Nat /\ ticket < Len(begun)
  <2>1. wm.pending \in Seq(Slots) /\ begun \in Seq(Points)
    BY Zenon DEF IInv, TypeOK, Watermarks
  <2> QED BY <2>1, LenProperties DEF IInv, TypeOK, Watermarks, SlotsFollowTickets, NextTicket
<1>2. /\ wm' = CompleteTicket(wm, ticket) /\ begun' = begun
      /\ finished' = finished \cup {ticket}
      /\ notifying' \in 0..Completers /\ waiter' = waiter /\ notified' = notified
  BY <1>1, HandleAssumption DEF Complete, IInv, TypeOK
<1>3. finished' \in SUBSET (0..(Len(begun') - 1))
  BY Zenon, <1>2 DEF IInv, TypeOK
<1>4. CASE ticket < wm.front
  <2>1. wm' = wm
    BY <1>1, <1>2, <1>4 DEF CompleteTicket
  <2>2. finished' = finished
    BY <1>1, <1>2, <1>4 DEF IInv, SlotsFollowTickets
  <2> QED BY Zenon, <1>2, <1>3, <2>1, <2>2
          DEF IInv, TypeOK, SlotsFollowTickets, NothingRetirableWaits,
              AppliedIsLastRetired, NextTicket
<1>5. CASE ticket >= wm.front
  <2>1. ticket \in wm.front..(NextTicket(wm) - 1)
    BY <1>1, <1>5 DEF NextTicket
  <2>2. wm' \in Watermarks /\ \E n \in 0..L : RetiresRun(wm, wm', ticket, n)
    BY Zenon, <1>1, <1>2, <2>1, CompleteRetiresARun
  <2>3. PICK n \in 0..L : RetiresRun(wm, wm', ticket, n)
    BY Zenon, <2>2
  <2>4. /\ n \in Nat /\ n <= L
        /\ wm'.front = wm.front + n /\ Len(wm'.pending) = L - n
    BY <1>1, <2>3 DEF RetiresRun
  <2>5. \A i \in 1..L : /\ wm.pending[i].point = begun[wm.front + i]
                        /\ wm.pending[i].done <=> (wm.front + i - 1) \in finished
    BY Zenon DEF IInv, SlotsFollowTickets
  <2>6. TypeOK'
    BY Zenon, <1>2, <1>3, <2>2 DEF IInv, TypeOK
  <2>7. SlotsFollowTickets'
    <3>1. NextTicket(wm)' = Len(begun')
      BY SMTT(60), <1>1, <1>2, <2>4 DEF NextTicket
    <3>2. ASSUME NEW i \in 1..Len(wm'.pending)
          PROVE  /\ wm'.pending[i].point = begun'[wm'.front + i]
                 /\ wm'.pending[i].done <=> (wm'.front + i - 1) \in finished'
      <4>1. i \in Nat /\ n + i \in 1..L
        BY <1>1, <2>4
      <4>2. /\ wm.front + (n + i) = wm'.front + i
            /\ wm.front + n + i - 1 = wm'.front + i - 1
            /\ wm.front + (n + i) - 1 = wm'.front + i - 1
        BY SMTT(60), <1>1, <2>4, <4>1
      <4>3. /\ wm'.pending[i].point = wm.pending[n + i].point
            /\ wm'.pending[i].done <=>
                 (wm.pending[n + i].done \/ wm.front + n + i - 1 = ticket)
        BY Zenon, <2>3 DEF RetiresRun
      <4>4. /\ wm.pending[n + i].point = begun[wm.front + (n + i)]
            /\ wm.pending[n + i].done <=> (wm.front + (n + i) - 1) \in finished
        BY Zenon, <2>5, <4>1
      <4> QED BY Zenon, <1>2, <4>2, <4>3, <4>4
    <3>3. ASSUME NEW t \in 0..(wm'.front - 1)
          PROVE  t \in finished'
      <4>1. t \in Nat /\ t < wm.front + n
        BY <1>1, <2>4
      <4>2. CASE t < wm.front
        BY <1>1, <1>2, <4>1, <4>2 DEF IInv, SlotsFollowTickets
      <4>3. CASE t >= wm.front
        <5> DEFINE i == t - wm.front + 1
        <5>1. i \in 1..n /\ i \in 1..L /\ wm.front + i - 1 = t
          <6>1. wm.front \in Nat /\ L \in Nat
            BY Zenon, <1>1
          <6>2. n \in Nat /\ n <= L /\ t \in Nat /\ wm.front <= t /\ t < wm.front + n
            BY Zenon, <2>4, <4>1, <4>3, <6>1
          <6>3. i \in 1..n /\ wm.front + i - 1 = t
            BY Zenon, <6>1, <6>2, PlaceInRun
          <6> HIDE DEF i
          <6>4. \A x \in 1..n : x \in 1..L
            BY <6>1, <6>2
          <6> QED BY Zenon, <6>3, <6>4
        <5> HIDE DEF i
        <5> QED BY Zenon, <1>2, <2>3, <2>5, <5>1 DEF RetiresRun
      <4> QED BY <1>1, <4>1, <4>2, <4>3
    <3> QED BY Zenon, <3>1, <3>2, <3>3 DEF SlotsFollowTickets
  <2>8. NothingRetirableWaits'
    <3>1. wm'.pending \in Seq(Slots)
      BY Zenon, <2>2 DEF Watermarks
    <3>2. wm'.pending # <<>> => Len(wm'.pending) > 0
      BY <3>1, EmptySeq, LenProperties
    <3> QED BY Zenon, <2>3, <3>2 DEF NothingRetirableWaits, RetiresRun
  <2>9. AppliedIsLastRetired'
    <3>1. CASE n = 0
      BY SMTT(60), <1>1, <1>2, <2>3, <2>4, <3>1 DEF IInv, AppliedIsLastRetired, RetiresRun
    <3>2. CASE n # 0
      <4>1. n \in 1..L /\ wm'.front = wm.front + n /\ wm'.front # 0
        BY <1>1, <2>4, <3>2
      <4> QED BY <1>2, <2>3, <2>5, <3>2, <4>1 DEF AppliedIsLastRetired, RetiresRun
    <3> QED BY Zenon, <3>1, <3>2
  <2> QED BY Zenon, <2>6, <2>7, <2>8, <2>9 DEF IInv
<1> QED BY <1>1, <1>4, <1>5

(* Every step of the reader and the workers keeps the invariant.             *)
LEMMA NextKeepsIInv == IInv /\ [Next]_vars => IInv'
<1> SUFFICES ASSUME IInv, [Next]_vars PROVE IInv'
  BY Zenon
<1>1. ASSUME NEW point \in Points, Begin(point) PROVE IInv'
  BY Zenon, <1>1, BeginKeepsIInv
<1>2. ASSUME NEW ticket \in 0..(Len(begun) - 1), Complete(ticket) PROVE IInv'
  BY Zenon, <1>2, CompleteKeepsIInv
<1>3. ASSUME UNCHANGED <<wm, begun, finished>>,
             notifying' \in 0..Completers, waiter' \in WaiterStates, notified' \in BOOLEAN
      PROVE  IInv'
  BY Zenon, <1>3 DEF IInv, TypeOK, SlotsFollowTickets, NothingRetirableWaits,
              AppliedIsLastRetired, NextTicket
<1>4. CASE NotifyWaiters
  BY <1>3, <1>4, HandleAssumption DEF NotifyWaiters, IInv, TypeOK
<1>5. CASE Register
  BY Zenon, <1>3, <1>5 DEF Register, IInv, TypeOK, WaiterStates
<1>6. CASE CheckIdle
  BY Zenon, <1>3, <1>6 DEF CheckIdle, IInv, TypeOK, WaiterStates
<1>7. CASE Await
  BY Zenon, <1>3, <1>7 DEF Await, IInv, TypeOK, WaiterStates
<1>8. CASE Wake
  BY Zenon, <1>3, <1>8 DEF Wake, IInv, TypeOK, WaiterStates
<1>9. CASE WaitTimesOut
  BY Zenon, <1>3, <1>9 DEF WaitTimesOut, IInv, TypeOK, WaiterStates
<1>10. CASE UNCHANGED vars
  BY Zenon, <1>3, <1>10 DEF vars, IInv, TypeOK
<1> QED BY SMTT(60), <1>1, <1>2, <1>4, <1>5, <1>6, <1>7, <1>8, <1>9, <1>10 DEF Next

(* The invariant holds of every behaviour of the handle.                     *)
THEOREM InvariantHolds == Spec => []IInv
  BY InitEstablishesIInv, NextKeepsIInv, PTL DEF Spec

(* The handle's state is always well formed, for any number of workers.      *)
THEOREM TypeCorrect == Spec => []TypeOK
<1>1. IInv => TypeOK
  BY Zenon DEF IInv
<1> QED BY <1>1, InvariantHolds, PTL

(* Under the invariant the tickets before `front` are the finished prefix.   *)
LEMMA FrontEndsFinishedPrefix ==
    ASSUME IInv
    PROVE  /\ wm.front \in 0..Len(begun)
           /\ \A t \in 0..(wm.front - 1) : t \in finished
           /\ wm.front \notin finished
<1>1. /\ wm.front \in Nat /\ wm.pending \in Seq(Slots) /\ Len(wm.pending) \in Nat
      /\ Len(begun) = wm.front + Len(wm.pending)
      /\ finished \subseteq 0..(Len(begun) - 1)
  <2>1. wm.pending \in Seq(Slots)
    BY Zenon DEF IInv, TypeOK, Watermarks
  <2> QED BY Zenon, <2>1, LenProperties
          DEF IInv, TypeOK, Watermarks, SlotsFollowTickets, NextTicket
<1>2. wm.front \notin finished
  <2>1. CASE Len(wm.pending) = 0
    BY <1>1, <2>1
  <2>2. CASE Len(wm.pending) > 0
    <3>1. wm.pending # <<>> /\ 1 \in 1..Len(wm.pending)
      BY <1>1, <2>2, EmptySeq
    <3>2. ~wm.pending[1].done
      BY Zenon, <3>1 DEF IInv, NothingRetirableWaits
    <3>3. (wm.front + 1 - 1) \notin finished
      BY Zenon, <3>1, <3>2 DEF IInv, SlotsFollowTickets
    <3> QED BY <1>1, <3>3
  <2> QED BY <1>1, <2>1, <2>2
<1> QED BY <1>1, <1>2 DEF IInv, SlotsFollowTickets

(* The watermark never passes an unfinished event, for any number of         *)
(* tickets, points and workers: the saved cursor that `flush` takes from it  *)
(* covers only events that were applied or given up.                         *)
THEOREM WatermarkSafe == Spec => []WatermarkIsFinishedPrefix
<1>1. IInv => WatermarkIsFinishedPrefix
  BY Zenon, FrontEndsFinishedPrefix DEF IInv, AppliedIsLastRetired, WatermarkIsFinishedPrefix
<1> QED BY <1>1, InvariantHolds, PTL

-----------------------------------------------------------------------------

(* The applied point is the one the abstract prefix names.                   *)
AppliedIsPrefixPoint == wm.applied = Abstract!PrefixPoint(begun, finished)

(* The invariant implies it: the finished prefix has only one length.        *)
LEMMA PrefixPointIsApplied == IInv => AppliedIsPrefixPoint
<1> SUFFICES ASSUME IInv PROVE AppliedIsPrefixPoint
  BY Zenon
<1> DEFINE P(k) == Abstract!IsPrefixLength(begun, finished, k)
<1>1. wm.front \in 0..Len(begun) /\ P(wm.front)
  BY Zenon, FrontEndsFinishedPrefix DEF Abstract!IsPrefixLength
<1>2. Len(begun) \in Nat
  BY Zenon, LenProperties DEF IInv, TypeOK
<1>3. ASSUME NEW j \in 0..Len(begun), P(j)
      PROVE  j = wm.front
  <2>1. j \in Int /\ wm.front \in Int /\ 0 <= j /\ 0 <= wm.front
    BY <1>1, <1>2
  <2>2. ~(j < wm.front)
    BY <1>1, <1>3, <2>1 DEF Abstract!IsPrefixLength
  <2>3. ~(wm.front < j)
    BY <1>1, <1>3, <2>1 DEF Abstract!IsPrefixLength
  <2> QED BY <2>1, <2>2, <2>3
<1>4. (CHOOSE k \in 0..Len(begun) : P(k)) = wm.front
  BY Zenon, <1>1, <1>3
<1> QED BY Zenon, <1>4 DEF Abstract!PrefixPoint, AppliedIsPrefixPoint, IInv, AppliedIsLastRetired

(* Every step of the handle is a step of the abstract prefix, or none.       *)
LEMMA StepRefines ==
    ASSUME IInv, AppliedIsPrefixPoint', [Next]_vars
    PROVE  [Abstract!Next]_(Abstract!vars)
<1>1. ASSUME NEW point \in Points, Begin(point)
      PROVE  Abstract!Begin(point)
  <2>1. Len(begun) < MaxTickets
    BY Zenon, <1>1 DEF Begin, IInv, SlotsFollowTickets
  <2>2. wm'.applied = wm.applied
    BY Zenon, <1>1 DEF Begin, BeginTicket, IInv, TypeOK, Watermarks
  <2> QED BY Zenon, <1>1, <2>1, <2>2 DEF Begin, Abstract!Begin
<1>2. ASSUME NEW ticket \in 0..(Len(begun) - 1), Complete(ticket)
      PROVE  Abstract!Finish(ticket)
  <2>1. begun' = begun /\ finished' = finished \cup {ticket}
    BY Zenon, <1>2 DEF Complete
  <2>2. wm'.applied = Abstract!PrefixPoint(begun', finished')
    BY Zenon DEF AppliedIsPrefixPoint, Abstract!PrefixPoint, Abstract!IsPrefixLength
  <2> QED BY Zenon, <1>2, <2>1, <2>2 DEF Abstract!Finish
<1>3. ASSUME UNCHANGED <<wm, begun, finished>>
      PROVE  UNCHANGED Abstract!vars
  BY Zenon, <1>3 DEF Abstract!vars
<1> QED BY Zenon, <1>1, <1>2, <1>3
        DEF Next, vars, NotifyWaiters, Register, CheckIdle, Await, Wake, WaitTimesOut, Abstract!Next

(* The queue of slots, with its popping loop and ignored stale tickets,      *)
(* implements the abstract prefix: what a drain, a flush or a crash sees of  *)
(* the watermark is exactly the point before the first unfinished event.     *)
THEOREM Refinement == Spec => ImplementsAppliedPrefix
<1>1. Init => Abstract!Init
  BY DEF Init, EmptyWatermark, Abstract!Init
<1> QED BY <1>1, StepRefines, PrefixPointIsApplied, InvariantHolds, PTL
        DEF Spec, ImplementsAppliedPrefix, Abstract!Spec
=============================================================================
