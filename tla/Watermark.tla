----------------------------- MODULE Watermark -----------------------------
(***************************************************************************)
(* The applied watermark of the Jetstream consumer, as operators on one     *)
(* value: tickets are handed out in read order, workers finish them in any  *)
(* order, and the watermark only moves over a contiguous run of finished    *)
(* tickets (crates/happyview-source-jetstream/src/consumer/watermark.rs).   *)
(*                                                                         *)
(* A watermark is a record of `front` (the ticket of pending[1]), `pending` *)
(* (the stream point of every ticket from `front` on, in read order, and    *)
(* whether it finished) and `applied` (the point of the last ticket that    *)
(* retired, NoPoint before the first one does).                            *)
(***************************************************************************)
EXTENDS Integers, Sequences

CONSTANTS Points, NoPoint

ASSUME NoPointIsNoPoint == NoPoint \notin Points

Slots == [point : Points, done : BOOLEAN]

Watermarks ==
    [front : Nat, pending : Seq(Slots), applied : Points \cup {NoPoint}]

EmptyWatermark == [front |-> 0, pending |-> <<>>, applied |-> NoPoint]

InFlight(w) == Len(w.pending)

NextTicket(w) == w.front + Len(w.pending)

HasRetired(w, ticket) == w.front > ticket

\* The applied point and the check that `ticket` retired, read together.
AppliedIfRetired(w, ticket) ==
    IF HasRetired(w, ticket) THEN w.applied ELSE NoPoint

\* Track an event about to be dispatched; its ticket is NextTicket(w).
BeginTicket(w, point) ==
    [w EXCEPT !.pending = Append(@, [point |-> point, done |-> FALSE])]

\* n is where the run of finished slots at the front of `pending` ends.
EndsFinishedRun(pending, n) ==
    /\ \A i \in 1..n : pending[i].done
    /\ n < Len(pending) => ~pending[n + 1].done

FinishedRun(pending) ==
    CHOOSE n \in 0..Len(pending) : EndsFinishedRun(pending, n)

\* Retire the finished run at the front: the loop that pops it.
Retire(w) ==
    LET n == FinishedRun(w.pending)
    IN  [front   |-> w.front + n,
         pending |-> SubSeq(w.pending, n + 1, Len(w.pending)),
         applied |-> IF n = 0 THEN w.applied ELSE w.pending[n].point]

\* Forms a slip in complete() would take; the mutation runs substitute them.
RetireAnyFinished(w) ==
    LET n == CHOOSE m \in 0..Len(w.pending) :
               /\ m = 0 \/ w.pending[m].done
               /\ \A k \in (m + 1)..Len(w.pending) : ~w.pending[k].done
    IN  [front   |-> w.front + n,
         pending |-> SubSeq(w.pending, n + 1, Len(w.pending)),
         applied |-> IF n = 0 THEN w.applied ELSE w.pending[n].point]

CompleteAnyOrder(w, ticket) ==
    IF ticket \notin w.front..(NextTicket(w) - 1) THEN w
    ELSE RetireAnyFinished([w EXCEPT !.pending[ticket - w.front + 1].done = TRUE])

\* Mark a ticket finished and advance over every finished ticket at the
\* front. Unknown and already-retired tickets are ignored.
CompleteTicket(w, ticket) ==
    IF ticket \notin w.front..(NextTicket(w) - 1) THEN w
    ELSE Retire([w EXCEPT !.pending[ticket - w.front + 1].done = TRUE])
=============================================================================
