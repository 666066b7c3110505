--------------------------- MODULE AppliedPrefix ---------------------------
(***************************************************************************)
(* What the applied watermark promises, with no queue of pending slots:     *)
(* events get tickets 0, 1, 2, ... in read order, tickets finish in any     *)
(* order, and the applied point is always that of the last event before the *)
(* first unfinished one.                                                   *)
(***************************************************************************)
EXTENDS Integers, Sequences

CONSTANTS Points, NoPoint, MaxTickets

VARIABLES
    begun,     \* the point of every ticket, in ticket order
    finished,  \* the tickets whose event was applied or given up
    applied    \* the furthest point with every event up to it finished

vars == <<begun, finished, applied>>

\* n tickets, and no more, form the finished prefix.
IsPrefixLength(points, done, n) ==
    /\ n \in 0..Len(points)
    /\ \A t \in 0..(n - 1) : t \in done
    /\ n \notin done

PrefixPoint(points, done) ==
    LET n == CHOOSE k \in 0..Len(points) : IsPrefixLength(points, done, k)
    IN  IF n = 0 THEN NoPoint ELSE points[n]

Init ==
    /\ begun = <<>>
    /\ finished = {}
    /\ applied = NoPoint

Begin(point) ==
    /\ Len(begun) < MaxTickets
    /\ begun' = Append(begun, point)
    /\ UNCHANGED <<finished, applied>>

Finish(ticket) ==
    /\ ticket \in 0..(Len(begun) - 1)
    /\ finished' = finished \cup {ticket}
    /\ applied' = PrefixPoint(begun, finished')
    /\ UNCHANGED begun

Next ==
    \/ \E point \in Points : Begin(point)
    \/ \E ticket \in 0..(Len(begun) - 1) : Finish(ticket)

Spec == Init /\ [][Next]_vars
=============================================================================
