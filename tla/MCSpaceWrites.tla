---------------------------- MODULE MCSpaceWrites ----------------------------
(* Small instances of SpaceWrites. *)
EXTENDS SpaceWrites

Put(k, c) == [kind |-> "put", key |-> k, cid |-> c, swap |-> None]
Create(k, c) == [kind |-> "create", key |-> k, cid |-> c, swap |-> None]
Delete(k) == [kind |-> "delete", key |-> k, cid |-> None, swap |-> None]
Swap(k, old, c) == [kind |-> IF c = None THEN "delete" ELSE "put",
                    key |-> k, cid |-> c, swap |-> old]

(* Two requests of one author at once; a batch that fails half-way or is   *)
(* abandoned; reports out of order, from the future and lost; a full       *)
(* webhook queue and a worker that dies.                                   *)
MCScenarios ==
    {[requests |-> {<<Put(1, 1)>>, <<Delete(1)>>}, revs |-> {},
      ids |-> {0, 1, 2}, writes |-> 3, reports |-> 0, ticks |-> 0, faults |-> 0],
     [requests |-> {<<Create(2, 1), Swap(1, 1, 2)>>, <<Put(1, 1)>>}, revs |-> {},
      ids |-> {0, 1}, writes |-> 2, reports |-> 0, ticks |-> 0, faults |-> 1],
     [requests |-> {<<Put(1, 1)>>}, revs |-> {5, 12},
      ids |-> {0}, writes |-> 1, reports |-> 1, ticks |-> 1, faults |-> 1],
     [requests |-> {}, revs |-> {4, 8},
      ids |-> {0}, writes |-> 0, reports |-> 3, ticks |-> 0, faults |-> 0],
     [requests |-> {}, revs |-> {5},
      ids |-> {0}, writes |-> 0, reports |-> 2, ticks |-> 0, faults |-> 1]}

(* Two writes of one author, whose revisions need not be minted in the     *)
(* order they commit.                                                      *)
MCTwoWrites ==
    {[requests |-> {<<Put(1, 1)>>, <<Put(2, 1)>>}, revs |-> {},
      ids |-> {0, 1}, writes |-> 2, reports |-> 0, ticks |-> 0, faults |-> 0]}
=============================================================================
