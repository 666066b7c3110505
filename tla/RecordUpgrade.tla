---------------------------- MODULE RecordUpgrade ----------------------------
(***************************************************************************)
(* The boot-time move of the legacy record tables into the compact ones     *)
(* (src/record_store/upgrade.rs): copy the records and the refs in keyset   *)
(* batches, each committed with its cursor, then verify and swap in one     *)
(* transaction. Any number of processes boot on one database. On SQLite     *)
(* nothing serialises them; on Postgres the migration lock does. Instances  *)
(* of the old release may still write the legacy tables, instances that     *)
(* booted write the compact ones.                                           *)
(*                                                                         *)
(* A record is named by its place in uri order. A table maps each uri to    *)
(* the contents of its row, or to 0 where there is no row; the refs of one  *)
(* source are one row. A batch holds the rows after a cursor up to some     *)
(* later row, so a run covers every batch size. Each database read outside  *)
(* a transaction, and each transaction, is one step.                        *)
(***************************************************************************)
EXTENDS Naturals

CONSTANTS
    MaxUri,         \* bound: record uris
    Contents,       \* what a record row may hold
    Boots,          \* processes that boot
    CopyAttempts,   \* COPY_ATTEMPTS
    Scenarios       \* whether boots are serialised, and bounds on the writes of
                    \* old and new instances, on stopped boots and on failed swaps

Uris == 1..MaxUri
Tables == [Uris -> Contents \cup {0}]
RefTables == [Uris -> {0, 1}]

Steps == {"records", "recordsCursor", "fetchRecords", "writeRecords",
          "refs", "refsPending", "pending", "refsCursor", "fetchRefs", "writeRefs",
          "swap", "reset"}

ASSUME RecordUpgradeAssumption ==
    /\ MaxUri \in Nat
    /\ 0 \notin Contents
    /\ CopyAttempts \in Nat \ {0}
    /\ Scenarios \subseteq [serial : BOOLEAN, old : Nat, live : Nat, stop : Nat, fail : Nat]

VARIABLES
    legacy,     \* the legacy tables, and whether they are still tables
    v2,         \* the compact tables
    cursor,     \* RECORDS_CURSOR and REFS_CURSOR; 0 when not set
    boot,       \* where each process is, and what it holds in memory
    truth,      \* history: the tables as everyone's acknowledged writes left them
    disturbed,  \* history: an old instance wrote, or the copy was reset
    left        \* the scenario, with what is left of each bound

vars == <<legacy, v2, cursor, boot, truth, disturbed, left>>

Empty == [u \in Uris |-> 0]

Off == [at |-> "off", after |-> 0, batch |-> Empty, attempt |-> 1]

Init ==
    /\ \E t \in Tables, r \in RefTables :
          /\ legacy = [present |-> TRUE, records |-> t, refs |-> r]
          /\ truth = [records |-> t, refs |-> r]
    /\ v2 = [records |-> Empty, refs |-> Empty]
    /\ cursor = [records |-> 0, refs |-> 0]
    /\ boot = [b \in Boots |-> Off]
    /\ disturbed = FALSE
    /\ left \in Scenarios

Spend(kind) == left[kind] > 0 /\ left' = [left EXCEPT ![kind] = @ - 1]

Running(b) == boot[b].at \in Steps

At(b, step) == boot[b].at = step

\* What a read of happyview_records and happyview_record_refs returns: after
\* the swap they are views of the compact tables.
Records == IF legacy.present THEN legacy.records ELSE v2.records
Refs == IF legacy.present THEN legacy.refs ELSE v2.refs

RowsAfter(table, after) == {u \in Uris : u > after /\ table[u] # 0}

Batch(table, after, last) == [u \in Uris |-> IF u > after /\ u <= last THEN table[u] ELSE 0]

IsLast(u, batch) == batch[u] # 0 /\ \A w \in Uris : batch[w] # 0 => w <= u

\* INSERT ... ON CONFLICT DO NOTHING.
Inserted(table, batch) == [u \in Uris |-> IF table[u] # 0 THEN table[u] ELSE batch[u]]

\* The refs whose source record is there.
Sourced(refs, records) == [u \in Uris |-> IF records[u] # 0 THEN refs[u] ELSE 0]

-----------------------------------------------------------------------------
(* One boot: run_on *)

Serialised(b) == left.serial => \A c \in Boots \ {b} : ~Running(c)

\* A form that empties the copy before it looks whether one is under way.
BeginEmpty(b) ==
    /\ At(b, "off") /\ Serialised(b)
    /\ IF legacy.present
       THEN /\ boot' = [boot EXCEPT ![b] = [Off EXCEPT !.at = "records"]]
            /\ v2' = [records |-> Empty, refs |-> Empty]
       ELSE boot' = [boot EXCEPT ![b].at = "done"] /\ UNCHANGED v2
    /\ UNCHANGED <<legacy, cursor, truth, disturbed, left>>

\* The first transaction: rows without a cursor were not written by a copy.
Begin(b) ==
    /\ At(b, "off") /\ Serialised(b)
    /\ IF legacy.present
       THEN /\ boot' = [boot EXCEPT ![b] = [Off EXCEPT !.at = "records"]]
            /\ v2' = IF cursor = [records |-> 0, refs |-> 0]
                     THEN [records |-> Empty, refs |-> Empty] ELSE v2
       ELSE boot' = [boot EXCEPT ![b].at = "done"] /\ UNCHANGED v2
    /\ UNCHANGED <<legacy, cursor, truth, disturbed, left>>

\* copy_records_on, copy_refs_on: stop when another boot has swapped.
LookForLegacy(b) ==
    /\ \E here \in {"records", "refs"} :
          /\ At(b, here)
          /\ boot' = [boot EXCEPT ![b].at =
                        IF ~legacy.present THEN "done"
                        ELSE IF here = "records" THEN "recordsCursor" ELSE "refsPending"]
    /\ UNCHANGED <<legacy, v2, cursor, truth, disturbed, left>>

\* The reads of a cursor, outside any transaction.
ReadCursor(b) ==
    /\ \/ /\ At(b, "recordsCursor")
          /\ boot' = [boot EXCEPT ![b].at = "fetchRecords", ![b].after = cursor.records]
       \/ /\ At(b, "refsPending")
          /\ boot' = [boot EXCEPT ![b].at = "pending", ![b].after = cursor.records]
       \/ /\ At(b, "refsCursor")
          /\ boot' = [boot EXCEPT ![b].at = "fetchRefs", ![b].after = cursor.refs]
    /\ UNCHANGED <<legacy, v2, cursor, truth, disturbed, left>>

\* The next batch, read outside any transaction, or the end of the table.
Fetch(b) ==
    /\ \E kind \in {"records", "refs"} :
          LET table == IF kind = "records" THEN Records ELSE Refs
              rows == RowsAfter(table, boot[b].after)
          IN
          /\ At(b, IF kind = "records" THEN "fetchRecords" ELSE "fetchRefs")
          /\ \/ /\ rows = {}
                /\ boot' = [boot EXCEPT ![b].at = IF kind = "records" THEN "refs" ELSE "swap"]
             \/ \E last \in rows :
                   boot' = [boot EXCEPT
                              ![b].at = IF kind = "records" THEN "writeRecords" ELSE "writeRefs",
                              ![b].batch = Batch(table, boot[b].after, last)]
    /\ UNCHANGED <<legacy, v2, cursor, truth, disturbed, left>>

\* A form that trusts the check made before the batch was read.
WriteRecordsUnchecked(b) ==
    /\ At(b, "writeRecords")
    /\ \E last \in Uris :
          /\ IsLast(last, boot[b].batch)
          /\ v2' = [v2 EXCEPT !.records = Inserted(@, boot[b].batch)]
          /\ cursor' = [cursor EXCEPT !.records = last]
          /\ boot' = [boot EXCEPT ![b].at = "fetchRecords", ![b].after = last, ![b].batch = Empty]
    /\ UNCHANGED <<legacy, truth, disturbed, left>>

\* write_records: the batch and its cursor in one transaction.
WriteRecords(b) ==
    /\ At(b, "writeRecords")
    /\ \/ /\ ~legacy.present
          /\ boot' = [boot EXCEPT ![b].at = "done"]
          /\ UNCHANGED <<v2, cursor>>
       \/ \E last \in Uris :
             /\ legacy.present /\ IsLast(last, boot[b].batch)
             /\ v2' = [v2 EXCEPT !.records = Inserted(@, boot[b].batch)]
             /\ cursor' = [cursor EXCEPT !.records = last]
             /\ boot' = [boot EXCEPT ![b].at = "fetchRecords", ![b].after = last, ![b].batch = Empty]
    /\ UNCHANGED <<legacy, truth, disturbed, left>>

\* RecordsPending: another pass over the records, or, at last, an error.
Pending(b) ==
    /\ At(b, "pending")
    /\ boot' = [boot EXCEPT ![b] =
                  IF RowsAfter(Records, boot[b].after) = {} THEN [boot[b] EXCEPT !.at = "refsCursor"]
                  ELSE IF boot[b].attempt < CopyAttempts
                  THEN [boot[b] EXCEPT !.at = "records", !.attempt = boot[b].attempt + 1]
                  ELSE Off]
    /\ UNCHANGED <<legacy, v2, cursor, truth, disturbed, left>>

\* write_refs: refs whose source record was not copied are skipped.
WriteRefs(b) ==
    /\ At(b, "writeRefs")
    /\ \/ /\ ~legacy.present
          /\ boot' = [boot EXCEPT ![b].at = "done"]
          /\ UNCHANGED <<v2, cursor>>
       \/ \E last \in Uris :
             /\ legacy.present /\ IsLast(last, boot[b].batch)
             /\ v2' = [v2 EXCEPT !.refs = Inserted(@, Sourced(boot[b].batch, v2.records))]
             /\ cursor' = [cursor EXCEPT !.refs = last]
             /\ boot' = [boot EXCEPT ![b].at = "fetchRefs", ![b].after = last, ![b].batch = Empty]
    /\ UNCHANGED <<legacy, truth, disturbed, left>>

\* verify: every record, every ref that has a source, and nothing else.
Verified ==
    /\ v2.records = legacy.records
    /\ v2.refs = Sourced(legacy.refs, legacy.records)

\* swap_in_transaction: verify, drop the legacy tables, clear the cursors.
Swap(b) ==
    /\ At(b, "swap")
    /\ \/ /\ ~legacy.present
          /\ boot' = [boot EXCEPT ![b].at = "done"]
          /\ UNCHANGED <<legacy, cursor>>
       \/ /\ legacy.present /\ Verified
          /\ legacy' = [present |-> FALSE, records |-> Empty, refs |-> Empty]
          /\ cursor' = [records |-> 0, refs |-> 0]
          /\ boot' = [boot EXCEPT ![b].at = "done"]
       \/ /\ legacy.present /\ ~Verified
          /\ boot' = [boot EXCEPT ![b].at = "reset"]
          /\ UNCHANGED <<legacy, cursor>>
    /\ UNCHANGED <<v2, truth, disturbed, left>>

\* The swap's transaction fails for a reason of the database's and is rolled back.
SwapFails(b) ==
    /\ At(b, "swap") /\ legacy.present
    /\ Spend("fail")
    /\ boot' = [boot EXCEPT ![b].at = "reset"]
    /\ UNCHANGED <<legacy, v2, cursor, truth, disturbed>>

\* A form that keeps the cursors of the copy it throws away.
ResetKeepsCursors(b) ==
    /\ At(b, "reset")
    /\ boot' = [boot EXCEPT ![b] = Off]
    /\ v2' = IF legacy.present THEN [records |-> Empty, refs |-> Empty] ELSE v2
    /\ disturbed' = (disturbed \/ legacy.present)
    /\ UNCHANGED <<legacy, cursor, truth, left>>

\* reset_copy: refused once the legacy tables are gone.
Reset(b) ==
    /\ At(b, "reset")
    /\ boot' = [boot EXCEPT ![b] = Off]
    /\ IF legacy.present
       THEN /\ cursor' = [records |-> 0, refs |-> 0]
            /\ v2' = [records |-> Empty, refs |-> Empty]
            /\ disturbed' = TRUE
       ELSE UNCHANGED <<v2, cursor, disturbed>>
    /\ UNCHANGED <<legacy, truth, left>>

\* The process crashes, or a statement fails and the boot with it.
Stop(b) ==
    /\ Running(b) /\ Spend("stop")
    /\ boot' = [boot EXCEPT ![b] = Off]
    /\ UNCHANGED <<legacy, v2, cursor, truth, disturbed>>

-----------------------------------------------------------------------------
(* Everyone else *)

\* An instance of the old release saves (c # 0) or deletes a record.
OldWrite(u, c, r) ==
    /\ legacy.present /\ Spend("old")
    /\ legacy' = [legacy EXCEPT !.records[u] = c, !.refs[u] = r]
    /\ truth' = [records |-> legacy'.records, refs |-> legacy'.refs]
    /\ disturbed' = TRUE
    /\ UNCHANGED <<v2, cursor, boot>>

\* An instance that has booted saves or deletes a record; a record's refs go with it.
LiveWrite(u, c, r) ==
    /\ \E b \in Boots : At(b, "done")
    /\ Spend("live")
    /\ v2' = [records |-> [v2.records EXCEPT ![u] = c],
              refs |-> [v2.refs EXCEPT ![u] = IF c = 0 THEN 0 ELSE r]]
    /\ truth' = [records |-> [truth.records EXCEPT ![u] = c], refs |-> [truth.refs EXCEPT ![u] = r]]
    /\ UNCHANGED <<legacy, cursor, boot, disturbed>>

-----------------------------------------------------------------------------

BootStep(b) ==
    \/ Begin(b) \/ LookForLegacy(b) \/ ReadCursor(b) \/ Fetch(b) \/ WriteRecords(b)
    \/ Pending(b) \/ WriteRefs(b) \/ Swap(b) \/ Reset(b)

Next ==
    \/ \E b \in Boots : BootStep(b) \/ SwapFails(b) \/ Stop(b)
    \/ \E u \in Uris, c \in Contents \cup {0}, r \in {0, 1} : OldWrite(u, c, r) \/ LiveWrite(u, c, r)

Spec == Init /\ [][Next]_vars

\* A boot that was started goes on, and one that stopped is started again.
FairSpec == Spec /\ \A b \in Boots : WF_vars(BootStep(b))

-----------------------------------------------------------------------------
(* Properties *)

\* Types: both generations of the tables hold rows of known uris, a cursor and
\* a boot's position are uris, and a boot holds at most one fetched batch.
TypeOK ==
    /\ legacy \in [present : BOOLEAN, records : Tables, refs : RefTables]
    /\ v2 \in [records : Tables, refs : RefTables]
    /\ cursor \in [records : 0..MaxUri, refs : 0..MaxUri]
    /\ boot \in [Boots -> [at : Steps \cup {"off", "done"}, after : 0..MaxUri,
                           batch : [Uris -> Contents \cup {0, 1}], attempt : 1..CopyAttempts]]
    /\ truth \in [records : Tables, refs : RefTables]
    /\ disturbed \in BOOLEAN
    /\ left \in [serial : BOOLEAN, old : Nat, live : Nat, stop : Nat, fail : Nat]

\* run_on: "every decision that could lose data is made inside a write
\* transaction that first checks the legacy tables are still tables". Once the
\* legacy tables are gone the compact ones hold every acknowledged write and
\* nothing else, whatever boots were still copying, resetting or swapping.
NothingLost ==
    ~legacy.present =>
        /\ v2.records = truth.records
        /\ v2.refs = Sourced(truth.refs, truth.records)

\* A boot finishes only on an upgraded database: no instance of this release
\* serves from half a copy (run_on returns Ok only after a swap).
ServesUpgraded == \A b \in Boots : At(b, "done") => ~legacy.present

\* Boots that copy at the same time, overtake each other's cursors, stop and
\* resume never spoil the copy between them: verification refuses it only
\* after an old instance wrote or an earlier copy was reset.
RefusedOnlyIfDisturbed ==
    \A b \in Boots : At(b, "swap") /\ legacy.present /\ ~Verified => disturbed

\* Once old instances stop writing, boots that are started again bring the
\* upgrade to its end: always where the boots are serialised, and otherwise
\* unless the copy was reset or written behind, when two boots may go on
\* resetting it under each other.
UpgradeEnds == (left.serial \/ [](~disturbed)) ~> (\A b \in Boots : At(b, "done"))
=============================================================================
