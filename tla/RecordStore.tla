---------------------------- MODULE RecordStore ----------------------------
(***************************************************************************)
(* One account's stored records and tombstones, as operators on one value   *)
(* (src/record_store/mod.rs, src/tombstones.rs).                            *)
(*                                                                         *)
(* A store is a record of `rows` (one per key of one collection, NoRow when  *)
(* there is none), `gone` (the record tombstones) and `account` (the DID      *)
(* tombstone), both as revs, None when there is none. A row has its `body`,   *)
(* its `cid` (the body's own, or None: a dead letter keeps none), its `rev`   *)
(* (None when unknown) and whether it is `indexed` (indexed_at is set: the    *)
(* network sent it, and it is not a local write awaiting its echo). Revs are   *)
(* TIDs, which order by time; here they are numbers and None is 0.           *)
(***************************************************************************)
EXTENDS Integers

CONSTANTS Keys, Bodies, NoRow

None == 0

Rows == [body : Bodies, cid : Bodies \cup {None}, rev : Nat, indexed : BOOLEAN]

Writes == [body : Bodies, cid : Bodies \cup {None}, rev : Nat]

ASSUME NoRowIsNoRow == NoRow \notin Rows

Stores ==
    [rows : [Keys -> Rows \cup {NoRow}], gone : [Keys -> Nat], account : Nat]

EmptyStore ==
    [rows |-> [k \in Keys |-> NoRow], gone |-> [k \in Keys |-> None], account |-> None]

Newer(a, b) == IF a >= b THEN a ELSE b

IsIndexed(s, k) == s.rows[k] # NoRow /\ s.rows[k].indexed

\* A form that lets a write at the tombstone's own rev through.
SupersededByLater(tombstone, rev) ==
    tombstone # None /\ (rev = None \/ tombstone > rev)

\* superseded: any tombstone supersedes a write that has no rev.
Superseded(tombstone, rev) ==
    tombstone # None /\ (rev = None \/ tombstone >= rev)

\* A form that asks the record's tombstone alone.
BlockedByRecord(s, k, rev) == Superseded(s.gone[k], rev)

\* blocked_writes
Blocked(s, k, rev) == Superseded(s.gone[k], rev) \/ Superseded(s.account, rev)

\* A form of the upsert without its rev guard.
UpsertUnordered(row, w) ==
    [body |-> w.body, cid |-> w.cid, indexed |-> TRUE,
     rev |-> IF w.rev = None /\ row # NoRow THEN row.rev ELSE w.rev]

Unchanged(row, w) == row.indexed /\ row.body = w.body /\ row.cid = w.cid

\* The Network upsert of one row: an unchanged row is left as it is, a newer rev
\* is never replaced, and a missing rev on either side blocks nothing.
Upsert(row, w) ==
    IF /\ row # NoRow
       /\ Unchanged(row, w) \/ (row.rev # None /\ w.rev # None /\ w.rev < row.rev)
    THEN row
    ELSE [body |-> w.body, cid |-> w.cid, indexed |-> TRUE,
          rev |-> IF w.rev = None /\ row # NoRow THEN row.rev ELSE w.rev]

\* upsert_batch: `writes` maps each key of the batch to its last copy.
WriteNetwork(s, writes) ==
    [s EXCEPT !.rows = [k \in Keys |->
        IF k \in DOMAIN writes /\ ~Blocked(s, k, writes[k].rev)
        THEN Upsert(s.rows[k], writes[k]) ELSE s.rows[k]]]

\* write_local, Echoed: clears indexed_at, keeps the rev, asks no tombstone.
WriteEchoed(s, k, body) ==
    [s EXCEPT !.rows[k] =
        [body |-> body, cid |-> body, indexed |-> FALSE,
         rev |-> IF s.rows[k] = NoRow THEN None ELSE s.rows[k].rev]]

\* write_local, IndexOnly: an update replaces the body alone.
WriteIndexOnly(s, k, body) ==
    [s EXCEPT !.rows[k] =
        IF s.rows[k] = NoRow
        THEN [body |-> body, cid |-> body, indexed |-> FALSE, rev |-> None]
        ELSE [s.rows[k] EXCEPT !.body = body]]

\* delete (with one key), and the DELETE of the other removals
WithoutRows(s, keys) ==
    [s EXCEPT !.rows = [k \in Keys |-> IF k \in keys THEN NoRow ELSE s.rows[k]]]

\* write_record_tombstone keeps the newest rev.
Tombstoned(s, k, rev) == [s EXCEPT !.gone[k] = Newer(@, rev)]

\* create_may_follow
CreateMayFollow(s, running) == running \/ \E k \in Keys : IsIndexed(s, k)

\* A form that leaves a row stored at the delete's own rev.
DeletableIfOlder(row, rev) == row # NoRow /\ (rev = None \/ row.rev < rev)

\* What delete_network may delete: any row for a delete that has no rev.
Deletable(row, rev) == row # NoRow /\ (rev = None \/ row.rev <= rev)

\* delete_network, after it `found` a row (or none) and its DELETE `deleted` it.
DeleteFound(s, k, rev, running, found, deleted) ==
    LET left == IF deleted THEN WithoutRows(s, {k}) ELSE s
        survived == ~deleted /\ found # NoRow
    IN  IF rev = None
        THEN IF found = NoRow THEN left ELSE Tombstoned(left, k, found.rev)
        ELSE IF deleted \/ (~survived /\ CreateMayFollow(s, running))
        THEN Tombstoned(left, k, rev) ELSE left

\* delete_network with nothing between its read and its DELETE
DeleteNetwork(s, k, rev, running) ==
    DeleteFound(s, k, rev, running, s.rows[k], Deletable(s.rows[k], rev))

\* write_did_tombstone, and lift_did_tombstone (before = None: whatever its rev)
WriteDidTombstone(s, rev) == [s EXCEPT !.account = Newer(@, rev)]

LiftDidTombstone(s, before) ==
    IF before = None \/ s.account < before THEN [s EXCEPT !.account = None] ELSE s

\* held_network_ids: with `before`, only rows that are older or have no rev.
Held(s, before) ==
    {k \in Keys : IsIndexed(s, k) /\ (before = None \/ s.rows[k].rev < before)}

\* sweep: tombstones past their retention, whichever those are
Swept(s, keys, account) ==
    [s EXCEPT !.gone = [k \in Keys |-> IF k \in keys THEN None ELSE s.gone[k]],
              !.account = IF account THEN None ELSE @]
=============================================================================
