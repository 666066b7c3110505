-------------------------- MODULE RecordTombstones --------------------------
(***************************************************************************)
(* The writers of one account's records, in any order and with any rev: the  *)
(* live stream, a replay or a crawl, dead-letter retries, the reconcile job,  *)
(* account and sync purges, local writes and the tombstone sweep.           *)
(*                                                                         *)
(* A network writer's transaction holds the account's lock (lock_dids) from    *)
(* its first read to its commit, so at most one is open: `tx`. A local write   *)
(* or delete (write_local, delete) takes no such lock. On SQLite it still      *)
(* waits, as a transaction from begin_write holds the database's write lock;  *)
(* on Postgres it may commit between two statements of a network writer.     *)
(* A removal finds its row first and then deletes it by id, so it is two       *)
(* steps here; `ids` are the rows found that are still there. An upsert reads   *)
(* only tombstones before its one statement, and is one step.               *)
(***************************************************************************)
EXTENDS RecordStore, FiniteSets

CONSTANTS
    Revs,        \* the revs commits and account events carry
    Purgers,     \* tasks that purge the account: the live worker, a replay job
    PurgeBatch,  \* PURGE_BATCH, the rows a purge deletes per transaction
    Postgres     \* whether the database is Postgres

ASSUME TombstonesAssumption ==
    /\ IsFiniteSet(Keys)
    /\ Revs \subseteq Nat \ {0}
    /\ PurgeBatch \in Nat \ {0}
    /\ Postgres \in BOOLEAN

VARIABLES
    store,    \* the rows and tombstones
    tx,       \* the open removal of a network writer
    purge,    \* what each purger is at
    settled   \* history: the rev of a finished purge whose tombstone still stands

vars == <<store, tx, purge, settled>>

\* A removal read its row's body, found the row, or selected a purge's batch.
BodyRead(k) == [kind |-> "body", key |-> k, ids |-> {}]

RowFound(k, rev, running, row, ids) ==
    [kind |-> "delete", key |-> k, rev |-> rev, running |-> running, found |-> row, ids |-> ids]

BatchSelected(p, ids) ==
    [kind |-> "purge", by |-> p, count |-> Cardinality(ids), ids |-> ids]

NoTx == [kind |-> "none", ids |-> {}]

Idle == tx = NoTx

\* `held`: the tombstone this purge wrote has stood since.
NotPurging == [step |-> "idle", rev |-> None, before |-> None, held |-> FALSE]

\* The network's writes: a retry's has no CID and, like a crawled row's, no rev.
NetworkWrites ==
    {w \in [body : Bodies, cid : Bodies \cup {None}, rev : Revs \cup {None}] :
        w.cid = w.body \/ (w.cid = None /\ w.rev = None)}

Init ==
    /\ store = EmptyStore
    /\ tx = NoTx
    /\ purge = [p \in Purgers |-> NotPurging]
    /\ settled = None

\* write_network: a live event, a replayed batch, a crawled page, a retry.
WriteRecords(writes) ==
    /\ Idle
    /\ store' = WriteNetwork(store, writes)
    /\ UNCHANGED <<tx, purge, settled>>

\* delete_network up to its DELETE. `running` was read before the transaction.
FindForDelete(k, rev, running) ==
    /\ Idle
    /\ tx' = RowFound(k, rev, running, store.rows[k],
                      IF Deletable(store.rows[k], rev) THEN {k} ELSE {})
    /\ UNCHANGED <<store, purge, settled>>

\* delete_network_if_body reads the body, and then finds the row to delete.
ReadBody(k, body) ==
    /\ Idle
    /\ store.rows[k] # NoRow /\ store.rows[k].body = body
    /\ tx' = BodyRead(k)
    /\ UNCHANGED <<store, purge, settled>>

FindRead ==
    /\ tx.kind = "body"
    /\ tx' = IF store.rows[tx.key] = NoRow THEN NoTx
             ELSE RowFound(tx.key, None, FALSE, store.rows[tx.key], {tx.key})
    /\ UNCHANGED <<store, purge, settled>>

\* delete_network_if_unchanged: the row still has the CID and rev read before.
FindUnchanged(k, cid, rev) ==
    /\ Idle
    /\ IsIndexed(store, k)
    /\ store.rows[k].cid = cid
    /\ store.rows[k].rev = rev
    /\ tx' = RowFound(k, None, FALSE, store.rows[k], {k})
    /\ UNCHANGED <<store, purge, settled>>

\* The DELETE of the row found, its tombstone, and the commit.
CommitDelete ==
    /\ tx.kind = "delete"
    /\ store' = DeleteFound(store, tx.key, tx.rev, tx.running, tx.found, tx.ids # {})
    /\ tx' = NoTx
    /\ UNCHANGED <<purge, settled>>

\* write_local, of either kind, and delete: no lock, no tombstone.
MayWriteLocally == Idle \/ Postgres

WriteLocally(k, body) ==
    /\ MayWriteLocally
    /\ \/ store' = WriteEchoed(store, k, body)
       \/ store' = WriteIndexOnly(store, k, body)
    /\ UNCHANGED <<tx, purge, settled>>

DeleteLocally(k) ==
    /\ MayWriteLocally
    /\ store' = WithoutRows(store, {k})
    /\ tx' = [tx EXCEPT !.ids = @ \ {k}]
    /\ UNCHANGED <<purge, settled>>

(***************************************************************************)
(* account_purged and repo_resynced. A deletion, takedown or suspension     *)
(* commits its tombstone and then purges; a sync only purges. `before` is    *)
(* None for a live event; a replayed one acts as of its own rev.            *)
(***************************************************************************)

WriteTombstone(p, rev, replayed) ==
    /\ Idle /\ purge[p].step = "idle"
    /\ store' = WriteDidTombstone(store, rev)
    /\ purge' = [purge EXCEPT ![p] =
         [step |-> "look", rev |-> rev, before |-> IF replayed THEN rev ELSE None,
          held |-> TRUE]]
    /\ UNCHANGED <<tx, settled>>

Resync(p, before) ==
    /\ purge[p].step = "idle"
    /\ purge' = [purge EXCEPT ![p] =
         [step |-> "look", rev |-> None, before |-> before, held |-> FALSE]]
    /\ UNCHANGED <<store, tx, settled>>

\* The purge returns; the account's tombstone keeps what it promised.
Finish(p) ==
    /\ purge' = [purge EXCEPT ![p] = NotPurging]
    /\ settled' = IF purge[p].held THEN Newer(settled, purge[p].rev) ELSE settled

\* purge_local's unlocked look
LookForHeld(p) ==
    /\ purge[p].step = "look"
    /\ IF Held(store, purge[p].before) = {}
       THEN Finish(p)
       ELSE purge' = [purge EXCEPT ![p].step = "batch"] /\ UNCHANGED settled
    /\ UNCHANGED <<store, tx>>

\* held_network_ids with LIMIT PURGE_BATCH
Batches(held) ==
    IF Cardinality(held) <= PurgeBatch THEN {held}
    ELSE {b \in SUBSET held : Cardinality(b) = PurgeBatch}

SelectBatch(p) ==
    /\ Idle /\ purge[p].step = "batch"
    /\ \E ids \in Batches(Held(store, purge[p].before)) :
         tx' = BatchSelected(p, ids)
    /\ UNCHANGED <<store, purge, settled>>

\* The DELETE and the commit. A batch that selected less than it may ends the loop.
CommitBatch ==
    /\ tx.kind = "purge"
    /\ store' = WithoutRows(store, tx.ids)
    /\ tx' = NoTx
    /\ IF tx.count < PurgeBatch THEN Finish(tx.by) ELSE UNCHANGED <<purge, settled>>

\* A database error or a stop: the open transaction rolls back, and the event is
\* applied again from its start, or never.
PurgeFails(p) ==
    /\ purge[p].step # "idle"
    /\ purge' = [purge EXCEPT ![p] = NotPurging]
    /\ IF tx.kind = "purge" /\ tx.by = p THEN tx' = NoTx ELSE UNCHANGED tx
    /\ UNCHANGED <<store, settled>>

Rollback ==
    /\ tx.kind \in {"body", "delete"}
    /\ tx' = NoTx
    /\ UNCHANGED <<store, purge, settled>>

\* When the account has no tombstone any more, nobody owes it an empty account.
ReleasePurges ==
    /\ purge' = IF store'.account = None
                THEN [p \in Purgers |-> [purge[p] EXCEPT !.held = FALSE]] ELSE purge
    /\ settled' = IF store'.account = None THEN None ELSE settled

\* account_active (before = None: live)
LiftTombstone(before) ==
    /\ Idle
    /\ store.account # None
    /\ store' = LiftDidTombstone(store, before)
    /\ ReleasePurges
    /\ UNCHANGED tx

\* The sweep's statements hold no account lock; on SQLite they wait for the writer.
SweepTombstones(keys, account) ==
    /\ MayWriteLocally
    /\ store' = Swept(store, keys, account)
    /\ ReleasePurges
    /\ UNCHANGED tx

Next ==
    \/ \E keys \in SUBSET Keys : \E writes \in [keys -> NetworkWrites] : WriteRecords(writes)
    \/ \E k \in Keys, rev \in Revs \cup {None}, running \in BOOLEAN :
         FindForDelete(k, rev, running)
    \/ \E k \in Keys, body \in Bodies : ReadBody(k, body) \/ WriteLocally(k, body)
    \/ \E k \in Keys, cid \in Bodies \cup {None}, rev \in Revs \cup {None} :
         FindUnchanged(k, cid, rev)
    \/ FindRead \/ CommitDelete \/ Rollback \/ CommitBatch
    \/ \E k \in Keys : DeleteLocally(k)
    \/ \E p \in Purgers, rev \in Revs, replayed \in BOOLEAN : WriteTombstone(p, rev, replayed)
    \/ \E p \in Purgers, before \in Revs \cup {None} : Resync(p, before)
    \/ \E p \in Purgers : LookForHeld(p) \/ SelectBatch(p) \/ PurgeFails(p)
    \/ \E before \in Revs \cup {None} : LiftTombstone(before)
    \/ \E keys \in SUBSET Keys, account \in BOOLEAN : SweepTombstones(keys, account)

Spec == Init /\ [][Next]_vars

-----------------------------------------------------------------------------

PurgeStates ==
    [step : {"idle", "look", "batch"}, rev : Revs \cup {None}, before : Revs \cup {None},
     held : BOOLEAN]

Txs ==
    {NoTx} \cup {BodyRead(k) : k \in Keys}
    \cup [kind : {"delete"}, key : Keys, rev : Revs \cup {None}, running : BOOLEAN,
          found : Rows \cup {NoRow}, ids : SUBSET Keys]
    \cup [kind : {"purge"}, by : Purgers, count : Nat, ids : SUBSET Keys]

\* The rows and tombstones have the columns' types, a delete's transaction holds
\* no row but its own, and a purger with a batch open is in its batch loop.
TypeOK ==
    /\ store \in Stores
    /\ tx \in Txs
    /\ purge \in [Purgers -> PurgeStates]
    /\ settled \in Revs \cup {None}
    /\ tx.kind = "delete" => tx.ids \subseteq {tx.key}
    /\ tx.kind = "purge" => purge[tx.by].step = "batch"

\* A record tombstone and an older network row of the same record are never
\* both stored: a delete removes the row it tombstones, and no write, whatever
\* its rev, brings the row back under the tombstone.
TombstoneExcludesOlder ==
    \A k \in Keys :
        IsIndexed(store, k) => store.rows[k].rev > store.gone[k] \/ store.gone[k] = None

\* Once a purge has returned, and for as long as its tombstone stands, the
\* account holds no network row from before the deletion: none survives the
\* batches, and no writer racing the purge adds one.
PurgedStaysPurged ==
    settled # None => \A k \in Keys : IsIndexed(store, k) => store.rows[k].rev >= settled

\* No step stores a network row, or a new version of one, that a tombstone
\* standing after the step supersedes.
StoresAboveTombstones ==
    \A k \in Keys :
        /\ IsIndexed(store', k)
        /\ \/ ~IsIndexed(store, k)
           \/ store'.rows[k].cid # store.rows[k].cid
           \/ store'.rows[k].rev # store.rows[k].rev
        => /\ ~Superseded(store'.gone[k], store'.rows[k].rev)
           /\ ~Superseded(store'.account, store'.rows[k].rev)

NoSupersededWrite == [][StoresAboveTombstones]_vars

\* While a row stays, its rev never falls, whichever writers update it.
RevsGrow ==
    \A k \in Keys :
        store.rows[k] # NoRow /\ store'.rows[k] # NoRow
            => store'.rows[k].rev >= store.rows[k].rev

RevNeverFalls == [][RevsGrow]_vars

\* A delete at a rev of a record that was held leaves it gone: a tombstone at
\* that rev or a later one, unless a newer row survives (delete_network).
DeleteIsFinal ==
    CommitDelete /\ tx.rev # None /\ tx.found # NoRow =>
        \/ store'.gone[tx.key] >= tx.rev
        \/ store'.rows[tx.key] # NoRow /\ store'.rows[tx.key].rev > tx.rev

DeleteLeavesTombstone == [][DeleteIsFinal]_vars
=============================================================================
