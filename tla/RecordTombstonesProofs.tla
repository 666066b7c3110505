----------------------- MODULE RecordTombstonesProofs -----------------------
(***************************************************************************)
(* Proofs about RecordTombstones, for every set of keys, bodies, revs and    *)
(* purgers, every batch size and both databases.                            *)
(***************************************************************************)
EXTENDS RecordTombstones, FiniteSetTheorems, TLAPS

(***************************************************************************)
(* What the operators of RecordStore return, read component by component.   *)
(***************************************************************************)

LEMMA NewerIsUpperBound ==
    ASSUME NEW a \in Nat, NEW b \in Nat
    PROVE  /\ Newer(a, b) \in Nat
           /\ Newer(a, b) \in {a, b}
           /\ Newer(a, b) >= a
           /\ Newer(a, b) >= b
BY DEF Newer

(* The upsert leaves the row, or stores the write at a rev no lower.          *)
LEMMA UpsertKeepsOrder ==
    ASSUME NEW row \in Rows \cup {NoRow}, NEW w \in Writes
    PROVE  /\ Upsert(row, w) \in Rows
           /\ row # NoRow => Upsert(row, w).rev >= row.rev
           /\ \/ Upsert(row, w) = row
              \/ /\ Upsert(row, w).indexed
                 /\ w.rev # None => Upsert(row, w).rev = w.rev
<1>1. CASE row = NoRow
  BY Zenon, <1>1, NoRowIsNoRow DEF Upsert, Rows, Writes, None
<1>2. CASE row # NoRow
  BY <1>2, NoRowIsNoRow DEF Upsert, Rows, Writes, None, Unchanged
<1> QED BY Zenon, <1>1, <1>2

LEMMA WriteNetworkView ==
    ASSUME NEW s \in Stores, NEW keys \in SUBSET Keys, NEW writes \in [keys -> Writes]
    PROVE  LET t == WriteNetwork(s, writes)
           IN  /\ t \in Stores
               /\ t.gone = s.gone
               /\ t.account = s.account
               /\ \A k \in Keys :
                    \/ t.rows[k] = s.rows[k]
                    \/ /\ k \in keys
                       /\ ~Blocked(s, k, writes[k].rev)
                       /\ t.rows[k] = Upsert(s.rows[k], writes[k])
<1> DEFINE new == [k \in Keys |->
        IF k \in DOMAIN writes /\ ~Blocked(s, k, writes[k].rev)
        THEN Upsert(s.rows[k], writes[k]) ELSE s.rows[k]]
<1>1. s.rows \in [Keys -> Rows \cup {NoRow}]
  BY Zenon DEF Stores
<1>2. \A k \in Keys : new[k] \in Rows \cup {NoRow}
  <2> TAKE k \in Keys
  <2>1. CASE k \in keys
    BY Zenon, <1>1, <2>1, UpsertKeepsOrder
  <2>2. CASE k \notin keys
    BY Zenon, <1>1, <2>2
  <2> QED BY Zenon, <2>1, <2>2
<1>3. new \in [Keys -> Rows \cup {NoRow}]
  BY Zenon, <1>2
<1>4. WriteNetwork(s, writes) = [s EXCEPT !.rows = new]
  BY Zenon DEF WriteNetwork
<1> HIDE DEF new
<1>5. /\ WriteNetwork(s, writes) \in Stores
      /\ WriteNetwork(s, writes).gone = s.gone
      /\ WriteNetwork(s, writes).account = s.account
      /\ WriteNetwork(s, writes).rows = new
  BY Zenon, <1>3, <1>4 DEF Stores
<1> QED BY Zenon, <1>5 DEF new

LEMMA WithoutRowsView ==
    ASSUME NEW s \in Stores, NEW keys \in SUBSET Keys
    PROVE  LET t == WithoutRows(s, keys)
           IN  /\ t \in Stores
               /\ t.gone = s.gone
               /\ t.account = s.account
               /\ \A k \in Keys : t.rows[k] = IF k \in keys THEN NoRow ELSE s.rows[k]
BY Zenon DEF WithoutRows, Stores

LEMMA TombstonedView ==
    ASSUME NEW s \in Stores, NEW k \in Keys, NEW rev \in Nat
    PROVE  LET t == Tombstoned(s, k, rev)
           IN  /\ t \in Stores
               /\ t.rows = s.rows
               /\ t.account = s.account
               /\ \A j \in Keys : t.gone[j] = IF j = k THEN Newer(s.gone[k], rev) ELSE s.gone[j]
BY Zenon, NewerIsUpperBound DEF Tombstoned, Stores

(* A local write leaves the tombstones and the other rows; its row keeps its  *)
(* rev, is not newly indexed, and a new row has no rev.                      *)
LEMMA WriteLocalView ==
    ASSUME NEW s \in Stores, NEW k \in Keys, NEW body \in Bodies,
           NEW t \in {WriteEchoed(s, k, body), WriteIndexOnly(s, k, body)}
    PROVE  /\ t \in Stores
           /\ t.gone = s.gone
           /\ t.account = s.account
           /\ \A j \in Keys : j # k => t.rows[j] = s.rows[j]
           /\ t.rows[k] # NoRow
           /\ t.rows[k].rev = IF s.rows[k] = NoRow THEN None ELSE s.rows[k].rev
           /\ t.rows[k].indexed =>
                s.rows[k] # NoRow /\ s.rows[k].indexed /\ t.rows[k].cid = s.rows[k].cid
<1>1. s.rows[k] \in Rows \cup {NoRow} /\ s.rows \in [Keys -> Rows \cup {NoRow}]
  BY Zenon DEF Stores
<1>2. CASE t = WriteEchoed(s, k, body)
  <2> DEFINE row == [body |-> body, cid |-> body, indexed |-> FALSE,
                     rev |-> IF s.rows[k] = NoRow THEN None ELSE s.rows[k].rev]
  <2>1. row \in Rows /\ row # NoRow
    <3>1. CASE s.rows[k] = NoRow
      <4>1. row \in Rows
        BY Zenon, <3>1 DEF Rows, None
      <4> QED BY Zenon, <4>1, NoRowIsNoRow
    <3>2. CASE s.rows[k] \in Rows
      <4>1. s.rows[k] # NoRow
        BY Zenon, <3>2, NoRowIsNoRow
      <4>2. row \in Rows
        BY Zenon, <3>2, <4>1 DEF Rows
      <4> QED BY Zenon, <4>2, NoRowIsNoRow
    <3> QED BY Zenon, <1>1, <3>1, <3>2
  <2>2. t = [s EXCEPT !.rows[k] = row]
    BY Zenon, <1>2 DEF WriteEchoed
  <2> QED BY Zenon, <1>1, <2>1, <2>2 DEF Stores
<1>3. CASE t = WriteIndexOnly(s, k, body)
  <2> DEFINE row == IF s.rows[k] = NoRow
                    THEN [body |-> body, cid |-> body, indexed |-> FALSE, rev |-> None]
                    ELSE [s.rows[k] EXCEPT !.body = body]
  <2>1. row \in Rows /\ row # NoRow
    <3>1. CASE s.rows[k] = NoRow
      <4>1. row \in Rows
        BY Zenon, <3>1 DEF Rows, None
      <4> QED BY Zenon, <4>1, NoRowIsNoRow
    <3>2. CASE s.rows[k] \in Rows
      <4>1. s.rows[k] # NoRow
        BY Zenon, <3>2, NoRowIsNoRow
      <4>2. row \in Rows
        BY Zenon, <3>2, <4>1 DEF Rows
      <4> QED BY Zenon, <4>2, NoRowIsNoRow
    <3> QED BY Zenon, <1>1, <3>1, <3>2
  <2>2. t = [s EXCEPT !.rows[k] = row]
    BY Zenon, <1>3 DEF WriteIndexOnly
  <2>3. t \in Stores /\ t.gone = s.gone /\ t.account = s.account /\ t.rows[k] = row
        /\ \A j \in Keys : j # k => t.rows[j] = s.rows[j]
    BY Zenon, <1>1, <2>1, <2>2 DEF Stores
  <2>4. /\ row.rev = IF s.rows[k] = NoRow THEN None ELSE s.rows[k].rev
        /\ row.indexed => s.rows[k] # NoRow /\ s.rows[k].indexed /\ row.cid = s.rows[k].cid
    BY Zenon, <1>1 DEF Rows
  <2> QED BY <2>1, <2>3, <2>4
<1> QED BY Zenon, <1>2, <1>3

LEMMA DidTombstoneView ==
    ASSUME NEW s \in Stores, NEW rev \in Nat
    PROVE  /\ WriteDidTombstone(s, rev) = [s EXCEPT !.account = Newer(s.account, rev)]
           /\ WriteDidTombstone(s, rev) \in Stores
           /\ \/ LiftDidTombstone(s, rev) = s
              \/ LiftDidTombstone(s, rev) = [s EXCEPT !.account = None]
           /\ LiftDidTombstone(s, rev) \in Stores
BY Zenon, NewerIsUpperBound DEF WriteDidTombstone, LiftDidTombstone, Stores, None

LEMMA SweptView ==
    ASSUME NEW s \in Stores, NEW keys \in SUBSET Keys, NEW account \in BOOLEAN
    PROVE  LET t == Swept(s, keys, account)
           IN  /\ t \in Stores
               /\ t.rows = s.rows
               /\ \A k \in Keys : t.gone[k] \in {s.gone[k], None}
               /\ t.account \in {s.account, None}
BY Zenon DEF Swept, Stores, None

(***************************************************************************)
(* The inductive invariant.                                                 *)
(***************************************************************************)

(* A row only local writers have written, or no row. *)
LocalRow(row) == row = NoRow \/ (~row.indexed /\ row.rev = None)

(* A tombstoned record has no row, a newer one, or one no network writer has  *)
(* touched since.                                                           *)
RowsFollowTombstones ==
    \A k \in Keys :
        store.gone[k] # None /\ ~LocalRow(store.rows[k]) => store.rows[k].rev > store.gone[k]

(* While a delete is open no other network writer runs: a record it did not   *)
(* find, or found and then lost to a local delete, has at most a local row.   *)
FoundOrLocal ==
    tx.kind = "delete" =>
        /\ tx.found = NoRow \/ (tx.rev = None /\ tx.ids = {}) => LocalRow(store.rows[tx.key])
        /\ tx.found = NoRow => tx.ids = {}

(* A purge's batch that selected less than it may selected all there is.      *)
ShortBatchTakesAll ==
    tx.kind = "purge" /\ tx.count < PurgeBatch =>
        Held(store, purge[tx.by].before) \subseteq tx.ids

(* A purge that will vouch for its tombstone has one at least as new standing, *)
(* and takes what is older than it.                                         *)
TombstonesStand ==
    /\ \A p \in Purgers : purge[p].held =>
         /\ purge[p].rev # None
         /\ purge[p].rev <= store.account
         /\ purge[p].before \in {None, purge[p].rev}
    /\ settled <= store.account

IInv ==
    /\ TypeOK
    /\ RowsFollowTombstones
    /\ FoundOrLocal
    /\ ShortBatchTakesAll
    /\ TombstonesStand
    /\ PurgedStaysPurged

LEMMA RevsAreNaturals ==
    /\ Revs \cup {None} \subseteq Nat
    /\ \A r \in Revs : r # None
BY TombstonesAssumption DEF None

LEMMA InitEstablishesIInv ==
    Init => IInv
<1> SUFFICES ASSUME Init PROVE IInv
  BY Zenon
<1>1. /\ store \in Stores
      /\ \A k \in Keys : store.rows[k] = NoRow /\ store.gone[k] = None
      /\ store.account = None
  BY Zenon DEF Init, EmptyStore, Stores, None
<1>2. tx.kind = "none" /\ tx \in Txs
  BY Zenon DEF Init, NoTx, Txs
<1>3. purge \in [Purgers -> PurgeStates] /\ \A p \in Purgers : ~purge[p].held
  BY Zenon DEF Init, NotPurging, PurgeStates
<1>4. settled = None
  BY Zenon DEF Init
<1> QED BY <1>1, <1>2, <1>3, <1>4 DEF IInv, TypeOK, RowsFollowTombstones, FoundOrLocal,
      ShortBatchTakesAll, TombstonesStand, PurgedStaysPurged, None, LocalRow

(* A network write: what it stores is above every tombstone, and no older     *)
(* than the row it replaces.                                                *)
LEMMA WriteRecordsStores ==
    ASSUME IInv, NEW keys \in SUBSET Keys, NEW writes \in [keys -> NetworkWrites],
           WriteRecords(writes)
    PROVE  /\ store' \in Stores
           /\ store'.gone = store.gone
           /\ store'.account = store.account
           /\ \A k \in Keys :
                \/ store'.rows[k] = store.rows[k]
                \/ /\ store'.rows[k] \in Rows
                   /\ store.rows[k] # NoRow => store'.rows[k].rev >= store.rows[k].rev
                   /\ store.gone[k] # None => store'.rows[k].rev > store.gone[k]
                   /\ store.account # None => store'.rows[k].rev > store.account
<1>1. writes \in [keys -> Writes]
  BY Zenon, RevsAreNaturals DEF NetworkWrites, Writes
<1>2. /\ store' \in Stores
      /\ store'.gone = store.gone
      /\ store'.account = store.account
      /\ \A k \in Keys :
           \/ store'.rows[k] = store.rows[k]
           \/ /\ k \in keys
              /\ ~Blocked(store, k, writes[k].rev)
              /\ store'.rows[k] = Upsert(store.rows[k], writes[k])
  <2>1. store \in Stores
    BY Zenon DEF IInv, TypeOK
  <2>2. store' = WriteNetwork(store, writes)
    BY Zenon DEF WriteRecords
  <2> QED BY ZenonT(60), <1>1, <2>1, <2>2, WriteNetworkView
<1>3. ASSUME NEW k \in Keys, store'.rows[k] # store.rows[k]
      PROVE  /\ store'.rows[k] \in Rows
             /\ store.rows[k] # NoRow => store'.rows[k].rev >= store.rows[k].rev
             /\ store.gone[k] # None => store'.rows[k].rev > store.gone[k]
             /\ store.account # None => store'.rows[k].rev > store.account
  <2> DEFINE w == writes[k]
  <2>1. /\ k \in keys
        /\ ~Blocked(store, k, w.rev)
        /\ store'.rows[k] = Upsert(store.rows[k], w)
    BY Zenon, <1>2, <1>3
  <2>2. w \in Writes /\ w.rev \in Nat
    BY Zenon, <1>1, <2>1 DEF Writes
  <2>3. store.rows[k] \in Rows \cup {NoRow} /\ store.gone[k] \in Nat /\ store.account \in Nat
    BY Zenon DEF IInv, TypeOK, Stores
  <2>4. /\ store'.rows[k] \in Rows
        /\ store.rows[k] # NoRow => store'.rows[k].rev >= store.rows[k].rev
        /\ w.rev # None => store'.rows[k].rev = w.rev
    BY SMTT(60), <1>3, <2>1, <2>2, <2>3, UpsertKeepsOrder
  <2>5. /\ store.gone[k] # None => w.rev # None /\ w.rev > store.gone[k]
        /\ store.account # None => w.rev # None /\ w.rev > store.account
    BY <2>1, <2>2, <2>3 DEF Blocked, Superseded
  <2> QED BY Zenon, <2>4, <2>5
<1> QED BY Zenon, <1>2, <1>3

LEMMA WriteRecordsKeepsIInv ==
    ASSUME IInv, NEW keys \in SUBSET Keys, NEW writes \in [keys -> NetworkWrites],
           WriteRecords(writes)
    PROVE  IInv'
<1>2. store' \in Stores /\ store'.gone = store.gone /\ store'.account = store.account
  BY Zenon, WriteRecordsStores
<1>3. /\ tx' = tx /\ purge' = purge /\ settled' = settled /\ tx.kind = "none"
  BY Zenon DEF WriteRecords, Idle, NoTx
<1>4. \A k \in Keys : \/ store'.rows[k] = store.rows[k]
                       \/ /\ store'.rows[k] \in Rows
                          /\ store.gone[k] # None => store'.rows[k].rev > store.gone[k]
                          /\ store.account # None => store'.rows[k].rev > store.account
  BY Zenon, WriteRecordsStores
<1>5. TypeOK'
  BY Zenon, <1>2, <1>3 DEF IInv, TypeOK
<1>6. RowsFollowTombstones'
  BY Zenon, <1>2, <1>4 DEF IInv, RowsFollowTombstones, LocalRow
<1>7. FoundOrLocal' /\ ShortBatchTakesAll' /\ TombstonesStand'
  BY Zenon, <1>2, <1>3 DEF IInv, FoundOrLocal, ShortBatchTakesAll, TombstonesStand
<1>8. PurgedStaysPurged'
  <2> SUFFICES ASSUME settled # None, NEW k \in Keys, IsIndexed(store', k)
               PROVE  store'.rows[k].rev >= settled
    BY Zenon, <1>3 DEF PurgedStaysPurged
  <2>1. settled \in Nat /\ settled <= store.account /\ store.account \in Nat
    BY Zenon, RevsAreNaturals DEF IInv, TypeOK, TombstonesStand, Stores
  <2>2. CASE store'.rows[k] = store.rows[k]
    BY Zenon, <2>2 DEF IInv, PurgedStaysPurged, IsIndexed
  <2>3. CASE store'.rows[k] # store.rows[k]
    BY <1>4, <2>1, <2>3 DEF Rows, None
  <2> QED BY Zenon, <2>2, <2>3
<1> QED BY Zenon, <1>5, <1>6, <1>7, <1>8 DEF IInv

(* The reads of a removal change nothing but the transaction they open.       *)
LEMMA FindKeepsIInv ==
    ASSUME IInv, UNCHANGED <<store, purge, settled>>,
           \/ tx' = NoTx
           \/ \E k \in Keys : tx' = BodyRead(k)
           \/ \E k \in Keys, rev \in Revs \cup {None}, running \in BOOLEAN,
                 ids \in SUBSET Keys :
                /\ tx' = RowFound(k, rev, running, store.rows[k], ids)
                /\ ids = IF Deletable(store.rows[k], rev) THEN {k} ELSE {}
    PROVE  IInv'
<1>1. TypeOK' /\ FoundOrLocal' /\ tx'.kind # "purge"
  <2>1. CASE tx' = NoTx
    BY Zenon, <2>1 DEF IInv, TypeOK, FoundOrLocal, NoTx, Txs
  <2>2. CASE \E k \in Keys : tx' = BodyRead(k)
    <3>1. tx' \in Txs
      BY Zenon, <2>2 DEF Txs
    <3>2. tx'.kind = "body"
      BY <2>2 DEF BodyRead
    <3> QED BY Zenon, <3>1, <3>2 DEF IInv, TypeOK, FoundOrLocal
  <2>3. ASSUME NEW k \in Keys, NEW rev \in Revs \cup {None}, NEW running \in BOOLEAN,
               NEW ids \in SUBSET Keys,
               tx' = RowFound(k, rev, running, store.rows[k], ids),
               ids = IF Deletable(store.rows[k], rev) THEN {k} ELSE {}
        PROVE  TypeOK' /\ FoundOrLocal' /\ tx'.kind # "purge"
    <3>1. store.rows[k] \in Rows \cup {NoRow}
      BY Zenon DEF IInv, TypeOK, Stores
    <3>2. /\ tx' \in Txs /\ tx'.kind = "delete" /\ tx'.key = k /\ tx'.rev = rev
          /\ tx'.ids = ids /\ tx'.found = store.rows[k]
      BY ZenonT(60), <2>3, <3>1 DEF RowFound, Txs
    <3>3. store.rows[k] = NoRow \/ (rev = None /\ ids = {}) => LocalRow(store.rows[k])
      BY Zenon, <2>3 DEF Deletable, LocalRow
    <3>4. store.rows[k] = NoRow => ids = {}
      BY Zenon, <2>3 DEF Deletable
    <3>5. FoundOrLocal'
      BY Zenon, <3>2, <3>3, <3>4 DEF FoundOrLocal
    <3>6. TypeOK'
      BY Zenon, <2>3, <3>2 DEF IInv, TypeOK
    <3> QED BY Zenon, <3>2, <3>5, <3>6
  <2> QED BY Zenon, <2>1, <2>2, <2>3
<1>2. RowsFollowTombstones' /\ TombstonesStand' /\ PurgedStaysPurged'
  BY Zenon DEF IInv, RowsFollowTombstones, TombstonesStand, PurgedStaysPurged
<1>3. ShortBatchTakesAll'
  BY Zenon, <1>1 DEF ShortBatchTakesAll
<1> QED BY Zenon, <1>1, <1>2, <1>3 DEF IInv

LEMMA FindsKeepIInv ==
    ASSUME IInv,
           \/ \E k \in Keys, rev \in Revs \cup {None}, running \in BOOLEAN :
                FindForDelete(k, rev, running)
           \/ \E k \in Keys, body \in Bodies : ReadBody(k, body)
           \/ \E k \in Keys, cid \in Bodies \cup {None}, rev \in Revs \cup {None} :
                FindUnchanged(k, cid, rev)
           \/ FindRead
           \/ Rollback
    PROVE  IInv'
<1>1. CASE \E k \in Keys, rev \in Revs \cup {None}, running \in BOOLEAN :
              FindForDelete(k, rev, running)
  BY Zenon, <1>1, FindKeepsIInv DEF FindForDelete
<1>2. CASE \E k \in Keys, body \in Bodies : ReadBody(k, body)
  BY Zenon, <1>2, FindKeepsIInv DEF ReadBody
<1>3. CASE \E k \in Keys, cid \in Bodies \cup {None}, rev \in Revs \cup {None} :
              FindUnchanged(k, cid, rev)
  <2>1. PICK k \in Keys : /\ IsIndexed(store, k)
                         /\ tx' = RowFound(k, None, FALSE, store.rows[k], {k})
                         /\ UNCHANGED <<store, purge, settled>>
    BY Zenon, <1>3 DEF FindUnchanged
  <2>2. Deletable(store.rows[k], None)
    BY Zenon, <2>1 DEF IsIndexed, Deletable
  <2> QED BY Zenon, <2>1, <2>2, FindKeepsIInv
<1>4. CASE FindRead
  <2>1. tx.key \in Keys
    BY <1>4 DEF IInv, TypeOK, Txs, FindRead, BodyRead, NoTx
  <2>2. CASE store.rows[tx.key] = NoRow
    BY Zenon, <1>4, <2>2, FindKeepsIInv DEF FindRead
  <2>3. CASE store.rows[tx.key] # NoRow
    <3>1. /\ tx' = RowFound(tx.key, None, FALSE, store.rows[tx.key], {tx.key})
          /\ UNCHANGED <<store, purge, settled>>
      BY Zenon, <1>4, <2>3 DEF FindRead
    <3>2. Deletable(store.rows[tx.key], None)
      BY Zenon, <2>3 DEF Deletable
    <3> QED BY Zenon, <2>1, <3>1, <3>2, FindKeepsIInv
  <2> QED BY Zenon, <2>2, <2>3
<1>5. CASE Rollback
  BY Zenon, <1>5, FindKeepsIInv DEF Rollback
<1> QED BY ZenonT(60), <1>1, <1>2, <1>3, <1>4, <1>5

(* The end of a delete: it tombstones the row it deleted, or one that is not  *)
(* there, or has become a local row.                                        *)
LEMMA CommitDeleteView ==
    ASSUME IInv, CommitDelete
    PROVE  /\ store' \in Stores
           /\ store'.account = store.account
           /\ \A j \in Keys :
                store'.rows[j] = IF j = tx.key /\ tx.ids # {} THEN NoRow ELSE store.rows[j]
           /\ \A j \in Keys : \/ store'.gone[j] = store.gone[j]
                              \/ j = tx.key /\ LocalRow(store'.rows[j])
<1> DEFINE k == tx.key
           rev == tx.rev
           left == IF tx.ids # {} THEN WithoutRows(store, {k}) ELSE store
<1>1. /\ k \in Keys /\ rev \in Nat /\ tx.found \in Rows \cup {NoRow} /\ tx.ids \subseteq {k}
      /\ tx.kind = "delete"
  BY RevsAreNaturals DEF CommitDelete, IInv, TypeOK, Txs, NoTx, BodyRead
<1>3. /\ left \in Stores /\ left.gone = store.gone /\ left.account = store.account
      /\ \A j \in Keys : left.rows[j] = IF j = k /\ tx.ids # {} THEN NoRow ELSE store.rows[j]
  BY <1>1, WithoutRowsView DEF IInv, TypeOK
<1>4. \/ store' = left
      \/ \E r \in Nat : /\ store' = Tombstoned(left, k, r)
                        /\ tx.ids # {} \/ LocalRow(store.rows[k])
  <2>1. tx.found = NoRow \/ (rev = None /\ tx.ids = {}) => LocalRow(store.rows[k])
    BY Zenon, <1>1 DEF IInv, FoundOrLocal
  <2>2. tx.found # NoRow => tx.found.rev \in Nat
    BY Zenon, <1>1 DEF Rows
  <2>3. store' = IF rev = None
                 THEN IF tx.found = NoRow THEN left ELSE Tombstoned(left, k, tx.found.rev)
                 ELSE IF tx.ids # {} \/ (~(tx.ids = {} /\ tx.found # NoRow)
                                          /\ CreateMayFollow(store, tx.running))
                 THEN Tombstoned(left, k, rev) ELSE left
    BY Zenon DEF CommitDelete, DeleteFound
  <2> HIDE DEF left
  <2>4. CASE rev = None
    BY Zenon, <2>1, <2>2, <2>3, <2>4
  <2>5. CASE rev # None
    BY Zenon, <1>1, <2>1, <2>3, <2>5
  <2> QED BY Zenon, <2>4, <2>5
<1> HIDE DEF left
<1>5. CASE store' = left
  BY ZenonT(60), <1>3, <1>5
<1>6. CASE \E r \in Nat : /\ store' = Tombstoned(left, k, r)
                          /\ tx.ids # {} \/ LocalRow(store.rows[k])
  <2>1. PICK r \in Nat : /\ store' = Tombstoned(left, k, r)
                         /\ tx.ids # {} \/ LocalRow(store.rows[k])
    BY Zenon, <1>6
  <2>2. /\ store' \in Stores /\ store'.rows = left.rows /\ store'.account = left.account
        /\ \A j \in Keys : store'.gone[j] = IF j = k THEN Newer(left.gone[k], r) ELSE left.gone[j]
    <3>1. left \in Stores /\ k \in Keys /\ store' = Tombstoned(left, k, r)
      BY Zenon, <1>1, <1>3, <2>1
    <3> HIDE DEF k
    <3> QED BY ZenonT(60), <3>1, TombstonedView
  <2> QED BY <1>1, <1>3, <2>1, <2>2 DEF LocalRow
<1> QED BY Zenon, <1>4, <1>5, <1>6

LEMMA CommitDeleteKeepsIInv ==
    ASSUME IInv, CommitDelete
    PROVE  IInv'
<1>2. tx' = NoTx /\ purge' = purge /\ settled' = settled
  BY Zenon DEF CommitDelete
<1>5. /\ store' \in Stores
      /\ store'.account = store.account
      /\ \A j \in Keys :
           store'.rows[j] = IF j = tx.key /\ tx.ids # {} THEN NoRow ELSE store.rows[j]
      /\ \A j \in Keys : \/ store'.gone[j] = store.gone[j]
                         \/ j = tx.key /\ LocalRow(store'.rows[j])
  BY Zenon, CommitDeleteView
<1>6. TypeOK'
  BY Zenon, <1>2, <1>5 DEF IInv, TypeOK, NoTx, Txs
<1>7. RowsFollowTombstones'
  BY Zenon, <1>5 DEF IInv, RowsFollowTombstones, LocalRow
<1>8. FoundOrLocal' /\ ShortBatchTakesAll'
  BY Zenon, <1>2 DEF FoundOrLocal, ShortBatchTakesAll, NoTx
<1>9. TombstonesStand' /\ PurgedStaysPurged'
  BY Zenon, <1>2, <1>5 DEF IInv, TombstonesStand, PurgedStaysPurged, IsIndexed
<1> QED BY Zenon, <1>6, <1>7, <1>8, <1>9 DEF IInv

(* A local write, even inside an open removal: it keeps the row's rev and can  *)
(* only take a row out of the index.                                        *)
LEMMA WriteLocallyKeepsIInv ==
    ASSUME IInv, NEW k \in Keys, NEW body \in Bodies, WriteLocally(k, body)
    PROVE  IInv'
<1>1. /\ store' \in Stores
      /\ store'.gone = store.gone
      /\ store'.account = store.account
      /\ \A j \in Keys : j # k => store'.rows[j] = store.rows[j]
      /\ store'.rows[k] # NoRow
      /\ store'.rows[k].rev = IF store.rows[k] = NoRow THEN None ELSE store.rows[k].rev
      /\ store'.rows[k].indexed => store.rows[k] # NoRow /\ store.rows[k].indexed
  <2>1. store' \in {WriteEchoed(store, k, body), WriteIndexOnly(store, k, body)}
    BY Zenon DEF WriteLocally
  <2>2. store \in Stores
    BY Zenon DEF IInv, TypeOK
  <2> QED BY SMTT(60), <2>1, <2>2, WriteLocalView
<1>2. tx' = tx /\ purge' = purge /\ settled' = settled
  BY Zenon DEF WriteLocally
<1>3. \A j \in Keys : LocalRow(store.rows[j]) => LocalRow(store'.rows[j])
  BY Zenon, <1>1 DEF LocalRow
<1>4. \A j \in Keys : IsIndexed(store', j) =>
        IsIndexed(store, j) /\ store'.rows[j].rev = store.rows[j].rev
  BY Zenon, <1>1 DEF IsIndexed
<1>5. TypeOK'
  BY Zenon, <1>1, <1>2 DEF IInv, TypeOK
<1>6. RowsFollowTombstones'
  <2> SUFFICES ASSUME NEW j \in Keys, store.gone[j] # None, ~LocalRow(store'.rows[j])
               PROVE  store'.rows[j].rev > store.gone[j]
    BY Zenon, <1>1 DEF RowsFollowTombstones
  <2>1. ~LocalRow(store.rows[j]) /\ store.rows[j] # NoRow
    BY Zenon, <1>3 DEF LocalRow
  <2>2. store.rows[j].rev > store.gone[j]
    BY Zenon, <2>1 DEF IInv, RowsFollowTombstones
  <2> QED BY Zenon, <1>1, <2>1, <2>2
<1>7. FoundOrLocal'
  <2>1. tx.kind = "delete" => tx.key \in Keys
    BY DEF IInv, TypeOK, Txs, NoTx, BodyRead
  <2> QED BY Zenon, <1>2, <1>3, <2>1 DEF IInv, FoundOrLocal
<1>8. ShortBatchTakesAll'
  <2> SUFFICES ASSUME tx.kind = "purge", tx.count < PurgeBatch
               PROVE  Held(store', purge[tx.by].before) \subseteq tx.ids
    BY Zenon, <1>2 DEF ShortBatchTakesAll
  <2>1. Held(store', purge[tx.by].before) \subseteq Held(store, purge[tx.by].before)
    BY ZenonT(60), <1>4 DEF Held
  <2> QED BY Zenon, <2>1 DEF IInv, ShortBatchTakesAll
<1>9. TombstonesStand' /\ PurgedStaysPurged'
  BY Zenon, <1>1, <1>2, <1>4 DEF IInv, TombstonesStand, PurgedStaysPurged
<1> QED BY Zenon, <1>5, <1>6, <1>7, <1>8, <1>9 DEF IInv

(* Rows that go, while the open removal forgets them. *)
LEMMA DeleteLocallyKeepsIInv ==
    ASSUME IInv, NEW k \in Keys, DeleteLocally(k)
    PROVE  IInv'
<1>1. /\ store' \in Stores
      /\ store'.gone = store.gone
      /\ store'.account = store.account
      /\ \A j \in Keys : store'.rows[j] = IF j = k THEN NoRow ELSE store.rows[j]
  BY WithoutRowsView DEF DeleteLocally, IInv, TypeOK
<1>2. tx' = [tx EXCEPT !.ids = tx.ids \ {k}] /\ purge' = purge /\ settled' = settled
  BY ZenonT(60) DEF DeleteLocally
<1>3. /\ tx' \in Txs
      /\ tx'.kind = tx.kind
      /\ tx'.ids = tx.ids \ {k}
      /\ tx.kind = "delete" => /\ tx.key \in Keys /\ tx'.key = tx.key /\ tx'.rev = tx.rev
                               /\ tx'.found = tx.found
      /\ tx.kind = "purge" => tx'.by = tx.by /\ tx'.count = tx.count
  <2>1. CASE tx = NoTx
    BY Zenon, <1>2, <2>1 DEF NoTx, Txs
  <2>2. CASE \E j \in Keys : tx = BodyRead(j)
    <3>1. PICK j \in Keys : tx = BodyRead(j)
      BY Zenon, <2>2
    <3>2. tx' = BodyRead(j)
      BY Zenon, <1>2, <3>1 DEF BodyRead
    <3> QED BY Zenon, <3>1, <3>2 DEF BodyRead, Txs
  <2>3. CASE tx \in [kind : {"delete"}, key : Keys, rev : Revs \cup {None}, running : BOOLEAN,
                     found : Rows \cup {NoRow}, ids : SUBSET Keys]
    BY Zenon, <1>2, <2>3 DEF Txs
  <2>4. CASE tx \in [kind : {"purge"}, by : Purgers, count : Nat, ids : SUBSET Keys]
    BY Zenon, <1>2, <2>4 DEF Txs
  <2> QED BY Zenon, <2>1, <2>2, <2>3, <2>4 DEF IInv, TypeOK, Txs
<1>4. TypeOK'
  BY Zenon, <1>1, <1>2, <1>3 DEF IInv, TypeOK
<1>5. RowsFollowTombstones'
  BY Zenon, <1>1 DEF IInv, RowsFollowTombstones, LocalRow
<1>6. FoundOrLocal'
  <2> SUFFICES ASSUME tx.kind = "delete"
               PROVE  /\ tx.found = NoRow \/ (tx.rev = None /\ tx'.ids = {})
                           => LocalRow(store'.rows[tx.key])
                      /\ tx.found = NoRow => tx'.ids = {}
    BY Zenon, <1>3 DEF FoundOrLocal
  <2>1. tx.ids \subseteq {tx.key}
    BY Zenon DEF IInv, TypeOK
  <2>2. CASE k = tx.key
    BY Zenon, <1>1, <1>3, <2>1, <2>2 DEF LocalRow
  <2>3. CASE k # tx.key
    BY <1>1, <1>3, <2>1, <2>3 DEF IInv, FoundOrLocal
  <2> QED BY Zenon, <2>2, <2>3
<1>7. ShortBatchTakesAll'
  <2> SUFFICES ASSUME tx.kind = "purge", tx.count < PurgeBatch
               PROVE  Held(store', purge[tx.by].before) \subseteq tx.ids \ {k}
    BY Zenon, <1>2, <1>3 DEF ShortBatchTakesAll
  <2>1. Held(store', purge[tx.by].before) \subseteq Held(store, purge[tx.by].before) \ {k}
    BY Zenon, <1>1 DEF Held, IsIndexed
  <2> QED BY Zenon, <2>1 DEF IInv, ShortBatchTakesAll
<1>8. TombstonesStand' /\ PurgedStaysPurged'
  BY Zenon, <1>1, <1>2 DEF IInv, TombstonesStand, PurgedStaysPurged, IsIndexed
<1> QED BY Zenon, <1>4, <1>5, <1>6, <1>7, <1>8 DEF IInv

(* The purge's tombstone, or a sync's purge, begins. *)
LEMMA PurgeStartKeepsIInv ==
    ASSUME IInv, NEW p \in Purgers,
           \/ \E rev \in Revs, replayed \in BOOLEAN : WriteTombstone(p, rev, replayed)
           \/ \E before \in Revs \cup {None} : Resync(p, before)
    PROVE  IInv'
<1>1. ASSUME NEW rev \in Revs, NEW replayed \in BOOLEAN, WriteTombstone(p, rev, replayed)
      PROVE  IInv'
  <2>1. rev \in Nat /\ rev # None /\ store \in Stores /\ store.account \in Nat
    BY Zenon, RevsAreNaturals DEF IInv, TypeOK, Stores
  <2>2. /\ store' \in Stores
        /\ store'.rows = store.rows
        /\ store'.gone = store.gone
        /\ store'.account \in Nat /\ store'.account >= rev /\ store'.account >= store.account
    <3>1. store' = [store EXCEPT !.account = Newer(store.account, rev)] /\ store' \in Stores
      BY Zenon, <1>1, <2>1, DidTombstoneView DEF WriteTombstone
    <3> QED BY Zenon, <2>1, <3>1, NewerIsUpperBound DEF Stores
  <2>3. /\ tx' = tx /\ settled' = settled /\ tx.kind = "none"
        /\ purge' = [purge EXCEPT ![p] =
             [step |-> "look", rev |-> rev, before |-> IF replayed THEN rev ELSE None,
              held |-> TRUE]]
    BY Zenon, <1>1 DEF WriteTombstone, Idle, NoTx
  <2>4. TypeOK'
    BY Zenon, <2>2, <2>3 DEF IInv, TypeOK, PurgeStates
  <2>5. TombstonesStand'
    <3>1. settled \in Nat /\ \A q \in Purgers : purge[q].rev \in Nat
      BY Zenon, RevsAreNaturals DEF IInv, TypeOK, PurgeStates
    <3> QED BY <2>1, <2>2, <2>3, <3>1 DEF IInv, TypeOK, TombstonesStand
  <2> QED BY ZenonT(60), <2>2, <2>3, <2>4, <2>5 DEF IInv, RowsFollowTombstones, FoundOrLocal,
        ShortBatchTakesAll, PurgedStaysPurged, IsIndexed
<1>2. ASSUME NEW before \in Revs \cup {None}, Resync(p, before)
      PROVE  IInv'
  <2>1. /\ store' = store /\ tx' = tx /\ settled' = settled /\ purge[p].step = "idle"
        /\ purge' = [purge EXCEPT ![p] =
             [step |-> "look", rev |-> None, before |-> before, held |-> FALSE]]
    BY Zenon, <1>2 DEF Resync
  <2>2. tx.kind = "purge" => tx.by # p /\ tx.by \in Purgers
    BY <2>1 DEF IInv, TypeOK, Txs, NoTx, BodyRead
  <2>3. TypeOK'
    BY Zenon, <2>1, <2>2 DEF IInv, TypeOK, PurgeStates
  <2>4. TombstonesStand' /\ ShortBatchTakesAll'
    BY Zenon, <2>1, <2>2 DEF IInv, TypeOK, TombstonesStand, ShortBatchTakesAll
  <2> QED BY Zenon, <2>1, <2>3, <2>4 DEF IInv, RowsFollowTombstones, FoundOrLocal,
        PurgedStaysPurged, IsIndexed
<1> QED BY Zenon, <1>1, <1>2

(* A purge that finds nothing held vouches for its tombstone: whatever is      *)
(* indexed then is at least as new.                                         *)
LEMMA FinishVouches ==
    ASSUME IInv, NEW p \in Purgers, Finish(p), NEW s \in Stores,
           s.account = store.account,
           Held(s, purge[p].before) = {},
           \A k \in Keys : s.rows[k] \in {store.rows[k], NoRow}
    PROVE  /\ settled' \in Revs \cup {None}
           /\ settled' <= s.account
           /\ settled' # None => \A k \in Keys : IsIndexed(s, k) => s.rows[k].rev >= settled'
           /\ purge' = [purge EXCEPT ![p] = NotPurging]
<1>1. /\ settled \in Revs \cup {None} /\ purge[p] \in PurgeStates
      /\ settled \in Nat /\ purge[p].rev \in Nat /\ purge[p].before \in Nat
      /\ settled <= store.account
  BY ZenonT(60), RevsAreNaturals DEF IInv, TypeOK, PurgeStates, TombstonesStand
<1>2. \A k \in Keys : IsIndexed(s, k) =>
        /\ s.rows[k].rev \in Nat
        /\ settled # None => s.rows[k].rev >= settled
        /\ purge[p].before # None /\ s.rows[k].rev >= purge[p].before
  <2> TAKE k \in Keys
  <2> HAVE IsIndexed(s, k)
  <2>1. s.rows[k] \in Rows /\ s.rows[k].rev \in Nat
    <3>1. s.rows[k] \in Rows
      BY Zenon DEF IsIndexed, Stores
    <3> QED BY Zenon, <3>1 DEF Rows
  <2>2. IsIndexed(store, k) /\ s.rows[k] = store.rows[k]
    BY Zenon DEF IsIndexed
  <2>3. purge[p].before # None /\ ~(s.rows[k].rev < purge[p].before)
    BY Zenon DEF Held
  <2> QED BY <1>1, <2>1, <2>2, <2>3 DEF IInv, PurgedStaysPurged
<1>3. CASE ~purge[p].held
  BY Zenon, <1>1, <1>2, <1>3 DEF Finish
<1>4. CASE purge[p].held
  <2>1. purge[p].rev <= store.account /\ purge[p].before \in {None, purge[p].rev}
    BY Zenon, <1>4 DEF IInv, TombstonesStand
  <2>2. settled' = Newer(settled, purge[p].rev)
    BY Zenon, <1>4 DEF Finish
  <2>3. settled' \in {settled, purge[p].rev}
    BY Zenon, <1>1, <2>2, NewerIsUpperBound
  <2>4. settled' \in Revs \cup {None}
    BY Zenon, <1>1, <2>3 DEF PurgeStates
  <2>5. settled' <= s.account
    BY ZenonT(60), <1>1, <2>1, <2>3
  <2>6. \A k \in Keys : IsIndexed(s, k) => s.rows[k].rev >= settled'
    BY <1>1, <1>2, <2>1, <2>3 DEF None
  <2> QED BY Zenon, <2>4, <2>5, <2>6 DEF Finish
<1> QED BY Zenon, <1>3, <1>4

(* purge[p] returns to idle while the open transaction is not p's batch.       *)
LEMMA LookKeepsIInv ==
    ASSUME IInv, NEW p \in Purgers, LookForHeld(p)
    PROVE  IInv'
<1>1. store' = store /\ tx' = tx /\ purge[p].step = "look"
  BY Zenon DEF LookForHeld
<1>2. tx.kind = "purge" => tx.by # p /\ tx.by \in Purgers
  BY <1>1 DEF IInv, TypeOK, Txs, NoTx, BodyRead
<1>3. CASE Held(store, purge[p].before) = {}
  <2>1. /\ settled' \in Revs \cup {None}
        /\ settled' <= store.account
        /\ settled' # None => \A k \in Keys : IsIndexed(store, k) => store.rows[k].rev >= settled'
        /\ purge' = [purge EXCEPT ![p] = NotPurging]
    <3>1. Finish(p) /\ store \in Stores
      BY Zenon, <1>3 DEF LookForHeld, IInv, TypeOK
    <3> QED BY Zenon, <1>3, <3>1, FinishVouches
  <2>2. TypeOK'
    BY Zenon, <1>1, <1>2, <2>1 DEF IInv, TypeOK, PurgeStates, NotPurging
  <2>3. ShortBatchTakesAll' /\ TombstonesStand'
    BY Zenon, <1>1, <1>2, <2>1 DEF IInv, TypeOK, ShortBatchTakesAll, TombstonesStand, NotPurging
  <2> QED BY ZenonT(60), <1>1, <2>1, <2>2, <2>3 DEF IInv, RowsFollowTombstones, FoundOrLocal,
        PurgedStaysPurged
<1>4. CASE Held(store, purge[p].before) # {}
  <2>1. purge' = [purge EXCEPT ![p].step = "batch"] /\ settled' = settled
    BY Zenon, <1>4 DEF LookForHeld
  <2>2. TypeOK'
    BY <1>1, <2>1 DEF IInv, TypeOK, PurgeStates
  <2>3. \A q \in Purgers : /\ purge'[q].held = purge[q].held
                            /\ purge'[q].rev = purge[q].rev
                            /\ purge'[q].before = purge[q].before
    BY Zenon, <2>1 DEF IInv, TypeOK, PurgeStates
  <2>4. ShortBatchTakesAll' /\ TombstonesStand'
    BY ZenonT(60), <1>1, <1>2, <2>1, <2>3 DEF IInv, ShortBatchTakesAll, TombstonesStand
  <2> QED BY Zenon, <1>1, <2>1, <2>2, <2>4 DEF IInv, RowsFollowTombstones, FoundOrLocal,
        PurgedStaysPurged, IsIndexed
<1> QED BY Zenon, <1>3, <1>4

LEMMA SelectKeepsIInv ==
    ASSUME IInv, NEW p \in Purgers, SelectBatch(p)
    PROVE  IInv'
<1> DEFINE held == Held(store, purge[p].before)
<1>1. PICK ids \in Batches(held) : tx' = BatchSelected(p, ids)
  BY Zenon DEF SelectBatch
<1>2. store' = store /\ purge' = purge /\ settled' = settled /\ purge[p].step = "batch"
  BY Zenon DEF SelectBatch
<1>3. held \subseteq Keys
  BY Zenon DEF Held
<1>4. ids \subseteq held /\ (Cardinality(ids) < PurgeBatch => ids = held)
  BY <1>1, TombstonesAssumption DEF Batches
<1>5. Cardinality(ids) \in Nat
  BY Zenon, <1>3, <1>4, FS_Subset, FS_CardinalityType, TombstonesAssumption
<1>6. /\ tx' \in Txs /\ tx'.kind = "purge" /\ tx'.by = p
      /\ tx'.count = Cardinality(ids) /\ tx'.ids = ids
  BY Zenon, <1>1, <1>3, <1>4, <1>5 DEF BatchSelected, Txs
<1>7. TypeOK'
  BY Zenon, <1>2, <1>6 DEF IInv, TypeOK
<1>8. ShortBatchTakesAll'
  BY Zenon, <1>2, <1>4, <1>6 DEF ShortBatchTakesAll
<1> QED BY Zenon, <1>2, <1>6, <1>7, <1>8 DEF IInv, RowsFollowTombstones, FoundOrLocal,
      TombstonesStand, PurgedStaysPurged, IsIndexed

(* A short batch leaves nothing held, so its purge may vouch for its tombstone. *)
LEMMA CommitBatchKeepsIInv ==
    ASSUME IInv, CommitBatch
    PROVE  IInv'
<1>1. tx.by \in Purgers /\ tx.count \in Nat /\ tx.ids \in SUBSET Keys
  BY DEF IInv, TypeOK, CommitBatch, Txs, NoTx, BodyRead
<1>2. /\ store' \in Stores
      /\ store'.gone = store.gone
      /\ store'.account = store.account
      /\ \A k \in Keys : store'.rows[k] = IF k \in tx.ids THEN NoRow ELSE store.rows[k]
  BY <1>1, WithoutRowsView DEF CommitBatch, IInv, TypeOK
<1>3. tx'.kind = "none" /\ tx' \in Txs
  BY Zenon DEF CommitBatch, NoTx, Txs
<1>4. RowsFollowTombstones'
  BY Zenon, <1>2 DEF IInv, RowsFollowTombstones, LocalRow
<1>5. FoundOrLocal' /\ ShortBatchTakesAll'
  BY Zenon, <1>3 DEF FoundOrLocal, ShortBatchTakesAll
<1>6. CASE tx.count < PurgeBatch
  <2>1. Held(store', purge[tx.by].before) = {}
    <3>1. Held(store, purge[tx.by].before) \subseteq tx.ids
      BY Zenon, <1>6 DEF IInv, ShortBatchTakesAll, CommitBatch
    <3> QED BY <1>2, <3>1 DEF Held, IsIndexed
  <2>2. /\ settled' \in Revs \cup {None}
        /\ settled' <= store'.account
        /\ settled' # None =>
             \A k \in Keys : IsIndexed(store', k) => store'.rows[k].rev >= settled'
        /\ purge' = [purge EXCEPT ![tx.by] = NotPurging]
    <3>1. Finish(tx.by)
      BY Zenon, <1>6 DEF CommitBatch
    <3>2. \A k \in Keys : store'.rows[k] \in {store.rows[k], NoRow}
      BY Zenon, <1>2
    <3> QED BY Zenon, <1>1, <1>2, <2>1, <3>1, <3>2, FinishVouches
  <2>3. TypeOK'
    BY ZenonT(60), <1>2, <1>3, <2>2 DEF IInv, TypeOK, PurgeStates, NotPurging
  <2>4. TombstonesStand'
    BY Zenon, <1>2, <2>2 DEF IInv, TypeOK, TombstonesStand, NotPurging
  <2> QED BY Zenon, <1>4, <1>5, <2>2, <2>3, <2>4 DEF IInv, PurgedStaysPurged
<1>7. CASE ~(tx.count < PurgeBatch)
  <2>1. purge' = purge /\ settled' = settled
    BY Zenon, <1>7 DEF CommitBatch
  <2>2. TypeOK' /\ TombstonesStand' /\ PurgedStaysPurged'
    BY Zenon, <1>2, <1>3, <2>1 DEF IInv, TypeOK, TombstonesStand, PurgedStaysPurged, IsIndexed
  <2> QED BY Zenon, <1>4, <1>5, <2>2 DEF IInv
<1> QED BY Zenon, <1>6, <1>7

LEMMA PurgeFailsKeepsIInv ==
    ASSUME IInv, NEW p \in Purgers, PurgeFails(p)
    PROVE  IInv'
<1>1. store' = store /\ settled' = settled /\ purge' = [purge EXCEPT ![p] = NotPurging]
  BY Zenon DEF PurgeFails
<1>2. /\ tx' \in Txs
      /\ \/ tx'.kind = "none"
         \/ tx' = tx /\ (tx.kind = "purge" => tx.by # p /\ tx.by \in Purgers)
  BY DEF PurgeFails, IInv, TypeOK, Txs, NoTx, BodyRead
<1>3. TypeOK'
  BY Zenon, <1>1, <1>2 DEF IInv, TypeOK, PurgeStates, NotPurging
<1>4. FoundOrLocal' /\ ShortBatchTakesAll' /\ TombstonesStand'
  BY Zenon, <1>1, <1>2 DEF IInv, TypeOK, FoundOrLocal, ShortBatchTakesAll, TombstonesStand, NotPurging
<1> QED BY Zenon, <1>1, <1>3, <1>4 DEF IInv, RowsFollowTombstones, PurgedStaysPurged, IsIndexed

(* Tombstones lifted or swept: nobody vouches for one that is gone. *)
LEMMA ReleaseKeepsIInv ==
    ASSUME IInv, ReleasePurges, UNCHANGED tx, store' \in Stores,
           store'.rows = store.rows,
           \A k \in Keys : store'.gone[k] \in {store.gone[k], None},
           store'.account \in {store.account, None}
    PROVE  IInv'
<1>1. /\ purge' \in [Purgers -> PurgeStates]
      /\ settled' \in {settled, None}
      /\ \A p \in Purgers :
           /\ purge'[p].step = purge[p].step
           /\ purge'[p].before = purge[p].before
           /\ purge'[p].rev = purge[p].rev
           /\ purge'[p].held => purge[p].held /\ store'.account = store.account
      /\ settled' = None \/ store'.account = store.account
  BY ZenonT(60) DEF ReleasePurges, IInv, TypeOK, PurgeStates
<1>2. tx.kind = "purge" => tx.by \in Purgers
  BY DEF IInv, TypeOK, Txs, NoTx, BodyRead
<1>3. TypeOK'
  BY Zenon, <1>1, <1>2 DEF IInv, TypeOK, None
<1>4. ShortBatchTakesAll'
  BY Zenon, <1>1, <1>2 DEF IInv, ShortBatchTakesAll, Held, IsIndexed
<1>5. TombstonesStand'
  <2>1. store'.account \in Nat
    BY SMTT(60) DEF Stores
  <2> QED BY <1>1, <2>1 DEF IInv, TombstonesStand, None
<1>6. PurgedStaysPurged' /\ RowsFollowTombstones' /\ FoundOrLocal'
  BY Zenon, <1>1 DEF IInv, PurgedStaysPurged, RowsFollowTombstones, FoundOrLocal, IsIndexed
<1> QED BY Zenon, <1>3, <1>4, <1>5, <1>6 DEF IInv

LEMMA LiftKeepsIInv ==
    ASSUME IInv, NEW before \in Revs \cup {None}, LiftTombstone(before)
    PROVE  IInv' /\ store'.rows = store.rows
<1>1. before \in Nat /\ store \in Stores
  BY Zenon, RevsAreNaturals DEF IInv, TypeOK
<1>2. /\ store' \in Stores
      /\ store' = store \/ store' = [store EXCEPT !.account = None]
  BY Zenon, <1>1, DidTombstoneView DEF LiftTombstone
<1>3. /\ store'.rows = store.rows /\ store'.gone = store.gone
      /\ store'.account \in {store.account, None}
  BY Zenon, <1>1, <1>2 DEF Stores
<1>4. ReleasePurges /\ UNCHANGED tx
  BY Zenon DEF LiftTombstone
<1> QED BY ZenonT(60), <1>2, <1>3, <1>4, ReleaseKeepsIInv

LEMMA SweepKeepsIInv ==
    ASSUME IInv, NEW keys \in SUBSET Keys, NEW account \in BOOLEAN,
           SweepTombstones(keys, account)
    PROVE  IInv' /\ store'.rows = store.rows
<1>1. /\ store' \in Stores
      /\ store'.rows = store.rows
      /\ \A k \in Keys : store'.gone[k] \in {store.gone[k], None}
      /\ store'.account \in {store.account, None}
  BY Zenon, SweptView DEF SweepTombstones, IInv, TypeOK
<1>2. ReleasePurges /\ UNCHANGED tx
  BY Zenon DEF SweepTombstones
<1> QED BY Zenon, <1>1, <1>2, ReleaseKeepsIInv

(* Every step keeps the invariant. *)
LEMMA NextKeepsIInv ==
    IInv /\ [Next]_vars => IInv'
<1> SUFFICES ASSUME IInv, [Next]_vars PROVE IInv'
  BY SMTT(60)
<1>1. CASE UNCHANGED vars
  BY Zenon, <1>1 DEF vars, IInv, TypeOK, RowsFollowTombstones, FoundOrLocal, ShortBatchTakesAll,
     TombstonesStand, PurgedStaysPurged, Held, IsIndexed
<1>2. ASSUME NEW keys \in SUBSET Keys, NEW writes \in [keys -> NetworkWrites],
             WriteRecords(writes)
      PROVE  IInv'
  BY Zenon, <1>2, WriteRecordsKeepsIInv
<1>3. ASSUME \/ \E k \in Keys, rev \in Revs \cup {None}, running \in BOOLEAN :
                  FindForDelete(k, rev, running)
             \/ \E k \in Keys, body \in Bodies : ReadBody(k, body)
             \/ \E k \in Keys, cid \in Bodies \cup {None}, rev \in Revs \cup {None} :
                  FindUnchanged(k, cid, rev)
             \/ FindRead
             \/ Rollback
      PROVE  IInv'
  BY Zenon, <1>3, FindsKeepIInv
<1>4. ASSUME NEW k \in Keys, NEW body \in Bodies, WriteLocally(k, body)
      PROVE  IInv'
  BY Zenon, <1>4, WriteLocallyKeepsIInv
<1>5. ASSUME NEW k \in Keys, DeleteLocally(k)
      PROVE  IInv'
  BY Zenon, <1>5, DeleteLocallyKeepsIInv
<1>6. CASE CommitDelete
  BY Zenon, <1>6, CommitDeleteKeepsIInv
<1>7. CASE CommitBatch
  BY Zenon, <1>7, CommitBatchKeepsIInv
<1>8. ASSUME NEW p \in Purgers,
             \/ \E rev \in Revs, replayed \in BOOLEAN : WriteTombstone(p, rev, replayed)
             \/ \E before \in Revs \cup {None} : Resync(p, before)
      PROVE  IInv'
  BY Zenon, <1>8, PurgeStartKeepsIInv
<1>9. ASSUME NEW p \in Purgers, LookForHeld(p) \/ SelectBatch(p) \/ PurgeFails(p)
      PROVE  IInv'
  BY Zenon, <1>9, LookKeepsIInv, SelectKeepsIInv, PurgeFailsKeepsIInv
<1>10. ASSUME NEW before \in Revs \cup {None}, LiftTombstone(before)
       PROVE  IInv'
  BY Zenon, <1>10, LiftKeepsIInv
<1>11. ASSUME NEW keys \in SUBSET Keys, NEW account \in BOOLEAN,
              SweepTombstones(keys, account)
       PROVE  IInv'
  BY Zenon, <1>11, SweepKeepsIInv
<1> QED BY SMTT(60), <1>1, <1>2, <1>3, <1>4, <1>5, <1>6, <1>7, <1>8, <1>9, <1>10, <1>11 DEF Next

(***************************************************************************)
(* The safety theorems.                                                     *)
(***************************************************************************)

LEMMA InvariantHolds ==
    Spec => []IInv
BY InitEstablishesIInv, NextKeepsIInv, PTL DEF Spec

(* The rows, tombstones and transactions keep their types: record_store and    *)
(* tombstones, for any keys, revs and purgers.                               *)
THEOREM TypeCorrect ==
    Spec => []TypeOK
<1>1. IInv => TypeOK
  BY Zenon DEF IInv
<1> QED BY <1>1, InvariantHolds, PTL

(* No network row is stored under a record tombstone at its rev or a later one: *)
(* a delete's tombstone keeps out every create it supersedes, in any order of   *)
(* delivery, on both databases (blocked_writes, delete_network).             *)
THEOREM TombstoneSafe ==
    Spec => []TombstoneExcludesOlder
<1>1. IInv => TombstoneExcludesOlder
  BY Zenon DEF IInv, RowsFollowTombstones, TombstoneExcludesOlder, IsIndexed, LocalRow
<1> QED BY <1>1, InvariantHolds, PTL

(* A finished account purge stays finished while its tombstone stands: no      *)
(* batch misses a row and no racing writer restores one (purge_did_records,   *)
(* blocked_writes).                                                         *)
THEOREM PurgeSafe ==
    Spec => []PurgedStaysPurged
<1>1. IInv => PurgedStaysPurged
  BY Zenon DEF IInv
<1> QED BY <1>1, InvariantHolds, PTL

(* What one step does to one row. *)
LEMMA StepOnRow ==
    ASSUME IInv, [Next]_vars, NEW k \in Keys
    PROVE  \/ store'.rows[k] = store.rows[k] \/ store'.rows[k] = NoRow
           \/ /\ store'.rows[k].rev = IF store.rows[k] = NoRow THEN None ELSE store.rows[k].rev
              /\ store'.rows[k].indexed =>
                   /\ store.rows[k] # NoRow /\ store.rows[k].indexed
                   /\ store'.rows[k].cid = store.rows[k].cid
           \/ /\ store'.gone = store.gone
              /\ store'.account = store.account
              /\ store'.rows[k] \in Rows
              /\ store.rows[k] # NoRow => store'.rows[k].rev >= store.rows[k].rev
              /\ store.gone[k] # None => store'.rows[k].rev > store.gone[k]
              /\ store.account # None => store'.rows[k].rev > store.account
<1>0. store \in Stores
  BY Zenon DEF IInv, TypeOK
<1>1. CASE store' = store
  BY SMTT(60), <1>1
<1>2. CASE \E keys \in SUBSET Keys : \E writes \in [keys -> NetworkWrites] : WriteRecords(writes)
  BY Zenon, <1>2, WriteRecordsStores
<1>3. ASSUME NEW j \in Keys, NEW body \in Bodies, WriteLocally(j, body)
      PROVE  \/ store'.rows[k] = store.rows[k]
             \/ /\ store'.rows[k].rev = IF store.rows[k] = NoRow THEN None ELSE store.rows[k].rev
                /\ store'.rows[k].indexed =>
                     /\ store.rows[k] # NoRow /\ store.rows[k].indexed
                     /\ store'.rows[k].cid = store.rows[k].cid
  <2>1. store' \in {WriteEchoed(store, j, body), WriteIndexOnly(store, j, body)}
    BY Zenon, <1>3 DEF WriteLocally
  <2> QED BY SMTT(60), <1>0, <2>1, WriteLocalView
<1>4. CASE \E j \in Keys : DeleteLocally(j)
  BY <1>0, <1>4, WithoutRowsView DEF DeleteLocally
<1>5. CASE CommitDelete
  BY ZenonT(60), <1>5, CommitDeleteView
<1>6. CASE CommitBatch
  <2>1. tx.ids \in SUBSET Keys
    BY <1>6 DEF IInv, TypeOK, CommitBatch, Txs, NoTx, BodyRead
  <2> QED BY SMTT(60), <1>0, <1>6, <2>1, WithoutRowsView DEF CommitBatch
<1>7. CASE \E p \in Purgers, rev \in Revs, replayed \in BOOLEAN : WriteTombstone(p, rev, replayed)
  BY Zenon, <1>0, <1>7 DEF WriteTombstone, WriteDidTombstone, Stores
<1>8. CASE \E before \in Revs \cup {None} : LiftTombstone(before)
  BY ZenonT(60), <1>8, LiftKeepsIInv
<1>9. CASE \E keys \in SUBSET Keys, account \in BOOLEAN : SweepTombstones(keys, account)
  BY Zenon, <1>9, SweepKeepsIInv
<1> QED BY ZenonT(60), <1>1, <1>2, <1>3, <1>4, <1>5, <1>6, <1>7, <1>8, <1>9 DEF Next, vars, FindForDelete,
      ReadBody, FindUnchanged, FindRead, Rollback, Resync, LookForHeld, SelectBatch, PurgeFails

(* No writer stores a network row, or a new version of one, that a standing     *)
(* tombstone supersedes (upsert_batch under the account's lock).              *)
THEOREM NothingSupersededIsStored ==
    Spec => NoSupersededWrite
<1>1. IInv /\ [Next]_vars => [StoresAboveTombstones]_vars
  <2> SUFFICES ASSUME IInv, [Next]_vars, NEW k \in Keys, IsIndexed(store', k),
                      \/ ~IsIndexed(store, k)
                      \/ store'.rows[k].cid # store.rows[k].cid
                      \/ store'.rows[k].rev # store.rows[k].rev
               PROVE  /\ ~Superseded(store'.gone[k], store'.rows[k].rev)
                      /\ ~Superseded(store'.account, store'.rows[k].rev)
    BY Zenon DEF StoresAboveTombstones
  <2>1. /\ store'.gone = store.gone
        /\ store'.account = store.account
        /\ store'.rows[k] \in Rows
        /\ store.gone[k] # None => store'.rows[k].rev > store.gone[k]
        /\ store.account # None => store'.rows[k].rev > store.account
    BY Zenon, StepOnRow DEF IsIndexed
  <2>2. store.gone[k] \in Nat /\ store.account \in Nat /\ store'.rows[k].rev \in Nat
    BY ZenonT(60), <2>1 DEF IInv, TypeOK, Stores, Rows
  <2> QED BY <2>1, <2>2 DEF Superseded, None
<1> QED BY <1>1, InvariantHolds, PTL DEF Spec, NoSupersededWrite

(* A row's rev never falls while the row stays (the upsert's rev guard, and     *)
(* local writes, which keep it).                                            *)
THEOREM RevsOnlyGrow ==
    Spec => RevNeverFalls
<1>1. IInv /\ [Next]_vars => [RevsGrow]_vars
  <2> SUFFICES ASSUME IInv, [Next]_vars, NEW k \in Keys,
                      store.rows[k] # NoRow, store'.rows[k] # NoRow
               PROVE  store'.rows[k].rev >= store.rows[k].rev
    BY Zenon DEF RevsGrow
  <2>1. store.rows[k] \in Rows /\ store.rows[k].rev \in Nat
    <3>1. store.rows[k] \in Rows
      BY Zenon DEF IInv, TypeOK, Stores
    <3> QED BY Zenon, <3>1 DEF Rows
  <2> QED BY <2>1, StepOnRow
<1> QED BY <1>1, InvariantHolds, PTL DEF Spec, RevNeverFalls

(***************************************************************************)
(* On SQLite the open transaction holds the database's write lock, so what    *)
(* a removal read is still so when it deletes. On Postgres the two properties *)
(* below do not hold: a local writer may come between.                      *)
(***************************************************************************)

(* What a removal's transaction read is what is stored. *)
ReadsAreCurrent ==
    /\ tx.kind = "delete" =>
         /\ tx.found = store.rows[tx.key]
         /\ tx.found # NoRow /\ tx.found.rev <= tx.rev => tx.ids # {}
    /\ tx.kind = "purge" => \A k \in tx.ids : IsIndexed(store, k)

LEMMA SqliteReadsAreCurrent ==
    ASSUME ~Postgres
    PROVE  Spec => []ReadsAreCurrent
<1>1. Init => ReadsAreCurrent
  BY DEF Init, ReadsAreCurrent, NoTx
<1>2. IInv /\ ReadsAreCurrent /\ [Next]_vars => ReadsAreCurrent'
  <2> SUFFICES ASSUME IInv, ReadsAreCurrent, [Next]_vars PROVE ReadsAreCurrent'
    BY Zenon
  <2>1. CASE tx'.kind = "none"
    BY Zenon, <2>1 DEF ReadsAreCurrent
  <2>2. CASE UNCHANGED <<store, tx>>
    BY ZenonT(60), <2>2 DEF ReadsAreCurrent, IsIndexed
  <2>3. CASE \E k \in Keys, rev \in Revs \cup {None}, running \in BOOLEAN :
               FindForDelete(k, rev, running)
    BY <2>3 DEF FindForDelete, RowFound, Deletable, ReadsAreCurrent
  <2>4. CASE \E k \in Keys, body \in Bodies : ReadBody(k, body)
    BY <2>4 DEF ReadBody, BodyRead, ReadsAreCurrent
  <2>5. CASE \E k \in Keys, cid \in Bodies \cup {None}, rev \in Revs \cup {None} :
               FindUnchanged(k, cid, rev)
    BY <2>5 DEF FindUnchanged, RowFound, ReadsAreCurrent
  <2>6. CASE FindRead
    BY ZenonT(60), <2>6 DEF FindRead, RowFound, NoTx, ReadsAreCurrent
  <2>7. CASE \E p \in Purgers : SelectBatch(p)
    <3>0. PICK p \in Purgers : SelectBatch(p)
      BY Zenon, <2>7
    <3>1. PICK ids \in Batches(Held(store, purge[p].before)) :
            tx' = BatchSelected(p, ids) /\ store' = store
      BY Zenon, <3>0 DEF SelectBatch
    <3>2. ids \subseteq Held(store, purge[p].before)
      BY Zenon, <3>1 DEF Batches
    <3>3. \A k \in ids : IsIndexed(store, k)
      BY Zenon, <3>2 DEF Held
    <3> QED BY Zenon, <3>1, <3>3 DEF BatchSelected, ReadsAreCurrent, IsIndexed
  <2>8. ASSUME Idle, tx' = tx \/ tx' = [tx EXCEPT !.ids = {}]
        PROVE  tx'.kind = "none"
    BY SMTT(60), <2>8 DEF Idle, NoTx
  <2>9. \/ tx'.kind = "none" \/ UNCHANGED <<store, tx>>
        \/ \E k \in Keys, rev \in Revs \cup {None}, running \in BOOLEAN :
             FindForDelete(k, rev, running)
        \/ \E k \in Keys, body \in Bodies : ReadBody(k, body)
        \/ \E k \in Keys, cid \in Bodies \cup {None}, rev \in Revs \cup {None} :
             FindUnchanged(k, cid, rev)
        \/ FindRead \/ \E p \in Purgers : SelectBatch(p)
    <3>1. CASE \E k \in Keys, body \in Bodies : WriteLocally(k, body)
      BY Zenon, <3>1, <2>8 DEF WriteLocally, MayWriteLocally
    <3>2. CASE \E k \in Keys : DeleteLocally(k)
      BY <3>2 DEF DeleteLocally, MayWriteLocally, Idle, NoTx
    <3>3. CASE \E keys \in SUBSET Keys, account \in BOOLEAN : SweepTombstones(keys, account)
      BY Zenon, <3>3, <2>8 DEF SweepTombstones, MayWriteLocally
    <3>4. CASE \E keys \in SUBSET Keys : \E writes \in [keys -> NetworkWrites] :
                 WriteRecords(writes)
      BY Zenon, <3>4, <2>8 DEF WriteRecords
    <3>5. CASE \E p \in Purgers, rev \in Revs, replayed \in BOOLEAN :
                 WriteTombstone(p, rev, replayed)
      BY Zenon, <3>5, <2>8 DEF WriteTombstone
    <3>6. CASE \E before \in Revs \cup {None} : LiftTombstone(before)
      BY Zenon, <3>6, <2>8 DEF LiftTombstone
    <3>7. CASE CommitDelete \/ CommitBatch \/ Rollback
      <4>1. tx' = NoTx
        BY Zenon, <3>7 DEF CommitDelete, CommitBatch, Rollback
      <4> QED BY ZenonT(60), <4>1 DEF NoTx
    <3>8. CASE \E p \in Purgers : LookForHeld(p) \/ PurgeFails(p)
                                  \/ \E before \in Revs \cup {None} : Resync(p, before)
      BY <3>8 DEF LookForHeld, PurgeFails, Resync, NoTx
    <3> QED BY SMTT(60), <3>1, <3>2, <3>3, <3>4, <3>5, <3>6, <3>7, <3>8 DEF Next, vars
  <2> QED BY Zenon, <2>1, <2>2, <2>3, <2>4, <2>5, <2>6, <2>7, <2>9
<1> QED BY <1>1, <1>2, InvariantHolds, PTL DEF Spec

(* On SQLite a delete at a rev of a held record leaves a tombstone at that rev   *)
(* or a newer row (delete_network).                                          *)
THEOREM SqliteDeletesAreFinal ==
    ~Postgres => (Spec => DeleteLeavesTombstone)
<1> SUFFICES ASSUME ~Postgres PROVE Spec => DeleteLeavesTombstone
  BY Zenon
<1>1. IInv /\ ReadsAreCurrent => [DeleteIsFinal]_vars
  <2> SUFFICES ASSUME IInv, ReadsAreCurrent, CommitDelete, tx.rev # None, tx.found # NoRow
               PROVE  \/ store'.gone[tx.key] >= tx.rev
                      \/ store'.rows[tx.key] # NoRow /\ store'.rows[tx.key].rev > tx.rev
    BY Zenon DEF DeleteIsFinal
  <2>1. /\ tx.key \in Keys /\ tx.rev \in Nat /\ tx.found \in Rows /\ tx.kind = "delete"
    BY RevsAreNaturals DEF CommitDelete, IInv, TypeOK, Txs, NoTx, BodyRead
  <2>2. tx.found.rev \in Nat /\ store \in Stores
    BY Zenon, <2>1 DEF Rows, IInv, TypeOK
  <2>3. CASE tx.ids # {}
    <3>1. store' = Tombstoned(WithoutRows(store, {tx.key}), tx.key, tx.rev)
      BY Zenon, <2>3 DEF CommitDelete, DeleteFound
    <3>2. WithoutRows(store, {tx.key}) \in Stores
      BY <2>1, <2>2, WithoutRowsView
    <3>3. WithoutRows(store, {tx.key}).gone[tx.key] \in Nat
      BY Zenon, <2>1, <3>2 DEF Stores
    <3>4. store'.gone[tx.key] = Newer(WithoutRows(store, {tx.key}).gone[tx.key], tx.rev)
      BY ZenonT(60), <2>1, <3>1, <3>2, TombstonedView
    <3> QED BY Zenon, <2>1, <3>3, <3>4, NewerIsUpperBound
  <2>4. CASE tx.ids = {}
    <3>1. store' = store
      BY Zenon, <2>4 DEF CommitDelete, DeleteFound
    <3>2. tx.found = store.rows[tx.key] /\ ~(tx.found.rev <= tx.rev)
      BY Zenon, <2>1, <2>4 DEF ReadsAreCurrent
    <3> QED BY <2>1, <2>2, <3>1, <3>2
  <2> QED BY Zenon, <2>3, <2>4
<1> QED BY <1>1, InvariantHolds, SqliteReadsAreCurrent, PTL DEF Spec, DeleteLeavesTombstone
=============================================================================
