------------------------ MODULE RecordUpgradeProofs ------------------------
(***************************************************************************)
(* For any number of boots, records and contents: the upgrade loses nothing *)
(* and finishes only when it is done, and a copy that nobody disturbed      *)
(* verifies. The last needs an invariant of every boot's place in the copy: *)
(* all that lies behind a cursor, saved or in memory, has been copied.      *)
(***************************************************************************)
EXTENDS RecordUpgrade, TLAPS

Scenario == [serial : BOOLEAN, old : Nat, live : Nat, stop : Nat, fail : Nat]

BootStates == [at : Steps \cup {"off", "done"}, after : 0..MaxUri,
               batch : [Uris -> Contents \cup {0, 1}], attempt : 1..CopyAttempts]

LEMMA InitTyped == Init => TypeOK
<1> SUFFICES ASSUME Init PROVE TypeOK
    BY Zenon
<1>1. Empty \in Tables /\ Empty \in RefTables /\ Empty \in [Uris -> Contents \cup {0, 1}]
    BY Zenon DEF Empty, Tables, RefTables
<1>2. Off \in BootStates
    BY <1>1, RecordUpgradeAssumption DEF Off, BootStates
<1>3. boot \in [Boots -> BootStates]
    BY Zenon, <1>2 DEF Init
<1>4. left \in Scenario
    BY Zenon, RecordUpgradeAssumption DEF Init, Scenario
<1>5. cursor \in [records : 0..MaxUri, refs : 0..MaxUri]
    BY RecordUpgradeAssumption DEF Init
<1>6. legacy \in [present : BOOLEAN, records : Tables, refs : RefTables]
      /\ truth \in [records : Tables, refs : RefTables]
    BY DEF Init
<1> QED
    BY Zenon, <1>1, <1>3, <1>4, <1>5, <1>6 DEF Init, TypeOK, BootStates, Scenario

LEMMA TableTypes ==
    ASSUME TypeOK
    PROVE  /\ Empty \in Tables /\ Empty \in RefTables /\ Off \in BootStates
           /\ \A b \in Boots : boot[b] \in BootStates
           /\ boot \in [Boots -> BootStates]
           /\ Records \in Tables /\ Refs \in RefTables
<1>1. Empty \in Tables /\ Empty \in RefTables /\ Empty \in [Uris -> Contents \cup {0, 1}]
    BY Zenon DEF Empty, Tables, RefTables
<1>2. Off \in BootStates
    BY <1>1, RecordUpgradeAssumption DEF Off, BootStates
<1> QED
    BY Zenon, <1>1, <1>2 DEF TypeOK, BootStates, Records, Refs

LEMMA SpendTyped ==
    ASSUME TypeOK, NEW k \in {"old", "live", "stop", "fail"}, Spend(k)
    PROVE  left' \in Scenario
    BY DEF TypeOK, Spend, Scenario

LEMMA BootTyped ==
    ASSUME TypeOK, NEW b \in Boots, NEW s \in BootStates, boot' = [boot EXCEPT ![b] = s]
    PROVE  boot' \in [Boots -> BootStates]
    BY Zenon, TableTypes

-----------------------------------------------------------------------------
\* Every step keeps the state well formed; the cases where the compact tables
\* are written take the batch's type from the table it was read from, so the
\* invariant also says which table that was.
BatchesTyped ==
    \A b \in Boots :
        /\ At(b, "writeRecords") => boot[b].batch \in Tables
        /\ At(b, "writeRefs") => boot[b].batch \in RefTables

\* Before the swap the legacy tables are what everyone wrote.
TruthIsLegacy == legacy.present => truth = [records |-> legacy.records, refs |-> legacy.refs]

Held == TypeOK /\ BatchesTyped /\ TruthIsLegacy /\ NothingLost /\ ServesUpgraded

LEMMA HeldInitially == Init => Held
<1> SUFFICES ASSUME Init PROVE Held
    BY Zenon
<1>1. TypeOK
    BY Zenon, InitTyped
<1>2. BatchesTyped /\ ServesUpgraded
    BY Zenon DEF Init, BatchesTyped, ServesUpgraded, At, Off
<1>3. TruthIsLegacy /\ NothingLost
    BY DEF Init, TruthIsLegacy, NothingLost
<1> QED
    BY Zenon, <1>1, <1>2, <1>3 DEF Held

\* A step that only moves a boot, and writes no table.
LEMMA HeldMoves ==
    ASSUME Held, NEW b \in Boots, NEW s \in BootStates,
           boot' = [boot EXCEPT ![b] = s],
           UNCHANGED <<legacy, v2, truth>>,
           cursor' \in [records : 0..MaxUri, refs : 0..MaxUri],
           disturbed' \in BOOLEAN, left' \in Scenario,
           s.at = "writeRecords" => s.batch \in Tables,
           s.at = "writeRefs" => s.batch \in RefTables,
           s.at = "done" => ~legacy.present
    PROVE  Held'
<1> USE DEF Held
<1>0. boot \in [Boots -> BootStates] /\ boot' \in [Boots -> BootStates]
    BY Zenon, TableTypes, BootTyped
<1>1. TypeOK'
    BY Zenon, <1>0 DEF TypeOK, BootStates, Scenario
<1>2. BatchesTyped'
    BY Zenon, <1>0 DEF BatchesTyped, At
<1>3. TruthIsLegacy' /\ NothingLost'
    BY Zenon DEF TruthIsLegacy, NothingLost, Sourced
<1>4. ServesUpgraded'
    BY Zenon, <1>0 DEF ServesUpgraded, At
<1> QED
    BY Zenon, <1>1, <1>2, <1>3, <1>4

\* A step that writes the compact tables while the legacy ones are there.
LEMMA HeldCopies ==
    ASSUME Held, legacy.present, NEW b \in Boots, NEW s \in BootStates,
           boot' = [boot EXCEPT ![b] = s],
           UNCHANGED <<legacy, truth>>,
           v2' \in [records : Tables, refs : RefTables],
           cursor' \in [records : 0..MaxUri, refs : 0..MaxUri],
           disturbed' \in BOOLEAN, left' \in Scenario,
           s.at \notin {"writeRecords", "writeRefs", "done"}
    PROVE  Held'
<1> USE DEF Held
<1>0. boot \in [Boots -> BootStates] /\ boot' \in [Boots -> BootStates]
    BY Zenon, TableTypes, BootTyped
<1>1. TypeOK'
    BY Zenon, <1>0 DEF TypeOK, BootStates, Scenario
<1>2. BatchesTyped'
    BY Zenon, <1>0 DEF BatchesTyped, At
<1>3. TruthIsLegacy' /\ NothingLost'
    BY Zenon DEF TruthIsLegacy, NothingLost
<1>4. ServesUpgraded'
    BY Zenon, <1>0 DEF ServesUpgraded, At
<1> QED
    BY Zenon, <1>1, <1>2, <1>3, <1>4

LEMMA HeldBegin == ASSUME Held, NEW b \in Boots, Begin(b) PROVE Held'
<1>1. TypeOK /\ boot[b] \in BootStates /\ Off \in BootStates /\ Empty \in Tables /\ Empty \in RefTables
    BY Zenon, TableTypes DEF Held
<1>2. cursor' \in [records : 0..MaxUri, refs : 0..MaxUri] /\ disturbed' \in BOOLEAN /\ left' \in Scenario
    BY Zenon, <1>1 DEF Begin, TypeOK, Scenario
<1>3. CASE legacy.present
  <2> DEFINE s == [Off EXCEPT !.at = "records"]
  <2>1. s \in BootStates /\ s.at = "records"
      BY Zenon, <1>1 DEF BootStates, Steps
  <2>2. v2' \in [records : Tables, refs : RefTables]
      BY <1>1, <1>3 DEF Begin, TypeOK
  <2>3. boot' = [boot EXCEPT ![b] = s] /\ UNCHANGED <<legacy, truth>>
      BY Zenon, <1>3 DEF Begin
  <2> HIDE DEF s
  <2> QED
      BY Zenon, <1>2, <1>3, <2>1, <2>2, <2>3, HeldCopies
<1>4. CASE ~legacy.present
  <2> DEFINE s == [boot[b] EXCEPT !.at = "done"]
  <2>1. s \in BootStates /\ s.at = "done"
      BY Zenon, <1>1 DEF BootStates
  <2>2. boot' = [boot EXCEPT ![b] = s] /\ UNCHANGED <<legacy, v2, truth>>
      BY Zenon, <1>4 DEF Begin
  <2> HIDE DEF s
  <2> QED
      BY Zenon, <1>2, <1>4, <2>1, <2>2, HeldMoves
<1> QED
    BY Zenon, <1>3, <1>4

LEMMA HeldLook == ASSUME Held, NEW b \in Boots, LookForLegacy(b) PROVE Held'
<1>1. TypeOK /\ boot[b] \in BootStates
    BY Zenon, TableTypes DEF Held
<1>2. cursor' \in [records : 0..MaxUri, refs : 0..MaxUri] /\ disturbed' \in BOOLEAN /\ left' \in Scenario
      /\ UNCHANGED <<legacy, v2, truth>>
    BY Zenon, <1>1 DEF LookForLegacy, TypeOK, Scenario
<1>3. PICK here \in {"records", "refs"} :
        boot' = [boot EXCEPT ![b].at =
                   IF ~legacy.present THEN "done"
                   ELSE IF here = "records" THEN "recordsCursor" ELSE "refsPending"]
    BY Zenon DEF LookForLegacy
<1> DEFINE to == IF ~legacy.present THEN "done"
                 ELSE IF here = "records" THEN "recordsCursor" ELSE "refsPending"
           s == [boot[b] EXCEPT !.at = to]
<1>4. s \in BootStates /\ s.at = to /\ boot' = [boot EXCEPT ![b] = s]
    BY Zenon, <1>1, <1>3 DEF BootStates, Steps
<1>5. to \notin {"writeRecords", "writeRefs"} /\ (to = "done" => ~legacy.present)
    BY Zenon
<1> HIDE DEF s, to
<1> QED
    BY Zenon, <1>2, <1>4, <1>5, HeldMoves

LEMMA HeldReadCursor == ASSUME Held, NEW b \in Boots, ReadCursor(b) PROVE Held'
<1>1. TypeOK /\ boot[b] \in BootStates
    BY Zenon, TableTypes DEF Held
<1>2. cursor' \in [records : 0..MaxUri, refs : 0..MaxUri] /\ disturbed' \in BOOLEAN /\ left' \in Scenario
      /\ UNCHANGED <<legacy, v2, truth>>
    BY Zenon, <1>1 DEF ReadCursor, TypeOK, Scenario
<1>3. PICK to \in {"fetchRecords", "pending", "fetchRefs"}, a \in 0..MaxUri :
        boot' = [boot EXCEPT ![b].at = to, ![b].after = a]
    BY Zenon, <1>1 DEF ReadCursor, TypeOK
<1> DEFINE s == [boot[b] EXCEPT !.at = to, !.after = a]
<1>4. s \in BootStates /\ s.at = to /\ boot' = [boot EXCEPT ![b] = s]
    BY Zenon, <1>1, <1>3 DEF BootStates, Steps
<1> HIDE DEF s
<1> QED
    BY Zenon, <1>2, <1>3, <1>4, HeldMoves

LEMMA HeldFetch == ASSUME Held, NEW b \in Boots, Fetch(b) PROVE Held'
<1>1. TypeOK /\ boot[b] \in BootStates /\ Off \in BootStates /\ Empty \in Tables /\ Empty \in RefTables
    BY Zenon, TableTypes DEF Held
<1>2. cursor' \in [records : 0..MaxUri, refs : 0..MaxUri] /\ disturbed' \in BOOLEAN /\ left' \in Scenario
      /\ UNCHANGED <<legacy, v2, truth>>
    BY Zenon, <1>1 DEF Fetch, TypeOK, Scenario
<1>3. PICK kind \in {"records", "refs"} :
        LET table == IF kind = "records" THEN Records ELSE Refs
            rows == RowsAfter(table, boot[b].after)
        IN  \/ boot' = [boot EXCEPT ![b].at = IF kind = "records" THEN "refs" ELSE "swap"]
            \/ \E last \in rows :
                  boot' = [boot EXCEPT
                             ![b].at = IF kind = "records" THEN "writeRecords" ELSE "writeRefs",
                             ![b].batch = Batch(table, boot[b].after, last)]
    BY Zenon DEF Fetch
<1> DEFINE table == IF kind = "records" THEN Records ELSE Refs
<1>4. CASE boot' = [boot EXCEPT ![b].at = IF kind = "records" THEN "refs" ELSE "swap"]
  <2> DEFINE s == [boot[b] EXCEPT !.at = IF kind = "records" THEN "refs" ELSE "swap"]
  <2>1. s \in BootStates /\ s.at \in {"refs", "swap"} /\ boot' = [boot EXCEPT ![b] = s]
      BY Zenon, <1>1, <1>4 DEF BootStates, Steps
  <2> HIDE DEF s
  <2> QED
      BY Zenon, <1>2, <2>1, HeldMoves
<1>5. ASSUME NEW last \in RowsAfter(table, boot[b].after),
             boot' = [boot EXCEPT
                        ![b].at = IF kind = "records" THEN "writeRecords" ELSE "writeRefs",
                        ![b].batch = Batch(table, boot[b].after, last)]
      PROVE  Held'
  <2> DEFINE rows == Batch(table, boot[b].after, last)
             to == IF kind = "records" THEN "writeRecords" ELSE "writeRefs"
             s == [boot[b] EXCEPT !.at = to, !.batch = rows]
  <2>1. (kind = "records" => rows \in Tables) /\ (kind # "records" => rows \in RefTables)
      BY Zenon, <1>1, TableTypes DEF Batch, Tables, RefTables
  <2>2. rows \in [Uris -> Contents \cup {0, 1}]
      BY Zenon, <2>1 DEF Tables, RefTables
  <2>3. to \in {"writeRecords", "writeRefs"}
      BY Zenon
  <2> HIDE DEF rows
  <2>4. s \in BootStates
      BY Zenon, <1>1, <2>2, <2>3 DEF BootStates, Steps
  <2>5. s.at = to /\ s.batch = rows
      BY Zenon, <1>1 DEF BootStates
  <2>6. boot' = [boot EXCEPT ![b] = s]
      BY Zenon, <1>1, <1>5 DEF rows
  <2>7. (s.at = "writeRecords" => s.batch \in Tables) /\ (s.at = "writeRefs" => s.batch \in RefTables)
        /\ s.at # "done"
      BY <2>1, <2>5
  <2> HIDE DEF s, to
  <2> QED
      BY Zenon, <1>2, <2>4, <2>6, <2>7, HeldMoves
<1> QED
    BY Zenon, <1>3, <1>4, <1>5

LEMMA HeldPending == ASSUME Held, NEW b \in Boots, Pending(b) PROVE Held'
<1>1. TypeOK /\ boot[b] \in BootStates /\ Off \in BootStates /\ Empty \in Tables /\ Empty \in RefTables
    BY Zenon, TableTypes DEF Held
<1>2. cursor' \in [records : 0..MaxUri, refs : 0..MaxUri] /\ disturbed' \in BOOLEAN /\ left' \in Scenario
      /\ UNCHANGED <<legacy, v2, truth>>
    BY Zenon, <1>1 DEF Pending, TypeOK, Scenario
<1> DEFINE none == RowsAfter(Records, boot[b].after) = {}
           more == boot[b].attempt < CopyAttempts
           s == IF none THEN [boot[b] EXCEPT !.at = "refsCursor"]
                ELSE IF more THEN [boot[b] EXCEPT !.at = "records", !.attempt = boot[b].attempt + 1]
                ELSE Off
<1>3. boot' = [boot EXCEPT ![b] = s]
    BY Zenon, <1>1 DEF Pending, BootStates
<1>4. s \in BootStates /\ s.at \in {"refsCursor", "records", "off"}
  <2>1. CASE none
      BY Zenon, <1>1, <2>1 DEF BootStates, Steps
  <2>2. CASE ~none /\ more
    <3>1. boot[b].attempt + 1 \in 1..CopyAttempts
        BY <1>1, <2>2, RecordUpgradeAssumption DEF BootStates
    <3> QED
        BY Zenon, <1>1, <2>2, <3>1 DEF BootStates, Steps
  <2>3. CASE ~none /\ ~more
      BY Zenon, <1>1, <2>3 DEF Off
  <2> QED
      BY Zenon, <2>1, <2>2, <2>3
<1> HIDE DEF s
<1> QED
    BY Zenon, <1>2, <1>3, <1>4, HeldMoves

LEMMA HeldWriteRecords == ASSUME Held, NEW b \in Boots, WriteRecords(b) PROVE Held'
<1>1. TypeOK /\ boot[b] \in BootStates /\ Off \in BootStates /\ Empty \in Tables /\ Empty \in RefTables
    BY Zenon, TableTypes DEF Held
<1>2. disturbed' \in BOOLEAN /\ left' \in Scenario /\ UNCHANGED <<legacy, truth>>
    BY Zenon, <1>1 DEF WriteRecords, TypeOK, Scenario
<1>3. CASE ~legacy.present
  <2> DEFINE s == [boot[b] EXCEPT !.at = "done"]
  <2>1. s \in BootStates /\ s.at = "done"
      BY Zenon, <1>1 DEF BootStates
  <2>2. boot' = [boot EXCEPT ![b] = s] /\ UNCHANGED <<legacy, v2, truth>>
        /\ cursor' \in [records : 0..MaxUri, refs : 0..MaxUri]
      BY Zenon, <1>1, <1>3 DEF WriteRecords, TypeOK
  <2> HIDE DEF s
  <2> QED
      BY Zenon, <1>2, <1>3, <2>1, <2>2, HeldMoves
<1>4. CASE legacy.present
  <2>1. PICK last \in Uris :
          /\ v2' = [v2 EXCEPT !.records = Inserted(v2.records, boot[b].batch)]
          /\ cursor' = [cursor EXCEPT !.records = last]
          /\ boot' = [boot EXCEPT ![b].at = "fetchRecords", ![b].after = last, ![b].batch = Empty]
      BY Zenon, <1>4 DEF WriteRecords
  <2>2. boot[b].batch \in Tables
      BY Zenon DEF Held, BatchesTyped, WriteRecords
  <2>3. Inserted(v2.records, boot[b].batch) \in Tables
      BY Zenon, <1>1, <2>2 DEF Inserted, Sourced, TypeOK, Tables, RefTables
  <2>4. v2' \in [records : Tables, refs : RefTables]
      BY Zenon, <1>1, <2>1, <2>3 DEF TypeOK
  <2>5. cursor' \in [records : 0..MaxUri, refs : 0..MaxUri] /\ last \in 0..MaxUri
    <3>1. last \in 0..MaxUri
        BY RecordUpgradeAssumption DEF Uris
    <3>2. cursor \in [records : 0..MaxUri, refs : 0..MaxUri]
        BY Zenon, <1>1 DEF TypeOK
    <3> QED
        BY Zenon, <2>1, <3>1, <3>2
  <2> DEFINE s == [boot[b] EXCEPT !.at = "fetchRecords", !.after = last, !.batch = Empty]
  <2>6. Empty \in [Uris -> Contents \cup {0, 1}]
      BY Zenon, <1>1 DEF Tables
  <2>7. s \in BootStates /\ s.at = "fetchRecords" /\ boot' = [boot EXCEPT ![b] = s]
      BY ZenonT(60), <1>1, <2>1, <2>5, <2>6 DEF BootStates, Steps
  <2> HIDE DEF s
  <2> QED
      BY Zenon, <1>2, <1>4, <2>4, <2>5, <2>7, HeldCopies
<1> QED
    BY Zenon, <1>3, <1>4

LEMMA HeldWriteRefs == ASSUME Held, NEW b \in Boots, WriteRefs(b) PROVE Held'
<1>1. TypeOK /\ boot[b] \in BootStates /\ Off \in BootStates /\ Empty \in Tables /\ Empty \in RefTables
    BY Zenon, TableTypes DEF Held
<1>2. disturbed' \in BOOLEAN /\ left' \in Scenario /\ UNCHANGED <<legacy, truth>>
    BY Zenon, <1>1 DEF WriteRefs, TypeOK, Scenario
<1>3. CASE ~legacy.present
  <2> DEFINE s == [boot[b] EXCEPT !.at = "done"]
  <2>1. s \in BootStates /\ s.at = "done"
      BY Zenon, <1>1 DEF BootStates
  <2>2. boot' = [boot EXCEPT ![b] = s] /\ UNCHANGED <<legacy, v2, truth>>
        /\ cursor' \in [records : 0..MaxUri, refs : 0..MaxUri]
      BY Zenon, <1>1, <1>3 DEF WriteRefs, TypeOK
  <2> HIDE DEF s
  <2> QED
      BY Zenon, <1>2, <1>3, <2>1, <2>2, HeldMoves
<1>4. CASE legacy.present
  <2>1. PICK last \in Uris :
          /\ v2' = [v2 EXCEPT !.refs = Inserted(v2.refs, Sourced(boot[b].batch, v2.records))]
          /\ cursor' = [cursor EXCEPT !.refs = last]
          /\ boot' = [boot EXCEPT ![b].at = "fetchRefs", ![b].after = last, ![b].batch = Empty]
      BY Zenon, <1>4 DEF WriteRefs
  <2>2. boot[b].batch \in RefTables
      BY Zenon DEF Held, BatchesTyped, WriteRefs
  <2>3. Inserted(v2.refs, Sourced(boot[b].batch, v2.records)) \in RefTables
      BY Zenon, <1>1, <2>2 DEF Inserted, Sourced, TypeOK, Tables, RefTables
  <2>4. v2' \in [records : Tables, refs : RefTables]
      BY Zenon, <1>1, <2>1, <2>3 DEF TypeOK
  <2>5. cursor' \in [records : 0..MaxUri, refs : 0..MaxUri] /\ last \in 0..MaxUri
    <3>1. last \in 0..MaxUri
        BY RecordUpgradeAssumption DEF Uris
    <3>2. cursor \in [records : 0..MaxUri, refs : 0..MaxUri]
        BY Zenon, <1>1 DEF TypeOK
    <3> QED
        BY Zenon, <2>1, <3>1, <3>2
  <2> DEFINE s == [boot[b] EXCEPT !.at = "fetchRefs", !.after = last, !.batch = Empty]
  <2>6. Empty \in [Uris -> Contents \cup {0, 1}]
      BY Zenon, <1>1 DEF Tables
  <2>7. s \in BootStates /\ s.at = "fetchRefs" /\ boot' = [boot EXCEPT ![b] = s]
      BY ZenonT(60), <1>1, <2>1, <2>5, <2>6 DEF BootStates, Steps
  <2> HIDE DEF s
  <2> QED
      BY Zenon, <1>2, <1>4, <2>4, <2>5, <2>7, HeldCopies
<1> QED
    BY Zenon, <1>3, <1>4

LEMMA HeldSwap == ASSUME Held, NEW b \in Boots, Swap(b) PROVE Held'
<1>1. TypeOK /\ boot[b] \in BootStates /\ Off \in BootStates /\ Empty \in Tables /\ Empty \in RefTables
    BY Zenon, TableTypes DEF Held
<1>2. disturbed' \in BOOLEAN /\ left' \in Scenario /\ UNCHANGED <<v2, truth>>
    BY Zenon, <1>1 DEF Swap, TypeOK, Scenario
<1>3. CASE UNCHANGED <<legacy, cursor>>
  <2>1. PICK to \in {"done", "reset"} :
          boot' = [boot EXCEPT ![b].at = to] /\ (to = "done" => ~legacy.present)
      BY <1>1, <1>3 DEF Swap, TypeOK
  <2> DEFINE s == [boot[b] EXCEPT !.at = to]
  <2>2. s \in BootStates /\ s.at = to /\ boot' = [boot EXCEPT ![b] = s]
      BY Zenon, <1>1, <2>1 DEF BootStates, Steps
  <2>3. cursor' \in [records : 0..MaxUri, refs : 0..MaxUri]
      BY Zenon, <1>1, <1>3 DEF TypeOK
  <2> HIDE DEF s
  <2> QED
      BY Zenon, <1>2, <1>3, <2>1, <2>2, <2>3, HeldMoves
<1>4. CASE /\ legacy.present /\ Verified
           /\ legacy' = [present |-> FALSE, records |-> Empty, refs |-> Empty]
           /\ cursor' = [records |-> 0, refs |-> 0]
           /\ boot' = [boot EXCEPT ![b].at = "done"]
  <2> DEFINE s == [boot[b] EXCEPT !.at = "done"]
  <2>1. s \in BootStates /\ s.at = "done" /\ boot' = [boot EXCEPT ![b] = s]
      BY Zenon, <1>1, <1>4 DEF BootStates
  <2> HIDE DEF s
  <2>2. boot \in [Boots -> BootStates] /\ boot' \in [Boots -> BootStates]
      BY Zenon, <1>1, <2>1, TableTypes, BootTyped
  <2>3. cursor' \in [records : 0..MaxUri, refs : 0..MaxUri]
      BY <1>4, RecordUpgradeAssumption
  <2>4. TypeOK'
      BY SMTT(60), <1>1, <1>2, <1>4, <2>2, <2>3 DEF TypeOK, BootStates, Scenario
  <2>5. BatchesTyped' /\ ServesUpgraded'
      BY Zenon, <1>4, <2>1, <2>2 DEF Held, BatchesTyped, ServesUpgraded, At
  <2>6. TruthIsLegacy'
      BY Zenon, <1>4 DEF TruthIsLegacy
  <2>7. truth.records = legacy.records /\ truth.refs = legacy.refs
      BY <1>4 DEF Held, TruthIsLegacy
  <2>8. NothingLost'
      BY <1>2, <1>4, <2>7 DEF NothingLost, Verified, Sourced
  <2> QED
      BY Zenon, <2>4, <2>5, <2>6, <2>8 DEF Held
<1> QED
    BY Zenon, <1>3, <1>4 DEF Swap

LEMMA HeldStops ==
    ASSUME Held, NEW b \in Boots, SwapFails(b) \/ Reset(b) \/ Stop(b)
    PROVE  Held'
<1>1. TypeOK /\ boot[b] \in BootStates /\ Off \in BootStates /\ Empty \in Tables /\ Empty \in RefTables
    BY Zenon, TableTypes DEF Held
<1>2. disturbed' \in BOOLEAN /\ left' \in Scenario /\ UNCHANGED <<legacy, truth>>
      /\ cursor' \in [records : 0..MaxUri, refs : 0..MaxUri]
  <2>1. CASE SwapFails(b) \/ Stop(b)
      BY Zenon, <1>1, <2>1, SpendTyped DEF SwapFails, Stop, TypeOK
  <2>2. CASE Reset(b)
    <3>1. cursor \in [records : 0..MaxUri, refs : 0..MaxUri] /\ disturbed \in BOOLEAN /\ left \in Scenario
        BY Zenon, <1>1 DEF TypeOK, Scenario
    <3>2. [records |-> 0, refs |-> 0] \in [records : 0..MaxUri, refs : 0..MaxUri]
        BY RecordUpgradeAssumption
    <3> QED
        BY Zenon, <2>2, <3>1, <3>2 DEF Reset
  <2> QED
      BY Zenon, <2>1, <2>2
<1>3. PICK s \in BootStates : s.at \in {"off", "reset"} /\ boot' = [boot EXCEPT ![b] = s]
  <2>1. CASE SwapFails(b)
    <3> DEFINE s == [boot[b] EXCEPT !.at = "reset"]
    <3>1. s \in BootStates /\ s.at = "reset" /\ boot' = [boot EXCEPT ![b] = s]
        BY Zenon, <1>1, <2>1 DEF SwapFails, BootStates, Steps
    <3> HIDE DEF s
    <3> QED
        BY Zenon, <3>1
  <2>2. CASE Reset(b) \/ Stop(b)
    <3>1. boot' = [boot EXCEPT ![b] = Off] /\ Off.at = "off"
        BY Zenon, <2>2 DEF Reset, Stop, Off
    <3> QED
        BY Zenon, <1>1, <3>1
  <2> QED
      BY Zenon, <2>1, <2>2
<1>4. CASE UNCHANGED v2
    BY Zenon, <1>2, <1>3, <1>4, HeldMoves
<1>5. CASE legacy.present /\ v2' = [records |-> Empty, refs |-> Empty]
  <2>1. v2' \in [records : Tables, refs : RefTables]
      BY Zenon, <1>1, <1>5
  <2> QED
      BY Zenon, <1>2, <1>3, <1>5, <2>1, HeldCopies
<1> QED
    BY Zenon, <1>4, <1>5 DEF SwapFails, Reset, Stop

LEMMA HeldOldWrite ==
    ASSUME Held, NEW u \in Uris, NEW c \in Contents \cup {0}, NEW r \in {0, 1}, OldWrite(u, c, r)
    PROVE  Held'
<1>1. TypeOK /\ legacy.present
    BY Zenon DEF Held, OldWrite
<1>2. left' \in Scenario
    BY Zenon, <1>1, SpendTyped DEF OldWrite
<1>3. legacy' \in [present : BOOLEAN, records : Tables, refs : RefTables] /\ legacy'.present
    BY Zenon, <1>1 DEF OldWrite, TypeOK, Tables, RefTables
<1>4. truth' = [records |-> legacy'.records, refs |-> legacy'.refs] /\ disturbed' = TRUE
      /\ UNCHANGED <<v2, cursor, boot>>
    BY Zenon DEF OldWrite
<1>5. TypeOK'
    BY Zenon, <1>1, <1>2, <1>3, <1>4 DEF TypeOK, Scenario
<1>6. BatchesTyped' /\ ServesUpgraded' /\ TruthIsLegacy' /\ NothingLost'
    BY Zenon, <1>1, <1>3, <1>4 DEF Held, BatchesTyped, ServesUpgraded, At, TruthIsLegacy, NothingLost
<1> QED
    BY Zenon, <1>5, <1>6 DEF Held

LEMMA HeldLiveWrite ==
    ASSUME Held, NEW u \in Uris, NEW c \in Contents \cup {0}, NEW r \in {0, 1}, LiveWrite(u, c, r)
    PROVE  Held'
<1>1. TypeOK /\ ~legacy.present
    BY Zenon DEF Held, LiveWrite, ServesUpgraded
<1>2. left' \in Scenario
    BY Zenon, <1>1, SpendTyped DEF LiveWrite
<1>3. /\ v2' = [records |-> [v2.records EXCEPT ![u] = c],
                refs |-> [v2.refs EXCEPT ![u] = IF c = 0 THEN 0 ELSE r]]
      /\ truth' = [records |-> [truth.records EXCEPT ![u] = c],
                   refs |-> [truth.refs EXCEPT ![u] = r]]
      /\ UNCHANGED <<legacy, cursor, boot, disturbed>>
    BY Zenon DEF LiveWrite
<1>4. /\ v2.records \in Tables /\ v2.refs \in RefTables
      /\ truth.records \in Tables /\ truth.refs \in RefTables
    BY Zenon, <1>1 DEF TypeOK
<1>5. /\ v2'.records \in Tables /\ v2'.refs \in RefTables
      /\ truth'.records \in Tables /\ truth'.refs \in RefTables
    BY Zenon, <1>3, <1>4 DEF Tables, RefTables
<1>6. TypeOK'
    BY Zenon, <1>1, <1>2, <1>3, <1>5 DEF TypeOK, Scenario
<1>7. BatchesTyped' /\ ServesUpgraded' /\ TruthIsLegacy'
    BY Zenon, <1>1, <1>3 DEF Held, BatchesTyped, ServesUpgraded, At, TruthIsLegacy
<1>8. v2'.records = truth'.records
    BY Zenon, <1>1, <1>3 DEF Held, NothingLost
<1>9. v2'.refs = Sourced(truth'.refs, truth'.records)
  <2>1. v2.refs = [w \in Uris |-> IF truth.records[w] # 0 THEN truth.refs[w] ELSE 0]
      BY Zenon, <1>1 DEF Held, NothingLost, Sourced
  <2>2. \A w \in Uris : v2'.refs[w] = IF truth'.records[w] # 0 THEN truth'.refs[w] ELSE 0
      BY Zenon, <1>3, <1>4, <2>1 DEF Tables, RefTables
  <2> QED
      BY Zenon, <1>5, <2>2 DEF Sourced, RefTables
<1> QED
    BY Zenon, <1>6, <1>7, <1>8, <1>9 DEF Held, NothingLost

LEMMA HeldStep == Held /\ [Next]_vars => Held'
<1> SUFFICES ASSUME Held, [Next]_vars PROVE Held'
    BY Zenon
<1>1. CASE UNCHANGED vars
    BY <1>1 DEF vars, Held, TypeOK, BatchesTyped, At, TruthIsLegacy, NothingLost, Sourced, ServesUpgraded
<1>2. ASSUME NEW b \in Boots, BootStep(b) \/ SwapFails(b) \/ Stop(b) PROVE Held'
    BY Zenon, <1>2, HeldBegin, HeldLook, HeldReadCursor, HeldFetch, HeldWriteRecords, HeldPending,
       HeldWriteRefs, HeldSwap, HeldStops DEF BootStep
<1> QED
    BY Zenon, <1>1, <1>2, HeldOldWrite, HeldLiveWrite DEF Next

LEMMA AlwaysHeld == Spec => []Held
    BY PTL, HeldInitially, HeldStep DEF Spec

\* The upgrade's tables, cursors and boots stay well formed, and no boot
\* makes more than COPY_ATTEMPTS passes.
THEOREM TypeCorrect == Spec => []TypeOK
    BY PTL, AlwaysHeld DEF Held

\* The compact tables hold every acknowledged write once the legacy tables
\* are gone: no batch, reset or swap of a boot that lost the race changes them.
THEOREM NothingIsLost == Spec => []NothingLost
    BY PTL, AlwaysHeld DEF Held

\* An instance serves only from an upgraded database.
THEOREM OnlyUpgradedServe == Spec => []ServesUpgraded
    BY PTL, AlwaysHeld DEF Held

-----------------------------------------------------------------------------
(* An undisturbed copy verifies *)

\* Every record up to n is copied, and every ref of a source up to n.
RecordsTo(n) == \A u \in Uris : u <= n => v2.records[u] = legacy.records[u]
RefsTo(n) == \A u \in Uris : u <= n => v2.refs[u] = Sourced(legacy.refs, legacy.records)[u]

\* Nothing is copied that is not there.
Within ==
    \A u \in Uris :
        /\ v2.records[u] # 0 => v2.records[u] = legacy.records[u]
        /\ v2.refs[u] # 0 => v2.refs[u] = Sourced(legacy.refs, legacy.records)[u]

\* A batch is a stretch of the table that starts behind the boot's cursor.
Stretch(b, table) ==
    \A u \in Uris : boot[b].batch[u] # 0 =>
        /\ u > boot[b].after
        /\ \A w \in Uris : w > boot[b].after /\ w <= u => boot[b].batch[w] = table[w]

InPlace(b) ==
    /\ boot[b].at \in {"fetchRecords", "writeRecords", "pending"} => RecordsTo(boot[b].after)
    /\ At(b, "writeRecords") => Stretch(b, legacy.records)
    /\ boot[b].at \in {"refsCursor", "fetchRefs", "writeRefs", "swap"} => RecordsTo(MaxUri)
    /\ boot[b].at \in {"fetchRefs", "writeRefs"} => RefsTo(boot[b].after)
    /\ At(b, "writeRefs") => Stretch(b, legacy.refs)
    /\ At(b, "swap") => RefsTo(MaxUri)

CopyInPlace ==
    /\ Within
    /\ RecordsTo(cursor.records)
    /\ RefsTo(cursor.refs)
    /\ cursor = [records |-> 0, refs |-> 0] => v2 = [records |-> Empty, refs |-> Empty]
    /\ \A b \in Boots : InPlace(b)

Undisturbed == legacy.present /\ ~disturbed => CopyInPlace

LEMMA UndisturbedInitially == Init => Undisturbed
<1> SUFFICES ASSUME Init PROVE CopyInPlace
    BY Zenon DEF Undisturbed
<1>1. \A u \in Uris : u > 0 /\ v2.records[u] = 0 /\ v2.refs[u] = 0
    BY DEF Init, Empty, Uris
<1>2. Within /\ RecordsTo(0) /\ RefsTo(0)
    BY <1>1 DEF Within, RecordsTo, RefsTo, Uris
<1>3. \A b \in Boots : InPlace(b)
    BY Zenon DEF Init, InPlace, At, Off
<1> QED
    BY Zenon, <1>2, <1>3 DEF Init, CopyInPlace

\* The copy only grows: what was in place stays in place.
LEMMA StaysInPlace ==
    ASSUME NEW c \in Boots, InPlace(c), boot'[c] = boot[c], UNCHANGED legacy,
           \A u \in Uris : v2.records[u] = legacy.records[u] => v2'.records[u] = legacy.records[u],
           \A u \in Uris : v2.refs[u] = Sourced(legacy.refs, legacy.records)[u]
                              => v2'.refs[u] = Sourced(legacy.refs, legacy.records)[u]
    PROVE  InPlace(c)'
<1>1. \A n : RecordsTo(n) => RecordsTo(n)'
    BY Zenon DEF RecordsTo
<1>2. \A n : RefsTo(n) => RefsTo(n)'
    BY Zenon DEF RefsTo
<1>3. \A t : Stretch(c, t) => Stretch(c, t)'
    BY Zenon DEF Stretch
<1> QED
    BY Zenon, <1>1, <1>2, <1>3 DEF InPlace, At

\* A boot moves without a write, to a place that is in order.
LEMMA UndisturbedMoves ==
    ASSUME Held, Undisturbed, NEW b \in Boots, NEW s \in BootStates,
           boot' = [boot EXCEPT ![b] = s],
           UNCHANGED <<legacy, v2, cursor, disturbed>>,
           legacy.present /\ ~disturbed => InPlace(b)'
    PROVE  Undisturbed'
<1> SUFFICES ASSUME legacy.present, ~disturbed PROVE CopyInPlace'
    BY Zenon DEF Undisturbed
<1>1. CopyInPlace
    BY Zenon DEF Undisturbed
<1>2. boot \in [Boots -> BootStates]
    BY Zenon, TableTypes DEF Held
<1>3. ASSUME NEW c \in Boots PROVE InPlace(c)'
  <2>1. CASE c = b
      BY Zenon, <2>1
  <2>2. CASE c # b
    <3>1. boot'[c] = boot[c] /\ InPlace(c)
        BY Zenon, <1>1, <1>2, <2>2 DEF CopyInPlace
    <3> QED
        BY Zenon, <3>1, StaysInPlace
  <2> QED
      BY Zenon, <2>1, <2>2
<1>4. Within' /\ (RecordsTo(cursor.records))' /\ (RefsTo(cursor.refs))'
    BY Zenon, <1>1 DEF CopyInPlace, Within, RecordsTo, RefsTo
<1>5. (cursor = [records |-> 0, refs |-> 0] => v2 = [records |-> Empty, refs |-> Empty])'
    BY Zenon, <1>1 DEF CopyInPlace
<1> QED
    BY Zenon, <1>3, <1>4, <1>5 DEF CopyInPlace

\* Places with nothing to keep in order.
LEMMA NowhereInPlace ==
    ASSUME NEW b \in Boots,
           boot'[b].at \in {"off", "done", "records", "recordsCursor", "refs", "refsPending", "reset"}
    PROVE  InPlace(b)'
    BY Zenon DEF InPlace, At

LEMMA UndisturbedBegin == ASSUME Held, Undisturbed, NEW b \in Boots, Begin(b) PROVE Undisturbed'
<1> SUFFICES ASSUME legacy.present, ~disturbed PROVE Undisturbed'
    BY Zenon DEF Undisturbed, Begin
<1>1. boot[b] \in BootStates /\ Off \in BootStates /\ boot \in [Boots -> BootStates]
    BY Zenon, TableTypes DEF Held
<1> DEFINE s == [Off EXCEPT !.at = "records"]
<1>2. s \in BootStates /\ s.at = "records"
    BY Zenon, <1>1 DEF BootStates, Steps
<1>3. boot' = [boot EXCEPT ![b] = s] /\ UNCHANGED <<legacy, cursor, disturbed>>
    BY Zenon DEF Begin
<1>4. UNCHANGED v2
    BY Zenon DEF Begin, Undisturbed, CopyInPlace
<1> HIDE DEF s
<1>5. boot'[b].at = "records"
    BY Zenon, <1>1, <1>2, <1>3
<1> QED
    BY Zenon, <1>2, <1>3, <1>4, <1>5, NowhereInPlace, UndisturbedMoves

LEMMA UndisturbedLook == ASSUME Held, Undisturbed, NEW b \in Boots, LookForLegacy(b) PROVE Undisturbed'
<1>1. boot[b] \in BootStates /\ boot \in [Boots -> BootStates]
    BY Zenon, TableTypes DEF Held
<1>2. PICK to \in {"done", "recordsCursor", "refsPending"} : boot' = [boot EXCEPT ![b].at = to]
    BY Zenon DEF LookForLegacy
<1> DEFINE s == [boot[b] EXCEPT !.at = to]
<1>3. s \in BootStates /\ s.at = to /\ boot' = [boot EXCEPT ![b] = s]
    BY Zenon, <1>1, <1>2 DEF BootStates, Steps
<1> HIDE DEF s
<1>4. boot'[b].at = to /\ UNCHANGED <<legacy, v2, cursor, disturbed>>
    BY Zenon, <1>1, <1>3 DEF LookForLegacy
<1> QED
    BY Zenon, <1>3, <1>4, NowhereInPlace, UndisturbedMoves

LEMMA UndisturbedReadCursor == ASSUME Held, Undisturbed, NEW b \in Boots, ReadCursor(b) PROVE Undisturbed'
<1>1. boot[b] \in BootStates /\ boot \in [Boots -> BootStates] /\ TypeOK
    BY Zenon, TableTypes DEF Held
<1>2. UNCHANGED <<legacy, v2, cursor, disturbed>>
    BY Zenon DEF ReadCursor
<1>3. PICK to \in {"fetchRecords", "pending", "fetchRefs"}, a \in 0..MaxUri :
        /\ boot' = [boot EXCEPT ![b].at = to, ![b].after = a]
        /\ to \in {"fetchRecords", "pending"} => a = cursor.records
        /\ to = "fetchRefs" => a = cursor.refs /\ At(b, "refsCursor")
    BY SMTT(60), <1>1 DEF ReadCursor, TypeOK
<1> DEFINE s == [boot[b] EXCEPT !.at = to, !.after = a]
<1>4. s \in BootStates /\ s.at = to /\ s.after = a /\ boot' = [boot EXCEPT ![b] = s]
    BY Zenon, <1>1, <1>3 DEF BootStates, Steps
<1> HIDE DEF s
<1>5. boot'[b].at = to /\ boot'[b].after = a
    BY Zenon, <1>1, <1>4
<1>6. ASSUME legacy.present, ~disturbed PROVE InPlace(b)'
  <2>1. CopyInPlace
      BY Zenon, <1>6 DEF Undisturbed
  <2>2. to = "fetchRefs" => RecordsTo(MaxUri)
      BY Zenon, <1>3, <2>1 DEF CopyInPlace, InPlace, At
  <2>3. (to \in {"fetchRecords", "pending"} => RecordsTo(a)) /\ (to = "fetchRefs" => RefsTo(a))
      BY Zenon, <1>3, <2>1 DEF CopyInPlace
  <2>4. \A n : (RecordsTo(n) => RecordsTo(n)') /\ (RefsTo(n) => RefsTo(n)')
      BY Zenon, <1>2 DEF RecordsTo, RefsTo
  <2> QED
      BY Zenon, <1>3, <1>5, <2>2, <2>3, <2>4 DEF InPlace, At
<1> QED
    BY Zenon, <1>2, <1>4, <1>6, UndisturbedMoves

LEMMA UndisturbedPending == ASSUME Held, Undisturbed, NEW b \in Boots, Pending(b) PROVE Undisturbed'
<1>1. boot[b] \in BootStates /\ Off \in BootStates /\ boot \in [Boots -> BootStates]
      /\ boot' \in [Boots -> BootStates]
    BY Zenon, TableTypes, HeldPending DEF Held, TypeOK, BootStates
<1>2. UNCHANGED <<legacy, v2, cursor, disturbed>>
    BY Zenon DEF Pending
<1>3. PICK s : boot' = [boot EXCEPT ![b] = s]
    BY Zenon DEF Pending
<1>4. s \in BootStates /\ boot'[b] = s
    BY Zenon, <1>1, <1>3
<1>5. CASE RowsAfter(Records, boot[b].after) = {}
  <2>1. boot'[b].at = "refsCursor"
      BY Zenon, <1>1, <1>5 DEF Pending, BootStates
  <2>2. ASSUME legacy.present, ~disturbed PROVE InPlace(b)'
    <3>1. RecordsTo(boot[b].after) /\ Within
        BY Zenon, <2>2 DEF Undisturbed, CopyInPlace, InPlace, Pending, At
    <3>2. \A u \in Uris : u > boot[b].after => legacy.records[u] = 0
        BY Zenon, <1>5, <2>2 DEF RowsAfter, Records
    <3>3. \A u \in Uris : u <= boot[b].after \/ u > boot[b].after
        BY <1>1, RecordUpgradeAssumption DEF Uris, BootStates
    <3>4. \A u \in Uris : v2.records[u] = legacy.records[u]
        BY Zenon, <3>1, <3>2, <3>3 DEF RecordsTo, Within
    <3>5. (RecordsTo(MaxUri))'
        BY Zenon, <1>2, <3>4 DEF RecordsTo
    <3> QED
        BY Zenon, <2>1, <3>5 DEF InPlace, At
  <2> QED
      BY Zenon, <1>2, <1>3, <1>4, <2>2, UndisturbedMoves
<1>6. CASE RowsAfter(Records, boot[b].after) # {}
  <2>1. boot'[b].at \in {"records", "off"}
      BY Zenon, <1>1, <1>6 DEF Pending, BootStates, Off
  <2> QED
      BY Zenon, <1>2, <1>3, <1>4, <2>1, NowhereInPlace, UndisturbedMoves
<1> QED
    BY Zenon, <1>5, <1>6

LEMMA UndisturbedFetch == ASSUME Held, Undisturbed, NEW b \in Boots, Fetch(b) PROVE Undisturbed'
<1>1. boot[b] \in BootStates /\ boot \in [Boots -> BootStates] /\ boot' \in [Boots -> BootStates]
    BY Zenon, TableTypes, HeldFetch DEF Held, TypeOK, BootStates
<1>2. UNCHANGED <<legacy, v2, cursor, disturbed>>
    BY Zenon DEF Fetch
<1>3. PICK s : boot' = [boot EXCEPT ![b] = s]
    BY DEF Fetch
<1>4. s \in BootStates /\ boot'[b] = s
    BY Zenon, <1>1, <1>3
<1>5. ASSUME legacy.present, ~disturbed PROVE InPlace(b)'
  <2>1. InPlace(b) /\ Within
      BY Zenon, <1>5 DEF Undisturbed, CopyInPlace
  <2>2. Records = legacy.records /\ Refs = legacy.refs
      BY Zenon, <1>5 DEF Records, Refs
  <2>3. CASE At(b, "fetchRecords") /\ RowsAfter(Records, boot[b].after) = {} /\ boot'[b].at = "refs"
      BY Zenon, <2>3, NowhereInPlace
  <2>4. CASE At(b, "fetchRefs") /\ RowsAfter(Refs, boot[b].after) = {} /\ boot'[b].at = "swap"
    <3>1. \A u \in Uris : u > boot[b].after => legacy.refs[u] = 0
        BY Zenon, <2>2, <2>4 DEF RowsAfter
    <3>2. RefsTo(boot[b].after) /\ RecordsTo(MaxUri)
        BY Zenon, <2>1, <2>4 DEF InPlace, At
    <3>3. \A u \in Uris : v2.refs[u] = Sourced(legacy.refs, legacy.records)[u]
        BY <1>1, <2>1, <3>1, <3>2 DEF RefsTo, Within, Uris, BootStates, Sourced
    <3>4. (RefsTo(MaxUri))' /\ (RecordsTo(MaxUri))'
        BY Zenon, <1>2, <3>2, <3>3 DEF RefsTo, RecordsTo
    <3> QED
        BY Zenon, <2>4, <3>4 DEF InPlace, At
  <2>5. ASSUME At(b, "fetchRecords"), NEW last \in RowsAfter(Records, boot[b].after),
               boot'[b].at = "writeRecords", boot'[b].after = boot[b].after,
               boot'[b].batch = Batch(Records, boot[b].after, last)
        PROVE  InPlace(b)'
    <3>1. RecordsTo(boot[b].after)
        BY Zenon, <2>1, <2>5 DEF InPlace, At
    <3>2. (RecordsTo(boot[b].after))'
        BY Zenon, <1>2, <2>5, <3>1 DEF RecordsTo
    <3>3. Stretch(b, legacy.records)'
        BY <1>1, <1>2, <2>2, <2>5 DEF Stretch, Batch, RowsAfter, Uris, BootStates
    <3> QED
        BY Zenon, <2>5, <3>2, <3>3 DEF InPlace, At
  <2>6. ASSUME At(b, "fetchRefs"), NEW last \in RowsAfter(Refs, boot[b].after),
               boot'[b].at = "writeRefs", boot'[b].after = boot[b].after,
               boot'[b].batch = Batch(Refs, boot[b].after, last)
        PROVE  InPlace(b)'
    <3>1. RefsTo(boot[b].after) /\ RecordsTo(MaxUri)
        BY Zenon, <2>1, <2>6 DEF InPlace, At
    <3>2. (RefsTo(boot[b].after))' /\ (RecordsTo(MaxUri))'
        BY Zenon, <1>2, <2>6, <3>1 DEF RecordsTo, RefsTo
    <3>3. Stretch(b, legacy.refs)'
        BY <1>1, <1>2, <2>2, <2>6 DEF Stretch, Batch, RowsAfter, Uris, BootStates
    <3> QED
        BY Zenon, <2>6, <3>2, <3>3 DEF InPlace, At
  <2>7. CASE At(b, "fetchRecords")
    <3>1. \/ RowsAfter(Records, boot[b].after) = {} /\ boot' = [boot EXCEPT ![b].at = "refs"]
          \/ \E last \in RowsAfter(Records, boot[b].after) :
                boot' = [boot EXCEPT ![b].at = "writeRecords",
                                     ![b].batch = Batch(Records, boot[b].after, last)]
        BY Zenon, <2>7 DEF Fetch, At
    <3>2. CASE RowsAfter(Records, boot[b].after) = {} /\ boot' = [boot EXCEPT ![b].at = "refs"]
        BY Zenon, <1>1, <2>3, <2>7, <3>2 DEF BootStates
    <3>3. ASSUME NEW last \in RowsAfter(Records, boot[b].after),
                 boot' = [boot EXCEPT ![b].at = "writeRecords",
                                      ![b].batch = Batch(Records, boot[b].after, last)]
          PROVE  InPlace(b)'
        BY Zenon, <1>1, <2>5, <2>7, <3>3 DEF BootStates
    <3> QED
        BY Zenon, <3>1, <3>2, <3>3
  <2>8. CASE At(b, "fetchRefs")
    <3>1. \/ RowsAfter(Refs, boot[b].after) = {} /\ boot' = [boot EXCEPT ![b].at = "swap"]
          \/ \E last \in RowsAfter(Refs, boot[b].after) :
                boot' = [boot EXCEPT ![b].at = "writeRefs",
                                     ![b].batch = Batch(Refs, boot[b].after, last)]
        BY Zenon, <2>8 DEF Fetch, At
    <3>2. CASE RowsAfter(Refs, boot[b].after) = {} /\ boot' = [boot EXCEPT ![b].at = "swap"]
        BY Zenon, <1>1, <2>4, <2>8, <3>2 DEF BootStates
    <3>3. ASSUME NEW last \in RowsAfter(Refs, boot[b].after),
                 boot' = [boot EXCEPT ![b].at = "writeRefs",
                                      ![b].batch = Batch(Refs, boot[b].after, last)]
          PROVE  InPlace(b)'
        BY Zenon, <1>1, <2>6, <2>8, <3>3 DEF BootStates
    <3> QED
        BY Zenon, <3>1, <3>2, <3>3
  <2> QED
      BY Zenon, <2>7, <2>8 DEF Fetch
<1> QED
    BY Zenon, <1>2, <1>3, <1>4, <1>5, UndisturbedMoves

LEMMA UndisturbedWriteRecords ==
    ASSUME Held, Undisturbed, NEW b \in Boots, WriteRecords(b) PROVE Undisturbed'
<1> SUFFICES ASSUME legacy.present, ~disturbed PROVE CopyInPlace'
    BY ZenonT(60) DEF Undisturbed, WriteRecords
<1>1. boot[b] \in BootStates /\ boot \in [Boots -> BootStates] /\ TypeOK
      /\ boot[b].batch \in Tables
    BY Zenon, TableTypes DEF Held, BatchesTyped, WriteRecords
<1>2. CopyInPlace
    BY SMTT(60) DEF Undisturbed
<1>3. PICK last \in Uris :
        /\ IsLast(last, boot[b].batch)
        /\ v2' = [v2 EXCEPT !.records = Inserted(v2.records, boot[b].batch)]
        /\ cursor' = [cursor EXCEPT !.records = last]
        /\ boot' = [boot EXCEPT ![b].at = "fetchRecords", ![b].after = last, ![b].batch = Empty]
    BY ZenonT(60) DEF WriteRecords
<1>4. UNCHANGED <<legacy, disturbed>> /\ v2'.refs = v2.refs /\ cursor'.refs = cursor.refs
      /\ cursor'.records = last
    BY Zenon, <1>1, <1>3 DEF WriteRecords, TypeOK
<1>5. \A u \in Uris : v2'.records[u] = IF v2.records[u] # 0 THEN v2.records[u] ELSE boot[b].batch[u]
    BY SMTT(60), <1>1, <1>3 DEF Inserted, TypeOK
<1>6. RecordsTo(boot[b].after) /\ Stretch(b, legacy.records) /\ Within
    BY Zenon, <1>2 DEF CopyInPlace, InPlace, WriteRecords, At
<1>7. \A u \in Uris : boot[b].batch[u] # 0 => boot[b].batch[u] = legacy.records[u]
    BY <1>6 DEF Stretch, Uris
<1>8. \A u \in Uris : v2'.records[u] # 0 => v2'.records[u] = legacy.records[u]
    BY Zenon, <1>5, <1>6, <1>7 DEF Within
<1>9. \A u \in Uris : v2.records[u] = legacy.records[u] => v2'.records[u] = legacy.records[u]
  <2> SUFFICES ASSUME NEW u \in Uris, v2.records[u] = legacy.records[u]
               PROVE  v2'.records[u] = legacy.records[u]
      BY Zenon
  <2>1. CASE v2.records[u] # 0
      BY Zenon, <1>5, <2>1
  <2>2. CASE v2.records[u] = 0
    <3>1. boot[b].batch[u] = 0
        BY Zenon, <1>7, <2>2
    <3> QED
        BY Zenon, <1>5, <2>2, <3>1
  <2> QED
      BY Zenon, <2>1, <2>2
<1>10. \A u \in Uris : u <= last => v2'.records[u] = legacy.records[u]
  <2> SUFFICES ASSUME NEW u \in Uris, u <= last PROVE v2'.records[u] = legacy.records[u]
      BY Zenon
  <2>1. CASE u <= boot[b].after
      BY Zenon, <1>6, <1>9, <2>1 DEF RecordsTo
  <2>2. CASE u > boot[b].after
    <3>1. boot[b].batch[u] = legacy.records[u]
        BY Zenon, <1>3, <1>6, <2>2 DEF Stretch, IsLast
    <3> QED
        BY Zenon, <1>5, <1>6, <3>1 DEF Within
  <2>3. u <= boot[b].after \/ u > boot[b].after
      BY <1>1, RecordUpgradeAssumption DEF Uris, BootStates
  <2> QED
      BY Zenon, <2>1, <2>2, <2>3
<1>11. Within' /\ (RecordsTo(cursor.records))' /\ (RefsTo(cursor.refs))'
    BY <1>2, <1>4, <1>6, <1>8, <1>10 DEF Within, RecordsTo, RefsTo, CopyInPlace
<1>12. cursor' # [records |-> 0, refs |-> 0]
    BY <1>4 DEF Uris
<1>13. ASSUME NEW c \in Boots PROVE InPlace(c)'
  <2>1. CASE c = b
    <3>1. boot'[b].at = "fetchRecords" /\ boot'[b].after = last
        BY Zenon, <1>1, <1>3 DEF BootStates
    <3>2. (RecordsTo(boot[b].after))'
        BY Zenon, <1>4, <1>10, <3>1 DEF RecordsTo
    <3> QED
        BY Zenon, <2>1, <3>1, <3>2 DEF InPlace, At
  <2>2. CASE c # b
    <3>1. boot'[c] = boot[c] /\ InPlace(c)
        BY Zenon, <1>1, <1>2, <1>3, <2>2 DEF CopyInPlace
    <3>2. \A u \in Uris : v2.refs[u] = Sourced(legacy.refs, legacy.records)[u]
                             => v2'.refs[u] = Sourced(legacy.refs, legacy.records)[u]
        BY SMTT(60), <1>4
    <3> QED
        BY Zenon, <1>4, <1>9, <3>1, <3>2, StaysInPlace
  <2> QED
      BY Zenon, <2>1, <2>2
<1> QED
    BY SMTT(60), <1>11, <1>12, <1>13 DEF CopyInPlace

LEMMA UndisturbedWriteRefs ==
    ASSUME Held, Undisturbed, NEW b \in Boots, WriteRefs(b) PROVE Undisturbed'
<1> SUFFICES ASSUME legacy.present, ~disturbed PROVE CopyInPlace'
    BY ZenonT(60) DEF Undisturbed, WriteRefs
<1> DEFINE due == Sourced(legacy.refs, legacy.records)
<1>1. boot[b] \in BootStates /\ boot \in [Boots -> BootStates] /\ TypeOK
      /\ boot[b].batch \in RefTables
    BY ZenonT(60), TableTypes DEF Held, BatchesTyped, WriteRefs
<1>2. CopyInPlace
    BY Zenon DEF Undisturbed
<1>3. PICK last \in Uris :
        /\ IsLast(last, boot[b].batch)
        /\ v2' = [v2 EXCEPT !.refs = Inserted(v2.refs, Sourced(boot[b].batch, v2.records))]
        /\ cursor' = [cursor EXCEPT !.refs = last]
        /\ boot' = [boot EXCEPT ![b].at = "fetchRefs", ![b].after = last, ![b].batch = Empty]
    BY ZenonT(60) DEF WriteRefs
<1>4. UNCHANGED <<legacy, disturbed>> /\ v2'.records = v2.records /\ cursor'.records = cursor.records
      /\ cursor'.refs = last
    BY ZenonT(60), <1>1, <1>3 DEF WriteRefs, TypeOK
<1>5. RecordsTo(MaxUri) /\ RefsTo(boot[b].after) /\ Stretch(b, legacy.refs) /\ Within
    BY Zenon, <1>2 DEF CopyInPlace, InPlace, WriteRefs, At
<1>6. \A u \in Uris : v2.records[u] = legacy.records[u]
    BY <1>5, RecordUpgradeAssumption DEF RecordsTo, Uris
<1>7. \A u \in Uris : due[u] = IF legacy.records[u] # 0 THEN legacy.refs[u] ELSE 0
    BY Zenon DEF Sourced
<1>8. \A u \in Uris :
        v2'.refs[u] = IF v2.refs[u] # 0 THEN v2.refs[u]
                      ELSE IF legacy.records[u] # 0 THEN boot[b].batch[u] ELSE 0
    BY Zenon, <1>1, <1>3, <1>6 DEF Inserted, Sourced, TypeOK
<1>9. \A u \in Uris : boot[b].batch[u] # 0 => boot[b].batch[u] = legacy.refs[u]
    BY <1>5 DEF Stretch, Uris
<1> HIDE DEF due
<1>10. \A u \in Uris : v2.refs[u] # 0 => v2.refs[u] = due[u]
    BY Zenon, <1>5 DEF Within, due
<1>11. \A u \in Uris : v2'.refs[u] # 0 => v2'.refs[u] = due[u]
    BY <1>7, <1>8, <1>9, <1>10
<1>12. \A u \in Uris : v2.refs[u] = due[u] => v2'.refs[u] = due[u]
  <2> SUFFICES ASSUME NEW u \in Uris, v2.refs[u] = due[u] PROVE v2'.refs[u] = due[u]
      BY Zenon
  <2>1. CASE v2.refs[u] # 0
      BY Zenon, <1>8, <2>1
  <2>2. CASE v2.refs[u] = 0 /\ legacy.records[u] = 0
      BY Zenon, <1>8, <2>2
  <2>3. CASE v2.refs[u] = 0 /\ legacy.records[u] # 0
    <3>1. boot[b].batch[u] = 0
        BY Zenon, <1>7, <1>9, <2>3
    <3> QED
        BY Zenon, <1>8, <2>3, <3>1
  <2> QED
      BY Zenon, <2>1, <2>2, <2>3
<1>13. \A u \in Uris : u <= last => v2'.refs[u] = due[u]
  <2> SUFFICES ASSUME NEW u \in Uris, u <= last PROVE v2'.refs[u] = due[u]
      BY Zenon
  <2>1. CASE u <= boot[b].after
      BY Zenon, <1>5, <1>12, <2>1 DEF RefsTo, due
  <2>2. CASE u > boot[b].after
    <3>1. boot[b].batch[u] = legacy.refs[u]
        BY Zenon, <1>3, <1>5, <2>2 DEF Stretch, IsLast
    <3> QED
        BY Zenon, <1>7, <1>8, <1>10, <3>1
  <2>3. u <= boot[b].after \/ u > boot[b].after
      BY <1>1, RecordUpgradeAssumption DEF Uris, BootStates
  <2> QED
      BY Zenon, <2>1, <2>2, <2>3
<1>14. Within' /\ (RecordsTo(cursor.records))' /\ (RefsTo(cursor.refs))'
    BY <1>2, <1>4, <1>5, <1>11, <1>13 DEF Within, RecordsTo, RefsTo, CopyInPlace, due
<1>15. cursor' # [records |-> 0, refs |-> 0]
    BY <1>4 DEF Uris
<1>16. ASSUME NEW c \in Boots PROVE InPlace(c)'
  <2>1. CASE c = b
    <3>1. boot'[b].at = "fetchRefs" /\ boot'[b].after = last
        BY Zenon, <1>1, <1>3 DEF BootStates
    <3>2. (RefsTo(boot[b].after))' /\ (RecordsTo(MaxUri))'
        BY <1>4, <1>5, <1>13, <3>1 DEF RecordsTo, RefsTo, due
    <3> QED
        BY Zenon, <2>1, <3>1, <3>2 DEF InPlace, At
  <2>2. CASE c # b
    <3>1. boot'[c] = boot[c] /\ InPlace(c)
        BY Zenon, <1>1, <1>2, <1>3, <2>2 DEF CopyInPlace
    <3>2. \A u \in Uris : v2.records[u] = legacy.records[u] => v2'.records[u] = legacy.records[u]
        BY Zenon, <1>4
    <3> QED
        BY Zenon, <1>4, <1>12, <3>1, <3>2, StaysInPlace DEF due
  <2> QED
      BY Zenon, <2>1, <2>2
<1> QED
    BY Zenon, <1>14, <1>15, <1>16 DEF CopyInPlace

LEMMA UndisturbedRest ==
    ASSUME Held, Undisturbed, NEW b \in Boots, Swap(b) \/ SwapFails(b) \/ Reset(b) \/ Stop(b)
    PROVE  Undisturbed'
<1>1. boot[b] \in BootStates /\ Off \in BootStates /\ boot \in [Boots -> BootStates]
    BY Zenon, TableTypes DEF Held
<1>2. CASE ~legacy'.present \/ disturbed'
    BY Zenon, <1>2 DEF Undisturbed
<1>3. CASE UNCHANGED <<legacy, v2, cursor, disturbed>>
  <2>1. PICK s \in {Off, [boot[b] EXCEPT !.at = "done"], [boot[b] EXCEPT !.at = "reset"]} :
          boot' = [boot EXCEPT ![b] = s]
      BY Zenon DEF Swap, SwapFails, Reset, Stop
  <2>2. s \in BootStates /\ s.at \in {"off", "done", "reset"}
      BY SMTT(60), <1>1, <2>1 DEF BootStates, Steps, Off
  <2>3. boot'[b].at \in {"off", "done", "reset"}
      BY Zenon, <1>1, <2>1, <2>2
  <2> QED
      BY Zenon, <1>3, <2>1, <2>2, <2>3, NowhereInPlace, UndisturbedMoves
<1> QED
    BY <1>2, <1>3 DEF Swap, SwapFails, Reset, Stop

LEMMA UndisturbedStep == Held /\ Undisturbed /\ [Next]_vars => Undisturbed'
<1> SUFFICES ASSUME Held, Undisturbed, [Next]_vars PROVE Undisturbed'
    BY Zenon
<1>1. CASE UNCHANGED vars
    BY <1>1 DEF vars, Undisturbed, CopyInPlace, Within, RecordsTo, RefsTo, InPlace, Stretch, At
<1>2. ASSUME NEW b \in Boots, BootStep(b) \/ SwapFails(b) \/ Stop(b) PROVE Undisturbed'
    BY Zenon, <1>2, UndisturbedBegin, UndisturbedLook, UndisturbedReadCursor, UndisturbedFetch,
       UndisturbedWriteRecords, UndisturbedPending, UndisturbedWriteRefs, UndisturbedRest DEF BootStep
<1>3. ASSUME NEW u \in Uris, NEW c \in Contents \cup {0}, NEW r \in {0, 1},
             OldWrite(u, c, r) \/ LiveWrite(u, c, r)
      PROVE  Undisturbed'
    BY Zenon, <1>3 DEF OldWrite, LiveWrite, Undisturbed, Held, ServesUpgraded
<1> QED
    BY Zenon, <1>1, <1>2, <1>3 DEF Next

\* Boots that copy at the same time, overtake each other's cursors, stop and
\* resume never spoil the copy: verification refuses it only after an
\* instance of the old release wrote, or an earlier copy was reset.
THEOREM UndisturbedCopyVerifies == Spec => []RefusedOnlyIfDisturbed
<1>1. Held /\ Undisturbed => RefusedOnlyIfDisturbed
  <2> SUFFICES ASSUME Held, Undisturbed, NEW b \in Boots, At(b, "swap"), legacy.present, ~disturbed
               PROVE  Verified
      BY Zenon DEF RefusedOnlyIfDisturbed
  <2>1. RecordsTo(MaxUri) /\ RefsTo(MaxUri)
      BY Zenon DEF Undisturbed, CopyInPlace, InPlace, At
  <2>2. \A u \in Uris : /\ v2.records[u] = legacy.records[u]
                        /\ v2.refs[u] = Sourced(legacy.refs, legacy.records)[u]
      BY <2>1, RecordUpgradeAssumption DEF RecordsTo, RefsTo, Uris
  <2>3. v2.records \in Tables /\ legacy.records \in Tables /\ v2.refs \in RefTables
      BY Zenon DEF Held, TypeOK
  <2>4. v2.records = legacy.records
      BY <2>2, <2>3 DEF Tables
  <2>5. v2.refs = Sourced(legacy.refs, legacy.records)
      BY Zenon, <2>2, <2>3 DEF RefTables, Sourced
  <2> QED
      BY Zenon, <2>4, <2>5 DEF Verified
<1> QED
    BY PTL, <1>1, AlwaysHeld, UndisturbedInitially, UndisturbedStep DEF Spec
=============================================================================
