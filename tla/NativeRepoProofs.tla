-------------------------- MODULE NativeRepoProofs --------------------------
(***************************************************************************)
(* Proofs about NativeRepo, for any records, contents, runs, pulls and     *)
(* budgets.  IInv says what holds of the row, the runs and the pulls as    *)
(* long as the mishaps that would break it have not happened.              *)
(***************************************************************************)
EXTENDS NativeRepo, WellFoundedInduction, TLAPS

(* A run at x is on its way to the handoff with the records it listed. *)
Listed(x) ==
    \/ x.at \in {"replay", "send", "verify", "handoff", "point", "cursor"}
    \/ x.at \in {"setmode", "write"} /\ x.to # "polyfill"

(* It has verified the PDS and has yet to write the cursor. *)
Verified(x) == x.at \in {"handoff", "point", "cursor"}

(* It has written the cursor and has yet to write the mode. *)
HandsOver(x) == x.at \in {"setmode", "write"} /\ x.to = "native"

Revisions ==
    /\ \A r \in Runs :
         /\ run[r].rev <= HostRev
         /\ Verified(run[r]) => run[r].rev # None
         /\ At(r, "send") => run[r].next \in Keys
    /\ \A t \in Syncs :
         sync[t].at \in {"apply", "compare", "read", "adopt"} => sync[t].last # None

(* As long as no job is claimed while a run goes, one run goes at a time. *)
OneRun == Without({"twice"}) => \A r, s \in Runs : At(r, "free") \/ At(s, "free") \/ r = s

(* The cursor comes before the mode. *)
Pointed ==
    Without({"torn"}) =>
        /\ row.cursor <= HostRev
        /\ row.mode = "native" => row.cursor # None
        /\ \A r \in Runs : HandsOver(run[r]) => row.cursor # None

(* A native repo is left alone by the jobs; one that is not, by the pulls. *)
MovedOnce ==
    Without(TakenBack) =>
        /\ row.mode = "native" => \A r \in Runs : run[r].at \in {"free", "start"}
        /\ row.mode # "native" => \A t \in Syncs : Pulls(t, "idle")

(* Where contents differs from the PDS, an op after rev tells why. *)
Reaches(log, contents, rev) ==
    \A k \in Keys : contents[k] # Holds(log, k) =>
        \E i \in DOMAIN log : i + 1 > rev /\ log[i].key = k

(* What a run or a pull has in hand of a repo that nothing has gone wrong  *)
(* with.                                                                   *)
RunFollows(r) ==
    /\ Listed(run[r]) => run[r].recs = records
    /\ Verified(run[r]) => Reaches(host, records, run[r].rev)
    /\ HandsOver(run[r]) => Reaches(host, records, row.cursor)

PullFollows(t) ==
    /\ Pulls(t, "list") => sync[t].since = row.cursor
    /\ Pulls(t, "apply") => sync[t].todo \subseteq OpsSince(row.cursor)
    /\ sync[t].at \in {"compare", "read", "adopt"} =>
         sync[t].last <= sync[t].rev /\ Reaches(host, sync[t].hash, sync[t].rev)
    /\ sync[t].at \in {"read", "adopt"} => records = sync[t].hash

Follows ==
    Without(Mishaps \ {"crash"}) =>
        /\ \A t, u \in Syncs : Pulls(t, "idle") \/ Pulls(u, "idle") \/ t = u
        /\ \A r \in Runs : RunFollows(r)
        /\ \A t \in Syncs : PullFollows(t)
        /\ row.mode = "native" => Reaches(host, records, row.cursor)

IInv == TypeOK /\ Revisions /\ OneRun /\ Pointed /\ MovedOnce /\ Follows

-----------------------------------------------------------------------------
(* Sets of naturals *)

LEMMA LeastNatural ==
    ASSUME NEW T \in SUBSET Nat, T # {}
    PROVE  \E m \in T : \A y \in T : m <= y
<1> DEFINE R == OpToRel(<, Nat)
<1>1. IsWellFoundedOn(R, Nat)
  BY Zenon, NatLessThanWellFounded
<1> HIDE DEF R
<1>2. PICK m \in T : \A y \in T : ~(<<y, m>> \in R)
  BY Zenon, <1>1, WFMin
<1>3. \A y \in T : ~(y < m)
  BY Zenon, <1>2 DEF R, OpToRel
<1> QED BY <1>3

LEMMA MinIsLeast ==
    ASSUME NEW S \in SUBSET Nat, S # {}
    PROVE  Min(S) \in S /\ \A y \in S : Min(S) <= y
BY Zenon, LeastNatural DEF Min

LEMMA MaxIsGreatest ==
    ASSUME NEW n \in Nat, NEW S \in SUBSET (0..n), S # {}
    PROVE  Max(S) \in S /\ \A y \in S : y <= Max(S)
<1> DEFINE T == {n - y : y \in S}
<1>1. T \in SUBSET Nat /\ T # {}
  <2>1. \A y \in S : n - y \in Nat
    OBVIOUS
  <2> QED BY Zenon, <2>1
<1>2. PICK m \in T : \A z \in T : m <= z
  <2> HIDE DEF T
  <2> QED BY Zenon, <1>1, LeastNatural
<1>3. PICK x \in S : m = n - x
  BY Zenon, <1>2
<1>4. ASSUME NEW y \in S PROVE y <= x
  <2>1. m <= n - y
    BY Zenon, <1>2
  <2> QED BY <1>3, <2>1
<1>5. \E z \in S : \A y \in S : z >= y
  <2>1. \A y \in S : x >= y
    BY Zenon, <1>4
  <2> QED BY Zenon, <2>1
<1>6. Max(S) \in S /\ \A y \in S : Max(S) >= y
  BY Zenon, <1>5 DEF Max
<1> QED BY Zenon, <1>6

-----------------------------------------------------------------------------
(* The PDS *)

Writes(log, k) == {i \in DOMAIN log : log[i].key = k}

LEMMA WritesLast ==
    ASSUME NEW log \in Seq(HostOp), NEW k \in Keys, Writes(log, k) # {}
    PROVE  /\ Max(Writes(log, k)) \in DOMAIN log
           /\ Max(Writes(log, k)) \in Writes(log, k)
           /\ \A i \in Writes(log, k) : i <= Max(Writes(log, k))
<1>1. Len(log) \in Nat /\ DOMAIN log = 1..Len(log)
  OBVIOUS
<1>2. Writes(log, k) \in SUBSET (0..Len(log))
  BY <1>1 DEF Writes
<1>3. /\ Max(Writes(log, k)) \in Writes(log, k)
      /\ \A i \in Writes(log, k) : i <= Max(Writes(log, k))
  BY Zenon, <1>1, <1>2, MaxIsGreatest
<1> QED BY Zenon, <1>3 DEF Writes

LEMMA HoldsLast ==
    ASSUME NEW log, NEW k
    PROVE  Holds(log, k) = IF Writes(log, k) = {} THEN None ELSE log[Max(Writes(log, k))].cid
BY Zenon DEF Holds, Writes

LEMMA HoldsTyped ==
    ASSUME NEW log \in Seq(HostOp), NEW k \in Keys
    PROVE  Holds(log, k) \in Cids \cup {None}
<1>1. CASE Writes(log, k) = {}
  BY Zenon, <1>1, HoldsLast
<1>2. CASE Writes(log, k) # {}
  <2>1. Max(Writes(log, k)) \in DOMAIN log
    BY Zenon, <1>2, WritesLast
  <2>2. \A i \in DOMAIN log : log[i] \in HostOp
    OBVIOUS
  <2>3. log[Max(Writes(log, k))].cid \in Cids \cup {None}
    BY Zenon, <2>1, <2>2 DEF HostOp
  <2> QED BY Zenon, <1>2, <2>3, HoldsLast
<1> QED BY Zenon, <1>1, <1>2

LEMMA DescribedTyped ==
    ASSUME NEW log \in Seq(HostOp)
    PROVE  Described(log) \in Contents /\ \A k \in Keys : Described(log)[k] = Holds(log, k)
BY Zenon, HoldsTyped DEF Described, Contents

(* The PDS holds what was written to it last. *)
LEMMA HoldsAppend ==
    ASSUME NEW log \in Seq(HostOp), NEW op \in HostOp, NEW k \in Keys
    PROVE  Holds(Append(log, op), k) = IF op.key = k THEN op.cid ELSE Holds(log, k)
<1> DEFINE more == Append(log, op)
           n == Len(log)
<1>1. /\ n \in Nat /\ more \in Seq(HostOp) /\ DOMAIN log = 1..n /\ DOMAIN more = 1..(n + 1)
      /\ more[n + 1] = op /\ \A i \in 1..n : more[i] = log[i]
  OBVIOUS
<1>2. \A i : i \in 1..(n + 1) <=> i \in 1..n \/ i = n + 1
  BY <1>1
<1> HIDE DEF more, n
<1>3. CASE op.key = k
  <2>1. n + 1 \in Writes(more, k)
    BY Zenon, <1>1, <1>2, <1>3 DEF Writes
  <2>2. Max(Writes(more, k)) \in 1..(n + 1) /\ n + 1 <= Max(Writes(more, k))
    BY Zenon, <1>1, <2>1, WritesLast
  <2>3. Max(Writes(more, k)) = n + 1
    BY <1>1, <2>2
  <2> QED BY Zenon, <1>1, <1>3, <2>1, <2>3, HoldsLast DEF more
<1>4. CASE op.key # k
  <2>1. \A i : i \in Writes(more, k) <=> i \in Writes(log, k)
    <3>0. ~(n + 1 \in 1..n)
      BY <1>1
    <3> QED BY Zenon, <1>1, <1>2, <1>4, <3>0 DEF Writes
  <2>2. Writes(more, k) = Writes(log, k)
    BY Zenon, <2>1
  <2>3. Writes(log, k) # {} => more[Max(Writes(log, k))] = log[Max(Writes(log, k))]
    BY Zenon, <1>1, WritesLast
  <2> QED BY Zenon, <1>4, <2>2, <2>3, HoldsLast DEF more
<1> QED BY Zenon, <1>3, <1>4

(* What a write to the PDS leaves true: nothing differs from it unseen. *)
HostMoves == host' = host \/ \E op \in HostOp : host' = Append(host, op)

LEMMA HostGrows ==
    ASSUME host \in Seq(HostOp), HostMoves
    PROVE  /\ host' \in Seq(HostOp) /\ HostRev \in Nat /\ HostRev' \in Nat /\ HostRev <= HostRev'
           /\ DOMAIN host \subseteq DOMAIN host'
           /\ \A rev : OpsSince(rev) \subseteq OpsSince(rev)'
           /\ \A i \in DOMAIN host : host'[i] = host[i]
<1>1. CASE host' = host
  BY <1>1 DEF HostRev, OpsSince
<1>2. CASE \E op \in HostOp : host' = Append(host, op)
  <2>1. PICK op \in HostOp : host' = Append(host, op)
    BY Zenon, <1>2
  <2>2. /\ Len(host) \in Nat /\ host' \in Seq(HostOp) /\ Len(host') = Len(host) + 1
        /\ DOMAIN host = 1..Len(host) /\ DOMAIN host' = 1..(Len(host) + 1)
        /\ \A i \in 1..Len(host) : host'[i] = host[i]
    BY <2>1
  <2>3. 1..Len(host) \subseteq 1..(Len(host) + 1)
    BY <2>2
  <2>4. HostRev \in Nat /\ HostRev' \in Nat /\ HostRev <= HostRev'
    BY <2>2 DEF HostRev
  <2> QED BY Zenon, <2>2, <2>3, <2>4 DEF OpsSince
<1> QED BY Zenon, <1>1, <1>2 DEF HostMoves

LEMMA ReachesKept ==
    ASSUME host \in Seq(HostOp), HostMoves, NEW contents, NEW rev \in Nat, rev <= HostRev,
           Reaches(host, contents, rev)
    PROVE  Reaches(host', contents, rev)
<1>1. CASE host' = host
  BY Zenon, <1>1
<1>2. CASE \E op \in HostOp : host' = Append(host, op)
  <2>1. PICK op \in HostOp : host' = Append(host, op)
    BY Zenon, <1>2
  <2> SUFFICES ASSUME NEW k \in Keys, contents[k] # Holds(host', k)
               PROVE  \E i \in DOMAIN host' : i + 1 > rev /\ host'[i].key = k
    BY Zenon DEF Reaches
  <2>2. CASE op.key = k
    <3>1. Len(host) \in Nat /\ DOMAIN host' = 1..(Len(host) + 1) /\ host'[Len(host) + 1] = op
      BY <2>1
    <3>2. Len(host) + 1 \in DOMAIN host' /\ (Len(host) + 1) + 1 > rev
      BY <3>1 DEF HostRev
    <3> QED BY Zenon, <2>2, <3>1, <3>2
  <2>3. CASE op.key # k
    <3>1. contents[k] # Holds(host, k)
      BY Zenon, <2>1, <2>3, HoldsAppend
    <3>2. PICK i \in DOMAIN host : i + 1 > rev /\ host[i].key = k
      BY Zenon, <3>1 DEF Reaches
    <3>3. i \in DOMAIN host' /\ host'[i] = host[i]
      BY Zenon, <3>2, HostGrows
    <3> QED BY Zenon, <3>2, <3>3
  <2> QED BY Zenon, <2>2, <2>3
<1> QED BY Zenon, <1>1, <1>2 DEF HostMoves

(* An index that agrees with the PDS has seen all of it. *)
LEMMA DescribedReaches ==
    ASSUME NEW log \in Seq(HostOp), NEW rev
    PROVE  Reaches(log, Described(log), rev)
BY Zenon, DescribedTyped DEF Reaches

(* An older cursor reaches as far. *)
LEMMA ReachesEarlier ==
    ASSUME NEW log \in Seq(HostOp), NEW contents, NEW rev \in Nat, NEW since \in Nat,
           since <= rev, Reaches(log, contents, rev)
    PROVE  Reaches(log, contents, since)
<1>1. \A i \in DOMAIN log : i + 1 > rev => i + 1 > since
  OBVIOUS
<1> QED BY Zenon, <1>1 DEF Reaches

-----------------------------------------------------------------------------
(* Steps of a run *)

(* Only r's place changes. *)
Only(r) ==
    /\ run' \in [Runs -> RunType]
    /\ \A q \in Runs : q # r => run'[q] = run[q]

(* What the step does to r's job: it goes on, ends or claims it. *)
Leased(r) ==
    \/ run[r].at # "free" /\ run'[r].at # "free" /\ UNCHANGED jobVars
    \/ End(r)
    \/ /\ run'[r].at # "free" /\ leases' = leases \cup {r} /\ UNCHANGED asked
       /\ Live = {} \/ "twice" \in mishaps'

(* What makes r's new place a good one, given its old one. *)
Sound(r) ==
    /\ run'[r].rev <= HostRev
    /\ Verified(run'[r]) => run'[r].rev # None
    /\ run'[r].at = "send" => run'[r].next \in Keys
    /\ HandsOver(run'[r]) => HandsOver(run[r])
    /\ \/ run'[r].at \in {"free", "start"}
       \/ run[r].at \notin {"free", "start"}
       \/ row.mode # "native"
       \/ "blind" \in mishaps'
    /\ Listed(run'[r]) =>
         \/ run'[r].recs = records
         \/ Listed(run[r]) /\ run'[r].recs = run[r].recs
    /\ Verified(run'[r]) =>
         \/ Verified(run[r]) /\ run'[r].rev = run[r].rev
         \/ Listed(run[r]) /\ Reaches(host, run[r].recs, run'[r].rev)

LEMMA WithoutBefore ==
    ASSUME mishaps \subseteq mishaps', NEW X, Without(X)'
    PROVE  Without(X)
BY Zenon DEF Without

LEMMA PullTypeGrows ==
    ASSUME host \in Seq(HostOp), HostMoves, NEW x \in PullType
    PROVE  x \in PullType'
<1>1. /\ HostRev \in Nat /\ HostRev' \in Nat /\ HostRev <= HostRev'
      /\ DOMAIN host \subseteq DOMAIN host'
  BY Zenon, HostGrows
<1>2. \A n \in 0..HostRev : n \in 0..HostRev'
  BY <1>1
<1>3. \A S \in SUBSET DOMAIN host : S \in SUBSET DOMAIN host'
  BY Zenon, <1>1
<1> QED BY Zenon, <1>2, <1>3 DEF PullType

(* The leases are those of runs that go. *)
LEMMA LeaseHolds ==
    ASSUME IInv, NEW r \in Runs, Only(r), Leased(r), mishaps \subseteq mishaps'
    PROVE  leases' \subseteq Live' /\ asked' \subseteq leases' /\ OneRun'
<1>1. leases \subseteq Live /\ asked \subseteq leases
  BY Zenon DEF IInv, TypeOK
<1>2. Without({"twice"})' => \A q, s \in Runs : run[q].at = "free" \/ run[s].at = "free" \/ q = s
  BY Zenon, WithoutBefore DEF IInv, OneRun, At
<1>3. \A q \in Live : q # r => q \in Live'
  BY Zenon DEF Only, Live, At
<1>4. CASE run[r].at # "free" /\ run'[r].at # "free" /\ UNCHANGED jobVars
  <2>1. r \in Live'
    BY Zenon, <1>4 DEF Live, At
  <2>2. OneRun'
    BY Zenon, <1>2, <1>4 DEF Only, OneRun, At
  <2> QED BY Zenon, <1>1, <1>3, <1>4, <2>1, <2>2 DEF jobVars
<1>5. CASE End(r)
  <2>1. leases' = leases \ {r} /\ asked' = asked \ {r}
    BY Zenon, <1>5 DEF End
  <2>2. run'[r].at = "free"
    BY Zenon, <1>5 DEF IInv, TypeOK, End, NoRun
  <2>3. OneRun'
    BY Zenon, <1>2, <2>2 DEF Only, OneRun, At
  <2> QED BY Zenon, <1>1, <1>3, <2>1, <2>3
<1>6. CASE /\ run'[r].at # "free" /\ leases' = leases \cup {r} /\ UNCHANGED asked
           /\ Live = {} \/ "twice" \in mishaps'
  <2>1. r \in Live'
    BY Zenon, <1>6 DEF Live, At
  <2>2. Without({"twice"})' => \A q \in Runs : run[q].at = "free"
    BY Zenon, <1>6 DEF Without, Live, At
  <2>3. OneRun'
    BY Zenon, <2>2 DEF Only, OneRun, At
  <2> QED BY Zenon, <1>1, <1>3, <1>6, <2>1, <2>3
<1> QED BY Zenon, <1>4, <1>5, <1>6 DEF Leased

(* What a step that leaves the row, the index and the pulls alone keeps,   *)
(* whoever writes to the PDS.                                              *)
LEMMA PullsHold ==
    ASSUME IInv, HostMoves, mishaps \subseteq mishaps', UNCHANGED <<row, records, sync>>
    PROVE  /\ sync' \in [Syncs -> PullType']
           /\ HostRev \in Nat /\ HostRev' \in Nat /\ HostRev <= HostRev'
           /\ Without({"torn"})' => row'.cursor <= HostRev'
           /\ Without(Mishaps \ {"crash"})' =>
                /\ \A t \in Syncs : PullFollows(t)'
                /\ row'.mode = "native" => Reaches(host', records', row'.cursor)
                /\ \A q \in Runs : run'[q] = run[q] => RunFollows(q)'
<1>1. /\ host \in Seq(HostOp) /\ sync \in [Syncs -> PullType] /\ row.cursor \in Nat
      /\ \A q \in Runs : run[q].rev \in Nat
  BY Zenon DEF IInv, TypeOK, RowType, RunType
<1>2. /\ HostRev \in Nat /\ HostRev' \in Nat /\ HostRev <= HostRev'
      /\ \A rev : OpsSince(rev) \subseteq OpsSince(rev)'
  BY Zenon, <1>1, HostGrows
<1>3. sync' \in [Syncs -> PullType']
  <2>1. \A t \in Syncs : sync[t] \in PullType'
    BY Zenon, <1>1, PullTypeGrows
  <2> QED BY Zenon, <1>1, <2>1
<1>4. Without({"torn"})' => row.cursor <= HostRev
  BY Zenon, WithoutBefore DEF IInv, Pointed
<1>5. Without({"torn"})' => row.cursor <= HostRev'
  BY <1>1, <1>2, <1>4
<1>6. ASSUME Without(Mishaps \ {"crash"})'
      PROVE  /\ \A t \in Syncs : PullFollows(t)'
             /\ row'.mode = "native" => Reaches(host', records', row'.cursor)
             /\ \A q \in Runs : run'[q] = run[q] => RunFollows(q)'
  <2>1. Without(Mishaps \ {"crash"}) /\ Without({"torn"})'
    <3>1. {"torn"} \subseteq Mishaps \ {"crash"}
      BY Zenon DEF Mishaps
    <3> QED BY Zenon, <1>6, <3>1, WithoutBefore DEF Without
  <2>2. /\ \A r \in Runs : RunFollows(r)
        /\ \A t \in Syncs : PullFollows(t)
        /\ row.mode = "native" => Reaches(host, records, row.cursor)
    BY Zenon, <2>1 DEF IInv, Follows
  <2>3. row.cursor <= HostRev
    BY Zenon, <1>4, <2>1
  <2>4. \A contents : Reaches(host, contents, row.cursor) => Reaches(host', contents, row.cursor)
    BY Zenon, <1>1, <2>3, ReachesKept
  <2>5. ASSUME NEW t \in Syncs PROVE PullFollows(t)'
    <3>1. sync[t].rev \in Nat /\ sync[t].rev <= HostRev
      BY <1>1, <1>2 DEF PullType
    <3>2. Reaches(host, sync[t].hash, sync[t].rev) => Reaches(host', sync[t].hash, sync[t].rev)
      BY Zenon, <1>1, <3>1, ReachesKept
    <3>3. sync[t].todo \subseteq OpsSince(row.cursor) => sync[t].todo \subseteq OpsSince(row.cursor)'
      BY Zenon, <1>2
    <3> QED BY Zenon, <2>2, <3>2, <3>3 DEF PullFollows, Pulls
  <2>6. ASSUME NEW q \in Runs, run'[q] = run[q] PROVE RunFollows(q)'
    <3>1. run[q].rev <= HostRev
      BY Zenon DEF IInv, Revisions
    <3>2. Reaches(host, records, run[q].rev) => Reaches(host', records, run[q].rev)
      BY Zenon, <1>1, <3>1, ReachesKept
    <3> QED BY Zenon, <2>2, <2>4, <2>6, <3>2 DEF RunFollows
  <2> QED BY Zenon, <2>2, <2>4, <2>5, <2>6
<1> QED BY Zenon, <1>2, <1>3, <1>5, <1>6

LEMMA RunMoves ==
    ASSUME IInv, NEW r \in Runs, Only(r), Leased(r), Sound(r), HostMoves,
           mishaps \subseteq mishaps', mishaps' \subseteq Mishaps,
           UNCHANGED <<row, records, sync, client, commits>>
    PROVE  IInv'
<1>0. /\ host \in Seq(HostOp) /\ host' \in Seq(HostOp)
      /\ run \in [Runs -> RunType] /\ run' \in [Runs -> RunType]
  BY Zenon, HostGrows DEF IInv, TypeOK, Only
<1>1. /\ HostRev \in Nat /\ HostRev' \in Nat /\ HostRev <= HostRev'
      /\ sync' \in [Syncs -> PullType']
      /\ Without({"torn"})' => row'.cursor <= HostRev'
  BY Zenon, PullsHold
<1>2. TypeOK'
  BY Zenon, <1>0, <1>1, LeaseHolds DEF IInv, TypeOK
<1>3. Revisions'
  <2>1. ASSUME NEW q \in Runs
        PROVE  /\ run'[q].rev <= HostRev
               /\ Verified(run'[q]) => run'[q].rev # None
               /\ run'[q].at = "send" => run'[q].next \in Keys
    BY Zenon DEF IInv, Revisions, Only, Sound, At
  <2>2. \A q \in Runs : run'[q].rev <= HostRev'
    <3>1. \A q \in Runs : run'[q].rev \in Nat
      BY Zenon, <1>0 DEF RunType
    <3> QED BY <1>1, <2>1, <3>1
  <2> QED BY Zenon, <2>1, <2>2 DEF IInv, Revisions, At
<1>4. OneRun'
  BY Zenon, LeaseHolds
<1>5. Pointed'
  BY Zenon, <1>1, WithoutBefore DEF IInv, Pointed, Only, Sound
<1>6. MovedOnce'
  <2>1. SUFFICES ASSUME Without(TakenBack)'
                 PROVE  /\ row'.mode = "native" => \A q \in Runs : run'[q].at \in {"free", "start"}
                        /\ row'.mode # "native" => \A t \in Syncs : Pulls(t, "idle")'
    BY Zenon DEF MovedOnce
  <2>2. Without(TakenBack) /\ "blind" \notin mishaps'
    BY Zenon, <2>1, WithoutBefore DEF Without, TakenBack
  <2> QED BY Zenon, <2>2 DEF IInv, MovedOnce, Only, Sound, Pulls
<1>7. Follows'
  <2>1. SUFFICES ASSUME Without(Mishaps \ {"crash"})'
                 PROVE  /\ \A t, u \in Syncs : Pulls(t, "idle")' \/ Pulls(u, "idle")' \/ t = u
                        /\ \A q \in Runs : RunFollows(q)'
                        /\ \A t \in Syncs : PullFollows(t)'
                        /\ row'.mode = "native" => Reaches(host', records', row'.cursor)
    BY Zenon DEF Follows
  <2>2. Without(Mishaps \ {"crash"})
    BY Zenon, <2>1, WithoutBefore
  <2>3. /\ \A t \in Syncs : PullFollows(t)'
        /\ row'.mode = "native" => Reaches(host', records', row'.cursor)
        /\ \A q \in Runs : q # r => RunFollows(q)'
    BY Zenon, <2>1, PullsHold DEF Only
  <2>4. RunFollows(r)'
    <3>1. RunFollows(r)
      BY Zenon, <2>2 DEF IInv, Follows
    <3>2. Listed(run'[r]) => run'[r].recs = records
      BY Zenon, <3>1 DEF RunFollows, Sound
    <3>3. Verified(run'[r]) => Reaches(host', records, run'[r].rev)
      <4>1. Verified(run'[r]) => Reaches(host, records, run'[r].rev)
        BY Zenon, <3>1 DEF RunFollows, Sound
      <4>2. run'[r].rev \in Nat
        BY Zenon, <1>0 DEF RunType
      <4> QED BY Zenon, <1>0, <4>1, <4>2, ReachesKept DEF Sound
    <3>4. HandsOver(run'[r]) => Reaches(host', records, row.cursor)
      <4>1. HandsOver(run'[r]) => Reaches(host, records, row.cursor)
        BY Zenon, <3>1 DEF RunFollows, Sound
      <4>2. row.cursor \in Nat
        BY Zenon DEF IInv, TypeOK, RowType
      <4>3. row.cursor <= HostRev
        <5>1. {"torn"} \subseteq Mishaps \ {"crash"}
          BY Zenon DEF Mishaps
        <5> QED BY Zenon, <2>2, <5>1 DEF IInv, Pointed, Without
      <4> QED BY Zenon, <1>0, <4>1, <4>2, <4>3, ReachesKept
    <3> QED BY Zenon, <3>2, <3>3, <3>4 DEF RunFollows
  <2> QED BY Zenon, <2>2, <2>3, <2>4 DEF IInv, Follows, Pulls
<1> QED BY Zenon, <1>2, <1>3, <1>4, <1>5, <1>6, <1>7 DEF IInv

LEMMA RunTyped ==
    ASSUME IInv, NEW r \in Runs
    PROVE  /\ run[r] \in RunType /\ run[r].rev \in Nat /\ run[r].rev <= HostRev
           /\ mishaps \subseteq Mishaps /\ row \in RowType /\ records \in Contents
           /\ host \in Seq(HostOp) /\ HostRev \in Nat
           /\ run \in [Runs -> RunType]
           /\ At(r, "send") => run[r].next \in Keys
           /\ Verified(run[r]) => run[r].rev # None
<1>1. /\ run \in [Runs -> RunType] /\ mishaps \subseteq Mishaps /\ row \in RowType
      /\ records \in Contents /\ host \in Seq(HostOp)
  BY Zenon DEF IInv, TypeOK
<1>2. run[r] \in RunType /\ HostRev \in Nat
  BY <1>1 DEF HostRev
<1>3. run[r].rev \in Nat
  BY Zenon, <1>2 DEF RunType
<1> QED BY Zenon, <1>1, <1>2, <1>3 DEF IInv, Revisions

LEMMA BlankTyped == Blank \in RowType
BY Zenon DEF Blank, RowType, Modes, None

LEMMA NoneTyped == [k \in Keys |-> None] \in Contents
BY Zenon DEF Contents

LEMMA NoRunTyped == NoRun \in RunType
<1>1. 1 \in 1..(MaxKey + 1) /\ None \in Nat
  BY NativeRepoAssumption DEF None
<1>2. "polyfill" \in Modes
  BY Zenon DEF Modes
<1> QED BY Zenon, <1>1, <1>2, BlankTyped, NoneTyped DEF NoRun, RunType

(* A run ends, wherever it was. *)
LEMMA EndsBare ==
    ASSUME IInv, NEW r \in Runs, End(r)
    PROVE  /\ Only(r) /\ run'[r].at = "free" /\ run'[r].rev <= HostRev
           /\ ~Listed(run'[r]) /\ ~Verified(run'[r]) /\ ~HandsOver(run'[r]) /\ run'[r].at # "send"
<1>1. run \in [Runs -> RunType]
  BY Zenon, RunTyped
<1>2. run' \in [Runs -> RunType] /\ run'[r] = NoRun /\ \A q \in Runs : q # r => run'[q] = run[q]
  BY Zenon, <1>1, NoRunTyped DEF End
<1>3. run'[r].at = "free" /\ run'[r].rev = 0
  BY <1>2 DEF NoRun, None
<1>4. run'[r].rev <= HostRev
  BY <1>3, RunTyped
<1>5. ~Listed(run'[r]) /\ ~Verified(run'[r]) /\ ~HandsOver(run'[r]) /\ run'[r].at # "send"
  BY Zenon, <1>3 DEF Listed, Verified, HandsOver
<1> QED BY Zenon, <1>2, <1>3, <1>4, <1>5 DEF Only

LEMMA RunEnds ==
    ASSUME IInv, NEW r \in Runs, End(r), HostMoves,
           mishaps \subseteq mishaps', mishaps' \subseteq Mishaps,
           UNCHANGED <<row, records, sync, client, commits>>
    PROVE  IInv'
<1>1. Only(r) /\ Leased(r) /\ Sound(r)
  BY Zenon, EndsBare DEF Leased, Sound
<1> QED BY Zenon, <1>1, RunMoves

Places == {"free", "start", "list", "setmode", "write", "replay", "send", "verify",
           "handoff", "point", "cursor", "failed"}

LEMMA Gone ==
    ASSUME IInv, NEW r \in Runs, NEW at \in Places, Goto(r, at)
    PROVE  /\ Only(r)
           /\ run'[r].at = at /\ run'[r].to = run[r].to /\ run'[r].recs = run[r].recs
           /\ run'[r].next = run[r].next /\ run'[r].rev = run[r].rev
<1>1. run \in [Runs -> RunType] /\ run[r] \in RunType
  BY Zenon, RunTyped
<1>2. run' = [run EXCEPT ![r] = [run[r] EXCEPT !.at = at, !.read = Blank]]
  BY Zenon, <1>1 DEF Goto, RunType
<1>3. [run[r] EXCEPT !.at = at, !.read = Blank] \in RunType
  BY Zenon, <1>1, BlankTyped DEF RunType, Places
<1>4. /\ run'[r] = [run[r] EXCEPT !.at = at, !.read = Blank] /\ run' \in [Runs -> RunType]
      /\ \A q \in Runs : q # r => run'[q] = run[q]
  BY Zenon, <1>1, <1>2, <1>3
<1> QED BY Zenon, <1>1, <1>4 DEF Only, RunType

(* A run goes on to a place it has nothing in hand for. *)
LEMMA GoesBare ==
    ASSUME IInv, NEW r \in Runs, Only(r), run[r].at # "free", UNCHANGED jobVars, HostMoves,
           mishaps \subseteq mishaps', mishaps' \subseteq Mishaps,
           run'[r].rev = run[r].rev, run'[r].at # "free",
           ~Listed(run'[r]), ~HandsOver(run'[r]),
           \/ run[r].at # "start" \/ row.mode # "native" \/ "blind" \in mishaps',
           UNCHANGED <<row, records, sync, client, commits>>
    PROVE  IInv'
<1>1. ~Verified(run'[r]) /\ run'[r].at # "send"
  BY Zenon DEF Listed, Verified
<1>2. run'[r].rev <= HostRev
  BY Zenon, RunTyped
<1>3. Leased(r) /\ Sound(r)
  BY Zenon, <1>1, <1>2 DEF Leased, Sound
<1> QED BY Zenon, <1>3, RunMoves

-----------------------------------------------------------------------------
(* The steps that leave the row alone *)

LEMMA NoMishap ==
    ASSUME IInv, mishaps' = mishaps
    PROVE  mishaps \subseteq mishaps' /\ mishaps' \subseteq Mishaps
BY Zenon DEF IInv, TypeOK

LEMMA ClaimHolds ==
    ASSUME IInv, NEW r \in Runs, Claim(r)
    PROVE  IInv'
<1>1. Goto(r, "start") /\ "start" \in Places
  BY Zenon DEF Claim, Places
<1>2. Only(r) /\ run'[r].at = "start" /\ run'[r].rev = run[r].rev
  BY Zenon, <1>1, Gone
<1>3. ~Listed(run'[r]) /\ ~Verified(run'[r]) /\ ~HandsOver(run'[r]) /\ run'[r].at # "send"
  BY Zenon, <1>2 DEF Listed, Verified, HandsOver
<1>4. run'[r].at # "free"
  BY Zenon, <1>2
<1>5. /\ mishaps \subseteq mishaps' /\ mishaps' \subseteq Mishaps
      /\ Live = {} \/ "twice" \in mishaps'
  BY Zenon, RunTyped DEF Claim, Mishaps
<1>6. Leased(r) /\ Sound(r)
  BY Zenon, <1>2, <1>3, <1>4, <1>5, RunTyped DEF Claim, Leased, Sound
<1> QED BY Zenon, <1>2, <1>5, <1>6, RunMoves DEF Claim, HostMoves, elsewhere

LEMMA CrashHolds ==
    ASSUME IInv, NEW r \in Runs, Crash(r)
    PROVE  IInv'
<1>1. mishaps' \subseteq Mishaps
  BY Zenon, RunTyped DEF Crash, Mishaps
<1> QED BY Zenon, <1>1, RunEnds DEF Crash, HostMoves, elsewhere

LEMMA SkipHolds ==
    ASSUME IInv, NEW r \in Runs, Skip(r)
    PROVE  IInv'
BY Zenon, RunEnds, NoMishap DEF Skip, HostMoves, elsewhere

LEMMA LookAtModeHolds ==
    ASSUME IInv, NEW r \in Runs, LookAtMode(r)
    PROVE  IInv'
<1>1. CASE row.mode = "native"
  BY Zenon, <1>1, RunEnds, NoMishap DEF LookAtMode, HostMoves, elsewhere
<1>2. CASE row.mode # "native"
  <2>1. Goto(r, "list") /\ "list" \in Places
    BY Zenon, <1>2 DEF LookAtMode, Places
  <2>2. Only(r) /\ run'[r].at = "list" /\ run'[r].rev = run[r].rev
    BY Zenon, <2>1, Gone
  <2>3. ~Listed(run'[r]) /\ ~HandsOver(run'[r]) /\ run'[r].at # "free" /\ run[r].at # "free"
    BY Zenon, <2>2 DEF LookAtMode, At, Listed, HandsOver
  <2> QED BY Zenon, <1>2, <2>2, <2>3, GoesBare, NoMishap DEF LookAtMode, HostMoves, elsewhere
<1> QED BY Zenon, <1>1, <1>2

LEMMA ListRecordsHolds ==
    ASSUME IInv, NEW r \in Runs, ListRecords(r)
    PROVE  IInv'
<1>1. run \in [Runs -> RunType] /\ run[r] \in RunType /\ records \in Contents
  BY Zenon, RunTyped
<1> DEFINE x == [run[r] EXCEPT !.at = "setmode", !.to = "migrating", !.recs = records]
<1>2. run' = [run EXCEPT ![r] = x] /\ x \in RunType
  BY Zenon, <1>1 DEF ListRecords, RunType, Modes
<1>3. run' \in [Runs -> RunType] /\ run'[r] = x /\ \A q \in Runs : q # r => run'[q] = run[q]
  <2> HIDE DEF x
  <2> QED BY Zenon, <1>1, <1>2
<1>4. /\ run'[r].at = "setmode" /\ run'[r].to = "migrating" /\ run'[r].recs = records
      /\ run'[r].rev = run[r].rev
  BY Zenon, <1>1, <1>3 DEF RunType
<1>5. /\ ~Verified(run'[r]) /\ ~HandsOver(run'[r]) /\ run'[r].at # "send" /\ run'[r].at # "free"
      /\ run[r].at \notin {"free", "start"}
  BY Zenon, <1>4 DEF Verified, HandsOver, ListRecords, At
<1>6. Only(r) /\ Leased(r) /\ Sound(r)
  <2> HIDE DEF x
  <2> QED BY Zenon, <1>3, <1>4, <1>5, RunTyped DEF Only, Leased, Sound, ListRecords
<1> QED BY Zenon, <1>6, RunMoves, NoMishap DEF ListRecords, HostMoves, elsewhere

(* A run gives up: it ends, or is on its way back to polyfill. *)
LEMMA StoppedHolds ==
    ASSUME IInv, NEW r \in Runs, NEW reason, Stopped(r, reason),
           run[r].at \notin {"free", "start"}, mishaps' = mishaps,
           UNCHANGED <<row, records, host, elsewhere>>
    PROVE  IInv'
<1>1. CASE reason = "lost"
  BY Zenon, <1>1, RunEnds, NoMishap DEF Stopped, HostMoves, elsewhere
<1>2. CASE reason # "lost"
  <2>1. run \in [Runs -> RunType] /\ run[r] \in RunType
    BY Zenon, RunTyped
  <2> DEFINE x == [run[r] EXCEPT !.at = "setmode", !.to = "polyfill", !.read = Blank]
  <2>2. run' = [run EXCEPT ![r] = x] /\ x \in RunType
    BY Zenon, <1>2, <2>1, BlankTyped DEF Stopped, SetModeTo, RunType, Modes
  <2>3. run' \in [Runs -> RunType] /\ run'[r] = x /\ \A q \in Runs : q # r => run'[q] = run[q]
    <3> HIDE DEF x
    <3> QED BY Zenon, <2>1, <2>2
  <2>4. run'[r].at = "setmode" /\ run'[r].to = "polyfill" /\ run'[r].rev = run[r].rev
    BY Zenon, <2>1, <2>3 DEF RunType
  <2>5. ~Listed(run'[r]) /\ ~HandsOver(run'[r]) /\ run'[r].at # "free"
    BY Zenon, <2>4 DEF Listed, HandsOver
  <2>6. run[r].at # "start" /\ run[r].at # "free"
    BY Zenon
  <2>7. Only(r) /\ UNCHANGED jobVars
    <3> HIDE DEF x
    <3> QED BY Zenon, <1>2, <2>3 DEF Only, Stopped
  <2> HIDE DEF x
  <2> QED BY Zenon, <2>4, <2>5, <2>6, <2>7, GoesBare, NoMishap DEF HostMoves, elsewhere
<1> QED BY Zenon, <1>1, <1>2

LEMMA FailedHolds ==
    ASSUME IInv, NEW r \in Runs, Failed(r)
    PROVE  IInv'
<1>1. run[r].at \notin {"free", "start"}
  BY Zenon DEF Failed, At
<1> QED BY Zenon, <1>1, StoppedHolds DEF Failed

(* A run fails where it is. *)
LEMMA GoesFailed ==
    ASSUME IInv, NEW r \in Runs, Goto(r, "failed"), run[r].at # "free", UNCHANGED jobVars,
           \/ run[r].at # "start" \/ "blind" \in mishaps',
           HostMoves, mishaps \subseteq mishaps', mishaps' \subseteq Mishaps,
           UNCHANGED <<row, records, elsewhere>>
    PROVE  IInv'
<1>1. "failed" \in Places
  BY Zenon DEF Places
<1>2. Only(r) /\ run'[r].at = "failed" /\ run'[r].rev = run[r].rev
  BY Zenon, <1>1, Gone
<1>3. ~Listed(run'[r]) /\ ~HandsOver(run'[r]) /\ run'[r].at # "free"
  BY Zenon, <1>2 DEF Listed, HandsOver
<1> QED BY Zenon, <1>2, <1>3, GoesBare DEF elsewhere

(* A run goes on with what it has in hand, and no further than that. *)
LEMMA GoesOn ==
    ASSUME IInv, NEW r \in Runs, NEW at \in {"replay", "verify", "point"}, Goto(r, at),
           Listed(run[r]), at = "point" => Verified(run[r]), UNCHANGED jobVars,
           mishaps' = mishaps, UNCHANGED <<row, records, host, elsewhere>>
    PROVE  IInv'
<1>1. at \in Places /\ at \notin {"free", "send", "setmode", "write"}
  BY Zenon DEF Places
<1>2. /\ Only(r) /\ run'[r].at = at /\ run'[r].rev = run[r].rev
      /\ run'[r].recs = run[r].recs
  BY Zenon, <1>1, Gone
<1>3. /\ ~HandsOver(run'[r]) /\ run'[r].at # "send" /\ run'[r].at # "free"
      /\ Verified(run'[r]) => Verified(run[r])
  BY Zenon, <1>2 DEF HandsOver, Verified
<1>4. run[r].at \notin {"free", "start"}
  BY Zenon DEF Listed
<1>5. Leased(r) /\ Sound(r)
  BY Zenon, <1>2, <1>3, <1>4, RunTyped DEF Leased, Sound
<1> QED BY Zenon, <1>2, <1>5, RunMoves, NoMishap DEF HostMoves, elsewhere

LEMMA SetModeHolds ==
    ASSUME IInv, NEW r \in Runs, SetMode(r)
    PROVE  IInv'
<1>0. run[r].at = "setmode" /\ run[r].at \notin {"free", "start"} /\ mishaps' = mishaps
  BY Zenon DEF SetMode, At
<1>1. CASE Proceed(r)
  <2>1. CASE run[r].to = "migrating"
    <3>1. Listed(run[r])
      BY Zenon, <1>0, <2>1 DEF Listed
    <3>2. "replay" # "point" /\ "replay" \in {"replay", "verify", "point"}
      BY Zenon
    <3> QED BY Zenon, <1>0, <1>1, <2>1, <3>1, <3>2, GoesOn DEF Proceed, SetMode
  <2>2. CASE run[r].to # "migrating"
    BY Zenon, <1>0, <1>1, <2>2, RunEnds, NoMishap DEF Proceed, SetMode, HostMoves, elsewhere
  <2> QED BY Zenon, <2>1, <2>2
<1>2. CASE run' = [run EXCEPT ![r].at = "write", ![r].read = row] /\ UNCHANGED jobVars
  <2>1. run \in [Runs -> RunType] /\ run[r] \in RunType /\ row \in RowType
    BY Zenon, RunTyped
  <2> DEFINE x == [run[r] EXCEPT !.at = "write", !.read = row]
  <2>2. run' = [run EXCEPT ![r] = x] /\ x \in RunType
    BY Zenon, <1>2, <2>1 DEF RunType
  <2>3. run' \in [Runs -> RunType] /\ run'[r] = x /\ \A q \in Runs : q # r => run'[q] = run[q]
    <3> HIDE DEF x
    <3> QED BY Zenon, <2>1, <2>2
  <2>4. /\ run'[r].at = "write" /\ run'[r].to = run[r].to /\ run'[r].rev = run[r].rev
        /\ run'[r].recs = run[r].recs
    BY Zenon, <2>1, <2>3 DEF RunType
  <2> HIDE DEF x
  <2>5. /\ ~Verified(run'[r]) /\ HandsOver(run'[r]) = HandsOver(run[r]) /\ run'[r].at # "send"
        /\ Listed(run'[r]) = Listed(run[r]) /\ run'[r].at # "free" /\ run[r].at # "free"
    BY Zenon, <1>0, <2>4 DEF Verified, HandsOver, Listed
  <2>6. Only(r) /\ Leased(r) /\ Sound(r)
    BY Zenon, <1>0, <1>2, <2>3, <2>4, <2>5, RunTyped DEF Only, Leased, Sound
  <2> QED BY Zenon, <1>0, <2>6, RunMoves, NoMishap DEF SetMode, HostMoves, elsewhere
<1>3. CASE IF run[r].to = "polyfill" THEN End(r) ELSE Goto(r, "failed") /\ UNCHANGED jobVars
  <2>1. CASE run[r].to = "polyfill"
    BY Zenon, <1>0, <1>3, <2>1, RunEnds, NoMishap DEF SetMode, HostMoves, elsewhere
  <2>2. CASE run[r].to # "polyfill"
    <3>1. run[r].at # "start" /\ run[r].at # "free"
      BY Zenon, <1>0
    <3> QED BY ZenonT(60), <1>0, <1>3, <2>2, <3>1, GoesFailed, NoMishap DEF SetMode, HostMoves
  <2> QED BY Zenon, <2>1, <2>2
<1> QED BY Zenon, <1>1, <1>2, <1>3 DEF SetMode

LEMMA NextBatchHolds ==
    ASSUME IInv, NEW r \in Runs, NextBatch(r)
    PROVE  IInv'
<1>0. /\ run[r].at = "replay" /\ run[r].at \notin {"free", "start"} /\ Listed(run[r])
      /\ mishaps' = mishaps
  BY Zenon DEF NextBatch, At, Listed
<1>1. CASE Unsent(r) = {}
  <2>1. "verify" # "point" /\ "verify" \in {"replay", "verify", "point"}
    BY Zenon
  <2> QED BY Zenon, <1>0, <1>1, <2>1, GoesOn DEF NextBatch
<1>2. CASE Unsent(r) # {} /\ ShouldStop(r) # "go"
  BY Zenon, <1>0, <1>2, StoppedHolds DEF NextBatch
<1>3. CASE Unsent(r) # {} /\ ShouldStop(r) = "go"
  <2>1. run \in [Runs -> RunType] /\ run[r] \in RunType
    BY Zenon, RunTyped
  <2>2. Min(Unsent(r)) \in Keys
    <3>1. Unsent(r) \subseteq Keys /\ Unsent(r) \in SUBSET Nat
      BY NativeRepoAssumption DEF Unsent, Keys
    <3> QED BY Zenon, <1>3, <3>1, MinIsLeast
  <2> DEFINE k == Min(Unsent(r))
             x == [run[r] EXCEPT !.at = "send", !.next = k]
  <2>3. k \in Keys /\ k \in 1..(MaxKey + 1) /\ run' = [run EXCEPT ![r].at = "send", ![r].next = k]
    <3>1. \A i \in Keys : i \in 1..(MaxKey + 1)
      BY NativeRepoAssumption DEF Keys
    <3> QED BY Zenon, <1>3, <2>2, <3>1 DEF NextBatch
  <2> HIDE DEF k
  <2>4. run' = [run EXCEPT ![r] = x] /\ x \in RunType
    BY Zenon, <2>1, <2>3 DEF RunType
  <2>5. run' \in [Runs -> RunType] /\ run'[r] = x /\ \A q \in Runs : q # r => run'[q] = run[q]
    <3> HIDE DEF x
    <3> QED BY Zenon, <2>1, <2>4
  <2>6. /\ run'[r].at = "send" /\ run'[r].next = k /\ run'[r].rev = run[r].rev
        /\ run'[r].recs = run[r].recs
    BY Zenon, <2>1, <2>5 DEF RunType
  <2> HIDE DEF x
  <2>7. /\ ~Verified(run'[r]) /\ ~HandsOver(run'[r]) /\ run'[r].at # "free" /\ run[r].at # "free"
    BY Zenon, <1>0, <2>6 DEF Verified, HandsOver
  <2>8. Only(r) /\ Leased(r) /\ Sound(r)
    BY ZenonT(60), <1>0, <1>3, <2>3, <2>5, <2>6, <2>7, RunTyped DEF Only, Leased, Sound, NextBatch
  <2> QED BY Zenon, <1>0, <2>8, RunMoves, NoMishap DEF NextBatch, HostMoves, elsewhere
<1> QED BY Zenon, <1>1, <1>2, <1>3

(* What a run sends is an op of the PDS. *)
LEMMA SentTyped ==
    ASSUME IInv, NEW r \in Runs, At(r, "send")
    PROVE  [key |-> run[r].next, cid |-> run[r].recs[run[r].next]] \in HostOp
<1>1. run[r].next \in Keys /\ run[r] \in RunType
  BY Zenon, RunTyped
<1>2. run[r].recs \in Contents
  BY Zenon, <1>1 DEF RunType
<1> QED BY Zenon, <1>1, <1>2 DEF Contents, HostOp

LEMMA SendBatchHolds ==
    ASSUME IInv, NEW r \in Runs, SendBatch(r)
    PROVE  IInv'
<1>0. run[r].at = "send" /\ run[r].at \notin {"free", "start"} /\ mishaps' = mishaps /\ Listed(run[r])
  BY Zenon DEF SendBatch, At, Listed
<1>1. CASE Holds(host, run[r].next) = None
  <2>1. /\ run \in [Runs -> RunType] /\ run[r] \in RunType /\ run[r].next \in Keys
    BY Zenon, <1>0, RunTyped DEF At
  <2>2. HostMoves
    BY Zenon, <1>0, <1>1, SentTyped DEF SendBatch, HostMoves, At
  <2> DEFINE x == [run[r] EXCEPT !.at = "replay", !.next = run[r].next + 1]
  <2>3. run' = [run EXCEPT ![r] = x]
    BY Zenon, <1>1, <2>1 DEF SendBatch, RunType
  <2>4. x \in RunType
    <3>1. run[r].next + 1 \in 1..(MaxKey + 1)
      BY <2>1, NativeRepoAssumption DEF Keys
    <3> QED BY Zenon, <2>1, <3>1 DEF RunType
  <2>5. run' \in [Runs -> RunType] /\ run'[r] = x /\ \A q \in Runs : q # r => run'[q] = run[q]
    <3> HIDE DEF x
    <3> QED BY Zenon, <2>1, <2>3, <2>4
  <2>6. run'[r].at = "replay" /\ run'[r].rev = run[r].rev /\ run'[r].recs = run[r].recs
    BY Zenon, <2>1, <2>5 DEF RunType
  <2> HIDE DEF x
  <2>7. /\ ~Verified(run'[r]) /\ ~HandsOver(run'[r]) /\ run'[r].at # "free" /\ run[r].at # "free"
        /\ run'[r].at # "send"
    BY Zenon, <1>0, <2>6 DEF Verified, HandsOver
  <2>8. Only(r) /\ Leased(r) /\ Sound(r)
    BY Zenon, <1>0, <2>5, <2>6, <2>7, RunTyped DEF Only, Leased, Sound, SendBatch
  <2> QED BY Zenon, <1>0, <2>2, <2>8, RunMoves, NoMishap DEF SendBatch, elsewhere
<1>2. CASE Holds(host, run[r].next) # None
  <2>1. run[r].at # "start" /\ run[r].at # "free"
    BY Zenon, <1>0
  <2> QED BY Zenon, <1>0, <1>2, <2>1, GoesFailed, NoMishap DEF SendBatch, HostMoves
<1> QED BY Zenon, <1>1, <1>2

LEMMA VerifyHolds ==
    ASSUME IInv, NEW r \in Runs, Verify(r)
    PROVE  IInv'
<1>0. run[r].at = "verify" /\ run[r].at \notin {"free", "start"} /\ mishaps' = mishaps /\ Listed(run[r])
  BY Zenon DEF Verify, At, Listed
<1>1. CASE Described(host) = run[r].recs
  <2>1. /\ run \in [Runs -> RunType] /\ run[r] \in RunType /\ HostRev \in Nat /\ host \in Seq(HostOp)
    BY Zenon, RunTyped
  <2> DEFINE n == HostRev
             x == [run[r] EXCEPT !.at = "handoff", !.rev = n]
  <2>2. n \in Nat /\ n # None /\ n <= HostRev
    BY <2>1 DEF HostRev, None
  <2>3. run' = [run EXCEPT ![r].at = "handoff", ![r].rev = n]
    BY Zenon, <1>1 DEF Verify
  <2> HIDE DEF n
  <2>4. run' = [run EXCEPT ![r] = x] /\ x \in RunType
    BY Zenon, <2>1, <2>2, <2>3 DEF RunType
  <2>5. run' \in [Runs -> RunType] /\ run'[r] = x /\ \A q \in Runs : q # r => run'[q] = run[q]
    <3> HIDE DEF x
    <3> QED BY Zenon, <2>1, <2>4
  <2>6. run'[r].at = "handoff" /\ run'[r].rev = n /\ run'[r].recs = run[r].recs
    BY Zenon, <2>1, <2>5 DEF RunType
  <2> HIDE DEF x
  <2>7. /\ ~HandsOver(run'[r]) /\ run'[r].at # "free" /\ run[r].at # "free" /\ run'[r].at # "send"
    BY Zenon, <1>0, <2>6 DEF HandsOver
  <2>8. Reaches(host, run[r].recs, run'[r].rev)
    BY Zenon, <1>1, <2>1, DescribedReaches
  <2>9. Only(r) /\ Leased(r) /\ Sound(r)
    BY Zenon, <1>0, <2>2, <2>5, <2>6, <2>7, <2>8 DEF Only, Leased, Sound, Verify
  <2> QED BY Zenon, <1>0, <2>9, RunMoves, NoMishap DEF Verify, HostMoves, elsewhere
<1>2. CASE Described(host) # run[r].recs
  <2>1. run[r].at # "start" /\ run[r].at # "free"
    BY Zenon, <1>0
  <2> QED BY Zenon, <1>0, <1>2, <2>1, GoesFailed, NoMishap DEF Verify, HostMoves
<1> QED BY Zenon, <1>1, <1>2

LEMMA HandOffHolds ==
    ASSUME IInv, NEW r \in Runs, HandOff(r)
    PROVE  IInv'
<1>0. /\ run[r].at = "handoff" /\ run[r].at \notin {"free", "start"} /\ Listed(run[r])
      /\ Verified(run[r]) /\ mishaps' = mishaps
  BY Zenon DEF HandOff, At, Listed, Verified
<1>1. CASE ShouldStop(r) # "go"
  BY Zenon, <1>0, <1>1, StoppedHolds DEF HandOff
<1>2. CASE ShouldStop(r) = "go"
  BY Zenon, <1>0, <1>2, GoesOn DEF HandOff
<1> QED BY Zenon, <1>1, <1>2

LEMMA ReadCursorHolds ==
    ASSUME IInv, NEW r \in Runs, ReadCursor(r)
    PROVE  IInv'
<1>0. /\ run[r].at = "point" /\ run[r].at \notin {"free", "start"} /\ Listed(run[r])
      /\ Verified(run[r]) /\ mishaps' = mishaps
  BY Zenon DEF ReadCursor, At, Listed, Verified
<1>1. run \in [Runs -> RunType] /\ run[r] \in RunType /\ row \in RowType
  BY Zenon, RunTyped
<1> DEFINE x == [run[r] EXCEPT !.at = "cursor", !.read = row]
<1>2. run' = [run EXCEPT ![r] = x] /\ x \in RunType
  BY Zenon, <1>1 DEF ReadCursor, RunType
<1>3. run' \in [Runs -> RunType] /\ run'[r] = x /\ \A q \in Runs : q # r => run'[q] = run[q]
  <2> HIDE DEF x
  <2> QED BY Zenon, <1>1, <1>2
<1>4. run'[r].at = "cursor" /\ run'[r].rev = run[r].rev /\ run'[r].recs = run[r].recs
  BY Zenon, <1>1, <1>3 DEF RunType
<1> HIDE DEF x
<1>5. ~HandsOver(run'[r]) /\ run'[r].at # "free" /\ run[r].at # "free" /\ run'[r].at # "send"
  BY Zenon, <1>0, <1>4 DEF HandsOver
<1>6. Only(r) /\ Leased(r) /\ Sound(r)
  BY Zenon, <1>0, <1>3, <1>4, <1>5, RunTyped DEF Only, Leased, Sound, ReadCursor
<1> QED BY Zenon, <1>0, <1>6, RunMoves, NoMishap DEF ReadCursor, HostMoves, elsewhere

(* What is left to a step that neither moves a run nor writes the row: the *)
(* lease, a client, the PDS.                                               *)
LEMMA NoRunMoves ==
    ASSUME IInv, HostMoves, mishaps \subseteq mishaps', mishaps' \subseteq Mishaps,
           UNCHANGED <<row, records, run, sync, commits>>,
           leases' \subseteq leases, asked' \subseteq leases', client' \in WriteType
    PROVE  IInv'
<1>1. /\ HostRev \in Nat /\ HostRev' \in Nat /\ HostRev <= HostRev'
      /\ sync' \in [Syncs -> PullType']
      /\ Without({"torn"})' => row'.cursor <= HostRev'
  BY Zenon, PullsHold
<1>2. TypeOK'
  <2>1. leases' \subseteq Live' /\ asked' \subseteq leases'
    BY Zenon DEF IInv, TypeOK, Live, At
  <2> QED BY Zenon, <1>1, <2>1, HostGrows DEF IInv, TypeOK
<1>3. Revisions'
  <2>1. \A q \in Runs : run[q].rev \in Nat /\ run[q].rev <= HostRev
    BY Zenon, RunTyped
  <2>2. \A q \in Runs : run[q].rev <= HostRev'
    BY <1>1, <2>1
  <2> QED BY Zenon, <2>2 DEF IInv, Revisions, At
<1>4. OneRun'
  BY Zenon, WithoutBefore DEF IInv, OneRun, At, Without
<1>5. Pointed'
  BY Zenon, <1>1, WithoutBefore DEF IInv, Pointed
<1>6. MovedOnce'
  BY Zenon, WithoutBefore DEF IInv, MovedOnce, Pulls
<1>7. Follows'
  BY Zenon, WithoutBefore, PullsHold DEF IInv, Follows, Pulls
<1> QED BY Zenon, <1>2, <1>3, <1>4, <1>5, <1>6, <1>7 DEF IInv

LEMMA ExpireHolds ==
    ASSUME IInv, NEW r \in Runs, Expire(r)
    PROVE  IInv'
<1>1. mishaps \subseteq mishaps' /\ mishaps' \subseteq Mishaps
  BY Zenon DEF IInv, TypeOK, Expire, Mishaps
<1>2. leases' \subseteq leases /\ asked' \subseteq leases' /\ client' \in WriteType
  BY Zenon DEF IInv, TypeOK, Expire, elsewhere
<1> QED BY Zenon, <1>1, <1>2, NoRunMoves DEF Expire, HostMoves, elsewhere

LEMMA AskHolds ==
    ASSUME IInv, NEW r \in Runs, Ask(r)
    PROVE  IInv'
<1>1. leases' \subseteq leases /\ asked' \subseteq leases' /\ client' \in WriteType
  BY Zenon DEF IInv, TypeOK, Ask, elsewhere
<1> QED BY Zenon, <1>1, NoRunMoves, NoMishap DEF Ask, HostMoves, elsewhere

-----------------------------------------------------------------------------
(* Clients *)

LEMMA ClientTyped ==
    ASSUME IInv
    PROVE  /\ client \in WriteType /\ row \in RowType /\ host \in Seq(HostOp)
           /\ client.key \in Keys /\ client.cid \in Cids \cup {None} /\ client.read \in RowType
<1>1. client \in WriteType /\ row \in RowType /\ host \in Seq(HostOp)
  BY Zenon DEF IInv, TypeOK
<1> QED BY Zenon, <1>1 DEF WriteType

LEMMA NoWriteTyped == NoWrite \in WriteType
<1>1. 1 \in Keys
  BY NativeRepoAssumption DEF Keys
<1> QED BY Zenon, <1>1, BlankTyped DEF NoWrite, WriteType

LEMMA HostTakesMoves ==
    ASSUME NEW k \in Keys, NEW c \in Cids \cup {None}, HostTakes(k, c)
    PROVE  HostMoves
<1>1. [key |-> k, cid |-> c] \in HostOp
  BY Zenon DEF HostOp
<1> QED BY Zenon, <1>1 DEF HostTakes, HostMoves

(* A client's step that commits nothing. *)
LEMMA ClientMoves ==
    ASSUME IInv, HostMoves, client' \in WriteType,
           UNCHANGED <<row, records, migration, sync, commits, mishaps>>
    PROVE  IInv'
<1>1. run' = run /\ leases' \subseteq leases /\ asked' \subseteq leases'
  BY Zenon DEF migration, IInv, TypeOK
<1> QED BY Zenon, <1>1, NoRunMoves, NoMishap

LEMMA ClientStepHolds ==
    ASSUME IInv,
           \/ \E k \in Keys, c \in Cids \cup {None} : Submit(k, c) \/ HostWrite(k, c)
           \/ ForwardWrite \/ BeginWrite \/ DropWrite
    PROVE  IInv'
<1>1. ASSUME NEW k \in Keys, NEW c \in Cids \cup {None}, Submit(k, c) PROVE IInv'
  <2>1. client' \in WriteType
    BY Zenon, <1>1, NoWriteTyped DEF Submit, WriteType
  <2> QED BY Zenon, <1>1, <2>1, ClientMoves DEF Submit, HostMoves
<1>2. ASSUME NEW k \in Keys, NEW c \in Cids \cup {None}, HostWrite(k, c) PROVE IInv'
  <2>1. HostMoves
    BY Zenon, <1>2, HostTakesMoves DEF HostWrite
  <2>2. client' \in WriteType
    BY Zenon, <1>2, ClientTyped DEF HostWrite
  <2> QED BY Zenon, <1>2, <2>1, <2>2, ClientMoves DEF HostWrite
<1>3. CASE ForwardWrite
  <2>1. HostMoves
    BY Zenon, <1>3, ClientTyped, HostTakesMoves DEF ForwardWrite, HostMoves
  <2>2. client' \in WriteType
    BY Zenon, <1>3, NoWriteTyped DEF ForwardWrite
  <2> QED BY Zenon, <1>3, <2>1, <2>2, ClientMoves DEF ForwardWrite
<1>4. CASE BeginWrite
  <2>1. client' \in WriteType
    BY Zenon, <1>4, ClientTyped DEF BeginWrite, WriteType
  <2> QED BY Zenon, <1>4, <2>1, ClientMoves DEF BeginWrite, HostMoves
<1>5. CASE DropWrite
  <2>1. client' \in WriteType
    BY Zenon, <1>5, NoWriteTyped DEF DropWrite
  <2> QED BY Zenon, <1>5, <2>1, ClientMoves DEF DropWrite, HostMoves
<1> QED BY Zenon, <1>1, <1>2, <1>3, <1>4, <1>5

(* A write is committed here: the job has yet to list it, or is told so. *)
LEMMA CommitWriteHolds ==
    ASSUME IInv, CommitWrite
    PROVE  IInv'
<1> DEFINE read == IF left.sqlite THEN row ELSE client.read
<1>0. /\ row \in RowType /\ client.key \in Keys /\ client.cid \in Cids \cup {None}
      /\ read \in RowType /\ commits \in Nat /\ records \in Contents /\ mishaps \subseteq Mishaps
  BY Zenon, ClientTyped DEF IInv, TypeOK
<1>1. /\ row' = [read EXCEPT !.commit = [by |-> "here", rev |-> commits + 1]]
      /\ mishaps' = mishaps \cup Torn(read)
                            \cup (IF Unlisted \/ row.mode = "native" THEN {"fork"} ELSE {})
  BY Zenon DEF CommitWrite
<1> HIDE DEF read
<1>2. /\ row' \in RowType /\ row'.mode = read.mode /\ row'.cursor = read.cursor
      /\ row'.commit = [by |-> "here", rev |-> commits + 1]
  BY <1>0, <1>1 DEF RowType
<1>3. /\ mishaps \subseteq mishaps'
      /\ read = row \/ "torn" \in mishaps'
      /\ (~Unlisted /\ row.mode # "native") \/ "fork" \in mishaps'
  BY Zenon, <1>1 DEF Torn
<1>4. mishaps' \subseteq Mishaps
  BY Zenon, <1>0, <1>1 DEF Torn, Mishaps
<1>5. records' \in Contents /\ commits' = commits + 1 /\ commits' \in Nat /\ client' \in WriteType
  BY <1>0, NoWriteTyped DEF CommitWrite, Contents
<1>6. /\ host' = host /\ run' = run /\ leases' = leases /\ asked' = asked /\ sync' = sync
      /\ HostRev' = HostRev
  BY Zenon DEF CommitWrite, migration, HostRev
<1>7. TypeOK'
  <2>1. PullType' = PullType /\ Live' = Live
    BY Zenon, <1>6 DEF PullType, Live, At
  <2>2. asked' \subseteq leases' /\ leases' \subseteq Live'
    BY Zenon, <1>6, <2>1 DEF IInv, TypeOK
  <2> QED BY ZenonT(60), <1>2, <1>4, <1>5, <1>6, <2>1, <2>2 DEF IInv, TypeOK
<1>8. Revisions' /\ OneRun'
  BY Zenon, <1>3, <1>6, WithoutBefore DEF IInv, Revisions, OneRun, At
<1>9. Pointed'
  <2>1. Without({"torn"})' => read = row /\ Without({"torn"})
    BY Zenon, <1>3, WithoutBefore DEF Without
  <2> QED BY Zenon, <1>2, <1>6, <2>1 DEF IInv, Pointed
<1>10. MovedOnce'
  <2>1. Without(TakenBack)' => read = row /\ Without(TakenBack)
    BY Zenon, <1>3, WithoutBefore DEF Without, TakenBack
  <2> QED BY Zenon, <1>2, <1>5, <1>6, <2>1 DEF IInv, MovedOnce, Pulls
<1>11. Follows'
  <2>1. SUFFICES ASSUME Without(Mishaps \ {"crash"})'
                 PROVE  /\ \A t, u \in Syncs : Pulls(t, "idle")' \/ Pulls(u, "idle")' \/ t = u
                        /\ \A q \in Runs : RunFollows(q)'
                        /\ \A t \in Syncs : PullFollows(t)'
                        /\ row'.mode = "native" => Reaches(host', records', row'.cursor)
    BY Zenon DEF Follows
  <2>2. TakenBack \cup {"torn", "fork"} \subseteq Mishaps \ {"crash"}
    BY Zenon DEF Mishaps, TakenBack
  <2>3. read = row /\ ~Unlisted /\ row.mode # "native" /\ Without(TakenBack)
    BY Zenon, <1>3, <2>1, <2>2 DEF Without
  <2>4. \A t \in Syncs : Pulls(t, "idle")
    BY Zenon, <2>3 DEF IInv, MovedOnce
  <2>5. \A q \in Runs : RunFollows(q)'
    <3>1. \A q \in Runs : run[q].at \in {"free", "start", "list"}
      BY Zenon, <2>3 DEF Unlisted
    <3>2. \A q \in Runs : ~Listed(run[q]) /\ ~Verified(run[q]) /\ ~HandsOver(run[q])
      BY Zenon, <3>1 DEF Listed, Verified, HandsOver
    <3> QED BY Zenon, <1>6, <3>2 DEF RunFollows
  <2>6. \A t \in Syncs : PullFollows(t)'
    BY Zenon, <1>6, <2>4 DEF PullFollows, Pulls
  <2> QED BY Zenon, <1>2, <1>6, <2>3, <2>4, <2>5, <2>6 DEF Pulls
<1> QED BY Zenon, <1>7, <1>8, <1>9, <1>10, <1>11 DEF IInv

-----------------------------------------------------------------------------
(* The writes of the row *)

(* A row written from a stale read is remembered as torn. *)
LEMMA Updated ==
    ASSUME IInv, NEW read, NEW new, UpdateRepoState(read, new)
    PROVE  /\ row' = new /\ mishaps \subseteq mishaps' /\ mishaps' \subseteq Mishaps
           /\ read = row \/ "torn" \in mishaps'
<1>1. mishaps \subseteq Mishaps
  BY Zenon DEF IInv, TypeOK
<1> QED BY Zenon, <1>1 DEF UpdateRepoState, Torn, Mishaps

(* As long as one run goes at a time, the others are free. *)
LEMMA OthersFree ==
    ASSUME IInv, Without({"twice"}), NEW r \in Runs, run[r].at # "free"
    PROVE  \A q \in Runs : q # r => run[q].at = "free"
BY Zenon DEF IInv, OneRun, At

(* A run writes the mode and goes on, ends or fails. *)
LEMMA ModeMoves ==
    ASSUME IInv, NEW r \in Runs, run[r].at = "write", Only(r), Leased(r),
           row' = [run[r].read EXCEPT !.mode = run[r].to],
           mishaps \subseteq mishaps', mishaps' \subseteq Mishaps,
           run[r].read = row \/ "torn" \in mishaps',
           run'[r].rev <= HostRev, ~Verified(run'[r]), run'[r].at # "send", ~HandsOver(run'[r]),
           run[r].to = "native" => run'[r].at = "free" \/ "unanswered" \in mishaps',
           Listed(run'[r]) => run'[r].recs = run[r].recs /\ Listed(run[r]),
           UNCHANGED <<records, host, elsewhere>>
    PROVE  IInv'
<1> DEFINE read == run[r].read
           to == run[r].to
<1>0. /\ run[r].at \notin {"free", "start"} /\ run[r].at # "free"
      /\ HandsOver(run[r]) = (to = "native")
  BY Zenon DEF HandsOver
<1>1. run \in [Runs -> RunType] /\ read \in RowType /\ to \in Modes
  <2>1. run \in [Runs -> RunType] /\ run[r] \in RunType
    BY Zenon, RunTyped
  <2> QED BY Zenon, <2>1 DEF RunType
<1>2. /\ row' = [read EXCEPT !.mode = to]
      /\ read = row \/ "torn" \in mishaps'
      /\ to = "native" => run'[r].at = "free" \/ "unanswered" \in mishaps'
  BY Zenon
<1> HIDE DEF read, to
<1>3. row' \in RowType /\ row'.mode = to /\ row'.cursor = read.cursor
  BY <1>1, <1>2 DEF RowType
<1>4. /\ host' = host /\ records' = records /\ sync' = sync /\ client' = client
      /\ commits' = commits /\ HostRev' = HostRev
  BY Zenon DEF elsewhere, HostRev
<1>6. TypeOK'
  <2>1. PullType' = PullType
    BY Zenon, <1>4 DEF PullType
  <2> QED BY ZenonT(60), <1>3, <1>4, <2>1, LeaseHolds DEF IInv, TypeOK, Only
<1>7. Revisions'
  BY Zenon, <1>4 DEF IInv, Revisions, Only, At
<1>8. OneRun'
  BY Zenon, LeaseHolds
<1>9. Pointed'
  <2>1. Without({"torn"})' => read = row /\ Without({"torn"})
    BY Zenon, <1>2, WithoutBefore DEF Without
  <2> QED BY Zenon, <1>0, <1>3, <1>4, <2>1 DEF IInv, Pointed, Only
<1>10. ASSUME Without(TakenBack)'
       PROVE  /\ read = row /\ row.mode # "native"
              /\ to = "native" => run'[r].at = "free"
              /\ \A q \in Runs : q # r => run'[q].at = "free"
              /\ \A t \in Syncs : sync[t].at = "idle"
  <2>1. /\ read = row /\ Without(TakenBack) /\ Without({"twice"})
        /\ to = "native" => run'[r].at = "free"
    BY Zenon, <1>2, <1>10, WithoutBefore DEF Without, TakenBack
  <2>2. row.mode # "native"
    BY Zenon, <1>0, <2>1 DEF IInv, MovedOnce
  <2>3. \A q \in Runs : q # r => run'[q].at = "free"
    BY Zenon, <1>0, <2>1, OthersFree DEF Only
  <2> QED BY Zenon, <2>1, <2>2, <2>3 DEF IInv, MovedOnce, Pulls
<1>11. MovedOnce'
  <2>1. SUFFICES ASSUME Without(TakenBack)'
                 PROVE  /\ row'.mode = "native" => \A q \in Runs : run'[q].at \in {"free", "start"}
                        /\ \A t \in Syncs : sync'[t].at = "idle"
    BY Zenon DEF MovedOnce, Pulls
  <2> QED BY Zenon, <1>3, <1>4, <1>10, <2>1
<1>12. Follows'
  <2>1. SUFFICES ASSUME Without(Mishaps \ {"crash"})'
                 PROVE  /\ \A t, u \in Syncs : Pulls(t, "idle")' \/ Pulls(u, "idle")' \/ t = u
                        /\ \A q \in Runs : RunFollows(q)'
                        /\ \A t \in Syncs : PullFollows(t)'
                        /\ row'.mode = "native" => Reaches(host', records', row'.cursor)
    BY Zenon DEF Follows
  <2>2. Without(TakenBack)' /\ Without(Mishaps \ {"crash"})
    <3>1. TakenBack \subseteq Mishaps \ {"crash"}
      BY Zenon DEF Mishaps, TakenBack
    <3> QED BY Zenon, <2>1, <3>1, WithoutBefore DEF Without
  <2>3. RunFollows(r)
    BY Zenon, <2>2 DEF IInv, Follows
  <2>4. \A q \in Runs : RunFollows(q)'
    <3>1. RunFollows(r)'
      BY Zenon, <1>4, <2>3 DEF RunFollows
    <3>2. \A q \in Runs : q # r => run'[q].at = "free"
      BY Zenon, <1>10, <2>2
    <3>3. \A q \in Runs : q # r => RunFollows(q)'
      BY Zenon, <3>2 DEF RunFollows, Listed, Verified, HandsOver
    <3> QED BY Zenon, <3>1, <3>3
  <2>5. \A t \in Syncs : Pulls(t, "idle")' /\ PullFollows(t)'
    BY Zenon, <1>4, <1>10, <2>2 DEF PullFollows, Pulls
  <2>6. row'.mode = "native" => Reaches(host', records', row'.cursor)
    BY ZenonT(60), <1>0, <1>3, <1>4, <1>10, <2>2, <2>3 DEF RunFollows
  <2> QED BY Zenon, <2>4, <2>5, <2>6
<1> QED BY Zenon, <1>6, <1>7, <1>8, <1>9, <1>11, <1>12 DEF IInv

LEMMA WriteModeHolds ==
    ASSUME IInv, NEW r \in Runs, WriteMode(r)
    PROVE  IInv'
<1>0. run[r].at = "write" /\ run[r].at # "free" /\ (run[r].to # "polyfill" => Listed(run[r]))
  BY Zenon DEF WriteMode, At, Listed
<1>1. /\ row' = [run[r].read EXCEPT !.mode = run[r].to]
      /\ mishaps \subseteq mishaps' /\ mishaps' \subseteq Mishaps
      /\ run[r].read = row \/ "torn" \in mishaps'
  BY Zenon, Updated DEF WriteMode
<1>2. /\ Only(r) /\ Leased(r) /\ run'[r].rev <= HostRev /\ ~Verified(run'[r])
      /\ run'[r].at # "send" /\ ~HandsOver(run'[r])
      /\ run[r].to = "native" => run'[r].at = "free"
      /\ Listed(run'[r]) => run'[r].recs = run[r].recs /\ Listed(run[r])
  <2>1. CASE run[r].to = "migrating"
    <3>1. Goto(r, "replay") /\ UNCHANGED jobVars /\ "replay" \in Places
      BY Zenon, <2>1 DEF WriteMode, Proceed, Places
    <3>2. /\ Only(r) /\ run'[r].at = "replay" /\ run'[r].rev = run[r].rev
          /\ run'[r].recs = run[r].recs
      BY Zenon, <3>1, Gone
    <3>3. /\ ~Verified(run'[r]) /\ run'[r].at # "send" /\ ~HandsOver(run'[r])
          /\ run'[r].at # "free" /\ run[r].to # "polyfill" /\ run[r].to # "native"
      BY Zenon, <2>1, <3>2 DEF Verified, HandsOver
    <3>4. run'[r].rev <= HostRev
      BY Zenon, <3>2, RunTyped
    <3> QED BY Zenon, <1>0, <3>1, <3>2, <3>3, <3>4 DEF Leased
  <2>2. CASE run[r].to # "migrating"
    <3>1. End(r)
      BY Zenon, <2>2 DEF WriteMode, Proceed
    <3> QED BY Zenon, <3>1, EndsBare DEF Leased
  <2> QED BY Zenon, <2>1, <2>2
<1>3. UNCHANGED <<records, host, elsewhere>>
  BY Zenon DEF WriteMode
<1> QED BY ZenonT(60), <1>0, <1>1, <1>2, <1>3, ModeMoves

(* A run writes the cursor and goes on or fails. *)
LEMMA CursorMoves ==
    ASSUME IInv, NEW r \in Runs, run[r].at = "cursor", Only(r), Leased(r),
           row' = [run[r].read EXCEPT !.cursor = run[r].rev],
           mishaps \subseteq mishaps', mishaps' \subseteq Mishaps,
           run[r].read = row \/ "torn" \in mishaps',
           run'[r].rev <= HostRev, ~Verified(run'[r]), run'[r].at # "send",
           run'[r].recs = run[r].recs, UNCHANGED <<records, host, elsewhere>>
    PROVE  IInv'
<1> DEFINE read == run[r].read
           rev == run[r].rev
<1>0. /\ run[r].at \notin {"free", "start"} /\ run[r].at # "free"
      /\ Verified(run[r]) /\ Listed(run[r])
  BY Zenon DEF Verified, Listed
<1>1. /\ run \in [Runs -> RunType] /\ run[r] \in RunType /\ read \in RowType
      /\ rev \in Nat /\ rev <= HostRev /\ rev # None
  <2>1. run \in [Runs -> RunType] /\ run[r] \in RunType
    BY Zenon, RunTyped
  <2>2. read \in RowType
    BY Zenon, <2>1 DEF RunType
  <2> QED BY ZenonT(60), <1>0, <2>1, <2>2, RunTyped
<1>2. row' = [read EXCEPT !.cursor = rev] /\ (read = row \/ "torn" \in mishaps')
  BY Zenon
<1> HIDE DEF read, rev
<1>3. row' \in RowType /\ row'.mode = read.mode /\ row'.cursor = rev
  BY <1>1, <1>2 DEF RowType
<1>4. /\ host' = host /\ records' = records /\ sync' = sync /\ client' = client
      /\ commits' = commits /\ HostRev' = HostRev
  BY Zenon DEF elsewhere, HostRev
<1>6. TypeOK'
  <2>1. PullType' = PullType
    BY Zenon, <1>4 DEF PullType
  <2> QED BY ZenonT(60), <1>3, <1>4, <2>1, LeaseHolds DEF IInv, TypeOK, Only
<1>7. Revisions'
  BY Zenon, <1>4 DEF IInv, Revisions, Only, At
<1>8. OneRun'
  BY Zenon, LeaseHolds
<1>9. Pointed'
  BY Zenon, <1>1, <1>3, <1>4 DEF Pointed
<1>10. ASSUME Without(TakenBack)'
       PROVE  /\ read = row /\ row.mode # "native"
              /\ \A q \in Runs : q # r => run'[q].at = "free"
              /\ \A t \in Syncs : sync[t].at = "idle"
  <2>1. read = row /\ Without(TakenBack) /\ Without({"twice"})
    BY Zenon, <1>2, <1>10, WithoutBefore DEF Without, TakenBack
  <2>2. row.mode # "native"
    BY Zenon, <1>0, <2>1 DEF IInv, MovedOnce
  <2>3. \A q \in Runs : q # r => run'[q].at = "free"
    BY Zenon, <1>0, <2>1, OthersFree DEF Only
  <2> QED BY Zenon, <2>1, <2>2, <2>3 DEF IInv, MovedOnce, Pulls
<1>11. MovedOnce'
  BY Zenon, <1>3, <1>4, <1>10 DEF MovedOnce, Pulls
<1>12. Follows'
  <2>1. SUFFICES ASSUME Without(Mishaps \ {"crash"})'
                 PROVE  /\ \A t, u \in Syncs : Pulls(t, "idle")' \/ Pulls(u, "idle")' \/ t = u
                        /\ \A q \in Runs : RunFollows(q)'
                        /\ \A t \in Syncs : PullFollows(t)'
                        /\ row'.mode = "native" => Reaches(host', records', row'.cursor)
    BY Zenon DEF Follows
  <2>2. Without(TakenBack)' /\ Without(Mishaps \ {"crash"})
    <3>1. TakenBack \subseteq Mishaps \ {"crash"}
      BY Zenon DEF Mishaps, TakenBack
    <3> QED BY ZenonT(60), <2>1, <3>1, WithoutBefore DEF Without
  <2>3. RunFollows(r)
    BY Zenon, <2>2 DEF IInv, Follows
  <2>4. \A q \in Runs : RunFollows(q)'
    <3>1. RunFollows(r)'
      BY ZenonT(60), <1>0, <1>3, <1>4, <2>3 DEF RunFollows, rev
    <3>2. \A q \in Runs : q # r => run'[q].at = "free"
      BY Zenon, <1>10, <2>2
    <3>3. \A q \in Runs : q # r => RunFollows(q)'
      BY Zenon, <3>2 DEF RunFollows, Listed, Verified, HandsOver
    <3> QED BY Zenon, <3>1, <3>3
  <2>5. \A t \in Syncs : Pulls(t, "idle")' /\ PullFollows(t)'
    BY Zenon, <1>4, <1>10, <2>2 DEF PullFollows, Pulls
  <2>6. row'.mode # "native"
    BY Zenon, <1>3, <1>10, <2>2
  <2> QED BY ZenonT(60), <2>4, <2>5, <2>6
<1> QED BY Zenon, <1>6, <1>7, <1>8, <1>9, <1>11, <1>12 DEF IInv

LEMMA WriteCursorHolds ==
    ASSUME IInv, NEW r \in Runs, WriteCursor(r)
    PROVE  IInv'
<1>0. run[r].at = "cursor" /\ run[r].at # "free"
  BY Zenon DEF WriteCursor, At
<1>1. /\ row' = [run[r].read EXCEPT !.cursor = run[r].rev]
      /\ mishaps \subseteq mishaps' /\ mishaps' \subseteq Mishaps
      /\ run[r].read = row \/ "torn" \in mishaps'
  BY Zenon, Updated DEF WriteCursor
<1>2. run \in [Runs -> RunType] /\ run[r] \in RunType
  BY Zenon, RunTyped
<1> DEFINE x == [run[r] EXCEPT !.at = "setmode", !.to = "native", !.read = Blank]
<1>3. run' = [run EXCEPT ![r] = x] /\ x \in RunType
  BY Zenon, <1>2, BlankTyped DEF WriteCursor, SetModeTo, RunType, Modes
<1>4. run' \in [Runs -> RunType] /\ run'[r] = x /\ \A q \in Runs : q # r => run'[q] = run[q]
  <2> HIDE DEF x
  <2> QED BY Zenon, <1>2, <1>3
<1>5. run'[r].at = "setmode" /\ run'[r].rev = run[r].rev /\ run'[r].recs = run[r].recs
  BY Zenon, <1>2, <1>4 DEF RunType
<1> HIDE DEF x
<1>6. ~Verified(run'[r]) /\ run'[r].at # "send" /\ run'[r].at # "free"
  BY Zenon, <1>5 DEF Verified
<1>7. Only(r) /\ Leased(r) /\ run'[r].rev <= HostRev /\ UNCHANGED <<records, host, elsewhere>>
  BY Zenon, <1>0, <1>4, <1>5, <1>6, RunTyped DEF Only, Leased, WriteCursor
<1> QED BY ZenonT(60), <1>0, <1>1, <1>5, <1>6, <1>7, CursorMoves

(* A call fails, and what it wrote, if it wrote, is there. *)
LEMMA CallFailsHolds ==
    ASSUME IInv, NEW r \in Runs, CallFails(r)
    PROVE  IInv'
<1>1. run[r].at # "free" /\ UNCHANGED <<records, elsewhere>>
  BY Zenon DEF CallFails, Fallible
<1>2. /\ Returning(r) => End(r)
      /\ ~Returning(r) => Goto(r, "failed") /\ UNCHANGED jobVars
  BY Zenon DEF CallFails
<1>3. /\ Only(r) /\ Leased(r) /\ run'[r].rev <= HostRev /\ ~Verified(run'[r])
      /\ ~Listed(run'[r]) /\ ~HandsOver(run'[r]) /\ run'[r].at # "send"
      /\ ~Returning(r) => run'[r].recs = run[r].recs
  <2>1. CASE Returning(r)
    BY Zenon, <1>2, <2>1, EndsBare DEF Leased
  <2>2. CASE ~Returning(r)
    <3>1. "failed" \in Places
      BY Zenon DEF Places
    <3>2. /\ Only(r) /\ run'[r].at = "failed" /\ run'[r].rev = run[r].rev
          /\ run'[r].recs = run[r].recs
      BY Zenon, <1>2, <2>2, <3>1, Gone
    <3>3. /\ ~Verified(run'[r]) /\ ~Listed(run'[r]) /\ ~HandsOver(run'[r])
          /\ run'[r].at # "send" /\ run'[r].at # "free"
      BY Zenon, <3>2 DEF Verified, Listed, HandsOver
    <3> QED BY Zenon, <1>1, <1>2, <2>2, <3>2, <3>3, RunTyped DEF Leased
  <2> QED BY Zenon, <2>1, <2>2
<1>4. ASSUME HostMoves, row' = row, mishaps \subseteq mishaps', mishaps' \subseteq Mishaps,
             run[r].at # "start" \/ "blind" \in mishaps'
      PROVE  IInv'
  <2>1. CASE Returning(r)
    BY Zenon, <1>1, <1>2, <1>4, <2>1, RunEnds DEF elsewhere
  <2>2. CASE ~Returning(r)
    BY Zenon, <1>1, <1>2, <1>4, <2>2, GoesFailed
  <2> QED BY Zenon, <2>1, <2>2
<1>5. CASE LeftNoTrace(r)
  <2>1. /\ mishaps \subseteq mishaps' /\ mishaps' \subseteq Mishaps
        /\ run[r].at # "start" \/ "blind" \in mishaps'
    BY Zenon, <1>5, RunTyped DEF LeftNoTrace, Mishaps, At
  <2> QED BY Zenon, <1>4, <1>5, <2>1 DEF LeftNoTrace, HostMoves
<1>6. CASE At(r, "send") /\ TookEffect(r)
  <2>1. /\ host' = Append(host, [key |-> run[r].next, cid |-> run[r].recs[run[r].next]])
        /\ row' = row /\ mishaps' = mishaps /\ run[r].at # "start"
    BY Zenon, <1>6 DEF TookEffect, At
  <2>2. HostMoves
    BY Zenon, <1>6, <2>1, SentTyped DEF HostMoves
  <2> QED BY Zenon, <1>4, <2>1, <2>2, NoMishap
<1>7. CASE At(r, "cursor") /\ TookEffect(r)
  <2>1. UpdateRepoState(run[r].read, [run[r].read EXCEPT !.cursor = run[r].rev]) /\ host' = host
    BY Zenon, <1>7 DEF TookEffect, At
  <2>2. run[r].at = "cursor" /\ ~Returning(r)
    BY Zenon, <1>7 DEF At, Returning
  <2>3. /\ row' = [run[r].read EXCEPT !.cursor = run[r].rev]
        /\ mishaps \subseteq mishaps' /\ mishaps' \subseteq Mishaps
        /\ run[r].read = row \/ "torn" \in mishaps'
    BY Zenon, <2>1, Updated
  <2> QED BY ZenonT(60), <1>1, <1>3, <2>1, <2>2, <2>3, CursorMoves
<1>8. CASE At(r, "write") /\ TookEffect(r)
  <2>1. /\ run[r].at = "write" /\ host' = host
        /\ row' = [run[r].read EXCEPT !.mode = run[r].to]
        /\ mishaps' = mishaps \cup Torn(run[r].read)
                               \cup (IF run[r].to = "native" THEN {"unanswered"} ELSE {})
    BY Zenon, <1>8 DEF TookEffect, At
  <2>2. /\ mishaps \subseteq mishaps' /\ mishaps' \subseteq Mishaps
        /\ run[r].read = row \/ "torn" \in mishaps'
        /\ run[r].to = "native" => "unanswered" \in mishaps'
    BY Zenon, <2>1, RunTyped DEF Torn, Mishaps
  <2> QED BY ZenonT(60), <1>1, <1>3, <2>1, <2>2, ModeMoves
<1>9. \/ LeftNoTrace(r)
      \/ At(r, "send") /\ TookEffect(r)
      \/ At(r, "cursor") /\ TookEffect(r)
      \/ At(r, "write") /\ TookEffect(r)
  BY Zenon DEF CallFails, TookEffect
<1> QED BY Zenon, <1>5, <1>6, <1>7, <1>8, <1>9

-----------------------------------------------------------------------------
(* Pulls *)

(* Only t's place changes. *)
OnlyPull(t) ==
    /\ sync' \in [Syncs -> PullType]
    /\ \A u \in Syncs : u # t => sync'[u] = sync[u]

(* What makes t's new place a good one. *)
GoodPull(t) ==
    /\ sync'[t].at \in {"apply", "compare", "read", "adopt"} => sync'[t].last # None
    /\ \/ sync'[t].at = "idle"
       \/ sync[t].at # "idle"
       \/ row.mode = "native" /\ ("overlap" \in mishaps' \/ \A u \in Syncs : sync[u].at = "idle")
    /\ Without(Mishaps \ {"crash"}) => PullFollows(t)'

LEMMA PullMoves ==
    ASSUME IInv, NEW t \in Syncs, OnlyPull(t), GoodPull(t),
           mishaps \subseteq mishaps', mishaps' \subseteq Mishaps,
           UNCHANGED <<row, records, host, run, leases, asked, client, commits>>
    PROVE  IInv'
<1>1. HostRev' = HostRev /\ PullType' = PullType /\ Live' = Live
  BY Zenon DEF HostRev, PullType, Live, At
<1>2. TypeOK'
  <2>1. asked' \subseteq leases' /\ leases' \subseteq Live'
    BY Zenon, <1>1 DEF IInv, TypeOK
  <2> QED BY Zenon, <1>1, <2>1 DEF IInv, TypeOK, OnlyPull
<1>3. Revisions'
  BY Zenon, <1>1 DEF IInv, Revisions, OnlyPull, GoodPull, At
<1>4. OneRun'
  BY Zenon, WithoutBefore DEF IInv, OneRun, At
<1>5. Pointed'
  BY Zenon, <1>1, WithoutBefore DEF IInv, Pointed
<1>6. MovedOnce'
  <2>1. SUFFICES ASSUME Without(TakenBack)'
                 PROVE  /\ row'.mode = "native" => \A q \in Runs : run'[q].at \in {"free", "start"}
                        /\ row'.mode # "native" => \A u \in Syncs : sync'[u].at = "idle"
    BY Zenon DEF MovedOnce, Pulls
  <2>2. Without(TakenBack)
    BY Zenon, <2>1, WithoutBefore
  <2>3. ASSUME row.mode # "native", NEW u \in Syncs PROVE sync'[u].at = "idle"
    <3>1. sync[u].at = "idle" /\ sync[t].at = "idle"
      BY Zenon, <2>2, <2>3 DEF IInv, MovedOnce, Pulls
    <3> QED BY Zenon, <2>3, <3>1 DEF OnlyPull, GoodPull
  <2> QED BY Zenon, <2>2, <2>3 DEF IInv, MovedOnce
<1>7. Follows'
  <2>1. SUFFICES ASSUME Without(Mishaps \ {"crash"})'
                 PROVE  /\ \A s, u \in Syncs : sync'[s].at = "idle" \/ sync'[u].at = "idle" \/ s = u
                        /\ \A q \in Runs : RunFollows(q)'
                        /\ \A u \in Syncs : PullFollows(u)'
                        /\ row'.mode = "native" => Reaches(host', records', row'.cursor)
    BY Zenon DEF Follows, Pulls
  <2>2. Without(Mishaps \ {"crash"})
    BY Zenon, <2>1, WithoutBefore
  <2>3. "overlap" \notin mishaps'
    <3>1. "overlap" \in Mishaps \ {"crash"}
      BY Zenon DEF Mishaps
    <3> QED BY Zenon, <2>1, <3>1 DEF Without
  <2>4. \A s, u \in Syncs : sync[s].at = "idle" \/ sync[u].at = "idle" \/ s = u
    BY Zenon, <2>2 DEF IInv, Follows, Pulls
  <2>5. \A u \in Syncs : u # t => sync'[t].at = "idle" \/ sync'[u].at = "idle"
    BY Zenon, <2>3, <2>4 DEF OnlyPull, GoodPull
  <2>6. \A s, u \in Syncs : sync'[s].at = "idle" \/ sync'[u].at = "idle" \/ s = u
    BY ZenonT(60), <2>4, <2>5 DEF OnlyPull
  <2>7. \A u \in Syncs : PullFollows(u)'
    <3>1. ASSUME NEW u \in Syncs, u # t PROVE PullFollows(u)'
      <4>1. PullFollows(u) /\ sync'[u] = sync[u]
        BY Zenon, <2>2, <3>1 DEF IInv, Follows, OnlyPull
      <4> QED BY Zenon, <4>1 DEF PullFollows, Pulls, OpsSince
    <3> QED BY Zenon, <2>2, <3>1 DEF GoodPull
  <2> QED BY Zenon, <2>2, <2>6, <2>7 DEF IInv, Follows, RunFollows
<1> QED BY Zenon, <1>2, <1>3, <1>4, <1>5, <1>6, <1>7 DEF IInv

LEMMA PullTyped ==
    ASSUME IInv, NEW t \in Syncs
    PROVE  /\ sync \in [Syncs -> PullType] /\ sync[t] \in PullType
           /\ host \in Seq(HostOp) /\ row \in RowType /\ records \in Contents
           /\ row.cursor \in Nat /\ HostRev \in Nat /\ mishaps \subseteq Mishaps
<1>1. /\ sync \in [Syncs -> PullType] /\ host \in Seq(HostOp) /\ row \in RowType
      /\ records \in Contents /\ mishaps \subseteq Mishaps
  BY Zenon DEF IInv, TypeOK
<1>2. row.cursor \in Nat /\ HostRev \in Nat
  BY <1>1 DEF RowType, HostRev
<1> QED BY Zenon, <1>1, <1>2

LEMMA NoSyncTyped ==
    ASSUME HostRev \in Nat
    PROVE  NoSync \in PullType
<1>1. None \in 0..HostRev /\ None \in Nat
  BY DEF None
<1> QED BY Zenon, <1>1, BlankTyped, NoneTyped DEF NoSync, PullType

(* A pull put at x is there, and the others stay where they are. *)
LEMMA PullPut ==
    ASSUME IInv, NEW t \in Syncs, NEW x \in PullType, sync' = [sync EXCEPT ![t] = x]
    PROVE  OnlyPull(t) /\ sync'[t] = x
<1>1. sync \in [Syncs -> PullType]
  BY Zenon, PullTyped
<1> QED BY Zenon, <1>1 DEF OnlyPull

(* A pull ends, wherever it was. *)
LEMMA PullEnds ==
    ASSUME IInv, NEW t \in Syncs, sync' = [sync EXCEPT ![t] = NoSync],
           UNCHANGED <<row, records, host, migration, client, commits, mishaps>>
    PROVE  IInv'
<1>1. OnlyPull(t) /\ sync'[t] = NoSync
  BY Zenon, PullTyped, NoSyncTyped, PullPut
<1>2. sync'[t].at = "idle"
  BY <1>1 DEF NoSync
<1>3. GoodPull(t)
  BY Zenon, <1>2 DEF GoodPull, PullFollows, Pulls
<1> QED BY Zenon, <1>1, <1>3, PullMoves, NoMishap DEF migration

LEMMA StartSyncHolds ==
    ASSUME IInv, NEW t \in Syncs, StartSync(t)
    PROVE  IInv'
<1>1. /\ sync \in [Syncs -> PullType] /\ sync[t] \in PullType /\ row.cursor \in Nat
      /\ mishaps \subseteq Mishaps
  BY Zenon, PullTyped
<1> DEFINE x == [sync[t] EXCEPT !.at = "list", !.since = row.cursor]
<1>2. sync' = [sync EXCEPT ![t] = x] /\ x \in PullType
  BY Zenon, <1>1 DEF StartSync, PullType
<1>3. x.at = "list" /\ x.since = row.cursor
  BY Zenon, <1>1 DEF PullType
<1> HIDE DEF x
<1>4. OnlyPull(t) /\ sync'[t] = x
  BY Zenon, <1>2, PullPut
<1>5. /\ mishaps \subseteq mishaps' /\ mishaps' \subseteq Mishaps
      /\ "overlap" \in mishaps' \/ \A u \in Syncs : sync[u].at = "idle"
  BY Zenon, <1>1 DEF StartSync, Pulls, Mishaps
<1>6. PullFollows(t)' /\ sync'[t].at \notin {"apply", "compare", "read", "adopt"}
  BY Zenon, <1>3, <1>4 DEF StartSync, PullFollows, Pulls
<1>7. GoodPull(t)
  BY Zenon, <1>5, <1>6 DEF StartSync, GoodPull
<1> QED BY Zenon, <1>4, <1>5, <1>7, PullMoves DEF StartSync, migration

LEMMA ListRepoOpsHolds ==
    ASSUME IInv, NEW t \in Syncs, ListRepoOps(t)
    PROVE  IInv'
<1> DEFINE window == OpsSince(sync[t].since)
           last == Max(window) + 1
<1>1. /\ sync \in [Syncs -> PullType] /\ sync[t] \in PullType /\ host \in Seq(HostOp)
      /\ sync[t].at = "list" /\ HostRev \in Nat
  BY Zenon, PullTyped DEF ListRepoOps, Pulls
<1>2. CASE window = {}
  BY Zenon, <1>2, PullEnds DEF ListRepoOps
<1>3. CASE window # {}
  <2>1. last \in 0..HostRev /\ last # None
    <3>1. window \in SUBSET (0..Len(host)) /\ Len(host) \in Nat
      BY <1>1 DEF OpsSince
    <3>2. Max(window) \in window
      BY Zenon, <1>3, <3>1, MaxIsGreatest
    <3>3. Max(window) \in 0..Len(host)
      BY Zenon, <3>1, <3>2
    <3> QED BY <1>1, <3>1, <3>3 DEF HostRev, None
  <2>2. LatestOpPerRecord(window) \subseteq window /\ window \subseteq DOMAIN host
    BY Zenon DEF LatestOpPerRecord, OpsSince
  <2> DEFINE todo == LatestOpPerRecord(window)
             x == [sync[t] EXCEPT !.at = "apply", !.todo = todo, !.last = last]
  <2>3. sync' = [sync EXCEPT ![t] = x]
    BY Zenon, <1>3 DEF ListRepoOps
  <2>4. todo \in SUBSET DOMAIN host /\ todo \subseteq OpsSince(sync[t].since)
    BY Zenon, <2>2
  <2> HIDE DEF last, todo, window
  <2>5. x \in PullType
    BY Zenon, <1>1, <2>1, <2>4 DEF PullType
  <2>6. x.at = "apply" /\ x.todo = todo /\ x.last = last
    BY Zenon, <1>1 DEF PullType
  <2> HIDE DEF x
  <2>7. OnlyPull(t) /\ sync'[t] = x
    BY Zenon, <2>3, <2>5, PullPut
  <2>8. Without(Mishaps \ {"crash"}) => PullFollows(t)'
    <3>1. Without(Mishaps \ {"crash"}) => sync[t].since = row.cursor
      BY Zenon, <1>1 DEF IInv, Follows, PullFollows, Pulls
    <3>2. Without(Mishaps \ {"crash"}) => sync'[t].todo \subseteq OpsSince(row.cursor)'
      BY ZenonT(60), <2>4, <2>6, <2>7, <3>1 DEF OpsSince, ListRepoOps
    <3> QED BY Zenon, <2>6, <2>7, <3>2 DEF PullFollows, Pulls
  <2>9. GoodPull(t)
    <3>1. sync[t].at # "idle"
      BY Zenon, <1>1
    <3> QED BY ZenonT(60), <2>1, <2>6, <2>7, <2>8, <3>1 DEF GoodPull
  <2> QED BY ZenonT(60), <2>7, <2>9, PullMoves, NoMishap DEF ListRepoOps, migration
<1> QED BY Zenon, <1>2, <1>3

LEMMA GetVerifiedCommitHolds ==
    ASSUME IInv, NEW t \in Syncs, GetVerifiedCommit(t)
    PROVE  IInv'
<1>1. /\ sync \in [Syncs -> PullType] /\ sync[t] \in PullType /\ host \in Seq(HostOp)
      /\ sync[t].at = "apply" /\ HostRev \in Nat
  BY Zenon, PullTyped DEF GetVerifiedCommit, Pulls
<1> DEFINE hash == Described(host)
           rev == HostRev
           x == [sync[t] EXCEPT !.at = "compare", !.hash = hash, !.rev = rev]
<1>2. hash \in Contents /\ rev \in 0..HostRev
  <2>1. HostRev \in 0..HostRev
    BY <1>1
  <2> QED BY Zenon, <1>1, <2>1, DescribedTyped
<1>3. sync' = [sync EXCEPT ![t].at = "compare", ![t].hash = hash, ![t].rev = rev]
  BY Zenon DEF GetVerifiedCommit
<1>4. Reaches(host, hash, rev)
  BY Zenon, <1>1, DescribedReaches
<1>5. sync[t].last <= rev /\ sync[t].last # None
  <2>1. sync[t].last <= rev
    BY <1>1 DEF PullType
  <2> QED BY Zenon, <1>1, <2>1 DEF IInv, Revisions
<1> HIDE DEF hash, rev
<1>6. sync' = [sync EXCEPT ![t] = x] /\ x \in PullType
  BY Zenon, <1>1, <1>2, <1>3 DEF PullType
<1>7. x.at = "compare" /\ x.hash = hash /\ x.rev = rev /\ x.last = sync[t].last
  BY Zenon, <1>1 DEF PullType
<1> HIDE DEF x
<1>8. OnlyPull(t) /\ sync'[t] = x
  BY Zenon, <1>6, PullPut
<1>9. PullFollows(t)' /\ sync[t].at # "idle"
  BY ZenonT(60), <1>1, <1>4, <1>5, <1>7, <1>8 DEF PullFollows, Pulls, GetVerifiedCommit
<1>10. GoodPull(t)
  BY Zenon, <1>5, <1>7, <1>8, <1>9 DEF GoodPull
<1> QED BY Zenon, <1>8, <1>10, PullMoves, NoMishap DEF GetVerifiedCommit, migration

LEMMA CompareHolds ==
    ASSUME IInv, NEW t \in Syncs, Compare(t)
    PROVE  IInv'
<1>1. /\ sync \in [Syncs -> PullType] /\ sync[t] \in PullType /\ sync[t].at = "compare"
  BY Zenon, PullTyped DEF Compare, Pulls
<1>2. CASE records # sync[t].hash
  BY Zenon, <1>2, PullEnds DEF Compare
<1>3. CASE records = sync[t].hash
  <2> DEFINE x == [sync[t] EXCEPT !.at = "read"]
  <2>1. sync' = [sync EXCEPT ![t] = x]
    BY Zenon, <1>3 DEF Compare
  <2>2. /\ x \in PullType /\ x.at = "read" /\ x.hash = sync[t].hash /\ x.rev = sync[t].rev
        /\ x.last = sync[t].last
    BY Zenon, <1>1 DEF PullType
  <2> HIDE DEF x
  <2>3. OnlyPull(t) /\ sync'[t] = x
    BY ZenonT(60), <2>1, <2>2, PullPut
  <2>4. /\ sync[t].last # None
        /\ Without(Mishaps \ {"crash"}) =>
             sync[t].last <= sync[t].rev /\ Reaches(host, sync[t].hash, sync[t].rev)
    BY Zenon, <1>1 DEF IInv, Revisions, Follows, PullFollows
  <2>5. Without(Mishaps \ {"crash"}) => PullFollows(t)'
    BY ZenonT(60), <1>3, <2>2, <2>3, <2>4 DEF PullFollows, Pulls, Compare
  <2>6. sync[t].at # "idle"
    BY Zenon, <1>1
  <2>7. GoodPull(t)
    BY ZenonT(60), <2>2, <2>3, <2>4, <2>5, <2>6 DEF GoodPull
  <2> QED BY ZenonT(60), <2>3, <2>7, PullMoves, NoMishap DEF Compare, migration
<1> QED BY Zenon, <1>2, <1>3

LEMMA ReadRowHolds ==
    ASSUME IInv, NEW t \in Syncs, ReadRow(t)
    PROVE  IInv'
<1>1. /\ sync \in [Syncs -> PullType] /\ sync[t] \in PullType /\ sync[t].at = "read"
      /\ row \in RowType
  BY Zenon, PullTyped DEF ReadRow, Pulls
<1> DEFINE x == [sync[t] EXCEPT !.at = "adopt", !.read = row]
<1>2. sync' = [sync EXCEPT ![t] = x] /\ x \in PullType
  BY Zenon, <1>1 DEF ReadRow, PullType
<1>3. x.at = "adopt" /\ x.hash = sync[t].hash /\ x.rev = sync[t].rev /\ x.last = sync[t].last
  BY Zenon, <1>1 DEF PullType
<1> HIDE DEF x
<1>4. OnlyPull(t) /\ sync'[t] = x
  BY Zenon, <1>2, PullPut
<1>5. /\ sync[t].last # None
      /\ Without(Mishaps \ {"crash"}) =>
           /\ sync[t].last <= sync[t].rev /\ Reaches(host, sync[t].hash, sync[t].rev)
           /\ records = sync[t].hash
  BY Zenon, <1>1 DEF IInv, Revisions, Follows, PullFollows
<1>6. Without(Mishaps \ {"crash"}) => PullFollows(t)'
  BY Zenon, <1>3, <1>4, <1>5 DEF PullFollows, Pulls, ReadRow
<1>7. sync[t].at # "idle"
  BY Zenon, <1>1
<1>8. GoodPull(t)
  BY ZenonT(60), <1>3, <1>4, <1>5, <1>6, <1>7 DEF GoodPull
<1> QED BY Zenon, <1>4, <1>8, PullMoves, NoMishap DEF ReadRow, migration

(* A pull of a repo nothing has gone wrong with is the only one, and no    *)
(* run has anything in hand.                                               *)
LEMMA PullAlone ==
    ASSUME IInv, Without(Mishaps \ {"crash"}), NEW t \in Syncs, sync[t].at # "idle"
    PROVE  /\ row.mode = "native" /\ Reaches(host, records, row.cursor) /\ PullFollows(t)
           /\ \A q \in Runs : ~Listed(run[q]) /\ ~Verified(run[q]) /\ ~HandsOver(run[q])
           /\ \A u \in Syncs : u # t => sync[u].at = "idle"
<1>1. Without(TakenBack)
  <2>1. TakenBack \subseteq Mishaps \ {"crash"}
    BY Zenon DEF Mishaps, TakenBack
  <2> QED BY Zenon, <2>1 DEF Without
<1>2. row.mode = "native" /\ \A q \in Runs : run[q].at \in {"free", "start"}
  BY Zenon, <1>1 DEF IInv, MovedOnce, Pulls
<1>3. \A q \in Runs : ~Listed(run[q]) /\ ~Verified(run[q]) /\ ~HandsOver(run[q])
  BY Zenon, <1>2 DEF Listed, Verified, HandsOver
<1> QED BY Zenon, <1>2, <1>3 DEF IInv, Follows, Pulls

(* An op is applied: where the record now differs from the PDS, that op is *)
(* still after the cursor.                                                 *)
LEMMA ApplyOpHolds ==
    ASSUME IInv, NEW t \in Syncs, ApplyOp(t)
    PROVE  IInv'
<1>1. /\ sync \in [Syncs -> PullType] /\ sync[t] \in PullType /\ host \in Seq(HostOp)
      /\ records \in Contents /\ sync[t].at = "apply" /\ sync[t].at # "idle"
  <2>1. sync[t].at = "apply"
    BY Zenon DEF ApplyOp, Pulls
  <2>2. sync[t].at # "idle"
    BY Zenon, <2>1
  <2> QED BY Zenon, <2>1, <2>2, PullTyped
<1> DEFINE i == Min(sync[t].todo)
           x == [sync[t] EXCEPT !.todo = sync[t].todo \ {i}]
<1>2. sync[t].todo \subseteq DOMAIN host /\ i \in sync[t].todo /\ i \in DOMAIN host
  <2>1. sync[t].todo \in SUBSET DOMAIN host
    BY Zenon, <1>1 DEF PullType
  <2>2. sync[t].todo \in SUBSET Nat
    BY <1>1, <2>1
  <2> QED BY Zenon, <2>1, <2>2, MinIsLeast DEF ApplyOp
<1>3. /\ records' = [records EXCEPT ![host[i].key] = host[i].cid]
      /\ sync' = [sync EXCEPT ![t].todo = @ \ {i}]
  BY Zenon DEF ApplyOp
<1> HIDE DEF i
<1>4. host[i].key \in Keys /\ host[i].cid \in Cids \cup {None}
  <2>1. host[i] \in HostOp
    BY <1>1, <1>2
  <2> QED BY Zenon, <2>1 DEF HostOp
<1>5. /\ records' \in Contents
      /\ \A k \in Keys : k # host[i].key => records'[k] = records[k]
  BY Zenon, <1>1, <1>3, <1>4 DEF Contents
<1>6. sync' = [sync EXCEPT ![t] = x] /\ x \in PullType
  BY Zenon, <1>1, <1>3 DEF PullType
<1>7. /\ x.at = "apply" /\ x.todo = sync[t].todo \ {i} /\ x.last = sync[t].last
  BY ZenonT(60), <1>1 DEF PullType
<1> HIDE DEF x
<1>8. OnlyPull(t) /\ sync'[t] = x
  BY Zenon, <1>6, PullPut
<1>9. /\ row' = row /\ host' = host /\ run' = run /\ leases' = leases /\ asked' = asked
      /\ client' = client /\ commits' = commits /\ mishaps' = mishaps
      /\ HostRev' = HostRev /\ PullType' = PullType /\ Live' = Live
  BY Zenon DEF ApplyOp, migration, HostRev, PullType, Live, At
<1>10. TypeOK'
  <2>1. asked' \subseteq leases' /\ leases' \subseteq Live'
    BY Zenon, <1>9 DEF IInv, TypeOK
  <2> QED BY ZenonT(60), <1>5, <1>8, <1>9, <2>1 DEF IInv, TypeOK, OnlyPull
<1>11. Revisions'
  BY ZenonT(60), <1>1, <1>7, <1>8, <1>9 DEF IInv, Revisions, OnlyPull, At
<1>12. OneRun' /\ Pointed'
  BY Zenon, <1>9 DEF IInv, OneRun, Pointed, At, Without
<1>13. MovedOnce'
  <2>1. Without(TakenBack)' => Without(TakenBack)
    BY Zenon, <1>9 DEF Without
  <2> QED BY ZenonT(60), <1>1, <1>9, <2>1 DEF IInv, MovedOnce, Pulls
<1>14. Follows'
  <2>1. SUFFICES ASSUME Without(Mishaps \ {"crash"})
                 PROVE  /\ \A s, u \in Syncs : sync'[s].at = "idle" \/ sync'[u].at = "idle" \/ s = u
                        /\ \A q \in Runs : RunFollows(q)'
                        /\ \A u \in Syncs : PullFollows(u)'
                        /\ Reaches(host', records', row'.cursor)
    BY Zenon, <1>9 DEF Follows, Pulls, Without
  <2>2. /\ Reaches(host, records, row.cursor) /\ PullFollows(t)
        /\ \A q \in Runs : ~Listed(run[q]) /\ ~Verified(run[q]) /\ ~HandsOver(run[q])
        /\ \A u \in Syncs : u # t => sync'[u].at = "idle"
    BY ZenonT(60), <1>1, <1>8, <2>1, PullAlone DEF OnlyPull
  <2>3. \A q \in Runs : RunFollows(q)'
    BY Zenon, <1>9, <2>2 DEF RunFollows
  <2>4. sync[t].todo \subseteq OpsSince(row.cursor)
    BY Zenon, <1>1, <2>2 DEF PullFollows, Pulls
  <2>5. PullFollows(t)'
    <3>1. sync'[t].todo \subseteq OpsSince(row.cursor)'
      BY ZenonT(60), <1>7, <1>8, <1>9, <2>4 DEF OpsSince
    <3> QED BY Zenon, <1>7, <1>8, <3>1 DEF PullFollows, Pulls
  <2>6. \A u \in Syncs : u # t => PullFollows(u)'
    BY Zenon, <2>2 DEF PullFollows, Pulls
  <2>7. Reaches(host, records', row.cursor)
    <3>1. i \in DOMAIN host /\ i + 1 > row.cursor
      BY ZenonT(60), <1>2, <2>4 DEF OpsSince
    <3> QED BY ZenonT(60), <1>5, <2>2, <3>1 DEF Reaches
  <2> QED BY ZenonT(60), <1>9, <2>2, <2>3, <2>5, <2>6, <2>7
<1> QED BY ZenonT(60), <1>10, <1>11, <1>12, <1>13, <1>14 DEF IInv

(* The cursor moves to the last op of the window, the commit to the one    *)
(* the index was compared with.                                            *)
LEMMA AdoptHolds ==
    ASSUME IInv, NEW t \in Syncs, Adopt(t)
    PROVE  IInv'
<1> DEFINE read == sync[t].read
           last == sync[t].last
           rev == sync[t].rev
<1>0. sync[t].at = "adopt" /\ sync[t].at # "idle"
  BY Zenon DEF Adopt, Pulls
<1>1. /\ read \in RowType /\ last \in Nat /\ rev \in Nat /\ last <= HostRev /\ last # None
      /\ host \in Seq(HostOp)
  <2>1. sync[t] \in PullType /\ HostRev \in Nat /\ host \in Seq(HostOp)
    BY Zenon, PullTyped
  <2>2. read \in RowType /\ last \in Nat /\ rev \in Nat /\ last <= HostRev
    BY <2>1 DEF PullType
  <2> QED BY ZenonT(60), <1>0, <2>1, <2>2 DEF IInv, Revisions
<1> HIDE DEF read, last, rev
<1>2. /\ row' = [read EXCEPT !.cursor = last, !.commit = [by |-> "host", rev |-> rev]]
      /\ mishaps \subseteq mishaps' /\ mishaps' \subseteq Mishaps
      /\ read = row \/ "torn" \in mishaps'
  <2>1. UpdateRepoState(read, [read EXCEPT !.cursor = last,
                                           !.commit = [by |-> "host", rev |-> rev]])
    BY Zenon DEF Adopt, read, last, rev
  <2> QED BY Zenon, <2>1, Updated
<1>3. row' \in RowType /\ row'.mode = read.mode /\ row'.cursor = last
  BY Zenon, <1>1, <1>2 DEF RowType
<1>4. OnlyPull(t) /\ sync'[t].at = "idle"
  <2>1. OnlyPull(t) /\ sync'[t] = NoSync
    BY Zenon, PullTyped, NoSyncTyped, PullPut DEF Adopt
  <2> QED BY <2>1 DEF NoSync
<1>5. /\ records' = records /\ host' = host /\ run' = run /\ leases' = leases /\ asked' = asked
      /\ client' = client /\ commits' = commits
      /\ HostRev' = HostRev /\ PullType' = PullType /\ Live' = Live
  BY Zenon DEF Adopt, migration, HostRev, PullType, Live, At
<1>6. TypeOK'
  <2>1. asked' \subseteq leases' /\ leases' \subseteq Live'
    BY Zenon, <1>5 DEF IInv, TypeOK
  <2> QED BY ZenonT(60), <1>2, <1>3, <1>4, <1>5, <2>1 DEF IInv, TypeOK, OnlyPull
<1>7. Revisions'
  <2>1. \A u \in Syncs : u # t => sync'[u] = sync[u]
    BY Zenon, <1>4 DEF OnlyPull
  <2>2. sync'[t].at \notin {"apply", "compare", "read", "adopt"}
    BY Zenon, <1>4
  <2> QED BY ZenonT(60), <1>5, <2>1, <2>2 DEF IInv, Revisions, At
<1>8. OneRun'
  BY Zenon, <1>2, <1>5, WithoutBefore DEF IInv, OneRun, At
<1>9. Pointed'
  BY Zenon, <1>1, <1>3, <1>5 DEF Pointed
<1>10. MovedOnce'
  <2>1. ASSUME Without(TakenBack)'
        PROVE  row'.mode = "native" /\ \A q \in Runs : run'[q].at \in {"free", "start"}
    <3>1. read = row /\ Without(TakenBack)
      BY Zenon, <1>2, <2>1, WithoutBefore DEF Without, TakenBack
    <3> QED BY ZenonT(60), <1>0, <1>3, <1>5, <3>1 DEF IInv, MovedOnce, Pulls
  <2> QED BY Zenon, <2>1 DEF MovedOnce
<1>11. Follows'
  <2>1. SUFFICES ASSUME Without(Mishaps \ {"crash"})'
                 PROVE  /\ \A s, u \in Syncs : sync'[s].at = "idle" \/ sync'[u].at = "idle" \/ s = u
                        /\ \A q \in Runs : RunFollows(q)'
                        /\ \A u \in Syncs : PullFollows(u)'
                        /\ Reaches(host', records', row'.cursor)
    BY Zenon DEF Follows, Pulls
  <2>2. Without(Mishaps \ {"crash"})
    BY Zenon, <1>2, <2>1, WithoutBefore
  <2>3. /\ PullFollows(t)
        /\ \A q \in Runs : ~Listed(run[q]) /\ ~Verified(run[q]) /\ ~HandsOver(run[q])
        /\ \A u \in Syncs : sync'[u].at = "idle"
    BY ZenonT(60), <1>0, <1>4, <2>2, PullAlone DEF OnlyPull
  <2>4. \A q \in Runs : RunFollows(q)'
    BY Zenon, <1>5, <2>3 DEF RunFollows
  <2>5. \A u \in Syncs : PullFollows(u)'
    BY Zenon, <2>3 DEF PullFollows, Pulls
  <2>6. last <= rev /\ Reaches(host, records, rev)
    BY Zenon, <1>0, <2>3 DEF PullFollows, last, rev
  <2>7. Reaches(host, records, last)
    BY Zenon, <1>1, <2>6, ReachesEarlier
  <2> QED BY ZenonT(60), <1>3, <1>5, <2>3, <2>4, <2>5, <2>7
<1> QED BY Zenon, <1>6, <1>7, <1>8, <1>9, <1>10, <1>11 DEF IInv

LEMMA SyncFailsHolds ==
    ASSUME IInv, NEW t \in Syncs, SyncFails(t)
    PROVE  IInv'
BY Zenon, PullEnds DEF SyncFails

-----------------------------------------------------------------------------
(* The invariant *)

LEMMA InitHolds ==
    ASSUME Init
    PROVE  IInv
<1>1. PICK s \in Scenarios :
        /\ records = s.held /\ host = s.log
        /\ row = [Blank EXCEPT !.mode = s.mode,
                               !.cursor = IF s.mode = "native" THEN HostRev ELSE None]
        /\ run = [r \in Runs |-> NoRun] /\ leases = {} /\ asked = {}
        /\ sync = [t \in Syncs |-> NoSync] /\ client = NoWrite /\ commits = 0 /\ mishaps = {}
  BY Zenon DEF Init
<1>2. /\ s.mode \in {"polyfill", "native"} /\ s.held \in Contents /\ s.log \in Seq(HostOp)
      /\ s.mode = "native" => Described(s.log) = s.held
  <2>1. s \in [sqlite : BOOLEAN, mode : {"polyfill", "native"}, held : Contents,
               log : Seq(HostOp), jobs : Nat, runs : Nat, writes : Nat,
               pds : Nat, pulls : Nat, faults : Nat, stops : Nat, stalls : Nat]
    BY Zenon, NativeRepoAssumption
  <2>2. s.mode = "native" => Described(s.log) = s.held
    BY Zenon, NativeRepoAssumption
  <2> QED BY Zenon, <2>1, <2>2
<1>3. HostRev \in Nat /\ HostRev # None /\ None <= HostRev /\ HostRev <= HostRev
  BY <1>1, <1>2 DEF HostRev, None
<1>4. /\ row \in RowType /\ row.mode = s.mode /\ row.commit = [by |-> "here", rev |-> 0]
      /\ row.cursor = (IF s.mode = "native" THEN HostRev ELSE None)
  BY Zenon, <1>1, <1>2, <1>3 DEF Blank, RowType, Modes, None
<1>5. \A r \in Runs : run[r].at = "free" /\ run[r].rev = None
  BY Zenon, <1>1 DEF NoRun
<1>6. \A t \in Syncs : sync[t].at = "idle"
  BY Zenon, <1>1 DEF NoSync
<1>7. TypeOK
  <2>1. run \in [Runs -> RunType]
    BY Zenon, <1>1, NoRunTyped
  <2>2. sync \in [Syncs -> PullType]
    BY Zenon, <1>1, <1>3, NoSyncTyped
  <2>3. leases \subseteq Live /\ asked \subseteq leases /\ commits \in Nat
    BY Zenon, <1>1
  <2> QED BY ZenonT(60), <1>1, <1>2, <1>4, <2>1, <2>2, <2>3, NoWriteTyped DEF TypeOK
<1>8. \A r \in Runs : /\ ~Listed(run[r]) /\ ~Verified(run[r]) /\ ~HandsOver(run[r])
                      /\ run[r].at # "send" /\ run[r].rev <= HostRev
  BY Zenon, <1>3, <1>5 DEF Listed, Verified, HandsOver
<1>9. Revisions
  BY Zenon, <1>6, <1>8 DEF Revisions, At
<1>10. OneRun
  BY Zenon, <1>5 DEF OneRun, At
<1>11. Pointed
  BY <1>3, <1>4, <1>8 DEF Pointed
<1>12. MovedOnce
  BY ZenonT(60), <1>1, <1>4, <1>5, <1>6 DEF MovedOnce, Pulls
<1>13. Follows
  <2>1. row.mode = "native" => Reaches(host, records, row.cursor)
    BY ZenonT(60), <1>1, <1>2, <1>4, DescribedReaches
  <2>2. \A t \in Syncs : PullFollows(t)
    BY Zenon, <1>6 DEF PullFollows, Pulls
  <2>3. \A r \in Runs : RunFollows(r)
    BY Zenon, <1>8 DEF RunFollows
  <2> QED BY ZenonT(60), <1>6, <2>1, <2>2, <2>3 DEF Follows, Pulls
<1> QED BY ZenonT(60), <1>7, <1>9, <1>10, <1>11, <1>12, <1>13 DEF IInv

LEMMA StutterHolds ==
    ASSUME IInv, UNCHANGED vars
    PROVE  IInv'
<1>1. UNCHANGED <<row, records, migration, sync, commits, mishaps>> /\ host' = host /\ client' = client
  BY Zenon DEF vars, migration
<1> QED BY Zenon, <1>1, ClientTyped, ClientMoves DEF HostMoves

LEMMA StepHolds ==
    ASSUME IInv, [Next]_vars
    PROVE  IInv'
<1>1. ASSUME NEW r \in Runs, Claim(r) \/ Crash(r) \/ Expire(r) \/ Ask(r) PROVE IInv'
  BY ZenonT(60), <1>1, ClaimHolds, CrashHolds, ExpireHolds, AskHolds
<1>2. ASSUME NEW r \in Runs, RunStep(r) PROVE IInv'
  BY ZenonT(60), <1>2, LookAtModeHolds, ListRecordsHolds, SetModeHolds, WriteModeHolds,
     NextBatchHolds, SendBatchHolds, VerifyHolds, HandOffHolds, ReadCursorHolds,
     WriteCursorHolds, FailedHolds DEF RunStep
<1>3. ASSUME NEW r \in Runs, Skip(r) \/ CallFails(r) PROVE IInv'
  BY Zenon, <1>3, SkipHolds, CallFailsHolds
<1>5. ASSUME NEW t \in Syncs, StartSync(t) \/ SyncStep(t) \/ SyncFails(t) PROVE IInv'
  BY ZenonT(60), <1>5, StartSyncHolds, ListRepoOpsHolds, ApplyOpHolds, GetVerifiedCommitHolds,
     CompareHolds, ReadRowHolds, AdoptHolds, SyncFailsHolds DEF SyncStep
<1>6. CASE \/ \E k \in Keys, c \in Cids \cup {None} : Submit(k, c) \/ HostWrite(k, c)
           \/ ForwardWrite \/ BeginWrite \/ DropWrite
  BY ZenonT(60), <1>6, ClientStepHolds
<1>7. CASE CommitWrite
  BY Zenon, <1>7, CommitWriteHolds
<1>8. CASE UNCHANGED vars
  BY Zenon, <1>8, StutterHolds
<1> QED BY ZenonT(60), <1>1, <1>2, <1>3, <1>5, <1>6, <1>7, <1>8 DEF Next

LEMMA Invariance == Spec => []IInv
BY InitHolds, StepHolds, PTL DEF Spec

-----------------------------------------------------------------------------
(* The theorems *)

(* The row, the runs, the pulls and the leases stay well formed: only a    *)
(* run that is going holds one, and a pull only has ops of the PDS.        *)
THEOREM TypeCorrect == Spec => []TypeOK
<1>1. IInv => TypeOK
  BY Zenon DEF IInv
<1> QED BY <1>1, Invariance, PTL

(* hand_off writes the cursor before the mode, so a native repo has one    *)
(* wherever a run stops, unless a stale row was written.                   *)
THEOREM NativeReposHaveCursors == Spec => []NativeHasCursor
<1>1. IInv => NativeHasCursor
  BY ZenonT(60) DEF IInv, Pointed, NativeHasCursor
<1> QED BY <1>1, Invariance, PTL

(* Where the index of a native repo differs from the PDS, the cursor is    *)
(* before an op that tells why, so the next pull will see it.              *)
THEOREM NothingIsSkipped == Spec => []NothingSkipped
<1>1. IInv => NothingSkipped
  <2>1. Reaches(host, records, row.cursor) =>
          \A k \in Keys : records[k] # Holds(host, k) =>
            \E i \in OpsSince(row.cursor) : host[i].key = k
    BY Zenon DEF Reaches, OpsSince
  <2> QED BY Zenon, <2>1 DEF IInv, Follows, NothingSkipped, CursorRecordsApplied
<1> QED BY <1>1, Invariance, PTL

(* Every step that writes the row, and what it does to the mode. *)
LEMMA ModeKept ==
    ASSUME IInv, [Next]_vars, Without(TakenBack)', row.mode = "native"
    PROVE  row'.mode = "native"
<1>1. CASE row' = row
  BY Zenon, <1>1
<1>2. ASSUME mishaps \subseteq mishaps' PROVE \A q \in Runs : run[q].at \in {"free", "start"}
  BY Zenon, <1>2, WithoutBefore DEF IInv, MovedOnce
<1>3. ASSUME NEW r \in Runs, WriteMode(r) PROVE FALSE
  <2>1. mishaps \subseteq mishaps'
    BY Zenon, <1>3, Updated DEF WriteMode
  <2>2. run[r].at = "write"
    BY Zenon, <1>3 DEF WriteMode, At
  <2> QED BY Zenon, <1>2, <2>1, <2>2
<1>4. ASSUME NEW r \in Runs, WriteCursor(r) PROVE FALSE
  <2>1. mishaps \subseteq mishaps'
    BY Zenon, <1>4, Updated DEF WriteCursor
  <2>2. run[r].at = "cursor"
    BY Zenon, <1>4 DEF WriteCursor, At
  <2> QED BY Zenon, <1>2, <2>1, <2>2
<1>5. ASSUME NEW t \in Syncs, Adopt(t) PROVE row'.mode = "native"
  <2>1. /\ row' = [sync[t].read EXCEPT !.cursor = sync[t].last,
                                       !.commit = [by |-> "host", rev |-> sync[t].rev]]
        /\ sync[t].read = row \/ "torn" \in mishaps'
    BY Zenon, <1>5, Updated DEF Adopt
  <2>2. sync[t].read = row /\ row \in RowType
    BY Zenon, <2>1, PullTyped DEF Without, TakenBack
  <2> QED BY Zenon, <2>1, <2>2 DEF RowType
<1>6. ASSUME CommitWrite PROVE row'.mode = "native"
  <2> DEFINE read == IF left.sqlite THEN row ELSE client.read
  <2>1. /\ row' = [read EXCEPT !.commit = [by |-> "here", rev |-> commits + 1]]
        /\ read = row \/ "torn" \in mishaps'
    BY Zenon, <1>6 DEF CommitWrite, Torn
  <2> HIDE DEF read
  <2>2. read = row /\ row \in RowType
    BY Zenon, <2>1, ClientTyped DEF Without, TakenBack
  <2> QED BY Zenon, <2>1, <2>2 DEF RowType
<1>7. ASSUME NEW r \in Runs, RunStep(r) PROVE row' = row \/ WriteMode(r) \/ WriteCursor(r)
  BY Zenon, <1>7 DEF RunStep, LookAtMode, ListRecords, SetMode, NextBatch, SendBatch, Verify,
     HandOff, ReadCursor, Failed
<1>8. ASSUME NEW t \in Syncs, SyncStep(t) PROVE row' = row \/ Adopt(t)
  BY Zenon, <1>8 DEF SyncStep, ListRepoOps, ApplyOp, GetVerifiedCommit, Compare, ReadRow
<1>9. ASSUME NEW r \in Runs, CallFails(r) PROVE row' = row
  <2>1. CASE LeftNoTrace(r) \/ At(r, "send")
    BY Zenon, <1>9, <2>1 DEF CallFails, LeftNoTrace, TookEffect, At
  <2>2. CASE TookEffect(r) /\ ~At(r, "send")
    <3>1. mishaps \subseteq mishaps' /\ run[r].at \in {"cursor", "write"}
      BY Zenon, <2>2 DEF TookEffect, UpdateRepoState, At
    <3> QED BY Zenon, <1>2, <3>1
  <2> QED BY Zenon, <1>9, <2>1, <2>2 DEF CallFails
<1>10. \/ row' = row \/ CommitWrite
       \/ \E r \in Runs : WriteMode(r) \/ WriteCursor(r)
       \/ \E t \in Syncs : Adopt(t)
  BY Zenon, <1>7, <1>8, <1>9 DEF Next, vars, Claim, Crash, Skip, Expire, Ask, StartSync,
     SyncFails, Submit, HostWrite, ForwardWrite, BeginWrite, DropWrite
<1> QED BY ZenonT(60), <1>1, <1>3, <1>4, <1>5, <1>6, <1>10

(* Runs of a repo's jobs one after another, resumed, repeated, failing or  *)
(* going on without their lease, leave a native repo where it is: no run   *)
(* takes it back unless two went at once, one failed before it saw the     *)
(* mode, one did not hear that it had made the repo native, or a stale row *)
(* was written.                                                            *)
THEOREM NativeReposStay == Spec => NativeStays
<1>1. IInv /\ [Next]_vars =>
        [Without(TakenBack)' /\ row.mode = "native" => row'.mode = "native"]_vars
  BY Zenon, ModeKept
<1> QED BY <1>1, Invariance, PTL DEF Spec, NativeStays

=============================================================================
