-------------------------- MODULE HeatmapStoreProof --------------------------
EXTENDS HeatmapStore, TLAPS

(* A row's record, and those of a whole snapshot, are records.             *)
LEMMA RecordTypes ==
  ASSUME NEW s \in Snapshot
  PROVE  /\ OwnRecords(s) \in Baseline
         /\ Own(s) \subseteq Contract
         /\ \A c \in Contract :
              /\ c \in Own(s) => /\ s.oi[c] \in Interest
                                 /\ OwnRecords(s)[c] = RecordOf(s.time, s.oi[c])
                                 /\ OwnRecords(s)[c] \in Record
              /\ c \notin Own(s) => OwnRecords(s)[c] = None
<1>1. s.oi \in Reading /\ s.time \in Time
  BY DEF Snapshot
<1>2. \A c \in Contract : s.oi[c] # None => /\ s.oi[c] \in Interest
                                            /\ RecordOf(s.time, s.oi[c]) \in Record
  BY <1>1 DEF Reading, RecordOf, Record
<1>3. QED
  BY <1>2 DEF OwnRecords, Own, Baseline

(* What the merge of a snapshot leaves in the baseline, contract by        *)
(* contract: the old record if there was none to bring or a locked one.    *)
LEMMA MergedFacts ==
  ASSUME base \in Baseline, NEW s \in Snapshot
  PROVE  /\ Merged(s) \in Baseline
         /\ \A c \in Contract :
              /\ c \notin Own(s) => Merged(s)[c] = base[c]
              /\ IsLocked(c) => Merged(s)[c] = base[c]
              /\ c \in Own(s) /\ base[c] = None =>
                   Merged(s)[c] = RecordOf(s.time, s.oi[c])
              /\ c \in Own(s) /\ base[c] # None /\ ~IsLocked(c) =>
                   Merged(s)[c] = IF s.time >= LockTime \/ s.time >= base[c].time
                                  THEN RecordOf(s.time, s.oi[c]) ELSE base[c]
<1> SUFFICES ASSUME NEW c \in Contract
             PROVE  /\ Merged(s)[c] \in Record \cup {None}
                    /\ c \notin Own(s) => Merged(s)[c] = base[c]
                    /\ IsLocked(c) => Merged(s)[c] = base[c]
                    /\ c \in Own(s) /\ base[c] = None =>
                         Merged(s)[c] = RecordOf(s.time, s.oi[c])
                    /\ c \in Own(s) /\ base[c] # None /\ ~IsLocked(c) =>
                         Merged(s)[c] =
                           IF s.time >= LockTime \/ s.time >= base[c].time
                           THEN RecordOf(s.time, s.oi[c]) ELSE base[c]
  BY DEF Merged, Baseline
<1>1. /\ Merged(s)[c] = Upsert(base[c], OwnRecords(s)[c])
      /\ base[c] \in Record \cup {None}
  BY DEF Merged, Baseline
<1>2. None \notin Record
  BY NoneType
<1>3. CASE c \notin Own(s)
  BY <1>1, <1>3, RecordTypes DEF Upsert
<1>4. CASE c \in Own(s)
  <2> DEFINE new == RecordOf(s.time, s.oi[c])
  <2>1. /\ OwnRecords(s)[c] = new /\ new \in Record /\ new # None
        /\ new.time = s.time /\ new.locked = (s.time >= LockTime)
    BY <1>2, <1>4, RecordTypes DEF RecordOf
  <2>2. Merged(s)[c] = IF base[c] = None THEN new
                       ELSE IF Replaces(base[c], new) THEN new ELSE base[c]
    BY <1>1, <2>1 DEF Upsert
  <2> HIDE DEF new
  <2>3. QED
    BY <1>1, <1>4, <2>1, <2>2 DEF Replaces, IsLocked, new
<1>5. QED
  BY <1>3, <1>4

(* After the merge of a snapshot from 09:25 on, what it brought is locked. *)
LEMMA LateMergeLocks ==
  ASSUME base \in Baseline, NEW s \in Snapshot, s.time >= LockTime,
         base' = Merged(s)
  PROVE  \A c \in Own(s) : IsLocked(c)'
<1> SUFFICES ASSUME NEW c \in Own(s)
             PROVE  IsLocked(c)'
  OBVIOUS
<1>1. c \in Contract
  BY RecordTypes
<1>2. RecordOf(s.time, s.oi[c]).locked /\ RecordOf(s.time, s.oi[c]) # None
  BY <1>1, RecordTypes, NoneType DEF RecordOf
<1>3. QED
  BY <1>1, <1>2, MergedFacts DEF IsLocked

(* Committing a snapshot's merge keeps the baseline daily.                 *)
LEMMA MergeKeepsDaily ==
  ASSUME base \in Baseline, log \in Seq(Snapshot), BaselineIsDaily,
         NEW s \in Snapshot, base' = Merged(s), log' = Append(log, s)
  PROVE  BaselineIsDaily'
<1> DEFINE n == Len(log) + 1
<1> SUFFICES ASSUME NEW c \in Contract
             PROVE  IF Observed(c)' = {}
                    THEN base'[c] = None
                    ELSE \E k \in Observed(c)' :
                           /\ base'[c] = RecordOf(log'[k].time, log'[k].oi[c])
                           /\ IF LockObserved(c)' # {}
                              THEN /\ k \in LockObserved(c)'
                                   /\ \A j \in LockObserved(c)' : k <= j
                              ELSE \A j \in Observed(c)' :
                                     \/ log'[j].time < log'[k].time
                                     \/ /\ log'[j].time = log'[k].time
                                        /\ j <= k
  BY DEF BaselineIsDaily
<1> DEFINE Chosen(k) ==
             IF LockObserved(c)' # {}
             THEN k \in LockObserved(c)' /\ \A j \in LockObserved(c)' : k <= j
             ELSE \A j \in Observed(c)' :
                    \/ log'[j].time < log'[k].time
                    \/ log'[j].time = log'[k].time /\ j <= k
<1> SUFFICES \/ Observed(c)' = {} /\ base'[c] = None
             \/ \E k \in Observed(c)' :
                  base'[c] = RecordOf(log'[k].time, log'[k].oi[c]) /\ Chosen(k)
  OBVIOUS
<1>1. /\ n \in Nat /\ DOMAIN log = 1 .. (n - 1) /\ DOMAIN log' = 1 .. n
      /\ log'[n] = s
      /\ \A k \in 1 .. (n - 1) : log'[k] = log[k] /\ log[k] \in Snapshot
      /\ \A k \in 1 .. n : log'[k] \in Snapshot
  OBVIOUS
<1>2. /\ \A k \in 1 .. n : log'[k].time \in Nat
      /\ LockTime \in Nat
  <2>1. \A x \in Snapshot : x.time \in Nat
    BY TimeType DEF Snapshot
  <2>2. QED
    BY <1>1, <2>1, TimeType
<1>3. /\ Observed(c) \subseteq 1 .. (n - 1)
      /\ LockObserved(c) = {k \in Observed(c) : log'[k].time >= LockTime}
  BY <1>1 DEF Observed, LockObserved
<1>4. /\ Observed(c)' = IF c \in Own(s) THEN Observed(c) \cup {n} ELSE Observed(c)
      /\ LockObserved(c)' = {k \in Observed(c)' : log'[k].time >= LockTime}
  BY <1>1 DEF Observed, LockObserved, Own
<1>5. IF Observed(c) = {}
      THEN base[c] = None
      ELSE \E k \in Observed(c) :
             /\ base[c] = RecordOf(log'[k].time, log'[k].oi[c])
             /\ IF LockObserved(c) # {}
                THEN k \in LockObserved(c) /\ \A j \in LockObserved(c) : k <= j
                ELSE \A j \in Observed(c) :
                       \/ log'[j].time < log'[k].time
                       \/ log'[j].time = log'[k].time /\ j <= k
  BY <1>1, <1>3 DEF BaselineIsDaily
<1>6. /\ c \notin Own(s) \/ IsLocked(c) => base'[c] = base[c]
      /\ c \in Own(s) /\ base[c] = None => base'[c] = RecordOf(s.time, s.oi[c])
      /\ c \in Own(s) /\ base[c] # None /\ ~IsLocked(c) =>
           base'[c] = IF s.time >= LockTime \/ s.time >= base[c].time
                      THEN RecordOf(s.time, s.oi[c]) ELSE base[c]
  BY MergedFacts
<1> HIDE DEF n
<1>7. CASE c \notin Own(s)
  BY <1>3, <1>4, <1>5, <1>6, <1>7
<1>8. CASE c \in Own(s) /\ Observed(c) = {}
  <2>1. Observed(c)' = {n} /\ base'[c] = RecordOf(log'[n].time, log'[n].oi[c])
    BY <1>1, <1>4, <1>5, <1>6, <1>8
  <2>2. Chosen(n)
    BY <1>1, <1>4, <2>1
  <2>3. QED
    BY <2>1, <2>2
<1>9. CASE c \in Own(s) /\ Observed(c) # {}
  <2>1. PICK k \in Observed(c) :
          /\ base[c] = RecordOf(log'[k].time, log'[k].oi[c])
          /\ IF LockObserved(c) # {}
             THEN k \in LockObserved(c) /\ \A j \in LockObserved(c) : k <= j
             ELSE \A j \in Observed(c) :
                    \/ log'[j].time < log'[k].time
                    \/ log'[j].time = log'[k].time /\ j <= k
    BY <1>5, <1>9
  <2> DEFINE old == RecordOf(log'[k].time, log'[k].oi[c])
  <2>2. /\ base[c] = old /\ base[c].time = log'[k].time /\ k \in 1 .. (n - 1)
        /\ base[c].locked = (log'[k].time >= LockTime)
    <3>1. old.time = log'[k].time /\ old.locked = (log'[k].time >= LockTime)
      BY DEF RecordOf
    <3>2. QED
      BY <1>3, <2>1, <3>1
  <2> HIDE DEF old
  <2>3. base[c] # None
    <3>1. log[k].oi[c] \in Interest /\ log[k].time \in Time
      BY <1>1, <2>2, <2>1 DEF Observed, Snapshot, Reading
    <3>2. base[c] \in Record
      BY <1>1, <2>1, <2>2, <3>1 DEF Record, RecordOf, old
    <3>3. QED
      BY <3>2, NoneType
  <2>4. CASE LockObserved(c) # {}
    <3>1. IsLocked(c) /\ base'[c] = base[c]
      BY <1>3, <1>6, <2>1, <2>2, <2>3, <2>4 DEF IsLocked
    <3>2. Chosen(k)
      BY <1>1, <1>3, <1>4, <2>1, <2>2, <2>4
    <3>3. QED
      BY <1>4, <2>1, <3>1, <3>2
  <2>5. CASE LockObserved(c) = {} /\ s.time >= LockTime
    <3>1. base'[c] = RecordOf(log'[n].time, log'[n].oi[c])
      BY <1>1, <1>3, <1>6, <1>9, <2>1, <2>2, <2>3, <2>5 DEF IsLocked
    <3>2. LockObserved(c)' = {n}
      BY <1>1, <1>3, <1>4, <1>9, <2>5
    <3>3. Chosen(n)
      BY <1>1, <3>2
    <3>4. QED
      BY <1>4, <1>9, <3>1, <3>3
  <2>6. CASE LockObserved(c) = {} /\ ~(s.time >= LockTime)
    <3>1. ~IsLocked(c) /\ LockObserved(c)' = {}
      BY <1>1, <1>3, <1>4, <2>1, <2>2, <2>6 DEF IsLocked
    <3>2. CASE s.time >= base[c].time
      <4>1. base'[c] = RecordOf(log'[n].time, log'[n].oi[c])
        BY <1>1, <1>6, <1>9, <2>3, <3>1, <3>2
      <4>2. \A j \in Observed(c) :
              log'[j].time <= log'[n].time /\ j <= n /\ log'[j].time \in Nat
        BY <1>1, <1>2, <1>3, <2>1, <2>2, <2>6, <3>2
      <4>3. Chosen(n)
        <5>1. \A x, y \in Nat : x <= y => x < y \/ x = y
          OBVIOUS
        <5>2. n \in 1 .. n /\ log'[n].time \in Nat
          BY <1>1, <1>2
        <5>3. \A j \in Observed(c) : \/ log'[j].time < log'[n].time
                                     \/ log'[j].time = log'[n].time /\ j <= n
          BY <4>2, <5>1, <5>2, Zenon
        <5>4. log'[n].time = log'[n].time /\ n <= n
          BY <1>1
        <5>5. Observed(c)' = Observed(c) \cup {n} /\ LockObserved(c)' = {}
          BY <1>4, <1>9, <3>1
        <5>6. QED
          BY <5>3, <5>4, <5>5, Zenon
      <4>4. QED
        BY <1>4, <1>9, <4>1, <4>3
    <3>3. CASE ~(s.time >= base[c].time)
      <4>1. base'[c] = base[c]
        BY <1>6, <1>9, <2>3, <2>6, <3>1, <3>3
      <4>2. \A j \in Observed(c)' :
              \/ log'[j].time < log'[k].time
              \/ log'[j].time = log'[k].time /\ j <= k
        <5>1. log'[n].time < log'[k].time
          BY <1>1, <1>2, <2>2, <3>3
        <5>2. QED
          BY <1>4, <2>1, <2>6, <5>1
      <4>3. Chosen(k)
        BY <3>1, <4>2
      <4>4. QED
        BY <1>4, <2>1, <4>1, <4>3
    <3>4. QED
      BY <3>2, <3>3
  <2>7. QED
    BY <2>4, <2>5, <2>6
<1>10. QED
  BY <1>7, <1>8, <1>9

-----------------------------------------------------------------------------
(* What a step does to the tables: nothing, one merge, or one store.       *)
TablesStep ==
  \/ UNCHANGED tables
  \/ \E r \in Request : pc[r] = "merge" /\ CommitMerge(r)
  \/ \E r \in Request : pc[r] = "store" /\ CommitStore(r)

(* A locked record never moves, whatever a step does to the tables.        *)
LEMMA LockedStays ==
  ASSUME IInv, TablesStep
  PROVE  /\ base' \in Baseline
         /\ \A c \in Contract : IsLocked(c) => IsLocked(c)' /\ base'[c] = base[c]
<1>1. base \in Baseline
  BY DEF IInv, TypeOK
<1>2. CASE base' = base
  BY <1>1, <1>2 DEF IsLocked
<1>3. ASSUME NEW r \in Request, pc[r] = "merge", CommitMerge(r)
      PROVE  /\ base' \in Baseline
             /\ \A c \in Contract :
                  IsLocked(c) => IsLocked(c)' /\ base'[c] = base[c]
  <2>1. snapshot[r] \in Snapshot
    BY <1>3 DEF IInv, RequestsOK, RequestOK
  <2>2. base' = Merged(snapshot[r])
    BY <1>3 DEF CommitMerge
  <2>3. QED
    BY <1>1, <2>1, <2>2, MergedFacts DEF IsLocked
<1>4. QED
  BY <1>2, <1>3 DEF TablesStep, tables, CommitStore

(* A payload is a payload.                                                 *)
LEMMA PayloadType ==
  ASSUME NEW s \in Snapshot, NEW b \in Baseline
  PROVE  /\ PayloadOf(s, b) \in Payload /\ PayloadOf(s, b) # None
         /\ PayloadOf(s, b).time = s.time /\ PayloadOf(s, b).base = b
         /\ PayloadOf(s, b).own = Own(s)
<1>1. Own(s) \subseteq Contract /\ s.time \in Time
  BY DEF Snapshot, Own
<1>2. PayloadOf(s, b) \in Payload
  BY <1>1 DEF PayloadOf, Payload, Status
<1>3. QED
  BY <1>2, NoneType DEF PayloadOf

(* A store changes the slots of its own snapshot and nothing else.         *)
LEMMA StoreFacts ==
  ASSUME IInv, NEW r \in Request, pc[r] = "store", CommitStore(r)
  PROVE  /\ snapshot[r] \in Snapshot
         /\ snaps' = [snaps EXCEPT ![snapshot[r].time] =
                        PayloadOf(snapshot[r], used[r])]
         /\ bucket' = [bucket EXCEPT ![BucketOf[snapshot[r].time]] =
                         PayloadOf(snapshot[r], used[r])]
         /\ PayloadOf(snapshot[r], used[r]) \in Payload
         /\ PayloadOf(snapshot[r], used[r]) # None
         /\ PayloadOf(snapshot[r], used[r]).time = snapshot[r].time
         /\ PayloadOf(snapshot[r], used[r]).base = used[r]
         /\ PayloadOf(snapshot[r], used[r]).own = Own(snapshot[r])
         /\ snapshot[r].time \in Time
         /\ BucketOf[snapshot[r].time] \in Bucket
         /\ UNCHANGED <<base, log>>
<1>1. snapshot[r] \in Snapshot /\ used[r] \in Baseline
  BY DEF IInv, RequestsOK, RequestOK, TypeOK
<1>2. snapshot[r].time \in Time /\ BucketOf[snapshot[r].time] \in Bucket
  BY <1>1, BucketType DEF Snapshot
<1>3. QED
  BY <1>1, <1>2, PayloadType DEF CommitStore

(* The tables keep their types and their properties.                       *)
LEMMA TablesKeep ==
  ASSUME IInv, TablesStep
  PROVE  /\ base' \in Baseline
         /\ snaps' \in [Time -> Payload \cup {None}]
         /\ bucket' \in [Bucket -> Payload \cup {None}]
         /\ log' \in Seq(Snapshot)
         /\ BaselineIsDaily' /\ SnapshotsOK'
         /\ LockedServesBaseline' /\ BucketShowsSnapshot'
<1>1. /\ base' \in Baseline
      /\ \A c \in Contract : IsLocked(c) => IsLocked(c)' /\ base'[c] = base[c]
  BY LockedStays
<1>2. /\ snaps \in [Time -> Payload \cup {None}]
      /\ bucket \in [Bucket -> Payload \cup {None}]
      /\ log \in Seq(Snapshot) /\ base \in Baseline
      /\ BaselineIsDaily /\ SnapshotsOK
      /\ LockedServesBaseline /\ BucketShowsSnapshot
  BY DEF IInv, TypeOK
<1>3. \A t \in Time : snaps[t] # None => snaps[t].own \subseteq Contract
  BY <1>2 DEF Payload
<1>4. ASSUME UNCHANGED <<snaps, bucket>>
      PROVE  /\ snaps' \in [Time -> Payload \cup {None}]
             /\ bucket' \in [Bucket -> Payload \cup {None}]
             /\ SnapshotsOK' /\ LockedServesBaseline' /\ BucketShowsSnapshot'
  <2>1. SnapshotsOK'
    BY <1>1, <1>2, <1>3, <1>4 DEF SnapshotsOK
  <2>2. LockedServesBaseline'
    BY <1>1, <1>2, <1>3, <1>4 DEF SnapshotsOK, LockedServesBaseline
  <2>3. BucketShowsSnapshot'
    BY <1>2, <1>4 DEF BucketShowsSnapshot
  <2>4. QED
    BY <1>2, <1>4, <2>1, <2>2, <2>3
<1>5. CASE UNCHANGED tables
  <2>1. BaselineIsDaily'
    BY <1>2, <1>5 DEF BaselineIsDaily, Observed, LockObserved, tables
  <2>2. QED
    BY <1>1, <1>2, <1>4, <1>5, <2>1 DEF tables
<1>6. ASSUME NEW r \in Request, pc[r] = "merge", CommitMerge(r)
      PROVE  BaselineIsDaily' /\ log' \in Seq(Snapshot) /\ UNCHANGED <<snaps, bucket>>
  <2>1. snapshot[r] \in Snapshot
    BY <1>6 DEF IInv, RequestsOK, RequestOK
  <2>2. /\ base' = Merged(snapshot[r]) /\ log' = Append(log, snapshot[r])
        /\ UNCHANGED <<snaps, bucket>>
    BY <1>6 DEF CommitMerge
  <2>3. QED
    BY <1>2, <2>1, <2>2, MergeKeepsDaily
<1>7. ASSUME NEW r \in Request, pc[r] = "store", CommitStore(r)
      PROVE  /\ snaps' \in [Time -> Payload \cup {None}]
             /\ bucket' \in [Bucket -> Payload \cup {None}]
             /\ log' \in Seq(Snapshot)
             /\ BaselineIsDaily' /\ SnapshotsOK'
             /\ LockedServesBaseline' /\ BucketShowsSnapshot'
  <2> DEFINE s == snapshot[r]
             new == PayloadOf(s, used[r])
  <2>1. /\ s \in Snapshot /\ s.time \in Time /\ BucketOf[s.time] \in Bucket
        /\ snaps' = [snaps EXCEPT ![s.time] = new]
        /\ bucket' = [bucket EXCEPT ![BucketOf[s.time]] = new]
        /\ new \in Payload /\ new # None /\ new.time = s.time
        /\ new.base = used[r] /\ new.own = Own(s)
        /\ UNCHANGED <<base, log>>
    BY <1>7, StoreFacts
  <2>2. s.time >= LockTime =>
          \A c \in Own(s) : used[r][c] = base[c] /\ IsLocked(c)
    BY <1>7 DEF IInv, RequestsOK, RequestOK
  <2>3. \A c \in Contract : IsLocked(c)' <=> IsLocked(c)
    BY <2>1 DEF IsLocked
  <2>4. Own(s) \subseteq Contract
    BY DEF Own
  <2> HIDE DEF s, new
  <2>5. BaselineIsDaily'
    BY <1>2, <2>1 DEF BaselineIsDaily, Observed, LockObserved
  <2>6. SnapshotsOK'
    BY <1>2, <1>3, <2>1, <2>2, <2>3, <2>4 DEF SnapshotsOK
  <2>7. LockedServesBaseline'
    BY <1>2, <2>1, <2>2 DEF LockedServesBaseline
  <2>8. BucketShowsSnapshot'
    BY <1>2, <2>1 DEF BucketShowsSnapshot
  <2>9. QED
    BY <1>2, <2>1, <2>5, <2>6, <2>7, <2>8
<1>8. QED
  BY <1>1, <1>2, <1>4, <1>5, <1>6, <1>7 DEF TablesStep

-----------------------------------------------------------------------------
(* A request that a step leaves alone keeps what it relies on.             *)
RequestSettled(r) ==
  pc[r] = "store" => \A c \in settled[r] : used[r][c] = base[c]

LEMMA BystanderKeeps ==
  ASSUME IInv, TablesStep, NEW q \in Request,
         pc'[q] = pc[q], snapshot'[q] = snapshot[q],
         used'[q] = used[q], settled'[q] = settled[q]
  PROVE  RequestOK(q)' /\ RequestSettled(q)'
<1>1. RequestOK(q) /\ settled[q] \subseteq Contract
  BY DEF IInv, RequestsOK, TypeOK
<1>2. \A c \in Contract : IsLocked(c) => IsLocked(c)' /\ base'[c] = base[c]
  BY LockedStays
<1>3. Own(snapshot[q]) \subseteq Contract
  BY DEF Own
<1>4. Own(snapshot[q])' = Own(snapshot[q])
  BY DEF Own
<1>5. \A c \in settled[q] : IsLocked(c) /\ IsLocked(c)' /\ base'[c] = base[c]
  BY <1>1, <1>2 DEF RequestOK
<1>6. RequestSettled(q)'
  BY <1>1, <1>5 DEF RequestOK, RequestSettled
<1>7. RequestOK(q)'
  BY <1>1, <1>2, <1>3, <1>4, <1>5 DEF RequestOK
<1>8. QED
  BY <1>6, <1>7

(* What a request's own step leaves it with.                               *)
LocalsKeep(r) ==
  /\ pc' \in [Request -> {"idle", "read", "merge", "store"}]
  /\ snapshot' \in [Request -> Snapshot \cup {None}]
  /\ used' \in [Request -> Baseline]
  /\ fetched' \in 0 .. MaxFetch
  /\ settled' \in [Request -> SUBSET Contract]
  /\ RequestOK(r)' /\ RequestSettled(r)'
  /\ \A q \in Request \ {r} :
       /\ pc'[q] = pc[q] /\ snapshot'[q] = snapshot[q]
       /\ used'[q] = used[q] /\ settled'[q] = settled[q]

(* A step that does this to one request keeps the invariant.               *)
LEMMA StepKeeps ==
  ASSUME IInv, TablesStep, NEW r \in Request, LocalsKeep(r)
  PROVE  IInv'
<1>1. \A q \in Request : RequestOK(q)' /\ RequestSettled(q)'
  BY BystanderKeeps DEF LocalsKeep
<1>2. RequestsOK' /\ SettledIsServed'
  BY <1>1 DEF RequestsOK, SettledIsServed, RequestSettled
<1>3. TypeOK'
  BY TablesKeep DEF TypeOK, LocalsKeep
<1>4. QED
  BY <1>2, <1>3, TablesKeep DEF IInv

LEMMA NoBaselineType == NoBaseline \in Baseline
BY DEF NoBaseline, Baseline

(* Fetching a snapshot.                                                    *)
LEMMA FetchKeeps ==
  ASSUME IInv, NEW r \in Request, NEW s \in Snapshot, Fetch(r, s)
  PROVE  TablesStep /\ LocalsKeep(r)
<1>1. UNCHANGED tables
  BY DEF Fetch
<1>2. /\ pc'[r] = "read" /\ snapshot'[r] = s
      /\ settled'[r] = {c \in Contract : IsLocked(c)}
  BY DEF Fetch, IInv, TypeOK
<1>3. \A c \in Contract : IsLocked(c)' <=> IsLocked(c)
  BY <1>1 DEF tables, IsLocked
<1>4. RequestOK(r)' /\ RequestSettled(r)'
  BY <1>2, <1>3 DEF RequestOK, RequestSettled
<1>5. fetched' \in 0 .. MaxFetch
  BY BoundType DEF Fetch, IInv, TypeOK
<1>6. QED
  BY <1>1, <1>4, <1>5, NoBaselineType
  DEF Fetch, LocalsKeep, TablesStep, IInv, TypeOK

(* Reading the baseline.                                                   *)
LEMMA ReadKeeps ==
  ASSUME IInv, NEW r \in Request, ReadBaseline(r)
  PROVE  TablesStep /\ LocalsKeep(r)
<1>1. UNCHANGED tables
  BY DEF ReadBaseline
<1>2. /\ pc[r] = "read" /\ snapshot'[r] = snapshot[r] /\ used'[r] = base
      /\ settled'[r] = settled[r]
      /\ pc'[r] = IF Own(snapshot[r]) = {} THEN "store" ELSE "merge"
      /\ base' = base
  BY DEF ReadBaseline, IInv, TypeOK, tables
<1>3. RequestOK(r) /\ settled[r] \subseteq Contract
  BY DEF IInv, RequestsOK, TypeOK
<1>4. Own(snapshot[r])' = Own(snapshot[r])
  BY <1>2 DEF Own
<1>5. \A c \in Contract : IsLocked(c)' <=> IsLocked(c)
  BY <1>2 DEF IsLocked
<1>6. RequestOK(r)' /\ RequestSettled(r)'
  BY <1>2, <1>3, <1>4, <1>5 DEF RequestOK, RequestSettled
<1>7. QED
  BY <1>1, <1>6 DEF ReadBaseline, LocalsKeep, TablesStep, IInv, TypeOK

(* Merging the snapshot's open interest.                                   *)
LEMMA MergeKeeps ==
  ASSUME IInv, NEW r \in Request, MergeBaseline(r)
  PROVE  TablesStep /\ LocalsKeep(r)
<1> DEFINE s == snapshot[r]
<1>1. TablesStep
  BY DEF MergeBaseline, TablesStep
<1>2. /\ pc[r] = "merge" /\ pc'[r] = "store" /\ snapshot'[r] = s
      /\ used'[r] = Combined(r) /\ settled'[r] = settled[r]
      /\ base' = Merged(s)
  BY DEF MergeBaseline, CommitMerge, IInv, TypeOK
<1>3. /\ RequestOK(r) /\ s \in Snapshot /\ base \in Baseline
      /\ used[r] \in Baseline /\ settled[r] \subseteq Contract
  BY <1>2 DEF IInv, RequestsOK, RequestOK, TypeOK
<1>4. \A c \in Contract : IsLocked(c) => IsLocked(c)' /\ base'[c] = base[c]
  BY <1>1, LockedStays
<1>5. Own(s) \subseteq Contract /\ Own(snapshot[r])' = Own(s)
  BY <1>2 DEF Own
<1>6. /\ Combined(r) \in Baseline
      /\ \A c \in Own(s) : Combined(r)[c] = base'[c]
      /\ \A c \in Contract \ Own(s) : Combined(r)[c] = used[r][c]
  <2>1. Merged(s) \in Baseline
    BY <1>3, MergedFacts
  <2>2. QED
    BY <1>2, <1>3, <1>5, <2>1 DEF Combined, Baseline
<1>7. s.time >= LockTime => \A c \in Own(s) : IsLocked(c)'
  BY <1>2, <1>3, LateMergeLocks
<1>8. \A c \in settled[r] : IsLocked(c)' /\ Combined(r)[c] = base'[c]
  BY <1>2, <1>3, <1>4, <1>6 DEF RequestOK
<1> HIDE DEF s
<1>9. RequestOK(r)' /\ RequestSettled(r)'
  BY <1>2, <1>3, <1>5, <1>6, <1>7, <1>8 DEF RequestOK, RequestSettled
<1>10. QED
  BY <1>1, <1>6, <1>9 DEF MergeBaseline, LocalsKeep, IInv, TypeOK

(* Every way a request ends, stored, failed before the commit or after it. *)
LEMMA RespondKeeps ==
  ASSUME IInv, NEW r \in Request,
         StoreSnapshot(r) \/ ReadFails(r) \/ MergeFails(r) \/ StoreFails(r)
  PROVE  TablesStep /\ LocalsKeep(r)
<1>1. Respond(r) /\ TablesStep
  BY DEF StoreSnapshot, ReadFails, MergeFails, StoreFails, TablesStep
<1>2. pc'[r] = "idle" /\ settled'[r] = {}
  BY <1>1 DEF Respond, IInv, TypeOK
<1>3. RequestOK(r)' /\ RequestSettled(r)'
  BY <1>2 DEF RequestOK, RequestSettled
<1>4. QED
  BY <1>1, <1>3, NoBaselineType DEF Respond, LocalsKeep, IInv, TypeOK

(* The invariant holds at the start.                                       *)
LEMMA InitIInv ==
  ASSUME Init
  PROVE  IInv
<1>1. TypeOK
  BY NoBaselineType, BoundType DEF Init, TypeOK
<1>2. BaselineIsDaily
  <2>1. log = <<>> /\ base = [c \in Contract |-> None]
    BY DEF Init, NoBaseline
  <2>2. DOMAIN log = {}
    BY <2>1
  <2>3. \A c \in Contract : Observed(c) = {} /\ base[c] = None
    BY <2>1, <2>2 DEF Observed
  <2>4. QED
    BY <2>3 DEF BaselineIsDaily
<1>3. RequestsOK
  BY DEF Init, RequestsOK, RequestOK
<1>4. SnapshotsOK /\ LockedServesBaseline /\ SettledIsServed
  BY DEF Init, SnapshotsOK, LockedServesBaseline, SettledIsServed
<1>5. BucketShowsSnapshot
  BY DEF Init, BucketShowsSnapshot
<1>6. QED
  BY <1>1, <1>2, <1>3, <1>4, <1>5 DEF IInv

(* Every step keeps it.                                                    *)
LEMMA NextIInv ==
  ASSUME IInv, [Next]_vars
  PROVE  IInv'
<1>1. CASE Next
  <2>1. PICK r \in Request :
          \/ \E s \in Snapshot : Fetch(r, s)
          \/ ReadBaseline(r) \/ MergeBaseline(r) \/ StoreSnapshot(r)
          \/ ReadFails(r) \/ MergeFails(r) \/ StoreFails(r)
    BY <1>1 DEF Next
  <2>2. TablesStep /\ LocalsKeep(r)
    BY <2>1, FetchKeeps, ReadKeeps, MergeKeeps, RespondKeeps
  <2>3. QED
    BY <2>2, StepKeeps
<1>2. CASE UNCHANGED vars
  <2>1. TablesStep /\ UNCHANGED <<pc, snapshot, used, fetched, settled>>
    BY <1>2 DEF vars, locals, TablesStep
  <2>2. \A q \in Request : RequestOK(q)' /\ RequestSettled(q)'
    BY <2>1, BystanderKeeps
  <2>3. RequestsOK' /\ SettledIsServed'
    BY <2>2 DEF RequestsOK, SettledIsServed, RequestSettled
  <2>4. TypeOK'
    BY <2>1, TablesKeep DEF IInv, TypeOK
  <2>5. QED
    BY <2>1, <2>3, <2>4, TablesKeep DEF IInv
<1>3. QED
  BY <1>1, <1>2

-----------------------------------------------------------------------------
(* The invariant that carries the others: what every request has read and  *)
(* merged, and every stored snapshot, agrees with the locked records.      *)
THEOREM InductiveInvariant == Spec => []IInv
<1>1. Init => IInv
  BY InitIInv
<1>2. IInv /\ [Next]_vars => IInv'
  BY NextIInv
<1>3. QED
  BY <1>1, <1>2, PTL DEF Spec

(* Every variable keeps its type.                                          *)
THEOREM TypeCorrect == Spec => []TypeOK
<1>1. IInv => TypeOK
  BY DEF IInv
<1>2. QED
  BY <1>1, InductiveInvariant, PTL

(* However requests interleave, fail and reorder, the stored baseline of a *)
(* contract is the first reading committed at or after 09:25, and before   *)
(* there is one the newest of the morning.                                 *)
THEOREM DailyBaseline == Spec => []BaselineIsDaily
<1>1. IInv => BaselineIsDaily
  BY DEF IInv
<1>2. QED
  BY <1>1, InductiveInvariant, PTL

(* What stored snapshots from 09:25 on brought is shown as it was locked.  *)
THEOREM LockedBaselineServed == Spec => []LockedServesBaseline
<1>1. IInv => LockedServesBaseline
  BY DEF IInv
<1>2. QED
  BY <1>1, InductiveInvariant, PTL

(* A contract locked before a request began is served as it was locked.    *)
THEOREM SettledServed == Spec => []SettledIsServed
<1>1. IInv => SettledIsServed
  BY DEF IInv
<1>2. QED
  BY <1>1, InductiveInvariant, PTL

(* A five-minute bucket always shows a stored snapshot of its minutes.     *)
THEOREM BucketsShowSnapshots == Spec => []BucketShowsSnapshot
<1>1. IInv => BucketShowsSnapshot
  BY DEF IInv
<1>2. QED
  BY <1>1, InductiveInvariant, PTL
=============================================================================
