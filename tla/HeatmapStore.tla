---------------------------- MODULE HeatmapStore ----------------------------
(***************************************************************************)
(* The heatmap's open-interest baseline and its stored snapshots:          *)
(* heatmap/service.py over heatmap/repository.py, behind                   *)
(* routes/heatmap.py.                                                      *)
(*                                                                         *)
(* A heatmap request takes a snapshot, reads the day's baseline, merges    *)
(* the snapshot's own open interest into it, and stores the payload it     *)
(* answers and the payload's five-minute bucket.  Those are three database *)
(* transactions; the endpoint is a `def', so requests run in threads and   *)
(* interleave between them, and the snapshots they took may reach the      *)
(* database out of order.                                                  *)
(*                                                                         *)
(* One market date, symbol and expiry is modelled: the keys of different   *)
(* ones never meet.  Within a market date, "at or after 09:25 in New York" *)
(* is a comparison of snapshot times, `time >= LockTime'.                  *)
(***************************************************************************)
EXTENDS Naturals, Sequences

CONSTANTS
  Contract,     \* option contracts
  Interest,     \* open interest values
  Time,         \* snapshot times of the day
  LockTime,     \* 09:25 New York
  BucketOf,     \* five_minute_bucket_start
  Bucket,       \* the five-minute buckets
  Request,      \* concurrent heatmap requests
  None,         \* no row, no open interest
  MaxFetch      \* bound: heatmap requests in a behaviour

ASSUME TimeType == Time \subseteq Nat /\ LockTime \in Nat
ASSUME BucketType == BucketOf \in [Time -> Bucket]
ASSUME BoundType == MaxFetch \in Nat

VARIABLES
  base,         \* heatmap_oi_baselines
  snaps,        \* heatmap_snapshots, by source_snapshot_time
  bucket,       \* heatmap_bucket_5m
  pc, snapshot, \* each request: its next step, the snapshot it took
  used,         \* ... and the baseline records it has so far
  fetched,      \* heatmap requests so far
  log,          \* history: the snapshots merged into `base', in commit order
  settled       \* history: contracts locked when a request began

tables == <<base, snaps, bucket, log>>
locals == <<snapshot, used>>
vars == <<tables, pc, locals, fetched, settled>>

Reading == [Contract -> Interest \cup {None}]
Snapshot == [time : Time, oi : Reading]
Record == [oi : Interest, time : Time, locked : BOOLEAN]
Baseline == [Contract -> Record \cup {None}]
Status == {"provisional", "locked"}

(* The payload keeps the baseline records its exposures were computed      *)
(* from; `own' are the contracts whose open interest the snapshot brought. *)
Payload == [time : Time, base : Baseline, own : SUBSET Contract,
            status : Status]
ASSUME NoneType == None \notin Interest \cup Record \cup Payload \cup Snapshot

TypeOK ==
  /\ base \in Baseline
  /\ snaps \in [Time -> Payload \cup {None}]
  /\ bucket \in [Bucket -> Payload \cup {None}]
  /\ pc \in [Request -> {"idle", "read", "merge", "store"}]
  /\ snapshot \in [Request -> Snapshot \cup {None}]
  /\ used \in [Request -> Baseline]
  /\ fetched \in 0 .. MaxFetch
  /\ log \in Seq(Snapshot)
  /\ settled \in [Request -> SUBSET Contract]

NoBaseline == [c \in Contract |-> None]

Init ==
  /\ base = NoBaseline
  /\ snaps = [t \in Time |-> None]
  /\ bucket = [b \in Bucket |-> None]
  /\ pc = [r \in Request |-> "idle"]
  /\ snapshot = [r \in Request |-> None]
  /\ used = [r \in Request |-> NoBaseline]
  /\ fetched = 0
  /\ log = <<>>
  /\ settled = [r \in Request |-> {}]

-----------------------------------------------------------------------------
(* _normalized_baseline, on a row of a snapshot taken at time t.           *)
RecordOf(t, oi) == [oi |-> oi, time |-> t, locked |-> t >= LockTime]

(* Mutant: rows without open interest are not skipped.                     *)
KeepsMissing(s) == [c \in Contract |-> RecordOf(s.time, s.oi[c])]

(* _baseline_records_from_snapshot: rows without open interest are skipped. *)
OwnRecords(s) ==
  [c \in Contract |-> IF s.oi[c] = None THEN None ELSE RecordOf(s.time, s.oi[c])]

Own(s) == {c \in Contract : s.oi[c] # None}

(* Mutant: only the time decides.                                          *)
NewerReplaces(existing, incoming) == incoming.time >= existing.time

(* _should_replace_provisional and the WHERE clause of the upsert.         *)
Replaces(existing, incoming) ==
  /\ ~existing.locked
  /\ incoming.locked \/ incoming.time >= existing.time

(* One INSERT ... ON CONFLICT DO UPDATE ... WHERE.                         *)
Upsert(existing, incoming) ==
  IF existing = None THEN incoming
  ELSE IF incoming = None THEN existing
  ELSE IF Replaces(existing, incoming) THEN incoming ELSE existing

Merged(s) == [c \in Contract |-> Upsert(base[c], OwnRecords(s)[c])]

(* Mutant: the request keeps its own records instead of those RETURNed.    *)
KeepsOwn(r) ==
  [c \in Contract |-> IF c \in Own(snapshot[r]) THEN OwnRecords(snapshot[r])[c]
                                                ELSE used[r][c]]

(* What _baseline_records returns: the records the upsert left for the     *)
(* snapshot's own contracts over those read before it.                     *)
Combined(r) ==
  [c \in Contract |-> IF c \in Own(snapshot[r]) THEN Merged(snapshot[r])[c]
                                                ELSE used[r][c]]

(* _baseline_status goes by the snapshot's time.                           *)
PayloadOf(s, records) ==
  [time |-> s.time, base |-> records, own |-> Own(s),
   status |-> IF s.time >= LockTime THEN "locked" ELSE "provisional"]

-----------------------------------------------------------------------------
IsLocked(c) == base[c] # None /\ base[c].locked

(* get_latest_heatmap takes the live snapshot.                             *)
Fetch(r, s) ==
  /\ pc[r] = "idle"
  /\ fetched < MaxFetch
  /\ fetched' = fetched + 1
  /\ pc' = [pc EXCEPT ![r] = "read"]
  /\ snapshot' = [snapshot EXCEPT ![r] = s]
  /\ used' = [used EXCEPT ![r] = NoBaseline]
  /\ settled' = [settled EXCEPT ![r] = {c \in Contract : IsLocked(c)}]
  /\ UNCHANGED tables

(* repository.oi_baseline; no upsert if the snapshot has no open interest. *)
ReadBaseline(r) ==
  /\ pc[r] = "read"
  /\ used' = [used EXCEPT ![r] = base]
  /\ pc' = [pc EXCEPT ![r] = IF Own(snapshot[r]) = {} THEN "store" ELSE "merge"]
  /\ UNCHANGED <<tables, snapshot, fetched, settled>>

(* repository.upsert_oi_baseline: one transaction.  Every record of it     *)
(* stays row-locked until the commit, whether the WHERE lets it be updated *)
(* or not, so concurrent ones are serialised (a deadlock is MergeFails).   *)
CommitMerge(r) ==
  /\ base' = Merged(snapshot[r])
  /\ log' = Append(log, snapshot[r])
  /\ UNCHANGED <<snaps, bucket>>

MergeBaseline(r) ==
  /\ pc[r] = "merge"
  /\ CommitMerge(r)
  /\ used' = [used EXCEPT ![r] = Combined(r)]
  /\ pc' = [pc EXCEPT ![r] = "store"]
  /\ UNCHANGED <<snapshot, fetched, settled>>

(* Mutant: the bucket only takes a payload that is newer than its own.     *)
NewestBucket(r) ==
  LET s == snapshot[r]
      p == PayloadOf(s, used[r])
      old == bucket[BucketOf[s.time]]
  IN /\ snaps' = [snaps EXCEPT ![s.time] = p]
     /\ bucket' = IF old # None /\ old.time >= s.time THEN bucket
                  ELSE [bucket EXCEPT ![BucketOf[s.time]] = p]
     /\ UNCHANGED <<base, log>>

(* repository.upsert_heatmap_snapshot: the snapshot and its bucket in one  *)
(* transaction.  The bucket takes the payload whatever it held.            *)
CommitStore(r) ==
  LET s == snapshot[r]
      p == PayloadOf(s, used[r])
  IN /\ snaps' = [snaps EXCEPT ![s.time] = p]
     /\ bucket' = [bucket EXCEPT ![BucketOf[s.time]] = p]
     /\ UNCHANGED <<base, log>>

Respond(r) ==
  /\ pc' = [pc EXCEPT ![r] = "idle"]
  /\ snapshot' = [snapshot EXCEPT ![r] = None]
  /\ used' = [used EXCEPT ![r] = NoBaseline]
  /\ settled' = [settled EXCEPT ![r] = {}]
  /\ UNCHANGED fetched

StoreSnapshot(r) ==
  /\ pc[r] = "store"
  /\ CommitStore(r)
  /\ Respond(r)

-----------------------------------------------------------------------------
(* A database that does not answer, before the commit or after it: the     *)
(* request answers a payload it could not store, computed from its own     *)
(* open interest if the baseline was what failed.                          *)
ReadFails(r) ==
  /\ pc[r] = "read"
  /\ Respond(r)
  /\ UNCHANGED tables

MergeFails(r) ==
  /\ pc[r] = "merge"
  /\ CommitMerge(r) \/ UNCHANGED tables
  /\ Respond(r)

StoreFails(r) ==
  /\ pc[r] = "store"
  /\ CommitStore(r) \/ UNCHANGED tables
  /\ Respond(r)

Next ==
  \E r \in Request :
    \/ \E s \in Snapshot : Fetch(r, s)
    \/ ReadBaseline(r) \/ MergeBaseline(r) \/ StoreSnapshot(r)
    \/ ReadFails(r) \/ MergeFails(r) \/ StoreFails(r)

Spec == Init /\ [][Next]_vars

-----------------------------------------------------------------------------
(* Properties                                                              *)

Observed(c) == {k \in DOMAIN log : log[k].oi[c] # None}
LockObserved(c) == {k \in Observed(c) : log[k].time >= LockTime}

(* The daily baseline, whatever the order in which snapshots reach the     *)
(* database: the first reading committed at or after 09:25 and no other;   *)
(* until there is one, the newest reading of the morning, the last         *)
(* committed of equally new ones.                                          *)
BaselineIsDaily ==
  \A c \in Contract :
    IF Observed(c) = {}
    THEN base[c] = None
    ELSE \E k \in Observed(c) :
           /\ base[c] = RecordOf(log[k].time, log[k].oi[c])
           /\ IF LockObserved(c) # {}
              THEN k \in LockObserved(c) /\ \A j \in LockObserved(c) : k <= j
              ELSE \A j \in Observed(c) :
                     \/ log[j].time < log[k].time
                     \/ log[j].time = log[k].time /\ j <= k

(* All the stored snapshots from 09:25 on that brought open interest of    *)
(* their own are computed from the same records, those still in the        *)
(* baseline: not from what each of them happened to bring.                 *)
LockedServesBaseline ==
  \A t \in Time :
    snaps[t] # None /\ t >= LockTime =>
      \A c \in snaps[t].own : snaps[t].base[c] = base[c]

(* A request that begins after a contract's baseline was locked stores a   *)
(* payload computed from it, with or without open interest of its own.     *)
SettledIsServed ==
  \A r \in Request :
    pc[r] = "store" => \A c \in settled[r] : used[r][c] = base[c]

(* A five-minute bucket always shows a stored snapshot of those minutes,   *)
(* in its latest version, never a mix of two.                              *)
BucketShowsSnapshot ==
  \A b \in Bucket :
    bucket[b] # None =>
      BucketOf[bucket[b].time] = b /\ snaps[bucket[b].time] = bucket[b]

(* The inductive invariant.                                                *)
(* A request at work has a snapshot; what was locked when it began is      *)
(* still locked; once it merged, what it uses of its own open interest at  *)
(* or after 09:25 is the locked record.                                    *)
RequestOK(r) ==
  /\ pc[r] # "idle" => snapshot[r] \in Snapshot
  /\ \A c \in settled[r] : IsLocked(c)
  /\ pc[r] \in {"merge", "store"} =>
       \A c \in settled[r] : used[r][c] = base[c]
  /\ pc[r] = "store" /\ snapshot[r].time >= LockTime =>
       \A c \in Own(snapshot[r]) : used[r][c] = base[c] /\ IsLocked(c)

RequestsOK == \A r \in Request : RequestOK(r)

(* What a stored snapshot brought at or after 09:25 is locked.             *)
SnapshotsOK ==
  \A t \in Time :
    snaps[t] # None =>
      /\ snaps[t].time = t
      /\ t >= LockTime =>
           \A c \in snaps[t].own : IsLocked(c)

(* All of it, with the properties it establishes.                          *)
IInv ==
  /\ TypeOK /\ BaselineIsDaily /\ RequestsOK /\ SnapshotsOK
  /\ LockedServesBaseline /\ SettledIsServed /\ BucketShowsSnapshot
=============================================================================
