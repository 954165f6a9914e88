--------------------------- MODULE ReplayCapture ---------------------------
(***************************************************************************)
(* Captured replay sessions: ReplayCaptureRecorder and                     *)
(* capture_live_snapshot_from_state of replay/capture.py, the tables       *)
(* behind PostgresReplayRepository of replay/repository.py, and the        *)
(* retention cleanup of maintenance/retention.py that empties them.        *)
(*                                                                         *)
(* Captures run one after the other on the event loop.  A cleanup runs in  *)
(* a thread, as one transaction, and the two meet in Postgres at READ      *)
(* COMMITTED: a statement sees what is committed when it starts, and what  *)
(* it writes is locked until its transaction ends.  A step is a statement  *)
(* that another transaction can tell from the next one; the statements of  *)
(* an insert all come under the lock of its session row, which the first   *)
(* one takes, and are one step.                                            *)
(*                                                                         *)
(* A snapshot is its session and its time.  The columns start_time,        *)
(* end_time and snapshot_count of a session are the rows they were         *)
(* computed from.                                                          *)
(***************************************************************************)
EXTENDS Naturals, FiniteSets

CONSTANTS
  Session,      \* session ids of the collectors
  None,
  Interval,     \* GAMMASCOPE_REPLAY_CAPTURE_INTERVAL_SECONDS
  Cutoffs,      \* the cutoffs of the cleanups; {}: there is none
  MaxTime,      \* bound: snapshot times
  MaxId         \* bound: snapshots inserted

ASSUME NoneType == None \notin Session
ASSUME IntervalType == Interval \in Nat \ {0}
ASSUME BoundType == MaxTime \in Nat /\ MaxId \in Nat
ASSUME CutoffType == Cutoffs \subseteq Nat

Time == 0 .. MaxTime
Id == 1 .. MaxId
Row == [id : Id, session : Session, time : Time]

VARIABLES
  rows, nextId,         \* analytics_snapshots and its sequence
  sessions,             \* replay_sessions
  summary,              \* the rows each session's columns were computed from
  pc,                   \* what the capture is about to do
  todo,                 \* the snapshots it has still to look at
  current, at, latest,  \* the session, time and latest id it is busy with
  coolingDown,          \* now < _persistence_unavailable_until
  cpc, cutoff,          \* the same of the cleanup
  affected, target,     \* the sessions to refresh, the one being refreshed
  seen,                 \* what it read of each session it refreshed
  dead, locked,         \* the rows it deleted, the sessions it wrote
  captured,             \* history: the times acknowledged as captured
  disturbed             \* history: the sessions last captured during a cleanup

store == <<rows, nextId, sessions, summary>>
capture == <<pc, todo, current, at, latest, coolingDown>>
cleanup == <<cpc, cutoff, affected, target, seen, dead, locked>>
history == <<captured, disturbed>>
vars == <<store, capture, cleanup, history>>

TypeOK ==
  /\ rows \subseteq Row /\ nextId \in 1 .. MaxId + 1
  /\ sessions \subseteq Session /\ summary \in [Session -> SUBSET Row]
  /\ pc \in {"idle", "read", "insert", "update", "locked"}
  /\ todo \subseteq Session \X Time
  /\ current \in Session \cup {None} /\ at \in Time /\ latest \in 0 .. MaxId
  /\ pc \in {"insert", "update", "locked"} => current # None
  /\ coolingDown \in BOOLEAN
  /\ cpc \in {"idle", "delete", "refresh", "write"} /\ cutoff \in Nat
  /\ affected \subseteq Session /\ target \in Session \cup {None}
  /\ cpc = "write" <=> target # None
  /\ seen \in [Session -> SUBSET Row]
  /\ dead \subseteq Id /\ locked \subseteq Session
  /\ captured \in [Session -> SUBSET Time] /\ disturbed \subseteq Session

Init ==
  /\ rows = {} /\ nextId = 1
  /\ sessions = {} /\ summary = [s \in Session |-> {}]
  /\ pc = "idle" /\ todo = {} /\ current = None /\ at = 0 /\ latest = 0
  /\ coolingDown = FALSE
  /\ cpc = "idle" /\ cutoff = 0 /\ affected = {} /\ target = None
  /\ seen = [s \in Session |-> {}] /\ dead = {} /\ locked = {}
  /\ captured = [s \in Session |-> {}] /\ disturbed = {}

RowsOf(s) == {r \in rows : r.session = s}

-----------------------------------------------------------------------------
(* Capture                                                                 *)

(* capture_live_snapshot_from_state: the snapshots of the state, unless    *)
(* the circuit is open.                                                    *)
Begin(want) ==
  /\ pc = "idle" /\ ~coolingDown
  /\ want # {} /\ nextId + Cardinality(want) <= MaxId + 1
  /\ pc' = "read" /\ todo' = want
  /\ UNCHANGED <<store, current, at, latest, coolingDown, cleanup, history>>

(* ORDER BY snapshot_time DESC, snapshot_id DESC LIMIT 1                   *)
LatestOf(s) ==
  CHOOSE r \in RowsOf(s) :
    \A q \in RowsOf(s) : q.time < r.time \/ (q.time = r.time /\ q.id <= r.id)

(* Mutant: a snapshot older than the latest is stored over it.             *)
NeverStale(s, t) == FALSE

IsStale(s, t) == t < LatestOf(s).time

(* Mutant: a snapshot that comes a moment too early is inserted.           *)
DueEarly(s, t) == RowsOf(s) = {} \/ t + 1 >= LatestOf(s).time + Interval

IsDue(s, t) == RowsOf(s) = {} \/ t >= LatestOf(s).time + Interval

(* latest_snapshot_summary, and what it is to come to.                     *)
ReadLatest(s, t) ==
  /\ pc = "read" /\ <<s, t>> \in todo
  /\ todo' = todo \ {<<s, t>>}
  /\ IF RowsOf(s) # {} /\ IsStale(s, t)
     THEN /\ pc' = IF todo' = {} THEN "idle" ELSE "read"
          /\ UNCHANGED <<current, at, latest>>
     ELSE /\ current' = s /\ at' = t
          /\ pc' = IF IsDue(s, t) THEN "insert" ELSE "update"
          /\ latest' = IF IsDue(s, t) THEN 0 ELSE LatestOf(s).id
  /\ UNCHANGED <<store, coolingDown, cleanup, history>>

(* The snapshot is done with, and the next one is looked at.               *)
Done ==
  /\ pc' = IF todo = {} THEN "idle" ELSE "read"
  /\ current' = None /\ at' = 0 /\ latest' = 0
  /\ UNCHANGED <<todo, coolingDown>>

(* The exception that ends a capture, whatever remains of it.  The circuit *)
(* opens, unless it is the process that ended.                             *)
Fails ==
  /\ pc' = "idle" /\ todo' = {} /\ current' = None /\ at' = 0 /\ latest' = 0
  /\ coolingDown' \in BOOLEAN

(* The acknowledgement of a commit, or its loss.                           *)
Acknowledged ==
  \/ Done /\ captured' = [captured EXCEPT ![current] = @ \cup {at}]
  \/ Fails /\ UNCHANGED captured

(* Mutant: the session's columns are left as they are.                     *)
NoRefresh(s) == sessions' = sessions \cup {s} /\ UNCHANGED summary

(* _upsert_session and _refresh_session, once the rows are written.        *)
RefreshSession(s) ==
  /\ sessions' = sessions \cup {s}
  /\ summary' = [summary EXCEPT ![s] = {r \in rows' : r.session = s}]

Disturb(s) ==
  disturbed' = IF cpc = "idle" THEN disturbed \ {s} ELSE disturbed \cup {s}

(* insert_snapshot, once the session row is free.                          *)
InsertSnapshot ==
  /\ pc = "insert" /\ current \notin locked
  /\ nextId <= MaxId
  /\ rows' = rows \cup {[id |-> nextId, session |-> current, time |-> at]}
  /\ nextId' = nextId + 1
  /\ RefreshSession(current)
  /\ Acknowledged /\ Disturb(current)
  /\ UNCHANGED cleanup

(* update_snapshot: the upsert of the session takes its lock.              *)
LockSession ==
  /\ pc = "update" /\ current \notin locked
  /\ pc' = "locked"
  /\ UNCHANGED <<store, todo, current, at, latest, coolingDown, cleanup, history>>

(* The UPDATE and the refresh, once the snapshot's row is free.            *)
UpdateSnapshot ==
  /\ pc = "locked" /\ latest \notin dead
  /\ \E r \in rows :
       /\ r.id = latest
       /\ rows' = (rows \ {r}) \cup {[r EXCEPT !.time = at]}
  /\ RefreshSession(current)
  /\ Acknowledged /\ Disturb(current)
  /\ UNCHANGED <<nextId, cleanup>>

(* Mutant: the update is tried again.                                      *)
RetryUpdate == pc' = "update"

(* The next call of an update that found no row.                           *)
FallBack == pc' = "insert"

(* The row is gone: the session row is committed as it is, or new and      *)
(* without a snapshot, and the snapshot is inserted.                       *)
UpdateNothing ==
  /\ pc = "locked" /\ latest \notin dead
  /\ ~ \E r \in rows : r.id = latest
  /\ sessions' = sessions \cup {current}
  /\ summary' = IF current \in sessions THEN summary
                ELSE [summary EXCEPT ![current] = {}]
  /\ FallBack
  /\ UNCHANGED <<rows, nextId, todo, current, at, latest, coolingDown, cleanup,
                 history>>

(* Any call of the repository fails and its transaction is rolled back.    *)
CaptureFails ==
  /\ pc # "idle"
  /\ Fails
  /\ UNCHANGED <<store, cleanup, history>>

(* 30 seconds have passed.                                                 *)
CircuitCloses ==
  /\ coolingDown /\ coolingDown' = FALSE
  /\ UNCHANGED <<store, pc, todo, current, at, latest, cleanup, history>>

-----------------------------------------------------------------------------
(* Cleanup                                                                 *)

(* cleanup_retention up to the sessions affected.                          *)
StartCleanup(c) ==
  /\ cpc = "idle"
  /\ cpc' = "delete" /\ cutoff' = c
  /\ affected' = {r.session : r \in {q \in rows : q.time < c}}
  /\ UNCHANGED <<store, capture, target, seen, dead, locked, history>>

(* Mutant: the snapshot at the cutoff goes too.                            *)
DeletesAt(r) == r.time <= cutoff

IsOld(r) == r.time < cutoff

DeleteOld ==
  /\ cpc = "delete"
  /\ cpc' = "refresh"
  /\ dead' = {r.id : r \in {q \in rows : IsOld(q)}}
  /\ UNCHANGED <<store, capture, cutoff, affected, target, seen, locked, history>>

(* _refresh_replay_session: the aggregates over the session's rows.        *)
ReadSession(s) ==
  /\ cpc = "refresh" /\ s \in affected
  /\ cpc' = "write" /\ target' = s
  /\ affected' = affected \ {s}
  /\ seen' = [seen EXCEPT ![s] = {r \in RowsOf(s) : r.id \notin dead}]
  /\ UNCHANGED <<store, capture, cutoff, dead, locked, history>>

(* The DELETE or UPDATE of the session row, once it is free; it finds none *)
(* if the session is gone.  The DELETE takes the session's snapshots with  *)
(* it, those committed since included.                                     *)
WriteSession ==
  /\ cpc = "write"
  /\ ~(target \in sessions /\ pc = "locked" /\ current = target)
  /\ cpc' = "refresh" /\ target' = None
  /\ IF target \in sessions
     THEN /\ locked' = locked \cup {target}
          /\ dead' = IF seen[target] # {} THEN dead
                     ELSE dead \cup {r.id : r \in RowsOf(target)}
     ELSE UNCHANGED <<locked, dead>>
  /\ UNCHANGED <<store, capture, cutoff, affected, seen, history>>

(* Mutant: a cleanup that fails in the middle stays with its session.      *)
StaysWithTarget ==
  /\ cpc' = "idle" /\ cutoff' = 0 /\ affected' = {} /\ UNCHANGED target
  /\ seen' = [s \in Session |-> {}] /\ dead' = {} /\ locked' = {}

CleanupEnds ==
  /\ cpc' = "idle" /\ cutoff' = 0 /\ affected' = {} /\ target' = None
  /\ seen' = [s \in Session |-> {}] /\ dead' = {} /\ locked' = {}

CommitCleanup ==
  /\ cpc = "refresh" /\ affected = {}
  /\ rows' = {r \in rows : r.id \notin dead}
  /\ sessions' = {s \in sessions : s \in locked => seen[s] # {}}
  /\ summary' = [s \in Session |-> IF s \in locked THEN seen[s] ELSE summary[s]]
  /\ CleanupEnds
  /\ captured' = [s \in Session |->
                    IF s \in disturbed THEN {} ELSE {t \in captured[s] : t >= cutoff}]
  /\ UNCHANGED <<nextId, capture, disturbed>>

(* An exception, answered with 503: the transaction is rolled back.        *)
CleanupFails ==
  /\ cpc # "idle"
  /\ CleanupEnds
  /\ UNCHANGED <<store, capture, history>>

(* The capture holds the session the cleanup is to write, and waits for a  *)
(* snapshot the cleanup has deleted: Postgres ends one of the two.         *)
Deadlocked ==
  /\ pc = "locked" /\ latest \in dead
  /\ cpc = "write" /\ target = current /\ target \in sessions

BreakDeadlock == Deadlocked /\ (CaptureFails \/ CleanupFails)

-----------------------------------------------------------------------------
CaptureStep ==
  \/ \E s \in Session, t \in Time : ReadLatest(s, t)
  \/ InsertSnapshot \/ LockSession \/ UpdateSnapshot \/ UpdateNothing

CleanupStep ==
  \/ DeleteOld \/ WriteSession \/ CommitCleanup
  \/ \E s \in Session : ReadSession(s)

Next ==
  \/ \E S \in SUBSET Session : \E w \in [S -> Time] : Begin({<<s, w[s]>> : s \in S})
  \/ CaptureStep \/ CaptureFails \/ CircuitCloses
  \/ \E c \in Cutoffs : StartCleanup(c)
  \/ CleanupStep \/ CleanupFails

Spec == Init /\ [][Next]_vars

(* The calls go on; Postgres gives a lock to who waits for it when it is   *)
(* released, and finds the deadlocks.                                      *)
FairSpec == Spec /\ SF_vars(CaptureStep) /\ WF_vars(CleanupStep) /\ WF_vars(BreakDeadlock)

-----------------------------------------------------------------------------
(* Properties                                                              *)

(* The snapshots of a session are at least one interval apart, though the  *)
(* latest one moves with every update and a cleanup may take it away       *)
(* between the look at it and the update.                                  *)
Spacing ==
  \A r, q \in rows :
    r.session = q.session /\ r # q =>
      r.time >= q.time + Interval \/ q.time >= r.time + Interval

(* What the list of sessions says of a session is what its snapshots are,  *)
(* unless it was captured while a cleanup ran; the next capture mends it.  *)
SummaryExact ==
  \A s \in sessions : s \in disturbed \/ summary[s] = RowsOf(s)

(* Every acknowledged capture is there, or one that replaced it, until a   *)
(* cleanup may have deleted it.                                            *)
CapturedIsKept ==
  \A s \in Session : \A t \in captured[s] : \E r \in RowsOf(s) : r.time >= t

(* A cleanup deletes a snapshot that is not older than its cutoff only in  *)
(* a session that was captured while it ran.                               *)
CleanupSparesNew ==
  [][cpc # "idle" /\ cpc' = "idle" =>
       \A r \in rows : r.time >= cutoff => r \in rows' \/ r.session \in disturbed]_vars

(* A session's latest snapshot never goes back, except that a cleanup      *)
(* deletes it.                                                             *)
LatestAdvances ==
  [][\A r \in rows :
       \/ \E q \in rows' : q.session = r.session /\ q.time >= r.time
       \/ cpc # "idle" /\ cpc' = "idle"]_vars

(* A capture, for which the event loop waits, comes to an end: a row that  *)
(* is gone is not tried again and again, and a deadlock with a cleanup is  *)
(* broken.                                                                 *)
CaptureEnds == (pc # "idle") ~> (pc = "idle")

(* "Postgres stores chain and analytics snapshots every 5 seconds during   *)
(* active live sessions": less than one interval from everything that was  *)
(* captured there is a snapshot.                                           *)
SnapshotEveryInterval ==
  \A s \in Session : \A t \in captured[s] :
    \E r \in RowsOf(s) : r.time < t + Interval /\ t < r.time + Interval

(* A cleanup deletes only what is older than its cutoff.                   *)
CleanupDeletesOldOnly ==
  [][cpc # "idle" /\ cpc' = "idle" =>
       \A r \in rows : r.time >= cutoff => r \in rows']_vars

-----------------------------------------------------------------------------
(* The inductive invariant                                                 *)

(* Ids name one row each, and every row has its session.                   *)
KeysOK ==
  /\ \A r, q \in rows : r.id = q.id => r = q
  /\ \A r \in rows : r.id < nextId /\ r.session \in sessions
  /\ latest < nextId

(* What the capture is about to write is an interval after every snapshot  *)
(* of the session, or not older than the one it is to replace.             *)
CaptureOK ==
  /\ pc = "insert" => \A r \in RowsOf(current) : at >= r.time + Interval
  /\ pc \in {"update", "locked"} =>
       \A r \in rows :
         /\ r.session = current =>
              at >= r.time + Interval \/ (r.id = latest /\ at >= r.time)
         /\ r.id = latest => r.session = current
  /\ pc = "locked" /\ current \in sessions => current \notin locked

(* What the cleanup has read, deleted and locked is what there is, in the  *)
(* sessions that were not captured meanwhile.                              *)
CleanupOK ==
  /\ cpc \in {"idle", "delete"} => dead = {} /\ locked = {}
  /\ locked \subseteq sessions
  /\ \A s \in locked : seen[s] = {} => \A r \in RowsOf(s) : r.id \in dead
  /\ cpc # "idle" => \A s \in Session \ disturbed :
       /\ \A r \in RowsOf(s) : r.id \in dead => r.time < cutoff
       /\ \A r \in RowsOf(s) : cpc = "delete" /\ r.time < cutoff => s \in affected
       /\ s \in locked \/ target = s => seen[s] = {r \in RowsOf(s) : r.id \notin dead}
       /\ s \notin affected \cup locked \cup {target} =>
            \A r \in RowsOf(s) : r.id \notin dead

IInv ==
  TypeOK /\ KeysOK /\ CaptureOK /\ CleanupOK /\ Spacing /\ SummaryExact /\ CapturedIsKept
=============================================================================
