------------------------- MODULE ReplayCaptureProof -------------------------
EXTENDS ReplayCapture, FiniteSetTheorems, WellFoundedInduction, TLAPS

USE IntervalType, BoundType DEF Time, Id

-----------------------------------------------------------------------------
(* The latest snapshot                                                     *)

(* A set of bounded numbers that is not empty has a greatest one.          *)
LEMMA Greatest ==
  ASSUME NEW T, T \subseteq Time, T # {}
  PROVE  \E t \in T : \A u \in T : u <= t
<1> DEFINE D == {MaxTime - t : t \in T}
           Less == {ss \in Nat \X Nat : ss[1] < ss[2]}
<1>1. D \subseteq Nat /\ D # {}
  <2>1. PICK t \in T : TRUE
    OBVIOUS
  <2>2. MaxTime - t \in D
    BY <2>1
  <2>3. \A u \in T : MaxTime - u \in Nat
    OBVIOUS
  <2>4. QED
    BY <2>2, <2>3
<1>2. IsWellFoundedOn(Less, Nat)
  BY NatLessThanWellFounded DEF OpToRel
<1>3. PICK d \in D : \A e \in D : <<e, d>> \notin Less
  <2> HIDE DEF D, Less
  <2> QED BY <1>1, <1>2, WFMin
<1>4. \A e \in D : ~ e < d
  BY <1>1, <1>3
<1>5. PICK t \in T : d = MaxTime - t
  OBVIOUS
<1>6. \A u \in T : u <= t
  BY <1>4, <1>5
<1> QED BY <1>6

LEMMA LatestIsThere ==
  ASSUME IInv, NEW s, RowsOf(s) # {}
  PROVE  /\ LatestOf(s) \in RowsOf(s)
         /\ \A q \in RowsOf(s) : q.time < LatestOf(s).time \/ q = LatestOf(s)
<1>1. RowsOf(s) \subseteq Row
  BY DEF IInv, TypeOK, RowsOf
<1> DEFINE T == {r.time : r \in RowsOf(s)}
<1>2. T \subseteq Time /\ T # {}
  BY <1>1 DEF Row
<1>3. PICK t \in T : \A u \in T : u <= t
  <2> HIDE DEF T
  <2> QED BY <1>2, Greatest
<1>4. PICK r \in RowsOf(s) : r.time = t
  OBVIOUS
<1>5. \A q \in RowsOf(s) : q.time <= r.time /\ q.time \in Nat /\ q.id \in Nat
  BY <1>1, <1>3, <1>4 DEF Row
<1>6. \A p, q \in RowsOf(s) : p.time = q.time => p = q
  BY <1>5 DEF IInv, Spacing, RowsOf
<1>7. \A q \in RowsOf(s) : q.time < r.time \/ (q.time = r.time /\ q.id <= r.id)
  BY <1>4, <1>5, <1>6
<1> DEFINE Latest(x) == \A q \in RowsOf(s) : q.time < x.time \/ (q.time = x.time /\ q.id <= x.id)
<1>8. LatestOf(s) = CHOOSE x \in RowsOf(s) : Latest(x)
  BY DEF LatestOf
<1>9. LatestOf(s) \in RowsOf(s) /\ Latest(LatestOf(s))
  <2> HIDE DEF Latest
  <2>1. Latest(r)
    BY <1>7 DEF Latest
  <2> QED BY <1>8, <2>1
<1> QED BY <1>5, <1>6, <1>9

-----------------------------------------------------------------------------
(* Steps of a capture that leave the tables alone                          *)

LEMMA InitKeeps ==
  ASSUME Init
  PROVE  IInv
<1>1. TypeOK
  <2>1. /\ summary \in [Session -> SUBSET Row] /\ seen \in [Session -> SUBSET Row]
        /\ captured \in [Session -> SUBSET Time]
    BY DEF Init
  <2>2. 1 \in 1 .. MaxId + 1 /\ 0 \in Time /\ 0 \in 0 .. MaxId
    OBVIOUS
  <2>3. QED
    BY <2>1, <2>2 DEF Init, TypeOK
<1>2. KeysOK /\ CaptureOK /\ CleanupOK
  BY DEF Init, KeysOK, CaptureOK, CleanupOK, RowsOf
<1>3. Spacing /\ SummaryExact /\ CapturedIsKept
  BY DEF Init, Spacing, SummaryExact, CapturedIsKept
<1>4. QED
  BY <1>1, <1>2, <1>3 DEF IInv

(* What only moves the capture keeps all that is said of the tables and of *)
(* the cleanup.                                                            *)
LEMMA CaptureMoves ==
  ASSUME IInv, UNCHANGED <<store, cleanup, history>>, TypeOK', CaptureOK', latest' < nextId
  PROVE  IInv'
<1>1. UNCHANGED <<rows, nextId, sessions, summary, cpc, cutoff, affected, target, seen,
                  dead, locked, captured, disturbed>>
  BY DEF store, cleanup, history
<1>2. KeysOK' /\ CleanupOK'
  BY <1>1 DEF IInv, KeysOK, CleanupOK, RowsOf
<1>3. Spacing' /\ SummaryExact' /\ CapturedIsKept'
  BY <1>1 DEF IInv, Spacing, SummaryExact, CapturedIsKept, RowsOf
<1>4. QED
  BY <1>2, <1>3 DEF IInv

LEMMA BeginKeeps ==
  ASSUME IInv, NEW want \in SUBSET (Session \X Time), Begin(want)
  PROVE  IInv'
<1>1. TypeOK' /\ CaptureOK' /\ latest' < nextId
  BY DEF IInv, TypeOK, CaptureOK, KeysOK, Begin, store, cleanup, history
<1>2. QED
  BY <1>1, CaptureMoves DEF Begin

LEMMA ReadLatestKeeps ==
  ASSUME IInv, NEW s \in Session, NEW t \in Time, ReadLatest(s, t)
  PROVE  IInv'
<1>1. UNCHANGED <<rows, nextId, sessions, summary, coolingDown, cpc, cutoff, affected,
                  target, seen, dead, locked, captured, disturbed>>
      /\ UNCHANGED <<store, cleanup, history>>
  BY DEF ReadLatest, store, cleanup, history
<1>2. todo' \subseteq Session \X Time
  BY DEF ReadLatest, IInv, TypeOK
<1>3. CASE RowsOf(s) # {} /\ IsStale(s, t)
  <2>1. pc' \in {"idle", "read"} /\ UNCHANGED <<current, at, latest>>
    BY <1>3 DEF ReadLatest
  <2>2. TypeOK' /\ CaptureOK' /\ latest' < nextId
    BY <1>1, <1>2, <2>1 DEF IInv, TypeOK, CaptureOK, KeysOK
  <2>3. QED
    BY <1>1, <2>2, CaptureMoves
<1>4. CASE ~(RowsOf(s) # {} /\ IsStale(s, t)) /\ IsDue(s, t)
  <2>1. pc' = "insert" /\ current' = s /\ at' = t /\ latest' = 0
    BY <1>4 DEF ReadLatest
  <2>2. \A r \in RowsOf(s) : t >= r.time + Interval
    <3>1. SUFFICES ASSUME RowsOf(s) # {} PROVE \A r \in RowsOf(s) : t >= r.time + Interval
      OBVIOUS
    <3>2. t >= LatestOf(s).time + Interval
      BY <1>4, <3>1 DEF IsDue
    <3>3. RowsOf(s) \subseteq Row
      BY DEF RowsOf, IInv, TypeOK
    <3>4. QED
      BY <3>1, <3>2, <3>3, LatestIsThere DEF Row
  <2>3. TypeOK' /\ CaptureOK' /\ latest' < nextId
    BY <1>1, <1>2, <2>1, <2>2, NoneType DEF IInv, TypeOK, CaptureOK, KeysOK, RowsOf
  <2>4. QED
    BY <1>1, <2>3, CaptureMoves
<1>5. CASE ~(RowsOf(s) # {} /\ IsStale(s, t)) /\ ~IsDue(s, t)
  <2> DEFINE l == LatestOf(s)
  <2>1. RowsOf(s) # {} /\ t >= l.time /\ ~ t >= l.time + Interval
    <3>1. RowsOf(s) # {} /\ ~ t < l.time /\ ~ t >= l.time + Interval
      BY <1>5 DEF IsStale, IsDue
    <3>2. l \in Row
      BY <3>1, LatestIsThere DEF RowsOf, IInv, TypeOK
    <3>3. QED
      BY <3>1, <3>2 DEF Row
  <2>2. l \in rows /\ l \in Row /\ l.session = s /\ RowsOf(s) \subseteq Row
    BY <2>1, LatestIsThere DEF RowsOf, IInv, TypeOK
  <2>3. \A q \in RowsOf(s) : q.time < l.time \/ q = l
    BY <2>1, LatestIsThere
  <2>4. pc' = "update" /\ current' = s /\ at' = t /\ latest' = l.id
    BY <1>5 DEF ReadLatest
  <2> HIDE DEF l
  <2>5. \A q \in RowsOf(s) : t >= q.time + Interval \/ q = l
    BY <2>1, <2>2, <2>3 DEF IInv, Spacing, RowsOf, Row
  <2>6. \A q \in rows : q.id = l.id => q = l
    BY <2>2 DEF IInv, KeysOK
  <2>7. CaptureOK'
    BY <1>1, <2>1, <2>2, <2>4, <2>5, <2>6 DEF CaptureOK, RowsOf
  <2>8. TypeOK' /\ latest' < nextId
    BY <1>1, <1>2, <2>2, <2>4, NoneType DEF IInv, TypeOK, KeysOK, Row
  <2>9. QED
    BY <1>1, <2>7, <2>8, CaptureMoves
<1>6. QED
  BY <1>3, <1>4, <1>5

LEMMA LockSessionKeeps ==
  ASSUME IInv, LockSession
  PROVE  IInv'
<1>1. TypeOK' /\ CaptureOK' /\ latest' < nextId
  BY DEF IInv, TypeOK, CaptureOK, KeysOK, LockSession, store, cleanup, history
<1>2. QED
  BY <1>1, CaptureMoves DEF LockSession

LEMMA CaptureFailsKeeps ==
  ASSUME IInv, CaptureFails
  PROVE  IInv'
<1>1. TypeOK' /\ CaptureOK' /\ latest' < nextId
  BY DEF IInv, TypeOK, CaptureOK, KeysOK, CaptureFails, Fails, store, cleanup, history
<1>2. QED
  BY <1>1, CaptureMoves DEF CaptureFails

LEMMA CircuitClosesKeeps ==
  ASSUME IInv, CircuitCloses
  PROVE  IInv'
<1>1. TypeOK' /\ CaptureOK' /\ latest' < nextId
  BY DEF IInv, TypeOK, CaptureOK, KeysOK, CircuitCloses, RowsOf, store, cleanup, history
<1>2. QED
  BY <1>1, CaptureMoves DEF CircuitCloses

-----------------------------------------------------------------------------
(* Steps of a capture that write                                           *)

(* Whether the commit is acknowledged or not, the capture lets go.         *)
LEMMA LetsGo ==
  ASSUME TypeOK, current \in Session, Acknowledged, Disturb(current)
  PROVE  /\ pc' \in {"idle", "read"} /\ todo' \subseteq Session \X Time
         /\ current' = None /\ at' = 0 /\ latest' = 0 /\ coolingDown' \in BOOLEAN
         /\ captured' \in [Session -> SUBSET Time]
         /\ \A s \in Session : \A t \in captured'[s] :
              t \in captured[s] \/ (s = current /\ t = at)
         /\ disturbed' \subseteq Session
         /\ \A s \in Session \ {current} : s \in disturbed' <=> s \in disturbed
         /\ current \in disturbed' <=> cpc # "idle"
<1>1. CASE Done /\ captured' = [captured EXCEPT ![current] = @ \cup {at}]
  BY <1>1 DEF Done, TypeOK, Disturb
<1>2. CASE Fails /\ UNCHANGED captured
  BY <1>2 DEF Fails, TypeOK, Disturb
<1>3. QED
  BY <1>1, <1>2 DEF Acknowledged

LEMMA InsertKeeps ==
  ASSUME IInv, InsertSnapshot
  PROVE  IInv'
<1> DEFINE n == [id |-> nextId, session |-> current, time |-> at]
<1>1. /\ current \in Session /\ current \notin locked /\ nextId \in Id /\ at \in Time
      /\ rows' = rows \cup {n} /\ nextId' = nextId + 1
      /\ sessions' = sessions \cup {current}
      /\ summary' = [summary EXCEPT ![current] = {r \in rows' : r.session = current}]
      /\ UNCHANGED <<cpc, cutoff, affected, target, seen, dead, locked>>
  BY DEF InsertSnapshot, RefreshSession, cleanup, IInv, TypeOK
<1>2. /\ pc' \in {"idle", "read"} /\ todo' \subseteq Session \X Time
      /\ current' = None /\ at' = 0 /\ latest' = 0 /\ coolingDown' \in BOOLEAN
      /\ captured' \in [Session -> SUBSET Time]
      /\ \A s \in Session : \A t \in captured'[s] :
           t \in captured[s] \/ (s = current /\ t = at)
      /\ disturbed' \subseteq Session
      /\ \A s \in Session \ {current} : s \in disturbed' <=> s \in disturbed
      /\ current \in disturbed' <=> cpc # "idle"
  BY <1>1, LetsGo DEF InsertSnapshot, IInv
<1>3. n \in Row /\ n.id = nextId /\ n.session = current /\ n.time = at
  BY <1>1 DEF Row
<1>4. rows \subseteq Row /\ rows' \subseteq Row /\ \A r \in rows : r.id < nextId
  BY <1>1, <1>3 DEF IInv, TypeOK, KeysOK
<1> HIDE DEF n
<1>5. TypeOK'
  <2>1. summary' \in [Session -> SUBSET Row] /\ nextId' \in 1 .. MaxId + 1
    BY <1>1, <1>4 DEF IInv, TypeOK
  <2>2. QED
    BY <1>1, <1>2, <1>4, <2>1 DEF IInv, TypeOK
<1>6. \A s \in Session :
        RowsOf(s)' = IF s = current THEN RowsOf(s) \cup {n} ELSE RowsOf(s)
  BY <1>1, <1>3 DEF RowsOf
<1>7. KeysOK' /\ CaptureOK'
  BY <1>1, <1>2, <1>3, <1>4 DEF IInv, KeysOK, CaptureOK, Row
<1>8. CleanupOK'
  <2>1. cpc = "idle" => dead = {}
    BY DEF IInv, CleanupOK
  <2>2. \A s \in Session \ {current} : RowsOf(s)' = RowsOf(s) /\ (s \in disturbed' <=> s \in disturbed)
    BY <1>2, <1>6
  <2>3. cpc # "idle" => current \in disturbed'
    BY <1>2
  <2>4. locked \subseteq Session \ {current}
    BY <1>1 DEF IInv, TypeOK
  <2>5. QED
    BY <1>1, <2>2, <2>3, <2>4 DEF IInv, CleanupOK
<1>9. Spacing'
  <2>1. \A r \in rows : r.session = current => at >= r.time + Interval
    BY DEF InsertSnapshot, IInv, CaptureOK, RowsOf
  <2>2. QED
    BY <1>1, <1>3, <2>1 DEF IInv, Spacing
<1>10. SummaryExact'
  <2>1. \A s \in Session : s = current => summary'[s] = RowsOf(s)'
    BY <1>1 DEF IInv, TypeOK, RowsOf
  <2>2. \A s \in Session \ {current} : summary'[s] = summary[s]
    BY <1>1 DEF IInv, TypeOK
  <2>3. sessions \subseteq Session
    BY DEF IInv, TypeOK
  <2>4. QED
    BY <1>1, <1>2, <1>6, <2>1, <2>2, <2>3 DEF IInv, SummaryExact
<1>11. CapturedIsKept'
  <2>1. SUFFICES ASSUME NEW s \in Session, NEW t \in captured'[s]
                 PROVE  \E r \in RowsOf(s)' : r.time >= t
    BY DEF CapturedIsKept
  <2>2. CASE t \in captured[s]
    BY <1>6, <2>2 DEF IInv, CapturedIsKept
  <2>3. CASE s = current /\ t = at
    BY <1>1, <1>3, <1>6, <2>3
  <2>4. QED
    BY <1>2, <2>2, <2>3
<1>12. QED
  BY <1>5, <1>7, <1>8, <1>9, <1>10, <1>11 DEF IInv

LEMMA UpdateKeeps ==
  ASSUME IInv, UpdateSnapshot
  PROVE  IInv'
<1>1. PICK o \in rows : o.id = latest /\ rows' = (rows \ {o}) \cup {[o EXCEPT !.time = at]}
  BY DEF UpdateSnapshot
<1> DEFINE n == [o EXCEPT !.time = at]
<1>2. /\ current \in Session /\ at \in Time /\ pc = "locked" /\ latest \notin dead
      /\ sessions' = sessions \cup {current} /\ nextId' = nextId
      /\ summary' = [summary EXCEPT ![current] = {r \in rows' : r.session = current}]
      /\ UNCHANGED <<cpc, cutoff, affected, target, seen, dead, locked>>
  BY DEF UpdateSnapshot, RefreshSession, cleanup, IInv, TypeOK
<1>3. /\ pc' \in {"idle", "read"} /\ todo' \subseteq Session \X Time
      /\ current' = None /\ at' = 0 /\ latest' = 0 /\ coolingDown' \in BOOLEAN
      /\ captured' \in [Session -> SUBSET Time]
      /\ \A s \in Session : \A t \in captured'[s] :
           t \in captured[s] \/ (s = current /\ t = at)
      /\ disturbed' \subseteq Session
      /\ \A s \in Session \ {current} : s \in disturbed' <=> s \in disturbed
      /\ current \in disturbed' <=> cpc # "idle"
  BY <1>2, LetsGo DEF UpdateSnapshot, IInv
<1>4. o \in Row /\ o.session = current /\ o.time <= at /\ rows \subseteq Row
  <2>1. o \in Row /\ rows \subseteq Row
    BY DEF IInv, TypeOK
  <2>2. o.session = current
    BY <1>1, <1>2 DEF IInv, CaptureOK
  <2>3. at >= o.time + Interval \/ at >= o.time
    BY <1>1, <1>2, <2>2 DEF IInv, CaptureOK
  <2>4. QED
    BY <1>2, <2>1, <2>2, <2>3 DEF Row
<1>5. n \in Row /\ n.id = latest /\ n.session = current /\ n.time = at
  BY <1>1, <1>2, <1>4 DEF Row
<1>6. current \in sessions /\ current \notin locked
  BY <1>2, <1>4 DEF IInv, KeysOK, CaptureOK
<1> HIDE DEF n
<1>7. rows' = (rows \ {o}) \cup {n} /\ rows' \subseteq Row
  BY <1>1, <1>4, <1>5 DEF n
<1>8. TypeOK'
  <2>1. summary' \in [Session -> SUBSET Row]
    BY <1>2, <1>7 DEF IInv, TypeOK
  <2>2. QED
    BY <1>2, <1>3, <1>7, <2>1 DEF IInv, TypeOK
<1>9. \A s \in Session :
        RowsOf(s)' = IF s = current THEN (RowsOf(s) \ {o}) \cup {n} ELSE RowsOf(s)
  BY <1>4, <1>5, <1>7 DEF RowsOf
<1>10. \A r \in rows : r.session = current => r = o \/ at >= r.time + Interval
  BY <1>1, <1>2 DEF IInv, CaptureOK, KeysOK
<1>11. KeysOK' /\ CaptureOK'
  <2>1. CaptureOK'
    BY <1>3 DEF CaptureOK
  <2>2. \A r \in rows \ {o} : r.id # latest
    BY <1>1 DEF IInv, KeysOK
  <2>3. \A r, q \in rows' : r.id = q.id => r = q
    BY <1>5, <1>7, <2>2 DEF IInv, KeysOK
  <2>4. latest < nextId /\ 0 < nextId
    BY DEF IInv, KeysOK, TypeOK
  <2>5. QED
    BY <1>2, <1>3, <1>5, <1>7, <2>1, <2>3, <2>4 DEF IInv, KeysOK
<1>12. CleanupOK'
  <2>1. \A s \in Session \ {current} : RowsOf(s)' = RowsOf(s) /\ (s \in disturbed' <=> s \in disturbed)
    BY <1>3, <1>9
  <2>2. cpc # "idle" => current \in disturbed'
    BY <1>3
  <2>3. locked \subseteq Session \ {current}
    BY <1>6 DEF IInv, TypeOK
  <2>4. QED
    BY <1>2, <2>1, <2>2, <2>3 DEF IInv, CleanupOK
<1>13. Spacing'
  BY <1>5, <1>7, <1>10 DEF IInv, Spacing
<1>14. SummaryExact'
  <2>1. \A s \in Session : s = current => summary'[s] = RowsOf(s)'
    BY <1>2 DEF IInv, TypeOK, RowsOf
  <2>2. \A s \in Session \ {current} : summary'[s] = summary[s]
    BY <1>2 DEF IInv, TypeOK
  <2>3. sessions \subseteq Session
    BY DEF IInv, TypeOK
  <2>4. QED
    BY <1>2, <1>3, <1>9, <2>1, <2>2, <2>3 DEF IInv, SummaryExact
<1>15. CapturedIsKept'
  <2>1. SUFFICES ASSUME NEW s \in Session, NEW t \in captured'[s]
                 PROVE  \E r \in RowsOf(s)' : r.time >= t
    BY DEF CapturedIsKept
  <2>2. CASE t \in captured[s]
    <3>1. PICK r \in RowsOf(s) : r.time >= t
      BY <2>2 DEF IInv, CapturedIsKept
    <3>2. r \in Row /\ t \in Time
      BY <1>4, <2>2 DEF RowsOf, IInv, TypeOK
    <3>3. CASE r = o
      BY <1>2, <1>4, <1>5, <1>9, <3>1, <3>2, <3>3 DEF RowsOf, Row
    <3>4. CASE r # o
      BY <1>9, <3>1, <3>4
    <3>5. QED
      BY <3>3, <3>4
  <2>3. CASE s = current /\ t = at
    BY <1>2, <1>5, <1>9, <2>3
  <2>4. QED
    BY <1>3, <2>2, <2>3
<1>16. QED
  BY <1>8, <1>11, <1>12, <1>13, <1>14, <1>15 DEF IInv

LEMMA UpdateNothingKeeps ==
  ASSUME IInv, UpdateNothing
  PROVE  IInv'
<1>1. /\ current \in Session /\ pc = "locked" /\ pc' = "insert"
      /\ sessions' = sessions \cup {current}
      /\ summary' = IF current \in sessions THEN summary
                    ELSE [summary EXCEPT ![current] = {}]
      /\ \A r \in rows : r.id # latest
      /\ UNCHANGED <<rows, nextId, todo, current, at, latest, coolingDown, cpc, cutoff,
                     affected, target, seen, dead, locked, captured, disturbed>>
  BY DEF UpdateNothing, FallBack, cleanup, history, IInv, TypeOK
<1>2. TypeOK'
  BY <1>1 DEF IInv, TypeOK
<1>3. \A s \in Session : RowsOf(s)' = RowsOf(s)
  BY <1>1 DEF RowsOf
<1>4. KeysOK'
  BY <1>1 DEF IInv, KeysOK
<1>5. CaptureOK'
  BY <1>1 DEF IInv, CaptureOK, RowsOf
<1>6. CleanupOK'
  BY <1>1, <1>3 DEF IInv, CleanupOK, TypeOK
<1>7. SummaryExact'
  <2>1. current \notin sessions => RowsOf(current) = {}
    BY DEF IInv, KeysOK, RowsOf
  <2>2. sessions \subseteq Session
    BY DEF IInv, TypeOK
  <2>3. \A s \in sessions : summary'[s] = summary[s]
    BY <1>1, <2>2 DEF IInv, TypeOK
  <2>4. current \notin sessions => summary'[current] = {}
    BY <1>1 DEF IInv, TypeOK
  <2>5. QED
    BY <1>1, <1>3, <2>1, <2>2, <2>3, <2>4 DEF IInv, SummaryExact
<1>8. Spacing' /\ CapturedIsKept'
  BY <1>1, <1>3 DEF IInv, Spacing, CapturedIsKept
<1>9. QED
  BY <1>2, <1>4, <1>5, <1>6, <1>7, <1>8 DEF IInv

-----------------------------------------------------------------------------
(* Steps of a cleanup                                                      *)

(* Until it ends, a cleanup leaves what is committed as it is.             *)
LEMMA CleanupMoves ==
  ASSUME IInv, UNCHANGED <<store, capture, history>>, TypeOK', CleanupOK',
         pc = "locked" /\ current \in sessions => current \notin locked'
  PROVE  IInv'
<1>1. UNCHANGED <<rows, nextId, sessions, summary, pc, todo, current, at, latest,
                  coolingDown, captured, disturbed>>
  BY DEF store, capture, history
<1>2. KeysOK' /\ CaptureOK'
  BY <1>1 DEF IInv, KeysOK, CaptureOK, RowsOf
<1>3. Spacing' /\ SummaryExact' /\ CapturedIsKept'
  BY <1>1 DEF IInv, Spacing, SummaryExact, CapturedIsKept, RowsOf
<1>4. QED
  BY <1>2, <1>3 DEF IInv

LEMMA StartKeeps ==
  ASSUME IInv, NEW c \in Cutoffs, StartCleanup(c)
  PROVE  IInv'
<1>1. /\ cpc = "idle" /\ cpc' = "delete" /\ cutoff' = c /\ c \in Nat
      /\ affected' = {r.session : r \in {q \in rows : q.time < c}}
      /\ UNCHANGED <<target, seen, dead, locked>> /\ target = None
      /\ dead = {} /\ locked = {}
      /\ UNCHANGED <<store, capture, history>>
  BY CutoffType DEF StartCleanup, history, IInv, TypeOK, CleanupOK
<1>2. UNCHANGED <<rows, nextId, sessions, summary, pc, todo, current, at, latest,
                  coolingDown, captured, disturbed>>
  BY <1>1 DEF store, capture, history
<1>3. affected' \subseteq Session
  BY <1>1 DEF IInv, TypeOK, Row
<1>4. TypeOK'
  BY <1>1, <1>2, <1>3 DEF IInv, TypeOK
<1>5. \A s \in Session : RowsOf(s)' = RowsOf(s)
  BY <1>2 DEF RowsOf
<1>6. \A s \in Session : \A r \in RowsOf(s) : r.time < c => s \in affected'
  BY <1>1 DEF RowsOf
<1>7. CleanupOK'
  BY <1>1, <1>5, <1>6, NoneType DEF CleanupOK
<1>8. QED
  BY <1>1, <1>4, <1>7, CleanupMoves

LEMMA DeleteKeeps ==
  ASSUME IInv, DeleteOld
  PROVE  IInv'
<1>1. /\ cpc = "delete" /\ cpc' = "refresh"
      /\ dead' = {r.id : r \in {q \in rows : q.time < cutoff}}
      /\ UNCHANGED <<cutoff, affected, target, seen, locked>> /\ target = None
      /\ locked = {}
      /\ UNCHANGED <<store, capture, history>>
  BY DEF DeleteOld, IsOld, IInv, TypeOK, CleanupOK
<1>2. UNCHANGED <<rows, nextId, sessions, summary, pc, todo, current, at, latest,
                  coolingDown, captured, disturbed>>
  BY <1>1 DEF store, capture, history
<1>3. TypeOK'
  BY <1>1, <1>2 DEF IInv, TypeOK, Row
<1>4. \A s \in Session : RowsOf(s)' = RowsOf(s)
  BY <1>2 DEF RowsOf
<1>5. \A r \in rows : r.id \in dead' <=> r.time < cutoff
  BY <1>1 DEF IInv, KeysOK
<1>6. CleanupOK'
  <2>1. \A s \in Session : RowsOf(s) \subseteq rows
    BY DEF RowsOf
  <2>2. \A s \in Session \ disturbed : \A r \in RowsOf(s) : r.time < cutoff => s \in affected
    BY <1>1 DEF IInv, CleanupOK
  <2>3. QED
    BY <1>1, <1>2, <1>4, <1>5, <2>1, <2>2, NoneType DEF CleanupOK
<1>7. QED
  BY <1>1, <1>3, <1>6, CleanupMoves

LEMMA ReadSessionKeeps ==
  ASSUME IInv, NEW s \in Session, ReadSession(s)
  PROVE  IInv'
<1>1. /\ cpc = "refresh" /\ s \in affected /\ cpc' = "write" /\ target' = s
      /\ affected' = affected \ {s} /\ target = None
      /\ seen' = [seen EXCEPT ![s] = {r \in RowsOf(s) : r.id \notin dead}]
      /\ UNCHANGED <<cutoff, dead, locked>>
      /\ UNCHANGED <<store, capture, history>>
  BY DEF ReadSession, IInv, TypeOK
<1>2. UNCHANGED <<rows, nextId, sessions, summary, pc, todo, current, at, latest,
                  coolingDown, captured, disturbed>>
  BY <1>1 DEF store, capture, history
<1>3. TypeOK'
  BY <1>1, <1>2, NoneType DEF IInv, TypeOK, RowsOf
<1>4. \A u \in Session : RowsOf(u)' = RowsOf(u)
  BY <1>2 DEF RowsOf
<1>5. \A u \in Session : seen'[u] = IF u = s THEN {r \in RowsOf(s) : r.id \notin dead} ELSE seen[u]
  BY <1>1 DEF IInv, TypeOK
<1>6. CleanupOK'
  <2>1. ASSUME NEW u \in locked, seen'[u] = {}
        PROVE  \A r \in RowsOf(u) : r.id \in dead
    <3>1. u \in Session
      BY DEF IInv, TypeOK
    <3>2. QED
      BY <1>5, <2>1, <3>1 DEF IInv, CleanupOK
  <2>2. locked \subseteq Session /\ locked \subseteq sessions
    BY DEF IInv, TypeOK, CleanupOK
  <2>3. ASSUME NEW u \in Session \ disturbed
        PROVE  /\ \A r \in RowsOf(u) : r.id \in dead => r.time < cutoff
               /\ u \in locked \/ s = u => seen'[u] = {r \in RowsOf(u) : r.id \notin dead}
               /\ u \notin affected' \cup locked \cup {s} => \A r \in RowsOf(u) : r.id \notin dead
    <3>1. /\ \A r \in RowsOf(u) : r.id \in dead => r.time < cutoff
          /\ u \in locked => seen[u] = {r \in RowsOf(u) : r.id \notin dead}
          /\ u \notin affected \cup locked => \A r \in RowsOf(u) : r.id \notin dead
      BY <1>1, NoneType DEF IInv, CleanupOK
    <3>2. QED
      BY <1>1, <1>5, <3>1
  <2>4. QED
    BY <1>1, <1>2, <1>4, <2>1, <2>2, <2>3 DEF CleanupOK
<1>7. pc = "locked" /\ current \in sessions => current \notin locked'
  BY <1>1 DEF IInv, CaptureOK
<1>8. QED
  BY <1>1, <1>3, <1>6, <1>7, CleanupMoves

LEMMA WriteSessionKeeps ==
  ASSUME IInv, WriteSession
  PROVE  IInv'
<1>1. /\ cpc = "write" /\ cpc' = "refresh" /\ target \in Session /\ target' = None
      /\ ~(target \in sessions /\ pc = "locked" /\ current = target)
      /\ locked' = IF target \in sessions THEN locked \cup {target} ELSE locked
      /\ dead' = IF target \in sessions /\ seen[target] = {}
                 THEN dead \cup {r.id : r \in RowsOf(target)} ELSE dead
      /\ UNCHANGED <<cutoff, affected, seen>>
      /\ UNCHANGED <<store, capture, history>>
  BY DEF WriteSession, IInv, TypeOK
<1>2. UNCHANGED <<rows, nextId, sessions, summary, pc, todo, current, at, latest,
                  coolingDown, captured, disturbed>>
  BY <1>1 DEF store, capture, history
<1>3. rows \subseteq Row /\ sessions \subseteq Session
  BY DEF IInv, TypeOK
<1>4. dead' \subseteq Id /\ dead \subseteq dead'
  BY <1>1, <1>3 DEF RowsOf, Row, IInv, TypeOK
<1>5. TypeOK'
  BY <1>1, <1>2, <1>4 DEF IInv, TypeOK
<1>6. \A u \in Session : RowsOf(u)' = RowsOf(u)
  BY <1>2 DEF RowsOf
<1>7. \A u \in Session \ {target} : \A r \in RowsOf(u) : r.id \in dead' <=> r.id \in dead
  BY <1>1 DEF RowsOf, IInv, KeysOK
<1>8. target \notin disturbed => \A r \in RowsOf(target) : r.id \in dead' <=> r.id \in dead
  <2>1. target \notin disturbed => seen[target] = {r \in RowsOf(target) : r.id \notin dead}
    BY <1>1 DEF IInv, CleanupOK
  <2>2. QED
    BY <1>1, <2>1
<1>9. target \notin sessions => RowsOf(target) = {}
  BY DEF RowsOf, IInv, KeysOK
<1>10. \A u \in Session \ disturbed : \A r \in RowsOf(u) : r.id \in dead' <=> r.id \in dead
  BY <1>7, <1>8
<1>11. CleanupOK'
  <2>1. ASSUME NEW u \in locked', seen[u] = {}
        PROVE  \A r \in RowsOf(u) : r.id \in dead'
    <3>1. CASE u \in locked
      BY <1>4, <2>1, <3>1 DEF IInv, CleanupOK
    <3>2. CASE u = target /\ target \in sessions
      BY <1>1, <2>1, <3>2
    <3>3. QED
      BY <1>1, <3>1, <3>2
  <2>2. locked' \subseteq sessions /\ locked \subseteq locked'
    BY <1>1 DEF IInv, CleanupOK
  <2>3. ASSUME NEW u \in Session \ disturbed
        PROVE  /\ \A r \in RowsOf(u) : r.id \in dead' => r.time < cutoff
               /\ u \in locked' => seen[u] = {r \in RowsOf(u) : r.id \notin dead'}
               /\ u \notin affected \cup locked' => \A r \in RowsOf(u) : r.id \notin dead'
    <3>1. {r \in RowsOf(u) : r.id \notin dead'} = {r \in RowsOf(u) : r.id \notin dead}
      BY <1>10
    <3>2. u \in locked \/ target = u => seen[u] = {r \in RowsOf(u) : r.id \notin dead}
      BY <1>1 DEF IInv, CleanupOK
    <3>3. \A r \in RowsOf(u) : r.id \in dead => r.time < cutoff
      BY <1>1 DEF IInv, CleanupOK
    <3>4. u \notin affected \cup locked \cup {target} => \A r \in RowsOf(u) : r.id \notin dead
      BY <1>1 DEF IInv, CleanupOK
    <3>5. QED
      BY <1>1, <1>9, <1>10, <3>1, <3>2, <3>3, <3>4
  <2>4. locked' \subseteq Session
    BY <1>5 DEF TypeOK
  <2>5. /\ cpc' = "refresh" /\ target' = None /\ sessions' = sessions /\ seen' = seen
        /\ cutoff' = cutoff /\ affected' = affected /\ disturbed' = disturbed
    BY <1>1, <1>2
  <2>6. \A u \in locked' : seen'[u] = {} => \A r \in RowsOf(u)' : r.id \in dead'
    BY <1>6, <2>1, <2>4, <2>5
  <2>7. ASSUME NEW u \in Session \ disturbed'
        PROVE  /\ \A r \in RowsOf(u)' : r.id \in dead' => r.time < cutoff'
               /\ u \in locked' \/ target' = u => seen'[u] = {r \in RowsOf(u)' : r.id \notin dead'}
               /\ u \notin affected' \cup locked' \cup {target'} =>
                    \A r \in RowsOf(u)' : r.id \notin dead'
    <3>1. u \in Session \ disturbed /\ RowsOf(u)' = RowsOf(u) /\ target' # u
      BY <1>6, <2>5, NoneType
    <3>2. QED
      BY <2>3, <2>5, <3>1
  <2>8. locked' \subseteq sessions'
    BY <2>2, <2>5
  <2>9. QED
    BY <2>5, <2>6, <2>7, <2>8 DEF CleanupOK
<1>12. pc = "locked" /\ current \in sessions => current \notin locked'
  BY <1>1 DEF IInv, CaptureOK
<1>13. QED
  BY <1>1, <1>5, <1>11, <1>12, CleanupMoves

LEMMA EndsKeep ==
  ASSUME TypeOK, CleanupEnds
  PROVE  /\ cpc' = "idle" /\ cutoff' \in Nat /\ affected' = {} /\ target' = None
         /\ seen' \in [Session -> SUBSET Row] /\ dead' = {} /\ locked' = {}
         /\ CleanupOK'
BY DEF CleanupEnds, CleanupOK

LEMMA CleanupFailsKeeps ==
  ASSUME IInv, CleanupFails
  PROVE  IInv'
<1>1. TypeOK
  BY DEF IInv
<1>2. CleanupOK'
  BY <1>1, EndsKeep DEF CleanupFails
<1>3. UNCHANGED <<rows, nextId, sessions, summary, pc, todo, current, at, latest,
                  coolingDown, captured, disturbed>>
  BY DEF CleanupFails, store, capture, history
<1>4. TypeOK'
  BY <1>1, <1>3, EndsKeep DEF CleanupFails, TypeOK
<1>5. locked' = {}
  BY <1>1, EndsKeep DEF CleanupFails
<1>6. QED
  BY <1>2, <1>4, <1>5, CleanupMoves DEF CleanupFails

LEMMA CommitKeeps ==
  ASSUME IInv, CommitCleanup
  PROVE  IInv' /\ \A r \in rows : r.time >= cutoff => r \in rows' \/ r.session \in disturbed
<1>1. /\ cpc = "refresh" /\ affected = {} /\ target = None
      /\ rows' = {r \in rows : r.id \notin dead}
      /\ sessions' = {s \in sessions : s \in locked => seen[s] # {}}
      /\ summary' = [s \in Session |-> IF s \in locked THEN seen[s] ELSE summary[s]]
      /\ captured' = [s \in Session |->
                        IF s \in disturbed THEN {} ELSE {t \in captured[s] : t >= cutoff}]
      /\ UNCHANGED <<nextId, pc, todo, current, at, latest, coolingDown, disturbed>>
  BY DEF CommitCleanup, capture, IInv, TypeOK
<1>2. /\ cpc' = "idle" /\ cutoff' \in Nat /\ affected' = {} /\ target' = None
      /\ seen' \in [Session -> SUBSET Row] /\ dead' = {} /\ locked' = {} /\ CleanupOK'
  BY EndsKeep DEF CommitCleanup, IInv
<1>3. rows \subseteq Row /\ cutoff \in Nat /\ captured \in [Session -> SUBSET Time]
  BY DEF IInv, TypeOK
<1>4. TypeOK'
  <2>1. summary' \in [Session -> SUBSET Row] /\ captured' \in [Session -> SUBSET Time]
    BY <1>1 DEF IInv, TypeOK
  <2>2. QED
    BY <1>1, <1>2, <2>1 DEF IInv, TypeOK
<1>5. \A s \in Session : RowsOf(s)' = {r \in RowsOf(s) : r.id \notin dead}
  BY <1>1 DEF RowsOf
<1>6. \A s \in Session \ disturbed :
        /\ \A r \in RowsOf(s) : r.id \in dead => r.time < cutoff
        /\ s \in locked => seen[s] = RowsOf(s)'
        /\ s \notin locked => RowsOf(s)' = RowsOf(s)
  <2>1. ASSUME NEW s \in Session \ disturbed
        PROVE  /\ \A r \in RowsOf(s) : r.id \in dead => r.time < cutoff
               /\ s \in locked => seen[s] = {r \in RowsOf(s) : r.id \notin dead}
               /\ s \notin locked => \A r \in RowsOf(s) : r.id \notin dead
    BY <1>1, NoneType DEF IInv, CleanupOK
  <2>2. QED
    BY <1>5, <2>1
<1>7. KeysOK'
  <2>1. ASSUME NEW r \in rows'
        PROVE  r.session \in sessions'
    <3>1. r \in rows /\ r.id \notin dead /\ r.session \in sessions /\ r \in RowsOf(r.session)
      BY <1>1 DEF IInv, KeysOK, RowsOf
    <3>2. r.session \in locked => seen[r.session] # {}
      BY <3>1 DEF IInv, CleanupOK
    <3>3. QED
      BY <1>1, <3>1, <3>2
  <2>2. QED
    BY <1>1, <2>1 DEF IInv, KeysOK
<1>8. CaptureOK'
  BY <1>1, <1>2 DEF IInv, CaptureOK, RowsOf
<1>9. Spacing'
  BY <1>1 DEF IInv, Spacing
<1>10. SummaryExact'
  <2>1. ASSUME NEW s \in sessions', s \notin disturbed
        PROVE  summary'[s] = RowsOf(s)'
    <3>1. s \in Session /\ s \in sessions
      BY <1>1 DEF IInv, TypeOK
    <3>2. summary[s] = RowsOf(s)
      BY <2>1, <3>1 DEF IInv, SummaryExact
    <3>3. QED
      BY <1>1, <1>6, <2>1, <3>1, <3>2
  <2>2. QED
    BY <1>1, <2>1 DEF SummaryExact
<1>11. CapturedIsKept'
  <2>1. SUFFICES ASSUME NEW s \in Session, NEW t \in captured'[s]
                 PROVE  \E r \in RowsOf(s)' : r.time >= t
    BY DEF CapturedIsKept
  <2>2. s \notin disturbed /\ t \in captured[s] /\ t >= cutoff
    BY <1>1, <2>1
  <2>3. PICK r \in RowsOf(s) : r.time >= t
    BY <2>2 DEF IInv, CapturedIsKept
  <2>4. r.time \in Nat /\ t \in Nat
    BY <1>3, <2>2 DEF RowsOf, Row
  <2>5. r.id \notin dead
    BY <1>3, <1>6, <2>2, <2>3, <2>4
  <2>6. QED
    BY <1>5, <2>3, <2>5
<1>12. \A r \in rows : r.time >= cutoff => r \in rows' \/ r.session \in disturbed
  <2>1. SUFFICES ASSUME NEW r \in rows, r.time >= cutoff, r.session \notin disturbed
                 PROVE  r \in rows'
    OBVIOUS
  <2>2. r \in RowsOf(r.session) /\ r.session \in Session /\ r.time \in Nat
    BY <1>3 DEF RowsOf, Row
  <2>3. r.id \notin dead
    BY <1>3, <1>6, <2>1, <2>2
  <2>4. QED
    BY <1>1, <2>3
<1>13. QED
  BY <1>2, <1>4, <1>7, <1>8, <1>9, <1>10, <1>11, <1>12 DEF IInv

-----------------------------------------------------------------------------
(* The theorems                                                            *)

LEMMA NextKeeps ==
  ASSUME IInv, [Next]_vars
  PROVE  IInv'
<1>1. CASE \E S \in SUBSET Session : \E w \in [S -> Time] : Begin({<<s, w[s]>> : s \in S})
  <2>1. PICK S \in SUBSET Session : \E w \in [S -> Time] : Begin({<<s, w[s]>> : s \in S})
    BY <1>1
  <2> PICK w \in [S -> Time] : Begin({<<s, w[s]>> : s \in S})
    BY <2>1
  <2>2. {<<s, w[s]>> : s \in S} \in SUBSET (Session \X Time)
    OBVIOUS
  <2>3. QED
    BY <2>2, BeginKeeps
<1>2. CASE CaptureStep
  BY <1>2, ReadLatestKeeps, InsertKeeps, LockSessionKeeps, UpdateKeeps, UpdateNothingKeeps
     DEF CaptureStep
<1>3. CASE CaptureFails \/ CircuitCloses
  BY <1>3, CaptureFailsKeeps, CircuitClosesKeeps
<1>4. CASE \E c \in Cutoffs : StartCleanup(c)
  BY <1>4, StartKeeps
<1>5. CASE CleanupStep
  BY <1>5, DeleteKeeps, WriteSessionKeeps, CommitKeeps, ReadSessionKeeps DEF CleanupStep
<1>6. CASE CleanupFails
  BY <1>6, CleanupFailsKeeps
<1>7. CASE UNCHANGED vars
  <2>1. UNCHANGED <<rows, nextId, sessions, summary, pc, todo, current, at, latest,
                    coolingDown, cpc, cutoff, affected, target, seen, dead, locked,
                    captured, disturbed>>
    BY <1>7 DEF vars, store, capture, cleanup, history
  <2>2. TypeOK' /\ KeysOK' /\ CaptureOK' /\ CleanupOK'
    BY <2>1 DEF IInv, TypeOK, KeysOK, CaptureOK, CleanupOK, RowsOf
  <2>3. Spacing' /\ SummaryExact' /\ CapturedIsKept'
    BY <2>1 DEF IInv, Spacing, SummaryExact, CapturedIsKept, RowsOf
  <2>4. QED
    BY <2>2, <2>3 DEF IInv
<1>8. QED
  BY <1>1, <1>2, <1>3, <1>4, <1>5, <1>6, <1>7 DEF Next

(* What relates the tables, the capture and the cleanup holds at all times *)
(* for any numbers of sessions, snapshots and cutoffs.                     *)
THEOREM InductiveInvariant == Spec => []IInv
BY InitKeeps, NextKeeps, PTL DEF Spec

(* Every variable keeps its type: rows, sessions, and the locals of the capture and the cleanup. *)
THEOREM TypeCorrect == Spec => []TypeOK
<1>1. IInv => TypeOK
  BY DEF IInv
<1>2. QED
  BY <1>1, InductiveInvariant, PTL

(* The snapshots of a session stay an interval apart.                      *)
THEOREM SnapshotsAreApart == Spec => []Spacing
<1>1. IInv => Spacing
  BY DEF IInv
<1>2. QED
  BY <1>1, InductiveInvariant, PTL

(* The list tells what the snapshots are, but for a race with a cleanup.   *)
THEOREM ListIsExact == Spec => []SummaryExact
<1>1. IInv => SummaryExact
  BY DEF IInv
<1>2. QED
  BY <1>1, InductiveInvariant, PTL

(* What was acknowledged as captured is kept.                              *)
THEOREM AcknowledgedIsKept == Spec => []CapturedIsKept
<1>1. IInv => CapturedIsKept
  BY DEF IInv
<1>2. QED
  BY <1>1, InductiveInvariant, PTL

(* But for a race with a capture, a cleanup spares what is not old.        *)
THEOREM NewIsSpared == Spec => CleanupSparesNew
<1> DEFINE A == cpc # "idle" /\ cpc' = "idle" =>
                  \A r \in rows : r.time >= cutoff => r \in rows' \/ r.session \in disturbed
<1>1. ASSUME IInv, [Next]_vars
      PROVE  [A]_vars
  <2>1. SUFFICES ASSUME cpc # "idle", cpc' = "idle", Next
                 PROVE  \A r \in rows : r.time >= cutoff => r \in rows' \/ r.session \in disturbed
    BY <1>1
  <2>2. CommitCleanup \/ CleanupFails
    BY <2>1 DEF Next, CaptureStep, CleanupStep, Begin, ReadLatest, InsertSnapshot, LockSession,
       UpdateSnapshot, UpdateNothing, CaptureFails, CircuitCloses, StartCleanup, DeleteOld,
       WriteSession, ReadSession, cleanup
  <2>3. CASE CommitCleanup
    BY <1>1, <2>3, CommitKeeps
  <2>4. CASE CleanupFails
    BY <2>4 DEF CleanupFails, store
  <2>5. QED
    BY <2>2, <2>3, <2>4
<1>2. QED
  BY <1>1, InductiveInvariant, PTL DEF Spec, CleanupSparesNew

(* Only a cleanup takes a session's latest snapshot back.                  *)
THEOREM LatestNeverGoesBack == Spec => LatestAdvances
<1> DEFINE A == \A r \in rows :
                  \/ \E q \in rows' : q.session = r.session /\ q.time >= r.time
                  \/ cpc # "idle" /\ cpc' = "idle"
<1>1. ASSUME IInv, [Next]_vars
      PROVE  [A]_vars
  <2>1. rows \subseteq Row
    BY <1>1 DEF IInv, TypeOK
  <2>2. \A r \in rows : r.time >= r.time
    BY <2>1 DEF Row
  <2>3. SUFFICES ASSUME Next, ~(cpc # "idle" /\ cpc' = "idle")
                 PROVE  \A r \in rows : \E q \in rows' : q.session = r.session /\ q.time >= r.time
    BY <1>1
  <2>4. CASE InsertSnapshot
    BY <2>2, <2>4 DEF InsertSnapshot
  <2>5. CASE UpdateSnapshot
    <3>1. PICK o \in rows : o.id = latest /\ rows' = (rows \ {o}) \cup {[o EXCEPT !.time = at]}
      BY <2>5 DEF UpdateSnapshot
    <3>2. o.session = current /\ at \in Time /\ pc = "locked"
      BY <1>1, <2>5, <3>1 DEF UpdateSnapshot, IInv, CaptureOK, TypeOK
    <3>3. at >= o.time + Interval \/ at >= o.time
      BY <1>1, <3>1, <3>2 DEF IInv, CaptureOK
    <3>4. o \in Row /\ [o EXCEPT !.time = at].session = o.session
          /\ [o EXCEPT !.time = at].time = at
      BY <2>1 DEF Row
    <3>5. at >= o.time
      BY <3>2, <3>3, <3>4 DEF Row
    <3>6. QED
      BY <2>2, <3>1, <3>4, <3>5
  <2>6. CASE UNCHANGED rows
    BY <2>2, <2>6
  <2>7. InsertSnapshot \/ UpdateSnapshot \/ UNCHANGED rows
    BY <2>3 DEF Next, CaptureStep, CleanupStep, Begin, ReadLatest, LockSession, UpdateNothing,
       CaptureFails, CircuitCloses, StartCleanup, DeleteOld, WriteSession, ReadSession,
       CommitCleanup, CleanupEnds, CleanupFails, store
  <2>8. QED
    BY <2>4, <2>5, <2>6, <2>7
<1>2. QED
  BY <1>1, InductiveInvariant, PTL DEF Spec, LatestAdvances

-----------------------------------------------------------------------------
(* How a capture comes to its end.                                         *)

(* What is left of it: the snapshots it has still to look at, and the      *)
(* statements of the one it is busy with.                                  *)
StatementsLeft ==
  CASE pc = "insert" -> 1 [] pc = "locked" -> 2 [] pc = "update" -> 3 [] OTHER -> 0
LeftToCapture == 4 * Cardinality(todo) + StatementsLeft

(* There is something to look at, and an id for what may be inserted.      *)
TodoOK ==
  /\ pc = "read" => todo # {}
  /\ pc # "idle" =>
       nextId + Cardinality(todo) + (IF pc = "read" THEN 0 ELSE 1) <= MaxId + 1

(* The guards of the capture's steps, and of the cleanup's.                *)
CaptureMayGoOn ==
  \/ pc = "read" /\ \E s \in Session, t \in Time : <<s, t>> \in todo
  \/ pc = "insert" /\ current \notin locked /\ nextId <= MaxId
  \/ pc = "update" /\ current \notin locked
  \/ pc = "locked" /\ latest \notin dead
CleanupMayGoOn ==
  \/ cpc = "delete" \/ (cpc = "refresh" /\ (affected = {} \/ \E s \in Session : s \in affected))
  \/ cpc = "write" /\ ~(target \in sessions /\ pc = "locked" /\ current = target)

WaitsForCleanupOnly ==
  pc # "idle" => CaptureMayGoOn \/ CleanupMayGoOn \/ Deadlocked

(* What it says of a step of the capture: it comes closer to its end, and  *)
(* to nothing else.                                                        *)
Closer == UNCHANGED <<pc, todo>> \/ LeftToCapture' < LeftToCapture

(* The state has finitely many sessions, and so has a capture snapshots.   *)
LEMMA TodoIsFinite ==
  ASSUME IsFiniteSet(Session), NEW S \in SUBSET (Session \X Time)
  PROVE  IsFiniteSet(S) /\ Cardinality(S) \in Nat /\ (S # {} => Cardinality(S) > 0)
<1>1. IsFiniteSet(Time)
  <2>1. 0 \in Int /\ MaxTime \in Int
    OBVIOUS
  <2> QED
    BY ONLY <2>1, FS_Interval DEF Time
<1>2. IsFiniteSet(Session \X Time)
  BY <1>1, FS_Product
<1>3. QED
  BY <1>2, FS_Subset, FS_CardinalityType, FS_EmptySet

(* A look takes a snapshot off, and leaves a statement of three at most.   *)
LEMMA LookIsCloser ==
  ASSUME IsFiniteSet(Session), TypeOK, TodoOK,
         NEW s \in Session, NEW t \in Time, ReadLatest(s, t)
  PROVE  Closer /\ TodoOK'
<1> DEFINE n == Cardinality(todo)
           m == Cardinality(todo')
<1>1. /\ pc = "read" /\ todo' = todo \ {<<s, t>>} /\ <<s, t>> \in todo
      /\ pc' \in {"idle", "read", "insert", "update"} /\ (pc' = "read" => todo' # {})
      /\ nextId' = nextId
  BY DEF ReadLatest, store
<1>2. IsFiniteSet(todo) /\ n \in Nat /\ m = n - 1
  <2>1. IsFiniteSet(todo) /\ n \in Nat
    BY TodoIsFinite DEF TypeOK
  <2>2. Cardinality(todo \ {<<s, t>>}) = n - 1
    BY <1>1, <2>1, FS_RemoveElement
  <2> QED
    BY <1>1, <2>1, <2>2
<1>3. m \in Nat
  BY <1>1, TodoIsFinite DEF TypeOK
<1>4. LeftToCapture = 4 * n /\ LeftToCapture' = 4 * m + StatementsLeft'
      /\ StatementsLeft' \in 0 .. 3
  BY <1>1, <1>2, <1>3 DEF LeftToCapture, StatementsLeft
<1>5. nextId + n + 0 <= MaxId + 1 /\ nextId \in Nat /\ MaxId \in Nat
  BY <1>1 DEF TodoOK, TypeOK
<1>6. nextId' + m + (IF pc' = "read" THEN 0 ELSE 1) <= MaxId + 1
  <2> DEFINE d == IF pc' = "read" THEN 0 ELSE 1
  <2>1. d \in {0, 1} /\ nextId' = nextId
    BY <1>1
  <2> HIDE DEF n, m, d
  <2>2. nextId + m + d <= MaxId + 1
    BY <1>2, <1>3, <1>5, <2>1
  <2> QED
    BY <2>1, <2>2 DEF d
<1>7. TodoOK'
  BY <1>1, <1>6 DEF TodoOK
<1>8. LeftToCapture' < LeftToCapture
  <2> DEFINE k == StatementsLeft'
  <2>1. k \in 0 .. 3 /\ LeftToCapture = 4 * n /\ LeftToCapture' = 4 * m + k
    BY <1>4
  <2> HIDE DEF n, m, k
  <2> QED
    BY <1>2, <1>3, <2>1
<1>9. QED
  BY <1>7, <1>8 DEF Closer

(* A capture that ends, and one that is done with a snapshot.              *)
LEMMA EndIsCloser ==
  ASSUME IsFiniteSet(Session), TypeOK, TodoOK, pc # "idle", Fails
  PROVE  Closer /\ TodoOK'
<1>1. pc' = "idle" /\ todo' = {} /\ Cardinality(todo') = 0 /\ Cardinality(todo) \in Nat
  BY TodoIsFinite, FS_EmptySet DEF Fails, TypeOK
<1>2. LeftToCapture' = 0
  BY <1>1 DEF LeftToCapture, StatementsLeft
<1>3. LeftToCapture > 0
  <2>1. CASE pc = "read"
    BY <1>1, <2>1, TodoIsFinite DEF TodoOK, TypeOK, LeftToCapture, StatementsLeft
  <2>2. CASE pc \in {"insert", "locked", "update"}
    BY <1>1, <2>2 DEF LeftToCapture, StatementsLeft
  <2> QED
    BY <2>1, <2>2 DEF TypeOK
<1>4. QED
  BY <1>1, <1>2, <1>3 DEF Closer, TodoOK

LEMMA CommitIsCloser ==
  ASSUME IsFiniteSet(Session), TypeOK, TodoOK, pc \in {"insert", "locked"}, Acknowledged,
         nextId' \in {nextId, nextId + 1}
  PROVE  Closer /\ TodoOK'
<1>1. CASE Fails
  BY <1>1, EndIsCloser
<1>2. CASE Done
  <2>1. /\ todo' = todo /\ pc' \in {"idle", "read"} /\ (pc' = "read" => todo' # {})
        /\ Cardinality(todo) \in Nat
    BY <1>2, TodoIsFinite DEF Done, TypeOK
  <2> DEFINE n == Cardinality(todo)
  <2>2. /\ LeftToCapture' = 4 * n + StatementsLeft' /\ StatementsLeft' = 0
        /\ LeftToCapture = 4 * n + StatementsLeft /\ StatementsLeft \in {1, 2}
    BY <2>1 DEF LeftToCapture, StatementsLeft
  <2>3. nextId + n + 1 <= MaxId + 1 /\ nextId \in Nat /\ MaxId \in Nat
    BY <2>1 DEF TodoOK, TypeOK
  <2>4. n \in Nat /\ Cardinality(todo') = n
    BY <2>1
  <2> HIDE DEF n
  <2>5. LeftToCapture' < LeftToCapture
    <3> DEFINE k == StatementsLeft
    <3>1. LeftToCapture' = 4 * n + 0 /\ LeftToCapture = 4 * n + k /\ k \in {1, 2}
      BY <2>2
    <3> HIDE DEF k
    <3> QED
      BY <2>4, <3>1
  <2>6. \A i \in {nextId, nextId + 1} : i + n + 0 <= MaxId + 1
    BY <2>3, <2>4
  <2>7. nextId' + n + 0 <= MaxId + 1
    BY <2>6, Zenon
  <2>8. TodoOK'
    BY <2>1, <2>4, <2>7 DEF TodoOK
  <2> QED
    BY <2>5, <2>8 DEF Closer
<1>3. QED
  BY <1>1, <1>2 DEF Acknowledged

(* Every step of a capture under way is closer to its end, and no step of  *)
(* anything else moves it.                                                 *)
LEMMA StepIsCloser ==
  ASSUME IsFiniteSet(Session), IInv, TodoOK, [Next]_vars
  PROVE  TodoOK' /\ (pc # "idle" => Closer)
<1>1. TypeOK
  BY DEF IInv
<1>2. CASE UNCHANGED <<pc, todo, nextId>>
  BY <1>2 DEF TodoOK, Closer
<1>3. ASSUME NEW S \in SUBSET Session, NEW w \in [S -> Time], Begin({<<s, w[s]>> : s \in S})
      PROVE  TodoOK' /\ pc = "idle"
  <2> DEFINE want == {<<s, w[s]>> : s \in S}
  <2>1. /\ pc = "idle" /\ pc' = "read" /\ todo' = want /\ want # {} /\ nextId' = nextId
        /\ nextId + Cardinality(want) <= MaxId + 1
    BY <1>3 DEF Begin, store
  <2>2. want \in SUBSET (Session \X Time) /\ nextId \in Nat
    BY <1>1 DEF TypeOK
  <2> HIDE DEF want
  <2>3. Cardinality(want) \in Nat
    BY <2>2, TodoIsFinite
  <2>4. nextId' + Cardinality(todo') + 0 <= MaxId + 1
    BY <2>1, <2>2, <2>3
  <2> QED
    BY <2>1, <2>4 DEF TodoOK
<1>4. ASSUME NEW s \in Session, NEW t \in Time, ReadLatest(s, t)
      PROVE  TodoOK' /\ Closer
  BY <1>1, <1>4, LookIsCloser
<1>5. CASE InsertSnapshot \/ UpdateSnapshot
  BY <1>1, <1>5, CommitIsCloser DEF InsertSnapshot, UpdateSnapshot
<1>6. CASE LockSession \/ UpdateNothing
  <2>1. /\ todo' = todo /\ nextId' = nextId /\ Cardinality(todo) \in Nat
        /\ (pc = "update" /\ pc' = "locked") \/ (pc = "locked" /\ pc' = "insert")
    BY <1>1, <1>6, TodoIsFinite DEF LockSession, UpdateNothing, FallBack, store, TypeOK
  <2>2. LeftToCapture' < LeftToCapture
    BY <2>1 DEF LeftToCapture, StatementsLeft
  <2>3. TodoOK'
    BY <2>1 DEF TodoOK
  <2> QED
    BY <2>2, <2>3 DEF Closer
<1>7. CASE CaptureFails
  BY <1>1, <1>7, EndIsCloser DEF CaptureFails
<1>8. CASE CleanupStep \/ CleanupFails \/ CircuitCloses \/ UNCHANGED vars
  <2>1. UNCHANGED <<pc, todo, nextId>>
    BY <1>8 DEF CleanupStep, DeleteOld, WriteSession, CommitCleanup, ReadSession, CleanupFails,
                CircuitCloses, vars, store, capture
  <2> QED
    BY <1>2, <2>1
<1>9. ASSUME NEW c \in Cutoffs, StartCleanup(c)
      PROVE  UNCHANGED <<pc, todo, nextId>>
  BY <1>9 DEF StartCleanup, store, capture
<1>10. QED
  BY <1>2, <1>3, <1>4, <1>5, <1>6, <1>7, <1>8, <1>9 DEF Next, CaptureStep

LEMMA TodoInvariance == ASSUME IsFiniteSet(Session) PROVE Spec => [](IInv /\ TodoOK)
<1>1. Init => IInv /\ TodoOK
  BY InitKeeps DEF Init, TodoOK
<1>2. IInv /\ TodoOK /\ [Next]_vars => (IInv /\ TodoOK)'
  BY NextKeeps, StepIsCloser
<1>3. QED
  BY <1>1, <1>2, PTL DEF Spec

(* Every step of a capture that is under way brings it closer to its end,  *)
(* and neither a cleanup nor anything else sets it back: a row that is     *)
(* gone is not tried again.                                                *)
THEOREM CapturesAdvance ==
  ASSUME IsFiniteSet(Session)
  PROVE  Spec => [][pc # "idle" => Closer]_vars
<1>1. IInv /\ TodoOK /\ [Next]_vars => [pc # "idle" => Closer]_vars
  BY StepIsCloser
<1>2. QED
  BY <1>1, TodoInvariance, PTL DEF Spec

(* A capture waits for nothing but a cleanup under way, which does not     *)
(* wait for it, or they wait for each other and Postgres ends one of the   *)
(* two.                                                                    *)
THEOREM CapturesWaitForCleanupOnly ==
  ASSUME IsFiniteSet(Session)
  PROVE  Spec => []WaitsForCleanupOnly
<1>1. IInv /\ TodoOK => WaitsForCleanupOnly
  <2> SUFFICES ASSUME IInv, TodoOK, pc # "idle", ~CaptureMayGoOn
               PROVE  CleanupMayGoOn \/ Deadlocked
    BY DEF WaitsForCleanupOnly
  <2>1. /\ pc \in {"read", "insert", "update", "locked"} /\ todo \in SUBSET (Session \X Time)
        /\ cpc \in {"idle", "delete", "refresh", "write"} /\ affected \subseteq Session
        /\ nextId \in Nat
    BY DEF IInv, TypeOK
  <2>2. pc # "read"
    BY <2>1 DEF TodoOK, CaptureMayGoOn
  <2>3. nextId <= MaxId
    <3>1. Cardinality(todo) \in Nat
      BY <2>1, TodoIsFinite
    <3>2. nextId + Cardinality(todo) + 1 <= MaxId + 1
      BY <2>2 DEF TodoOK
    <3> DEFINE n == Cardinality(todo)
    <3>3. n \in Nat /\ nextId + n + 1 <= MaxId + 1 /\ nextId \in Nat /\ MaxId \in Nat
      BY <2>1, <3>1, <3>2
    <3> HIDE DEF n
    <3> QED
      BY <3>3
  <2>4. \/ pc \in {"insert", "update"} /\ current \in locked
        \/ pc = "locked" /\ latest \in dead
    BY <2>1, <2>2, <2>3 DEF CaptureMayGoOn
  <2>5. cpc \in {"refresh", "write"}
    BY <2>1, <2>4 DEF IInv, CleanupOK
  <2> QED
    BY <2>1, <2>4, <2>5 DEF CleanupMayGoOn, Deadlocked
<1>2. QED
  BY <1>1, TodoInvariance, PTL
=============================================================================
