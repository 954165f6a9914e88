-------------------------- MODULE CollectorsProof --------------------------
(***************************************************************************)
(* What the collectors promise: the research recorder, the dashboard       *)
(* collector and the IBKR commands, for any symbols, contracts, options    *)
(* and clock, and any bounds.  They are three machines that share nothing, *)
(* and each theorem is of the specification it names.                      *)
(***************************************************************************)
EXTENDS Recorder, CollectorLoop, IbkrProbe, FiniteSetTheorems, WellFoundedInduction, TLAPS

\* A set of numbers that is not empty has a least one.
LEMMA LeastIsThere ==
  ASSUME NEW S, S \subseteq Nat, S # {}
  PROVE  /\ \E m \in S : \A n \in S : m <= n
         /\ Min(S) \in S
<1> DEFINE Less == {ss \in Nat \X Nat : ss[1] < ss[2]}
<1>1. IsWellFoundedOn(Less, Nat)
  BY NatLessThanWellFounded DEF OpToRel
<1>2. PICK m \in S : \A n \in S : <<n, m>> \notin Less
  <2> HIDE DEF Less
  <2> QED
    BY <1>1, WFMin
<1>3. ASSUME NEW n \in S
      PROVE  m <= n
  <2>1. m \in Nat /\ n \in Nat
    OBVIOUS
  <2>2. ~ n < m
    BY <1>2, <2>1
  <2> QED
    BY <2>1, <2>2
<1> QED
  BY <1>3 DEF Min

-----------------------------------------------------------------------------
(* The research recorder: Recorder.                                        *)

InSession == Day(now) \notin Weekend /\ Clock(now) \in Open .. Close - 1
Since == Max({started, OpensAt(Day(now)), IF dates = {} THEN 0 ELSE began})
Most == IF Interval < Longest THEN Longest ELSE Interval

\* The clocks, and what the files are indexed by.
RecorderTypes ==
  /\ now \in 0 .. Horizon /\ wake \in Nat /\ date \in Nat
  /\ began \in 0 .. now /\ started \in 0 .. now
  /\ pc \in Busy \cup {"top", "sleeping", "after", "failed", "stopped"}
  /\ {kills, damaged} \subseteq Nat
  /\ IsFiniteSet(torn) /\ batches = [t \in Tickers |-> batches[t]]

\* A torn line has cost nothing yet.
TornOK == damaged + Cardinality(torn) <= kills

\* How far a capture is tells which of its lines are there.
FilesOK ==
  /\ FilesAgree
  /\ pc \in Busy => summary = NotYet
  /\ pc \in {"underlying", "options"} => batches = NoBatch
  /\ pc \in {"options", "batches", "summary"} => under = Tickers
  /\ pc = "summary" => \A t \in Tickers : batches[t] = OfTicker(t)

CaptureOK == pc \in Busy \cup {"after"} => dates # {} /\ now <= began + Longest

\* A sleep in market hours is one before the open, which it does not pass, or
\* one after a capture, which ends an interval after that began, or at once.
BeforeOpen == wake <= OpensAt(SessionDate(now))
AfterCapture ==
  dates # {} /\ now - began <= Most /\ (now < wake => wake - began <= Interval)
SleepOK ==
  pc = "sleeping" /\ mode.market => now <= wake /\ (BeforeOpen \/ AfterCapture)
TopOK == pc = "top" /\ mode.market /\ InSession => now - Since <= Most

RecorderInv ==
  RecorderTypes /\ TornOK /\ FilesOK /\ CaptureOK /\ SleepOK /\ TopOK

\* Days and clock.
LEMMA DayNumbers ==
  /\ DayLen \in Nat \ {0} /\ Open \in Nat /\ Close \in Nat /\ Horizon \in Nat
  /\ Open < Close /\ Close < DayLen /\ DayLen <= Horizon
  BY DayAssumption

LEMMA DayFacts ==
  ASSUME NEW t \in Nat
  PROVE  /\ Day(t) \in Nat /\ Clock(t) \in 0 .. DayLen - 1
         /\ t = Day(t) * DayLen + Clock(t)
  BY DayNumbers DEF Day, Clock

LEMMA DayIsUnique ==
  ASSUME NEW d \in Nat, NEW c \in 0 .. DayLen - 1
  PROVE  Day(d * DayLen + c) = d /\ Clock(d * DayLen + c) = c
  BY DayNumbers DEF Day, Clock

LEMMA LaterDay ==
  ASSUME NEW d \in Nat, NEW e \in Nat, d < e
  PROVE  d * DayLen + DayLen <= e * DayLen
<1>1. PICK k \in Nat : e = d + 1 + k
  OBVIOUS
<1>2. e * DayLen = d * DayLen + DayLen + k * DayLen /\ k * DayLen \in Nat
  BY <1>1, DayNumbers
<1> QED
  BY <1>2, DayNumbers

\* No instant up to the horizon is of a later day than the horizon.
LEMMA DayIsBounded ==
  ASSUME NEW t \in 0 .. Horizon
  PROVE  Day(t) <= Day(Horizon) /\ Day(Horizon) \in Nat
<1>1. t \in Nat /\ Horizon \in Nat
  BY DayNumbers
<1>2. /\ t = Day(t) * DayLen + Clock(t) /\ Horizon = Day(Horizon) * DayLen + Clock(Horizon)
      /\ Day(t) \in Nat /\ Day(Horizon) \in Nat /\ DayLen \in Nat
      /\ Clock(t) \in 0 .. DayLen - 1 /\ Clock(Horizon) \in 0 .. DayLen - 1
  BY <1>1, DayFacts, DayNumbers
<1> DEFINE a == Day(t)
           b == Day(Horizon)
<1>3. ~(b < a)
  <2>1. b < a => b * DayLen + DayLen <= a * DayLen
    BY <1>2, LaterDay
  <2>2. a * DayLen \in Nat /\ b * DayLen \in Nat
    BY <1>2
  <2>3. t = a * DayLen + Clock(t) /\ Horizon = b * DayLen + Clock(Horizon)
    BY <1>2
  <2> HIDE DEF a, b
  <2> QED
    BY <2>1, <2>2, <2>3, <1>2
<1> QED
  BY <1>2, <1>3

\* The weekday _next_weekday stops at is the first.
LEMMA NextWeekdayIs ==
  ASSUME NEW d \in Nat, NEW e \in d .. d + 7, e \notin Weekend,
         \A f \in d .. e - 1 : f \in Weekend
  PROVE  NextWeekday(d) = e
<1>1. ASSUME NEW x \in d .. d + 7, x \notin Weekend, \A f \in d .. x - 1 : f \in Weekend
      PROVE  x = e
  <2>1. ~(x < e) /\ ~(e < x)
    BY <1>1
  <2> QED
    BY <2>1
<1> QED
  BY <1>1 DEF NextWeekday

LEMMA NextWeekdayFacts ==
  ASSUME NEW d \in 1 .. Day(Horizon) + 1
  PROVE  /\ NextWeekday(d) \in d .. d + 7 /\ NextWeekday(d) \notin Weekend
         /\ \A f \in d .. NextWeekday(d) - 1 : f \in Weekend
<1> DEFINE S == {e \in d .. d + 7 : e \notin Weekend}
<1>1. Day(Horizon) \in Nat /\ d \in Nat
  BY DayFacts, DayNumbers
<1>2. S # {} /\ S \subseteq Nat
  BY <1>1, WeekAssumption
<1>3. PICK e \in S : \A f \in S : e <= f
  <2> HIDE DEF S
  <2> QED
    BY <1>2, LeastIsThere
<1>4. \A f \in d .. e - 1 : f \in Weekend
  BY <1>1, <1>3
<1>5. NextWeekday(d) = e
  BY <1>1, <1>3, <1>4, NextWeekdayIs
<1> QED
  BY <1>3, <1>4, <1>5

\* The session next_regular_session_window names.
LEMMA SessionIsAhead ==
  ASSUME NEW t \in 0 .. Horizon
  PROVE  /\ SessionDate(t) \in Nat /\ SessionDate(t) \notin Weekend
         /\ t < ClosesAt(SessionDate(t))
         /\ Day(t) \notin Weekend /\ Clock(t) < Close => SessionDate(t) = Day(t)
<1>1. t \in Nat /\ Day(t) + 1 \in 1 .. Day(Horizon) + 1
  <2>1. t \in Nat
    BY DayNumbers
  <2> QED
    BY <2>1, DayFacts, DayIsBounded
<1>2. /\ Day(t) \in Nat /\ Clock(t) \in 0 .. DayLen - 1 /\ t = Day(t) * DayLen + Clock(t)
      /\ DayLen \in Nat /\ Close \in Nat /\ Close < DayLen
  BY <1>1, DayFacts, DayNumbers
<1>3. CASE Day(t) \in Weekend \/ Clock(t) >= Close
  <2> DEFINE e == NextWeekday(Day(t) + 1)
  <2>1. e \in Nat /\ Day(t) < e /\ e \notin Weekend
    BY <1>1, <1>2, NextWeekdayFacts
  <2>2. SessionDate(t) = e
    BY <1>3 DEF SessionDate
  <2> HIDE DEF e
  <2>3. Day(t) * DayLen + DayLen <= e * DayLen
    BY <1>2, <2>1, LaterDay
  <2>4. t < e * DayLen + Close
    <3> DEFINE a == Day(t) * DayLen
               b == e * DayLen
    <3>1. a \in Nat /\ b \in Nat /\ t = a + Clock(t) /\ a + DayLen <= b
      BY <1>2, <2>1, <2>3
    <3> HIDE DEF a, b
    <3>2. t < b + Close
      BY <3>1, <1>2
    <3> QED
      BY <3>2 DEF b
  <2> QED
    BY <1>2, <1>3, <2>1, <2>2, <2>4 DEF ClosesAt
<1>4. CASE ~(Day(t) \in Weekend \/ Clock(t) >= Close)
  <2>1. SessionDate(t) = Day(t)
    BY <1>4 DEF SessionDate
  <2>2. t < Day(t) * DayLen + Close
    BY <1>2, <1>4
  <2> QED
    BY <1>2, <1>4, <2>1, <2>2 DEF ClosesAt
<1> QED
  BY <1>3, <1>4

\* Up to the open the session ahead stays the same one.
LEMMA SessionStays ==
  ASSUME NEW t \in 0 .. Horizon - 1, t + 1 <= OpensAt(SessionDate(t))
  PROVE  SessionDate(t + 1) = SessionDate(t)
<1>1. t \in Nat /\ t + 1 \in Nat /\ t \in 0 .. Horizon /\ t + 1 \in 0 .. Horizon
  BY DayNumbers
<1>2. /\ Day(t) \in Nat /\ Clock(t) \in 0 .. DayLen - 1 /\ t = Day(t) * DayLen + Clock(t)
      /\ Day(t) * DayLen \in Nat
  <2>1. Day(t) \in Nat /\ Clock(t) \in 0 .. DayLen - 1 /\ t = Day(t) * DayLen + Clock(t)
    BY <1>1, DayFacts
  <2> QED
    BY <2>1, DayNumbers
<1>3. CASE Clock(t) < DayLen - 1
  <2>1. Day(t + 1) = Day(t) /\ Clock(t + 1) = Clock(t) + 1
    <3>1. t + 1 = Day(t) * DayLen + (Clock(t) + 1) /\ Clock(t) + 1 \in 0 .. DayLen - 1
      BY <1>2, <1>3, DayNumbers
    <3> QED
      BY <1>2, <3>1, DayIsUnique
  <2>2. CASE Day(t) \in Weekend \/ Clock(t) >= Close
    BY <1>2, <2>1, <2>2, DayNumbers DEF SessionDate
  <2>3. CASE ~(Day(t) \in Weekend \/ Clock(t) >= Close)
    <3>1. t + 1 <= Day(t) * DayLen + Open
      BY <2>3 DEF SessionDate, OpensAt
    <3>2. Clock(t) + 1 < Close
      BY <1>2, <3>1, DayNumbers
    <3> QED
      BY <2>1, <2>3, <3>2, <1>2, DayNumbers DEF SessionDate
  <2> QED
    BY <2>2, <2>3
<1>4. CASE Clock(t) = DayLen - 1
  <2> DEFINE d == Day(t) + 1
  <2>1. Day(t + 1) = d /\ Clock(t + 1) = 0
    <3>1. t + 1 = d * DayLen + 0 /\ 0 \in 0 .. DayLen - 1 /\ d \in Nat
      BY <1>2, <1>4, DayNumbers
    <3> HIDE DEF d
    <3> QED
      BY <3>1, DayIsUnique
  <2>2. SessionDate(t) = NextWeekday(d)
    BY <1>4, DayNumbers DEF SessionDate
  <2>3. d \in 1 .. Day(Horizon) /\ d \in 1 .. Day(Horizon) + 1 /\ d + 1 \in 1 .. Day(Horizon) + 1
    BY <1>1, <1>2, <2>1, DayIsBounded
  <2>4. /\ NextWeekday(d) \in d .. d + 7 /\ NextWeekday(d) \notin Weekend
        /\ \A f \in d .. NextWeekday(d) - 1 : f \in Weekend
    BY <2>3, NextWeekdayFacts
  <2>5. CASE d \in Weekend
    <3> DEFINE e == NextWeekday(d)
    <3>1. e \in d + 1 .. (d + 1) + 7 /\ e \notin Weekend /\ \A f \in d + 1 .. e - 1 : f \in Weekend
      BY <2>3, <2>4, <2>5
    <3>2. NextWeekday(d + 1) = e
      <4> HIDE DEF e, d
      <4> QED
        BY <3>1, <2>3, NextWeekdayIs
    <3>3. SessionDate(t + 1) = NextWeekday(d + 1)
      BY <2>1, <2>5 DEF SessionDate
    <3> QED
      BY <2>2, <3>2, <3>3
  <2>6. CASE d \notin Weekend
    <3>1. NextWeekday(d) = d
      BY <2>3, <2>4, <2>6
    <3>2. SessionDate(t + 1) = d
      BY <2>1, <2>6, DayNumbers DEF SessionDate
    <3> QED
      BY <2>2, <3>1, <3>2
  <2> QED
    BY <2>5, <2>6
<1> QED
  BY <1>2, <1>3, <1>4, DayNumbers

\* In a session it is the session ahead, and its open is over.
LEMMA SessionIsOpen ==
  ASSUME now \in 0 .. Horizon, InSession
  PROVE  SessionDate(now) = Day(now) /\ OpensAt(Day(now)) \in Nat /\ OpensAt(Day(now)) <= now
<1>1. now \in Nat
  BY DayNumbers
<1>2. Day(now) \in Nat /\ Clock(now) \in 0 .. DayLen - 1 /\ now = Day(now) * DayLen + Clock(now)
  BY <1>1, DayFacts
<1>3. Day(now) * DayLen \in Nat
  BY <1>2, DayNumbers
<1>4. SessionDate(now) = Day(now)
  BY <1>2, DayNumbers DEF InSession, SessionDate
<1>5. OpensAt(Day(now)) \in Nat /\ OpensAt(Day(now)) <= now
  BY <1>2, <1>3, DayNumbers DEF InSession, OpensAt
<1> QED
  BY <1>4, <1>5

LEMMA MaxOfThree ==
  ASSUME NEW a \in Nat, NEW b \in Nat, NEW c \in Nat
  PROVE  /\ Max({a, b, c}) \in {a, b, c}
         /\ a <= Max({a, b, c}) /\ b <= Max({a, b, c}) /\ c <= Max({a, b, c})
<1>1. \E x \in {a, b, c} : \A y \in {a, b, c} : x >= y
  OBVIOUS
<1>2. Max({a, b, c}) \in {a, b, c} /\ \A y \in {a, b, c} : Max({a, b, c}) >= y
  BY <1>1 DEF Max
<1> QED
  BY <1>2

LEMMA MostIsMax == Max({Interval, Longest}) = Most /\ Most \in Nat /\ Longest <= Most
                   /\ Interval <= Most /\ Longest \in Nat /\ Interval \in Nat \ {0}
<1>1. Interval \in Nat \ {0} /\ Longest \in Nat
  BY DayAssumption
<1>2. Max({Interval, Longest}) = Most
  BY <1>1 DEF Max, Most
<1> QED
  BY <1>1, <1>2 DEF Most

LEMMA MinOfTwo ==
  ASSUME NEW a \in Nat, NEW b \in Nat
  PROVE  Min({a, b}) \in Nat /\ Min({a, b}) <= a /\ Min({a, b}) <= b
<1>1. \E x \in {a, b} : \A y \in {a, b} : x <= y
  OBVIOUS
<1>2. Min({a, b}) \in {a, b} /\ \A y \in {a, b} : Min({a, b}) <= y
  BY <1>1 DEF Min
<1> QED
  BY <1>2

\* What a session's captures are counted from.
LEMMA SinceFacts ==
  ASSUME RecorderTypes, InSession
  PROVE  /\ Since \in Nat /\ Since <= now
         /\ started <= Since /\ OpensAt(Day(now)) <= Since
         /\ dates # {} => began <= Since
<1> DEFINE last == IF dates = {} THEN 0 ELSE began
<1>1. /\ now \in 0 .. Horizon /\ now \in Nat
      /\ started \in Nat /\ started <= now /\ last \in Nat /\ last <= now
  BY DayNumbers DEF RecorderTypes
<1>2. OpensAt(Day(now)) \in Nat /\ OpensAt(Day(now)) <= now
  BY <1>1, SessionIsOpen
<1>3. dates # {} => last = began
  OBVIOUS
<1> HIDE DEF last
<1>4. /\ Max({started, OpensAt(Day(now)), last}) \in {started, OpensAt(Day(now)), last}
      /\ started <= Max({started, OpensAt(Day(now)), last})
      /\ OpensAt(Day(now)) <= Max({started, OpensAt(Day(now)), last})
      /\ last <= Max({started, OpensAt(Day(now)), last})
  BY <1>1, <1>2, MaxOfThree
<1>5. Since = Max({started, OpensAt(Day(now)), last})
  BY DEF Since, last
<1> QED
  BY <1>1, <1>2, <1>3, <1>4, <1>5

\* The sums of a capture depend on its lines only.
LEMMA SumsKept ==
  ASSUME lines' = lines
  PROVE  /\ Total(Codes)' = Total(Codes)
         /\ \A t \in Tickers : OfTicker(t)' = OfTicker(t)
  BY DEF OfTicker, Total

LEMMA FilesKept ==
  ASSUME FilesOK, UNCHANGED <<lines, batches, under, summary>>, pc' \notin Busy
  PROVE  FilesOK'
<1>1. pc' \notin {"underlying", "options", "batches", "summary"}
  BY DEF Busy
<1> QED
  BY <1>1, SumsKept DEF FilesOK, FilesAgree, Busy

\* A record appended to a torn file finishes its line.
LEMMA AppendFacts ==
  ASSUME RecorderTypes, TornOK, NEW f, AppendTo(f), kills' = kills
  PROVE  IsFiniteSet(torn') /\ {kills', damaged'} \subseteq Nat /\ TornOK'
<1> USE DEF RecorderTypes, AppendTo
<1>1. Cardinality(torn) \in Nat
  BY FS_CardinalityType
<1>2. CASE f \in torn
  <2>1. IsFiniteSet(torn') /\ Cardinality(torn') = Cardinality(torn) - 1
    BY <1>2, FS_RemoveElement
  <2> QED
    BY <1>1, <1>2, <2>1 DEF TornOK
<1>3. CASE f \notin torn
  <2>1. torn' = torn /\ damaged' = damaged
    BY <1>3
  <2> QED
    BY <2>1 DEF TornOK
<1> QED
  BY <1>2, <1>3

\* A step within a capture takes no time.
LEMMA CaptureKept ==
  ASSUME RecorderInv, pc \in Busy, pc' \in Busy \cup {"after"},
         UNCHANGED <<mode, now, wake, began, started, dates>>
  PROVE  CaptureOK' /\ SleepOK' /\ TopOK'
<1>1. pc' # "sleeping" /\ pc' # "top"
  BY DEF Busy
<1> QED
  BY <1>1 DEF RecorderInv, CaptureOK, SleepOK, TopOK

LEMMA RecorderStarts == Init => RecorderInv
<1> SUFFICES ASSUME Init
             PROVE  RecorderInv
  OBVIOUS
<1> USE DEF Init
<1>1. RecorderTypes /\ TornOK
  <2>1. IsFiniteSet(torn) /\ Cardinality(torn) = 0
    BY FS_EmptySet
  <2>2. now \in 0 .. Horizon /\ now \in Nat
    BY DayNumbers
  <2> QED
    BY <2>1, <2>2 DEF RecorderTypes, TornOK, NoBatch
<1>2. FilesOK
  BY DEF FilesOK, FilesAgree, NoBatch, Busy
<1>3. CaptureOK /\ SleepOK
  BY DEF CaptureOK, SleepOK, Busy
<1>4. TopOK
  <2>1. InSession => now - Since <= Most
    BY <1>1, SinceFacts, MostIsMax DEF RecorderTypes
  <2> QED
    BY <2>1 DEF TopOK
<1> QED
  BY <1>1, <1>2, <1>3, <1>4 DEF RecorderInv

\* A capture begins with empty files, at this instant.
LEMMA BeginCaptureKeeps == ASSUME RecorderInv, BeginCapture PROVE RecorderInv'
<1> USE DEF RecorderInv, BeginCapture
<1>1. now \in Nat /\ Longest \in Nat
  BY MostIsMax, DayNumbers DEF RecorderTypes
<1>2. IsFiniteSet(torn') /\ TornOK'
  <2>1. CASE torn' = torn
    BY <2>1 DEF RecorderTypes, TornOK
  <2>2. CASE torn' = {}
    <3>1. IsFiniteSet(torn') /\ Cardinality(torn') = 0 /\ Cardinality(torn) \in Nat
      BY <2>2, FS_EmptySet, FS_CardinalityType DEF RecorderTypes
    <3> QED
      BY <3>1 DEF RecorderTypes, TornOK
  <2> QED
    BY <2>1, <2>2
<1>3. RecorderTypes'
  <2>1. Day(now) \in Nat /\ SessionDate(now) \in Nat
    BY <1>1, DayFacts, SessionIsAhead DEF RecorderTypes
  <2> QED
    BY <1>1, <1>2, <2>1 DEF RecorderTypes, NoBatch, Busy
<1>4. FilesOK'
  BY DEF FilesOK, FilesAgree, NoBatch, Busy
<1>5. CaptureOK' /\ SleepOK' /\ TopOK'
  BY <1>1 DEF CaptureOK, SleepOK, TopOK
<1> QED
  BY <1>2, <1>3, <1>4, <1>5

\* The lines of a capture.
LEMMA UnderlyingKeeps ==
  ASSUME RecorderInv, NEW t \in Tickers, Underlying(t)
  PROVE  RecorderInv'
<1> USE DEF RecorderInv, Underlying, work
<1>1. IsFiniteSet(torn') /\ {kills', damaged'} \subseteq Nat /\ TornOK'
  BY AppendFacts
<1>2. RecorderTypes'
  BY <1>1 DEF RecorderTypes, Busy
<1>3. FilesOK'
  BY SumsKept DEF FilesOK, FilesAgree, Busy
<1>4. CaptureOK' /\ SleepOK' /\ TopOK'
  BY CaptureKept DEF Busy
<1> QED
  BY <1>1, <1>2, <1>3, <1>4

LEMMA RequestKeeps == ASSUME RecorderInv, Request \/ OptionsDone PROVE RecorderInv'
<1> USE DEF RecorderInv, Request, OptionsDone, files, work
<1>1. RecorderTypes' /\ TornOK'
  BY DEF RecorderTypes, TornOK, Busy
<1>2. FilesOK'
  BY SumsKept DEF FilesOK, FilesAgree, Busy
<1>3. CaptureOK' /\ SleepOK' /\ TopOK'
  BY CaptureKept DEF Busy
<1> QED
  BY <1>1, <1>2, <1>3

LEMMA WriteOptionKeeps ==
  ASSUME RecorderInv, NEW c \in Codes, WriteOption(c)
  PROVE  RecorderInv'
<1> USE DEF RecorderInv, WriteOption
<1>1. IsFiniteSet(torn') /\ {kills', damaged'} \subseteq Nat /\ TornOK'
  BY AppendFacts
<1>2. RecorderTypes'
  BY <1>1 DEF RecorderTypes, Busy
<1>3. FilesOK'
  BY DEF FilesOK, FilesAgree, NoBatch, Busy
<1>4. CaptureOK' /\ SleepOK' /\ TopOK'
  BY CaptureKept DEF Busy
<1> QED
  BY <1>1, <1>2, <1>3, <1>4

\* A batch line counts its ticker's lines, and the last is over when every
\* ticker that has lines has its batch line.
LEMMA WriteBatchKeeps == ASSUME RecorderInv, WriteBatch PROVE RecorderInv'
<1> USE DEF RecorderInv, WriteBatch, work
<1> DEFINE remaining == {t \in Tickers : OfTicker(t) # 0 /\ batches[t] = 0}
<1>1. CASE remaining = {}
  <2>1. pc' = "summary" /\ UNCHANGED <<batches, torn, damaged>>
    BY <1>1
  <2>2. RecorderTypes' /\ TornOK'
    BY <2>1 DEF RecorderTypes, TornOK, Busy
  <2>3. \A t \in Tickers : batches[t] = OfTicker(t)
    BY <1>1 DEF FilesOK, FilesAgree
  <2>4. FilesOK'
    BY <2>1, <2>3, SumsKept DEF FilesOK, FilesAgree, Busy
  <2>5. CaptureOK' /\ SleepOK' /\ TopOK'
    BY <2>1, CaptureKept DEF Busy
  <2> QED
    BY <2>2, <2>4, <2>5
<1>2. CASE remaining # {}
  <2> DEFINE first == Min(remaining)
  <2>1. first \in Tickers
    <3>1. remaining \subseteq Nat
      BY CodeAssumption
    <3>2. first \in remaining
      <4> HIDE DEF remaining
      <4> QED
        BY <1>2, <3>1, LeastIsThere
    <3> QED
      BY <3>2
  <2>2. /\ batches' = [batches EXCEPT ![first] = BatchOf(first)]
        /\ AppendTo(<<"batch", first>>) /\ pc' = pc
    BY <1>2
  <2> HIDE DEF remaining, first
  <2>3. IsFiniteSet(torn') /\ {kills', damaged'} \subseteq Nat /\ TornOK'
    BY <2>2, AppendFacts
  <2>4. RecorderTypes'
    BY <2>2, <2>3 DEF RecorderTypes, Busy
  <2>5. FilesOK'
    <3>1. \A t \in Tickers : batches'[t] \in {0, OfTicker(t)}
      BY <2>1, <2>2 DEF RecorderTypes, FilesOK, FilesAgree, BatchOf
    <3> QED
      BY <2>2, <3>1, SumsKept DEF FilesOK, FilesAgree, Busy
  <2>6. CaptureOK' /\ SleepOK' /\ TopOK'
    BY <2>2, CaptureKept DEF Busy
  <2> QED
    BY <2>3, <2>4, <2>5, <2>6
<1> QED
  BY <1>1, <1>2

LEMMA WriteSummaryKeeps == ASSUME RecorderInv, WriteSummary PROVE RecorderInv'
<1> USE DEF RecorderInv, WriteSummary, work
<1>1. IsFiniteSet(torn') /\ {kills', damaged'} \subseteq Nat /\ TornOK'
  BY AppendFacts
<1>2. RecorderTypes'
  BY <1>1 DEF RecorderTypes, Busy
<1>3. FilesOK'
  BY SumsKept DEF FilesOK, FilesAgree, Busy
<1>4. CaptureOK' /\ SleepOK' /\ TopOK'
  BY CaptureKept DEF Busy
<1> QED
  BY <1>1, <1>2, <1>3, <1>4

\* The sleeps.
LEMMA SleepStarts ==
  ASSUME RecorderTypes, NEW n \in Nat, Sleep(n), now' = now
  PROVE  wake' \in Nat /\ wake' = now + n /\ now' <= wake' /\ pc' = "sleeping"
  BY DayNumbers DEF RecorderTypes, Sleep

LEMMA WaitForOpenKeeps == ASSUME RecorderInv, WaitForOpen PROVE RecorderInv'
<1> USE DEF RecorderInv, WaitForOpen, files, work
<1> DEFINE open == OpensAt(SessionDate(now))
           n == Min({Poll, open - now})
<1>1. now \in Nat /\ Poll \in Nat /\ open \in Nat /\ open - now \in Nat
  <2>1. now \in 0 .. Horizon /\ SessionDate(now) \in Nat
    BY SessionIsAhead DEF RecorderTypes
  <2>2. open \in Nat
    BY <2>1, DayNumbers DEF OpensAt
  <2>3. now < open
    OBVIOUS
  <2>4. now \in Nat /\ Poll \in Nat
    BY <2>1, DayAssumption
  <2> HIDE DEF open
  <2> QED
    BY <2>2, <2>3, <2>4
<1>2. Sleep(n) /\ now' = now
  OBVIOUS
<1> HIDE DEF open
<1>3. n \in Nat /\ n <= open - now
  BY <1>1, MinOfTwo
<1> HIDE DEF n
<1>4. wake' \in Nat /\ wake' = now + n /\ now' <= wake' /\ pc' = "sleeping"
  BY <1>2, <1>3, SleepStarts
<1>5. wake' <= open
  BY <1>1, <1>3, <1>4
<1>6. BeforeOpen'
  BY <1>2, <1>5 DEF BeforeOpen, open, OpensAt, SessionDate
<1>7. SleepOK'
  BY <1>4, <1>6 DEF SleepOK
<1>8. RecorderTypes' /\ TornOK'
  BY <1>4 DEF RecorderTypes, TornOK, Busy
<1>9. FilesOK'
  BY <1>4, FilesKept DEF Busy
<1>10. CaptureOK' /\ TopOK'
  BY <1>4 DEF CaptureOK, TopOK, Busy
<1> QED
  BY <1>7, <1>8, <1>9, <1>10

\* What is left of the interval.
LEMMA RestFacts ==
  ASSUME RecorderTypes
  PROVE  /\ Rest \in Nat /\ now - began \in Nat
         /\ Rest = 0 \/ (now - began) + Rest = Interval
<1>1. now \in Nat /\ began \in Nat /\ began <= now /\ Interval \in Nat
  BY DayNumbers, MostIsMax DEF RecorderTypes
<1> QED
  BY <1>1 DEF Rest

\* A sleep after a capture.
LEMMA SleepAfterCapture ==
  ASSUME RecorderInv, pc = "after", NEW n \in Nat, n <= Rest, Sleep(n),
         UNCHANGED <<mode, now, date, work, files, kills, faults, started, dates>>
  PROVE  RecorderInv'
<1> USE DEF RecorderInv, files, work
<1>1. wake' \in Nat /\ wake' = now + n /\ now' <= wake' /\ pc' = "sleeping"
  BY SleepStarts
<1>2. AfterCapture'
  <2>1. dates # {} /\ now <= began + Longest
    BY DEF CaptureOK
  <2>2. now \in Nat /\ began \in Nat
    BY DayNumbers DEF RecorderTypes
  <2>3. now - began <= Most
    BY <2>1, <2>2, MostIsMax
  <2>4. now < wake' => wake' - began <= Interval
    BY <1>1, <2>2, RestFacts, MostIsMax
  <2> QED
    BY <2>1, <2>3, <2>4 DEF AfterCapture
<1>3. SleepOK'
  BY <1>1, <1>2 DEF SleepOK
<1>4. RecorderTypes' /\ TornOK'
  BY <1>1 DEF RecorderTypes, TornOK, Busy
<1>5. FilesOK'
  BY <1>1, FilesKept DEF Busy
<1>6. CaptureOK' /\ TopOK'
  BY <1>1 DEF CaptureOK, TopOK, Busy
<1> QED
  BY <1>3, <1>4, <1>5, <1>6

\* Back at the top, or at an end, with nothing else changed.
LEMMA TurnKeeps ==
  ASSUME RecorderInv, pc' \in {"top", "stopped"}, wake' = wake, TopOK',
         UNCHANGED <<mode, now, date, work, files, kills, faults, started, dates>>
  PROVE  RecorderInv'
<1> USE DEF RecorderInv, files, work
<1>1. RecorderTypes' /\ TornOK'
  BY DEF RecorderTypes, TornOK, Busy
<1>2. FilesOK'
  BY FilesKept DEF Busy
<1>3. CaptureOK' /\ SleepOK'
  BY DEF CaptureOK, SleepOK, Busy
<1> QED
  BY <1>1, <1>2, <1>3

\* The clock says the same of an instant that has not passed.
LEMMA SameInstant ==
  ASSUME UNCHANGED <<now, began, started, dates>>
  PROVE  (InSession' <=> InSession) /\ Since' = Since
  BY DEF InSession, Since, Day, Clock, OpensAt

LEMMA EndTurnKeeps == ASSUME RecorderInv, EndTurn PROVE RecorderInv'
<1> USE DEF RecorderInv, EndTurn
<1>1. CASE \E n \in Nat : n <= Rest /\ Sleep(n)
  BY <1>1, SleepAfterCapture
<1>2. CASE pc' \in {"top", "stopped"} /\ wake' = wake
  <2>1. InSession => now - Since <= Most
    <3>1. SUFFICES ASSUME InSession
                   PROVE  now - Since <= Most
      OBVIOUS
    <3>2. began <= Since /\ now <= began + Longest /\ Since \in Nat
      BY <3>1, SinceFacts DEF CaptureOK
    <3>3. now \in Nat /\ began \in Nat
      BY DayNumbers DEF RecorderTypes
    <3> QED
      BY <3>2, <3>3, MostIsMax
  <2>2. TopOK'
    BY <2>1, SameInstant DEF TopOK, work
  <2> QED
    BY <1>2, <2>2, TurnKeeps
<1>3. \/ \E n \in Nat : n <= Rest /\ Sleep(n)
      \/ pc' \in {"top", "stopped"} /\ wake' = wake
  <2>1. CASE mode.market /\ ~(now >= ClosesAt(date))
    <3> DEFINE late == ClosesAt(date) - now
               n == Min({Rest, late})
    <3>1. Sleep(n)
      BY <2>1
    <3>2. late \in Nat /\ Rest \in Nat
      <4>1. now \in Nat /\ ClosesAt(date) \in Nat
        BY DayNumbers DEF RecorderTypes, ClosesAt
      <4> QED
        BY <2>1, <4>1, RestFacts
    <3> HIDE DEF late
    <3>3. n \in Nat /\ n <= Rest
      BY <3>2, MinOfTwo
    <3> HIDE DEF n
    <3> QED
      BY <3>1, <3>3
  <2>2. CASE mode.market /\ now >= ClosesAt(date)
    BY <2>2
  <2>3. CASE ~mode.market
    <3>1. Sleep(Rest) \/ (pc' = "stopped" /\ wake' = wake)
      BY <2>3
    <3>2. Rest \in Nat /\ Rest <= Rest
      BY RestFacts
    <3> QED
      BY <3>1, <3>2
  <2> QED
    BY <2>1, <2>2, <2>3
<1> QED
  BY <1>1, <1>2, <1>3

LEMMA RecorderWakes == ASSUME RecorderInv, Wake \/ NoTurnLeft PROVE RecorderInv'
<1> USE DEF RecorderInv, Wake, NoTurnLeft
<1>1. CASE NoTurnLeft
  <2>1. TopOK'
    BY <1>1 DEF TopOK
  <2> QED
    BY <1>1, <2>1, TurnKeeps
<1>2. CASE Wake
  <2>1. mode.market /\ InSession => now - Since <= Most
    <3>1. SUFFICES ASSUME mode.market, InSession
                   PROVE  now - Since <= Most
      OBVIOUS
    <3>2. /\ now \in Nat /\ wake \in Nat /\ began \in Nat /\ Since \in Nat /\ now = wake
          /\ BeforeOpen \/ AfterCapture
      BY <1>2, <3>1, SinceFacts, DayNumbers DEF SleepOK, RecorderTypes
    <3>3. CASE BeforeOpen
      <4>1. now <= OpensAt(Day(now)) /\ OpensAt(Day(now)) \in Nat
        BY <3>1, <3>2, <3>3, SessionIsOpen DEF BeforeOpen, RecorderTypes
      <4>2. OpensAt(Day(now)) <= Since
        BY <3>1, SinceFacts
      <4> QED
        BY <3>2, <4>1, <4>2, MostIsMax
    <3>4. CASE AfterCapture
      BY <3>1, <3>2, <3>4, SinceFacts, MostIsMax DEF AfterCapture
    <3> QED
      BY <3>2, <3>3, <3>4
  <2>2. TopOK'
    BY <1>2, <2>1, SameInstant DEF TopOK, work
  <2> QED
    BY <1>2, <2>2, TurnKeeps
<1> QED
  BY <1>1, <1>2

\* A fault, a kill within an append or without, and the next process.
LEMMA KillKeeps == ASSUME RecorderInv, Raise \/ Kill PROVE RecorderInv'
<1> USE DEF RecorderInv
<1>1. /\ pc' = "failed" /\ wake' = now + Backoff
      /\ UNCHANGED <<mode, now, date, began, lines, batches, under, summary, damaged, started>>
  BY DEF Raise, Kill, files, work
<1>2. now \in Nat /\ Backoff \in Nat
  BY DayNumbers, DayAssumption DEF RecorderTypes
<1>3. IsFiniteSet(torn') /\ kills' \in Nat /\ TornOK'
  <2>1. CASE torn' = torn /\ (kills' = kills \/ kills' = kills + 1)
    <3>1. Cardinality(torn) \in Nat
      BY FS_CardinalityType DEF RecorderTypes
    <3> QED
      BY <1>1, <2>1, <3>1 DEF RecorderTypes, TornOK
  <2>2. ASSUME NEW f \in File, f \notin torn, torn' = torn \cup {f}, kills' = kills + 1
        PROVE  IsFiniteSet(torn') /\ kills' \in Nat /\ TornOK'
    <3>1. IsFiniteSet(torn') /\ Cardinality(torn') = Cardinality(torn) + 1
      BY <2>2, FS_AddElement DEF RecorderTypes
    <3>2. Cardinality(torn) \in Nat
      BY FS_CardinalityType DEF RecorderTypes
    <3> QED
      BY <1>1, <2>2, <3>1, <3>2 DEF RecorderTypes, TornOK
  <2>3. CASE Raise
    BY <2>1, <2>3 DEF Raise, files
  <2>4. CASE Kill
    <3>1. PICK f \in File \cup {<<"none", 0>>} :
            /\ f \in File => f \notin torn
            /\ torn' = torn \cup ({f} \cap File)
            /\ kills' = IF f \in File THEN kills + 1 ELSE kills
      BY <2>4 DEF Kill
    <3>2. CASE f \in File
      <4>1. torn' = torn \cup {f}
        BY <3>1, <3>2
      <4> QED
        BY <2>2, <3>1, <3>2, <4>1
    <3>3. CASE f \notin File
      <4>1. torn' = torn
        BY <3>1, <3>3
      <4> QED
        BY <2>1, <3>1, <3>3, <4>1
    <3> QED
      BY <3>2, <3>3
  <2> QED
    BY <2>3, <2>4
<1>4. RecorderTypes'
  BY <1>1, <1>2, <1>3 DEF RecorderTypes, Busy
<1>5. FilesOK'
  BY <1>1, FilesKept DEF Busy
<1>6. CaptureOK' /\ SleepOK' /\ TopOK'
  BY <1>1 DEF CaptureOK, SleepOK, TopOK, Busy
<1> QED
  BY <1>3, <1>4, <1>5, <1>6

LEMMA RestartKeeps == ASSUME RecorderInv, Restart PROVE RecorderInv'
<1> USE DEF RecorderInv, Restart, files, work
<1>1. now \in Nat
  BY DayNumbers DEF RecorderTypes
<1>2. RecorderTypes' /\ TornOK'
  BY <1>1 DEF RecorderTypes, TornOK, Busy
<1>3. FilesOK'
  BY FilesKept DEF Busy
<1>4. CaptureOK' /\ SleepOK'
  BY DEF CaptureOK, SleepOK, Busy
<1>5. TopOK'
  <2>1. ASSUME InSession'
        PROVE  now' - Since' <= Most'
    <3>1. InSession
      BY <2>1 DEF InSession, Day, Clock
    <3>2. OpensAt(Day(now)) \in Nat /\ OpensAt(Day(now)) <= now
      BY <3>1, SessionIsOpen DEF RecorderTypes
    <3>3. Since' = Max({now, OpensAt(Day(now)), 0})
      BY DEF Since, OpensAt, Day
    <3>4. Since' = now
      BY <1>1, <3>2, <3>3, MaxOfThree
    <3> QED
      BY <1>1, <3>4, MostIsMax DEF Most
  <2> QED
    BY <2>1 DEF TopOK
<1> QED
  BY <1>2, <1>3, <1>4, <1>5

\* Time passes.
LEMMA TickKeeps == ASSUME RecorderInv, Tick PROVE RecorderInv'
<1> USE DEF RecorderInv, Tick, files, work
<1>1. /\ now \in Nat /\ now' = now + 1 /\ now \in 0 .. Horizon - 1
      /\ wake \in Nat /\ began \in Nat /\ Longest \in Nat
  BY DayNumbers, MostIsMax DEF RecorderTypes
<1>2. RecorderTypes' /\ TornOK'
  BY <1>1, DayNumbers DEF RecorderTypes, TornOK
<1>3. FilesOK'
  BY SumsKept DEF FilesOK, FilesAgree, Busy
<1>4. CaptureOK'
  BY <1>1 DEF CaptureOK, Busy
<1>5. TopOK'
  BY DEF TopOK, Busy
<1>6. SleepOK'
  <2>1. SUFFICES ASSUME pc = "sleeping", mode.market
                 PROVE  now' <= wake' /\ (BeforeOpen' \/ AfterCapture')
    BY DEF SleepOK
  <2>2. now < wake /\ now' <= wake
    BY <1>1, <2>1 DEF Busy
  <2>3. CASE BeforeOpen
    <3>1. now + 1 <= OpensAt(SessionDate(now))
      <4>1. OpensAt(SessionDate(now)) \in Nat
        <5>1. SessionDate(now) \in Nat
          BY SessionIsAhead DEF RecorderTypes
        <5> QED
          BY <5>1, DayNumbers DEF OpensAt
      <4> QED
        BY <1>1, <2>2, <2>3, <4>1 DEF BeforeOpen
    <3>2. SessionDate(now + 1) = SessionDate(now)
      BY <1>1, <3>1, SessionStays
    <3>3. BeforeOpen' <=> wake <= OpensAt(SessionDate(now + 1))
      BY DEF BeforeOpen, OpensAt, SessionDate, NextWeekday, Day, Clock
    <3> QED
      BY <2>2, <2>3, <3>2, <3>3 DEF BeforeOpen
  <2>4. CASE AfterCapture
    <3>1. now + 1 - began <= Most
      BY <1>1, <2>2, <2>4, MostIsMax DEF AfterCapture
    <3> QED
      BY <1>1, <2>2, <2>4, <3>1 DEF AfterCapture
  <2> QED
    BY <2>1, <2>3, <2>4 DEF SleepOK
<1> QED
  BY <1>2, <1>3, <1>4, <1>5, <1>6

LEMMA RecorderKeeps == ASSUME RecorderInv, [Next]_vars PROVE RecorderInv'
<1>1. ASSUME NEW t \in Tickers, Underlying(t)
      PROVE  RecorderInv'
  BY <1>1, UnderlyingKeeps
<1>2. ASSUME NEW c \in Codes, WriteOption(c)
      PROVE  RecorderInv'
  BY <1>2, WriteOptionKeeps
<1>3. CASE WaitForOpen \/ BeginCapture \/ EndTurn \/ Wake \/ NoTurnLeft
  BY <1>3, WaitForOpenKeeps, BeginCaptureKeeps, EndTurnKeeps, RecorderWakes
<1>4. CASE Request \/ OptionsDone \/ WriteBatch \/ WriteSummary
  BY <1>4, RequestKeeps, WriteBatchKeeps, WriteSummaryKeeps
<1>5. CASE Raise \/ Kill \/ Restart \/ Tick
  BY <1>5, KillKeeps, RestartKeeps, TickKeeps
<1>6. CASE UNCHANGED vars
  <2>1. FilesOK'
    BY <1>6, SumsKept DEF RecorderInv, vars, files, FilesOK, FilesAgree
  <2>2. RecorderTypes' /\ TornOK' /\ CaptureOK'
    BY <1>6 DEF RecorderInv, vars, files, work, RecorderTypes, TornOK, CaptureOK
  <2>3. SleepOK' /\ TopOK'
    <3>1. BeforeOpen' <=> BeforeOpen
      BY <1>6 DEF vars, BeforeOpen, OpensAt, SessionDate, NextWeekday, Day, Clock
    <3>2. AfterCapture' <=> AfterCapture
      BY <1>6 DEF vars, work, AfterCapture, Most
    <3>3. (InSession' <=> InSession) /\ Since' = Since
      BY <1>6, SameInstant DEF vars, work
    <3> QED
      BY <1>6, <3>1, <3>2, <3>3 DEF RecorderInv, vars, SleepOK, TopOK, Most
  <2> QED
    BY <2>1, <2>2, <2>3 DEF RecorderInv
<1> QED
  BY <1>1, <1>2, <1>3, <1>4, <1>5, <1>6 DEF Next, Beyond

LEMMA RecorderInvariance == Spec => []RecorderInv
<1>1. RecorderInv /\ [Next]_vars => RecorderInv'
  BY RecorderKeeps
<1> QED
  BY <1>1, RecorderStarts, PTL DEF Spec

\* The window next_regular_session_window names is never behind, and is that
\* of the session the clock is in when it is in one.
THEOREM WindowAhead == Spec => []WindowIsAhead
<1>1. RecorderInv => WindowIsAhead
  BY SessionIsAhead DEF RecorderInv, RecorderTypes, WindowIsAhead
<1> QED
  BY <1>1, RecorderInvariance, PTL

\* The files of a capture agree with each other, and all of them are there
\* when its summary is, whatever was requested, failed or came twice.
THEOREM FilesOfACaptureAgree == Spec => []FilesAgree
<1>1. RecorderInv => FilesAgree
  BY DEF RecorderInv, FilesOK
<1> QED
  BY <1>1, RecorderInvariance, PTL

\* A kill within an append costs one acknowledged record at most.
THEOREM LossBounded == Spec => []LossIsBounded
<1>1. RecorderInv => LossIsBounded
  <2>1. SUFFICES ASSUME RecorderInv
                 PROVE  LossIsBounded
    OBVIOUS
  <2>2. Cardinality(torn) \in Nat
    BY <2>1, FS_CardinalityType DEF RecorderInv, RecorderTypes
  <2> QED
    BY <2>1, <2>2 DEF RecorderInv, RecorderTypes, TornOK, LossIsBounded
<1> QED
  BY <1>1, RecorderInvariance, PTL

\* In a session the captures of a recorder that runs begin one interval
\* apart, or as soon as a longer one is over.
THEOREM SessionsWithoutGap == Spec => []NoGap
<1>1. RecorderInv => NoGap
  <2>1. SUFFICES ASSUME RecorderInv, mode.market, pc \notin {"failed", "stopped"}, InSession
                 PROVE  /\ now - Since <= Max({Interval, Longest})
                        /\ pc = "sleeping" /\ now < wake => wake - Since <= Interval
    BY DEF NoGap, InSession, Since
  <2>2. /\ now \in Nat /\ wake \in Nat /\ began \in Nat /\ Since \in Nat /\ Since <= now
        /\ dates # {} => began <= Since
        /\ now \in 0 .. Horizon
    BY <2>1, SinceFacts, DayNumbers DEF RecorderInv, RecorderTypes
  <2>3. CASE pc = "top"
    BY <2>1, <2>3, MostIsMax DEF RecorderInv, TopOK
  <2>4. CASE pc = "sleeping"
    <3>1. now <= wake /\ (BeforeOpen \/ AfterCapture)
      BY <2>1, <2>4 DEF RecorderInv, SleepOK
    <3>2. CASE BeforeOpen
      <4>1. wake <= OpensAt(Day(now)) /\ OpensAt(Day(now)) <= now /\ OpensAt(Day(now)) \in Nat
        BY <2>1, <2>2, <3>2, SessionIsOpen DEF BeforeOpen
      <4>2. OpensAt(Day(now)) <= Since
        BY <2>1, SinceFacts DEF RecorderInv
      <4> QED
        BY <2>2, <3>1, <4>1, <4>2, MostIsMax
    <3>3. CASE AfterCapture
      BY <2>2, <3>3, MostIsMax DEF AfterCapture
    <3> QED
      BY <3>1, <3>2, <3>3
  <2>5. CASE pc \in Busy \cup {"after"}
    <3>1. dates # {} /\ now <= began + Longest
      BY <2>1, <2>5 DEF RecorderInv, CaptureOK
    <3>2. pc # "sleeping"
      BY <2>5 DEF Busy
    <3> QED
      BY <2>2, <3>1, <3>2, MostIsMax
  <2> QED
    BY <2>1, <2>3, <2>4, <2>5 DEF RecorderInv, RecorderTypes
<1> QED
  BY <1>1, RecorderInvariance, PTL

-----------------------------------------------------------------------------
(* The dashboard collector: CollectorLoop.                                 *)

InCycle == {"discover", "spots", "collect", "publish"}

\* After the discovery the context is of the expiry wanted, and no later one
\* was ever published.
ContextOK == stage \in InCycle \ {"discover"} => context.expiry = want
ShownOK ==
  \A s \in Symbols : /\ shown[s].expiry <= today
                     /\ stage \in InCycle => shown[s].expiry <= want

LoopInv == LoopTypeOK /\ ContextOK /\ ShownOK

LEMMA LoopStarts == ASSUME LoopInit PROVE LoopInv
<1> USE NumberAssumption DEF LoopInit
<1>1. /\ today \in Expiry /\ want \in 1 .. today /\ starts \in 1 .. MaxStarts
      /\ context \in [expiry : 0 .. today, codes : SUBSET OptionCodes]
  BY DEF Expiry
<1>2. /\ found \in [Symbols -> Spot] /\ spot \in [Symbols -> Spot]
      /\ shown \in [Symbols -> [expiry : 0 .. MaxDay, rows : SUBSET OptionCodes]]
  BY DEF Spot, Nothing
<1>3. twice \in BOOLEAN
  BY Zenon
<1>4. LoopTypeOK
  BY <1>1, <1>2, <1>3 DEF LoopTypeOK
<1>5. ContextOK /\ ShownOK
  BY DEF ContextOK, ShownOK, InCycle, Nothing
<1> QED
  BY <1>4, <1>5 DEF LoopInv

\* The clock moves on by itself.
LEMMA RollKeeps == ASSUME LoopInv, Roll PROVE LoopInv'
<1> USE NumberAssumption DEF LoopInv, Roll, cycle
<1>1. today' \in Expiry /\ 1 .. today \subseteq 1 .. today' /\ 0 .. today \subseteq 0 .. today'
  BY DEF LoopTypeOK, Expiry
<1>2. LoopTypeOK'
  BY <1>1 DEF LoopTypeOK
<1>3. ContextOK' /\ ShownOK'
  BY <1>1 DEF ContextOK, ShownOK, LoopTypeOK, Expiry
<1> QED
  BY <1>2, <1>3

\* Between the top of the loop and the request.
LEMMA TopKeeps == ASSUME LoopInv, Top PROVE LoopInv'
<1> USE DEF LoopInv, Top
<1>1. want' = today /\ today \in Nat /\ today' \in Expiry
  BY DEF LoopTypeOK, Expiry
<1>2. LoopTypeOK'
  <2>1. stage' \in {"discover", "spots"} /\ want' \in 1 .. today'
    BY <1>1 DEF LoopTypeOK, Expiry
  <2> QED
    BY <2>1 DEF LoopTypeOK
<1>3. ContextOK' /\ ShownOK'
  BY <1>1 DEF ContextOK, ShownOK, InCycle, RefreshNeeded
<1> QED
  BY <1>2, <1>3

LEMMA DiscoverKeeps == ASSUME LoopInv, Discover PROVE LoopInv'
<1> USE DEF LoopInv, Discover, cycle
<1>1. context' \in [expiry : 0 .. today, codes : SUBSET OptionCodes] /\ context'.expiry = want
  BY DEF LoopTypeOK, Expiry
<1>2. LoopTypeOK'
  BY <1>1 DEF LoopTypeOK
<1>3. ContextOK' /\ ShownOK'
  BY <1>1 DEF ContextOK, ShownOK, InCycle
<1> QED
  BY <1>2, <1>3

LEMMA SpotsKeeps == ASSUME LoopInv, Spots PROVE LoopInv'
<1> USE DEF LoopInv, Spots
<1>1. spot' \in [Symbols -> Spot]
  BY DEF LoopTypeOK
<1>2. left' \subseteq OptionCodes
  BY DEF LoopTypeOK
<1>3. twice' \in BOOLEAN
  BY Zenon
<1>4. LoopTypeOK'
  BY <1>1, <1>2, <1>3 DEF LoopTypeOK
<1>5. ContextOK' /\ ShownOK'
  BY DEF ContextOK, ShownOK, InCycle
<1> QED
  BY <1>4, <1>5

\* The requests and what they bring.
LEMMA CollectKeeps == ASSUME LoopInv, Collect PROVE LoopInv'
<1> USE DEF LoopInv, Collect, LeftAfter
<1>1. PICK chunk \in SUBSET left, back \in SUBSET left :
        /\ back \subseteq chunk /\ left' = left \ chunk /\ got' = got \cup back
        /\ \E again \in {FALSE, back # {}} : twice' = (twice \/ again)
  OBVIOUS
<1>2. left' \subseteq OptionCodes /\ got' \subseteq OptionCodes /\ left' \cap got' = {}
  BY <1>1 DEF LoopTypeOK
<1>3. twice' \in BOOLEAN
  BY <1>1, Zenon DEF LoopTypeOK
<1>4. LoopTypeOK'
  BY <1>2, <1>3 DEF LoopTypeOK
<1>5. ContextOK' /\ ShownOK'
  BY DEF ContextOK, ShownOK, InCycle
<1> QED
  BY <1>4, <1>5

LEMMA InferKeeps == ASSUME LoopInv, Infer PROVE LoopInv'
<1> USE DEF LoopInv, Infer
<1>1. spot' \in [Symbols -> Spot]
  BY DEF LoopTypeOK, Spot
<1>2. LoopTypeOK'
  BY <1>1 DEF LoopTypeOK
<1>3. ContextOK' /\ ShownOK'
  BY DEF ContextOK, ShownOK, InCycle
<1> QED
  BY <1>2, <1>3

\* A batch that is accepted: what is shown is of the context, or unchanged.
LEMMA AcceptedFacts ==
  ASSUME LoopInv, stage = "publish", Accepted
  PROVE  /\ {said', health'} \subseteq {"none", "connected", "degraded"}
         /\ shown' \in [Symbols -> [expiry : 0 .. MaxDay, rows : SUBSET OptionCodes]]
         /\ \A s \in Symbols :
              \/ shown'[s] = shown[s]
              \/ /\ shown'[s].expiry = want
                 /\ shown[s].expiry = want => shown[s].rows \subseteq shown'[s].rows
<1> USE NumberAssumption DEF LoopInv, Accepted, Ingest
<1>1. {said', health'} \subseteq {"none", "connected", "degraded"}
  <2>1. \A s : SymbolStatus(s) = "connected" \/ SymbolStatus(s) = "degraded"
    BY DEF SymbolStatus
  <2> QED
    BY <2>1
<1>2. context.expiry = want /\ want \in 0 .. MaxDay
  BY DEF ContextOK, InCycle, LoopTypeOK, Expiry
<1>3. \A s \in Symbols : /\ Rows(s) \subseteq OptionCodes /\ Kept(s) \subseteq OptionCodes
                         /\ shown[s].expiry = want => Kept(s) = shown[s].rows
  BY <1>2 DEF Rows, Kept, LoopTypeOK, CodesOf
<1>4. \A s \in Symbols : \/ shown'[s] = shown[s]
                         \/ shown'[s] = [expiry |-> want, rows |-> Rows(s) \cup Kept(s)]
  BY <1>2
<1>5. shown' = [s \in Symbols |-> shown'[s]]
  OBVIOUS
<1>6. shown' \in [Symbols -> [expiry : 0 .. MaxDay, rows : SUBSET OptionCodes]]
  <2>1. \A s \in Symbols : shown'[s] \in [expiry : 0 .. MaxDay, rows : SUBSET OptionCodes]
    BY <1>2, <1>3, <1>4 DEF LoopTypeOK
  <2> QED
    BY <1>5, <2>1
<1> QED
  BY <1>1, <1>3, <1>4, <1>6

\* The end of a cycle, with or without an exit.
LEMMA EndFacts ==
  ASSUME EndCycle, today \in Expiry
  PROVE  /\ want' \in 1 .. today /\ spot' \in [Symbols -> Spot]
         /\ left' = {} /\ got' = {} /\ twice' \in BOOLEAN
<1>1. twice' \in BOOLEAN
  BY Zenon DEF EndCycle
<1>2. want' \in 1 .. today /\ spot' \in [Symbols -> Spot]
  BY DEF EndCycle, Spot, Expiry
<1> QED
  BY <1>1, <1>2 DEF EndCycle

LEMMA PublishKeeps ==
  ASSUME LoopInv, Publish \/ PublishFails \/ ProviderRaises
  PROVE  LoopInv'
<1> USE NumberAssumption DEF LoopInv, Publish, PublishFails, ProviderRaises, Exit
<1>1. today \in Expiry /\ today' = today /\ starts' = starts /\ EndCycle
  BY DEF LoopTypeOK
<1>2. \/ stage = "publish" /\ Accepted
      \/ UNCHANGED <<said, health, shown>>
  OBVIOUS
<1>3. /\ {said', health'} \subseteq {"none", "connected", "degraded"}
      /\ shown' \in [Symbols -> [expiry : 0 .. MaxDay, rows : SUBSET OptionCodes]]
      /\ \A s \in Symbols : shown'[s].expiry <= today
  <2>1. CASE stage = "publish" /\ Accepted
    <3>1. \A s \in Symbols : shown'[s].expiry = want \/ shown'[s] = shown[s]
      BY <2>1, AcceptedFacts
    <3>2. want <= today /\ \A s \in Symbols : shown[s].expiry <= today
      BY DEF LoopTypeOK, Expiry, ShownOK
    <3> QED
      BY <2>1, <3>1, <3>2, AcceptedFacts
  <2>2. CASE UNCHANGED <<said, health, shown>>
    BY <2>2 DEF LoopTypeOK, ShownOK
  <2> QED
    BY <1>2, <2>1, <2>2
<1>4. /\ stage' \in {"asleep", "exited"} /\ found' \in [Symbols -> Spot]
      /\ context' \in [expiry : 0 .. today, codes : SUBSET OptionCodes]
  BY <1>1 DEF LoopTypeOK, Spot, Expiry
<1>5. LoopTypeOK'
  BY <1>1, <1>3, <1>4, EndFacts DEF LoopTypeOK
<1>6. ContextOK' /\ ShownOK'
  BY <1>1, <1>3, <1>4 DEF ContextOK, ShownOK, InCycle
<1> QED
  BY <1>5, <1>6

LEMMA WakeKeeps == ASSUME LoopInv, WakeUp \/ Start PROVE LoopInv'
<1> USE NumberAssumption DEF LoopInv, WakeUp, Start, cycle
<1>1. stage' = "top" /\ starts' \in 1 .. MaxStarts
  BY DEF LoopTypeOK
<1>2. LoopTypeOK'
  BY <1>1 DEF LoopTypeOK
<1>3. ContextOK' /\ ShownOK'
  BY <1>1 DEF ContextOK, ShownOK, InCycle
<1> QED
  BY <1>2, <1>3

LEMMA LoopKeeps ==
  ASSUME LoopInv, [LoopNext]_loopVars
  PROVE  LoopInv'
<1>1. CASE Top \/ Discover \/ Spots \/ Collect \/ Infer
  BY <1>1, TopKeeps, DiscoverKeeps, SpotsKeeps, CollectKeeps, InferKeeps
<1>2. CASE Publish \/ PublishFails \/ ProviderRaises
  BY <1>2, PublishKeeps
<1>3. CASE Roll \/ WakeUp \/ Start
  BY <1>3, RollKeeps, WakeKeeps
<1>4. CASE UNCHANGED loopVars
  BY <1>4 DEF loopVars, cycle, LoopInv, LoopTypeOK, ContextOK, ShownOK
<1> QED
  BY <1>1, <1>2, <1>3, <1>4 DEF LoopNext, Loop

LEMMA LoopInvariance == LoopSpec => []LoopInv
<1>1. LoopInit => LoopInv
  BY LoopStarts
<1>2. LoopInv /\ [LoopNext]_loopVars => LoopInv'
  BY LoopKeeps
<1> QED
  BY <1>1, <1>2, PTL DEF LoopSpec

\* What is shown for a symbol changes in an accepted batch only.
LEMMA StepAdvances ==
  ASSUME LoopInv, [LoopNext]_loopVars, NEW s \in Symbols
  PROVE  \/ shown'[s].expiry > shown[s].expiry
         \/ shown'[s].expiry = shown[s].expiry /\ shown[s].rows \subseteq shown'[s].rows
<1>1. CASE shown' = shown
  BY <1>1
<1>2. CASE stage = "publish" /\ Accepted
  <2>1. \/ shown'[s] = shown[s]
        \/ /\ shown'[s].expiry = want
           /\ shown[s].expiry = want => shown[s].rows \subseteq shown'[s].rows
    BY <1>2, AcceptedFacts
  <2>2. shown[s].expiry <= want /\ shown[s].expiry \in Nat /\ want \in Nat
    BY <1>2, NumberAssumption DEF LoopInv, ShownOK, InCycle, LoopTypeOK, Expiry
  <2> QED
    BY <2>1, <2>2
<1>3. shown' = shown \/ (stage = "publish" /\ Accepted)
  BY DEF LoopNext, Loop, loopVars, Top, Discover, Spots, Collect, Infer, Publish,
         PublishFails, ProviderRaises, Roll, WakeUp, Start
<1> QED
  BY <1>1, <1>2, <1>3

\* Every variable keeps its type: the target of a cycle is never ahead of
\* the clock, and no code is both requested and still to request.
THEOREM LoopTypeCorrect == LoopSpec => []LoopTypeOK
<1>1. LoopInv => LoopTypeOK
  BY DEF LoopInv
<1> QED
  BY <1>1, LoopInvariance, PTL

\* When a batch goes out its context is of the expiry wanted, and a symbol is
\* connected in it only if every code of the context came once.
THEOREM ConnectedWhole == LoopSpec => []ConnectedIsWhole
<1>1. LoopInv => ConnectedIsWhole
  BY DEF LoopInv, ContextOK, InCycle, ConnectedIsWhole, SymbolStatus, Status, Rows
<1> QED
  BY <1>1, LoopInvariance, PTL

\* What the API shows for a symbol never goes back to an earlier expiry nor
\* loses a code within one, whatever the rollovers, exits and restarts.
THEOREM ShownNeverGoesBack == LoopSpec => ShownAdvances
<1>1. LoopInv /\ [LoopNext]_loopVars
        => [\A s \in Symbols :
              \/ shown'[s].expiry > shown[s].expiry
              \/ shown'[s].expiry = shown[s].expiry
                 /\ shown[s].rows \subseteq shown'[s].rows]_loopVars
  BY StepAdvances
<1> QED
  BY <1>1, LoopInvariance, PTL DEF LoopSpec, ShownAdvances

\* How far a cycle is: its stage, and the codes still to request.
Stages == CASE stage = "top" -> 0 [] stage = "discover" -> 1 [] stage = "spots" -> 2
            [] stage = "collect" -> 3 [] stage = "publish" -> 4 [] stage = "asleep" -> 5
            [] stage = "exited" -> 6
CycleAdvances ==
  \/ Stages' > Stages
  \/ Stages' = Stages /\ Cardinality(left') < Cardinality(left)

CycleGoesOn ==
  UNCHANGED <<stage, left>> \/ CycleAdvances \/ (stage \in {"asleep", "exited"} /\ stage' = "top")

\* A request takes at least one code off those left, since a chunk has room
\* for one.
LEMMA CollectAdvances == ASSUME LoopTypeOK, Collect PROVE Cardinality(left') < Cardinality(left)
<1>1. PICK chunk \in SUBSET left :
        /\ Cardinality(chunk) = (IF Cardinality(left) < Chunk THEN Cardinality(left) ELSE Chunk)
        /\ left' = left \ chunk
  BY DEF Collect, LeftAfter
<1>2. IsFiniteSet(left) /\ left # {}
  BY UniverseAssumption, FS_Subset DEF LoopTypeOK, Collect
<1>3. Cardinality(left) \in Nat /\ Cardinality(left) # 0
  BY <1>2, FS_CardinalityType, FS_EmptySet
<1>4. Cardinality(chunk) # 0
  BY <1>1, <1>3, NumberAssumption
<1>5. PICK c \in chunk : TRUE
  BY <1>4, FS_EmptySet
<1>6. Cardinality(left \ {c}) = Cardinality(left) - 1 /\ IsFiniteSet(left \ {c})
  BY <1>1, <1>2, <1>5, FS_RemoveElement, FS_Subset
<1>7. Cardinality(left') <= Cardinality(left \ {c}) /\ Cardinality(left') \in Nat
  <2>1. left' \subseteq left \ {c}
    BY <1>1, <1>5
  <2> QED
    BY <1>6, <2>1, FS_Subset, FS_CardinalityType
<1> QED
  BY <1>3, <1>6, <1>7

\* A step of the loop, or its end, goes on to a later stage or leaves fewer
\* codes to request, until the loop wakes up or is started again; and the
\* clock takes nothing back.
THEOREM CyclesAdvance == LoopSpec => [][CycleGoesOn]_loopVars
<1>1. LoopInv /\ [LoopNext]_loopVars => [CycleGoesOn]_loopVars
  <2> SUFFICES ASSUME LoopInv, LoopNext
               PROVE  CycleGoesOn
    OBVIOUS
  <2>1. CASE Top
    BY <2>1 DEF Top, CycleGoesOn, CycleAdvances, Stages
  <2>2. CASE Discover \/ Spots
    BY <2>2 DEF Discover, Spots, CycleGoesOn, CycleAdvances, Stages
  <2>3. CASE Collect
    <3>1. Cardinality(left') < Cardinality(left) /\ Stages' = Stages
      BY <2>3, CollectAdvances DEF LoopInv, Collect, Stages
    <3> QED
      BY <3>1 DEF CycleGoesOn, CycleAdvances
  <2>4. CASE Infer \/ Publish
    BY <2>4 DEF Infer, Publish, CycleGoesOn, CycleAdvances, Stages
  <2>5. CASE PublishFails \/ ProviderRaises
    BY <2>5 DEF PublishFails, ProviderRaises, Exit, CycleGoesOn, CycleAdvances, Stages
  <2>6. CASE WakeUp \/ Start
    BY <2>6 DEF WakeUp, Start, CycleGoesOn
  <2>7. CASE Roll
    BY <2>7 DEF Roll, cycle, CycleGoesOn
  <2> QED
    BY <2>1, <2>2, <2>3, <2>4, <2>5, <2>6, <2>7 DEF LoopNext, Loop
<1> QED
  BY <1>1, LoopInvariance, PTL DEF LoopSpec

-----------------------------------------------------------------------------
(* The IBKR commands: IbkrProbe.                                           *)

Between == {"connect", "publish", "ended"}

\* A client exists outside of these places only.
ClientsOK == made = closed + (IF step \in Between THEN 0 ELSE 1)

\* The event without an error is nextValidId's, and who passed the wait saw it.
ReadyOK ==
  /\ ready /\ ~terminal => valid
  /\ step \in {"ask", "wait"} \/ (step \in {"close", "publish"} /\ result = "none") => valid

\* An entry that is set without an error has its answer, and so has a quote.
AnswersOK ==
  /\ \A n \in DOMAIN pending : pending[n].set /\ ~pending[n].error => n \in answered
  /\ quotes \subseteq answered

\* Where each contract is in the options session: still to ask for, asked
\* for, or quoted.  The other sessions wait for one answer at a time.
ContractsOK ==
  /\ step = "connect" \/ session # "options" => quotes = {}
  /\ session = "options" /\ step \in {"ready", "ask", "wait"} =>
       contracts = quotes \cup todo \cup awaited
  /\ session = "options" /\ step = "close" /\ result = "none" => quotes = contracts
  /\ step = "publish" /\ Len(command) > 1 => quotes = contracts
  /\ session # "options" => \A n, o \in awaited : n = o
  /\ step = "connect" => awaited = {}

IsFunction == pending = [n \in DOMAIN pending |-> pending[n]]

ProbeInv == ProbeTypeOK /\ IsFunction /\ ClientsOK /\ ReadyOK /\ AnswersOK /\ ContractsOK

\* A set of requests that is not empty has a first one.
LEMMA FirstIsThere ==
  ASSUME NEW S, S \subseteq Name, S # {}
  PROVE  Min(S) \in S
<1>1. S \subseteq Nat
  BY OptionAssumption DEF Name, Details, Lookup, Params
<1> QED
  BY <1>1, LeastIsThere

\* The sessions of the commands: that of the options comes last.
LEMMA SessionFacts ==
  ASSUME command \in Commands, at \in 1 .. Len(command)
  PROVE  /\ session \in {"handshake", "discovery", "options", "underlying"}
         /\ Len(command) \in 1 .. 3
         /\ session = "options" => at = Len(command)
         /\ Len(command) > 1 /\ at = Len(command) => session = "options"
         /\ session = "handshake" => ~(Len(command) > 1)
<1>1. CASE command = <<"handshake">>
  BY <1>1 DEF session
<1>2. CASE command = <<"discovery">>
  BY <1>2 DEF session
<1>3. CASE command = <<"discovery", "options">>
  BY <1>3 DEF session
<1>4. CASE command = <<"underlying", "discovery", "options">>
  BY <1>4 DEF session
<1> QED
  BY <1>1, <1>2, <1>3, <1>4 DEF Commands

\* What a session asks for first.
LEMMA FirstAskedFacts ==
  ASSUME ProbeTypeOK
  PROVE  /\ FirstAsked \subseteq Name
         /\ session = "options" => FirstAsked = contracts
<1>1. session \in {"handshake", "discovery", "options", "underlying"}
  BY SessionFacts DEF ProbeTypeOK
<1>2. contracts \subseteq Name /\ {Details, Lookup, Params} \subseteq Name
  BY DEF ProbeTypeOK, Name
<1>3. CASE session = "handshake"
  BY <1>3 DEF FirstAsked
<1>4. CASE session = "underlying"
  BY <1>4, <1>2 DEF FirstAsked
<1>5. CASE session = "options"
  BY <1>5, <1>2 DEF FirstAsked
<1>6. CASE session = "discovery"
  BY <1>6, <1>2 DEF FirstAsked
<1> QED
  BY <1>1, <1>3, <1>4, <1>5, <1>6

LEMMA EntryFacts ==
  /\ Fresh \in Entry
  /\ \A e \in Entry : Failed(e) \in Entry /\ Failed(e).error
  BY DEF Fresh, Entry, Failed

LEMMA NothingPending ==
  /\ DOMAIN NoPending = {}
  /\ NoPending = [n \in DOMAIN NoPending |-> NoPending[n]]
  BY DEF NoPending

\* A session that goes on is one of the same command.
LEMMA SameSession ==
  ASSUME command' = command, at' = at
  PROVE  session' = session
  BY DEF session

LEMMA ProbeStarts == ProbeInit => ProbeInv
<1> SUFFICES ASSUME ProbeInit
             PROVE  ProbeInv
  OBVIOUS
<1>1. at \in 1 .. Len(command)
  <2>1. Len(command) \in 1 .. 3
    <3>1. CASE command = <<"handshake">>
      BY <3>1
    <3>2. CASE command = <<"discovery">>
      BY <3>2
    <3>3. CASE command = <<"discovery", "options">>
      BY <3>3
    <3>4. CASE command = <<"underlying", "discovery", "options">>
      BY <3>4
    <3> QED
      BY <3>1, <3>2, <3>3, <3>4 DEF ProbeInit, Commands
  <2> QED
    BY <2>1 DEF ProbeInit
<1>2. ProbeTypeOK /\ IsFunction
  <2>1. spotKnown \in BOOLEAN
    BY Zenon DEF ProbeInit
  <2>2. IsFunction /\ DOMAIN pending = {}
    BY NothingPending DEF ProbeInit, IsFunction
  <2>3. {ready, terminal, linked, valid} \subseteq BOOLEAN
    BY Zenon DEF ProbeInit
  <2>4. {made, closed, posted, losses} \subseteq Nat
    BY DEF ProbeInit
  <2>5. /\ command \in Commands /\ step = "connect" /\ result = "none" /\ reader = "off"
        /\ todo = {} /\ awaited = {} /\ contracts = {} /\ quotes = {} /\ answered = {}
    BY Zenon DEF ProbeInit
  <2> HIDE DEF ProbeInit
  <2> QED
    BY <1>1, <2>1, <2>2, <2>3, <2>4, <2>5 DEF ProbeTypeOK
<1> QED
  BY <1>2 DEF ProbeInit, ProbeInv, ClientsOK, ReadyOK, AnswersOK, ContractsOK, Between, NoPending

\* A new client: nothing is pending, nothing known.
LEMMA ConnectKeeps == ASSUME ProbeInv, Connect PROVE ProbeInv'
<1> USE DEF ProbeInv, Connect
<1>1. session' = session
  BY SameSession
<1>2. ProbeTypeOK' /\ IsFunction'
  <2>1. IsFunction' /\ DOMAIN pending' = {}
    BY NothingPending DEF IsFunction
  <2>2. made' \in Nat
    BY DEF ProbeTypeOK
  <2>3. /\ reader' \in {"off", "on", "dead"} /\ linked' \in BOOLEAN
        /\ result' \in {"none", "ok", "failed"}
    BY DEF ProbeTypeOK
  <2> QED
    BY <2>1, <2>2, <2>3, FirstAskedFacts DEF ProbeTypeOK
<1>3. ClientsOK' /\ ReadyOK'
  BY DEF ProbeTypeOK, ClientsOK, ReadyOK, Between
<1>4. AnswersOK' /\ ContractsOK'
  BY <1>1, FirstAskedFacts DEF AnswersOK, ContractsOK, NoPending
<1> QED
  BY <1>2, <1>3, <1>4

LEMMA UnavailableKeeps == ASSUME ProbeInv, Unavailable PROVE ProbeInv'
<1> USE DEF ProbeInv, Unavailable
<1>1. session' = session
  BY SameSession
<1>2. step' = "ended" \/ (step' = "publish" /\ ~(Len(command) > 1))
  BY SessionFacts DEF AfterFailure, ProbeTypeOK
<1>3. ProbeTypeOK' /\ IsFunction'
  BY <1>2 DEF ProbeTypeOK, IsFunction
<1>4. ClientsOK' /\ ReadyOK' /\ AnswersOK'
  BY <1>2 DEF ClientsOK, ReadyOK, AnswersOK, Between
<1>5. ContractsOK'
  BY <1>1, <1>2 DEF ContractsOK
<1> QED
  BY <1>3, <1>4, <1>5

\* The wait for readiness ends, one way or the other, and so does a session
\* that has a failure.
LEMMA WaitKeeps == ASSUME ProbeInv, IsReady \/ NotReady \/ Broken PROVE ProbeInv'
<1> USE DEF ProbeInv, IsReady, NotReady, Broken, Fail, Proceed, rest
<1>1. session' = session
  BY SameSession
<1>2. ProbeTypeOK' /\ IsFunction'
  BY DEF ProbeTypeOK, IsFunction
<1>3. ClientsOK' /\ ReadyOK' /\ AnswersOK'
  BY DEF ClientsOK, ReadyOK, AnswersOK, Between
<1>4. ContractsOK'
  BY <1>1 DEF ContractsOK
<1> QED
  BY <1>2, <1>3, <1>4

\* A request is registered and sent.
LEMMA AskKeeps == ASSUME ProbeInv, Ask PROVE ProbeInv'
<1> USE DEF ProbeInv, Ask, rest
<1>1. session' = session
  BY SameSession
<1>2. Asked \in todo /\ Asked \in Name
  BY FirstIsThere DEF Asked, ProbeTypeOK
<1> DEFINE registered == [n \in DOMAIN pending \cup {Asked} |->
                            IF n = Asked THEN Fresh ELSE pending[n]]
<1>3. \/ pending' = registered
      \/ pending' = [n \in DOMAIN registered |-> Failed(registered[n])]
  OBVIOUS
<1>4. /\ DOMAIN registered = DOMAIN pending \cup {Asked}
      /\ \A n \in DOMAIN registered : registered[n] \in Entry
  BY EntryFacts DEF ProbeTypeOK
<1>5. \A n \in DOMAIN registered : registered[n].set /\ ~registered[n].error => n \in answered
  BY <1>4 DEF AnswersOK, Fresh
<1> HIDE DEF registered
<1>6. /\ DOMAIN pending' = DOMAIN pending \cup {Asked} /\ IsFunction'
      /\ \A n \in DOMAIN pending' : pending'[n] \in Entry
      /\ \A n \in DOMAIN pending' : pending'[n].set /\ ~pending'[n].error => n \in answered
  <2>1. CASE pending' = registered
    <3>1. registered = [n \in DOMAIN registered |-> registered[n]]
      BY DEF registered
    <3> QED
      BY <2>1, <3>1, <1>4, <1>5 DEF IsFunction
  <2>2. CASE pending' = [n \in DOMAIN registered |-> Failed(registered[n])]
    BY <2>2, <1>4, EntryFacts DEF IsFunction
  <2> QED
    BY <1>3, <2>1, <2>2
<1>7. ProbeTypeOK'
  BY <1>2, <1>6 DEF ProbeTypeOK
<1>8. ClientsOK' /\ ReadyOK' /\ AnswersOK'
  BY <1>6 DEF ClientsOK, ReadyOK, AnswersOK, Between
<1>9. ContractsOK'
  BY <1>1, <1>2 DEF ContractsOK
<1> QED
  BY <1>6, <1>7, <1>8, <1>9

\* An answer is taken: in the options session, of a contract with a complete
\* entry.
LEMMA GotKeeps == ASSUME ProbeInv, Got PROVE ProbeInv'
<1> USE DEF ProbeInv, Got, rest
<1>1. session' = session /\ session \in {"handshake", "discovery", "options", "underlying"}
  BY SameSession, SessionFacts DEF ProbeTypeOK
<1>2. awaited \subseteq Name
  BY DEF ProbeTypeOK
<1>3. Looked \in awaited /\ Looked \in DOMAIN pending /\ Looked \in answered
  BY <1>2, FirstIsThere DEF Looked, ProbeTypeOK, AnswersOK, Complete
<1>4. CASE session = "options"
  <2>1. /\ quotes' = quotes \cup {Looked} /\ todo' = todo /\ contracts' = contracts
        /\ pending' = pending
    BY <1>4 DEF Learns
  <2>2. contracts = quotes \cup todo \cup awaited
    BY <1>4 DEF ContractsOK
  <2>3. ProbeTypeOK' /\ IsFunction'
    BY <1>3, <2>1, <2>2 DEF ProbeTypeOK, IsFunction
  <2>4. ClientsOK' /\ ReadyOK' /\ AnswersOK'
    BY <1>3, <2>1 DEF ClientsOK, ReadyOK, AnswersOK, Between
  <2>5. ContractsOK'
    BY <1>1, <1>3, <1>4, <2>1, <2>2 DEF ContractsOK
  <2> QED
    BY <2>3, <2>4, <2>5
<1>5. CASE session # "options"
  <2>1. pending' = NoPending /\ awaited' = {} /\ step' = "ask"
    BY <1>3, <1>5 DEF ContractsOK
  <2>2. /\ quotes' = quotes /\ todo' \subseteq Name
        /\ contracts \subseteq contracts' /\ contracts' \subseteq Option
    <3>1. CASE session = "discovery" /\ Looked = Params
      BY <1>5, <3>1 DEF Learns, ProbeTypeOK, Name
    <3>2. CASE session = "discovery" /\ Looked \in Option /\ Looked # Params
      BY <1>5, <3>2 DEF Learns, ProbeTypeOK
    <3>3. CASE ~(session = "discovery" /\ (Looked = Params \/ Looked \in Option))
      BY <1>5, <3>3 DEF Learns, ProbeTypeOK
    <3> QED
      BY <3>1, <3>2, <3>3
  <2>3. ProbeTypeOK' /\ IsFunction'
    BY <2>1, <2>2 DEF ProbeTypeOK, IsFunction, NoPending
  <2>4. ClientsOK' /\ ReadyOK' /\ AnswersOK'
    BY <2>1, <2>2 DEF ClientsOK, ReadyOK, AnswersOK, Between, NoPending
  <2>5. ContractsOK'
    BY <1>1, <1>5, <2>1, <2>2 DEF ContractsOK
  <2> QED
    BY <2>3, <2>4, <2>5
<1> QED
  BY <1>4, <1>5

\* A session has asked for everything: in that of the options all is quoted.
LEMMA ServedKeeps == ASSUME ProbeInv, Served PROVE ProbeInv'
<1> USE DEF ProbeInv, Served, rest
<1>1. session' = session
  BY SameSession
<1>2. ProbeTypeOK' /\ IsFunction'
  BY DEF ProbeTypeOK, IsFunction
<1>3. ClientsOK' /\ ReadyOK' /\ AnswersOK'
  BY DEF ClientsOK, ReadyOK, AnswersOK, Between
<1>4. ContractsOK'
  BY <1>1 DEF ContractsOK
<1> QED
  BY <1>2, <1>3, <1>4

\* The client is disconnected, and the command goes on to its next session,
\* to its events, or to its end.
LEMMA CloseKeeps == ASSUME ProbeInv, CloseClient PROVE ProbeInv'
<1> USE DEF ProbeInv, CloseClient, Disconnected
<1>1. IsFunction' /\ DOMAIN pending' = {} /\ awaited' = {} /\ todo' = {}
  BY NothingPending DEF IsFunction
<1>2. step' \in {"connect", "publish", "ended"}
  BY DEF AfterFailure
<1>3. closed' = made' /\ closed' \in Nat /\ ClientsOK'
  BY <1>2 DEF ClientsOK, ProbeTypeOK, Between
<1>4. AnswersOK'
  BY <1>1 DEF AnswersOK
<1>5. CASE result' = "failed" /\ step' = AfterFailure /\ UNCHANGED at
  <2>1. session' = session
    BY <1>5, SameSession
  <2>2. step' = "ended" \/ (step' = "publish" /\ session = "handshake")
    BY <1>5 DEF AfterFailure
  <2>3. step' = "ended" \/ (step' = "publish" /\ ~(Len(command') > 1))
    BY <2>2, SessionFacts DEF ProbeTypeOK
  <2>4. ProbeTypeOK'
    BY <1>1, <1>2, <1>3, <1>5 DEF ProbeTypeOK
  <2>5. ReadyOK'
    BY <1>5, <2>3 DEF ReadyOK
  <2>6. ContractsOK'
    BY <1>1, <2>1, <2>3 DEF ContractsOK
  <2> QED
    BY <1>1, <1>3, <1>4, <2>4, <2>5, <2>6
<1>6. CASE result = "none" /\ ~LastSession /\ at' = at + 1 /\ step' = "connect" /\ UNCHANGED result
  <2>1. at # Len(command) /\ Len(command) \in Nat /\ at \in 1 .. Len(command)
    BY <1>6, SessionFacts DEF LastSession, ProbeTypeOK
  <2>2. session # "options" /\ at' \in 1 .. Len(command')
    BY <1>6, <2>1, SessionFacts DEF ProbeTypeOK
  <2>3. ProbeTypeOK'
    BY <1>1, <1>2, <1>3, <1>6, <2>2 DEF ProbeTypeOK
  <2>4. ReadyOK'
    BY <1>6 DEF ReadyOK
  <2>5. ContractsOK'
    BY <1>1, <1>6, <2>2 DEF ContractsOK
  <2> QED
    BY <1>1, <1>3, <1>4, <2>3, <2>4, <2>5
<1>7. CASE result = "none" /\ LastSession /\ step' = "publish" /\ UNCHANGED <<at, result>>
  <2>1. session' = session
    BY <1>7, SameSession
  <2>2. ProbeTypeOK'
    BY <1>1, <1>2, <1>3, <1>7 DEF ProbeTypeOK
  <2>3. ReadyOK'
    BY <1>7 DEF ReadyOK
  <2>4. Len(command) > 1 => quotes = contracts
    <3>1. CASE session = "options"
      BY <1>7, <3>1 DEF ContractsOK
    <3>2. CASE session # "options" /\ Len(command) > 1
      <4>1. contracts = {}
        BY <1>7, <3>2, SessionFacts DEF LastSession, ProbeTypeOK
      <4> QED
        BY <3>2, <4>1 DEF ContractsOK
    <3> QED
      BY <3>1, <3>2
  <2>5. ContractsOK'
    BY <1>1, <1>7, <2>1, <2>4 DEF ContractsOK
  <2> QED
    BY <1>1, <1>3, <1>4, <2>2, <2>3, <2>5
<1> QED
  BY <1>5, <1>6, <1>7

\* An event is accepted or not.
LEMMA PostKeeps == ASSUME ProbeInv, Post PROVE ProbeInv'
<1> USE DEF ProbeInv, Post
<1>1. session' = session
  BY SameSession
<1>2. step' \in {"publish", "ended"} /\ posted' \in Nat /\ result' \in {"none", "ok", "failed"}
      /\ (step' = "publish" => result' = result)
  BY DEF ProbeTypeOK
<1>3. ProbeTypeOK' /\ IsFunction'
  BY <1>2 DEF ProbeTypeOK, IsFunction
<1>4. ClientsOK' /\ ReadyOK' /\ AnswersOK'
  BY <1>2 DEF ClientsOK, ReadyOK, AnswersOK, Between
<1>5. ContractsOK'
  BY <1>1, <1>2 DEF ContractsOK
<1> QED
  BY <1>3, <1>4, <1>5

LEMMA NextValidIdKeeps == ASSUME ProbeInv, NextValidId PROVE ProbeInv'
<1> USE DEF ProbeInv, NextValidId, main
<1>1. session' = session
  BY SameSession
<1>2. ProbeTypeOK' /\ IsFunction'
  BY DEF ProbeTypeOK, IsFunction
<1>3. ClientsOK' /\ ReadyOK' /\ AnswersOK'
  BY DEF ClientsOK, ReadyOK, AnswersOK
<1>4. ContractsOK'
  BY <1>1 DEF ContractsOK
<1> QED
  BY <1>2, <1>3, <1>4

\* A callback changes one entry, and completes it with its answer only.
LEMMA CallbackKeeps ==
  ASSUME ProbeInv, NEW n \in DOMAIN pending, Data(n) \/ End(n) \/ Refuse(n)
  PROVE  ProbeInv'
<1> USE DEF ProbeInv, main
<1>1. session' = session /\ UNCHANGED main /\ answered \subseteq answered'
  BY SameSession DEF Data, End, Refuse
<1>2. pending \in [DOMAIN pending -> Entry] /\ n \in Name
  BY DEF ProbeTypeOK, IsFunction
<1>3. /\ DOMAIN pending' = DOMAIN pending /\ IsFunction'
      /\ \A o \in DOMAIN pending : o # n => pending'[o] = pending[o]
  BY <1>2 DEF Data, End, Refuse, IsFunction
<1>4. /\ pending'[n] \in Entry
      /\ pending'[n].set /\ ~pending'[n].error => n \in answered'
  <2>1. CASE Data(n)
    BY <1>2, <2>1 DEF Data, Entry
  <2>2. CASE End(n)
    BY <1>2, <2>2 DEF End, Entry
  <2>3. CASE Refuse(n)
    BY <1>2, <2>3, EntryFacts DEF Refuse
  <2> QED
    BY <2>1, <2>2, <2>3
<1>5. ProbeTypeOK'
  <2>1. /\ UNCHANGED <<ready, terminal, linked, valid, reader, losses>>
        /\ answered' \subseteq Name
    BY <1>2 DEF ProbeTypeOK, Data, End, Refuse
  <2> QED
    BY <1>1, <1>2, <1>3, <1>4, <2>1 DEF ProbeTypeOK
<1>6. ClientsOK' /\ ReadyOK' /\ AnswersOK'
  BY <1>1, <1>3, <1>4 DEF ClientsOK, ReadyOK, AnswersOK, Data, End, Refuse
<1>7. ContractsOK'
  BY <1>1 DEF ContractsOK
<1> QED
  BY <1>3, <1>5, <1>6, <1>7

\* A loss fails all that is pending, or some of it, and completes nothing.
LEMMA LoseKeeps == ASSUME ProbeInv, Lose PROVE ProbeInv'
<1> USE DEF ProbeInv, Lose, main
<1>1. session' = session
  BY SameSession
<1>2. PICK some \in SUBSET DOMAIN pending :
        pending' = [n \in DOMAIN pending |-> IF n \in some THEN Failed(pending[n]) ELSE pending[n]]
  <2>1. CASE pending' = [n \in DOMAIN pending |-> Failed(pending[n])]
    BY <2>1
  <2> QED
    BY <2>1
<1>3. /\ DOMAIN pending' = DOMAIN pending /\ IsFunction'
      /\ \A n \in DOMAIN pending' : pending'[n] \in Entry
      /\ \A n \in DOMAIN pending' : pending'[n].set /\ ~pending'[n].error => n \in answered
  BY <1>2, EntryFacts DEF ProbeTypeOK, AnswersOK, IsFunction
<1>4. ProbeTypeOK'
  <2>1. losses' \in Nat
    BY DEF ProbeTypeOK
  <2>2. reader' \in {"off", "on", "dead"}
    BY DEF ProbeTypeOK
  <2>3. {ready', terminal', linked', valid'} \subseteq BOOLEAN
    <3>1. ready' = TRUE \/ ready' = ready
      OBVIOUS
    <3>2. ready' \in BOOLEAN /\ valid' \in BOOLEAN
      BY <3>1 DEF ProbeTypeOK
    <3>3. linked' \in BOOLEAN /\ terminal' \in BOOLEAN
      BY Zenon
    <3> QED
      BY <3>2, <3>3
  <2> QED
    BY <1>3, <2>1, <2>2, <2>3 DEF ProbeTypeOK
<1>5. ClientsOK' /\ ReadyOK' /\ AnswersOK'
  BY <1>3 DEF ClientsOK, ReadyOK, AnswersOK
<1>6. ContractsOK'
  BY <1>1 DEF ContractsOK
<1> QED
  BY <1>3, <1>4, <1>5, <1>6

LEMMA ProbeKeeps == ProbeInv /\ [ProbeNext]_probeVars => ProbeInv'
<1> SUFFICES ASSUME ProbeInv, [ProbeNext]_probeVars
             PROVE  ProbeInv'
  OBVIOUS
<1>1. CASE Connect \/ Unavailable \/ CloseClient \/ Post
  BY <1>1, ConnectKeeps, UnavailableKeeps, CloseKeeps, PostKeeps
<1>2. CASE IsReady \/ NotReady \/ Broken \/ Ask \/ Got \/ Served
  BY <1>2, WaitKeeps, AskKeeps, GotKeeps, ServedKeeps
<1>3. CASE NextValidId \/ Lose
  BY <1>3, NextValidIdKeeps, LoseKeeps
<1>4. ASSUME NEW n \in DOMAIN pending, Data(n) \/ End(n) \/ Refuse(n)
      PROVE  ProbeInv'
  BY <1>4, CallbackKeeps
<1>5. CASE UNCHANGED probeVars
  <2>1. UNCHANGED main /\ session' = session
    BY <1>5, SameSession DEF probeVars, main
  <2>2. UNCHANGED <<ready, terminal, reader, linked, pending, losses, valid, answered>>
    BY <1>5 DEF probeVars
  <2>3. ProbeTypeOK' /\ IsFunction' /\ ClientsOK' /\ ReadyOK' /\ AnswersOK'
    BY <2>1, <2>2 DEF ProbeInv, main, ProbeTypeOK, IsFunction, ClientsOK, ReadyOK, AnswersOK
  <2>4. ContractsOK'
    BY <2>1, <2>2 DEF ProbeInv, main, ContractsOK
  <2> QED
    BY <2>3, <2>4 DEF ProbeInv
<1> QED
  BY <1>1, <1>2, <1>3, <1>4, <1>5 DEF ProbeNext, Main, Reader

LEMMA ProbeInvariance == ProbeSpec => []ProbeInv
  BY ProbeStarts, ProbeKeeps, PTL DEF ProbeSpec

\* Every variable keeps its type; no entry is looked at that was not
\* registered, and no contract is quoted that was not discovered.
THEOREM ProbeTypeCorrect == ProbeSpec => []ProbeTypeOK
<1>1. ProbeInv => ProbeTypeOK
  BY DEF ProbeInv
<1> QED
  BY <1>1, ProbeInvariance, PTL

\* Requests are made, and a handshake is reported as connected, only after
\* nextValidId, whatever else sets ready_event.
THEOREM ReadinessEarned == ProbeSpec => []ReadyIsEarned
<1>1. ProbeInv => ReadyIsEarned
  BY DEF ProbeInv, ReadyOK, ReadyIsEarned
<1> QED
  BY <1>1, ProbeInvariance, PTL

\* At the first event of a delayed snapshot every contract has a quote, and
\* that from an answer the gateway completed.
THEOREM SnapshotsWhole == ProbeSpec => []WholeSnapshot
<1>1. ProbeInv => WholeSnapshot
  BY DEF ProbeInv, AnswersOK, ContractsOK, WholeSnapshot
<1> QED
  BY <1>1, ProbeInvariance, PTL

\* A client is disconnected before the next is made and before the end.
THEOREM ClientsReleased == ProbeSpec => []Released
<1>1. ProbeInv => Released
  BY DEF ProbeInv, ProbeTypeOK, ClientsOK, Between, Released
<1> QED
  BY <1>1, ProbeInvariance, PTL

\* How far a command is: its session, the place within it, and at that
\* place what is left to ask for and look at, or to post.  The parameters of
\* the options bring a window of them to resolve.
Place == CASE step = "connect" -> 0 [] step = "ready" -> 1 [] step \in {"ask", "wait"} -> 2
           [] step = "close" -> 3 [] step = "publish" -> 4 [] step = "ended" -> 5
LeftToAsk == 2 * Cardinality(todo) + Cardinality(awaited)
               + (IF Params \in todo \cup awaited THEN 2 * Cardinality(Option) ELSE 0)
LeftToDo == IF step = "publish" THEN Events - posted ELSE LeftToAsk
Advances ==
  \/ at' > at
  \/ at' = at /\ Place' > Place
  \/ at' = at /\ Place' = Place /\ LeftToDo' < LeftToDo

PostedOK == IF step = "publish" THEN posted <= Events ELSE step = "ended" \/ posted = 0
TurnOK ==
  /\ step = "ready" => awaited = {}
  /\ step = "wait" => awaited # {}
  /\ step = "ask" => IF session = "options" THEN todo # {} \/ awaited = {} ELSE awaited = {}
  /\ result = "ok" => step = "ended"

ProgressInv == ProbeInv /\ PostedOK /\ TurnOK

\* Some step of the main thread is always possible: the guards of Main.
GoesOn ==
  \/ step \in {"connect", "ready", "ended"}
  \/ step = "ask" /\ (IF todo = {} THEN awaited = {} ELSE session = "options" \/ awaited = {})
  \/ /\ step = "wait" /\ awaited # {}
     /\ LET e == pending[Looked]
        IN (Complete(e) /\ ~Unusable(e)) \/ Overdue(e) \/ (e.set /\ (e.error \/ Unusable(e)))
  \/ step = "close" /\ result \in {"none", "failed"}
  \/ step = "publish" /\ posted <= Events

\* There are finitely many requests, and what is left is a number.
LEMMA NamesAreFinite ==
  \A S \in SUBSET Name : IsFiniteSet(S) /\ Cardinality(S) \in Nat
<1>1. IsFiniteSet({Details}) /\ IsFiniteSet({Lookup}) /\ IsFiniteSet({Params})
  BY FS_Singleton
<1>2. IsFiniteSet(({Details} \cup {Lookup}) \cup {Params})
  BY <1>1, FS_Union
<1>3. Name = Option \cup (({Details} \cup {Lookup}) \cup {Params})
  BY DEF Name
<1>4. IsFiniteSet(Name)
  BY <1>2, <1>3, OptionAssumption, FS_Union
<1> QED
  BY <1>4, FS_Subset, FS_CardinalityType

LEMMA LeftIsNatural ==
  ASSUME ProbeTypeOK
  PROVE  /\ Cardinality(Option) \in Nat
         /\ Cardinality(todo) \in Nat /\ Cardinality(awaited) \in Nat
         /\ Cardinality(contracts) \in Nat /\ Cardinality(quotes) \in Nat
         /\ LeftToAsk \in Nat /\ Events \in Nat
<1>1. /\ Option \subseteq Name /\ todo \subseteq Name /\ awaited \subseteq Name
      /\ contracts \subseteq Name /\ quotes \subseteq Name
  BY DEF ProbeTypeOK, Name
<1>2. /\ Cardinality(Option) \in Nat /\ Cardinality(todo) \in Nat /\ Cardinality(awaited) \in Nat
      /\ Cardinality(contracts) \in Nat /\ Cardinality(quotes) \in Nat
  BY <1>1, NamesAreFinite
<1>3. LeftToAsk \in Nat
  BY <1>2 DEF LeftToAsk
<1>4. Events \in Nat
  BY <1>2 DEF Events
<1> QED
  BY <1>2, <1>3, <1>4

LEMMA NumbersNext ==
  ASSUME ProbeInv'
  PROVE  Events' \in Nat
<1>1. contracts' \subseteq Name /\ quotes' \subseteq Name
  BY DEF ProbeInv, ProbeTypeOK, Name
<1>2. Cardinality(contracts') \in Nat /\ Cardinality(quotes') \in Nat
  BY <1>1, NamesAreFinite
<1> QED
  BY <1>2 DEF Events

\* Going on in the session takes one to a later place.
LEMMA LaterPlace ==
  ASSUME ProbeTypeOK, step' \in {"connect", "ready", "ask", "wait", "close", "publish", "ended"},
         at' = at,
         \/ step = "connect" /\ step' # "connect"
         \/ step = "ready" /\ step' \in {"ask", "close"}
         \/ step \in {"ask", "wait"} /\ step' = "close"
         \/ step = "close" /\ step' \in {"publish", "ended"}
         \/ step = "publish" /\ step' = "ended"
  PROVE  Advances
<1>1. step \in {"connect", "ready", "ask", "wait", "close", "publish", "ended"}
  BY DEF ProbeTypeOK
<1>2. Place' > Place
  BY <1>1 DEF Place
<1> QED
  BY <1>2 DEF Advances

\* Asking and looking take something off what is left.
LEMMA AskAdvances == ASSUME ProgressInv, Ask PROVE Advances
<1>1. ProbeTypeOK /\ ProbeTypeOK' /\ ContractsOK
  BY AskKeeps DEF ProgressInv, ProbeInv
<1>2. Asked \in todo
  BY <1>1, FirstIsThere DEF Ask, Asked, ProbeTypeOK
<1>3. /\ todo' = todo \ {Asked} /\ awaited' = awaited \cup {Asked}
      /\ at' = at /\ step = "ask" /\ step' \in {"ask", "wait"}
  BY DEF Ask, rest
<1>4. /\ Cardinality(todo') = Cardinality(todo) - 1
      /\ Cardinality(awaited') <= Cardinality(awaited) + 1
  <2>1. IsFiniteSet(todo) /\ IsFiniteSet(awaited) /\ Cardinality(awaited) \in Nat
    BY <1>1, NamesAreFinite DEF ProbeTypeOK
  <2>2. /\ Cardinality(todo \ {Asked}) = Cardinality(todo) - 1
    BY <1>2, <2>1, FS_RemoveElement
  <2>3. Cardinality(awaited \cup {Asked}) <= Cardinality(awaited) + 1
    BY <2>1, FS_AddElement
  <2> QED
    BY <1>3, <2>2, <2>3
<1>5. todo' \cup awaited' = todo \cup awaited
  BY <1>2, <1>3
<1>6. LeftToAsk' < LeftToAsk
  <2> DEFINE n == Cardinality(todo)
             m == Cardinality(awaited)
             k == Cardinality(todo')
             l == Cardinality(awaited')
             w == IF Params \in todo \cup awaited THEN 2 * Cardinality(Option) ELSE 0
  <2>1. n \in Nat /\ m \in Nat /\ w \in Nat
    BY <1>1, LeftIsNatural
  <2>2. k \in Nat /\ l \in Nat
    BY <1>1, NamesAreFinite DEF ProbeTypeOK
  <2>3. k = n - 1 /\ l <= m + 1
    BY <1>4
  <2>4. LeftToAsk = 2 * n + m + w
    BY DEF LeftToAsk
  <2>5. LeftToAsk' = 2 * k + l + w
    BY <1>5 DEF LeftToAsk
  <2> HIDE DEF n, m, k, l, w
  <2> QED
    BY <2>1, <2>2, <2>3, <2>4, <2>5
<1>7. Place' = Place
  BY <1>3 DEF Place
<1> QED
  BY <1>3, <1>6, <1>7 DEF Advances, LeftToDo

\* An answer is taken, and with it perhaps a window of options to resolve.
LEMMA GotAdvances == ASSUME ProgressInv, Got PROVE Advances
<1>1. ProbeTypeOK /\ ProbeTypeOK' /\ ContractsOK
  BY GotKeeps DEF ProgressInv, ProbeInv
<1>2. Looked \in awaited /\ awaited' = awaited \ {Looked}
  BY <1>1, FirstIsThere DEF Got, Looked, ProbeTypeOK
<1>3. at' = at /\ step = "wait" /\ step' \in {"ask", "wait"}
  BY DEF Got, rest
<1>4. Cardinality(awaited') = Cardinality(awaited) - 1
  <2>1. IsFiniteSet(awaited)
    BY <1>1, NamesAreFinite DEF ProbeTypeOK
  <2> QED
    BY <1>2, <2>1, FS_RemoveElement
<1> DEFINE n == Cardinality(todo)
           m == Cardinality(awaited)
           k == Cardinality(todo')
           l == Cardinality(awaited')
           o == Cardinality(Option)
           v == IF Params \in todo \cup awaited THEN 2 * o ELSE 0
           w == IF Params \in todo' \cup awaited' THEN 2 * o ELSE 0
<1>5. n \in Nat /\ m \in Nat /\ o \in Nat
  BY <1>1, LeftIsNatural
<1>6. k \in Nat /\ l \in Nat
  BY <1>1, NamesAreFinite DEF ProbeTypeOK
<1>7. LeftToAsk = 2 * n + m + v /\ LeftToAsk' = 2 * k + l + w
  BY DEF LeftToAsk
<1>8. LeftToAsk' < LeftToAsk
  <2>1. CASE todo' = todo
    <3>1. k = n /\ (w = v \/ w = 0)
      BY <1>2, <2>1
    <3> HIDE DEF n, m, k, l
    <3>2. v \in Nat /\ w \in Nat /\ w <= v
      BY <1>2, <1>5, <2>1
    <3>3. l = m - 1
      BY <1>4 DEF l, m
    <3> HIDE DEF v, w
    <3> QED
      BY <1>5, <1>6, <1>7, <3>1, <3>2, <3>3
  <2>2. CASE todo' \subseteq Option /\ Looked = Params /\ session = "discovery"
    <3>1. Params \notin Option
      BY OptionAssumption DEF Params
    <3>2. awaited' = {}
      BY <1>1, <1>2, <2>2 DEF ContractsOK
    <3>3. w = 0 /\ v = 2 * o
      BY <1>2, <2>2, <3>1, <3>2
    <3>4. k <= o
      BY <2>2, OptionAssumption, FS_Subset
    <3>5. l = m - 1
      BY <1>4
    <3> HIDE DEF n, m, k, l, v, w, o
    <3> QED
      BY <1>5, <1>6, <1>7, <3>3, <3>4, <3>5
  <2>3. todo' = todo \/ (todo' \subseteq Option /\ Looked = Params /\ session = "discovery")
    <3>1. session \in {"handshake", "discovery", "options", "underlying"}
      BY <1>1, SessionFacts DEF ProbeTypeOK
    <3>2. CASE session = "discovery" /\ Looked = Params
      BY <3>2 DEF Got, Learns
    <3>3. CASE ~(session = "discovery" /\ Looked = Params)
      <4>1. CASE session = "discovery" /\ Looked \in Option
        BY <3>3, <4>1 DEF Got, Learns
      <4>2. CASE session = "options"
        BY <4>2 DEF Got, Learns
      <4>3. CASE session # "options" /\ ~(session = "discovery" /\ Looked \in Option)
        BY <3>3, <4>3 DEF Got, Learns
      <4> QED
        BY <4>1, <4>2, <4>3
    <3> QED
      BY <3>2, <3>3
  <2> QED
    BY <2>1, <2>2, <2>3
<1>9. Place' = Place
  BY <1>3 DEF Place
<1> QED
  BY <1>3, <1>8, <1>9 DEF Advances, LeftToDo

\* An event less to post, or the end.
LEMMA PostAdvances == ASSUME ProgressInv, Post PROVE Advances
<1>1. ProbeTypeOK /\ PostedOK
  BY DEF ProgressInv, ProbeInv
<1>2. CASE step' = "ended"
  BY <1>1, <1>2, LaterPlace DEF Post
<1>3. CASE step' # "ended"
  <2>1. /\ step = "publish" /\ step' = step /\ at' = at
        /\ posted' = posted + 1 /\ posted < Events
    BY <1>3 DEF Post
  <2>2. Events' = Events
    BY SameSession DEF Post, Events
  <2>3. posted \in Nat /\ Events \in Nat
    BY <1>1, LeftIsNatural DEF ProbeTypeOK
  <2>4. LeftToDo' < LeftToDo
    BY <2>1, <2>2, <2>3 DEF LeftToDo
  <2>5. Place' = Place
    BY <2>1 DEF Place
  <2> QED
    BY <2>1, <2>4, <2>5 DEF Advances
<1> QED
  BY <1>2, <1>3

\* Every step of the main thread brings the command closer to its end.
LEMMA MainAdvances == ASSUME ProgressInv, Main \/ Unavailable PROVE Advances
<1>1. ProbeTypeOK
  BY DEF ProgressInv, ProbeInv
<1>2. CASE Connect \/ Unavailable
  BY <1>1, <1>2, LaterPlace DEF Connect, Unavailable, AfterFailure
<1>3. CASE IsReady \/ NotReady \/ Broken \/ Served
  BY <1>1, <1>3, LaterPlace DEF IsReady, NotReady, Broken, Served, Fail, rest
<1>4. CASE CloseClient
  <2>1. CASE at' = at + 1
    BY <1>1, <2>1 DEF Advances, ProbeTypeOK
  <2>2. CASE at' # at + 1
    BY <1>1, <1>4, <2>2, LaterPlace DEF CloseClient, AfterFailure
  <2> QED
    BY <2>1, <2>2
<1>5. CASE Ask \/ Got \/ Post
  BY <1>5, AskAdvances, GotAdvances, PostAdvances
<1> QED
  BY <1>2, <1>3, <1>4, <1>5 DEF Main

\* The reader thread does nothing of the main thread.
LEMMA ReaderWaits == Reader \/ UNCHANGED probeVars => UNCHANGED main
BY DEF Reader, NextValidId, Lose, Data, End, Refuse, probeVars

LEMMA ProgressStarts == ProbeInit => ProgressInv
BY ProbeStarts DEF ProbeInit, ProgressInv, PostedOK, TurnOK

LEMMA ProgressKeeps == ProgressInv /\ [ProbeNext]_probeVars => ProgressInv'
<1> SUFFICES ASSUME ProgressInv, [ProbeNext]_probeVars
             PROVE  ProgressInv'
  OBVIOUS
<1>1. ProbeInv /\ ProbeInv' /\ PostedOK /\ TurnOK
  BY ProbeKeeps DEF ProgressInv
<1>2. CASE UNCHANGED main
  <2>1. session' = session
    BY <1>2, SameSession DEF main
  <2>2. Events' = Events
    BY <1>2, <2>1 DEF main, Events
  <2>3. PostedOK'
    BY <1>1, <1>2, <2>2 DEF main, PostedOK
  <2>4. TurnOK'
    BY <1>1, <1>2, <2>1 DEF main, TurnOK
  <2> QED
    BY <1>1, <2>3, <2>4 DEF ProgressInv
<1>3. CASE Connect \/ Unavailable
  <2>1. /\ step = "connect" /\ posted' = posted /\ step' \in {"ready", "close", "publish", "ended"}
        /\ step' = "ready" => awaited' = {}
        /\ result' = result \/ result' = "failed"
    BY <1>3 DEF Connect, Unavailable, AfterFailure
  <2>2. posted' = 0 /\ Events' \in Nat
    BY <1>1, <2>1, NumbersNext DEF PostedOK
  <2>3. result' # "ok"
    BY <1>1, <2>1 DEF TurnOK
  <2> QED
    BY <1>1, <2>1, <2>2, <2>3 DEF ProgressInv, PostedOK, TurnOK
<1>4. CASE IsReady \/ NotReady \/ Broken \/ Served
  <2>1. /\ posted' = posted /\ step \notin {"publish", "ended"} /\ step' \in {"ask", "close"}
        /\ step' = "ask" => awaited' = awaited /\ step = "ready"
        /\ result' = result \/ result' = "failed"
    BY <1>4 DEF IsReady, NotReady, Broken, Served, Fail, rest
  <2>2. PostedOK' /\ result' # "ok"
    BY <1>1, <2>1 DEF PostedOK, TurnOK
  <2>3. step' = "ask" => awaited' = {}
    BY <1>1, <2>1 DEF TurnOK
  <2> QED
    BY <1>1, <2>1, <2>2, <2>3 DEF ProgressInv, TurnOK
<1>5. CASE Ask
  <2>1. session' = session /\ posted' = posted /\ result' = result /\ step = "ask"
    BY <1>5, SameSession DEF Ask, rest
  <2>2. /\ step' = IF session = "options" /\ todo' # {} THEN "ask" ELSE "wait"
        /\ awaited' # {}
    BY <1>5 DEF Ask
  <2>3. PostedOK'
    BY <1>1, <2>1, <2>2 DEF PostedOK
  <2> QED
    BY <1>1, <2>1, <2>2, <2>3 DEF ProgressInv, TurnOK
<1>6. CASE Got
  <2>1. /\ session' = session /\ posted' = posted /\ result' = result /\ step = "wait"
        /\ step' = IF awaited' # {} THEN "wait" ELSE "ask"
    BY <1>6, SameSession DEF Got, rest
  <2>2. PostedOK'
    BY <1>1, <2>1 DEF PostedOK
  <2> QED
    BY <1>1, <2>1, <2>2 DEF ProgressInv, TurnOK
<1>7. CASE CloseClient
  <2>1. /\ step = "close" /\ posted' = posted /\ step' \in {"connect", "publish", "ended"}
        /\ result' \in {"none", "failed"}
    BY <1>7 DEF CloseClient, AfterFailure
  <2>2. posted' = 0 /\ Events' \in Nat
    BY <1>1, <2>1, NumbersNext DEF PostedOK
  <2> QED
    BY <1>1, <2>1, <2>2 DEF ProgressInv, PostedOK, TurnOK
<1>8. CASE Post
  <2>1. /\ step = "publish" /\ step' \in {"publish", "ended"}
        /\ result' = "ok" => step' = "ended" \/ result = "ok"
        /\ step' = "publish" => posted' = posted + 1 /\ posted < Events
    BY <1>8 DEF Post
  <2>2. Events' = Events
    BY <1>8, SameSession DEF Post, Events
  <2>3. posted \in Nat /\ Events \in Nat
    BY <1>1, LeftIsNatural DEF ProbeInv, ProbeTypeOK
  <2>4. PostedOK'
    BY <2>1, <2>2, <2>3 DEF PostedOK
  <2> QED
    BY <1>1, <2>1, <2>4 DEF ProgressInv, TurnOK
<1>9. CASE Reader \/ UNCHANGED probeVars
  BY <1>2, <1>9, ReaderWaits
<1> QED
  BY <1>3, <1>4, <1>5, <1>6, <1>7, <1>8, <1>9 DEF ProbeNext, Main

LEMMA ProgressInvariance == ProbeSpec => []ProgressInv
  BY ProgressStarts, ProgressKeeps, PTL DEF ProbeSpec

\* Whatever the gateway and the reader thread do, the main thread of a
\* command never stands still: in every state but the last one of its steps
\* is possible, a timeout at least.
THEOREM CommandsGoOn == ProbeSpec => []GoesOn
<1>1. ProgressInv => GoesOn
  <2> SUFFICES ASSUME ProgressInv
               PROVE  GoesOn
    OBVIOUS
  <2>1. /\ step \in {"connect", "ready", "ask", "wait", "close", "publish", "ended"}
        /\ result \in {"none", "ok", "failed"}
    BY DEF ProgressInv, ProbeInv, ProbeTypeOK
  <2>2. CASE step = "wait"
    BY <2>2, Zenon DEF ProgressInv, TurnOK, GoesOn, Complete, Overdue
  <2>3. CASE step # "wait"
    BY <2>1, <2>3 DEF ProgressInv, TurnOK, PostedOK, GoesOn
  <2> QED
    BY <2>2, <2>3
<1> QED
  BY <1>1, ProgressInvariance, PTL

\* Each step of the main thread brings the command closer to its end, by its
\* session, the place in it or what is left there, and what the reader thread
\* does takes nothing back: what it is asked to wait for is bounded.
THEOREM CommandsAdvance == ProbeSpec => [][UNCHANGED main \/ Advances]_probeVars
<1>1. ProgressInv /\ [ProbeNext]_probeVars => [UNCHANGED main \/ Advances]_probeVars
  BY MainAdvances, ReaderWaits DEF ProbeNext
<1> QED
  BY <1>1, ProgressInvariance, PTL DEF ProbeSpec

\* The measure of an advance is bounded: the command's sessions, the six
\* places, and numbers.
THEOREM AdvancesAreBounded ==
  ProbeSpec => [](at \in 1 .. Len(command) /\ Place \in 0 .. 5 /\ LeftToDo \in Nat)
<1>1. ProgressInv => at \in 1 .. Len(command) /\ Place \in 0 .. 5 /\ LeftToDo \in Nat
  <2> SUFFICES ASSUME ProgressInv
               PROVE  at \in 1 .. Len(command) /\ Place \in 0 .. 5 /\ LeftToDo \in Nat
    OBVIOUS
  <2>1. ProbeTypeOK /\ PostedOK
    BY DEF ProgressInv, ProbeInv
  <2>2. at \in 1 .. Len(command) /\ posted \in Nat
    BY <2>1 DEF ProbeTypeOK
  <2>3. Place \in 0 .. 5
    BY <2>1 DEF ProbeTypeOK, Place
  <2>4. LeftToDo \in Nat
    BY <2>1, <2>2, LeftIsNatural DEF LeftToDo, PostedOK
  <2> QED
    BY <2>2, <2>3, <2>4
<1> QED
  BY <1>1, ProgressInvariance, PTL
=============================================================================
